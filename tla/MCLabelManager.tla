--------------------------- MODULE MCLabelManager ---------------------------
(***************************************************************************)
(* LabelManager with a clock of a few seconds, a label per second and one  *)
(* per "day" of DayLength seconds.  A label name is its period and the     *)
(* number of that period; parsing it yields the start of the period.       *)
(***************************************************************************)
EXTENDS LabelManager, TLC

CONSTANTS second, day, broken, MaxTime, DayLength

MCFormat == {second, day, broken}
MCTime == 0 .. MaxTime
MCHold == 0 .. DayLength + 1
Period(f) == IF f = second THEN 1 ELSE DayLength
MCName == {<<f, n>> : f \in MCFormat, n \in MCTime}

MCFormatTime(t, f) == <<f, t \div Period(f)>>
MCParseOK(n, f) == f # broken
MCParseTime(n, f) == n[2] * Period(f)

(* The usual configuration: a day is kept longer than a second.  The same  *)
(* with a shorter day and seconds not set.  One without the day, whose     *)
(* labels keep their initial hold time, and with an unparsable format.     *)
Usual   == second :> 1 @@ day :> DayLength + 1
Shorter == second :> 0 @@ day :> 1
Without == second :> 1 @@ broken :> 1
MCConfigs == {Usual, Shorter, Without}

Symmetry == Permutations(Entry)
=============================================================================
