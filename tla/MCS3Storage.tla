---------------------------- MODULE MCS3Storage -----------------------------
(***************************************************************************)
(* S3Storage with a clock of a few seconds, a label per second and one per *)
(* "day" of DayLength seconds.                                             *)
(***************************************************************************)
EXTENDS S3Storage, TLC

CONSTANTS second, day, MaxTime, DayLength

MCFormat == {second, day}
MCTime == 0 .. MaxTime
MCHold == 0 .. DayLength
Period(f) == IF f = second THEN 1 ELSE DayLength
MCName == {<<f, n>> : f \in MCFormat, n \in MCTime}

MCFormatTime(t, f) == <<f, t \div Period(f)>>
MCParseOK(n, f) == TRUE
MCParseTime(n, f) == n[2] * Period(f)

(* One configuration; and one whose first change drops the day format and  *)
(* leaves its labels with their initial hold time.                         *)
Usual == second :> 0 @@ day :> DayLength
Changed == second :> 1
OneConfig == {Usual}
TwoConfigs == {Usual, Changed}

Symmetry == Permutations(Entry) \cup Permutations(Session)
=============================================================================
