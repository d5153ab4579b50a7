--------------------------- MODULE MCBackupRunner ---------------------------
(* BackupRunner for TLC: pumps are interchangeable, and so are callers.    *)
EXTENDS BackupRunner, TLC

Symmetry == Permutations(Pump) \cup Permutations(Caller)
=============================================================================
