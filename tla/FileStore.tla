----------------------------- MODULE FileStore ------------------------------
(***************************************************************************)
(* What a backup engine promises about the contents of a backup: a set of  *)
(* files that changes one file at a time while the backup is taken, is the *)
(* same for every reader once it is sealed, and can afterwards only be     *)
(* lost as a whole, never be mistaken for something else.                  *)
(***************************************************************************)
CONSTANTS
  Name,    \* names of files
  Missing  \* no such file

VARIABLES
  files,  \* the content of every file
  state   \* "open", "sealed", "spoiled", "failed"

vars == <<files, state>>

NoFiles == [n \in Name |-> Missing]

(* A file that is there from the beginning is empty.                       *)
Init == files \in [Name -> {Missing, <<>>}] /\ state = "open"

(* A file is written, in full or in part, or removed.                      *)
Change(n) ==
  /\ state = "open"
  /\ \A m \in Name \ {n} : files'[m] = files[m]
  /\ UNCHANGED state

Seal ==
  /\ state = "open"
  /\ state' = "sealed"
  /\ UNCHANGED files

Fail ==
  /\ state = "open"
  /\ state' = "failed"
  /\ files' = NoFiles

Spoil ==
  /\ state = "sealed"
  /\ state' = "spoiled"
  /\ files' = NoFiles

Next == (\E n \in Name : Change(n)) \/ Seal \/ Fail \/ Spoil

Spec == Init /\ [][Next]_vars
=============================================================================
