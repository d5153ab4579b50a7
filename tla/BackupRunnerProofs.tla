------------------------- MODULE BackupRunnerProofs -------------------------
(***************************************************************************)
(* Proofs about BackupRunner, for any number of locations, callers and     *)
(* pumps, with or without outages and restarts.                            *)
(*                                                                         *)
(* The three parts of the invariant are proved one after the other: the    *)
(* flag and its owner, then how far a backup is, then who holds the        *)
(* engine's handler.  Each proof names the actions that touch its          *)
(* variables; all others are one case.                                     *)
(***************************************************************************)
EXTENDS BackupRunner, TLAPS

-----------------------------------------------------------------------------
(* Where triggerRunAction goes with a request.                             *)
LEMMA FirstStepFacts ==
  /\ FirstStep("backup") = "location"
  /\ FirstStep("restore") = "download"
  /\ FirstStep("invalid") = "finish"
  BY DEF FirstStep

(* There is a first location.                                              *)
LEMMA LocFacts ==
  /\ 1 \in Loc /\ NumLoc \in Loc
  /\ \A l \in Loc : l # NumLoc => l + 1 \in Loc
  BY RunnerAssumption DEF Loc

(* The count of a location stays within its bound.                         *)
LEMMA OneMoreType ==
  ASSUME TypeOK
  PROVE  OneMore \in [Loc -> 0 .. MaxStored]
  <1>1. stored[loc] \in 0 .. MaxStored
    BY DEF TypeOK
  <1> QED  BY <1>1, RunnerAssumption DEF OneMore, TypeOK

-----------------------------------------------------------------------------
(* The runner starts well-formed.                                          *)
LEMMA InitType == Init => TypeOK
  <1> SUFFICES ASSUME Init
               PROVE  TypeOK
    OBVIOUS
  <1>1. 0 \in 0 .. MaxStored
    BY RunnerAssumption
  <1>2. stored \in [Loc -> 0 .. MaxStored] /\ count \in 0 .. MaxStored
    BY <1>1 DEF Init
  <1> QED  BY <1>2, LocFacts DEF Init, TypeOK

(* Every step keeps the types.                                             *)
LEMMA NextType ==
  ASSUME TypeOK, FlagHasOwner, [Next]_vars
  PROVE  TypeOK'
  <1> USE DEF action, engine, monitor, history, env
  <1>1. CASE TickAutoBackup
    BY <1>1 DEF TickAutoBackup, TypeOK
  <1>2. CASE MainReceive
    BY <1>2 DEF MainReceive, TypeOK, Payload, JobType
  <1>3. ASSUME NEW c \in Caller, NEW what \in Payload, IPCRequest(c, what)
        PROVE  TypeOK'
    BY <1>3 DEF IPCRequest, TypeOK
  <1>4. ASSUME NEW t \in Thread, Refused(t)
        PROVE  TypeOK'
    BY <1>4 DEF Refused, TypeOK
  <1>5. ASSUME NEW t \in Thread, Start(t)
        PROVE  TypeOK'
    <2>1. request[t] \in {"backup", "restore", "invalid"}
      BY <1>5 DEF Start, TypeOK, Payload, JobType
    <2>2. step' \in {"location", "download", "finish"}
      BY <1>5, <2>1, FirstStepFacts DEF Start
    <2> QED  BY <1>5, <2>2 DEF Start, TypeOK
  <1>6. CASE Register
    <2>1. request[owner] \in JobType
      BY <1>6 DEF Register, FlagHasOwner
    <2> QED  BY <1>6, <2>1 DEF Register, TypeOK
  <1>7. CASE Finish
    BY <1>7, LocFacts DEF Finish, TypeOK
  <1>8. ASSUME NEW p \in Pump, NewStorage(p)
        PROVE  TypeOK'
    BY <1>8 DEF NewStorage, TypeOK
  <1>9. CASE NewStorageFails
    BY <1>9 DEF NewStorageFails, BackupError, TypeOK
  <1>10. CASE UploadDone
    <2>1. loc' \in Loc /\ step' \in {"register", "location"}
      BY <1>10, LocFacts DEF UploadDone, NextLocation, TypeOK
    <2>2. uploaded' \subseteq Loc /\ stored' \in [Loc -> 0 .. MaxStored]
      BY <1>10, OneMoreType DEF UploadDone, TypeOK
    <2>3. /\ pump' \in [Pump -> {"none", "start", "install", "exec", "close", "closed"}]
          /\ result' \in [Pump -> {"ok", "err"}]
          /\ cleaning' \in [Loc -> BOOLEAN]
      BY <1>10 DEF UploadDone, PumpGone, TypeOK
    <2> QED  BY <1>10, <2>1, <2>2, <2>3 DEF UploadDone, TypeOK
  <1>11. CASE UploadGetsError \/ NoLabelsAdded
    BY <1>11 DEF UploadGetsError, NoLabelsAdded, PumpGone, BackupError, TypeOK
  <1>12. CASE UploadFails
    <2>1. stored' \in [Loc -> 0 .. MaxStored]
      BY <1>12, OneMoreType DEF UploadFails, TypeOK
    <2>2. /\ pump' \in [Pump -> {"none", "start", "install", "exec", "close", "closed"}]
          /\ result' \in [Pump -> {"ok", "err"}]
          /\ abandoned' \in BOOLEAN
      BY <1>12 DEF UploadFails, PumpGone, TypeOK
    <2> QED  BY <1>12, <2>1, <2>2 DEF UploadFails, BackupError, TypeOK
  <1>13. CASE Download
    BY <1>13 DEF Download, TypeOK
  <1>14. ASSUME RestoreElsewhere
         PROVE  /\ loc' \in Loc /\ step' \in {"register", "download"}
                /\ failed' \in BOOLEAN
    BY <1>14, LocFacts DEF RestoreElsewhere, TypeOK
  <1>15. CASE DownloadFails
    BY <1>14, <1>15 DEF DownloadFails, RestoreElsewhere, TypeOK
  <1>16. CASE RestoreCheck
    <2>1. CASE hdl = NoHandler
      BY <1>16, <2>1 DEF RestoreCheck, TypeOK
    <2>2. CASE hdl # NoHandler
      BY <1>14, <1>16, <2>2 DEF RestoreCheck, RestoreElsewhere, TypeOK
    <2> QED  BY <2>1, <2>2
  <1>17. CASE RestoreInstall
    BY <1>17 DEF RestoreInstall, TypeOK
  <1>18. CASE RestoreExec
    BY <1>18 DEF RestoreExec, TypeOK
  <1>19. CASE RestoreExecFails
    BY <1>14, <1>19 DEF RestoreExecFails, RestoreElsewhere, TypeOK
  <1>20. ASSUME NEW l \in Loc, CleanUp(l)
         PROVE  TypeOK'
    <2>1. PICK n \in 0 .. stored[l] :
            /\ stored' = [stored EXCEPT ![l] = n]
            /\ count' \in {n, count}
      BY <1>20 DEF CleanUp
    <2>2. n \in 0 .. MaxStored
      BY RunnerAssumption DEF TypeOK
    <2> QED  BY <1>20, <2>1, <2>2 DEF CleanUp, TypeOK
  <1>21. ASSUME NEW p \in Pump, PumpStep(p)
         PROVE  TypeOK'
    <2>1. CASE PumpCheck(p)
      BY <2>1 DEF PumpCheck, TypeOK
    <2>2. CASE PumpInstall(p)
      BY <2>2 DEF PumpInstall, TypeOK
    <2>3. ASSUME NEW r \in {"ok", "err"}, PumpExec(p, r)
          PROVE  TypeOK'
      BY <2>3 DEF PumpExec, TypeOK
    <2>4. CASE PumpClose(p)
      BY <2>4 DEF PumpClose, PumpBecomes, PumpGone, TypeOK
    <2> QED  BY <1>21, <2>1, <2>2, <2>3, <2>4 DEF PumpStep
  <1>22. CASE StorageFlips \/ DBFlips
    BY <1>22 DEF StorageFlips, DBFlips, TypeOK
  <1>23. CASE Restart
    <2>1. count' \in 0 .. MaxStored
      BY <1>23, LocFacts, RunnerAssumption DEF Restart, TypeOK
    <2> QED  BY <1>23, <2>1, LocFacts DEF Restart, TypeOK
  <1>24. CASE UNCHANGED vars
    BY <1>24 DEF vars, TypeOK
  <1> QED
    BY <1>1, <1>2, <1>3, <1>4, <1>5, <1>6, <1>7, <1>8, <1>9, <1>10, <1>11, <1>12, <1>13,
       <1>15, <1>16, <1>17, <1>18, <1>19, <1>20, <1>21, <1>22, <1>23, <1>24
       DEF Next, ActionStep

-----------------------------------------------------------------------------
(* The flag is set exactly while one thread works on its request, and the  *)
(* request does not change under it.                                       *)
LEMMA NextFlag ==
  ASSUME TypeOK, FlagHasOwner, [Next]_vars
  PROVE  FlagHasOwner'
  <1> USE DEF action, engine, monitor, history, env
  <1>1. CASE MainReceive
    BY <1>1 DEF MainReceive, TypeOK, FlagHasOwner
  <1>2. ASSUME NEW c \in Caller, NEW what \in Payload, IPCRequest(c, what)
        PROVE  FlagHasOwner'
    BY <1>2 DEF IPCRequest, TypeOK, FlagHasOwner
  <1>3. ASSUME NEW t \in Thread, Refused(t)
        PROVE  FlagHasOwner'
    BY <1>3 DEF Refused, TypeOK, FlagHasOwner
  <1>4. ASSUME NEW t \in Thread, Start(t)
        PROVE  FlagHasOwner'
    <2>1. t # NoOne /\ request[t] \in {"backup", "restore", "invalid"}
      BY <1>4, RunnerAssumption DEF Start, TypeOK, Payload, JobType
    <2>2. /\ request' = request /\ owner' = t /\ actionRunning' = TRUE
          /\ step' = FirstStep(request[t])
      BY <1>4 DEF Start
    <2>3. \/ request[t] = "backup" /\ step' = "location"
          \/ request[t] = "restore" /\ step' = "download"
          \/ request[t] = "invalid" /\ step' = "finish"
      BY <2>1, <2>2, FirstStepFacts
    <2> QED  BY <2>1, <2>2, <2>3 DEF FlagHasOwner, Downloads, JobType
  <1>5. CASE Register
    BY <1>5 DEF Register, FlagHasOwner, Downloads
  <1>6. CASE Finish
    BY <1>6 DEF Finish, FlagHasOwner, Downloads
  <1>7. ASSUME /\ UNCHANGED <<request, actionRunning, owner>>
               /\ \/ step \in {"location", "upload"}
                     /\ step' \in {"location", "upload", "register"}
                  \/ step \in Downloads
                     /\ step' \in Downloads \cup {"register"}
        PROVE  FlagHasOwner'
    BY <1>7 DEF FlagHasOwner, Downloads, JobType
  <1>8. CASE \/ \E p \in Pump : NewStorage(p)
             \/ NewStorageFails \/ UploadDone \/ UploadGetsError \/ NoLabelsAdded
             \/ UploadFails
    BY <1>7, <1>8
       DEF NewStorage, NewStorageFails, UploadDone, UploadGetsError, NoLabelsAdded,
           UploadFails, BackupError, NextLocation
  <1>9. CASE \/ Download \/ DownloadFails
             \/ RestoreCheck \/ RestoreInstall \/ RestoreExec \/ RestoreExecFails
    BY <1>7, <1>9
       DEF Download, DownloadFails, RestoreCheck, RestoreInstall, RestoreExec,
           RestoreExecFails, RestoreElsewhere, Downloads
  <1>10. CASE Restart
    BY <1>10 DEF Restart, FlagHasOwner, Downloads
  <1>11. CASE UNCHANGED <<request, actionRunning, owner, step>>
    BY <1>11 DEF FlagHasOwner
  <1> QED
    BY <1>1, <1>2, <1>3, <1>4, <1>5, <1>6, <1>8, <1>9, <1>10, <1>11
       DEF Next, ActionStep, TickAutoBackup, CleanUp, PumpStep, PumpCheck, PumpInstall,
           PumpExec, PumpClose, StorageFlips, DBFlips, vars

-----------------------------------------------------------------------------
(* The loop of executeBackup reaches one location after the other, and it  *)
(* ends with an error or at the last one.                                  *)
LEMMA NextProgress ==
  ASSUME TypeOK, FlagHasOwner, BackupProgress, [Next]_vars
  PROVE  BackupProgress'
  <1> USE DEF action, engine, monitor, history, env
  <1>1. ASSUME NEW t \in Thread, Start(t)
        PROVE  BackupProgress'
    <2>1. t # NoOne /\ request[t] \in {"backup", "restore", "invalid"}
      BY <1>1, RunnerAssumption DEF Start, TypeOK, Payload, JobType
    <2>2. loc = 1 /\ ~failed
      BY <1>1 DEF Start, FlagHasOwner, BackupProgress
    <2>3. step' = "location" => uploaded' = {}
      BY <1>1, <2>1, FirstStepFacts DEF Start
    <2>4. step' \in {"location", "download", "finish"}
      BY <1>1, <2>1, FirstStepFacts DEF Start
    <2> QED  BY <1>1, <2>2, <2>3, <2>4 DEF Start, BackupProgress
  <1>2. CASE Register
    BY <1>2 DEF Register, BackupProgress
  <1>3. CASE Finish
    BY <1>3 DEF Finish, BackupProgress
  <1>4. ASSUME NEW p \in Pump, NewStorage(p)
        PROVE  BackupProgress'
    BY <1>4 DEF NewStorage, BackupProgress
  <1>5. CASE NewStorageFails \/ UploadGetsError \/ NoLabelsAdded \/ UploadFails
    BY <1>5 DEF NewStorageFails, UploadGetsError, NoLabelsAdded, UploadFails, BackupError,
                BackupProgress
  <1>6. CASE UploadDone
    <2>1. uploaded = 1 .. loc - 1 /\ ~failed /\ loc \in 1 .. NumLoc
      BY <1>6 DEF UploadDone, BackupProgress, TypeOK, Loc
    <2>2. uploaded' = 1 .. loc
      BY <1>6, <2>1, RunnerAssumption DEF UploadDone
    <2>3. CASE loc = NumLoc
      BY <1>6, <2>2, <2>3 DEF UploadDone, NextLocation, BackupProgress, Loc
    <2>4. CASE loc # NumLoc
      <3>1. uploaded' = 1 .. loc' - 1
        BY <1>6, <2>1, <2>2, <2>4, RunnerAssumption DEF UploadDone, NextLocation
      <3> QED  BY <1>6, <2>1, <2>4, <3>1 DEF UploadDone, NextLocation, BackupProgress
    <2> QED  BY <2>3, <2>4
  <1>7. ASSUME /\ UNCHANGED <<request, owner>>
               /\ step \in Downloads
               /\ step' \in Downloads \cup {"register"}
        PROVE  BackupProgress'
    BY <1>7 DEF FlagHasOwner, BackupProgress, Downloads
  <1>8. CASE \/ Download \/ DownloadFails
             \/ RestoreCheck \/ RestoreInstall \/ RestoreExec \/ RestoreExecFails
    BY <1>7, <1>8
       DEF Download, DownloadFails, RestoreCheck, RestoreInstall, RestoreExec,
           RestoreExecFails, RestoreElsewhere, Downloads
  <1>9. ASSUME UNCHANGED <<action, uploaded>>,
               owner # NoOne => request'[owner] = request[owner]
        PROVE  BackupProgress'
    BY <1>9 DEF FlagHasOwner, BackupProgress
  <1>10. CASE MainReceive
    BY <1>9, <1>10 DEF MainReceive, FlagHasOwner, TypeOK
  <1>11. ASSUME NEW c \in Caller, NEW what \in Payload, IPCRequest(c, what)
         PROVE  BackupProgress'
    BY <1>9, <1>11 DEF IPCRequest, FlagHasOwner, TypeOK
  <1>12. ASSUME NEW t \in Thread, Refused(t)
         PROVE  BackupProgress'
    BY <1>9, <1>12 DEF Refused, FlagHasOwner, TypeOK
  <1>13. CASE Restart
    BY <1>13 DEF Restart, BackupProgress
  <1>14. CASE UNCHANGED <<request, action, uploaded>>
    BY <1>9, <1>14
  <1> QED
    BY <1>1, <1>2, <1>3, <1>4, <1>5, <1>6, <1>8, <1>10, <1>11, <1>12, <1>13, <1>14
       DEF Next, ActionStep, TickAutoBackup, CleanUp, PumpStep, PumpCheck, PumpInstall,
           PumpExec, PumpClose, StorageFlips, DBFlips, vars


(* Between two backups success is only reported if every location has been *)
(* reached, whatever other threads ask for in the meantime.                *)
LEMMA NextStatus ==
  ASSUME TypeOK, FlagHasOwner, BackupProgress, StatusHonest, [Next]_vars
  PROVE  StatusHonest'
  <1> USE DEF action, engine, monitor, history, env
  <1>1. ASSUME NEW t \in Thread, Start(t)
        PROVE  StatusHonest'
    <2>1. t # NoOne /\ request[t] \in {"backup", "restore", "invalid"}
      BY <1>1, RunnerAssumption DEF Start, TypeOK, Payload, JobType
    <2>2. CASE request[t] = "backup"
      BY <1>1, <2>1, <2>2, FirstStepFacts DEF Start, StatusHonest, BackupUnderWay
    <2>3. CASE request[t] # "backup"
      BY <1>1, <2>3 DEF Start, FlagHasOwner, StatusHonest, BackupUnderWay
    <2> QED  BY <2>2, <2>3
  <1>2. CASE Register
    BY <1>2 DEF Register, FlagHasOwner, BackupProgress, StatusHonest, BackupUnderWay
  <1>3. CASE Finish
    BY <1>3 DEF Finish, StatusHonest, BackupUnderWay
  <1>4. ASSUME request[owner] = "backup", owner # NoOne, step' # "finish",
               UNCHANGED <<request, owner>>
        PROVE  StatusHonest'
    BY <1>4 DEF StatusHonest, BackupUnderWay
  <1>5. CASE \/ \E p \in Pump : NewStorage(p)
             \/ NewStorageFails \/ UploadDone \/ UploadGetsError \/ NoLabelsAdded
             \/ UploadFails
    BY <1>4, <1>5
       DEF NewStorage, NewStorageFails, UploadDone, UploadGetsError, NoLabelsAdded,
           UploadFails, BackupError, NextLocation, FlagHasOwner
  <1>6. ASSUME request[owner] = "restore", UNCHANGED <<request, owner, uploaded, succeeded>>
        PROVE  StatusHonest'
    BY <1>6 DEF StatusHonest, BackupUnderWay
  <1>7. CASE \/ Download \/ DownloadFails
             \/ RestoreCheck \/ RestoreInstall \/ RestoreExec \/ RestoreExecFails
    BY <1>6, <1>7
       DEF Download, DownloadFails, RestoreCheck, RestoreInstall, RestoreExec,
           RestoreExecFails, RestoreElsewhere, Downloads, FlagHasOwner
  <1>8. ASSUME UNCHANGED <<action, uploaded, succeeded>>,
               owner # NoOne => request'[owner] = request[owner]
        PROVE  StatusHonest'
    BY <1>8 DEF StatusHonest, BackupUnderWay
  <1>9. CASE MainReceive
    BY <1>8, <1>9 DEF MainReceive, FlagHasOwner, TypeOK
  <1>10. ASSUME NEW c \in Caller, NEW what \in Payload, IPCRequest(c, what)
         PROVE  StatusHonest'
    BY <1>8, <1>10 DEF IPCRequest, FlagHasOwner, TypeOK
  <1>11. ASSUME NEW t \in Thread, Refused(t)
         PROVE  StatusHonest'
    BY <1>8, <1>11 DEF Refused, FlagHasOwner, TypeOK
  <1>12. CASE Restart
    BY <1>12 DEF Restart, StatusHonest
  <1>13. CASE UNCHANGED <<request, action, uploaded, succeeded>>
    BY <1>8, <1>13
  <1> QED
    BY <1>1, <1>2, <1>3, <1>5, <1>7, <1>9, <1>10, <1>11, <1>12, <1>13
       DEF Next, ActionStep, TickAutoBackup, CleanUp, PumpStep, PumpCheck, PumpInstall,
           PumpExec, PumpClose, StorageFlips, DBFlips, vars

-----------------------------------------------------------------------------
(* Until an upload leaves its pump behind, at most one pump is alive, and  *)
(* it ends before the loop of executeBackup goes on.                       *)
LEMMA NextPump ==
  ASSUME TypeOK, FlagHasOwner, OnePump, [Next]_vars
  PROVE  OnePump'
  <1> USE DEF action, engine, monitor, history, env
  <1>1. ASSUME NEW t \in Thread, Start(t)
        PROVE  OnePump'
    <2>1. request[t] \in {"backup", "restore", "invalid"}
      BY <1>1 DEF Start, TypeOK, Payload, JobType
    <2>2. step = "idle" /\ step' \notin {"upload", "exec"}
      BY <1>1, <2>1, FirstStepFacts DEF Start, FlagHasOwner
    <2> QED  BY <1>1, <2>2 DEF Start, OnePump, Reading
  <1>2. CASE Register \/ Finish
    BY <1>2 DEF Register, Finish, OnePump, Reading
  <1>3. ASSUME NEW p \in Pump, NewStorage(p)
        PROVE  OnePump'
    BY <1>3 DEF NewStorage, OnePump, Reading, TypeOK
  <1>4. CASE NewStorageFails
    BY <1>4 DEF NewStorageFails, BackupError, OnePump, Reading
  <1>5. ASSUME step = "upload", pump[current] = "closed", PumpGone(current),
               UNCHANGED <<hdl, abandoned>>, step' \notin {"upload", "exec"}
        PROVE  OnePump'
    <2>1. ~abandoned => \A p \in Pump : pump'[p] = "none"
      BY <1>5 DEF PumpGone, OnePump, Reading, TypeOK
    <2>2. ~abandoned => hdl = NoHandler
      BY <1>5 DEF OnePump, Reading
    <2> QED  BY <1>5, <2>1, <2>2 DEF OnePump
  <1>6. CASE UploadDone \/ UploadGetsError \/ NoLabelsAdded
    BY <1>5, <1>6 DEF UploadDone, UploadGetsError, NoLabelsAdded, NextLocation, BackupError
  <1>7. CASE UploadFails
    <2>1. CASE pump[current] = "closed"
      BY <1>5, <1>7, <2>1 DEF UploadFails, BackupError
    <2>2. CASE pump[current] # "closed"
      BY <1>7, <2>2 DEF UploadFails, BackupError, OnePump
    <2> QED  BY <2>1, <2>2
  <1>8. CASE \/ Download \/ DownloadFails \/ RestoreCheck
    BY <1>8 DEF Download, DownloadFails, RestoreCheck, RestoreElsewhere, OnePump, Reading
  <1>9. CASE RestoreInstall \/ RestoreExec \/ RestoreExecFails
    BY <1>9 DEF RestoreInstall, RestoreExec, RestoreExecFails, RestoreElsewhere, OnePump,
                Reading
  <1>10. ASSUME NEW p \in Pump, PumpStep(p)
         PROVE  OnePump'
    <2>1. UNCHANGED <<action, abandoned>> /\ pump[p] # "none"
      BY <1>10 DEF PumpStep, PumpCheck, PumpInstall, PumpExec, PumpClose
    <2>2. step' = "upload" => current' \in Pump
      BY <2>1 DEF OnePump
    <2>3. \A q \in Pump \ {p} : pump'[q] = pump[q]
      BY <1>10 DEF PumpStep, PumpCheck, PumpInstall, PumpExec, PumpClose, PumpBecomes,
                   PumpGone, TypeOK
    <2>4. ~abandoned => \A q \in Pump : pump'[q] # "none" => Reading(q)'
      BY <2>1, <2>3 DEF OnePump, Reading
    <2>5. ~abandoned => step # "exec" /\ \A q \in Pump \ {p} : pump[q] = "none"
      BY <2>1 DEF OnePump, Reading
    <2>6. ASSUME ~abandoned, hdl' # NoHandler
          PROVE  hdl' \in Pump /\ pump'[hdl'] = "exec"
      <3>1. CASE PumpInstall(p)
        BY <3>1 DEF PumpInstall, TypeOK
      <3>2. CASE \E r \in {"ok", "err"} : PumpExec(p, r)
        BY <2>6, <3>2 DEF PumpExec
      <3>3. CASE PumpCheck(p) \/ PumpClose(p)
        <4>1. hdl' = hdl /\ pump[p] # "exec"
          BY <3>3 DEF PumpCheck, PumpClose
        <4>2. hdl = p /\ pump[p] = "exec"
          BY <2>5, <2>6, <4>1 DEF OnePump
        <4> QED  BY <4>1, <4>2
      <3> QED  BY <1>10, <3>1, <3>2, <3>3 DEF PumpStep
    <2> QED  BY <2>1, <2>2, <2>4, <2>6 DEF OnePump
  <1>11. CASE Restart
    BY <1>11 DEF Restart, OnePump
  <1>12. CASE UNCHANGED <<action, engine, abandoned>>
    BY <1>12 DEF OnePump, Reading
  <1> QED
    BY <1>1, <1>2, <1>3, <1>4, <1>6, <1>7, <1>8, <1>9, <1>10, <1>11, <1>12
       DEF Next, ActionStep, TickAutoBackup, MainReceive, IPCRequest, Refused, CleanUp,
           StorageFlips, DBFlips, vars

(* Then whoever executes a statement owns the handler.                     *)
LEMMA NextOwned ==
  ASSUME TypeOK, OnePump, ~abandoned => HandlerOwned, [Next]_vars
  PROVE  (~abandoned => HandlerOwned)'
  <1> USE DEF action, engine, monitor, history, env
  <1>1. CASE Restart
    BY <1>1 DEF Restart, HandlerOwned
  <1>2. CASE RestoreInstall
    BY <1>2 DEF RestoreInstall, OnePump, Reading, HandlerOwned
  <1>3. CASE RestoreExec \/ RestoreExecFails
    BY <1>3 DEF RestoreExec, RestoreExecFails, RestoreElsewhere, OnePump, Reading, HandlerOwned
  <1>4. ASSUME NEW p \in Pump, PumpStep(p)
        PROVE  (~abandoned => HandlerOwned)'
    <2>1. UNCHANGED <<action, abandoned>> /\ pump[p] # "none"
      BY <1>4 DEF PumpStep, PumpCheck, PumpInstall, PumpExec, PumpClose
    <2> SUFFICES ASSUME ~abandoned
                 PROVE  HandlerOwned'
      BY <2>1
    <2>2. step = "upload" /\ \A q \in Pump \ {p} : pump[q] = "none"
      BY <2>1 DEF OnePump, Reading
    <2>3. \A q \in Pump \ {p} : pump'[q] = "none"
      BY <1>4, <2>2 DEF PumpStep, PumpCheck, PumpInstall, PumpExec, PumpClose, PumpBecomes,
                        PumpGone, TypeOK
    <2>4. pump'[p] = "exec" => hdl' = p
      BY <1>4 DEF PumpStep, PumpCheck, PumpInstall, PumpExec, PumpClose, PumpBecomes,
                  PumpGone, TypeOK
    <2> QED  BY <2>1, <2>2, <2>3, <2>4 DEF HandlerOwned
  <1>5. ASSUME NEW p \in Pump, NewStorage(p)
        PROVE  (~abandoned => HandlerOwned)'
    BY <1>5 DEF NewStorage, HandlerOwned, TypeOK
  <1>6. CASE UploadDone \/ UploadGetsError \/ NoLabelsAdded \/ UploadFails
    BY <1>6 DEF UploadDone, UploadGetsError, NoLabelsAdded, UploadFails, BackupError,
                NextLocation, PumpGone, HandlerOwned, TypeOK
  <1>7. ASSUME UNCHANGED <<pump, hdl, abandoned>>, step' # "exec"
        PROVE  (~abandoned => HandlerOwned)'
    BY <1>7 DEF HandlerOwned
  <1>8. CASE Register \/ Finish \/ NewStorageFails \/ Download \/ DownloadFails \/ RestoreCheck
    BY <1>7, <1>8 DEF Register, Finish, NewStorageFails, BackupError, Download, DownloadFails,
                      RestoreCheck, RestoreElsewhere
  <1>9. ASSUME NEW t \in Thread, Start(t)
        PROVE  (~abandoned => HandlerOwned)'
    <2>1. request[t] \in {"backup", "restore", "invalid"}
      BY <1>9 DEF Start, TypeOK, Payload, JobType
    <2> QED  BY <1>7, <1>9, <2>1, FirstStepFacts DEF Start
  <1>10. CASE UNCHANGED <<pump, hdl, abandoned, step>>
    BY <1>10 DEF HandlerOwned
  <1> QED
    BY <1>1, <1>2, <1>3, <1>4, <1>5, <1>6, <1>8, <1>9, <1>10
       DEF Next, ActionStep, TickAutoBackup, MainReceive, IPCRequest, Refused, CleanUp,
           StorageFlips, DBFlips, vars

-----------------------------------------------------------------------------
(* The flag, the loop of executeBackup and the unlocked field hdl keep     *)
(* each other in order; no step breaks any part of it.                     *)
THEOREM Inductive == Spec => []IndInv
  <1>1. Init => IndInv
    <2> SUFFICES ASSUME Init
                 PROVE  IndInv
      OBVIOUS
    <2>1. FlagHasOwner /\ BackupProgress /\ OnePump
      BY DEF Init, FlagHasOwner, BackupProgress, OnePump, Downloads
    <2>2. StatusHonest /\ HandlerOwnedUntilAbandoned
      BY DEF Init, StatusHonest, HandlerOwnedUntilAbandoned, HandlerOwned
    <2> QED  BY <2>1, <2>2, InitType DEF IndInv
  <1>2. IndInv /\ [Next]_vars => IndInv'
    <2> SUFFICES ASSUME IndInv, [Next]_vars
                 PROVE  IndInv'
      OBVIOUS
    <2>1. TypeOK' /\ FlagHasOwner' /\ BackupProgress' /\ StatusHonest'
      BY NextType, NextFlag, NextProgress, NextStatus DEF IndInv
    <2>2. OnePump'
      BY NextPump DEF IndInv
    <2>3. (~abandoned => HandlerOwned)'
      BY NextOwned DEF IndInv, HandlerOwnedUntilAbandoned
    <2>4. HandlerOwnedUntilAbandoned'
      <3>1. (~abandoned /\ hdl # NoHandler)' => step' \in {"upload", "exec"}
        BY <2>2 DEF OnePump, Reading
      <3>2. step' \in {"upload", "exec"} => actionRunning'
        BY <2>1 DEF FlagHasOwner
      <3> QED  BY <2>3, <3>1, <3>2 DEF HandlerOwnedUntilAbandoned
    <2> QED  BY <2>1, <2>2, <2>4 DEF IndInv
  <1> QED  BY <1>1, <1>2, PTL DEF Spec

(* The variables keep the shapes of the Go fields, the loop its bounds.    *)
THEOREM TypeCorrect == Spec => []TypeOK
  <1>1. IndInv => TypeOK
    BY DEF IndInv
  <1> QED  BY <1>1, Inductive, PTL

(* last_job_success is 1 between two backups only if the last one reached  *)
(* every location, for any number of locations.                            *)
THEOREM StatusHonestThm == Spec => []StatusHonest
  <1>1. IndInv => StatusHonest
    BY DEF IndInv
  <1> QED  BY <1>1, Inductive, PTL

(* The handler belongs to whoever talks to the database and is nil between *)
(* two actions, until an upload fails and leaves its pump behind.          *)
THEOREM HandlerThm == Spec => []HandlerOwnedUntilAbandoned
  <1>1. IndInv => HandlerOwnedUntilAbandoned
    BY DEF IndInv
  <1> QED  BY <1>1, Inductive, PTL
=============================================================================
