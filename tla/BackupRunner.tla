---------------------------- MODULE BackupRunner ----------------------------
(***************************************************************************)
(* cmd/backup-runner with the CockroachDB engine: the goroutines of one    *)
(* runner pod.                                                             *)
(*                                                                         *)
(*   ticker    tickAutoBackup: sends on a channel of one slot              *)
(*   "main"    the select loop of cmdRunRunE, runs the automatic backups   *)
(*   Caller    goroutines started by POST /ipc                             *)
(*   Pump      for every location of every backup a goroutine that lets    *)
(*             the engine write the backup into a pipe                     *)
(*   clean-ups one goroutine per finished upload                           *)
(*                                                                         *)
(* actionRunning admits one action at a time.  The pumps and the clean-ups *)
(* may outlive the action that started them: nobody waits for them, and    *)
(* an upload that fails leaves its end of the pipe open and unread.        *)
(* Storage locations are reduced to whether they answer and how many       *)
(* backups they list; S3Storage has the details.                           *)
(***************************************************************************)
EXTENDS Integers

CONSTANTS
  NumLoc,          \* len(configStorage.BackupLocations)
  Caller,          \* IPC goroutines alive at the same time
  Pump,            \* pump goroutines alive at the same time
  NoPump, NoHandler, NoOne,
  MaxStored,       \* bound: stored backups are counted up to here
  MayRestart,      \* whether the pod is ever replaced
  StorageMayFail,  \* whether the storage is ever down
  DBMayFail        \* whether the database is ever down

Loc == 1 .. NumLoc
Thread == Caller \cup {"main"}

(* cmdRunRunE asks BackupLocations[0]: there is at least one.              *)
ASSUME RunnerAssumption ==
  /\ NumLoc \in Nat \ {0}
  /\ MaxStored \in Nat
  /\ NoPump \notin Pump
  /\ {NoHandler, "restore"} \cap Pump = {}
  /\ NoHandler # "restore"
  /\ "main" \notin Caller
  /\ NoOne \notin Thread
  /\ {MayRestart, StorageMayFail, DBMayFail} \subseteq BOOLEAN

VARIABLES
  trigger,        \* the slot of triggerAutoBackup is full
  request,        \* what each thread wants triggerRunAction to do
  actionRunning,  \* the atomic flag
  owner,          \* the thread inside triggerRunAction, past the flag
  step,           \* where it is
  loc,            \* the location its loop is at
  failed,         \* the error it will report
  current,        \* the pump whose pipe its upload reads
  pump,           \* what each pump does next
  result,         \* the error each pump closes its pipe with
  hdl,            \* Engine.hdl
  stored,         \* number of backups each location lists
  cleaning,       \* clean-up goroutines are running for the location
  succeeded,      \* monitor: the job types whose last_job_success is 1
  count,          \* monitor: number of stored backups
  uploaded,       \* history: the locations the last backup reached
  abandoned,      \* history: an upload failed and left its pump behind
  storageUp, dbUp

action == <<actionRunning, owner, step, loc, failed, current>>
engine == <<pump, result, hdl>>
monitor == <<succeeded, count>>
history == <<uploaded, abandoned>>
env == <<storageUp, dbUp>>
vars == <<trigger, request, action, engine, stored, cleaning, monitor,
          history, env>>

JobType == {"backup", "restore"}

(* The ipcPayload as triggerRunAction reads it; "invalid" names no action  *)
(* or has not the arguments it needs.                                      *)
Payload == JobType \cup {"invalid"}

Init ==
  /\ trigger = FALSE
  /\ request = [t \in Thread |-> "none"]
  /\ actionRunning = FALSE
  /\ owner = NoOne
  /\ step = "idle"
  /\ loc = 1
  /\ failed = FALSE
  /\ current = NoPump
  /\ pump = [p \in Pump |-> "none"]
  /\ result = [p \in Pump |-> "ok"]
  /\ hdl = NoHandler
  /\ cleaning = [l \in Loc |-> FALSE]
  /\ succeeded = {}
  /\ uploaded = {}
  /\ abandoned = FALSE
  /\ count = 0
  /\ stored = [l \in Loc |-> 0]
  /\ storageUp = TRUE
  /\ dbUp = TRUE

-----------------------------------------------------------------------------
(* tickAutoBackup sleeps until the next execution and sends, which waits   *)
(* until the slot is free; the select loop receives.                       *)
TickAutoBackup ==
  /\ ~trigger
  /\ trigger' = TRUE
  /\ UNCHANGED <<request, action, engine, stored, cleaning, monitor, history, env>>

MainReceive ==
  /\ trigger
  /\ request["main"] = "none"
  /\ trigger' = FALSE
  /\ request' = [request EXCEPT !["main"] = "backup"]
  /\ UNCHANGED <<action, engine, stored, cleaning, monitor, history, env>>

(* handleIPCRequest answers at once and leaves the action to a goroutine.  *)
IPCRequest(c, what) ==
  /\ request[c] = "none"
  /\ request' = [request EXCEPT ![c] = what]
  /\ UNCHANGED <<trigger, action, engine, stored, cleaning, monitor, history, env>>

-----------------------------------------------------------------------------
(* triggerRunAction.                                                       *)
Refused(t) ==
  /\ request[t] # "none"
  /\ owner # t
  /\ actionRunning
  /\ request' = [request EXCEPT ![t] = "none"]
  /\ UNCHANGED <<trigger, action, engine, stored, cleaning, monitor, history, env>>

(* (mutant) an invalid request returns with the flag set *)
FirstStepKeepsFlag(what) ==
  CASE what = "backup"  -> "location"
    [] what = "restore" -> "download"
    [] what = "invalid" -> "idle"

FirstStep(what) ==
  CASE what = "backup"  -> "location"
    [] what = "restore" -> "download"
    [] what = "invalid" -> "finish"

(* (mutant) the flag is set but not tested *)
StartUntested(t) ==
  /\ request[t] # "none"
  /\ actionRunning' = TRUE
  /\ owner' = t
  /\ step' = FirstStep(request[t])
  /\ uploaded' = IF request[t] = "backup" THEN {} ELSE uploaded
  /\ UNCHANGED <<trigger, request, loc, failed, current, engine, stored, cleaning,
                 monitor, abandoned, env>>

Start(t) ==
  /\ request[t] # "none"
  /\ ~actionRunning
  /\ actionRunning' = TRUE
  /\ owner' = t
  /\ step' = FirstStep(request[t])
  /\ uploaded' = IF request[t] = "backup" THEN {} ELSE uploaded
  /\ UNCHANGED <<trigger, request, loc, failed, current, engine, stored, cleaning,
                 monitor, abandoned, env>>

(* monitor.RegisterJobStatus.                                              *)
Register ==
  /\ step = "register"
  /\ succeeded' = IF failed THEN succeeded \ {request[owner]}
                            ELSE succeeded \cup {request[owner]}
  /\ step' = "finish"
  /\ UNCHANGED <<trigger, request, actionRunning, owner, loc, failed, current,
                 engine, stored, cleaning, count, history, env>>

(* The deferred actionRunning.Store(false), on every path.                 *)
Finish ==
  /\ step = "finish"
  /\ actionRunning' = FALSE
  /\ owner' = NoOne
  /\ step' = "idle"
  /\ request' = [request EXCEPT ![owner] = "none"]
  /\ loc' = 1
  /\ failed' = FALSE
  /\ UNCHANGED <<trigger, current, engine, stored, cleaning,
                 monitor, history, env>>

-----------------------------------------------------------------------------
(* What a pump does next, and the end of one.                              *)
PumpBecomes(p, what) ==
  pump' = [pump EXCEPT ![p] = what] /\ UNCHANGED result

PumpGone(p) ==
  /\ pump' = [pump EXCEPT ![p] = "none"]
  /\ result' = [result EXCEPT ![p] = "ok"]

(* executeBackup, one location after the other; the first error ends it.   *)
(* (mutant) the loop goes on after an error, as that of a restore does *)
BackupErrorContinues ==
  /\ IF loc = NumLoc THEN step' = "register" /\ UNCHANGED loc
                     ELSE step' = "location" /\ loc' = loc + 1
  /\ current' = NoPump
  /\ UNCHANGED <<actionRunning, owner, failed>>

BackupError ==
  /\ step' = "register"
  /\ failed' = TRUE
  /\ current' = NoPump
  /\ UNCHANGED <<actionRunning, owner, loc>>

NewStorage(p) ==
  /\ step = "location"
  /\ pump[p] = "none"
  /\ pump' = [pump EXCEPT ![p] = "start"]
  /\ current' = p
  /\ step' = "upload"
  /\ UNCHANGED <<trigger, request, actionRunning, owner, loc, failed, result, hdl,
                 stored, cleaning, monitor, history, env>>

NewStorageFails ==
  /\ step = "location"
  /\ ~storageUp
  /\ BackupError
  /\ UNCHANGED <<trigger, request, engine, stored, cleaning, monitor, history, env>>

(* UploadFromReader has read the pipe to its end and saved the labels; the *)
(* clean-up is started and the loop goes on.                               *)
(* (mutant) one location too many *)
NextLocationTooFar ==
  IF loc > NumLoc
  THEN step' = "register" /\ UNCHANGED loc
  ELSE step' = "location" /\ loc' = loc + 1

NextLocation ==
  IF loc = NumLoc
  THEN step' = "register" /\ UNCHANGED loc
  ELSE step' = "location" /\ loc' = loc + 1

OneMore == [stored EXCEPT ![loc] = IF @ < MaxStored THEN @ + 1 ELSE @]

UploadDone ==
  /\ step = "upload"
  /\ pump[current] = "closed"
  /\ result[current] = "ok"
  /\ stored' = OneMore
  /\ uploaded' = uploaded \cup {loc}
  /\ cleaning' = [cleaning EXCEPT ![loc] = TRUE]
  /\ PumpGone(current)
  /\ current' = NoPump
  /\ NextLocation
  /\ UNCHANGED <<trigger, request, actionRunning, owner, failed, hdl,
                 monitor, abandoned, env>>

(* The storage answers all the time and the object is complete, but every  *)
(* label the retention configuration has for this moment is on an earlier  *)
(* backup: labels.Add returns ErrNoLabelsAdded, so the backup is not       *)
(* listed and counts as failed.  (Never in single-target mode, where       *)
(* UploadDone is the only outcome.)                                        *)
NoLabelsAdded ==
  /\ step = "upload"
  /\ pump[current] = "closed"
  /\ result[current] = "ok"
  /\ PumpGone(current)
  /\ BackupError
  /\ UNCHANGED <<trigger, request, hdl, stored, cleaning, monitor, history, env>>

(* The engine closed the pipe with its error.                              *)
UploadGetsError ==
  /\ step = "upload"
  /\ pump[current] = "closed"
  /\ result[current] = "err"
  /\ PumpGone(current)
  /\ BackupError
  /\ UNCHANGED <<trigger, request, hdl, stored, cleaning, monitor, history, env>>

(* The storage fails while the pipe is read or afterwards, when the backup *)
(* may already be listed.  Nobody closes the reading end.                  *)
UploadFails ==
  /\ step = "upload"
  /\ ~storageUp
  /\ IF pump[current] = "closed"
     THEN PumpGone(current) /\ UNCHANGED abandoned
     ELSE abandoned' = TRUE /\ UNCHANGED <<pump, result>>
  /\ stored' \in IF pump[current] = "closed" /\ result[current] = "ok"
                 THEN {stored, OneMore} ELSE {stored}
  /\ BackupError
  /\ UNCHANGED <<trigger, request, hdl, cleaning, monitor, uploaded, env>>

(* The clean-up goroutine, which may remove backups of its location and    *)
(* counts what is left.                                                    *)
CleanUp(l) ==
  /\ cleaning[l]
  /\ cleaning' = [cleaning EXCEPT ![l] = FALSE]
  /\ \E n \in 0 .. stored[l] :
       /\ stored' = [stored EXCEPT ![l] = n]
       /\ count' \in IF storageUp THEN {n} ELSE {n, count}
  /\ UNCHANGED <<trigger, request, action, engine, succeeded, history, env>>

-----------------------------------------------------------------------------
(* The goroutine at the writing end of the pipe: Engine.CreateBackup.      *)
Reading(p) == step = "upload" /\ current = p

(* hdl is tested ...                                                       *)
PumpCheck(p) ==
  /\ pump[p] = "start"
  /\ IF hdl = NoHandler
     THEN pump' = [pump EXCEPT ![p] = "install"] /\ UNCHANGED result
     ELSE /\ pump' = [pump EXCEPT ![p] = "close"]
          /\ result' = [result EXCEPT ![p] = "err"]
  /\ UNCHANGED <<trigger, request, action, hdl, stored, cleaning, monitor, history, env>>

(* ... and set later.                                                      *)
PumpInstall(p) ==
  /\ pump[p] = "install"
  /\ hdl' = p
  /\ pump' = [pump EXCEPT ![p] = "exec"]
  /\ UNCHANGED <<trigger, request, action, result, stored, cleaning, monitor, history, env>>

(* handleCRDBCommunication: a request of the database goes to whatever     *)
(* handler hdl holds, or is refused when there is none.                    *)
Served(h) == hdl = h

(* How BACKUP DATABASE may end: it fails when the database is down, when   *)
(* it gets no answer because nobody reads the pipe, and when its requests  *)
(* meet another handler or none.                                           *)
ExecResult(p, r) ==
  /\ r = "ok" => dbUp
  /\ r = "err" => ~dbUp \/ ~Reading(p) \/ ~Served(p)

(* The statement ends, and the first deferred call drops hdl, whoever has  *)
(* set it.                                                                 *)
(* (mutant) hdl is dropped after a success only *)
PumpExecKeepsHandler(p, r) ==
  /\ pump[p] = "exec"
  /\ ExecResult(p, r)
  /\ result' = [result EXCEPT ![p] = r]
  /\ hdl' = IF r = "ok" THEN NoHandler ELSE hdl
  /\ pump' = [pump EXCEPT ![p] = "close"]
  /\ UNCHANGED <<trigger, request, action, stored, cleaning, monitor, history, env>>

PumpExec(p, r) ==
  /\ pump[p] = "exec"
  /\ ExecResult(p, r)
  /\ result' = [result EXCEPT ![p] = r]
  /\ hdl' = NoHandler
  /\ pump' = [pump EXCEPT ![p] = "close"]
  /\ UNCHANGED <<trigger, request, action, stored, cleaning, monitor, history, env>>

(* The other deferred call, backupWriter.Close, writes what is left of the *)
(* archive, which blocks for good without a reader, and the pipe is closed *)
(* with the error.                                                         *)
Flushes(p) == Reading(p)

PumpClose(p) ==
  /\ pump[p] = "close"
  /\ IF Flushes(p) THEN PumpBecomes(p, "closed") ELSE PumpGone(p)
  /\ UNCHANGED <<trigger, request, action, hdl, stored, cleaning, monitor, history, env>>

-----------------------------------------------------------------------------
(* executeRestore: the next location is asked after any error.             *)
RestoreElsewhere ==
  /\ IF loc = NumLoc
     THEN step' = "register" /\ failed' = TRUE /\ UNCHANGED loc
     ELSE step' = "download" /\ loc' = loc + 1 /\ UNCHANGED failed
  /\ UNCHANGED <<actionRunning, owner, current>>

Download ==
  /\ step = "download"
  /\ stored[loc] > 0
  /\ step' = "check"
  /\ UNCHANGED <<trigger, request, actionRunning, owner, loc, failed, current,
                 engine, stored, cleaning, monitor, history, env>>

DownloadFails ==
  /\ step = "download"
  /\ ~storageUp \/ stored[loc] = 0
  /\ RestoreElsewhere
  /\ UNCHANGED <<trigger, request, engine, stored, cleaning, monitor, history, env>>

(* Engine.RestoreBackup.                                                   *)
RestoreCheck ==
  /\ step = "check"
  /\ IF hdl = NoHandler
     THEN step' = "install" /\ UNCHANGED <<actionRunning, owner, loc, failed, current>>
     ELSE RestoreElsewhere
  /\ UNCHANGED <<trigger, request, engine, stored, cleaning, monitor, history, env>>

RestoreInstall ==
  /\ step = "install"
  /\ hdl' = "restore"
  /\ step' = "exec"
  /\ UNCHANGED <<trigger, request, actionRunning, owner, loc, failed, current,
                 pump, result, stored, cleaning, monitor, history, env>>

RestoreExec ==
  /\ step = "exec"
  /\ dbUp
  /\ hdl' = NoHandler
  /\ step' = "register"
  /\ UNCHANGED <<trigger, request, actionRunning, owner, loc, failed, current,
                 pump, result, stored, cleaning, monitor, history, env>>

(* (mutant) a failed restore leaves its handler in place *)
RestoreExecKeepsHandler ==
  /\ step = "exec"
  /\ ~dbUp \/ ~storageUp \/ ~Served("restore")
  /\ RestoreElsewhere
  /\ UNCHANGED <<trigger, request, engine, stored, cleaning, monitor, history, env>>

RestoreExecFails ==
  /\ step = "exec"
  /\ ~dbUp \/ ~storageUp \/ ~Served("restore")
  /\ hdl' = NoHandler
  /\ RestoreElsewhere
  /\ UNCHANGED <<trigger, request, pump, result, stored, cleaning, monitor, history, env>>

-----------------------------------------------------------------------------
(* The environment: outages come and go ...                                *)
StorageFlips ==
  /\ StorageMayFail
  /\ storageUp' = ~storageUp
  /\ UNCHANGED <<trigger, request, action, engine, stored, cleaning, monitor,
                 history, dbUp>>

DBFlips ==
  /\ DBMayFail
  /\ dbUp' = ~dbUp
  /\ UNCHANGED <<trigger, request, action, engine, stored, cleaning, monitor,
                 history, storageUp>>

(* ... and the pod is replaced: nothing in memory survives, and cmdRunRunE *)
(* starts by counting the backups of the first location.                   *)
Restart ==
  /\ MayRestart
  /\ trigger' = FALSE
  /\ request' = [t \in Thread |-> "none"]
  /\ actionRunning' = FALSE
  /\ owner' = NoOne
  /\ step' = "idle"
  /\ loc' = 1
  /\ failed' = FALSE
  /\ current' = NoPump
  /\ pump' = [p \in Pump |-> "none"]
  /\ result' = [p \in Pump |-> "ok"]
  /\ hdl' = NoHandler
  /\ cleaning' = [l \in Loc |-> FALSE]
  /\ succeeded' = {}
  /\ uploaded' = {}
  /\ abandoned' = FALSE
  /\ count' \in IF storageUp THEN {stored[1]} ELSE {stored[1], 0}
  /\ UNCHANGED <<stored, storageUp, dbUp>>

ActionStep ==
  \/ Register \/ Finish
  \/ \E p \in Pump : NewStorage(p)
  \/ NewStorageFails \/ UploadDone \/ NoLabelsAdded \/ UploadGetsError \/ UploadFails
  \/ Download \/ DownloadFails
  \/ RestoreCheck \/ RestoreInstall \/ RestoreExec \/ RestoreExecFails

PumpStep(p) ==
  \/ PumpCheck(p) \/ PumpInstall(p)
  \/ \E r \in {"ok", "err"} : PumpExec(p, r)
  \/ PumpClose(p)

Next ==
  \/ TickAutoBackup \/ MainReceive
  \/ \E c \in Caller, what \in Payload : IPCRequest(c, what)
  \/ \E t \in Thread : Refused(t) \/ Start(t)
  \/ ActionStep
  \/ \E l \in Loc : CleanUp(l)
  \/ \E p \in Pump : PumpStep(p)
  \/ StorageFlips \/ DBFlips \/ Restart

(* Goroutines that can run do; time passes; requests to the storage and    *)
(* statements of the database end, with an error if need be.               *)
Fairness ==
  /\ WF_vars(TickAutoBackup) /\ WF_vars(MainReceive)
  /\ \A t \in Thread : WF_vars(Refused(t) \/ Start(t))
  /\ WF_vars(ActionStep)
  /\ \A p \in Pump : WF_vars(PumpStep(p))

Spec == Init /\ [][Next]_vars

FairSpec == Spec /\ Fairness

-----------------------------------------------------------------------------
(* Every variable keeps its type.                                          *)
TypeOK ==
  /\ trigger \in BOOLEAN
  /\ request \in [Thread -> Payload \cup {"none"}]
  /\ actionRunning \in BOOLEAN
  /\ owner \in Thread \cup {NoOne}
  /\ step \in {"idle", "location", "upload", "download", "check", "install", "exec",
               "register", "finish"}
  /\ loc \in Loc
  /\ failed \in BOOLEAN
  /\ current \in Pump \cup {NoPump}
  /\ pump \in [Pump -> {"none", "start", "install", "exec", "close", "closed"}]
  /\ result \in [Pump -> {"ok", "err"}]
  /\ hdl \in Pump \cup {"restore", NoHandler}
  /\ stored \in [Loc -> 0 .. MaxStored]
  /\ cleaning \in [Loc -> BOOLEAN]
  /\ succeeded \subseteq JobType
  /\ count \in 0 .. MaxStored
  /\ uploaded \subseteq Loc
  /\ abandoned \in BOOLEAN
  /\ {storageUp, dbUp} \subseteq BOOLEAN

(* monitor.go:44, "status of the last execution of specified job type":    *)
(* between two backups the metric says success only if the last one has    *)
(* reached every location, whatever pumps of earlier ones are still alive. *)
BackupUnderWay ==
  owner # NoOne /\ request[owner] = "backup" /\ step # "finish"

StatusHonest ==
  ("backup" \in succeeded /\ ~BackupUnderWay) => uploaded = Loc

(* Whoever executes a statement in the database owns the HTTP handler, so  *)
(* the database talks to that backup or restore and to no other            *)
(* (crdb.go:51-54, "A listener is there, backup might be in progress").    *)
HandlerOwned ==
  /\ \A p \in Pump : pump[p] = "exec" => hdl = p
  /\ step = "exec" => hdl = "restore"

(* What the unlocked field hdl does achieve: as long as no upload has left *)
(* its pump behind, it belongs to whoever talks to the database and is     *)
(* nil between two actions (crdb.go:270-272, "There is no handler: we did  *)
(* not want to communicate").                                              *)
HandlerOwnedUntilAbandoned ==
  ~abandoned => HandlerOwned /\ (hdl # NoHandler => actionRunning)

(* Why they hold.  The flag is set while some thread is past it, with a    *)
(* request of its own that fits the step it is at, ...                     *)
Downloads == {"download", "check", "install", "exec"}

FlagHasOwner ==
  /\ actionRunning <=> owner # NoOne
  /\ step = "idle" <=> owner = NoOne
  /\ owner # NoOne => request[owner] # "none"
  /\ step \in {"location", "upload"} => request[owner] = "backup"
  /\ step \in Downloads => request[owner] = "restore"
  /\ step = "register" => request[owner] \in JobType

(* ... a backup has reached the locations before the one it is at, and if  *)
(* it ends without an error all of them, ...                               *)
BackupProgress ==
  /\ step = "idle" => loc = 1 /\ ~failed
  /\ step \in {"location", "upload"} => uploaded = 1 .. loc - 1 /\ ~failed
  /\ step = "register" /\ request[owner] = "backup" => failed \/ uploaded = Loc

(* ... and until an upload leaves its pump behind, the only pump is the    *)
(* one whose pipe is being read, and hdl is set by whoever needs it now.   *)
OnePump ==
  /\ step = "upload" => current \in Pump
  /\ ~abandoned =>
       /\ \A p \in Pump : pump[p] # "none" => Reading(p)
       /\ hdl # NoHandler =>
            \/ hdl = "restore" /\ step = "exec"
            \/ hdl \in Pump /\ pump[hdl] = "exec"

IndInv ==
  /\ TypeOK /\ FlagHasOwner /\ BackupProgress /\ OnePump
  /\ StatusHonest /\ HandlerOwnedUntilAbandoned

(* Every action ends and the next one is admitted.                         *)
ActionEnds == actionRunning ~> ~actionRunning

(* Once storage and database are back for good, every backup gets a label  *)
(* and nobody asks for other actions, the automatic backups succeed again  *)
(* and stay successful, although an earlier failure may have left pumps    *)
(* behind that block the engine (PLAN.md:43-44, "Goto wait and repeat").   *)
(* Labels suffice when a format of the retention configuration changes     *)
(* from one backup to the next; with a coarser one backups go on failing.  *)
LastBackupGood == "backup" \in succeeded /\ uploaded = Loc

EnvironmentGood ==
  /\ <>[](storageUp /\ dbUp /\ \A c \in Caller : request[c] = "none")
  /\ <>[][~NoLabelsAdded]_vars

Recovers ==
  EnvironmentGood
    => /\ <>[](BackupUnderWay \/ LastBackupGood)
       /\ []<>(~actionRunning /\ LastBackupGood)
=============================================================================
