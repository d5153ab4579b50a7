----------------------------- MODULE S3Storage ------------------------------
(***************************************************************************)
(* pkg/storage/s3: one storage location.  The bucket keeps the backups and *)
(* the .labels file; a Storage object (a "session" here) loads that file   *)
(* once, in New, and works on its own copy until it writes it back.        *)
(*                                                                         *)
(* executeBackup opens a session for every backup, uploads with it and     *)
(* hands it to a goroutine that cleans up.  The runner's actionRunning     *)
(* flag keeps two uploads or restores apart, but not the clean-ups: these  *)
(* run in the background, next to each other and to the next action.       *)
(*                                                                         *)
(* Every request may fail, and a failed write may still have taken effect. *)
(* The runner may be killed at any step and come back with another         *)
(* configuration; objects may be deleted behind its back.                  *)
(***************************************************************************)
EXTENDS RetentionStore

CONSTANTS
  Session,  \* Storage objects alive at the same time
  Configs,  \* retention configurations
  NoEntry   \* the session has no backup at hand

ASSUME StorageAssumption ==
  /\ Configs \subseteq RetentionConfig
  /\ NoEntry \notin Entry
  /\ 0 \in Time

VARIABLES
  useSingleBackupTarget,  \* spec.useSingleBackupTarget
  now,        \* time.Now()
  retention,  \* spec.retentionConfig of the running runner
  objects,    \* the backups stored in the bucket
  labelFile,  \* the Entries stored in .labels (a missing file: no entry)
  pc,         \* what each session does next
  entry,      \* its backup name
  store,      \* its copy of the label store (Storage.labels)
  formats,    \* the formats the loop of labels.Add has left
  added,      \* addedLabels > 0 in labels.Add
  todo,       \* the entries the current loop of CleanupBackups has left
  outcome,    \* what executeBackup got to know about each backup
  assigned,   \* history: every label ever attached to a backup
  overdue,    \* history: the labels whose hold time has passed
  lost        \* history: objects deleted by somebody else

bucket == <<objects, labelFile>>
history == <<assigned, overdue, lost>>
session == <<pc, entry, store, formats, added, todo>>
vars == <<useSingleBackupTarget, now, retention, bucket, session, outcome, history>>

(* The phases of an action, one at a time because of actionRunning ...     *)
ActionPhase == {"new", "put", "add", "save", "find", "get"}
(* ... and those of a clean-up in the background.                          *)
CleanPhase == {"clean", "remove", "stat", "saveClean"}

Outcome == {"none", "running", "ok", "failed"}

Init ==
  /\ useSingleBackupTarget \in BOOLEAN
  /\ now = 0
  /\ retention \in Configs
  /\ objects = {}
  /\ labelFile = newRetentionStore.entries
  /\ pc = [s \in Session |-> "idle"]
  /\ entry = [s \in Session |-> NoEntry]
  /\ store = [s \in Session |-> newRetentionStore]
  /\ formats = [s \in Session |-> {}]
  /\ added = [s \in Session |-> FALSE]
  /\ todo = [s \in Session |-> {}]
  /\ outcome = [e \in Entry |-> "none"]
  /\ assigned = [e \in Entry |-> {}]
  /\ overdue = {}
  /\ lost = {}

-----------------------------------------------------------------------------
(* The end of a hold time, stated apart from the code: the configured one  *)
(* for the format, or else the one the label was created with, is over.    *)
PastHold(label, config, t) ==
  LET f == label.format
      h == IF f \in DOMAIN config /\ config[f] # 0 THEN config[f]
                                                   ELSE label.initialHoldTime
  IN t > ParseTime(label.name, f) + h

(* The labels a clean-up at this time and with this configuration may      *)
(* drop; what was overdue once may be gone for good.                       *)
Observe ==
  overdue' = overdue \cup
    {l \in UNION {assigned'[e] : e \in Entry} : PastHold(l, retention', now')}

Tick ==
  /\ now + 1 \in Time
  /\ now' = now + 1
  /\ UNCHANGED <<retention, bucket, session, outcome, assigned, lost>>
  /\ Observe

(* The session is over and its Storage object garbage.                     *)
Release(s) ==
  /\ pc' = [pc EXCEPT ![s] = "idle"]
  /\ entry' = [entry EXCEPT ![s] = NoEntry]
  /\ store' = [store EXCEPT ![s] = newRetentionStore]
  /\ formats' = [formats EXCEPT ![s] = {}]
  /\ added' = [added EXCEPT ![s] = FALSE]
  /\ todo' = [todo EXCEPT ![s] = {}]

Goto(s, phase) == pc' = [pc EXCEPT ![s] = phase]

(* The action that owns the session returns an error: executeBackup stops. *)
Fail(s) ==
  /\ Release(s)
  /\ outcome' = [outcome EXCEPT ![entry[s]] = "failed"]

-----------------------------------------------------------------------------
(* The start of an action: actionRunning was FALSE.  A backup gets its     *)
(* name, the current second, which no earlier backup has.                  *)
NoAction == \A s \in Session : pc[s] \notin ActionPhase

StartBackup(s, e) ==
  /\ NoAction
  /\ pc[s] = "idle"
  /\ outcome[e] = "none"
  /\ Goto(s, "new")
  /\ entry' = [entry EXCEPT ![s] = e]
  /\ outcome' = [outcome EXCEPT ![e] = "running"]
  /\ UNCHANGED <<now, retention, bucket, store, formats, added, todo, history>>

StartRestore(s) ==
  /\ NoAction
  /\ pc[s] = "idle"
  /\ Goto(s, "new")
  /\ entry' = [entry EXCEPT ![s] = NoEntry]
  /\ UNCHANGED <<now, retention, bucket, store, formats, added, todo, outcome, history>>

(* New: without label management nothing is loaded.                        *)
New(s) ==
  /\ pc[s] = "new"
  /\ store' = [store EXCEPT ![s] = IF useSingleBackupTarget
                                   THEN newRetentionStore
                                   ELSE Load(labelFile)]
  /\ Goto(s, IF entry[s] = NoEntry THEN "find" ELSE "put")
  /\ UNCHANGED <<now, retention, bucket, entry, formats, added, todo, outcome, history>>

(* loadLabelManager fails: the file can be neither read nor found missing. *)
NewFails(s) ==
  /\ pc[s] = "new"
  /\ ~useSingleBackupTarget
  /\ IF entry[s] = NoEntry THEN Release(s) /\ UNCHANGED outcome ELSE Fail(s)
  /\ UNCHANGED <<now, retention, bucket, history>>

-----------------------------------------------------------------------------
(* UploadFromReader.  A single target is one object, replaced every time.  *)
WithObject(e) == IF useSingleBackupTarget THEN {e} ELSE objects \cup {e}

PutObject(s) ==
  /\ pc[s] = "put"
  /\ objects' = WithObject(entry[s])
  /\ IF useSingleBackupTarget
     THEN /\ outcome' = [outcome EXCEPT ![entry[s]] = "ok"]
          /\ Goto(s, "clean")
          /\ UNCHANGED <<formats, added>>
     ELSE /\ Goto(s, "add")
          /\ formats' = [formats EXCEPT ![s] = DOMAIN retention]
          /\ added' = [added EXCEPT ![s] = FALSE]
          /\ UNCHANGED outcome
  /\ UNCHANGED <<now, retention, labelFile, entry, store, todo, history>>

(* (mutant) the error of PutObject is dropped *)
PutErrorDropped(s) ==
  /\ pc[s] = "put"
  /\ objects' \in {objects, WithObject(entry[s])}
  /\ Goto(s, "add")
  /\ formats' = [formats EXCEPT ![s] = DOMAIN retention]
  /\ added' = [added EXCEPT ![s] = FALSE]
  /\ UNCHANGED <<now, retention, labelFile, entry, store, todo, outcome, history>>

(* (mutant) the target is cleared before the upload *)
PutClearsFirst(s) ==
  /\ pc[s] = "put"
  /\ objects' \in {{}, WithObject(entry[s])}
  /\ Fail(s)
  /\ UNCHANGED <<now, retention, labelFile, history>>

PutObjectFails(s) ==
  /\ pc[s] = "put"
  /\ objects' \in {objects, WithObject(entry[s])}
  /\ Fail(s)
  /\ UNCHANGED <<now, retention, labelFile, history>>

(* labels.Add, one format of its loop.                                     *)
NewLabel(f) ==
  [format |-> f, initialHoldTime |-> retention[f], name |-> FormatTime(now, f)]

AddLabel(s, f) ==
  LET label == NewLabel(f)
      result == AddEntry(store[s], entry[s], label)
  IN
  /\ pc[s] = "add"
  /\ f \in formats[s]
  /\ formats' = [formats EXCEPT ![s] = @ \ {f}]
  /\ added' = [added EXCEPT ![s] = @ \/ ~Duplicate(store[s], label)]
  /\ store' = [store EXCEPT ![s] = result]
  /\ assigned' = [assigned EXCEPT ![entry[s]] = @ \cup Slice(result, entry[s])]
  /\ UNCHANGED <<now, retention, bucket, pc, entry, todo, outcome, lost>>
  /\ Observe

(* labels.Add returns: with no label added the upload fails.               *)
AddReturn(s) ==
  /\ pc[s] = "add"
  /\ formats[s] = {}
  /\ IF added[s]
     THEN /\ Goto(s, "save")
          /\ UNCHANGED <<entry, store, formats, added, todo, outcome>>
     ELSE Fail(s)
  /\ UNCHANGED <<now, retention, bucket, history>>

(* saveLabelManager at the end of UploadFromReader.                        *)
SaveLabels(s) ==
  /\ pc[s] = "save"
  /\ labelFile' = Save(store[s])
  /\ outcome' = [outcome EXCEPT ![entry[s]] = "ok"]
  /\ Goto(s, "clean")
  /\ UNCHANGED <<now, retention, objects, entry, store, formats, added, todo, history>>

SaveLabelsFails(s) ==
  /\ pc[s] = "save"
  /\ labelFile' \in {labelFile, Save(store[s])}
  /\ Fail(s)
  /\ UNCHANGED <<now, retention, objects, history>>

-----------------------------------------------------------------------------
(* CleanupBackups, in its own goroutine.                                   *)
CleanRetentions(s) ==
  LET cleaned == CleanupLabels(store[s], retention, now) IN
  /\ pc[s] = "clean"
  /\ IF useSingleBackupTarget
     THEN Release(s)
     ELSE /\ store' = [store EXCEPT ![s] = cleaned]
          /\ todo' = [todo EXCEPT ![s] = ListUnretainedEntries(cleaned)]
          /\ Goto(s, "remove")
          /\ UNCHANGED <<entry, formats, added>>
  /\ UNCHANGED <<now, retention, bucket, outcome, history>>

(* One iteration of the removal: deleting an absent object succeeds.       *)
RemoveObject(s, e) ==
  /\ pc[s] = "remove"
  /\ e \in todo[s]
  /\ objects' = objects \ {e}
  /\ store' = [store EXCEPT ![s] = Remove(@, e)]
  /\ todo' = [todo EXCEPT ![s] = @ \ {e}]
  /\ UNCHANGED <<now, retention, labelFile, pc, entry, formats, added, outcome, history>>

(* The clean-up returns without saving; its copy is dropped.               *)
RemoveObjectFails(s, e) ==
  /\ pc[s] = "remove"
  /\ e \in todo[s]
  /\ objects' \in {objects, objects \ {e}}
  /\ Release(s)
  /\ UNCHANGED <<now, retention, labelFile, outcome, history>>

(* The second loop runs over the entries retained at its start.            *)
StartStat(s) ==
  /\ pc[s] = "remove"
  /\ todo[s] = {}
  /\ todo' = [todo EXCEPT ![s] = ListRetainedEntries(store[s])]
  /\ Goto(s, "stat")
  /\ UNCHANGED <<now, retention, bucket, entry, store, formats, added, outcome, history>>

StatObject(s, e) ==
  /\ pc[s] = "stat"
  /\ e \in todo[s]
  /\ store' = [store EXCEPT ![s] = IF e \in objects THEN @ ELSE Remove(@, e)]
  /\ todo' = [todo EXCEPT ![s] = @ \ {e}]
  /\ UNCHANGED <<now, retention, bucket, pc, entry, formats, added, outcome, history>>

StatObjectFails(s) ==
  /\ pc[s] = "stat"
  /\ todo[s] # {}
  /\ Release(s)
  /\ UNCHANGED <<now, retention, bucket, outcome, history>>

StatDone(s) ==
  /\ pc[s] = "stat"
  /\ todo[s] = {}
  /\ Goto(s, "saveClean")
  /\ UNCHANGED <<now, retention, bucket, entry, store, formats, added, todo, outcome,
                 history>>

SaveClean(s) ==
  /\ pc[s] = "saveClean"
  /\ labelFile' = Save(store[s])
  /\ Release(s)
  /\ UNCHANGED <<now, retention, objects, outcome, history>>

(* The error is only logged: one outcome is the request without effect.    *)
SaveCleanFails(s) ==
  /\ pc[s] = "saveClean"
  /\ Release(s)
  /\ UNCHANGED <<now, retention, bucket, outcome, history>>

-----------------------------------------------------------------------------
(* DownloadPITBackupAsReader and DownloadAsReader.                         *)
FindBackup(s, pit, e) ==
  /\ pc[s] = "find"
  /\ ~useSingleBackupTarget
  /\ e \in FindRetainedBackupForPointInTime(store[s], pit)
  /\ entry' = [entry EXCEPT ![s] = e]
  /\ Goto(s, "get")
  /\ UNCHANGED <<now, retention, bucket, store, formats, added, todo, outcome, history>>

(* ErrNoBackupFound: the next location is asked, if there is one.          *)
FindNothing(s, pit) ==
  /\ pc[s] = "find"
  /\ ~useSingleBackupTarget
  /\ FindRetainedBackupForPointInTime(store[s], pit) = {}
  /\ Release(s)
  /\ UNCHANGED <<now, retention, bucket, outcome, history>>

(* There is only one object to choose, or none.                            *)
FindSingle(s) ==
  /\ pc[s] = "find"
  /\ useSingleBackupTarget
  /\ Goto(s, "get")
  /\ UNCHANGED <<now, retention, bucket, entry, store, formats, added, todo, outcome,
                 history>>

(* A restore "name": GetObject of the name the operator gave.              *)
DownloadByName(s) ==
  /\ pc[s] = "find"
  /\ Release(s)
  /\ UNCHANGED <<now, retention, bucket, outcome, history>>

(* GetObject succeeds, finds nothing or fails: the session ends.           *)
Download(s) ==
  /\ pc[s] = "get"
  /\ Release(s)
  /\ UNCHANGED <<now, retention, bucket, outcome, history>>

-----------------------------------------------------------------------------
(* The pod is killed and the next one starts, maybe after an update of the *)
(* configuration.  A request of the dead runner that was under way has     *)
(* taken effect or not: that is a failing step followed by this one.       *)
Restart(config) ==
  /\ retention' = config
  /\ pc' = [s \in Session |-> "idle"]
  /\ entry' = [s \in Session |-> NoEntry]
  /\ store' = [s \in Session |-> newRetentionStore]
  /\ formats' = [s \in Session |-> {}]
  /\ added' = [s \in Session |-> FALSE]
  /\ todo' = [s \in Session |-> {}]
  /\ outcome' = [e \in Entry |-> IF outcome[e] = "running" THEN "failed"
                                                           ELSE outcome[e]]
  /\ UNCHANGED <<now, bucket, assigned, lost>>
  /\ Observe

(* Somebody else deletes a backup in the bucket.                           *)
ExternalDelete(e) ==
  /\ e \in objects
  /\ objects' = objects \ {e}
  /\ lost' = lost \cup {e}
  /\ UNCHANGED <<now, retention, labelFile, session, outcome, assigned, overdue>>

Upload(s) ==
  \/ New(s) \/ NewFails(s)
  \/ PutObject(s) \/ PutObjectFails(s)
  \/ \E f \in Format : AddLabel(s, f)
  \/ AddReturn(s)
  \/ SaveLabels(s) \/ SaveLabelsFails(s)

CleanupBackups(s) ==
  \/ CleanRetentions(s)
  \/ \E e \in Entry : RemoveObject(s, e) \/ RemoveObjectFails(s, e)
  \/ StartStat(s)
  \/ \E e \in Entry : StatObject(s, e)
  \/ StatObjectFails(s)
  \/ StatDone(s)
  \/ SaveClean(s) \/ SaveCleanFails(s)

Restore(s) ==
  \/ \E pit \in Time : FindNothing(s, pit) \/ \E e \in Entry : FindBackup(s, pit, e)
  \/ FindSingle(s)
  \/ DownloadByName(s)
  \/ Download(s)

(* A location is used with labels or as a single target, not in turn.      *)
Next ==
  /\ \/ Tick
     \/ \E s \in Session :
          \/ StartRestore(s)
          \/ \E e \in Entry : StartBackup(s, e)
          \/ Upload(s) \/ CleanupBackups(s) \/ Restore(s)
     \/ \E config \in Configs : Restart(config)
     \/ \E e \in Entry : ExternalDelete(e)
  /\ UNCHANGED useSingleBackupTarget

Spec == Init /\ [][Next]_vars

-----------------------------------------------------------------------------
(* The variables keep the shapes of the Go fields they stand for.          *)
TypeOK ==
  /\ useSingleBackupTarget \in BOOLEAN
  /\ now \in Time
  /\ retention \in Configs
  /\ objects \subseteq Entry
  /\ IsEntries(labelFile)
  /\ pc \in [Session -> {"idle"} \cup ActionPhase \cup CleanPhase]
  /\ entry \in [Session -> Entry \cup {NoEntry}]
  /\ DOMAIN store = Session
  /\ \A s \in Session : IsStore(store[s])
  /\ formats \in [Session -> SUBSET Format]
  /\ \A s \in Session : formats[s] \subseteq DOMAIN retention
  /\ added \in [Session -> BOOLEAN]
  /\ todo \in [Session -> SUBSET Entry]
  /\ outcome \in [Entry -> Outcome]
  /\ assigned \in [Entry -> SUBSET Label]
  /\ overdue \subseteq Label
  /\ lost \subseteq Entry

(* At most one upload or restore at a time (what actionRunning is for),    *)
(* each upload working on a backup that is still reported as running.      *)
OneAction ==
  /\ \A s, u \in Session :
       (pc[s] \in ActionPhase /\ pc[u] \in ActionPhase) => s = u
  /\ \A s \in Session : pc[s] \in {"put", "add", "save"} => entry[s] # NoEntry
  /\ \A s \in Session :
       (pc[s] \in {"new", "put", "add", "save"} /\ entry[s] # NoEntry)
         => outcome[entry[s]] = "running"

(* A backup reported as done stays in the bucket until every label it was  *)
(* ever given is past its hold time, whatever clean-ups overlap, however   *)
(* requests fail and whenever the runner restarts (s3.go:96-110: only      *)
(* entries the copy at hand shows without labels are deleted).             *)
Durable ==
  \A e \in Entry : (outcome[e] = "ok" /\ ~useSingleBackupTarget) =>
    \/ e \in objects \cup lost
    \/ assigned[e] # {} /\ assigned[e] \subseteq overdue

(* An entry of the .labels file with a label that is still held leads to   *)
(* an object: a restore does not choose a backup that a clean-up deleted,  *)
(* even when a stale copy of the file was written back.                    *)
Restorable ==
  \A e \in DOMAIN labelFile :
    ~(labelFile[e] \subseteq overdue) => e \in objects \cup lost

(* The same for the copy a restore is working on and the backup it chose   *)
(* while a clean-up deletes objects (s3.go:191-196).                       *)
ChosenIsThere ==
  \A s \in Session : (pc[s] = "get" /\ entry[s] # NoEntry) =>
    \/ entry[s] \in objects \cup lost
    \/ assigned[entry[s]] \subseteq overdue

(* In no copy of the label store is a label attached to two backups.       *)
Unique(c) ==
  \A d, e \in DOMAIN c : \A l \in c[d], m \in c[e] :
    l.name = m.name => d = e /\ l = m

UniqueLabels ==
  /\ Unique(labelFile)
  /\ \A s \in Session : Unique(store[s].entries)

(* A backup reported as done and in the bucket is listed in .labels, so    *)
(* restores find it and clean-ups delete it in the end (PLAN.md:42, "takes *)
(* notes which backups exist").  True as long as sessions do not overlap.  *)
DoneIsTracked ==
  ~useSingleBackupTarget =>
    \A e \in objects : outcome[e] = "ok" => e \in DOMAIN labelFile

(* A single target holds some backup from the first success on; a failed   *)
(* or unfinished upload never leaves the operator without one.             *)
SingleTargetKept ==
  (useSingleBackupTarget /\ \E e \in Entry : outcome[e] = "ok") =>
    lost # {} \/ \E e \in Entry : objects = {e}

-----------------------------------------------------------------------------
(* The inductive invariant behind these properties, in parts.              *)

(* A copy of the label store may lack labels of a backup it lists only if  *)
(* their time has passed, and never has a label the backup was not given.  *)
FaithfulCopy(c) ==
  \A e \in DOMAIN c : /\ assigned[e] # {}
                      /\ c[e] \subseteq assigned[e]
                      /\ assigned[e] \ c[e] \subseteq overdue

Faithful ==
  /\ FaithfulCopy(labelFile)
  /\ \A s \in Session : FaithfulCopy(store[s].entries)

(* Until its upload is over a backup is listed in one copy only, that of   *)
(* the session which is labelling it.                                      *)
Unpublished ==
  \A e \in Entry : outcome[e] \in {"none", "running"} =>
    /\ e \notin DOMAIN labelFile
    /\ \A s \in Session : e \in DOMAIN store[s].entries =>
         pc[s] \in {"add", "save"} /\ entry[s] = e

(* A backup has no label before its session gives it the first one.        *)
UnlabelledAtFirst ==
  /\ \A e \in Entry : outcome[e] = "none" => assigned[e] = {}
  /\ \A s \in Session :
       (/\ pc[s] \in {"new", "put", "add", "save"}
        /\ entry[s] # NoEntry
        /\ entry[s] \notin DOMAIN store[s].entries)
         => assigned[entry[s]] = {}

(* Labels are given to backups that are in the bucket, and an object goes  *)
(* only when all of its labels are overdue.                                *)
LabelledIsThere ==
  /\ \A s \in Session : pc[s] \in {"add", "save"} => entry[s] \in objects \cup lost
  /\ \A e \in Entry : assigned[e] # {} =>
       e \in objects \cup lost \/ assigned[e] \subseteq overdue

(* What the removal loop has left was known and without labels.            *)
TodoIsUnlabelled ==
  \A s \in Session : pc[s] = "remove" =>
    \A e \in todo[s] : e \in DOMAIN store[s].entries /\ store[s].entries[e] = {}

(* The history keeps up with the clock and the configuration.              *)
HistoryExact ==
  \A e \in Entry : \A l \in assigned[e] :
    /\ ParseOK(l.name, l.format)
    /\ PastHold(l, retention, now) => l \in overdue

(* Without label management there are no labels.                           *)
NoLabels ==
  useSingleBackupTarget =>
    /\ \A e \in Entry : assigned[e] = {}
    /\ \A s \in Session : pc[s] \notin {"add", "save"}

LabelInv ==
  /\ Faithful
  /\ Unpublished
  /\ UnlabelledAtFirst
  /\ LabelledIsThere
  /\ TodoIsUnlabelled
  /\ HistoryExact
  /\ NoLabels
  /\ UniqueLabels
  /\ Durable
  /\ ChosenIsThere

(* All of it, which every step of the runner, the bucket and the clock     *)
(* keeps.                                                                  *)
IndInv == TypeOK /\ OneAction /\ LabelInv
=============================================================================
