----------------------------- MODULE Controller -----------------------------
(***************************************************************************)
(* cmd/backup-controller for one DatabaseBackup: the informer fills a work *)
(* queue, workers take entries from it and bring the runner's resources    *)
(* (Secret, Service, StatefulSet) in line with the object.                 *)
(*                                                                         *)
(* Every queue entry is a pointer of its own, so the queue cannot tell     *)
(* that two entries have the same key and hands them to two workers.       *)
(* Workers read the object, work on their copy and write the status back   *)
(* with the version they read; everything else they write by name.         *)
(* Every request may fail while the API server is down, and a failed write *)
(* may have taken effect.                                                  *)
(***************************************************************************)
EXTENDS Integers

CONSTANTS
  Worker,       \* workerProcessCount goroutines
  Resource,     \* "secret", "service", "sts"
  Absent,       \* no such resource
  Static,       \* content of a resource that depends on the name alone
  NoWorker,     \* somebody else than the controller
  NoHash,       \* status.hash is empty
  MaxSpec,      \* bound: versions of the spec (metadata.generation)
  MaxInputs,    \* bound: versions of the storage class, and of the secrets
  MayRevert,    \* whether an edit may restore an earlier version of that
  MaxCreations, \* bound: how often the object is created
  MaxRestarts,  \* bound: restarts of the controller
  MaxQueue,     \* bound: entries of one kind that wait at the same time
  APIMayFail    \* whether the API server is ever down

(* A DatabaseBackupSpec is reduced to its version; so are the storage      *)
(* class and the Secrets both refer to, which one version stands for.      *)
SpecVersion == 0 .. MaxSpec
InputVersion == 0 .. MaxInputs

(* What rssgenerator.FromKubernetesResources makes its result of: the      *)
(* object, whose generation is part of the result, so that an earlier spec *)
(* never comes back as the same result; the storage class; and the         *)
(* secrets.  The hash of the result stands for the result.                 *)
Content == SpecVersion \X InputVersion \X InputVersion

ASSUME ControllerAssumption ==
  /\ {MaxSpec, MaxInputs, MaxCreations, MaxRestarts, MaxQueue} \subseteq Nat
  /\ MaxQueue > 0
  /\ {MayRevert, APIMayFail} \subseteq BOOLEAN
  /\ NoHash \notin Content
  /\ NoWorker \notin Worker
  /\ Absent \notin Content \cup {Static} \cup Resource
  /\ Resource \subseteq {"secret", "service", "sts"}

VARIABLES
  backup,      \* the DatabaseBackup in the API server
  storageClass, \* version of the DatabaseBackupStorageClass
  secrets,     \* version of the referenced secrets
  rss,         \* the resources in the target namespace
  queue,       \* number of waiting entries of each action
  pc,          \* what each worker does next
  item,        \* the action of the entry it works on
  claimed,     \* its copy has the finalizer
  stale,       \* the object has changed since the copy was read
  status,      \* the status it is building
  content,     \* the generated resources, or what was read for them so far
  todo,        \* the resources its loop has left
  missing,     \* the one among them that was not found, or Absent
  failed,      \* the handler will return an error
  apiUp,
  creations, restarts

local == <<item, claimed, status, content, todo, missing, failed>>
inputs == <<storageClass, secrets>>
bounds == <<creations, restarts>>
vars == <<backup, inputs, rss, queue, pc, local, stale, apiUp, bounds>>

QueueEntryAction == {"add", "update"}
Condition == [status : {"none", "False", "True", "Unknown"}, generation : SpecVersion]
Status == [conditions : [Resource -> Condition], hash : Content \cup {NoHash}]

(* A condition set while handling a generation; no status yet, and what    *)
(* DatabaseBackupStatus.Init makes of it.                                  *)
Set(to, generation) == [status |-> to, generation |-> generation]

EmptyStatus == [conditions |-> [r \in Resource |-> Set("none", 0)], hash |-> NoHash]

InitStatus(generation) ==
  [conditions |-> [r \in Resource |-> Set("False", generation)], hash |-> NoHash]

(* CalculateReady: a condition that is not there is not asked for.         *)
(* (mutant) an unknown condition does no harm *)
CalculateReadyLenient(conditions) ==
  IF \E r \in Resource : conditions[r].status = "False" THEN "False" ELSE "True"

CalculateReady(conditions) ==
  IF \E r \in Resource : conditions[r].status = "False" THEN "False"
  ELSE IF \E r \in Resource : conditions[r].status = "Unknown" THEN "Unknown"
  ELSE "True"

(* The generated resources: the Secret holds the spec and what it refers   *)
(* to, the pod template of the StatefulSet is annotated with the hash of   *)
(* the Secret, and the Service depends on the name alone.                  *)
generateSecret(c) == c
generateService == Static
generateSTS(secret) == secret

Generated(r, c) ==
  CASE r = "secret"  -> generateSecret(c)
    [] r = "service" -> generateService
    [] r = "sts"     -> generateSTS(generateSecret(c))

Gone ==
  [exists |-> FALSE, finalizer |-> FALSE, deleting |-> FALSE, spec |-> 0,
   status |-> EmptyStatus]

Init ==
  /\ backup = Gone
  /\ storageClass = 0
  /\ secrets = 0
  /\ rss = [r \in Resource |-> Absent]
  /\ queue = [a \in QueueEntryAction |-> 0]
  /\ pc = [w \in Worker |-> "idle"]
  /\ item = [w \in Worker |-> "update"]
  /\ claimed = [w \in Worker |-> FALSE]
  /\ stale = [w \in Worker |-> FALSE]
  /\ status = [w \in Worker |-> EmptyStatus]
  /\ content = [w \in Worker |-> <<0, 0, 0>>]
  /\ todo = [w \in Worker |-> {}]
  /\ missing = [w \in Worker |-> Absent]
  /\ failed = [w \in Worker |-> FALSE]
  /\ apiUp = TRUE
  /\ creations = 0
  /\ restarts = 0

-----------------------------------------------------------------------------
(* enqueue.  Entries beyond the bound are merged with a waiting one.       *)
(* (mutant) an event is queued twice *)
EnqueuedTwice(q, action) ==
  [q EXCEPT ![action] = IF @ < MaxQueue THEN @ + 2 ELSE @]

Enqueued(q, action) ==
  [q EXCEPT ![action] = IF @ < MaxQueue THEN @ + 1 ELSE @]

(* The object changes to b: copies go stale, except that of the worker who *)
(* changed it and goes on with the answer, and the informer reports it.    *)
Changed(b, me) ==
  /\ backup' = b
  /\ stale' = [w \in Worker |-> w # me /\ pc[w] # "idle"]

Reported(b) == IF b.exists THEN Enqueued(queue, "update") ELSE queue

(* The object stays, and the worker has a fresh copy or none.              *)
Unchanged(w) ==
  /\ stale' = [stale EXCEPT ![w] = FALSE]
  /\ UNCHANGED backup

Goto(w, step) == pc' = [pc EXCEPT ![w] = step]

(* The handler returns and its local variables are gone ...                *)
Return(w) ==
  /\ Goto(w, "idle")
  /\ item' = [item EXCEPT ![w] = "update"]
  /\ claimed' = [claimed EXCEPT ![w] = FALSE]
  /\ status' = [status EXCEPT ![w] = EmptyStatus]
  /\ content' = [content EXCEPT ![w] = <<0, 0, 0>>]
  /\ todo' = [todo EXCEPT ![w] = {}]
  /\ missing' = [missing EXCEPT ![w] = Absent]
  /\ failed' = [failed EXCEPT ![w] = FALSE]

(* ... without an error, after which the entry is forgotten, or with one:  *)
(* AddRateLimited, or a drop when the entry is older than the rescan       *)
(* interval.                                                               *)
Succeed(w, q) == Return(w) /\ queue' = q
Fail(w, q) == Return(w) /\ queue' \in {q, Enqueued(q, item[w])}

-----------------------------------------------------------------------------
(* processNextWorkItem.                                                    *)
Get(w, action) ==
  /\ pc[w] = "idle"
  /\ queue[action] > 0
  /\ queue' = [queue EXCEPT ![action] = @ - 1]
  /\ item' = [item EXCEPT ![w] = action]
  /\ Goto(w, action)
  /\ UNCHANGED <<backup, inputs, rss, claimed, stale, status, content, todo, missing,
                 failed, apiUp, bounds>>

-----------------------------------------------------------------------------
(* handleDatabaseBackupAdd; an object that is gone is an error here.       *)
AddFetch(w) ==
  /\ pc[w] = "add"
  /\ apiUp
  /\ backup.exists
  /\ IF backup.finalizer THEN Succeed(w, queue)
                         ELSE Goto(w, "claim") /\ UNCHANGED <<local, queue>>
  /\ Unchanged(w)
  /\ UNCHANGED <<inputs, rss, apiUp, bounds>>

AddFetchFails(w) ==
  /\ pc[w] = "add"
  /\ ~apiUp \/ ~backup.exists
  /\ Fail(w, queue)
  /\ Unchanged(w)
  /\ UNCHANGED <<inputs, rss, apiUp, bounds>>

(* claimBackupObject: a patch by name, which changes nothing when another  *)
(* worker has made it, ...                                                 *)
Claimed == [backup EXCEPT !.finalizer = TRUE]

Claim(w) ==
  /\ pc[w] = "claim"
  /\ apiUp
  /\ backup.exists
  /\ IF backup.finalizer
     THEN Unchanged(w) /\ UNCHANGED queue
     ELSE Changed(Claimed, w) /\ queue' = Reported(Claimed)
  /\ Goto(w, "claimStatus")
  /\ UNCHANGED <<inputs, rss, local, apiUp, bounds>>

ClaimFails(w) ==
  /\ pc[w] = "claim"
  /\ ~apiUp \/ ~backup.exists
  /\ Unchanged(w)
  /\ Fail(w, queue)
  /\ UNCHANGED <<inputs, rss, apiUp, bounds>>

(* (the answer to a patch that was made is lost)                           *)
ClaimUnanswered(w) ==
  /\ pc[w] = "claim"
  /\ ~apiUp
  /\ backup.exists
  /\ ~backup.finalizer
  /\ Changed(Claimed, w)
  /\ Fail(w, Reported(Claimed))
  /\ UNCHANGED <<inputs, rss, apiUp, bounds>>

(* updateStatus: refused when the object has changed since it was read; a  *)
(* status that is there already (Set keeps the time of a condition that    *)
(* stays as it is) changes nothing.                                        *)
(* (mutant) the version is not sent along *)
AcceptedAlways(w) == backup.exists

Accepted(w) == backup.exists /\ ~stale[w]

WithStatus(s) == [backup EXCEPT !.status = s]

WriteStatus(w, s) ==
  IF backup.status = s THEN Unchanged(w) ELSE Changed(WithStatus(s), w)

ReportStatus(s) == IF backup.status = s THEN queue ELSE Reported(WithStatus(s))

(* ... and the initial status, written over whatever is there.  The time   *)
(* in it makes it another one even when nothing else does, unless that one *)
(* is of the same second.                                                  *)
ClaimReturns(w, q) == IF apiUp THEN Succeed(w, q) ELSE Fail(w, q)

ClaimStatus(w) ==
  LET s == InitStatus(backup.spec) IN
  /\ pc[w] = "claimStatus"
  /\ Accepted(w)
  /\ \/ Changed(WithStatus(s), w) /\ ClaimReturns(w, Reported(WithStatus(s)))
     \/ backup.status = s /\ Unchanged(w) /\ ClaimReturns(w, queue)
  /\ UNCHANGED <<inputs, rss, apiUp, bounds>>

ClaimStatusFails(w) ==
  /\ pc[w] = "claimStatus"
  /\ ~apiUp \/ ~Accepted(w)
  /\ Unchanged(w)
  /\ Fail(w, queue)
  /\ UNCHANGED <<inputs, rss, apiUp, bounds>>

-----------------------------------------------------------------------------
(* The status the handler works on is that of the copy.                    *)
(* (mutant) the handler starts from an initial status, as the other does *)
CopiedInitialStatus == InitStatus(backup.spec)

CopiedStatus == backup.status

(* handleDatabaseBackupUpdate: an object that is gone needs nothing, one   *)
(* without finalizer or with a deletion timestamp goes to another handler. *)
UpdateFetch(w) ==
  /\ pc[w] = "update"
  /\ apiUp
  /\ CASE ~backup.exists -> Succeed(w, queue)
       [] backup.exists /\ ~backup.finalizer ->
            Goto(w, "add") /\ UNCHANGED <<local, queue>>
       [] backup.finalizer /\ backup.deleting ->
            Goto(w, "delete") /\ UNCHANGED <<local, queue>>
       [] backup.finalizer /\ ~backup.deleting ->
            /\ Goto(w, "generate")
            /\ content' = [content EXCEPT ![w] = <<backup.spec, 0, 0>>]
            /\ status' = [status EXCEPT ![w] = CopiedStatus]
            /\ UNCHANGED <<queue, item, claimed, todo, missing, failed>>
  /\ Unchanged(w)
  /\ UNCHANGED <<inputs, rss, apiUp, bounds>>

(* FromKubernetesResources reads the storage class ...                     *)
GetStorageClass(w) ==
  /\ pc[w] = "generate"
  /\ apiUp
  /\ content' = [content EXCEPT ![w] = <<content[w][1], storageClass, 0>>]
  /\ Goto(w, "secrets")
  /\ UNCHANGED <<backup, inputs, rss, queue, item, claimed, stale, status, todo, missing,
                 failed, apiUp, bounds>>

(* (mutant) the hash covers the spec only *)
HashMatchesSpec(w, c) == status[w].hash # NoHash /\ status[w].hash[1] = c[1]

HashMatches(w, c) == status[w].hash = c

(* ... and, some time later, the secrets; with the hash in the status      *)
(* nothing is done.                                                        *)
FromKubernetesResources(w) == <<content[w][1], content[w][2], secrets>>

Generate(w) ==
  LET c == FromKubernetesResources(w) IN
  /\ pc[w] = "secrets"
  /\ apiUp
  /\ IF HashMatches(w, c)
     THEN Succeed(w, queue) /\ Unchanged(w)
     ELSE /\ content' = [content EXCEPT ![w] = c]
          /\ todo' = [todo EXCEPT ![w] = Resource]
          /\ Goto(w, "upsert")
          /\ UNCHANGED <<backup, queue, item, claimed, stale, status, missing, failed>>
  /\ UNCHANGED <<inputs, rss, apiUp, bounds>>

UpdateFails(w) ==
  /\ pc[w] \in {"update", "generate", "secrets"}
  /\ ~apiUp
  /\ Fail(w, queue)
  /\ Unchanged(w)
  /\ UNCHANGED <<inputs, rss, apiUp, bounds>>

(* upsertSecret, upsertService and upsertStatefulSet, in the random order  *)
(* of a map; after the last one the hash is set.                           *)
(* (mutant) the hash is set whatever is left *)
WithHashEarly(w, r, s) == [s EXCEPT !.hash = content[w]]

WithHash(w, r, s) == IF todo[w] = {r} THEN [s EXCEPT !.hash = content[w]] ELSE s

Written(w, r) == [rss EXCEPT ![r] = Generated(r, content[w])]

Upserted(w, r) ==
  LET done == Set("True", content[w][1]) IN
  /\ rss' = Written(w, r)
  /\ status' = [status EXCEPT ![w] = WithHash(w, r, [@ EXCEPT !.conditions[r] = done])]
  /\ todo' = [todo EXCEPT ![w] = @ \ {r}]
  /\ missing' = [missing EXCEPT ![w] = Absent]
  /\ Goto(w, IF todo[w] = {r} THEN "status" ELSE "upsert")
  /\ UNCHANGED <<backup, inputs, queue, item, claimed, stale, content, failed,
                 apiUp, bounds>>

(* An update or a patch, ...                                               *)
Upsert(w, r) ==
  /\ pc[w] = "upsert"
  /\ r \in todo[w]
  /\ apiUp
  /\ rss[r] # Absent
  /\ Upserted(w, r)

(* ... and when it does not find the resource, a second request.           *)
NotFound(w, r) ==
  /\ pc[w] = "upsert"
  /\ r \in todo[w]
  /\ apiUp
  /\ rss[r] = Absent
  /\ missing' = [missing EXCEPT ![w] = r]
  /\ Goto(w, "create")
  /\ UNCHANGED <<backup, inputs, rss, queue, item, claimed, stale, status, content,
                 todo, failed, apiUp, bounds>>

CreateMissing(w, r) ==
  /\ pc[w] = "create"
  /\ r = missing[w]
  /\ apiUp
  /\ rss[r] = Absent
  /\ Upserted(w, r)

(* Either request fails, with or without effect, or another worker has     *)
(* created the resource since: the loop ends.                              *)
(* (mutant) the hash is set when the loop ends, however it ends *)
UpsertErrorWithHash(w, r) ==
  /\ status' = [status EXCEPT ![w].conditions[r] = Set("Unknown", content[w][1]),
                              ![w].hash = content[w]]
  /\ failed' = [failed EXCEPT ![w] = TRUE]
  /\ todo' = [todo EXCEPT ![w] = {}]
  /\ missing' = [missing EXCEPT ![w] = Absent]
  /\ Goto(w, "status")
  /\ UNCHANGED <<backup, inputs, queue, item, claimed, stale, content, apiUp, bounds>>

UpsertError(w, r) ==
  /\ status' = [status EXCEPT ![w].conditions[r] = Set("Unknown", content[w][1])]
  /\ failed' = [failed EXCEPT ![w] = TRUE]
  /\ todo' = [todo EXCEPT ![w] = {}]
  /\ missing' = [missing EXCEPT ![w] = Absent]
  /\ Goto(w, "status")
  /\ UNCHANGED <<backup, inputs, queue, item, claimed, stale, content, apiUp, bounds>>

UpsertFails(w, r) ==
  /\ pc[w] = "upsert"
  /\ r \in todo[w]
  /\ ~apiUp
  /\ rss' \in IF rss[r] = Absent THEN {rss} ELSE {rss, Written(w, r)}
  /\ UpsertError(w, r)

CreateFails(w, r) ==
  /\ pc[w] = "create"
  /\ r = missing[w]
  /\ ~apiUp \/ rss[r] # Absent
  /\ rss' \in IF rss[r] = Absent THEN {rss, Written(w, r)} ELSE {rss}
  /\ UpsertError(w, r)

(* The deferred updateStatus; its error is logged and nothing else.        *)
UpdateReturns(w, q) == IF failed[w] THEN Fail(w, q) ELSE Succeed(w, q)

UpdateStatus(w) ==
  /\ pc[w] = "status"
  /\ Accepted(w)
  /\ WriteStatus(w, status[w])
  /\ UpdateReturns(w, ReportStatus(status[w]))
  /\ UNCHANGED <<inputs, rss, apiUp, bounds>>

UpdateStatusFails(w) ==
  /\ pc[w] = "status"
  /\ ~apiUp \/ ~Accepted(w)
  /\ Unchanged(w)
  /\ UpdateReturns(w, queue)
  /\ UNCHANGED <<inputs, rss, apiUp, bounds>>

-----------------------------------------------------------------------------
(* handleDatabaseBackupDelete fetches again; gone is an error here.        *)
DeleteFetch(w) ==
  /\ pc[w] = "delete"
  /\ apiUp
  /\ backup.exists
  /\ claimed' = [claimed EXCEPT ![w] = backup.finalizer]
  /\ todo' = [todo EXCEPT ![w] = Resource]
  /\ Goto(w, "remove")
  /\ UNCHANGED <<backup, inputs, rss, queue, item, stale, status, content, missing,
                 failed, apiUp, bounds>>

DeleteFetchFails(w) ==
  /\ pc[w] = "delete"
  /\ ~apiUp \/ ~backup.exists
  /\ Fail(w, queue)
  /\ Unchanged(w)
  /\ UNCHANGED <<inputs, rss, apiUp, bounds>>

(* Resources are deleted by name; NotFound is fine.                        *)
(* (mutant) NotFound is an error *)
DeleteExpectsResource(w, r) ==
  /\ pc[w] = "remove"
  /\ r \in todo[w]
  /\ apiUp
  /\ rss' = [rss EXCEPT ![r] = Absent]
  /\ IF rss[r] = Absent
     THEN Fail(w, queue) /\ Unchanged(w)
     ELSE /\ todo' = [todo EXCEPT ![w] = @ \ {r}]
          /\ UNCHANGED <<backup, queue, pc, item, claimed, stale, status, content,
                         missing, failed>>
  /\ UNCHANGED <<inputs, apiUp, bounds>>

Delete(w, r) ==
  /\ pc[w] = "remove"
  /\ r \in todo[w]
  /\ apiUp
  /\ rss' = [rss EXCEPT ![r] = Absent]
  /\ todo' = [todo EXCEPT ![w] = @ \ {r}]
  /\ UNCHANGED <<backup, inputs, queue, pc, item, claimed, stale, status, content,
                 missing, failed, apiUp, bounds>>

DeleteFails(w, r) ==
  /\ pc[w] = "remove"
  /\ r \in todo[w]
  /\ ~apiUp
  /\ rss' \in {rss, [rss EXCEPT ![r] = Absent]}
  /\ Fail(w, queue)
  /\ Unchanged(w)
  /\ UNCHANGED <<inputs, apiUp, bounds>>

(* removeFinalizer: a patch by name.  An object to be deleted goes; one    *)
(* that was created anew in the meantime only loses its finalizer.         *)
Unclaimed == IF backup.deleting THEN Gone ELSE [backup EXCEPT !.finalizer = FALSE]

(* (mutant) an error of the loop does not keep the finalizer *)
AllDeletedOrNot(w) == TRUE

AllDeleted(w) == todo[w] = {}

RemoveFinalizer(w) ==
  /\ pc[w] = "remove"
  /\ AllDeleted(w)
  /\ claimed[w]
  /\ backup.finalizer
  /\ Changed(Unclaimed, w)
  /\ IF apiUp THEN Succeed(w, Reported(Unclaimed)) ELSE Fail(w, Reported(Unclaimed))
  /\ UNCHANGED <<inputs, rss, apiUp, bounds>>

RemoveFinalizerFails(w) ==
  /\ pc[w] = "remove"
  /\ AllDeleted(w)
  /\ claimed[w]
  /\ ~apiUp \/ ~backup.finalizer
  /\ Fail(w, queue)
  /\ Unchanged(w)
  /\ UNCHANGED <<inputs, rss, apiUp, bounds>>

(* The copy had no finalizer (any more): somebody else's business.         *)
NothingToRemove(w) ==
  /\ pc[w] = "remove"
  /\ AllDeleted(w)
  /\ ~claimed[w]
  /\ Succeed(w, queue)
  /\ Unchanged(w)
  /\ UNCHANGED <<inputs, rss, apiUp, bounds>>

-----------------------------------------------------------------------------
(* The users: creation, edits of the spec, edits of what it refers to (of  *)
(* which the controller is not told), and deletion.                        *)
Create ==
  /\ ~backup.exists
  /\ creations < MaxCreations
  /\ creations' = creations + 1
  /\ backup' = [Gone EXCEPT !.exists = TRUE]
  /\ queue' = Enqueued(queue, "add")
  /\ stale' = [w \in Worker |-> pc[w] # "idle"]
  /\ UNCHANGED <<inputs, rss, pc, local, apiUp, restarts>>

EditSpec ==
  LET b == [backup EXCEPT !.spec = @ + 1] IN
  /\ backup.exists
  /\ backup.spec < MaxSpec
  /\ Changed(b, NoWorker)
  /\ queue' = Reported(b)
  /\ UNCHANGED <<inputs, rss, pc, local, apiUp, bounds>>

EditStorageClass(v) ==
  /\ v # storageClass
  /\ MayRevert \/ v > storageClass
  /\ storageClass' = v
  /\ UNCHANGED <<backup, secrets, rss, queue, pc, local, stale, apiUp, bounds>>

EditSecrets(v) ==
  /\ v # secrets
  /\ MayRevert \/ v > secrets
  /\ secrets' = v
  /\ UNCHANGED <<backup, storageClass, rss, queue, pc, local, stale, apiUp, bounds>>

UserDelete ==
  LET b == IF backup.finalizer THEN [backup EXCEPT !.deleting = TRUE] ELSE Gone IN
  /\ backup.exists
  /\ ~backup.deleting
  /\ Changed(b, NoWorker)
  /\ queue' = Reported(b)
  /\ UNCHANGED <<inputs, rss, pc, local, apiUp, bounds>>

(* The informer's resync.                                                  *)
Resync ==
  /\ backup.exists
  /\ queue["update"] = 0
  /\ queue' = Enqueued(queue, "update")
  /\ UNCHANGED <<backup, inputs, rss, pc, local, stale, apiUp, bounds>>

(* The controller restarts and lists the objects.                          *)
Restart ==
  /\ restarts < MaxRestarts
  /\ restarts' = restarts + 1
  /\ queue' = [a \in QueueEntryAction |-> IF a = "add" /\ backup.exists THEN 1 ELSE 0]
  /\ pc' = [w \in Worker |-> "idle"]
  /\ item' = [w \in Worker |-> "update"]
  /\ claimed' = [w \in Worker |-> FALSE]
  /\ stale' = [w \in Worker |-> FALSE]
  /\ status' = [w \in Worker |-> EmptyStatus]
  /\ content' = [w \in Worker |-> <<0, 0, 0>>]
  /\ todo' = [w \in Worker |-> {}]
  /\ missing' = [w \in Worker |-> Absent]
  /\ failed' = [w \in Worker |-> FALSE]
  /\ UNCHANGED <<backup, inputs, rss, apiUp, creations>>

APIFlips ==
  /\ APIMayFail
  /\ apiUp' = ~apiUp
  /\ UNCHANGED <<backup, inputs, rss, queue, pc, local, stale, bounds>>

handleDatabaseBackupAdd(w) ==
  \/ AddFetch(w) \/ AddFetchFails(w)
  \/ Claim(w) \/ ClaimFails(w) \/ ClaimUnanswered(w)
  \/ ClaimStatus(w) \/ ClaimStatusFails(w)

handleDatabaseBackupUpdate(w) ==
  \/ UpdateFetch(w) \/ GetStorageClass(w) \/ Generate(w) \/ UpdateFails(w)
  \/ \E r \in Resource :
       \/ Upsert(w, r) \/ NotFound(w, r) \/ CreateMissing(w, r)
       \/ UpsertFails(w, r) \/ CreateFails(w, r)
  \/ UpdateStatus(w) \/ UpdateStatusFails(w)

handleDatabaseBackupDelete(w) ==
  \/ DeleteFetch(w) \/ DeleteFetchFails(w)
  \/ \E r \in Resource : Delete(w, r) \/ DeleteFails(w, r)
  \/ RemoveFinalizer(w) \/ RemoveFinalizerFails(w) \/ NothingToRemove(w)

runWorker(w) ==
  \/ \E a \in QueueEntryAction : Get(w, a)
  \/ handleDatabaseBackupAdd(w)
  \/ handleDatabaseBackupUpdate(w)
  \/ handleDatabaseBackupDelete(w)

User ==
  \/ Create \/ EditSpec \/ UserDelete
  \/ \E v \in InputVersion : EditStorageClass(v) \/ EditSecrets(v)

Next ==
  \/ \E w \in Worker : runWorker(w)
  \/ User
  \/ Resync \/ Restart \/ APIFlips

Spec == Init /\ [][Next]_vars

(* Workers run, and the informer resyncs again and again.                  *)
FairSpec ==
  /\ Spec
  /\ \A w \in Worker : WF_vars(runWorker(w))
  /\ WF_vars(Resync)

-----------------------------------------------------------------------------
(* Every variable keeps its type.                                          *)
TypeOK ==
  /\ backup \in [exists : BOOLEAN, finalizer : BOOLEAN, deleting : BOOLEAN,
                 spec : SpecVersion, status : Status]
  /\ {storageClass, secrets} \subseteq InputVersion
  /\ rss \in [Resource -> Content \cup {Static, Absent}]
  /\ queue \in [QueueEntryAction -> 0 .. MaxQueue]
  /\ pc \in [Worker -> {"idle", "add", "claim", "claimStatus", "update", "generate",
                        "secrets", "upsert", "create", "status", "delete", "remove"}]
  /\ item \in [Worker -> QueueEntryAction]
  /\ {claimed, stale, failed} \subseteq [Worker -> BOOLEAN]
  /\ status \in [Worker -> Status]
  /\ content \in [Worker -> Content]
  /\ todo \in [Worker -> SUBSET Resource]
  /\ missing \in [Worker -> Resource \cup {Absent}]
  /\ apiUp \in BOOLEAN
  /\ creations \in 0 .. MaxCreations
  /\ restarts \in 0 .. MaxRestarts

Desired == <<backup.spec, storageClass, secrets>>
Managed == backup.exists /\ ~backup.deleting

(* PLAN.md:27, "Stuff vanishes? Controller gets rid of the STS": when the  *)
(* object is gone so are its resources.                                    *)
NoOrphans == ~backup.exists => \A r \in Resource : rss[r] = Absent

(* logic.go:97-100, "the generated resources matches the previous          *)
(* generated resources ... the state should be fine": when the next        *)
(* handler would find the hash unchanged, the resources are those it would *)
(* generate.                                                               *)
HashMeansApplied ==
  (Managed /\ backup.status.hash = Desired /\ \A w \in Worker : pc[w] = "idle")
    => \A r \in Resource : rss[r] = Generated(r, Desired)

(* An object shown as Ready has all its resources.                         *)
ReadyMeansThere ==
  (/\ Managed
   /\ backup.status.conditions # EmptyStatus.conditions
   /\ CalculateReady(backup.status.conditions) = "True")
     => \A r \in Resource : rss[r] # Absent

(* Even with overlapping workers a hash is only ever stored for the spec   *)
(* the object has at that moment: a worker that read an older one is       *)
(* refused (logic.go:252-255).                                             *)
HashIsCurrent ==
  [][(backup'.status.hash # backup.status.hash /\ backup'.status.hash # NoHash)
       => backup'.status.hash[1] = backup.spec]_vars

(* Why a stored hash is current: a copy that is not stale goes with the    *)
(* spec and the hash the object has, until the new hash is set.            *)
CopiesCurrent ==
  \A w \in Worker : ~stale[w] =>
    /\ pc[w] \in {"generate", "secrets", "upsert", "create", "status"}
         => content[w][1] = backup.spec
    /\ pc[w] \in {"generate", "secrets", "upsert", "create"}
         => status[w].hash = backup.status.hash
    /\ pc[w] = "status" => status[w].hash \in {backup.status.hash, content[w]}

IndInv == TypeOK /\ CopiesCurrent

(* What a worker relies on when it works alone.  The finalizer keeps the   *)
(* object while there are resources and while a handler is busy with it.   *)
Guarded ==
  /\ ~backup.exists => backup = Gone
  /\ backup.deleting => backup.finalizer
  /\ ~backup.finalizer => \A r \in Resource : rss[r] = Absent
  /\ \A w \in Worker :
       /\ pc[w] \in {"generate", "secrets", "upsert", "create", "status", "delete",
                     "remove"}
            => backup.finalizer
       /\ pc[w] \in {"delete", "remove"} => backup.deleting
       /\ pc[w] = "remove" => \A r \in Resource \ todo[w] : rss[r] = Absent

(* What the loop has upserted is in place, and in the end all of it is or  *)
(* the status says otherwise.                                              *)
Applied ==
  \A w \in Worker :
    /\ pc[w] \in {"generate", "secrets", "upsert", "create"}
         => status[w].hash = backup.status.hash
    /\ pc[w] \in {"upsert", "create"} =>
         \A r \in Resource \ todo[w] : rss[r] = Generated(r, content[w])
    /\ pc[w] = "status" =>
         \/ /\ status[w].hash = content[w]
            /\ \A r \in Resource : rss[r] = Generated(r, content[w])
         \/ /\ status[w].hash = backup.status.hash
            /\ \E r \in Resource : status[w].conditions[r].status = "Unknown"

(* Unless an edit restores an earlier version, contents are handled in     *)
(* their order and a hash that is left behind is never asked for again.    *)
NotAfter(c, d) == c[1] <= d[1] /\ c[2] <= d[2] /\ c[3] <= d[3]

HashOrder ==
  LET hash == backup.status.hash IN
  MayRevert \/
    /\ hash # NoHash => NotAfter(hash, Desired)
    /\ Managed /\ hash = Desired => \A r \in Resource : rss[r] = Generated(r, Desired)
    /\ \A w \in Worker :
         /\ pc[w] \in {"generate", "secrets", "upsert", "create", "status"}
              => NotAfter(content[w], Desired)
         /\ pc[w] \in {"generate", "secrets"} /\ hash # NoHash =>
              /\ hash[1] <= content[w][1]
              /\ pc[w] = "secrets" => hash[2] <= content[w][2]
         /\ pc[w] \in {"upsert", "create", "status"} /\ hash # NoHash =>
              NotAfter(hash, content[w]) /\ hash # content[w]

AloneInv == TypeOK /\ Guarded /\ Applied /\ HashOrder /\ ReadyMeansThere

(* It never happens that the API server is back for good and an object     *)
(* stays in deletion for good: <>[]apiUp leads to the end of every         *)
(* deletion, also (in ControllerAlone.cfg) when the controller was         *)
(* restarted, whose first event for an object with the finalizer does      *)
(* nothing (logic.go:36-42).                                               *)
DeletionCompletes == ~<>[](apiUp /\ backup.deleting)

(* ... and what was edited, with or without an event, is applied in the    *)
(* end (PLAN.md:26, "Stuff changes? Controller changes the STS").          *)
Converges ==
  <>[]apiUp =>
    <>[](\/ ~backup.exists
         \/ /\ backup.status.hash = Desired
            /\ \A r \in Resource : rss[r] = Generated(r, Desired))
=============================================================================
