-------------------------- MODULE ControllerProofs --------------------------
(***************************************************************************)
(* Proofs about Controller for any number of workers that handle the       *)
(* object at the same time: the types, and HashIsCurrent.                  *)
(***************************************************************************)
EXTENDS Controller, TLAPS

-----------------------------------------------------------------------------
(* The parts of TypeOK.                                                    *)
BackupType ==
  [exists : BOOLEAN, finalizer : BOOLEAN, deleting : BOOLEAN, spec : SpecVersion,
   status : Status]

QueueType == [QueueEntryAction -> 0 .. MaxQueue]

LocalType ==
  /\ pc \in [Worker -> {"idle", "add", "claim", "claimStatus", "update", "generate",
                        "secrets", "upsert", "create", "status", "delete", "remove"}]
  /\ item \in [Worker -> QueueEntryAction]
  /\ claimed \in [Worker -> BOOLEAN] /\ failed \in [Worker -> BOOLEAN]
  /\ status \in [Worker -> Status]
  /\ content \in [Worker -> Content]
  /\ todo \in [Worker -> SUBSET Resource]
  /\ missing \in [Worker -> Resource \cup {Absent}]

OtherType ==
  /\ storageClass \in InputVersion /\ secrets \in InputVersion
  /\ rss \in [Resource -> Content \cup {Static, Absent}]
  /\ apiUp \in BOOLEAN
  /\ creations \in 0 .. MaxCreations
  /\ restarts \in 0 .. MaxRestarts

(* Statuses and objects the controller writes are well-formed.             *)
LEMMA StatusTypes ==
  /\ EmptyStatus \in Status
  /\ \A g \in SpecVersion : InitStatus(g) \in Status
  /\ Gone \in BackupType
  <1>1. 0 \in SpecVersion /\ 0 \in InputVersion /\ <<0, 0, 0>> \in Content
    BY ControllerAssumption DEF SpecVersion, InputVersion, Content
  <1>2. \A g \in SpecVersion, to \in {"none", "False", "True", "Unknown"} :
          Set(to, g) \in Condition
    BY DEF Set, Condition
  <1>3. EmptyStatus \in Status /\ \A g \in SpecVersion : InitStatus(g) \in Status
    BY <1>1, <1>2 DEF EmptyStatus, InitStatus, Status
  <1> QED  BY <1>1, <1>3 DEF Gone, BackupType

(* The first versions.                                                     *)
LEMMA FirstVersions ==
  /\ 0 \in SpecVersion /\ 0 \in InputVersion
  /\ <<0, 0, 0>> \in Content
  /\ 0 \in 0 .. MaxQueue /\ 1 \in 0 .. MaxQueue
  BY ControllerAssumption DEF SpecVersion, InputVersion, Content

(* The queue keeps its bound.                                              *)
LEMMA EnqueuedType ==
  ASSUME NEW q \in QueueType, NEW a \in QueueEntryAction
  PROVE  Enqueued(q, a) \in QueueType
  <1>1. q[a] \in 0 .. MaxQueue
    BY DEF QueueType
  <1>2. (IF q[a] < MaxQueue THEN q[a] + 1 ELSE q[a]) \in 0 .. MaxQueue
    BY <1>1, ControllerAssumption
  <1> QED  BY <1>2 DEF Enqueued, QueueType

(* A change of the object is one more entry at most.                       *)
LEMMA ReportedType ==
  ASSUME queue \in QueueType, NEW b
  PROVE  Reported(b) \in QueueType
  BY EnqueuedType DEF Reported, QueueEntryAction

(* Whatever the API server makes of the object, it stays well-formed.      *)
LEMMA BackupTypes ==
  ASSUME backup \in BackupType
  PROVE  /\ Claimed \in BackupType
         /\ Unclaimed \in BackupType
         /\ \A s \in Status : WithStatus(s) \in BackupType
  BY StatusTypes DEF BackupType, Claimed, Unclaimed, WithStatus

(* A handler that returns leaves its locals well-formed.                   *)
LEMMA ReturnType ==
  ASSUME LocalType, NEW w \in Worker, Return(w)
  PROVE  LocalType'
  BY FirstVersions, StatusTypes DEF Return, Goto, LocalType, QueueEntryAction

(* Either way out of a handler is a return.                                *)
LEMMA HandlerReturns ==
  ASSUME LocalType, NEW w \in Worker, NEW q \in QueueType, Succeed(w, q) \/ Fail(w, q)
  PROVE  Return(w) /\ queue' \in QueueType
  <1>1. item[w] \in QueueEntryAction
    BY DEF LocalType
  <1> QED  BY <1>1, EnqueuedType DEF Succeed, Fail

(* A resource is generated, never absent.                                  *)
LEMMA GeneratedType ==
  ASSUME NEW r \in Resource, NEW c \in Content
  PROVE  Generated(r, c) \in Content \cup {Static} /\ Generated(r, c) # Absent
  BY ControllerAssumption DEF Generated, generateSecret, generateService, generateSTS

-----------------------------------------------------------------------------
(* Types, one action at a time.                                            *)
LEMMA TypeParts ==
  TypeOK <=> /\ backup \in BackupType /\ queue \in QueueType
             /\ stale \in [Worker -> BOOLEAN]
             /\ LocalType /\ OtherType
  BY DEF TypeOK, BackupType, QueueType, LocalType, OtherType

(* The initial values have their types.                                    *)
LEMMA InitType == Init => TypeOK
  <1> SUFFICES ASSUME Init
               PROVE  TypeOK
    OBVIOUS
  <1>1. LocalType
    BY FirstVersions, StatusTypes DEF Init, LocalType, QueueEntryAction
  <1>2. OtherType
    BY FirstVersions, ControllerAssumption DEF Init, OtherType
  <1>3. queue \in QueueType
    BY FirstVersions DEF Init, QueueType
  <1> QED  BY <1>1, <1>2, <1>3, StatusTypes, TypeParts DEF Init

(* The parts, put together after a step.                                   *)
LEMMA TypePartsNext ==
  ASSUME backup' \in BackupType, queue' \in QueueType, stale' \in [Worker -> BOOLEAN],
         LocalType', OtherType'
  PROVE  TypeOK'
  BY DEF TypeOK, BackupType, QueueType, LocalType, OtherType

(* The object and the copies, after it changed or did not.                 *)
LEMMA ChangedType ==
  ASSUME NEW b \in BackupType, NEW w, Changed(b, w)
  PROVE  backup' \in BackupType /\ stale' \in [Worker -> BOOLEAN]
  BY DEF Changed

(* Likewise when nothing was written.                                      *)
LEMMA UnchangedType ==
  ASSUME TypeOK, NEW w \in Worker, Unchanged(w)
  PROVE  backup' \in BackupType /\ stale' \in [Worker -> BOOLEAN]
  BY TypeParts DEF Unchanged

(* A handler that is over, with or without a last change of the object.    *)
LEMMA ReturnsType ==
  ASSUME TypeOK, NEW w \in Worker, NEW q \in QueueType, Succeed(w, q) \/ Fail(w, q),
         backup' \in BackupType, stale' \in [Worker -> BOOLEAN], OtherType'
  PROVE  TypeOK'
  BY TypeParts, TypePartsNext, HandlerReturns, ReturnType

(* A status write.                                                         *)
LEMMA WriteStatusType ==
  ASSUME TypeOK, NEW w \in Worker, NEW s \in Status, WriteStatus(w, s)
  PROVE  /\ backup' \in BackupType /\ stale' \in [Worker -> BOOLEAN]
         /\ ReportStatus(s) \in QueueType
  <1>1. WithStatus(s) \in BackupType
    BY TypeParts, BackupTypes
  <1>2. ReportStatus(s) \in QueueType
    BY TypeParts, ReportedType DEF ReportStatus
  <1> QED  BY <1>1, <1>2, ChangedType, UnchangedType DEF WriteStatus

(* handleDatabaseBackupAdd keeps the types, ...                            *)
LEMMA AddType ==
  ASSUME TypeOK, NEW w \in Worker, handleDatabaseBackupAdd(w)
  PROVE  TypeOK'
  <1> USE DEF local, inputs, bounds
  <1>0. /\ backup \in BackupType /\ queue \in QueueType /\ LocalType /\ OtherType
    BY TypeParts
  <1>1. OtherType'
    BY <1>0 DEF handleDatabaseBackupAdd, AddFetch, AddFetchFails, Claim, ClaimFails,
                ClaimUnanswered, ClaimStatus, ClaimStatusFails, OtherType
  <1>2. CASE AddFetch(w)
    <2>1. backup' \in BackupType /\ stale' \in [Worker -> BOOLEAN]
      BY <1>2, UnchangedType DEF AddFetch
    <2>2. CASE backup.finalizer
      BY <1>0, <1>1, <1>2, <2>1, <2>2, ReturnsType DEF AddFetch
    <2>3. CASE ~backup.finalizer
      <3>1. LocalType' /\ queue' = queue
        BY <1>0, <1>2, <2>3 DEF AddFetch, Goto, LocalType
      <3> QED  BY <1>0, <1>1, <2>1, <3>1, TypePartsNext
    <2> QED  BY <2>2, <2>3
  <1>3. CASE AddFetchFails(w) \/ ClaimFails(w) \/ ClaimStatusFails(w)
    <2>1. backup' \in BackupType /\ stale' \in [Worker -> BOOLEAN] /\ Fail(w, queue)
      BY <1>3, UnchangedType DEF AddFetchFails, ClaimFails, ClaimStatusFails
    <2> QED  BY <1>0, <1>1, <2>1, ReturnsType
  <1>4. CASE Claim(w)
    <2>1. backup' \in BackupType /\ stale' \in [Worker -> BOOLEAN] /\ queue' \in QueueType
      BY <1>0, <1>4, ChangedType, UnchangedType, BackupTypes, ReportedType DEF Claim
    <2>2. LocalType'
      BY <1>0, <1>4 DEF Claim, Goto, LocalType
    <2> QED  BY <1>1, <2>1, <2>2, TypePartsNext
  <1>5. CASE ClaimUnanswered(w)
    <2>1. backup' \in BackupType /\ stale' \in [Worker -> BOOLEAN]
      BY <1>0, <1>5, ChangedType, BackupTypes DEF ClaimUnanswered
    <2>2. Fail(w, Reported(Claimed)) /\ Reported(Claimed) \in QueueType
      BY <1>0, <1>5, ReportedType DEF ClaimUnanswered
    <2> QED  BY <1>1, <2>1, <2>2, ReturnsType
  <1>6. CASE ClaimStatus(w)
    <2> DEFINE s == InitStatus(backup.spec)
    <2>1. WithStatus(s) \in BackupType /\ Reported(WithStatus(s)) \in QueueType
      BY <1>0, StatusTypes, BackupTypes, ReportedType DEF BackupType
    <2> HIDE DEF s
    <2>2. CASE /\ Changed(WithStatus(s), w)
               /\ ClaimReturns(w, Reported(WithStatus(s)))
      BY <1>1, <2>1, <2>2, ChangedType, ReturnsType DEF ClaimReturns
    <2>3. CASE Unchanged(w) /\ ClaimReturns(w, queue)
      BY <1>0, <1>1, <2>3, UnchangedType, ReturnsType DEF ClaimReturns
    <2> QED  BY <1>6, <2>2, <2>3 DEF ClaimStatus, s
  <1> QED
    BY <1>2, <1>3, <1>4, <1>5, <1>6 DEF handleDatabaseBackupAdd

(* ... handleDatabaseBackupUpdate does, ...                                *)
LEMMA UpdateType ==
  ASSUME TypeOK, NEW w \in Worker, handleDatabaseBackupUpdate(w)
  PROVE  TypeOK'
  <1> USE DEF local, inputs, bounds
  <1>0. /\ backup \in BackupType /\ queue \in QueueType /\ LocalType /\ OtherType
        /\ stale \in [Worker -> BOOLEAN]
    BY TypeParts
  <1>1. /\ inputs' = inputs /\ apiUp' \in BOOLEAN
        /\ creations' \in 0 .. MaxCreations /\ restarts' \in 0 .. MaxRestarts
    BY <1>0 DEF handleDatabaseBackupUpdate, UpdateFetch, GetStorageClass, Generate,
                UpdateFails, Upsert,
                NotFound, CreateMissing, Upserted, UpsertFails, CreateFails, UpsertError,
                UpdateStatus, UpdateStatusFails, OtherType
  <1>2. CASE UpdateFetch(w)
    <2>1. /\ backup' \in BackupType /\ stale' \in [Worker -> BOOLEAN] /\ OtherType'
      BY <1>0, <1>1, <1>2, UnchangedType DEF UpdateFetch, OtherType
    <2>2. CASE Succeed(w, queue)
      BY <1>0, <2>1, <2>2, ReturnsType
    <2>3. CASE (Goto(w, "add") \/ Goto(w, "delete")) /\ UNCHANGED <<local, queue>>
      <3>1. LocalType'
        BY <1>0, <2>3 DEF Goto, LocalType
      <3> QED  BY <1>0, <2>1, <2>3, <3>1, TypePartsNext
    <2>4. CASE /\ Goto(w, "generate")
               /\ content' = [content EXCEPT ![w] = <<backup.spec, 0, 0>>]
               /\ status' = [status EXCEPT ![w] = CopiedStatus]
               /\ UNCHANGED <<queue, item, claimed, todo, missing, failed>>
      <3>1. <<backup.spec, 0, 0>> \in Content /\ CopiedStatus \in Status
        BY <1>0, FirstVersions DEF BackupType, CopiedStatus, Content
      <3>2. LocalType'
        BY <1>0, <2>4, <3>1 DEF Goto, LocalType
      <3> QED  BY <1>0, <2>1, <2>4, <3>2, TypePartsNext
    <2> QED  BY <1>0, <1>2, <2>2, <2>3, <2>4 DEF UpdateFetch, BackupType
  <1>3. CASE Generate(w)
    <2> DEFINE c == FromKubernetesResources(w)
    <2>1. OtherType' /\ c \in Content
      <3>1. content[w] \in Content /\ secrets \in InputVersion
        BY <1>0 DEF LocalType, OtherType
      <3>2. c \in Content
        BY <3>1 DEF Content, FromKubernetesResources
      <3> QED  BY <1>0, <1>1, <1>3, <3>2 DEF Generate, OtherType
    <2>2. CASE HashMatches(w, c)
      <3>1. Succeed(w, queue) /\ Unchanged(w)
        BY <1>3, <2>2 DEF Generate
      <3> QED  BY <1>0, <2>1, <3>1, UnchangedType, ReturnsType
    <2>3. CASE ~HashMatches(w, c)
      <3> HIDE DEF c
      <3>1. /\ content' = [content EXCEPT ![w] = c]
            /\ todo' = [todo EXCEPT ![w] = Resource]
            /\ Goto(w, "upsert")
            /\ UNCHANGED <<backup, queue, item, claimed, stale, status, missing, failed>>
        BY <1>3, <2>3 DEF Generate, c
      <3>2. LocalType'
        BY <1>0, <2>1, <3>1, FirstVersions DEF Goto, LocalType
      <3> QED  BY <1>0, <2>1, <3>1, <3>2, TypePartsNext
    <2> QED  BY <2>2, <2>3
  <1>4. CASE UpdateFails(w)
    <2>1. /\ Fail(w, queue) /\ OtherType'
          /\ backup' \in BackupType /\ stale' \in [Worker -> BOOLEAN]
      BY <1>0, <1>1, <1>4, UnchangedType DEF UpdateFails, OtherType
    <2> QED  BY <1>0, <2>1, ReturnsType
  <1>5. ASSUME NEW r \in Resource
        PROVE  Written(w, r) \in [Resource -> Content \cup {Static, Absent}]
    <2>1. content[w] \in Content
      BY <1>0 DEF LocalType
    <2>2. Generated(r, content[w]) \in Content \cup {Static}
      BY <2>1, GeneratedType
    <2> QED  BY <1>0, <2>2 DEF Written, OtherType
  <1>6. ASSUME NEW r \in Resource, NEW to \in {"True", "Unknown"},
               NEW h \in Content \cup {NoHash}
        PROVE  [[status[w] EXCEPT !.conditions[r] = Set(to, content[w][1])]
                  EXCEPT !.hash = h] \in Status
    <2>1. content[w][1] \in SpecVersion /\ status[w] \in Status
      BY <1>0 DEF LocalType, Content
    <2>2. Set(to, content[w][1]) \in Condition
      BY <2>1 DEF Set, Condition
    <2> QED  BY <2>1, <2>2 DEF Status
  <1>7. ASSUME NEW r \in Resource, Upserted(w, r)
        PROVE  TypeOK'
    <2> DEFINE s == [status[w] EXCEPT !.conditions[r] = Set("True", content[w][1])]
    <2>1. status[w] \in Status /\ content[w] \in Content
      BY <1>0 DEF LocalType
    <2>2. s \in Status /\ [s EXCEPT !.hash = content[w]] \in Status
      <3>1. s = [s EXCEPT !.hash = status[w].hash] /\ status[w].hash \in Content \cup {NoHash}
        BY <2>1 DEF Status
      <3> QED  BY <1>6, <2>1, <3>1
    <2>3. status' = [status EXCEPT ![w] = WithHash(w, r, s)]
      BY <1>0, <1>7 DEF Upserted, LocalType
    <2>4. WithHash(w, r, s) \in Status
      BY <2>2 DEF WithHash
    <2> HIDE DEF s
    <2>5. LocalType'
      BY <1>0, <1>7, <2>3, <2>4 DEF Upserted, Goto, LocalType
    <2>6. OtherType'
      BY <1>0, <1>1, <1>5, <1>7 DEF Upserted, OtherType
    <2> QED  BY <1>0, <1>7, <2>5, <2>6, TypePartsNext DEF Upserted
  <1>8. ASSUME NEW r \in Resource, UpsertError(w, r), rss' \in {rss, Written(w, r)}
        PROVE  TypeOK'
    <2> DEFINE s == [status[w] EXCEPT !.conditions[r] = Set("Unknown", content[w][1])]
    <2>1. s \in Status
      <3>1. status[w] \in Status
        BY <1>0 DEF LocalType
      <3>2. s = [s EXCEPT !.hash = status[w].hash] /\ status[w].hash \in Content \cup {NoHash}
        BY <3>1 DEF Status
      <3> QED  BY <1>6, <3>2
    <2>2. status' = [status EXCEPT ![w] = s]
      BY <1>0, <1>8 DEF UpsertError, LocalType
    <2> HIDE DEF s
    <2>3. LocalType'
      BY <1>0, <1>8, <2>1, <2>2 DEF UpsertError, Goto, LocalType
    <2>4. OtherType'
      BY <1>0, <1>1, <1>5, <1>8 DEF OtherType
    <2> QED  BY <1>0, <1>8, <2>3, <2>4, TypePartsNext DEF UpsertError
  <1>9. ASSUME NEW r \in Resource, Upsert(w, r) \/ CreateMissing(w, r)
        PROVE  TypeOK'
    BY <1>7, <1>9 DEF Upsert, CreateMissing
  <1>10. ASSUME NEW r \in Resource, UpsertFails(w, r) \/ CreateFails(w, r)
         PROVE  TypeOK'
    BY <1>8, <1>10 DEF UpsertFails, CreateFails
  <1>11. ASSUME NEW r \in Resource, NotFound(w, r)
         PROVE  TypeOK'
    <2>1. LocalType' /\ OtherType'
      BY <1>0, <1>11 DEF NotFound, Goto, LocalType, OtherType
    <2> QED  BY <1>0, <1>11, <2>1, TypePartsNext DEF NotFound
  <1>12. CASE UpdateStatus(w)
    <2>1. OtherType' /\ status[w] \in Status
      BY <1>0, <1>12 DEF UpdateStatus, OtherType, LocalType
    <2>2. /\ WriteStatus(w, status[w])
          /\ Succeed(w, ReportStatus(status[w])) \/ Fail(w, ReportStatus(status[w]))
      BY <1>12 DEF UpdateStatus, UpdateReturns
    <2> QED  BY <2>1, <2>2, WriteStatusType, ReturnsType
  <1>13. CASE UpdateStatusFails(w)
    <2>1. OtherType' /\ Unchanged(w) /\ (Succeed(w, queue) \/ Fail(w, queue))
      BY <1>0, <1>13 DEF UpdateStatusFails, UpdateReturns, OtherType
    <2> QED  BY <1>0, <2>1, UnchangedType, ReturnsType
  <1>14. CASE GetStorageClass(w)
    <2>1. content[w] \in Content /\ storageClass \in InputVersion
      BY <1>0 DEF LocalType, OtherType
    <2>2. <<content[w][1], storageClass, 0>> \in Content
      BY <2>1, FirstVersions DEF Content
    <2>3. LocalType' /\ OtherType'
      BY <1>0, <1>14, <2>2 DEF GetStorageClass, Goto, LocalType, OtherType
    <2> QED  BY <1>0, <1>14, <2>3, TypePartsNext DEF GetStorageClass
  <1> QED
    BY <1>2, <1>3, <1>4, <1>9, <1>10, <1>11, <1>12, <1>13, <1>14
       DEF handleDatabaseBackupUpdate

(* ... handleDatabaseBackupDelete does, ...                                *)
LEMMA DeleteType ==
  ASSUME TypeOK, NEW w \in Worker, handleDatabaseBackupDelete(w)
  PROVE  TypeOK'
  <1> USE DEF local, inputs, bounds
  <1>0. /\ backup \in BackupType /\ queue \in QueueType /\ LocalType /\ OtherType
        /\ stale \in [Worker -> BOOLEAN]
    BY TypeParts
  <1>1. OtherType'
    BY <1>0 DEF handleDatabaseBackupDelete, DeleteFetch, DeleteFetchFails, Delete, DeleteFails,
                RemoveFinalizer, RemoveFinalizerFails, NothingToRemove, OtherType
  <1>2. CASE DeleteFetch(w)
    <2>1. LocalType'
      BY <1>0, <1>2 DEF DeleteFetch, Goto, LocalType, BackupType
    <2> QED  BY <1>0, <1>1, <1>2, <2>1, TypePartsNext DEF DeleteFetch
  <1>3. ASSUME NEW r \in Resource, Delete(w, r)
        PROVE  TypeOK'
    <2>1. LocalType'
      BY <1>0, <1>3 DEF Delete, LocalType
    <2> QED  BY <1>0, <1>1, <1>3, <2>1, TypePartsNext DEF Delete
  <1>4. CASE RemoveFinalizer(w)
    <2>1. backup' \in BackupType /\ stale' \in [Worker -> BOOLEAN]
      BY <1>0, <1>4, BackupTypes, ChangedType DEF RemoveFinalizer
    <2>2. /\ Reported(Unclaimed) \in QueueType
          /\ Succeed(w, Reported(Unclaimed)) \/ Fail(w, Reported(Unclaimed))
      BY <1>0, <1>4, ReportedType DEF RemoveFinalizer
    <2> QED  BY <1>1, <2>1, <2>2, ReturnsType
  <1>5. ASSUME Unchanged(w), Succeed(w, queue) \/ Fail(w, queue)
        PROVE  TypeOK'
    BY <1>0, <1>1, <1>5, UnchangedType, ReturnsType
  <1>6. CASE \/ DeleteFetchFails(w) \/ RemoveFinalizerFails(w) \/ NothingToRemove(w)
             \/ \E r \in Resource : DeleteFails(w, r)
    BY <1>5, <1>6 DEF DeleteFetchFails, RemoveFinalizerFails, NothingToRemove, DeleteFails
  <1> QED
    BY <1>2, <1>3, <1>4, <1>6 DEF handleDatabaseBackupDelete

(* ... and so does every step.                                             *)
LEMMA NextType ==
  ASSUME TypeOK, [Next]_vars
  PROVE  TypeOK'
  <1> USE DEF local, inputs, bounds
  <1>0. /\ backup \in BackupType /\ queue \in QueueType /\ LocalType /\ OtherType
        /\ stale \in [Worker -> BOOLEAN]
    BY TypeParts
  <1>1. ASSUME NEW w \in Worker, NEW a \in QueueEntryAction, Get(w, a)
        PROVE  TypeOK'
    <2>1. queue' \in QueueType
      BY <1>0, <1>1, ControllerAssumption DEF Get, QueueType
    <2>2. LocalType' /\ OtherType'
      BY <1>0, <1>1 DEF Get, Goto, LocalType, OtherType, QueueEntryAction
    <2> QED  BY <1>0, <1>1, <2>1, <2>2, TypePartsNext DEF Get
  <1>2. ASSUME NEW w \in Worker, runWorker(w)
        PROVE  TypeOK'
    BY <1>1, <1>2, AddType, UpdateType, DeleteType DEF runWorker
  <1>3. CASE Create
    <2>1. backup' \in BackupType /\ queue' \in QueueType
      BY <1>0, <1>3, StatusTypes, EnqueuedType DEF Create, Gone, BackupType, QueueEntryAction
    <2>2. stale' \in [Worker -> BOOLEAN] /\ LocalType' /\ OtherType'
      BY <1>0, <1>3, ControllerAssumption DEF Create, LocalType, OtherType
    <2> QED  BY <2>1, <2>2, TypePartsNext
  <1>4. CASE EditSpec
    <2> DEFINE b == [backup EXCEPT !.spec = @ + 1]
    <2>1. b \in BackupType
      BY <1>0, <1>4, ControllerAssumption DEF EditSpec, BackupType, SpecVersion
    <2>2. Changed(b, NoWorker) /\ queue' = Reported(b) /\ LocalType' /\ OtherType'
      BY <1>0, <1>4 DEF EditSpec, LocalType, OtherType
    <2> QED  BY <1>0, <2>1, <2>2, ChangedType, ReportedType, TypePartsNext
  <1>5. ASSUME NEW v \in InputVersion, EditStorageClass(v) \/ EditSecrets(v)
        PROVE  TypeOK'
    BY <1>0, <1>5, TypePartsNext DEF EditStorageClass, EditSecrets, LocalType, OtherType
  <1>6. CASE UserDelete
    <2> DEFINE b == IF backup.finalizer THEN [backup EXCEPT !.deleting = TRUE] ELSE Gone
    <2>1. b \in BackupType
      BY <1>0, StatusTypes DEF BackupType
    <2>2. Changed(b, NoWorker) /\ queue' = Reported(b) /\ LocalType' /\ OtherType'
      BY <1>0, <1>6 DEF UserDelete, LocalType, OtherType
    <2> QED  BY <1>0, <2>1, <2>2, ChangedType, ReportedType, TypePartsNext
  <1>7. CASE Resync
    <2>1. queue' \in QueueType
      BY <1>0, <1>7, EnqueuedType DEF Resync, QueueEntryAction
    <2> QED  BY <1>0, <1>7, <2>1, TypePartsNext DEF Resync, LocalType, OtherType
  <1>8. CASE Restart
    <2>1. queue' \in QueueType
      BY <1>8, FirstVersions DEF Restart, QueueType
    <2>2. LocalType'
      BY <1>8, FirstVersions, StatusTypes DEF Restart, LocalType, QueueEntryAction
    <2>3. stale' \in [Worker -> BOOLEAN] /\ OtherType' /\ backup' = backup
      BY <1>0, <1>8, ControllerAssumption DEF Restart, OtherType
    <2> QED  BY <1>0, <2>1, <2>2, <2>3, TypePartsNext
  <1>9. CASE APIFlips
    BY <1>0, <1>9, TypePartsNext DEF APIFlips, LocalType, OtherType
  <1>10. CASE UNCHANGED vars
    BY <1>0, <1>10, TypePartsNext DEF vars, LocalType, OtherType
  <1> QED
    BY <1>2, <1>3, <1>4, <1>5, <1>6, <1>7, <1>8, <1>9, <1>10 DEF Next, User

-----------------------------------------------------------------------------
(* Copies of the object.  A handler that returns leaves the others alone.  *)
LEMMA ReturnIdle ==
  ASSUME TypeOK, NEW w \in Worker, Return(w)
  PROVE  /\ pc' = [pc EXCEPT ![w] = "idle"]
         /\ pc'[w] = "idle"
         /\ \A u \in Worker \ {w} :
              /\ content'[u] = content[u] /\ status'[u] = status[u] /\ todo'[u] = todo[u]
  BY DEF Return, Goto, TypeOK

(* A worker's locals are as they were; and when the object has changed its *)
(* copy is stale.                                                          *)
Untouched(u) ==
  /\ pc'[u] = pc[u] /\ content'[u] = content[u]
  /\ status'[u] = status[u] /\ todo'[u] = todo[u]

Informed(u) ==
  \/ backup' = backup /\ stale'[u] = stale[u]
  \/ stale'[u] = (pc[u] # "idle")

(* A step of one worker, as another one sees it.                           *)
LEMMA OtherWorker ==
  ASSUME TypeOK, NEW w \in Worker, NEW u \in Worker \ {w}, runWorker(w)
  PROVE  Untouched(u) /\ Informed(u)
  <1> USE DEF local, inputs, bounds
  <1>1. ASSUME Return(w)
        PROVE  Untouched(u)
    BY <1>1, ReturnIdle DEF Untouched, TypeOK
  <1>2. ASSUME Unchanged(w) \/ \E b : Changed(b, w)
        PROVE  Informed(u)
    BY <1>2 DEF Unchanged, Changed, Informed, TypeOK
  <1>3. ASSUME NEW a \in QueueEntryAction, Get(w, a)
        PROVE  Untouched(u) /\ Informed(u)
    BY <1>3 DEF Get, Goto, Untouched, Informed, TypeOK
  <1>4. CASE handleDatabaseBackupAdd(w)
    <2>1. Unchanged(w) \/ \E b : Changed(b, w)
      BY <1>4 DEF handleDatabaseBackupAdd, AddFetch, AddFetchFails, Claim, ClaimFails,
                  ClaimUnanswered, ClaimStatus, ClaimStatusFails
    <2>2. Return(w) \/ ((\E s \in {"claim", "claimStatus"} : Goto(w, s)) /\ UNCHANGED local)
      BY <1>4 DEF handleDatabaseBackupAdd, AddFetch, AddFetchFails, Claim, ClaimFails,
                  ClaimUnanswered, ClaimStatus, ClaimReturns, ClaimStatusFails, Succeed,
                  Fail
    <2>3. Untouched(u)
      BY <1>1, <2>2 DEF Goto, Untouched, TypeOK
    <2> QED  BY <1>2, <2>1, <2>3
  <1>5. CASE handleDatabaseBackupDelete(w)
    <2>1. CASE DeleteFetch(w)
      BY <2>1 DEF DeleteFetch, Goto, Untouched, Informed, TypeOK
    <2>2. ASSUME NEW r \in Resource, Delete(w, r)
          PROVE  Untouched(u) /\ Informed(u)
      BY <2>2 DEF Delete, Untouched, Informed, TypeOK
    <2>3. CASE \/ DeleteFetchFails(w) \/ RemoveFinalizer(w) \/ RemoveFinalizerFails(w)
               \/ NothingToRemove(w) \/ \E r \in Resource : DeleteFails(w, r)
      <3>1. Return(w) /\ (Unchanged(w) \/ \E b : Changed(b, w))
        BY <2>3 DEF DeleteFetchFails, RemoveFinalizer, RemoveFinalizerFails, NothingToRemove,
                    DeleteFails, Succeed, Fail
      <3> QED  BY <1>1, <1>2, <3>1
    <2> QED  BY <1>5, <2>1, <2>2, <2>3 DEF handleDatabaseBackupDelete
  <1>6. CASE handleDatabaseBackupUpdate(w)
    <2>1. CASE UpdateFetch(w)
      <3>1. Informed(u)
        BY <1>2, <2>1 DEF UpdateFetch
      <3>2. \/ Return(w)
            \/ /\ \E s \in {"add", "delete", "generate"} : Goto(w, s)
               /\ content' \in {content, [content EXCEPT ![w] = <<backup.spec, 0, 0>>]}
               /\ status' \in {status, [status EXCEPT ![w] = CopiedStatus]}
               /\ todo' = todo
        BY <2>1 DEF UpdateFetch, Succeed, TypeOK
      <3> QED  BY <1>1, <3>1, <3>2 DEF Goto, Untouched, TypeOK
    <2>2. CASE Generate(w)
      <3>1. CASE HashMatches(w, FromKubernetesResources(w))
        BY <1>1, <1>2, <2>2, <3>1 DEF Generate, Succeed
      <3>2. CASE ~HashMatches(w, FromKubernetesResources(w))
        BY <2>2, <3>2 DEF Generate, Goto, Untouched, Informed, TypeOK
      <3> QED  BY <3>1, <3>2
    <2>3. ASSUME NEW r \in Resource, Upserted(w, r) \/ UpsertError(w, r) \/ NotFound(w, r)
          PROVE  Untouched(u) /\ Informed(u)
      BY <2>3 DEF Upserted, UpsertError, NotFound, Goto, Untouched, Informed, TypeOK
    <2>4. CASE UpdateFails(w) \/ UpdateStatus(w) \/ UpdateStatusFails(w)
      <3>1. Return(w) /\ (Unchanged(w) \/ \E b : Changed(b, w))
        BY <2>4 DEF UpdateFails, UpdateStatus, UpdateStatusFails, UpdateReturns, WriteStatus,
                    Succeed, Fail
      <3> QED  BY <1>1, <1>2, <3>1
    <2>5. CASE GetStorageClass(w)
      BY <2>5 DEF GetStorageClass, Goto, Untouched, Informed, TypeOK
    <2> QED
      BY <1>6, <2>1, <2>2, <2>3, <2>4, <2>5
         DEF handleDatabaseBackupUpdate, Upsert, CreateMissing, UpsertFails, CreateFails
  <1> QED  BY <1>3, <1>4, <1>5, <1>6 DEF runWorker

(* A worker keeps its own copy current until its handler returns.          *)
Current(w) ==
  ~stale[w] =>
    /\ pc[w] \in {"generate", "secrets", "upsert", "create", "status"}
         => content[w][1] = backup.spec
    /\ pc[w] \in {"generate", "secrets", "upsert", "create"}
         => status[w].hash = backup.status.hash
    /\ pc[w] = "status" => status[w].hash \in {backup.status.hash, content[w]}

(* From reading the object to the status written for it.                   *)
LEMMA OwnCurrent ==
  ASSUME TypeOK, NEW w \in Worker, Current(w), runWorker(w)
  PROVE  Current(w)'
  <1> USE DEF local, inputs, bounds
  <1>1. ASSUME pc'[w] \notin {"generate", "secrets", "upsert", "create", "status"}
        PROVE  Current(w)'
    BY <1>1 DEF Current
  <1>2. ASSUME Return(w)
        PROVE  Current(w)'
    BY <1>1, <1>2, ReturnIdle
  <1>3. ASSUME NEW a \in QueueEntryAction, Get(w, a)
        PROVE  Current(w)'
    BY <1>1, <1>3 DEF Get, Goto, QueueEntryAction, TypeOK
  <1>4. CASE handleDatabaseBackupAdd(w)
    <2>1. Return(w) \/ pc'[w] \in {"claim", "claimStatus"}
      BY <1>4 DEF handleDatabaseBackupAdd, AddFetch, AddFetchFails, Claim, ClaimFails,
                  ClaimUnanswered, ClaimStatus, ClaimReturns, ClaimStatusFails, Succeed,
                  Fail, Goto, TypeOK
    <2> QED  BY <1>1, <1>2, <2>1
  <1>5. CASE handleDatabaseBackupDelete(w)
    <2>1. Return(w) \/ pc'[w] = "remove"
      BY <1>5 DEF handleDatabaseBackupDelete, DeleteFetch, DeleteFetchFails, Delete,
                  DeleteFails, RemoveFinalizer, RemoveFinalizerFails, NothingToRemove,
                  Succeed, Fail, Goto, TypeOK
    <2> QED  BY <1>1, <1>2, <2>1
  <1>6. CASE UpdateFetch(w)
    <2>1. \/ Return(w)
          \/ pc'[w] \in {"add", "delete"}
          \/ /\ pc'[w] = "generate" /\ backup' = backup
             /\ content'[w] = <<backup.spec, 0, 0>> /\ status'[w] = backup.status
      BY <1>6 DEF UpdateFetch, CopiedStatus, Succeed, Goto, Unchanged, TypeOK
    <2> QED  BY <1>1, <1>2, <2>1 DEF Current
  <1>7. CASE Generate(w)
    <2> DEFINE c == FromKubernetesResources(w)
    <2>1. CASE HashMatches(w, c)
      BY <1>2, <1>7, <2>1 DEF Generate, Succeed
    <2>2. CASE ~HashMatches(w, c)
      <3>1. /\ pc[w] = "secrets" /\ pc'[w] = "upsert" /\ content'[w][1] = content[w][1]
            /\ UNCHANGED <<backup, stale, status>>
        BY <1>7, <2>2 DEF Generate, Goto, FromKubernetesResources, TypeOK
      <3> QED  BY <3>1 DEF Current
    <2> QED  BY <2>1, <2>2
  <1>8. ASSUME NEW r \in Resource, Upserted(w, r), pc[w] \in {"upsert", "create"}
        PROVE  Current(w)'
    <2>1. /\ UNCHANGED <<backup, stale, content>>
          /\ \/ pc'[w] = "status" /\ status'[w].hash = content[w]
             \/ pc'[w] = "upsert" /\ status'[w].hash = status[w].hash
      BY <1>8 DEF Upserted, WithHash, Goto, TypeOK, Status
    <2> QED  BY <1>8, <2>1 DEF Current
  <1>9. ASSUME NEW r \in Resource, UpsertError(w, r), pc[w] \in {"upsert", "create"}
        PROVE  Current(w)'
    <2>1. /\ UNCHANGED <<backup, stale, content>>
          /\ pc'[w] = "status" /\ status'[w].hash = status[w].hash
      BY <1>9 DEF UpsertError, Goto, TypeOK, Status
    <2> QED  BY <1>9, <2>1 DEF Current
  <1>10. ASSUME NEW r \in Resource, NotFound(w, r)
         PROVE  Current(w)'
    BY <1>10 DEF NotFound, Goto, TypeOK, Current
  <1>11. CASE UpdateFails(w) \/ UpdateStatus(w) \/ UpdateStatusFails(w)
    BY <1>2, <1>11 DEF UpdateFails, UpdateStatus, UpdateStatusFails, UpdateReturns, Succeed, Fail
  <1>12. CASE GetStorageClass(w)
    <2>1. /\ pc[w] = "generate" /\ pc'[w] = "secrets" /\ content'[w][1] = content[w][1]
          /\ UNCHANGED <<backup, stale, status>>
      BY <1>12 DEF GetStorageClass, Goto, TypeOK
    <2> QED  BY <2>1 DEF Current
  <1> QED
    BY <1>3, <1>4, <1>5, <1>6, <1>7, <1>8, <1>9, <1>10, <1>11, <1>12
       DEF runWorker, handleDatabaseBackupUpdate, Upsert, CreateMissing, UpsertFails, CreateFails

(* Every step keeps every copy current.                                    *)
LEMMA NextCopies ==
  ASSUME TypeOK, CopiesCurrent, [Next]_vars
  PROVE  CopiesCurrent'
  <1> USE DEF local, inputs, bounds
  <1> SUFFICES ASSUME NEW u \in Worker
               PROVE  Current(u)'
    BY DEF CopiesCurrent, Current
  <1>1. Current(u)
    BY DEF CopiesCurrent, Current
  <1>2. ASSUME Untouched(u), Informed(u)
        PROVE  Current(u)'
    BY <1>1, <1>2 DEF Untouched, Informed, Current
  <1>3. ASSUME NEW w \in Worker, runWorker(w)
        PROVE  Current(u)'
    <2>1. CASE w = u
      BY <1>1, <1>3, <2>1, OwnCurrent
    <2>2. CASE w # u
      BY <1>2, <1>3, <2>2, OtherWorker
    <2> QED  BY <2>1, <2>2
  <1>4. CASE User
    <2>1. Untouched(u)
      BY <1>4 DEF User, Create, EditSpec, EditStorageClass, EditSecrets, UserDelete,
                  Untouched
    <2>2. Informed(u)
      BY <1>4, ControllerAssumption
         DEF User, Create, EditSpec, EditStorageClass, EditSecrets, UserDelete, Changed,
             Informed
    <2> QED  BY <1>2, <2>1, <2>2
  <1>5. CASE Restart
    BY <1>5 DEF Restart, Current
  <1>6. CASE Resync \/ APIFlips \/ UNCHANGED vars
    BY <1>2, <1>6 DEF Resync, APIFlips, vars, Untouched, Informed
  <1> QED  BY <1>3, <1>4, <1>5, <1>6 DEF Next

(* The hash of the object is kept, dropped with the status, or that of the *)
(* status a worker writes for a copy that is not stale.                    *)
LEMMA HashChanges ==
  ASSUME TypeOK, [Next]_vars, backup'.status.hash # backup.status.hash,
         backup'.status.hash # NoHash
  PROVE  \E w \in Worker :
           /\ UpdateStatus(w)
           /\ backup'.status = status[w]
  <1> USE DEF local, inputs, bounds
  <1>1. backup' # backup /\ backup' # Gone
    BY DEF Gone, EmptyStatus
  <1>2. ASSUME NEW w \in Worker, Changed(Claimed, w) \/ Changed(Unclaimed, w)
        PROVE  FALSE
    BY <1>1, <1>2 DEF Changed, Claimed, Unclaimed, TypeOK
  <1>3. ASSUME NEW w \in Worker, runWorker(w)
        PROVE  UpdateStatus(w) \/ ClaimStatus(w)
    BY <1>1, <1>2, <1>3
       DEF runWorker, Get, handleDatabaseBackupAdd, AddFetch, AddFetchFails, Claim, ClaimFails,
           ClaimUnanswered, ClaimStatusFails, handleDatabaseBackupUpdate, UpdateFetch,
           GetStorageClass, Generate, UpdateFails, Upsert, NotFound, CreateMissing, Upserted, UpsertFails, CreateFails,
           UpsertError, UpdateStatusFails, handleDatabaseBackupDelete, DeleteFetch,
           DeleteFetchFails, Delete, DeleteFails, RemoveFinalizer, RemoveFinalizerFails,
           NothingToRemove, Unchanged
  <1>4. ASSUME NEW w \in Worker, NEW s, WriteStatus(w, s)
        PROVE  backup'.status = s
    BY <1>1, <1>4 DEF WriteStatus, Unchanged, Changed, WithStatus, TypeOK
  <1>5. ASSUME NEW w \in Worker, ClaimStatus(w)
        PROVE  FALSE
    BY <1>1, <1>5
       DEF ClaimStatus, InitStatus, Changed, Unchanged, WithStatus, TypeOK
  <1>6. ~User
    <2>1. ~Create
      BY <1>1 DEF Create, Gone, EmptyStatus
    <2>2. ~EditSpec
      BY DEF EditSpec, Changed, TypeOK
    <2>3. ~UserDelete
      BY <1>1 DEF UserDelete, Changed, TypeOK
    <2> QED  BY <1>1, <2>1, <2>2, <2>3 DEF User, EditStorageClass, EditSecrets
  <1>7. \E w \in Worker : runWorker(w)
    BY <1>1, <1>6 DEF Next, Resync, Restart, APIFlips, vars
  <1> QED  BY <1>3, <1>4, <1>5, <1>7 DEF UpdateStatus

-----------------------------------------------------------------------------
(* A copy that is not stale has the spec and the hash of the object.       *)
THEOREM Inductive == Spec => []IndInv
  <1>1. Init => IndInv
    <2>1. Init => CopiesCurrent
      BY DEF Init, CopiesCurrent
    <2> QED  BY <2>1, InitType DEF IndInv
  <1>2. IndInv /\ [Next]_vars => IndInv'
    BY NextType, NextCopies DEF IndInv
  <1> QED  BY <1>1, <1>2, PTL DEF Spec

(* Every variable keeps its type, the queue its bound, for any number of   *)
(* workers.                                                                *)
THEOREM TypeCorrect == Spec => []TypeOK
  <1>1. IndInv => TypeOK
    BY DEF IndInv
  <1> QED  BY <1>1, Inductive, PTL

(* Any number of overlapping workers store a hash only for the spec the    *)
(* object has at that moment.                                              *)
THEOREM HashIsCurrentThm == Spec => HashIsCurrent
  <1>1. ASSUME IndInv, [Next]_vars
        PROVE  [(backup'.status.hash # backup.status.hash /\ backup'.status.hash # NoHash)
                  => backup'.status.hash[1] = backup.spec]_vars
    <2> SUFFICES ASSUME backup'.status.hash # backup.status.hash,
                        backup'.status.hash # NoHash
                 PROVE  backup'.status.hash[1] = backup.spec
      OBVIOUS
    <2>1. PICK w \in Worker : UpdateStatus(w) /\ backup'.status = status[w]
      BY <1>1, HashChanges DEF IndInv
    <2>2. pc[w] = "status" /\ ~stale[w]
      BY <2>1 DEF UpdateStatus, Accepted
    <2>3. status[w].hash = content[w] /\ content[w][1] = backup.spec
      BY <1>1, <2>1, <2>2 DEF IndInv, CopiesCurrent
    <2> QED  BY <2>1, <2>3
  <1> QED  BY <1>1, Inductive, PTL DEF Spec, HashIsCurrent
=============================================================================
