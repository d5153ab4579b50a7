------------------------ MODULE ControllerAloneProofs ------------------------
(***************************************************************************)
(* Proofs about a Controller whose workers, however many they are, never   *)
(* handle the object at the same time: what the status says of the         *)
(* resources is true and the finalizer keeps the object while there are    *)
(* any, whatever fails and whenever the controller restarts.  (Of workers  *)
(* that do overlap none of this is true, see ControllerOrphans.cfg.)       *)
(***************************************************************************)
EXTENDS ControllerProofs

(* At most one worker handles the object.                                  *)
NoOverlap == \A w, u \in Worker : pc[w] # "idle" /\ pc[u] # "idle" => w = u

(* The phases in which a worker knows nothing of the object yet, ...       *)
Uncommitted == {"idle", "add", "claim", "claimStatus", "update"}

(* ... and AloneInv without the types.                                     *)
Truthful == Guarded /\ Applied /\ HashOrder /\ ReadyMeansThere

-----------------------------------------------------------------------------
(* Contents are pairs of numbers, ordered by NotAfter, ...                 *)
LEMMA ContentOrder ==
  ASSUME NEW c \in Content, NEW d \in Content, NotAfter(c, d), NotAfter(d, c)
  PROVE  c = d
  BY ControllerAssumption DEF NotAfter, Content, SpecVersion, InputVersion

(* A step that changes neither the object nor the resources, after which   *)
(* each worker is as it was or uncommitted, as after most errors and reads *)
(* and after a restart.                                                    *)
LEMMA Quiet ==
  ASSUME Truthful, UNCHANGED <<backup, inputs, rss>>,
         \A w \in Worker : pc'[w] \in Uncommitted \/ Untouched(w)
  PROVE  Truthful'
  <1>1. Guarded'
    BY DEF Truthful, Guarded, Uncommitted, Untouched
  <1>2. Applied'
    BY DEF Truthful, Applied, Uncommitted, Untouched
  <1>3. HashOrder'
    BY DEF Truthful, HashOrder, Uncommitted, Untouched, Desired, Managed, inputs
  <1>4. ReadyMeansThere'
    BY DEF Truthful, ReadyMeansThere, Managed
  <1> QED  BY <1>1, <1>2, <1>3, <1>4 DEF Truthful

(* While a worker is busy the others are idle and stay so.                 *)
LEMMA OthersIdle ==
  ASSUME TypeOK, NoOverlap, NEW w \in Worker, runWorker(w), pc[w] # "idle",
         NEW u \in Worker \ {w}
  PROVE  pc[u] = "idle" /\ pc'[u] = "idle"
  BY OtherWorker DEF NoOverlap, Untouched

(* A handler that returns, whatever it leaves in the queue.                *)
LEMMA QuietReturn ==
  ASSUME TypeOK, Truthful, NEW w \in Worker, runWorker(w), pc'[w] \in Uncommitted,
         UNCHANGED <<backup, inputs, rss>>
  PROVE  Truthful'
  <1>1. \A u \in Worker \ {w} : Untouched(u)
    BY OtherWorker
  <1> QED  BY <1>1, Quiet

(* A worker that adds the finalizer.                                       *)
LEMMA ClaimTruthful ==
  ASSUME TypeOK, NoOverlap, Truthful, NEW w \in Worker, runWorker(w), pc[w] # "idle",
         pc'[w] \in Uncommitted, backup' = Claimed, backup.exists,
         UNCHANGED <<inputs, rss>>
  PROVE  Truthful'
  <1>1. \A u \in Worker : pc'[u] \in Uncommitted
    BY OthersIdle DEF Uncommitted
  <1>2. /\ backup'.spec = backup.spec /\ backup'.status = backup.status
        /\ backup'.exists = backup.exists /\ backup'.finalizer
        /\ backup'.deleting = backup.deleting
    BY DEF Claimed, TypeOK
  <1>3. Guarded'
    BY <1>1, <1>2 DEF Guarded, Uncommitted
  <1>4. Applied' /\ ReadyMeansThere'
    BY <1>1, <1>2 DEF Truthful, Applied, ReadyMeansThere, Managed, Uncommitted
  <1>5. HashOrder'
    BY <1>1, <1>2 DEF Truthful, HashOrder, Managed, Desired, inputs, Uncommitted
  <1> QED  BY <1>3, <1>4, <1>5 DEF Truthful

(* The object after a status write.                                        *)
LEMMA StatusWritten ==
  ASSUME TypeOK, NEW w \in Worker, NEW s \in Status, WriteStatus(w, s)
  PROVE  /\ backup'.spec = backup.spec /\ backup'.status = s
         /\ backup'.exists = backup.exists /\ backup'.finalizer = backup.finalizer
         /\ backup'.deleting = backup.deleting
  BY DEF WriteStatus, Unchanged, Changed, WithStatus, TypeOK

-----------------------------------------------------------------------------
(* The users.  Creation finds no resources and nobody committed; an edit   *)
(* makes every hash that is stored older than what is desired.             *)
LEMMA UserTruthful ==
  ASSUME TypeOK, Truthful, User
  PROVE  Truthful'
  <1> USE DEF local, inputs, bounds
  <1>0. /\ backup \in BackupType /\ {storageClass, secrets} \subseteq InputVersion
        /\ Desired \in Content
        /\ backup.status.hash \in Content \cup {NoHash}
    BY DEF TypeOK, BackupType, Desired, Content, Status
  <1>1. CASE Create
    <2>1. /\ backup = Gone /\ backup' = [Gone EXCEPT !.exists = TRUE]
          /\ UNCHANGED <<inputs, rss, pc, status, content, todo>>
      BY <1>1 DEF Create, Truthful, Guarded
    <2>2. /\ \A r \in Resource : rss[r] = Absent
          /\ \A w \in Worker : pc[w] \in Uncommitted
      BY <2>1 DEF Truthful, Guarded, Gone, Uncommitted, TypeOK
    <2>3. Guarded'
      BY <2>1, <2>2 DEF Guarded, Gone, Uncommitted
    <2>4. Applied'
      BY <2>1, <2>2 DEF Applied, Uncommitted
    <2>5. backup'.status = EmptyStatus
      BY <2>1 DEF Gone
    <2>6. HashOrder'
      <3>1. Desired' \in Content
        BY <1>0, <2>1, FirstVersions DEF Desired, Gone, Content
      <3>2. EmptyStatus.hash = NoHash /\ NoHash \notin Content
        BY ControllerAssumption DEF EmptyStatus
      <3> QED  BY <2>1, <2>2, <2>5, <3>1, <3>2 DEF HashOrder, Uncommitted
    <2>7. ReadyMeansThere'
      BY <2>5 DEF ReadyMeansThere
    <2> QED  BY <2>3, <2>4, <2>6, <2>7 DEF Truthful
  <1>2. CASE EditSpec
    <2>1. /\ backup.exists /\ backup' = [backup EXCEPT !.spec = @ + 1]
          /\ UNCHANGED <<inputs, rss, pc, status, content, todo>>
      BY <1>2 DEF EditSpec, Changed
    <2>2. /\ backup'.spec = backup.spec + 1 /\ backup'.status = backup.status
          /\ backup'.exists = backup.exists /\ backup'.finalizer = backup.finalizer
          /\ backup'.deleting = backup.deleting
      BY <1>0, <2>1 DEF BackupType
    <2>3. Guarded'
      BY <2>1, <2>2 DEF Truthful, Guarded
    <2>4. Applied'
      BY <2>1, <2>2 DEF Truthful, Applied
    <2>5. ReadyMeansThere'
      BY <2>1, <2>2 DEF Truthful, ReadyMeansThere, Managed
    <2>6. ASSUME ~MayRevert
          PROVE  HashOrder'
      <3>1. backup.spec \in Int
        BY <1>0, ControllerAssumption DEF BackupType, SpecVersion
      <3>2. Desired' = <<Desired[1] + 1, Desired[2], Desired[3]>>
        BY <2>1, <2>2 DEF Desired
      <3>3. /\ backup.status.hash # NoHash =>
                 NotAfter(backup.status.hash, Desired') /\ backup.status.hash # Desired'
        BY <1>0, <2>6, <3>1, <3>2, ControllerAssumption
           DEF Truthful, HashOrder, NotAfter, Desired, Content, SpecVersion, InputVersion
      <3>5. \A w \in Worker :
              pc[w] \in {"generate", "secrets", "upsert", "create", "status"}
                => NotAfter(content[w], Desired')
        BY <2>6, <3>1, <3>2, ControllerAssumption
           DEF Truthful, HashOrder, TypeOK, NotAfter, Content, SpecVersion, InputVersion, Desired
      <3>6. Desired' # NoHash
        <4>1. Desired' \in Nat \X Nat \X Nat
          BY <1>0, <3>2, ControllerAssumption DEF Desired, Content, SpecVersion, InputVersion
        <4>2. backup'.spec \in SpecVersion
          BY <1>2, <2>2, <3>1, <1>0, ControllerAssumption DEF EditSpec, SpecVersion, BackupType
        <4>3. Desired' \in Content
          BY <1>0, <2>1, <4>2 DEF Desired, Content
        <4> QED  BY <4>3, ControllerAssumption
      <3> QED
        BY <2>1, <2>2, <2>6, <3>3, <3>5, <3>6 DEF Truthful, HashOrder
    <2>7. HashOrder'
      BY <2>6 DEF HashOrder
    <2> QED  BY <2>3, <2>4, <2>5, <2>7 DEF Truthful
  <1>3. ASSUME NEW v \in InputVersion, EditStorageClass(v) \/ EditSecrets(v)
        PROVE  Truthful'
    <2>1. UNCHANGED <<backup, rss, pc, status, content, todo>>
      BY <1>3 DEF EditStorageClass, EditSecrets
    <2>2. Guarded' /\ Applied' /\ ReadyMeansThere'
      BY <2>1 DEF Truthful, Guarded, Applied, ReadyMeansThere, Managed
    <2>3. ASSUME ~MayRevert
          PROVE  HashOrder'
      <3>1. /\ storageClass \in Int /\ secrets \in Int /\ v \in Int
            /\ storageClass' \in InputVersion /\ secrets' \in InputVersion
            /\ \/ storageClass' > storageClass /\ secrets' = secrets
               \/ storageClass' = storageClass /\ secrets' > secrets
        BY <1>0, <1>3, <2>3, ControllerAssumption
           DEF EditStorageClass, EditSecrets, InputVersion
      <3>2. /\ Desired' = <<backup.spec, storageClass', secrets'>> /\ Desired' \in Content
            /\ Desired = <<backup.spec, storageClass, secrets>>
        BY <1>0, <2>1, <3>1 DEF Desired, BackupType, Content
      <3>3. ASSUME NEW c \in Content, NotAfter(c, Desired)
            PROVE  NotAfter(c, Desired') /\ c # Desired'
        <4>1. c[1] \in Int /\ c[2] \in Int /\ c[3] \in Int /\ backup.spec \in Int
          BY <1>0, ControllerAssumption DEF Content, SpecVersion, InputVersion, BackupType
        <4>2. c[1] <= backup.spec /\ c[2] <= storageClass /\ c[3] <= secrets
          BY <3>2, <3>3 DEF NotAfter
        <4>3. c[1] <= backup.spec /\ c[2] <= storageClass' /\ c[3] <= secrets'
          BY <3>1, <4>1, <4>2, ControllerAssumption DEF InputVersion
        <4>4. c[2] # storageClass' \/ c[3] # secrets'
          BY <3>1, <4>1, <4>2, ControllerAssumption DEF InputVersion
        <4> QED  BY <3>2, <4>3, <4>4 DEF NotAfter
      <3>4. \A w \in Worker : content[w] \in Content
        BY DEF TypeOK
      <3> QED
        BY <1>0, <2>1, <2>3, <3>2, <3>3, <3>4, ControllerAssumption DEF Truthful, HashOrder
    <2>4. HashOrder'
      BY <2>3 DEF HashOrder
    <2> QED  BY <2>2, <2>4 DEF Truthful
  <1>4. CASE UserDelete
    <2>1. /\ backup' = IF backup.finalizer THEN [backup EXCEPT !.deleting = TRUE] ELSE Gone
          /\ UNCHANGED <<inputs, rss, pc, status, content, todo>>
      BY <1>4 DEF UserDelete, Changed
    <2>2. CASE backup.finalizer
      <3>1. /\ backup'.spec = backup.spec /\ backup'.status = backup.status
            /\ backup'.exists = backup.exists /\ backup'.finalizer /\ backup'.deleting
        BY <1>0, <2>1, <2>2 DEF BackupType
      <3>2. Guarded'
        BY <1>4, <2>1, <2>2, <3>1 DEF Truthful, Guarded, UserDelete
      <3>3. Applied' /\ ReadyMeansThere'
        BY <2>1, <3>1 DEF Truthful, Applied, ReadyMeansThere, Managed
      <3>4. HashOrder'
        BY <2>1, <3>1 DEF Truthful, HashOrder, Managed, Desired
      <3> QED  BY <3>2, <3>3, <3>4 DEF Truthful
    <2>3. CASE ~backup.finalizer
      <3>1. /\ backup' = Gone /\ Gone.status.hash = NoHash /\ ~Gone.exists
            /\ ~Gone.finalizer /\ ~Gone.deleting
        BY <2>1, <2>3 DEF Gone, EmptyStatus
      <3>2. \A w \in Worker : pc[w] \in Uncommitted
        BY <2>3 DEF Truthful, Guarded, Uncommitted, TypeOK
      <3>3. Guarded'
        BY <2>1, <2>3, <3>1, <3>2 DEF Truthful, Guarded, Uncommitted
      <3>4. Applied' /\ ReadyMeansThere'
        BY <2>1, <3>1, <3>2 DEF Applied, ReadyMeansThere, Managed, Uncommitted
      <3>5. HashOrder'
        BY <2>1, <3>1, <3>2 DEF HashOrder, Managed, Uncommitted
      <3> QED  BY <3>3, <3>4, <3>5 DEF Truthful
    <2> QED  BY <2>2, <2>3
  <1> QED  BY <1>1, <1>2, <1>3, <1>4 DEF User

-----------------------------------------------------------------------------
(* handleDatabaseBackupAdd.  The initial status has no hash and is not     *)
(* Ready, unless there are no resources.                                   *)
LEMMA AddTruthful ==
  ASSUME TypeOK, NoOverlap, Truthful, NEW w \in Worker, handleDatabaseBackupAdd(w)
  PROVE  Truthful'
  <1> USE DEF local, inputs, bounds
  <1>0. runWorker(w)
    BY DEF runWorker
  <1>1. UNCHANGED <<inputs, rss>> /\ pc[w] # "idle" /\ pc'[w] \in Uncommitted
    BY DEF handleDatabaseBackupAdd, AddFetch, AddFetchFails, Claim, ClaimFails,
           ClaimUnanswered, ClaimStatus, ClaimReturns, ClaimStatusFails, Succeed, Fail,
           Return, Goto, Uncommitted, TypeOK
  <1>2. \A u \in Worker : pc'[u] \in Uncommitted
    BY <1>0, <1>1, OthersIdle DEF Uncommitted
  <1>3. CASE backup' = backup
    BY <1>0, <1>1, <1>3, QuietReturn
  <1>4. CASE backup' = Claimed /\ backup.exists
    BY <1>0, <1>1, <1>4, ClaimTruthful
  <1>5. CASE ClaimStatus(w)
    <2> DEFINE s == InitStatus(backup.spec)
    <2>1. s \in Status /\ s.hash = NoHash /\ \A r \in Resource : s.conditions[r].status = "False"
      BY StatusTypes DEF TypeOK, InitStatus, Set
    <2>2. /\ backup'.spec = backup.spec /\ backup'.status = s
          /\ backup'.exists = backup.exists /\ backup'.finalizer = backup.finalizer
          /\ backup'.deleting = backup.deleting /\ backup.exists
      BY <1>5 DEF ClaimStatus, Accepted, Changed, Unchanged, WithStatus, TypeOK
    <2> HIDE DEF s
    <2>3. Guarded'
      BY <1>1, <1>2, <2>2 DEF Truthful, Guarded, Uncommitted
    <2>4. Applied'
      BY <1>2 DEF Applied, Uncommitted
    <2>5. HashOrder'
      <3>1. Desired' \in Content /\ NoHash \notin Content
        BY <1>1, <2>2, ControllerAssumption DEF Desired, Content, TypeOK
      <3> QED  BY <1>2, <2>1, <2>2, <3>1 DEF HashOrder, Uncommitted
    <2>6. ReadyMeansThere'
      BY <2>1, <2>2 DEF ReadyMeansThere, CalculateReady
    <2> QED  BY <2>3, <2>4, <2>5, <2>6 DEF Truthful
  <1> QED
    BY <1>3, <1>4, <1>5
       DEF handleDatabaseBackupAdd, AddFetch, AddFetchFails, Claim, ClaimFails,
           ClaimUnanswered, ClaimStatusFails, Unchanged, Changed

-----------------------------------------------------------------------------
(* What is upserted while the hash is an older one makes neither the hash  *)
(* nor Ready untrue.                                                       *)
LEMMA WritesResource ==
  ASSUME TypeOK, Truthful, NEW w \in Worker, NEW r \in Resource,
         pc[w] \in {"upsert", "create"}, rss' \in {rss, Written(w, r)},
         UNCHANGED <<backup, inputs>>
  PROVE  /\ ReadyMeansThere'
         /\ ~MayRevert /\ Managed /\ backup.status.hash = Desired
              => \A q \in Resource : rss'[q] = Generated(q, Desired)
         /\ backup.finalizer
  <1>1. content[w] \in Content /\ Generated(r, content[w]) # Absent /\ Desired \in Content
    BY GeneratedType DEF TypeOK, Desired, Content
  <1>2. ReadyMeansThere'
    BY <1>1 DEF Truthful, ReadyMeansThere, Managed, Written, TypeOK
  <1>3. ASSUME ~MayRevert, backup.status.hash = Desired
        PROVE  FALSE
    <2>1. NoHash # Desired
      BY <1>1, ControllerAssumption
    <2>2. /\ NotAfter(content[w], Desired) /\ NotAfter(Desired, content[w])
          /\ Desired # content[w]
      BY <1>3, <2>1 DEF Truthful, HashOrder
    <2> QED  BY <1>1, <2>2, ContentOrder
  <1> QED  BY <1>2, <1>3 DEF Truthful, Guarded

(* One turn of the upsert loop.                                            *)
LEMMA UpsertedTruthful ==
  ASSUME TypeOK, NoOverlap, Truthful, NEW w \in Worker, runWorker(w), NEW r \in Resource,
         pc[w] \in {"upsert", "create"}, Upserted(w, r)
  PROVE  Truthful'
  <1>1. \A u \in Worker \ {w} : pc'[u] = "idle"
    BY OthersIdle
  <1>2. /\ UNCHANGED <<backup, inputs, content>>
        /\ rss' = Written(w, r)
        /\ todo'[w] = todo[w] \ {r}
        /\ \/ pc'[w] = "status" /\ status'[w].hash = content[w] /\ todo[w] = {r}
           \/ pc'[w] = "upsert" /\ status'[w].hash = status[w].hash
    BY DEF Upserted, WithHash, Goto, TypeOK, Status
  <1>3. Guarded'
    BY <1>1, <1>2, WritesResource DEF Truthful, Guarded
  <1>4. Applied'
    BY <1>1, <1>2 DEF Truthful, Applied, Written, TypeOK
  <1>5. HashOrder'
    BY <1>1, <1>2, WritesResource DEF Truthful, HashOrder, Managed, Desired, inputs
  <1> QED  BY <1>2, <1>3, <1>4, <1>5, WritesResource DEF Truthful

(* The loop ends with an error.                                            *)
LEMMA UpsertErrorTruthful ==
  ASSUME TypeOK, NoOverlap, Truthful, NEW w \in Worker, runWorker(w), NEW r \in Resource,
         pc[w] \in {"upsert", "create"}, UpsertError(w, r), rss' \in {rss, Written(w, r)}
  PROVE  Truthful'
  <1>1. \A u \in Worker \ {w} : pc'[u] = "idle"
    BY OthersIdle
  <1>2. /\ UNCHANGED <<backup, inputs, content>>
        /\ pc'[w] = "status" /\ status'[w].hash = status[w].hash
        /\ status'[w].conditions[r].status = "Unknown"
    BY DEF UpsertError, Goto, TypeOK, Status, Set
  <1>3. Guarded'
    BY <1>1, <1>2, WritesResource DEF Truthful, Guarded
  <1>4. Applied'
    BY <1>1, <1>2 DEF Truthful, Applied
  <1>5. HashOrder'
    BY <1>1, <1>2, WritesResource DEF Truthful, HashOrder, Managed, Desired, inputs
  <1> QED  BY <1>2, <1>3, <1>4, <1>5, WritesResource DEF Truthful

(* The deferred status: Ready and with the hash only when the whole loop   *)
(* went through.                                                           *)
LEMMA UpdateStatusTruthful ==
  ASSUME TypeOK, NoOverlap, Truthful, NEW w \in Worker, UpdateStatus(w)
  PROVE  Truthful'
  <1> USE DEF local, inputs, bounds
  <1>1. /\ runWorker(w) /\ pc[w] = "status" /\ backup.exists
        /\ UNCHANGED <<inputs, rss>> /\ Return(w)
    BY DEF UpdateStatus, UpdateReturns, Succeed, Fail, Accepted, runWorker,
           handleDatabaseBackupUpdate
  <1>2. \A u \in Worker : pc'[u] = "idle"
    BY <1>1, OthersIdle, ReturnIdle
  <1>3. /\ status[w] \in Status /\ content[w] \in Content
        /\ Desired \in Content
    BY DEF TypeOK, Desired, Content
  <1>4. /\ backup'.spec = backup.spec /\ backup'.status = status[w]
        /\ backup'.exists = backup.exists /\ backup'.finalizer = backup.finalizer
        /\ backup'.deleting = backup.deleting
    BY <1>3, StatusWritten DEF UpdateStatus
  <1>5. \/ /\ status[w].hash = content[w]
           /\ \A r \in Resource : rss[r] = Generated(r, content[w])
        \/ /\ status[w].hash = backup.status.hash
           /\ \E r \in Resource : status[w].conditions[r].status = "Unknown"
    BY <1>1 DEF Truthful, Applied
  <1>6. Guarded'
    BY <1>1, <1>2, <1>4 DEF Truthful, Guarded
  <1>7. Applied'
    BY <1>2 DEF Applied
  <1>8. HashOrder'
    <2> SUFFICES ASSUME ~MayRevert
                 PROVE  HashOrder'
      BY DEF HashOrder
    <2>1. NotAfter(content[w], Desired)
      BY <1>1 DEF Truthful, HashOrder
    <2>2. Desired' = Desired /\ (Managed' <=> Managed)
      BY <1>1, <1>4 DEF Desired, Managed
    <2> QED  BY <1>1, <1>2, <1>4, <1>5, <2>1, <2>2 DEF Truthful, HashOrder
  <1>9. ReadyMeansThere'
    <2>1. CASE \A r \in Resource : rss[r] = Generated(r, content[w])
      BY <1>1, <1>3, <2>1, GeneratedType DEF ReadyMeansThere
    <2>2. CASE \E r \in Resource : status[w].conditions[r].status = "Unknown"
      BY <1>4, <2>2 DEF ReadyMeansThere, CalculateReady
    <2> QED  BY <1>5, <2>1, <2>2
  <1> QED  BY <1>6, <1>7, <1>8, <1>9 DEF Truthful

(* handleDatabaseBackupUpdate.                                             *)
LEMMA UpdateTruthful ==
  ASSUME TypeOK, NoOverlap, Truthful, NEW w \in Worker, handleDatabaseBackupUpdate(w)
  PROVE  Truthful'
  <1> USE DEF local, inputs, bounds
  <1>0. runWorker(w)
    BY DEF runWorker
  <1>1. pc[w] # "idle"
    BY DEF handleDatabaseBackupUpdate, UpdateFetch, GetStorageClass, Generate, UpdateFails,
           Upsert, NotFound, CreateMissing, UpsertFails, CreateFails, UpdateStatus, UpdateStatusFails
  <1>2. \A u \in Worker \ {w} : pc'[u] = "idle"
    BY <1>0, <1>1, OthersIdle
  <1>3. CASE UpdateFetch(w)
    <2>1. UNCHANGED <<backup, inputs, rss>>
      BY <1>3 DEF UpdateFetch, Unchanged
    <2>2. \/ pc'[w] \in Uncommitted
          \/ pc'[w] = "delete" /\ backup.finalizer /\ backup.deleting
          \/ /\ pc'[w] = "generate" /\ backup.finalizer
             /\ content'[w] = <<backup.spec, 0, 0>> /\ status'[w] = backup.status
      BY <1>3 DEF UpdateFetch, CopiedStatus, Succeed, Return, Goto, Uncommitted, TypeOK
    <2>3. CASE pc'[w] \in Uncommitted
      BY <1>0, <2>1, <2>3, QuietReturn
    <2>4. CASE pc'[w] = "delete" /\ backup.finalizer /\ backup.deleting
      <3>1. Guarded' /\ Applied' /\ ReadyMeansThere'
        BY <1>2, <2>1, <2>4 DEF Truthful, Guarded, Applied, ReadyMeansThere, Managed
      <3>2. HashOrder'
        BY <1>2, <2>1, <2>4 DEF Truthful, HashOrder, Managed, Desired
      <3> QED  BY <3>1, <3>2 DEF Truthful
    <2>5. CASE /\ pc'[w] = "generate" /\ backup.finalizer
               /\ content'[w] = <<backup.spec, 0, 0>> /\ status'[w] = backup.status
      <3>1. Guarded' /\ Applied' /\ ReadyMeansThere'
        BY <1>2, <2>1, <2>5 DEF Truthful, Guarded, Applied, ReadyMeansThere, Managed
      <3>2. backup.spec <= backup.spec /\ 0 <= storageClass /\ 0 <= secrets
        BY ControllerAssumption DEF TypeOK, SpecVersion, InputVersion
      <3>3. HashOrder'
        BY <1>2, <2>1, <2>5, <3>2 DEF Truthful, HashOrder, Managed, Desired, NotAfter
      <3> QED  BY <3>1, <3>3 DEF Truthful
    <2> QED  BY <2>2, <2>3, <2>4, <2>5
  <1>4. CASE Generate(w)
    <2> DEFINE c == FromKubernetesResources(w)
    <2>1. CASE HashMatches(w, c)
      <3>1. UNCHANGED <<backup, inputs, rss>> /\ pc'[w] \in Uncommitted
        BY <1>4, <2>1 DEF Generate, Succeed, Return, Goto, Unchanged, Uncommitted, TypeOK
      <3> QED  BY <1>0, <3>1, QuietReturn
    <2>2. CASE ~HashMatches(w, c)
      <3>1. /\ pc[w] = "secrets" /\ pc'[w] = "upsert" /\ content'[w] = c
            /\ todo'[w] = Resource /\ status'[w] = status[w]
            /\ UNCHANGED <<backup, inputs, rss>>
            /\ status[w].hash # c
        BY <1>4, <2>2 DEF Generate, Goto, HashMatches, TypeOK
      <3>2. Guarded' /\ Applied' /\ ReadyMeansThere'
        BY <1>2, <3>1 DEF Truthful, Guarded, Applied, ReadyMeansThere, Managed
      <3>3. status[w].hash = backup.status.hash
        BY <3>1 DEF Truthful, Applied
      <3>4. secrets <= secrets
        BY ControllerAssumption DEF TypeOK, InputVersion
      <3>5. c = <<content[w][1], content[w][2], secrets>>
        BY DEF FromKubernetesResources
      <3>6. HashOrder'
        <4> SUFFICES ASSUME ~MayRevert
                     PROVE  HashOrder'
          BY DEF HashOrder
        <4>1. NotAfter(content[w], Desired)
          BY <3>1 DEF Truthful, HashOrder
        <4>2. NotAfter(c, Desired)
          BY <3>4, <3>5, <4>1 DEF NotAfter, Desired
        <4>3. backup.status.hash # NoHash =>
                NotAfter(backup.status.hash, c) /\ backup.status.hash # c
          BY <3>1, <3>3, <3>5 DEF Truthful, HashOrder, NotAfter, Desired
        <4>4. Desired' = Desired /\ (Managed' <=> Managed)
          BY <3>1 DEF Desired, Managed
        <4> HIDE DEF c
        <4> QED  BY <1>2, <3>1, <4>2, <4>3, <4>4 DEF Truthful, HashOrder
      <3> QED  BY <3>2, <3>6 DEF Truthful
    <2> QED  BY <2>1, <2>2
  <1>5. CASE UpdateFails(w) \/ UpdateStatusFails(w)
    <2>1. UNCHANGED <<backup, inputs, rss>> /\ pc'[w] \in Uncommitted
      BY <1>5 DEF UpdateFails, UpdateStatusFails, UpdateReturns, Succeed, Fail, Return, Goto,
                  Unchanged, Uncommitted, TypeOK
    <2> QED  BY <1>0, <2>1, QuietReturn
  <1>6. ASSUME NEW r \in Resource, NotFound(w, r)
        PROVE  Truthful'
    <2>1. /\ pc[w] = "upsert" /\ pc'[w] = "create"
          /\ UNCHANGED <<backup, inputs, rss, status, content, todo>>
      BY <1>6 DEF NotFound, Goto, TypeOK
    <2>2. Guarded' /\ Applied' /\ ReadyMeansThere'
      BY <1>2, <2>1 DEF Truthful, Guarded, Applied, ReadyMeansThere, Managed
    <2>3. HashOrder'
      BY <1>2, <2>1 DEF Truthful, HashOrder, Managed, Desired
    <2> QED  BY <2>2, <2>3 DEF Truthful
  <1>7. ASSUME NEW r \in Resource, Upsert(w, r) \/ CreateMissing(w, r)
        PROVE  Truthful'
    BY <1>0, <1>7, UpsertedTruthful DEF Upsert, CreateMissing
  <1>8. ASSUME NEW r \in Resource, UpsertFails(w, r) \/ CreateFails(w, r)
        PROVE  Truthful'
    BY <1>0, <1>8, UpsertErrorTruthful DEF UpsertFails, CreateFails
  <1>9. CASE GetStorageClass(w)
    <2>1. /\ pc[w] = "generate" /\ pc'[w] = "secrets"
          /\ content'[w] = <<content[w][1], storageClass, 0>> /\ status'[w] = status[w]
          /\ UNCHANGED <<backup, inputs, rss>>
      BY <1>9 DEF GetStorageClass, Goto, TypeOK
    <2>2. Guarded' /\ Applied' /\ ReadyMeansThere'
      BY <1>2, <2>1 DEF Truthful, Guarded, Applied, ReadyMeansThere, Managed
    <2>3. storageClass <= storageClass /\ 0 <= secrets
      BY ControllerAssumption DEF TypeOK, InputVersion
    <2>4. HashOrder'
      BY <1>2, <2>1, <2>3 DEF Truthful, HashOrder, Managed, Desired, NotAfter
    <2> QED  BY <2>2, <2>4 DEF Truthful
  <1> QED
    BY <1>3, <1>4, <1>5, <1>6, <1>7, <1>8, <1>9, UpdateStatusTruthful
       DEF handleDatabaseBackupUpdate

-----------------------------------------------------------------------------
(* handleDatabaseBackupDelete: the finalizer goes when every resource has. *)
LEMMA DeleteTruthful ==
  ASSUME TypeOK, NoOverlap, Truthful, NEW w \in Worker, handleDatabaseBackupDelete(w)
  PROVE  Truthful'
  <1> USE DEF local, inputs, bounds
  <1>0. runWorker(w)
    BY DEF runWorker
  <1>1. pc[w] \in {"delete", "remove"} /\ inputs' = inputs
    BY DEF handleDatabaseBackupDelete, DeleteFetch, DeleteFetchFails, Delete, DeleteFails,
           RemoveFinalizer, RemoveFinalizerFails, NothingToRemove
  <1>2. \A u \in Worker \ {w} : pc'[u] = "idle"
    BY <1>0, <1>1, OthersIdle
  <1>3. backup.finalizer /\ backup.deleting /\ ~Managed
    BY <1>1 DEF Truthful, Guarded, Managed
  <1>4. CASE DeleteFetchFails(w) \/ RemoveFinalizerFails(w) \/ NothingToRemove(w)
    <2>1. UNCHANGED <<backup, inputs, rss>> /\ pc'[w] \in Uncommitted
      BY <1>4 DEF DeleteFetchFails, RemoveFinalizerFails, NothingToRemove, Succeed, Fail,
                  Return, Goto, Unchanged, Uncommitted, TypeOK
    <2> QED  BY <1>0, <2>1, QuietReturn
  <1>5. ASSUME backup' = backup, pc'[w] \in Uncommitted \cup {"remove"},
               \A r \in Resource : rss'[r] \in {rss[r], Absent},
               pc'[w] = "remove" => \A r \in Resource \ todo'[w] : rss'[r] = Absent
        PROVE  Truthful'
    <2>1. Guarded'
      BY <1>2, <1>3, <1>5 DEF Truthful, Guarded, Uncommitted
    <2>2. Applied' /\ ReadyMeansThere'
      BY <1>2, <1>3, <1>5 DEF Applied, ReadyMeansThere, Managed, Uncommitted
    <2>3. HashOrder'
      BY <1>1, <1>2, <1>3, <1>5 DEF Truthful, HashOrder, Managed, Desired, Uncommitted
    <2> QED  BY <2>1, <2>2, <2>3 DEF Truthful
  <1>6. CASE DeleteFetch(w)
    <2>1. /\ UNCHANGED <<backup, rss>> /\ pc'[w] = "remove" /\ todo'[w] = Resource
      BY <1>6 DEF DeleteFetch, Goto, TypeOK
    <2> QED  BY <1>5, <2>1
  <1>7. ASSUME NEW r \in Resource, Delete(w, r)
        PROVE  Truthful'
    <2>1. /\ pc[w] = "remove" /\ pc' = pc /\ todo'[w] = todo[w] \ {r}
          /\ backup' = backup /\ rss' = [rss EXCEPT ![r] = Absent]
      BY <1>7 DEF Delete, TypeOK
    <2>2. \A q \in Resource \ todo[w] : rss[q] = Absent
      BY <2>1 DEF Truthful, Guarded
    <2> QED  BY <1>5, <2>1, <2>2 DEF TypeOK
  <1>8. ASSUME NEW r \in Resource, DeleteFails(w, r)
        PROVE  Truthful'
    <2>1. /\ pc'[w] \in Uncommitted /\ backup' = backup
          /\ rss' \in {rss, [rss EXCEPT ![r] = Absent]}
      BY <1>8 DEF DeleteFails, Fail, Return, Goto, Unchanged, Uncommitted, TypeOK
    <2> QED  BY <1>5, <2>1 DEF TypeOK, Uncommitted
  <1>9. CASE RemoveFinalizer(w)
    <2>1. /\ pc[w] = "remove" /\ todo[w] = {} /\ backup' = Gone /\ rss' = rss
          /\ pc'[w] = "idle"
      BY <1>3, <1>9 DEF RemoveFinalizer, AllDeleted, Changed, Unclaimed, Succeed, Fail,
                        Return, Goto, TypeOK
    <2>2. \A r \in Resource : rss[r] = Absent
      BY <2>1 DEF Truthful, Guarded
    <2>3. /\ ~Gone.exists /\ ~Gone.finalizer /\ ~Gone.deleting /\ Gone.status.hash = NoHash
      BY DEF Gone, EmptyStatus
    <2>4. Guarded'
      BY <1>2, <2>1, <2>2, <2>3 DEF Guarded
    <2>5. Applied' /\ ReadyMeansThere'
      BY <1>2, <2>1, <2>3 DEF Applied, ReadyMeansThere, Managed
    <2>6. HashOrder'
      BY <1>2, <2>1, <2>3 DEF HashOrder, Managed
    <2> QED  BY <2>4, <2>5, <2>6 DEF Truthful
  <1> QED
    BY <1>4, <1>6, <1>7, <1>8, <1>9 DEF handleDatabaseBackupDelete

-----------------------------------------------------------------------------
(* Every step without overlap.                                             *)
LEMMA NextTruthful ==
  ASSUME TypeOK, NoOverlap, Truthful, [Next]_vars
  PROVE  Truthful'
  <1> USE DEF local, inputs, bounds
  <1>1. ASSUME NEW w \in Worker, runWorker(w)
        PROVE  Truthful'
    <2>1. ASSUME NEW a \in QueueEntryAction, Get(w, a)
          PROVE  Truthful'
      <3>1. pc'[w] \in Uncommitted /\ UNCHANGED <<backup, inputs, rss>>
        BY <2>1 DEF Get, Goto, Uncommitted, QueueEntryAction, TypeOK
      <3> QED  BY <1>1, <3>1, QuietReturn
    <2> QED
      BY <1>1, <2>1, AddTruthful, UpdateTruthful, DeleteTruthful DEF runWorker
  <1>2. CASE Resync \/ APIFlips \/ UNCHANGED vars
    BY <1>2, Quiet DEF Resync, APIFlips, vars, Untouched
  <1>3. CASE Restart
    BY <1>3, Quiet DEF Restart, Uncommitted
  <1> QED  BY <1>1, <1>2, <1>3, UserTruthful DEF Next

(* Nothing is there in the beginning.                                      *)
LEMMA InitTruthful == Init => Truthful
  <1> SUFFICES ASSUME Init
               PROVE  Truthful
    OBVIOUS
  <1>1. Guarded
    BY DEF Init, Guarded, Gone
  <1>2. Applied
    BY DEF Init, Applied
  <1>3. HashOrder
    BY DEF Init, HashOrder, Gone, EmptyStatus, Managed
  <1>4. ReadyMeansThere
    BY DEF Init, ReadyMeansThere, Managed, Gone
  <1> QED  BY <1>1, <1>2, <1>3, <1>4 DEF Truthful

(* As long as no two workers handle the object at the same time, the       *)
(* finalizer guards the resources, what a status says of them is so, and a *)
(* hash is never that of contents still to come.                           *)
THEOREM AloneInductive == Spec /\ []NoOverlap => []AloneInv
  <1>1. Init => Truthful
    BY InitTruthful
  <1>2. TypeOK /\ NoOverlap /\ Truthful /\ [Next]_vars => Truthful'
    BY NextTruthful
  <1>3. TypeOK /\ Truthful => AloneInv
    BY DEF Truthful, AloneInv
  <1> QED  BY <1>1, <1>2, <1>3, TypeCorrect, PTL DEF Spec

(* When the object is gone so are its resources.                           *)
THEOREM NoOrphansThm == Spec /\ []NoOverlap => []NoOrphans
  <1>1. AloneInv => NoOrphans
    BY DEF AloneInv, Guarded, NoOrphans, Gone
  <1> QED  BY <1>1, AloneInductive, PTL

(* An object shown as Ready has all its resources.                         *)
THEOREM ReadyMeansThereThm == Spec /\ []NoOverlap => []ReadyMeansThere
  <1>1. AloneInv => ReadyMeansThere
    BY DEF AloneInv
  <1> QED  BY <1>1, AloneInductive, PTL

(* The hash in the status is that of resources that are there, unless an   *)
(* edit of the inputs may restore an earlier version of them.              *)
THEOREM HashMeansAppliedThm ==
  ASSUME ~MayRevert
  PROVE  Spec /\ []NoOverlap => []HashMeansApplied
  <1>1. AloneInv => HashMeansApplied
    BY DEF AloneInv, HashOrder, HashMeansApplied
  <1> QED  BY <1>1, AloneInductive, PTL
=============================================================================
