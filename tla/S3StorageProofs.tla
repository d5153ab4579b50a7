-------------------------- MODULE S3StorageProofs ---------------------------
(***************************************************************************)
(* Proofs about S3Storage, for any number of backups, sessions, formats    *)
(* and configurations and a clock of any length.                           *)
(***************************************************************************)
EXTENDS S3Storage, RetentionStoreProofs

-----------------------------------------------------------------------------
(* Types, and one action at a time.                                        *)

(* Manager.Add offers a label of a configured format under a label name.   *)
LEMMA NewLabelType ==
  ASSUME TypeOK, NEW f \in DOMAIN retention
  PROVE  NewLabel(f) \in Label
  <1>1. retention \in RetentionConfig
    BY StorageAssumption DEF TypeOK
  <1>2. PICK F \in SUBSET Format : retention \in [F -> Hold]
    BY <1>1 DEF RetentionConfig
  <1>3. f \in Format /\ retention[f] \in Hold
    BY <1>2
  <1>4. FormatTime(now, f) \in Name
    BY <1>3, FormatAssumption DEF TypeOK
  <1> QED  BY <1>3, <1>4 DEF NewLabel, Label

(* A configuration names formats only.                                     *)
LEMMA ConfigDomain ==
  ASSUME NEW config \in Configs
  PROVE  DOMAIN config \subseteq Format
  BY StorageAssumption DEF RetentionConfig

(* The initial state is well-formed.                                       *)
LEMMA InitType == Init => TypeOK /\ OneAction
  BY NewStoreFacts, StorageAssumption
     DEF Init, TypeOK, OneAction, ActionPhase, CleanPhase, Outcome

(* Releasing a session leaves it well-formed.                              *)
LEMMA ReleaseType ==
  ASSUME TypeOK, NEW s \in Session, Release(s)
  PROVE  /\ pc' \in [Session -> {"idle"} \cup ActionPhase \cup CleanPhase]
         /\ entry' \in [Session -> Entry \cup {NoEntry}]
         /\ DOMAIN store' = Session
         /\ \A u \in Session : IsStore(store'[u])
         /\ formats' \in [Session -> SUBSET Format]
         /\ \A u \in Session : formats'[u] \subseteq DOMAIN retention
         /\ added' \in [Session -> BOOLEAN]
         /\ todo' \in [Session -> SUBSET Entry]
  BY NewStoreFacts DEF TypeOK, Release

(* Every step keeps the types and lets at most one upload or restore run.  *)
LEMMA NextType ==
  ASSUME TypeOK, OneAction, [Next]_vars
  PROVE  TypeOK' /\ OneAction'
  <1> USE DEF bucket, history, session
  <1>0. UNCHANGED useSingleBackupTarget
    BY DEF Next, vars
  <1> USE <1>0
  <1>1. CASE Tick
    <2>1. TypeOK'
      BY <1>1 DEF Tick, Observe, TypeOK
    <2> QED  BY <1>1, <2>1 DEF Tick, OneAction
  <1>2. ASSUME NEW s \in Session, NEW e \in Entry, StartBackup(s, e)
        PROVE  TypeOK' /\ OneAction'
    <2>1. TypeOK'
      BY <1>2 DEF StartBackup, Goto, TypeOK, ActionPhase, CleanPhase, Outcome
    <2>2. OneAction'
      BY <1>2 DEF StartBackup, Goto, TypeOK, OneAction, ActionPhase, CleanPhase, NoAction
    <2> QED  BY <2>1, <2>2
  <1>3. ASSUME NEW s \in Session, StartRestore(s)
        PROVE  TypeOK' /\ OneAction'
    <2>1. TypeOK'
      BY <1>3 DEF StartRestore, Goto, TypeOK, ActionPhase, CleanPhase, Outcome
    <2>2. OneAction'
      BY <1>3 DEF StartRestore, Goto, TypeOK, OneAction, ActionPhase, CleanPhase, NoAction
    <2> QED  BY <2>1, <2>2
  <1>4. ASSUME NEW s \in Session, New(s)
        PROVE  TypeOK' /\ OneAction'
    <2>1. IsStore(store'[s])
      BY <1>4, NewStoreFacts, LoadFacts DEF New, TypeOK
    <2>2. TypeOK'
      BY <1>4, <2>1 DEF New, Goto, TypeOK, ActionPhase, CleanPhase
    <2>3. OneAction'
      BY <1>4 DEF New, Goto, TypeOK, OneAction, ActionPhase
    <2> QED  BY <2>2, <2>3
  <1>5. ASSUME NEW s \in Session, NewFails(s)
        PROVE  TypeOK' /\ OneAction'
    <2>1. Release(s)
      BY <1>5 DEF NewFails, Fail
    <2>2. TypeOK'
      BY <1>5, <2>1, ReleaseType DEF NewFails, Fail, TypeOK, Outcome
    <2>3. OneAction'
      BY <1>5, <2>1 DEF NewFails, Fail, Release, TypeOK, OneAction, ActionPhase
    <2> QED  BY <2>2, <2>3
  <1>6. ASSUME NEW s \in Session, PutObject(s)
        PROVE  TypeOK' /\ OneAction'
    <2>1. entry[s] \in Entry
      BY <1>6 DEF PutObject, TypeOK, OneAction
    <2>2. TypeOK'
      BY <1>6, <2>1, ConfigDomain
         DEF PutObject, WithObject, Goto, TypeOK, ActionPhase, CleanPhase, Outcome
    <2>3. OneAction'
      BY <1>6, <2>1 DEF PutObject, Goto, TypeOK, OneAction, ActionPhase
    <2> QED  BY <2>2, <2>3
  <1>7. ASSUME NEW s \in Session, PutObjectFails(s)
        PROVE  TypeOK' /\ OneAction'
    <2>1. entry[s] \in Entry /\ Release(s)
      BY <1>7 DEF PutObjectFails, Fail, TypeOK, OneAction
    <2>2. TypeOK'
      BY <1>7, <2>1, ReleaseType DEF PutObjectFails, WithObject, Fail, TypeOK, Outcome
    <2>3. OneAction'
      BY <1>7, <2>1 DEF PutObjectFails, Fail, Release, TypeOK, OneAction, ActionPhase
    <2> QED  BY <2>2, <2>3
  <1>8. ASSUME NEW s \in Session, NEW f \in Format, AddLabel(s, f)
        PROVE  TypeOK' /\ OneAction'
    <2> DEFINE result == AddEntry(store[s], entry[s], NewLabel(f))
    <2>1. entry[s] \in Entry
      BY <1>8 DEF AddLabel, TypeOK, OneAction
    <2>2. NewLabel(f) \in Label
      BY <1>8, NewLabelType DEF AddLabel, TypeOK
    <2>3. IsStore(result)
      BY <2>1, <2>2, AddEntryFacts DEF TypeOK
    <2>4. Slice(result, entry[s]) \subseteq Label
      BY <2>3 DEF Slice, IsStore
    <2>5. /\ store' = [store EXCEPT ![s] = result]
          /\ assigned' = [assigned EXCEPT ![entry[s]] = @ \cup Slice(result, entry[s])]
      BY <1>8 DEF AddLabel
    <2> HIDE DEF result
    <2>6. /\ DOMAIN store' = Session
          /\ \A u \in Session : IsStore(store'[u])
          /\ assigned' \in [Entry -> SUBSET Label]
      BY <2>1, <2>3, <2>4, <2>5 DEF TypeOK
    <2>7. overdue' \subseteq Label
      BY <1>8, <2>6 DEF AddLabel, Observe, TypeOK
    <2>8. TypeOK'
      BY <1>8, <2>6, <2>7 DEF AddLabel, TypeOK
    <2>9. OneAction'
      BY <1>8 DEF AddLabel, OneAction
    <2> QED  BY <2>8, <2>9
  <1>9. ASSUME NEW s \in Session, AddReturn(s)
        PROVE  TypeOK' /\ OneAction'
    <2>1. entry[s] \in Entry
      BY <1>9 DEF AddReturn, TypeOK, OneAction
    <2>2. CASE added[s]
      <3>1. TypeOK'
        BY <1>9, <2>2 DEF AddReturn, Goto, TypeOK, ActionPhase, CleanPhase
      <3>2. OneAction'
        BY <1>9, <2>2 DEF AddReturn, Goto, TypeOK, OneAction, ActionPhase
      <3> QED  BY <3>1, <3>2
    <2>3. CASE ~added[s]
      <3>1. Release(s)
        BY <1>9, <2>3 DEF AddReturn, Fail
      <3>2. TypeOK'
        BY <1>9, <2>1, <2>3, <3>1, ReleaseType DEF AddReturn, Fail, TypeOK, Outcome
      <3>3. OneAction'
        BY <1>9, <2>1, <2>3, <3>1
           DEF AddReturn, Fail, Release, TypeOK, OneAction, ActionPhase
      <3> QED  BY <3>2, <3>3
    <2> QED  BY <2>2, <2>3
  <1>10. ASSUME NEW s \in Session, SaveLabels(s)
         PROVE  TypeOK' /\ OneAction'
    <2>1. entry[s] \in Entry /\ IsEntries(store[s].entries)
      BY <1>10 DEF SaveLabels, TypeOK, OneAction, IsStore, IsEntries
    <2>2. TypeOK'
      BY <1>10, <2>1 DEF SaveLabels, Save, Goto, TypeOK, ActionPhase, CleanPhase, Outcome
    <2>3. OneAction'
      BY <1>10, <2>1 DEF SaveLabels, Goto, TypeOK, OneAction, ActionPhase
    <2> QED  BY <2>2, <2>3
  <1>11. ASSUME NEW s \in Session, SaveLabelsFails(s)
         PROVE  TypeOK' /\ OneAction'
    <2>1. entry[s] \in Entry /\ IsEntries(store[s].entries) /\ Release(s)
      BY <1>11 DEF SaveLabelsFails, Fail, TypeOK, OneAction, IsStore, IsEntries
    <2>2. TypeOK'
      BY <1>11, <2>1, ReleaseType DEF SaveLabelsFails, Save, Fail, TypeOK, Outcome
    <2>3. OneAction'
      BY <1>11, <2>1 DEF SaveLabelsFails, Fail, Release, TypeOK, OneAction, ActionPhase
    <2> QED  BY <2>2, <2>3
  <1>12. ASSUME NEW s \in Session, CleanRetentions(s)
         PROVE  TypeOK' /\ OneAction'
    <2> DEFINE cleaned == CleanupLabels(store[s], retention, now)
    <2>1. CASE useSingleBackupTarget
      <3>1. Release(s)
        BY <1>12, <2>1 DEF CleanRetentions
      <3>2. TypeOK'
        BY <1>12, <3>1, ReleaseType DEF CleanRetentions, TypeOK
      <3>3. OneAction'
        BY <1>12, <3>1 DEF CleanRetentions, Release, TypeOK, OneAction, ActionPhase
      <3> QED  BY <3>2, <3>3
    <2>2. CASE ~useSingleBackupTarget
      <3>1. IsStore(cleaned)
        BY CleanupFacts DEF TypeOK
      <3>2. ListUnretainedEntries(cleaned) \subseteq Entry
        BY <3>1 DEF ListUnretainedEntries, IsStore
      <3>3. /\ store' = [store EXCEPT ![s] = cleaned]
            /\ todo' = [todo EXCEPT ![s] = ListUnretainedEntries(cleaned)]
        BY <1>12, <2>2 DEF CleanRetentions
      <3> HIDE DEF cleaned
      <3>4. TypeOK'
        BY <1>12, <2>2, <3>1, <3>2, <3>3
           DEF CleanRetentions, Goto, TypeOK, ActionPhase, CleanPhase
      <3>5. OneAction'
        BY <1>12, <2>2 DEF CleanRetentions, Goto, TypeOK, OneAction, ActionPhase
      <3> QED  BY <3>4, <3>5
    <2> QED  BY <2>1, <2>2
  <1>13. ASSUME NEW s \in Session, NEW e \in Entry, RemoveObject(s, e)
         PROVE  TypeOK' /\ OneAction'
    <2>1. IsStore(Remove(store[s], e))
      BY RemoveFacts DEF TypeOK
    <2>2. TypeOK'
      BY <1>13, <2>1 DEF RemoveObject, TypeOK
    <2>3. OneAction'
      BY <1>13 DEF RemoveObject, OneAction
    <2> QED  BY <2>2, <2>3
  <1>14. ASSUME NEW s \in Session, NEW e \in Entry, RemoveObjectFails(s, e)
         PROVE  TypeOK' /\ OneAction'
    <2>1. Release(s)
      BY <1>14 DEF RemoveObjectFails
    <2>2. TypeOK'
      BY <1>14, <2>1, ReleaseType DEF RemoveObjectFails, TypeOK
    <2>3. OneAction'
      BY <1>14, <2>1 DEF RemoveObjectFails, Release, TypeOK, OneAction, ActionPhase
    <2> QED  BY <2>2, <2>3
  <1>15. ASSUME NEW s \in Session, StartStat(s)
         PROVE  TypeOK' /\ OneAction'
    <2>1. ListRetainedEntries(store[s]) \subseteq Entry
      BY DEF ListRetainedEntries, TypeOK, IsStore
    <2>2. TypeOK'
      BY <1>15, <2>1 DEF StartStat, Goto, TypeOK, CleanPhase
    <2>3. OneAction'
      BY <1>15 DEF StartStat, Goto, TypeOK, OneAction, ActionPhase
    <2> QED  BY <2>2, <2>3
  <1>16. ASSUME NEW s \in Session, NEW e \in Entry, StatObject(s, e)
         PROVE  TypeOK' /\ OneAction'
    <2>1. IsStore(Remove(store[s], e))
      BY RemoveFacts DEF TypeOK
    <2>2. TypeOK'
      BY <1>16, <2>1 DEF StatObject, TypeOK
    <2>3. OneAction'
      BY <1>16 DEF StatObject, OneAction
    <2> QED  BY <2>2, <2>3
  <1>17. ASSUME NEW s \in Session, StatObjectFails(s) \/ SaveCleanFails(s)
         PROVE  TypeOK' /\ OneAction'
    <2>1. Release(s) /\ UNCHANGED <<now, retention, bucket, outcome, history>>
      BY <1>17 DEF StatObjectFails, SaveCleanFails
    <2>2. TypeOK'
      BY <2>1, ReleaseType DEF TypeOK
    <2>3. OneAction'
      BY <2>1 DEF Release, TypeOK, OneAction, ActionPhase
    <2> QED  BY <2>2, <2>3
  <1>18. ASSUME NEW s \in Session, StatDone(s)
         PROVE  TypeOK' /\ OneAction'
    <2>1. TypeOK'
      BY <1>18 DEF StatDone, Goto, TypeOK, CleanPhase
    <2>2. OneAction'
      BY <1>18 DEF StatDone, Goto, TypeOK, OneAction, ActionPhase
    <2> QED  BY <2>1, <2>2
  <1>19. ASSUME NEW s \in Session, SaveClean(s)
         PROVE  TypeOK' /\ OneAction'
    <2>1. IsEntries(store[s].entries) /\ Release(s)
      BY <1>19 DEF SaveClean, TypeOK, IsStore, IsEntries
    <2>2. TypeOK'
      BY <1>19, <2>1, ReleaseType DEF SaveClean, Save, TypeOK
    <2>3. OneAction'
      BY <1>19, <2>1 DEF SaveClean, Release, TypeOK, OneAction, ActionPhase
    <2> QED  BY <2>2, <2>3
  <1>20. ASSUME NEW s \in Session, NEW pit \in Time, NEW e \in Entry, FindBackup(s, pit, e)
         PROVE  TypeOK' /\ OneAction'
    <2>1. TypeOK'
      BY <1>20 DEF FindBackup, Goto, TypeOK, ActionPhase
    <2>2. OneAction'
      BY <1>20 DEF FindBackup, Goto, TypeOK, OneAction, ActionPhase
    <2> QED  BY <2>1, <2>2
  <1>21. ASSUME NEW s \in Session, FindSingle(s)
         PROVE  TypeOK' /\ OneAction'
    <2>1. TypeOK'
      BY <1>21 DEF FindSingle, Goto, TypeOK, ActionPhase
    <2>2. OneAction'
      BY <1>21 DEF FindSingle, Goto, TypeOK, OneAction, ActionPhase
    <2> QED  BY <2>1, <2>2
  <1>22. ASSUME NEW s \in Session,
                (\E pit \in Time : FindNothing(s, pit)) \/ DownloadByName(s) \/ Download(s)
         PROVE  TypeOK' /\ OneAction'
    <2>1. Release(s) /\ UNCHANGED <<now, retention, bucket, outcome, history>>
      BY <1>22 DEF FindNothing, DownloadByName, Download
    <2>2. TypeOK'
      BY <2>1, ReleaseType DEF TypeOK
    <2>3. OneAction'
      BY <2>1 DEF Release, TypeOK, OneAction, ActionPhase
    <2> QED  BY <2>2, <2>3
  <1>23. ASSUME NEW config \in Configs, Restart(config)
         PROVE  TypeOK' /\ OneAction'
    <2>1. TypeOK'
      BY <1>23, NewStoreFacts DEF Restart, Observe, TypeOK, Outcome
    <2>2. OneAction'
      BY <1>23 DEF Restart, OneAction, ActionPhase
    <2> QED  BY <2>1, <2>2
  <1>24. ASSUME NEW e \in Entry, ExternalDelete(e)
         PROVE  TypeOK' /\ OneAction'
    <2>1. TypeOK'
      BY <1>24 DEF ExternalDelete, TypeOK
    <2>2. OneAction'
      BY <1>24 DEF ExternalDelete, OneAction
    <2> QED  BY <2>1, <2>2
  <1>25. CASE UNCHANGED vars
    BY <1>25 DEF vars, TypeOK, OneAction
  <1> QED
    BY <1>1, <1>2, <1>3, <1>4, <1>5, <1>6, <1>7, <1>8, <1>9, <1>10, <1>11, <1>12,
       <1>13, <1>14, <1>15, <1>16, <1>17, <1>18, <1>19, <1>20, <1>21, <1>22, <1>23,
       <1>24, <1>25
       DEF Next, Upload, CleanupBackups, Restore

(* Every variable keeps its type, and there is one upload or restore at a  *)
(* time, however the sessions of the runner interleave.                    *)
THEOREM TypeCorrect == Spec => [](TypeOK /\ OneAction)
  <1>1. Init => TypeOK /\ OneAction
    BY InitType
  <1>2. TypeOK /\ OneAction /\ [Next]_vars => (TypeOK /\ OneAction)'
    BY NextType
  <1> QED  BY <1>1, <1>2, PTL DEF Spec

-----------------------------------------------------------------------------
(* The labels and the objects agree: what no step may break.               *)

(* A session that ends, done or failed, takes nothing with it.             *)
LEMMA ReleaseKeeps ==
  ASSUME IndInv, NEW s \in Session, Release(s),
         UNCHANGED <<useSingleBackupTarget, now, retention, bucket, history>>,
         \/ UNCHANGED outcome
         \/ /\ pc[s] \in {"new", "put", "add", "save"}
            /\ outcome' = [outcome EXCEPT ![entry[s]] = "failed"]
  PROVE  LabelInv'
  <1> USE DEF bucket, history, session, IndInv, LabelInv
  <1>1. (Faithful /\ UniqueLabels /\ HistoryExact)'
    BY NewStoreFacts DEF Release, Faithful, FaithfulCopy, UniqueLabels, Unique,
       HistoryExact, TypeOK
  <1>2. (Unpublished /\ UnlabelledAtFirst)'
    BY NewStoreFacts DEF Release, Unpublished, UnlabelledAtFirst, TypeOK
  <1>3. (LabelledIsThere /\ TodoIsUnlabelled /\ NoLabels)'
    BY NewStoreFacts DEF Release, LabelledIsThere, TodoIsUnlabelled, NoLabels,
       TypeOK
  <1>4. (Durable /\ ChosenIsThere)'
    BY NewStoreFacts DEF Release, Durable, ChosenIsThere, TypeOK
  <1> QED  BY <1>1, <1>2, <1>3, <1>4

(* Every step keeps the copies of the labels and the bucket in agreement.  *)
LEMMA NextLabelInv ==
  ASSUME IndInv, TypeOK', OneAction', [Next]_vars
  PROVE  LabelInv'
  <1> USE DEF bucket, history, session, IndInv, LabelInv
  <1>0. UNCHANGED useSingleBackupTarget
    BY DEF Next, vars
  <1> USE <1>0
  <1>1. ASSUME Tick
       PROVE  LabelInv'
    <2>1. HistoryExact'
      BY <1>1 DEF Tick, Observe, HistoryExact, TypeOK, OneAction, ActionPhase
    <2>2. Faithful'
      BY <1>1 DEF Tick, Observe, Faithful, FaithfulCopy, TypeOK, OneAction,
         ActionPhase
    <2>3. LabelledIsThere'
      BY <1>1 DEF Tick, Observe, LabelledIsThere, TypeOK, OneAction,
         ActionPhase
    <2>4. Durable'
      BY <1>1 DEF Tick, Observe, Durable, TypeOK, OneAction, ActionPhase
    <2>5. ChosenIsThere'
      BY <1>1 DEF Tick, Observe, ChosenIsThere, TypeOK, OneAction, ActionPhase
    <2>6. (/\ Unpublished /\ UnlabelledAtFirst /\ TodoIsUnlabelled
           /\ NoLabels /\ UniqueLabels)'
      BY <1>1 DEF Tick, Observe, Unpublished, UnlabelledAtFirst,
         TodoIsUnlabelled, NoLabels, UniqueLabels, Unique, TypeOK, OneAction,
         ActionPhase
    <2> QED  BY <2>1, <2>2, <2>3, <2>4, <2>5, <2>6 DEF LabelInv
  <1>2. ASSUME NEW s \in Session, NEW e \in Entry, StartBackup(s, e)
       PROVE  LabelInv'
    <2>1. UnlabelledAtFirst'
      BY <1>2 DEF StartBackup, Goto, NoAction, UnlabelledAtFirst, TypeOK,
         OneAction, ActionPhase
    <2>2. Unpublished'
      BY <1>2 DEF StartBackup, Goto, NoAction, Unpublished, TypeOK, OneAction,
         ActionPhase
    <2>3. Durable'
      BY <1>2 DEF StartBackup, Goto, NoAction, Durable, TypeOK, OneAction,
         ActionPhase
    <2>4. (/\ Faithful /\ HistoryExact /\ UniqueLabels)'
      BY <1>2 DEF StartBackup, Faithful, FaithfulCopy, HistoryExact,
         UniqueLabels, Unique, TypeOK
    <2>5. (/\ LabelledIsThere /\ TodoIsUnlabelled /\ NoLabels /\ ChosenIsThere)'
      BY <1>2 DEF StartBackup, Goto, LabelledIsThere, TodoIsUnlabelled, NoLabels,
         ChosenIsThere, TypeOK
    <2> QED  BY <2>1, <2>2, <2>3, <2>4, <2>5 DEF LabelInv
  <1>3. ASSUME NEW s \in Session, StartRestore(s)
       PROVE  LabelInv'
    <2>1. (/\ Faithful /\ Unpublished /\ UnlabelledAtFirst /\ LabelledIsThere /\ TodoIsUnlabelled /\ HistoryExact
           /\ NoLabels /\ UniqueLabels /\ Durable /\ ChosenIsThere)'
      BY <1>3 DEF StartRestore, Goto, NoAction, Faithful, FaithfulCopy,
         Unpublished, UnlabelledAtFirst, LabelledIsThere, TodoIsUnlabelled,
         HistoryExact, NoLabels, UniqueLabels, Unique, Durable, ChosenIsThere,
         TypeOK, OneAction, ActionPhase
    <2> QED  BY <2>1 DEF LabelInv
  <1>4. ASSUME NEW s \in Session, New(s)
       PROVE  LabelInv'
    <2>1. UnlabelledAtFirst'
      BY <1>4, NewStoreFacts, LoadFacts DEF New, Goto, UnlabelledAtFirst,
         Unpublished, TypeOK, OneAction, ActionPhase
    <2>2. Faithful'
      BY <1>4, NewStoreFacts, LoadFacts DEF New, Goto, Faithful, FaithfulCopy,
         TypeOK, OneAction, ActionPhase
    <2>3. Unpublished'
      BY <1>4, NewStoreFacts, LoadFacts DEF New, Goto, Unpublished, TypeOK,
         OneAction, ActionPhase
    <2>4. UniqueLabels'
      BY <1>4, NewStoreFacts, LoadFacts DEF New, Goto, UniqueLabels, Unique,
         TypeOK, OneAction, ActionPhase
    <2>5. (/\ LabelledIsThere /\ TodoIsUnlabelled /\ HistoryExact /\ NoLabels
           /\ Durable /\ ChosenIsThere)'
      BY <1>4, NewStoreFacts, LoadFacts DEF New, Goto, LabelledIsThere,
         TodoIsUnlabelled, HistoryExact, NoLabels, Durable, ChosenIsThere,
         TypeOK, OneAction, ActionPhase
    <2> QED  BY <2>1, <2>2, <2>3, <2>4, <2>5 DEF LabelInv
  <1>5. ASSUME NEW s \in Session, PutObject(s)
       PROVE  LabelInv'
    <2>1. UnlabelledAtFirst'
      BY <1>5 DEF PutObject, WithObject, Goto, UnlabelledAtFirst, TypeOK,
         OneAction, ActionPhase
    <2>2. LabelledIsThere'
      BY <1>5 DEF PutObject, WithObject, Goto, LabelledIsThere, NoLabels,
         TypeOK, OneAction, ActionPhase
    <2>3. Unpublished'
      BY <1>5 DEF PutObject, WithObject, Goto, Unpublished, TypeOK, OneAction,
         ActionPhase
    <2>4. Durable'
      BY <1>5 DEF PutObject, WithObject, Goto, Durable, TypeOK, OneAction,
         ActionPhase
    <2>5. ChosenIsThere'
      BY <1>5 DEF PutObject, WithObject, Goto, ChosenIsThere, NoLabels, TypeOK,
         OneAction, ActionPhase
    <2>6. (/\ Faithful /\ TodoIsUnlabelled /\ HistoryExact
           /\ NoLabels /\ UniqueLabels)'
      BY <1>5 DEF PutObject, WithObject, Goto, Faithful, FaithfulCopy,
         TodoIsUnlabelled, HistoryExact, NoLabels, UniqueLabels, Unique,
         TypeOK, OneAction, ActionPhase
    <2> QED  BY <2>1, <2>2, <2>3, <2>4, <2>5, <2>6 DEF LabelInv
  <1>6. ASSUME NEW s \in Session, PutObjectFails(s)
       PROVE  LabelInv'
    <2>1. LabelledIsThere'
      BY <1>6, NewStoreFacts DEF PutObjectFails, WithObject, Fail, Release,
         LabelledIsThere, NoLabels, TypeOK, OneAction, ActionPhase
    <2>2. Unpublished'
      BY <1>6, NewStoreFacts DEF PutObjectFails, WithObject, Fail, Release,
         Unpublished, TypeOK, OneAction, ActionPhase
    <2>3. Durable'
      BY <1>6, NewStoreFacts DEF PutObjectFails, WithObject, Fail, Release,
         Durable, TypeOK, OneAction, ActionPhase
    <2>4. ChosenIsThere'
      BY <1>6, NewStoreFacts DEF PutObjectFails, WithObject, Fail, Release,
         ChosenIsThere, NoLabels, TypeOK, OneAction, ActionPhase
    <2>5. (/\ Faithful /\ UnlabelledAtFirst /\ TodoIsUnlabelled /\ HistoryExact
           /\ NoLabels /\ UniqueLabels)'
      BY <1>6, NewStoreFacts DEF PutObjectFails, WithObject, Fail, Release,
         Faithful, FaithfulCopy, UnlabelledAtFirst, TodoIsUnlabelled,
         HistoryExact, NoLabels, UniqueLabels, Unique, TypeOK, OneAction,
         ActionPhase
    <2> QED  BY <2>1, <2>2, <2>3, <2>4, <2>5 DEF LabelInv
  <1>7. ASSUME NEW s \in Session, NEW f \in Format, AddLabel(s, f)
        PROVE  LabelInv'
    <2> DEFINE b == entry[s]
               l == NewLabel(f)
               c == store[s].entries
               result == AddEntry(store[s], b, l)
    <2>1. /\ b \in Entry /\ l \in Label
          /\ outcome[b] = "running" /\ b \in objects \cup lost
          /\ ~useSingleBackupTarget
      BY <1>7, NewLabelType DEF AddLabel, TypeOK, OneAction, LabelledIsThere, NoLabels
    <2>2. /\ b \notin DOMAIN labelFile
          /\ \A u \in Session \ {s} : b \notin DOMAIN store[u].entries
      BY <1>7, <2>1 DEF AddLabel, Unpublished, OneAction, ActionPhase
    <2>3. /\ store' = [store EXCEPT ![s] = result]
          /\ assigned' = [assigned EXCEPT ![b] = @ \cup Slice(result, b)]
          /\ overdue \subseteq overdue'
          /\ \A e \in Entry : \A m \in assigned'[e] :
               PastHold(m, retention', now') => m \in overdue'
          /\ UNCHANGED <<now, retention, objects, labelFile, pc, entry, todo, outcome, lost>>
      BY <1>7 DEF AddLabel, Observe
    <2>4. pc[s] = "add" /\ IsStore(store[s])
      BY <1>7 DEF AddLabel, TypeOK
    <2>5. \/ result.entries = c
          \/ /\ ParseOK(l.name, l.format) /\ l.name \notin Held(c)
             /\ result.entries = [d \in DOMAIN c \cup {b} |->
                                    IF d = b THEN Slice(store[s], d) \cup {l} ELSE c[d]]
      BY <2>1, <2>4, AddEntryFacts
    <2> HIDE DEF result, l
    <2>6. /\ DOMAIN c \subseteq DOMAIN result.entries
          /\ DOMAIN result.entries \subseteq DOMAIN c \cup {b}
          /\ \A d \in DOMAIN c \ {b} : result.entries[d] = c[d]
          /\ Slice(store[s], b) \subseteq Slice(result, b)
          /\ \A m \in Slice(result, b) :
               m \in Slice(store[s], b) \/ (m = l /\ ParseOK(l.name, l.format))
          /\ b \in DOMAIN result.entries =>
               Slice(result, b) = result.entries[b]
          /\ b \in DOMAIN result.entries /\ b \notin DOMAIN c =>
               result.entries[b] # {}
      <3>1. CASE result.entries = c
        <4>1. Slice(result, b) = Slice(store[s], b)
          BY <3>1 DEF Slice
        <4>2. b \in DOMAIN result.entries => Slice(result, b) = result.entries[b]
          BY DEF Slice
        <4> QED  BY <3>1, <4>1, <4>2
      <3>2. CASE result.entries # c
        <4>1. /\ DOMAIN result.entries = DOMAIN c \cup {b}
              /\ result.entries[b] = Slice(store[s], b) \cup {l}
              /\ \A d \in DOMAIN c \ {b} : result.entries[d] = c[d]
              /\ ParseOK(l.name, l.format)
          BY <2>5, <3>2
        <4>2. Slice(result, b) = result.entries[b]
          BY <4>1 DEF Slice
        <4> QED  BY <4>1, <4>2
      <3> QED  BY <3>1, <3>2
    <2>7. Faithful'
      <3>1. FaithfulCopy(labelFile)'
        BY <2>1, <2>2, <2>3 DEF Faithful, FaithfulCopy, TypeOK, IsEntries
      <3>2. ASSUME NEW u \in Session \ {s}
            PROVE  FaithfulCopy(store[u].entries)'
        BY <2>1, <2>2, <2>3 DEF Faithful, FaithfulCopy, TypeOK, IsStore
      <3>3. \A d \in DOMAIN result.entries :
              /\ assigned'[d] # {} /\ result.entries[d] \subseteq assigned'[d]
              /\ assigned'[d] \ result.entries[d] \subseteq overdue'
        <4>1. ASSUME NEW d \in DOMAIN result.entries, d # b
              PROVE  /\ assigned'[d] # {} /\ result.entries[d] \subseteq assigned'[d]
                     /\ assigned'[d] \ result.entries[d] \subseteq overdue'
          BY <2>1, <2>3, <2>6, <4>1 DEF Faithful, FaithfulCopy, TypeOK, IsStore
        <4>2. ASSUME b \in DOMAIN result.entries
              PROVE  /\ assigned'[b] # {} /\ result.entries[b] \subseteq assigned'[b]
                     /\ assigned'[b] \ result.entries[b] \subseteq overdue'
          <5>1. assigned'[b] = assigned[b] \cup result.entries[b]
            BY <2>1, <2>3, <2>6, <4>2 DEF TypeOK
          <5>2. CASE b \in DOMAIN c
            BY <5>1, <5>2, <2>3, <2>6, <4>2 DEF Faithful, FaithfulCopy, Slice
          <5>3. CASE b \notin DOMAIN c
            <6>1. assigned[b] = {}
              BY <2>1, <2>4, <5>3, StorageAssumption DEF UnlabelledAtFirst
            <6> QED  BY <5>1, <5>3, <6>1, <2>6, <4>2
          <5> QED  BY <5>2, <5>3
        <4> QED  BY <4>1, <4>2
      <3>4. FaithfulCopy(store[s].entries)'
        BY <2>3, <3>3 DEF FaithfulCopy, TypeOK
      <3> QED  BY <3>1, <3>2, <3>4 DEF Faithful
    <2>8. UniqueLabels'
      <3>1. Unique(result.entries)
        BY <2>5 DEF UniqueLabels, Unique, Held, Slice
      <3> QED  BY <2>3, <3>1 DEF UniqueLabels, Unique, TypeOK
    <2>9. HistoryExact'
      BY <2>1, <2>3, <2>6 DEF HistoryExact, Slice, Faithful, FaithfulCopy, TypeOK
    <2>10. (Unpublished /\ UnlabelledAtFirst)'
      <3>1. Unpublished'
        BY <2>3, <2>4, <2>6 DEF Unpublished, TypeOK
      <3>2. ASSUME NEW e \in Entry, outcome[e] = "none"
            PROVE  assigned'[e] = {}
        BY <2>1, <2>3, <3>2 DEF UnlabelledAtFirst, TypeOK
      <3>3. ASSUME b \notin DOMAIN result.entries
            PROVE  assigned'[b] = {}
        <4>1. Slice(result, b) = {} /\ assigned[b] = {}
          BY <2>1, <2>4, <2>6, <3>3, StorageAssumption DEF UnlabelledAtFirst, Slice
        <4> QED  BY <2>1, <2>3, <4>1 DEF TypeOK
      <3>4. ASSUME NEW u \in Session, pc[u] \in {"new", "put", "add", "save"}
            PROVE  u = s
        BY <2>4, <3>4 DEF OneAction, ActionPhase
      <3> QED  BY <2>3, <2>4, <3>1, <3>2, <3>3, <3>4 DEF UnlabelledAtFirst, TypeOK
    <2>11. (LabelledIsThere /\ TodoIsUnlabelled /\ NoLabels)'
      BY <2>1, <2>3, <2>4 DEF LabelledIsThere, TodoIsUnlabelled, NoLabels, TypeOK
    <2>12. Durable'
      BY <2>1, <2>3 DEF Durable, TypeOK
    <2>13. ChosenIsThere'
      BY <1>7, <2>1, <2>3, <2>4 DEF ChosenIsThere, TypeOK, OneAction, ActionPhase
    <2> QED  BY <2>7, <2>8, <2>9, <2>10, <2>11, <2>12, <2>13
  <1>8. ASSUME NEW s \in Session, AddReturn(s)
        PROVE  LabelInv'
    <2>1. CASE added[s]
      <3>1. /\ pc[s] = "add" /\ pc' = [pc EXCEPT ![s] = "save"]
            /\ UNCHANGED <<now, retention, bucket, entry, store, todo, outcome, history>>
        BY <1>8, <2>1 DEF AddReturn, Goto
      <3>2. (Faithful /\ UniqueLabels /\ HistoryExact /\ Durable)'
        BY <3>1 DEF Faithful, FaithfulCopy, UniqueLabels, Unique, HistoryExact, Durable
      <3>3. (Unpublished /\ UnlabelledAtFirst)'
        BY <3>1 DEF Unpublished, UnlabelledAtFirst, TypeOK
      <3>4. (LabelledIsThere /\ TodoIsUnlabelled /\ NoLabels /\ ChosenIsThere)'
        BY <3>1 DEF LabelledIsThere, TodoIsUnlabelled, NoLabels, ChosenIsThere, TypeOK
      <3> QED  BY <3>2, <3>3, <3>4
    <2>2. CASE ~added[s]
      <3>1. /\ Release(s) /\ pc[s] = "add"
            /\ UNCHANGED <<now, retention, bucket, history>>
            /\ outcome' = [outcome EXCEPT ![entry[s]] = "failed"]
        BY <1>8, <2>2 DEF AddReturn, Fail
      <3> QED  BY <3>1, ReleaseKeeps
    <2> QED  BY <2>1, <2>2
  <1>9. ASSUME NEW s \in Session, SaveLabels(s)
       PROVE  LabelInv'
    <2>1. Unpublished'
      BY <1>9 DEF SaveLabels, Save, Goto, Unpublished, TypeOK, OneAction,
         ActionPhase
    <2>2. Durable'
      BY <1>9 DEF SaveLabels, Save, Goto, Durable, LabelledIsThere, TypeOK,
         OneAction, ActionPhase
    <2>3. (/\ Faithful /\ UnlabelledAtFirst /\ LabelledIsThere /\ TodoIsUnlabelled /\ HistoryExact
           /\ NoLabels /\ UniqueLabels /\ ChosenIsThere)'
      BY <1>9 DEF SaveLabels, Save, Goto, Faithful, FaithfulCopy,
         UnlabelledAtFirst, LabelledIsThere, TodoIsUnlabelled, HistoryExact,
         NoLabels, UniqueLabels, Unique, ChosenIsThere, TypeOK, OneAction,
         ActionPhase
    <2> QED  BY <2>1, <2>2, <2>3 DEF LabelInv
  <1>10. ASSUME NEW s \in Session, SaveLabelsFails(s)
        PROVE  LabelInv'
    <2>1. Unpublished'
      BY <1>10, NewStoreFacts DEF SaveLabelsFails, Save, Fail, Release,
         Unpublished, TypeOK, OneAction, ActionPhase
    <2>2. (/\ Faithful /\ UnlabelledAtFirst /\ LabelledIsThere /\ TodoIsUnlabelled /\ HistoryExact
           /\ NoLabels /\ UniqueLabels /\ Durable /\ ChosenIsThere)'
      BY <1>10, NewStoreFacts DEF SaveLabelsFails, Save, Fail, Release,
         Faithful, FaithfulCopy, UnlabelledAtFirst, LabelledIsThere,
         TodoIsUnlabelled, HistoryExact, NoLabels, UniqueLabels, Unique,
         Durable, ChosenIsThere, TypeOK, OneAction, ActionPhase
    <2> QED  BY <2>1, <2>2 DEF LabelInv
  <1>11. ASSUME NEW s \in Session, CleanRetentions(s)
         PROVE  LabelInv'
    <2>0. CASE useSingleBackupTarget
      BY <1>11, <2>0, ReleaseKeeps DEF CleanRetentions
    <2> SUFFICES ASSUME ~useSingleBackupTarget PROVE LabelInv'
      BY <2>0
    <2> DEFINE c == store[s].entries
               cleaned == CleanupLabels(store[s], retention, now)
    <2>1. /\ IsStore(cleaned)
          /\ cleaned.entries = [e \in DOMAIN c |-> {l \in c[e] : Retains(l, retention, now)}]
      BY CleanupFacts DEF TypeOK
    <2>2. /\ pc[s] = "clean" /\ pc' = [pc EXCEPT ![s] = "remove"]
          /\ store' = [store EXCEPT ![s] = cleaned]
          /\ todo' = [todo EXCEPT ![s] = ListUnretainedEntries(cleaned)]
          /\ UNCHANGED <<now, retention, bucket, entry, outcome, history>>
      BY <1>11 DEF CleanRetentions, Goto
    <2>3. ASSUME NEW e \in DOMAIN c, NEW l \in c[e], ~Retains(l, retention, now)
          PROVE  l \in overdue
      <3>1. l \in Label /\ e \in Entry /\ l \in assigned[e]
        BY <2>3 DEF TypeOK, IsStore, Faithful, FaithfulCopy
      <3>2. ParseOK(l.name, l.format)
        BY <3>1 DEF HistoryExact
      <3>3. PICK F \in SUBSET Format : retention \in [F -> Hold]
        BY StorageAssumption DEF TypeOK, RetentionConfig
      <3>4. /\ l.format \in DOMAIN retention => retention[l.format] \in Nat
            /\ l.initialHoldTime \in Nat
            /\ ParseTime(l.name, l.format) \in Int
            /\ now \in Int
        BY <3>1, <3>2, <3>3, FormatAssumption DEF Label, TypeOK
      <3>5. PastHold(l, retention, now)
        BY <2>3, <3>2, <3>4 DEF Retains, RetainFor, Configured, PastHold
      <3> QED  BY <3>1, <3>5 DEF HistoryExact
    <2> HIDE DEF cleaned
    <2>4. /\ DOMAIN cleaned.entries = DOMAIN c
          /\ \A e \in DOMAIN c : /\ cleaned.entries[e] \subseteq c[e]
                                 /\ c[e] \ cleaned.entries[e] \subseteq overdue
      BY <2>1, <2>3
    <2>5. Faithful'
      BY <2>2, <2>4 DEF Faithful, FaithfulCopy, TypeOK
    <2>6. UniqueLabels'
      BY <2>2, <2>4 DEF UniqueLabels, Unique, TypeOK
    <2>7. TodoIsUnlabelled'
      BY <2>2 DEF TodoIsUnlabelled, ListUnretainedEntries, IsEntryRetained, Slice, TypeOK
    <2>8. (Unpublished /\ UnlabelledAtFirst)'
      BY <2>2, <2>4 DEF Unpublished, UnlabelledAtFirst, TypeOK
    <2>9. (LabelledIsThere /\ HistoryExact /\ NoLabels /\ Durable /\ ChosenIsThere)'
      BY <2>2 DEF LabelledIsThere, HistoryExact, NoLabels, Durable, ChosenIsThere, TypeOK
    <2> QED  BY <2>5, <2>6, <2>7, <2>8, <2>9
  <1>12. ASSUME NEW s \in Session, NEW e \in Entry, RemoveObject(s, e)
        PROVE  LabelInv'
    <2>1. /\ e \in DOMAIN store[s].entries /\ assigned[e] # {}
          /\ assigned[e] \subseteq overdue
          /\ outcome[e] \notin {"none", "running"}
      BY <1>12 DEF RemoveObject, TodoIsUnlabelled, Faithful, FaithfulCopy, Unpublished
    <2>2. Remove(store[s], e).entries = [d \in DOMAIN store[s].entries \ {e} |-> store[s].entries[d]]
      BY RemoveFacts DEF TypeOK
    <2>3. LabelledIsThere'
      BY <1>12, <2>1, <2>2 DEF RemoveObject, LabelledIsThere, TypeOK,
         OneAction, ActionPhase
    <2>4. TodoIsUnlabelled'
      BY <1>12, <2>1, <2>2 DEF RemoveObject, TodoIsUnlabelled, TypeOK,
         OneAction, ActionPhase
    <2>5. Durable'
      BY <1>12, <2>1, <2>2 DEF RemoveObject, Durable, TypeOK, OneAction,
         ActionPhase
    <2>6. ChosenIsThere'
      BY <1>12, <2>1, <2>2 DEF RemoveObject, ChosenIsThere, TypeOK, OneAction,
         ActionPhase
    <2>7. (/\ Faithful /\ Unpublished /\ UnlabelledAtFirst /\ HistoryExact
           /\ NoLabels /\ UniqueLabels)'
      BY <1>12, <2>1, <2>2 DEF RemoveObject, Faithful, FaithfulCopy,
         Unpublished, UnlabelledAtFirst, HistoryExact, NoLabels, UniqueLabels,
         Unique, TypeOK, OneAction, ActionPhase
    <2> QED  BY <2>3, <2>4, <2>5, <2>6, <2>7 DEF LabelInv
  <1>13. ASSUME NEW s \in Session, NEW e \in Entry, RemoveObjectFails(s, e)
        PROVE  LabelInv'
    <2>1. /\ e \in DOMAIN store[s].entries /\ assigned[e] # {}
          /\ assigned[e] \subseteq overdue
          /\ outcome[e] \notin {"none", "running"}
      BY <1>13 DEF RemoveObjectFails, TodoIsUnlabelled, Faithful, FaithfulCopy, Unpublished
    <2>2. LabelledIsThere'
      BY <1>13, <2>1, NewStoreFacts DEF RemoveObjectFails, Release,
         LabelledIsThere, TypeOK, OneAction, ActionPhase
    <2>3. Durable'
      BY <1>13, <2>1, NewStoreFacts DEF RemoveObjectFails, Release, Durable,
         TypeOK, OneAction, ActionPhase
    <2>4. ChosenIsThere'
      BY <1>13, <2>1, NewStoreFacts DEF RemoveObjectFails, Release,
         ChosenIsThere, TypeOK, OneAction, ActionPhase
    <2>5. (/\ Faithful /\ Unpublished /\ UnlabelledAtFirst /\ TodoIsUnlabelled
           /\ HistoryExact /\ NoLabels /\ UniqueLabels)'
      BY <1>13, <2>1, NewStoreFacts DEF RemoveObjectFails, Release, Faithful,
         FaithfulCopy, Unpublished, UnlabelledAtFirst, TodoIsUnlabelled,
         HistoryExact, NoLabels, UniqueLabels, Unique, TypeOK, OneAction,
         ActionPhase
    <2> QED  BY <2>2, <2>3, <2>4, <2>5 DEF LabelInv
  <1>14. ASSUME NEW s \in Session, StartStat(s)
        PROVE  LabelInv'
    <2>1. (/\ Faithful /\ Unpublished /\ UnlabelledAtFirst /\ LabelledIsThere /\ TodoIsUnlabelled /\ HistoryExact
           /\ NoLabels /\ UniqueLabels /\ Durable /\ ChosenIsThere)'
      BY <1>14 DEF StartStat, Goto, Faithful, FaithfulCopy, Unpublished,
         UnlabelledAtFirst, LabelledIsThere, TodoIsUnlabelled, HistoryExact,
         NoLabels, UniqueLabels, Unique, Durable, ChosenIsThere, TypeOK,
         OneAction, ActionPhase
    <2> QED  BY <2>1 DEF LabelInv
  <1>15. ASSUME NEW s \in Session, NEW e \in Entry, StatObject(s, e)
        PROVE  LabelInv'
    <2>1. Remove(store[s], e).entries = [d \in DOMAIN store[s].entries \ {e} |-> store[s].entries[d]]
      BY RemoveFacts DEF TypeOK
    <2>2. Faithful'
      BY <1>15, <2>1 DEF StatObject, Faithful, FaithfulCopy, TypeOK, OneAction,
         ActionPhase
    <2>3. Unpublished'
      BY <1>15, <2>1 DEF StatObject, Unpublished, TypeOK, OneAction,
         ActionPhase
    <2>4. UniqueLabels'
      BY <1>15, <2>1 DEF StatObject, UniqueLabels, Unique, TypeOK, OneAction,
         ActionPhase
    <2>5. (/\ UnlabelledAtFirst /\ LabelledIsThere /\ TodoIsUnlabelled /\ HistoryExact
           /\ NoLabels /\ Durable /\ ChosenIsThere)'
      BY <1>15, <2>1 DEF StatObject, UnlabelledAtFirst, LabelledIsThere,
         TodoIsUnlabelled, HistoryExact, NoLabels, Durable, ChosenIsThere,
         TypeOK, OneAction, ActionPhase
    <2> QED  BY <2>2, <2>3, <2>4, <2>5 DEF LabelInv
  <1>16. ASSUME NEW s \in Session, StatDone(s)
        PROVE  LabelInv'
    <2>1. (/\ Faithful /\ Unpublished /\ UnlabelledAtFirst /\ LabelledIsThere /\ TodoIsUnlabelled /\ HistoryExact
           /\ NoLabels /\ UniqueLabels /\ Durable /\ ChosenIsThere)'
      BY <1>16 DEF StatDone, Goto, Faithful, FaithfulCopy, Unpublished,
         UnlabelledAtFirst, LabelledIsThere, TodoIsUnlabelled, HistoryExact,
         NoLabels, UniqueLabels, Unique, Durable, ChosenIsThere, TypeOK,
         OneAction, ActionPhase
    <2> QED  BY <2>1 DEF LabelInv
  <1>17. ASSUME NEW s \in Session, SaveClean(s)
        PROVE  LabelInv'
    <2>1. Unpublished'
      BY <1>17, NewStoreFacts DEF SaveClean, Save, Release, Unpublished,
         TypeOK, OneAction, ActionPhase
    <2>2. (/\ Faithful /\ UnlabelledAtFirst /\ LabelledIsThere /\ TodoIsUnlabelled /\ HistoryExact
           /\ NoLabels /\ UniqueLabels /\ Durable /\ ChosenIsThere)'
      BY <1>17, NewStoreFacts DEF SaveClean, Save, Release, Faithful,
         FaithfulCopy, UnlabelledAtFirst, LabelledIsThere, TodoIsUnlabelled,
         HistoryExact, NoLabels, UniqueLabels, Unique, Durable, ChosenIsThere,
         TypeOK, OneAction, ActionPhase
    <2> QED  BY <2>1, <2>2 DEF LabelInv
  <1>18. ASSUME NEW s \in Session, NEW pit \in Time, NEW e \in Entry, FindBackup(s, pit, e)
        PROVE  LabelInv'
    <2>1. ChosenIsThere'
      BY <1>18 DEF FindBackup, FindRetainedBackupForPointInTime, Goto,
         ChosenIsThere, Faithful, FaithfulCopy, LabelledIsThere, TypeOK,
         OneAction, ActionPhase
    <2>2. (/\ Faithful /\ Unpublished /\ UnlabelledAtFirst /\ LabelledIsThere /\ TodoIsUnlabelled
           /\ HistoryExact /\ NoLabels /\ UniqueLabels /\ Durable)'
      BY <1>18 DEF FindBackup, FindRetainedBackupForPointInTime, Goto,
         Faithful, FaithfulCopy, Unpublished, UnlabelledAtFirst,
         LabelledIsThere, TodoIsUnlabelled, HistoryExact, NoLabels,
         UniqueLabels, Unique, Durable, TypeOK, OneAction, ActionPhase
    <2> QED  BY <2>1, <2>2 DEF LabelInv
  <1>19. ASSUME NEW s \in Session, FindSingle(s)
        PROVE  LabelInv'
    <2>1. ChosenIsThere'
      BY <1>19 DEF FindSingle, Goto, ChosenIsThere, NoLabels, TypeOK,
         OneAction, ActionPhase
    <2>2. (/\ Faithful /\ Unpublished /\ UnlabelledAtFirst /\ LabelledIsThere /\ TodoIsUnlabelled
           /\ HistoryExact /\ NoLabels /\ UniqueLabels /\ Durable)'
      BY <1>19 DEF FindSingle, Goto, Faithful, FaithfulCopy, Unpublished,
         UnlabelledAtFirst, LabelledIsThere, TodoIsUnlabelled, HistoryExact,
         NoLabels, UniqueLabels, Unique, Durable, TypeOK, OneAction,
         ActionPhase
    <2> QED  BY <2>1, <2>2 DEF LabelInv
  <1>20. ASSUME NEW s \in Session,
                \/ NewFails(s) \/ StatObjectFails(s) \/ SaveCleanFails(s)
                \/ \E pit \in Time : FindNothing(s, pit)
                \/ DownloadByName(s) \/ Download(s)
         PROVE  LabelInv'
    <2>1. /\ Release(s)
          /\ UNCHANGED <<now, retention, bucket, history>>
          /\ \/ UNCHANGED outcome
             \/ /\ pc[s] \in {"new", "put", "add", "save"}
                /\ outcome' = [outcome EXCEPT ![entry[s]] = "failed"]
      BY <1>20 DEF NewFails, StatObjectFails, SaveCleanFails,
         FindNothing, DownloadByName, Download, Fail
    <2> QED  BY <2>1, ReleaseKeeps
  <1>21. ASSUME NEW config \in Configs, Restart(config)
        PROVE  LabelInv'
    <2>1. HistoryExact'
      BY <1>21, NewStoreFacts DEF Restart, Observe, HistoryExact, TypeOK,
         OneAction, ActionPhase
    <2>2. Unpublished'
      BY <1>21, NewStoreFacts DEF Restart, Observe, Unpublished, TypeOK,
         OneAction, ActionPhase
    <2>3. Durable'
      BY <1>21, NewStoreFacts DEF Restart, Observe, Durable, TypeOK, OneAction,
         ActionPhase
    <2>4. (/\ Faithful /\ UnlabelledAtFirst /\ LabelledIsThere /\ TodoIsUnlabelled
           /\ NoLabels /\ UniqueLabels /\ ChosenIsThere)'
      BY <1>21, NewStoreFacts DEF Restart, Observe, Faithful, FaithfulCopy,
         UnlabelledAtFirst, LabelledIsThere, TodoIsUnlabelled, NoLabels,
         UniqueLabels, Unique, ChosenIsThere, TypeOK, OneAction, ActionPhase
    <2> QED  BY <2>1, <2>2, <2>3, <2>4 DEF LabelInv
  <1>22. ASSUME NEW e \in Entry, ExternalDelete(e)
        PROVE  LabelInv'
    <2>1. LabelledIsThere'
      BY <1>22 DEF ExternalDelete, LabelledIsThere, TypeOK, OneAction,
         ActionPhase
    <2>2. Durable'
      BY <1>22 DEF ExternalDelete, Durable, TypeOK, OneAction, ActionPhase
    <2>3. (/\ Faithful /\ Unpublished /\ UnlabelledAtFirst /\ TodoIsUnlabelled /\ HistoryExact
           /\ NoLabels /\ UniqueLabels /\ ChosenIsThere)'
      BY <1>22 DEF ExternalDelete, Faithful, FaithfulCopy, Unpublished,
         UnlabelledAtFirst, TodoIsUnlabelled, HistoryExact, NoLabels,
         UniqueLabels, Unique, ChosenIsThere, TypeOK, OneAction, ActionPhase
    <2> QED  BY <2>1, <2>2, <2>3 DEF LabelInv
  <1>23. CASE UNCHANGED vars
    BY <1>23 DEF vars, TypeOK, OneAction, Faithful, FaithfulCopy, Unpublished,
       UnlabelledAtFirst, LabelledIsThere, TodoIsUnlabelled, HistoryExact, NoLabels,
       UniqueLabels, Unique, Durable, ChosenIsThere
  <1> HIDE DEF IndInv, LabelInv, bucket, history, session
  <1> QED
    BY <1>1, <1>2, <1>3, <1>4, <1>5, <1>6, <1>7, <1>8, <1>9, <1>10, <1>11,
       <1>12, <1>13, <1>14, <1>15, <1>16, <1>17, <1>18, <1>19, <1>20, <1>21,
       <1>22, <1>23 DEF Next, Upload, CleanupBackups, Restore

(* An empty bucket and no sessions agree.                                  *)
LEMMA InitLabelInv == Init => LabelInv
  BY NewStoreFacts DEF Init, LabelInv, Faithful, FaithfulCopy, Unpublished,
     UnlabelledAtFirst, LabelledIsThere, TodoIsUnlabelled, HistoryExact,
     NoLabels, UniqueLabels, Unique, Durable, ChosenIsThere

(* IndInv is an inductive invariant of the storage.                        *)
THEOREM Inductive == Spec => []IndInv
  <1>1. Init => IndInv
    BY InitType, InitLabelInv DEF IndInv
  <1>2. IndInv /\ [Next]_vars => IndInv'
    BY NextType, NextLabelInv DEF IndInv
  <1> QED  BY <1>1, <1>2, PTL DEF Spec

(* No backup that was reported as done leaves the bucket, other than by    *)
(* somebody else's hand, before all of its labels are overdue.             *)
THEOREM DurableThm == Spec => []Durable
  <1>1. IndInv => Durable
    BY DEF IndInv, LabelInv
  <1> QED  BY <1>1, Inductive, PTL

(* What .labels lists with a label still held is in the bucket.            *)
THEOREM RestorableThm == Spec => []Restorable
  <1>1. IndInv => Restorable
    BY DEF IndInv, LabelInv, TypeOK, IsEntries, Faithful, FaithfulCopy, LabelledIsThere,
       Restorable
  <1> QED  BY <1>1, Inductive, PTL

(* What a point-in-time restore chose is there when it is fetched, unless  *)
(* all of its labels are overdue or somebody else deleted it.              *)
THEOREM ChosenThm == Spec => []ChosenIsThere
  <1>1. IndInv => ChosenIsThere
    BY DEF IndInv, LabelInv
  <1> QED  BY <1>1, Inductive, PTL

(* A label belongs to one backup, in the file and in every copy of it.     *)
THEOREM UniqueThm == Spec => []UniqueLabels
  <1>1. IndInv => UniqueLabels
    BY DEF IndInv, LabelInv
  <1> QED  BY <1>1, Inductive, PTL

-----------------------------------------------------------------------------
(* A step that leaves the objects alone and reports no success keeps the   *)
(* single target.                                                          *)
LEMMA TargetUntouched ==
  ASSUME SingleTargetKept,
         UNCHANGED <<useSingleBackupTarget, objects>>,
         lost \subseteq lost',
         \A e \in Entry : outcome'[e] = "ok" => outcome[e] = "ok"
  PROVE  SingleTargetKept'
  BY DEF SingleTargetKept

(* In single-target mode no session labels a backup, and none has a        *)
(* backup to remove: a copy lists only backups that were given labels.     *)
LEMMA SingleNeverRemoves ==
  ASSUME IndInv, useSingleBackupTarget, NEW s \in Session
  PROVE  /\ pc[s] \notin {"add", "save"}
         /\ pc[s] = "remove" => todo[s] \cap Entry = {}
  <1>1. pc[s] \notin {"add", "save"} /\ \A e \in Entry : assigned[e] = {}
    BY DEF IndInv, LabelInv, NoLabels
  <1>2. ASSUME pc[s] = "remove", NEW e \in todo[s], e \in Entry
        PROVE  FALSE
    <2>1. e \in DOMAIN store[s].entries
      BY <1>2 DEF IndInv, LabelInv, TodoIsUnlabelled
    <2>2. assigned[e] # {}
      BY <2>1 DEF IndInv, LabelInv, Faithful, FaithfulCopy
    <2> QED  BY <1>1, <1>2, <2>2
  <1> QED  BY <1>1, <1>2

(* Only uploads write a single target, and they replace it in one request. *)
LEMMA NextTarget ==
  ASSUME IndInv, SingleTargetKept, [Next]_vars
  PROVE  SingleTargetKept'
  <1> USE DEF bucket, history, session
  <1>0. UNCHANGED useSingleBackupTarget
    BY DEF Next, vars
  <1> SUFFICES ASSUME useSingleBackupTarget
               PROVE  SingleTargetKept'
    BY <1>0 DEF SingleTargetKept
  <1>1. outcome \in [Entry -> Outcome] /\ entry \in [Session -> Entry \cup {NoEntry}]
    BY DEF IndInv, TypeOK
  <1>2. CASE Tick \/ (\E config \in Configs : Restart(config)) \/ UNCHANGED vars
    BY <1>0, <1>1, <1>2, TargetUntouched DEF Tick, Restart, vars
  <1>3. ASSUME NEW e \in Entry, ExternalDelete(e)
        PROVE  SingleTargetKept'
    BY <1>3 DEF ExternalDelete, SingleTargetKept
  <1>4. ASSUME NEW s \in Session, PutObject(s) \/ PutObjectFails(s)
        PROVE  SingleTargetKept'
    <2>1. entry[s] \in Entry
      BY <1>1, <1>4 DEF PutObject, PutObjectFails, IndInv, OneAction
    <2>2. CASE objects' = {entry[s]}
      BY <2>1, <2>2 DEF SingleTargetKept
    <2>3. CASE PutObjectFails(s) /\ objects' = objects
      BY <1>0, <1>1, <2>3, TargetUntouched DEF PutObjectFails, Fail
    <2> QED  BY <1>4, <2>2, <2>3 DEF PutObject, PutObjectFails, WithObject
  <1>5. ASSUME NEW s \in Session,
               \/ StartRestore(s) \/ New(s) \/ NewFails(s)
               \/ \E e \in Entry : StartBackup(s, e)
        PROVE  SingleTargetKept'
    BY <1>0, <1>1, <1>5, TargetUntouched
       DEF StartRestore, New, NewFails, StartBackup, Release, Fail, Goto
  <1>6. ASSUME NEW s \in Session,
               \/ \E f \in Format : AddLabel(s, f)
               \/ AddReturn(s) \/ SaveLabels(s) \/ SaveLabelsFails(s)
        PROVE  SingleTargetKept'
    BY <1>6, SingleNeverRemoves DEF AddLabel, AddReturn, SaveLabels, SaveLabelsFails
  <1>7. ASSUME NEW s \in Session, CleanupBackups(s)
        PROVE  SingleTargetKept'
    <2>1. ~ \E e \in Entry : RemoveObject(s, e) \/ RemoveObjectFails(s, e)
      BY SingleNeverRemoves DEF RemoveObject, RemoveObjectFails
    <2> QED
      BY <1>0, <1>7, <2>1, TargetUntouched
         DEF CleanupBackups, CleanRetentions, StartStat, StatObject, StatObjectFails,
             StatDone, SaveClean, SaveCleanFails, Release
  <1>8. ASSUME NEW s \in Session, Restore(s)
        PROVE  SingleTargetKept'
    BY <1>0, <1>8, TargetUntouched
       DEF Restore, FindNothing, FindBackup, FindSingle, DownloadByName, Download, Release
  <1> QED  BY <1>2, <1>3, <1>4, <1>5, <1>6, <1>7, <1>8 DEF Next, Upload

(* In single-target mode a backup is there from the first success on,      *)
(* unless somebody else deletes it.                                        *)
THEOREM SingleTargetThm == Spec => []SingleTargetKept
  <1>1. Init => SingleTargetKept
    BY DEF Init, SingleTargetKept
  <1>2. IndInv /\ SingleTargetKept /\ [Next]_vars => SingleTargetKept'
    BY NextTarget
  <1> QED  BY <1>1, <1>2, Inductive, PTL DEF Spec
=============================================================================
