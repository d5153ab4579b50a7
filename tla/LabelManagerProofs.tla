------------------------- MODULE LabelManagerProofs -------------------------
(***************************************************************************)
(* Proofs about LabelManager, for any backups, formats and configurations, *)
(* any way to render and parse a time, and a clock of any length.          *)
(*                                                                         *)
(* The index of label names is what makes the label manager hard to reason *)
(* about: it refuses a label by a name that may be long gone.  IndInv says *)
(* where every indexed name comes from.                                    *)
(***************************************************************************)
EXTENDS LabelManager, RetentionStoreProofs

-----------------------------------------------------------------------------
(* A configuration the manager was started with names formats and gives    *)
(* them hold times.                                                        *)
LEMMA ConfigFacts ==
  ASSUME NEW config \in Configs
  PROVE  /\ config \in RetentionConfig
         /\ DOMAIN config \subseteq Format
         /\ \A f \in DOMAIN config : config[f] \in Hold
  BY ManagerAssumption DEF RetentionConfig

(* Add offers a label of a configured format under a label name.           *)
LEMMA NewLabelType ==
  ASSUME TypeOK, NEW f \in DOMAIN retention
  PROVE  NewLabel(f) \in Label
  <1>1. f \in Format /\ retention[f] \in Hold
    BY ConfigFacts DEF TypeOK
  <1>2. FormatTime(now, f) \in Name
    BY <1>1, FormatAssumption DEF TypeOK
  <1> QED  BY <1>1, <1>2 DEF NewLabel, Label

(* A name is held if a label of that name is in the slice of an entry.     *)
LEMMA HeldBy ==
  ASSUME NEW c, NEW n
  PROVE  n \in Held(c) <=> \E e \in DOMAIN c : \E l \in c[e] : l.name = n
  BY DEF Held

(* A label CleanupLabels drops, although it can be parsed, is past its     *)
(* hold time.                                                              *)
LEMMA DroppedIsPast ==
  ASSUME NEW r \in RetentionConfig, NEW t \in Time, NEW l \in Label,
         ParseOK(l.name, l.format), ~Retains(l, r, t)
  PROVE  PastHold(l, r, t)
  <1> DEFINE f == l.format
             past == ParseTime(l.name, f)
             h == IF f \in DOMAIN r /\ r[f] # 0 THEN r[f] ELSE l.initialHoldTime
  <1>1. RetainFor(l, r) = h
    BY ConfiguredFacts DEF RetainFor, Configured
  <1>2. h \in Nat
    <2>1. Configured(r, f) \in Nat /\ l.initialHoldTime \in Nat
      BY ConfiguredFacts, FormatAssumption DEF Label
    <2> QED  BY <2>1 DEF Configured
  <1>3. past \in Int /\ t \in Int
    BY FormatAssumption DEF Label
  <1>4. past + h < t
    BY <1>1 DEF Retains
  <1> HIDE DEF h
  <1>5. t > past + h
    BY <1>2, <1>3, <1>4
  <1> QED  BY <1>5 DEF PastHold, h

-----------------------------------------------------------------------------
(* The manager starts well-formed.                                         *)
LEMMA InitType == Init => TypeOK /\ LoopOver
  BY NewStoreFacts, ManagerAssumption DEF Init, TypeOK, LoopOver

(* Every step keeps the types, and what is known of the loop of Add.       *)
LEMMA NextType ==
  ASSUME TypeOK, LoopOver, [Next]_vars
  PROVE  TypeOK' /\ LoopOver'
  <1>1. CASE Tick
    BY <1>1 DEF Tick, Observe, TypeOK, LoopOver
  <1>2. ASSUME NEW e \in Entry, Add(e)
        PROVE  TypeOK' /\ LoopOver'
    BY <1>2, ManagerAssumption DEF Add, TypeOK, LoopOver
  <1>3. ASSUME NEW f \in Format, AddLabel(f)
        PROVE  TypeOK' /\ LoopOver'
    <2>1. NewLabel(f) \in Label
      BY <1>3, NewLabelType DEF AddLabel, TypeOK
    <2>2. adding \in Entry
      BY <1>3 DEF AddLabel, TypeOK
    <2>3. IsStore(store')
      BY <1>3, <2>1, <2>2, AddEntryFacts DEF AddLabel, TypeOK
    <2>4. added' \in BOOLEAN
      BY <1>3 DEF AddLabel, TypeOK, Duplicate
    <2> QED  BY <1>3, <2>1, <2>3, <2>4 DEF AddLabel, Observe, TypeOK, LoopOver
  <1>4. CASE AddReturn
    BY <1>4 DEF AddReturn, TypeOK, LoopOver
  <1>5. CASE CleanRetentions
    <2>1. IsStore(store')
      BY <1>5, CleanupFacts DEF CleanRetentions, TypeOK, LoopOver
    <2> QED  BY <1>5, <2>1 DEF CleanRetentions, TypeOK, LoopOver
  <1>6. ASSUME NEW e \in Entry, RemoveEntry(e)
        PROVE  TypeOK' /\ LoopOver'
    <2>1. IsStore(store')
      BY <1>6, RemoveFacts DEF RemoveEntry, TypeOK, LoopOver
    <2>2. {l.name : l \in Slice(store, e)} \subseteq Name
      BY DEF TypeOK, IsStore, Slice, Label
    <2> QED  BY <1>6, <2>1, <2>2 DEF RemoveEntry, TypeOK, LoopOver
  <1>7. ASSUME NEW config \in Configs, SaveAndNew(config)
        PROVE  TypeOK' /\ LoopOver'
    <2>1. IsStore(store')
      BY <1>7, LoadFacts DEF SaveAndNew, Save, TypeOK, IsStore, IsEntries
    <2>2. todo = {}
      BY <1>7 DEF SaveAndNew, LoopOver
    <2> QED  BY <1>7, <2>1, <2>2 DEF SaveAndNew, Observe, TypeOK, LoopOver
  <1>8. CASE UNCHANGED vars
    BY <1>8 DEF vars, TypeOK, LoopOver
  <1> QED  BY <1>1, <1>2, <1>3, <1>4, <1>5, <1>6, <1>7, <1>8 DEF Next

-----------------------------------------------------------------------------
(* What a step does to the entries: nothing, a new label under a name that *)
(* nobody held, or fewer labels.                                           *)
Same == store'.entries = store.entries

OneLabel ==
  \E l \in offered' :
    /\ adding \in Entry
    /\ ParseOK(l.name, l.format)
    /\ l.name \notin Held(store.entries)
    /\ store'.entries =
         [d \in DOMAIN store.entries \cup {adding} |->
            IF d = adding THEN Slice(store, d) \cup {l} ELSE store.entries[d]]

Fewer ==
  /\ DOMAIN store'.entries \subseteq DOMAIN store.entries
  /\ \A e \in DOMAIN store'.entries : store'.entries[e] \subseteq store.entries[e]

(* There is nothing else a step can do to the entries.                     *)
LEMMA EntriesChange ==
  ASSUME TypeOK, [Next]_vars
  PROVE  \/ Same
         \/ OneLabel
         \/ Fewer /\ (CleanRetentions \/ \E e \in Entry : RemoveEntry(e))
  <1>1. ASSUME NEW f \in Format, AddLabel(f)
        PROVE  Same \/ OneLabel
    <2>1. NewLabel(f) \in Label /\ adding \in Entry
      BY <1>1, NewLabelType DEF AddLabel, TypeOK
    <2>2. store' = AddEntry(store, adding, NewLabel(f)) /\ NewLabel(f) \in offered'
      BY <1>1 DEF AddLabel
    <2> DEFINE new == NewLabel(f)
    <2> HIDE DEF new
    <2>3. \/ store'.entries = store.entries
          \/ /\ ParseOK(new.name, new.format)
             /\ new.name \notin store.labels \cup Held(store.entries)
             /\ store'.entries =
                  [d \in DOMAIN store.entries \cup {adding} |->
                     IF d = adding THEN Slice(store, d) \cup {new} ELSE store.entries[d]]
      BY <2>1, <2>2, AddEntryFacts DEF TypeOK, new
    <2>4. new \in offered'
      BY <2>2 DEF new
    <2> QED  BY <2>1, <2>3, <2>4 DEF Same, OneLabel
  <1>2. ASSUME CleanRetentions
        PROVE  Fewer
    <2>1. store'.entries = [e \in DOMAIN store.entries |->
                              {l \in store.entries[e] : Retains(l, retention, now)}]
      BY <1>2, CleanupFacts DEF CleanRetentions, TypeOK
    <2> QED  BY <2>1 DEF Fewer
  <1>3. ASSUME NEW e \in Entry, RemoveEntry(e)
        PROVE  Fewer
    <2>1. store'.entries = [d \in DOMAIN store.entries \ {e} |-> store.entries[d]]
      BY <1>3, RemoveFacts DEF RemoveEntry, TypeOK
    <2> QED  BY <2>1 DEF Fewer
  <1>4. ASSUME NEW config \in Configs, SaveAndNew(config)
        PROVE  Same
    BY <1>4, LoadFacts DEF SaveAndNew, Save, TypeOK, IsStore, IsEntries, Same
  <1>5. CASE UNCHANGED store
    BY <1>5 DEF Same
  <1> QED
    BY <1>1, <1>2, <1>3, <1>4, <1>5 DEF Next, Tick, Add, AddReturn, vars

(* No two labels share a name, because a name is only given to a label     *)
(* when no entry holds it.                                                 *)
LEMMA NextUnique ==
  ASSUME TypeOK, UniqueLabels, [Next]_vars
  PROVE  UniqueLabels'
  <1>1. CASE Same
    BY <1>1 DEF Same, UniqueLabels
  <1>2. CASE Fewer
    BY <1>2 DEF Fewer, UniqueLabels
  <1>3. CASE OneLabel
    <2>1. PICK new \in offered' :
            /\ new.name \notin Held(store.entries)
            /\ store'.entries =
                 [d \in DOMAIN store.entries \cup {adding} |->
                    IF d = adding THEN Slice(store, d) \cup {new} ELSE store.entries[d]]
      BY <1>3 DEF OneLabel
    <2>2. \A e \in DOMAIN store.entries : \A l \in store.entries[e] : l.name # new.name
      BY <2>1, HeldBy
    <2> SUFFICES ASSUME NEW d \in DOMAIN store'.entries, NEW e \in DOMAIN store'.entries,
                        NEW l \in store'.entries[d], NEW m \in store'.entries[e],
                        l.name = m.name
                 PROVE  d = e /\ l = m
      BY DEF UniqueLabels
    <2>3. /\ (d = adding /\ l = new) \/ (d \in DOMAIN store.entries /\ l \in store.entries[d])
          /\ (e = adding /\ m = new) \/ (e \in DOMAIN store.entries /\ m \in store.entries[e])
      BY <2>1 DEF Slice
    <2> QED  BY <2>2, <2>3 DEF UniqueLabels
  <1> QED  BY <1>1, <1>2, <1>3, EntriesChange

(* Nothing is held that was never offered.                                 *)
LEMMA NextHeldOffered ==
  ASSUME TypeOK, HeldOffered, [Next]_vars
  PROVE  HeldOffered'
  <1>1. offered \subseteq offered'
    BY DEF Next, Tick, Add, AddLabel, AddReturn, CleanRetentions, RemoveEntry, SaveAndNew, vars
  <1>2. CASE Same
    BY <1>1, <1>2 DEF Same, HeldOffered
  <1>3. CASE Fewer
    BY <1>1, <1>3 DEF Fewer, HeldOffered
  <1>4. CASE OneLabel
    BY <1>1, <1>4 DEF OneLabel, HeldOffered, Slice
  <1> QED  BY <1>2, <1>3, <1>4, EntriesChange

(* The history of overdue labels is brought up to date whenever the clock, *)
(* the configuration or the offered labels change.                         *)
LEMMA NextOverdueExact ==
  ASSUME OverdueExact, [Next]_vars
  PROVE  OverdueExact' /\ overdue \subseteq overdue'
  <1>1. CASE Observe
    BY <1>1 DEF Observe, OverdueExact
  <1>2. CASE UNCHANGED <<now, retention, offered, overdue>>
    BY <1>2 DEF OverdueExact, PastHold
  <1> QED
    BY <1>1, <1>2
       DEF Next, Tick, Add, AddLabel, AddReturn, CleanRetentions, RemoveEntry, SaveAndNew, vars

-----------------------------------------------------------------------------
(* A name that is held before a step is held afterwards, given up by the   *)
(* caller, or the name of an overdue label.                                *)
Accounted == Held(store.entries) \cup released \cup {m.name : m \in overdue}

(* No step loses one of those names.                                       *)
LEMMA NamesStayAccounted ==
  ASSUME IndInv, [Next]_vars
  PROVE  Accounted \subseteq Accounted'
  <1>0. overdue \subseteq overdue' /\ released \subseteq released'
    BY NextOverdueExact
       DEF IndInv, Next, Tick, Add, AddLabel, AddReturn, CleanRetentions, RemoveEntry,
           SaveAndNew, vars
  <1> SUFFICES ASSUME NEW n \in Held(store.entries)
               PROVE  n \in Accounted'
    BY <1>0 DEF Accounted
  <1>1. PICK e \in DOMAIN store.entries : \E l \in store.entries[e] : l.name = n
    BY HeldBy
  <1>2. PICK l \in store.entries[e] : l.name = n
    BY <1>1
  <1>3. CASE Same \/ OneLabel
    <2>1. e \in DOMAIN store'.entries /\ l \in store'.entries[e]
      BY <1>3 DEF Same, OneLabel, Slice
    <2> QED  BY <1>2, <2>1, HeldBy DEF Accounted
  <1>4. CASE CleanRetentions
    <2>1. store'.entries = [d \in DOMAIN store.entries |->
                              {m \in store.entries[d] : Retains(m, retention, now)}]
      BY <1>4, CleanupFacts DEF CleanRetentions, IndInv, TypeOK
    <2>2. CASE Retains(l, retention, now)
      BY <1>2, <2>1, <2>2, HeldBy DEF Accounted
    <2>3. CASE ~Retains(l, retention, now)
      <3>1. l \in offered /\ ParseOK(l.name, l.format) /\ l \in Label
        BY DEF IndInv, HeldOffered, TypeOK
      <3>2. PastHold(l, retention, now)
        BY <2>3, <3>1, DroppedIsPast, ConfigFacts DEF IndInv, TypeOK
      <3>3. l \in overdue
        BY <3>1, <3>2 DEF IndInv, OverdueExact
      <3> QED  BY <1>0, <1>2, <3>3 DEF Accounted
    <2> QED  BY <2>2, <2>3
  <1>5. ASSUME NEW d \in Entry, RemoveEntry(d)
        PROVE  n \in Accounted'
    <2>1. store'.entries = [c \in DOMAIN store.entries \ {d} |-> store.entries[c]]
      BY <1>5, RemoveFacts DEF RemoveEntry, IndInv, TypeOK
    <2>2. CASE e = d
      BY <1>2, <1>5, <2>2 DEF RemoveEntry, Slice, Accounted
    <2>3. CASE e # d
      BY <1>2, <2>1, <2>3, HeldBy DEF Accounted
    <2> QED  BY <2>2, <2>3
  <1>6. CleanRetentions \/ (\E d \in Entry : RemoveEntry(d)) \/ Same \/ OneLabel
    BY EntriesChange DEF IndInv
  <1> QED  BY <1>3, <1>4, <1>5, <1>6

(* The index only ever gains names that are held.                          *)
LEMMA NextIndexAccounted ==
  ASSUME IndInv, [Next]_vars
  PROVE  IndexAccounted'
  <1>1. Accounted \subseteq Accounted'
    BY NamesStayAccounted
  <1>2. store.labels \cup Held(store.entries) \subseteq Accounted
    BY DEF IndInv, IndexAccounted, Accounted
  <1>3. Held(store'.entries) \subseteq Accounted'
    BY DEF Accounted
  <1>4. store'.labels \subseteq store.labels \cup Held(store.entries) \cup Held(store'.entries)
    <2>1. ASSUME NEW f \in Format, AddLabel(f)
          PROVE  store'.labels = store.labels \cup Held(store.entries)
      <3>1. NewLabel(f) \in Label /\ adding \in Entry
        BY <2>1, NewLabelType DEF AddLabel, IndInv, TypeOK
      <3> QED  BY <2>1, <3>1, AddEntryFacts DEF AddLabel, IndInv, TypeOK
    <2>2. ASSUME CleanRetentions
          PROVE  store'.labels = store.labels \cup Held(store'.entries)
      BY <2>2, CleanupFacts DEF CleanRetentions, IndInv, TypeOK
    <2>3. ASSUME NEW e \in Entry, RemoveEntry(e)
          PROVE  store'.labels = store.labels \cup Held(store'.entries)
      BY <2>3, RemoveFacts DEF RemoveEntry, IndInv, TypeOK
    <2>4. ASSUME NEW config \in Configs, SaveAndNew(config)
          PROVE  store'.labels = Held(store'.entries)
      BY <2>4, LoadFacts DEF SaveAndNew, Save, IndInv, TypeOK, IsStore, IsEntries
    <2>5. CASE UNCHANGED store
      BY <2>5
    <2> QED
      BY <2>1, <2>2, <2>3, <2>4, <2>5 DEF Next, Tick, Add, AddReturn, vars
  <1> QED  BY <1>1, <1>2, <1>3, <1>4 DEF IndexAccounted, Accounted

(* A generation that is refused is held, given up or overdue, since its    *)
(* name is in the index; and it stays that.                                *)
LEMMA NextGenerations ==
  ASSUME IndInv, [Next]_vars
  PROVE  GenerationsKept'
  <1>1. Accounted \subseteq Accounted'
    BY NamesStayAccounted
  <1>2. \A l \in offered : ParseOK(l.name, l.format) => l.name \in Accounted'
    BY <1>1 DEF IndInv, GenerationsKept, Accounted
  <1>3. ASSUME NEW f \in Format, AddLabel(f), ParseOK(NewLabel(f).name, NewLabel(f).format)
        PROVE  NewLabel(f).name \in Accounted'
    <2> DEFINE new == NewLabel(f)
    <2>1. new \in Label /\ adding \in Entry
      BY <1>3, NewLabelType DEF AddLabel, IndInv, TypeOK
    <2>2. store' = AddEntry(store, adding, new)
      BY <1>3 DEF AddLabel
    <2>3. ParseOK(new.name, new.format)
      BY <1>3
    <2> SUFFICES new.name \in Accounted'
      OBVIOUS
    <2> HIDE DEF new
    <2>4. CASE new.name \in store.labels \cup Held(store.entries)
      <3>1. store.labels \cup Held(store.entries) \subseteq Accounted
        BY DEF IndInv, IndexAccounted, Accounted
      <3> QED  BY <1>1, <2>4, <3>1
    <2>5. CASE new.name \notin store.labels \cup Held(store.entries)
      <3>1. store'.entries =
              [d \in DOMAIN store.entries \cup {adding} |->
                 IF d = adding THEN Slice(store, d) \cup {new} ELSE store.entries[d]]
        BY <2>1, <2>2, <2>3, <2>5, AddEntryFacts DEF IndInv, TypeOK
      <3>2. adding \in DOMAIN store'.entries /\ new \in store'.entries[adding]
        BY <3>1
      <3>3. new.name \in Held(store'.entries)
        BY <3>2, HeldBy
      <3> QED  BY <3>3 DEF Accounted
    <2> QED  BY <2>4, <2>5
  <1>4. \A l \in offered' : l \in offered \/ \E f \in Format : AddLabel(f) /\ l = NewLabel(f)
    BY DEF Next, Tick, Add, AddLabel, AddReturn, CleanRetentions, RemoveEntry, SaveAndNew, vars
  <1>5. \A l \in offered' : ParseOK(l.name, l.format) => l.name \in Accounted'
    BY <1>2, <1>3, <1>4
  <1> QED  BY <1>5 DEF GenerationsKept, Accounted

-----------------------------------------------------------------------------
(* IndInv is inductive: together with the labels that are held it keeps    *)
(* account of every name the index knows.                                  *)
THEOREM Inductive == Spec => []IndInv
  <1>1. Init => IndInv
    <2> SUFFICES ASSUME Init
                 PROVE  IndInv
      OBVIOUS
    <2>1. store.entries = [e \in {} |-> {}] /\ store.labels = {} /\ offered = {}
      BY DEF Init, newRetentionStore
    <2> QED
      BY <2>1, InitType DEF IndInv, UniqueLabels, GenerationsKept, IndexAccounted,
                            HeldOffered, OverdueExact
  <1>2. IndInv /\ [Next]_vars => IndInv'
    BY NextType, NextUnique, NextHeldOffered, NextOverdueExact, NextIndexAccounted,
       NextGenerations DEF IndInv
  <1> QED  BY <1>1, <1>2, PTL DEF Spec

(* The variables keep the shapes of the Go fields.                         *)
THEOREM TypeCorrect == Spec => []TypeOK
  <1>1. IndInv => TypeOK
    BY DEF IndInv
  <1> QED  BY <1>1, Inductive, PTL

(* No label name is ever attached to two backups, whatever the manager     *)
(* forgets, removes or is configured to.                                   *)
THEOREM UniqueLabelsThm == Spec => []UniqueLabels
  <1>1. IndInv => UniqueLabels
    BY DEF IndInv
  <1> QED  BY <1>1, Inductive, PTL

(* Every generation the configuration asks for is kept for its hold time   *)
(* or until the caller removes its backup.                                 *)
THEOREM GenerationsThm == Spec => []GenerationsKept
  <1>1. IndInv => GenerationsKept
    BY DEF IndInv
  <1> QED  BY <1>1, Inductive, PTL
=============================================================================
