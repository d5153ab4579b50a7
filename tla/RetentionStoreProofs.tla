------------------------ MODULE RetentionStoreProofs ------------------------
(***************************************************************************)
(* What the methods of retentionStore do to a well-formed store, for every *)
(* store, entry, label, configuration and instant: the facts the proofs    *)
(* about the label manager and the storage rest on.                        *)
(***************************************************************************)
EXTENDS RetentionStore, TLAPS

(* newRetentionStore() is well-formed and lists nothing.                   *)
LEMMA NewStoreFacts ==
  /\ IsStore(newRetentionStore)
  /\ DOMAIN newRetentionStore.entries = {}
  /\ IsEntries(newRetentionStore.entries)
  BY DEF IsStore, newRetentionStore, IsEntries

(* The names rebuildLabels indexes are label names.                        *)
LEMMA HeldNames ==
  ASSUME NEW c, IsEntries(c)
  PROVE  Held(c) \subseteq Name
  <1> SUFFICES ASSUME NEW e \in DOMAIN c, NEW l \in c[e]
               PROVE  l.name \in Name
    BY DEF Held
  <1>1. c[e] \subseteq Label
    BY DEF IsEntries
  <1> QED  BY <1>1 DEF Label

(* rebuildLabels touches the index only, and only adds to it.              *)
LEMMA RebuildFacts ==
  ASSUME NEW s, IsStore(s)
  PROVE  /\ IsStore(rebuildLabels(s))
         /\ rebuildLabels(s).entries = s.entries
         /\ rebuildLabels(s).nils = s.nils
         /\ rebuildLabels(s).labels = s.labels \cup Held(s.entries)
  <1> DEFINE r == rebuildLabels(s)
  <1>1. IsEntries(s.entries)
    BY DEF IsStore, IsEntries
  <1>2. r = [entries |-> s.entries, nils |-> s.nils, labels |-> s.labels \cup Held(s.entries)]
    BY DEF rebuildLabels
  <1> QED  BY <1>1, <1>2, HeldNames DEF IsStore

(* AddEntry refuses a label whose name is indexed or held or cannot be     *)
(* parsed, and appends any other to the entry's slice; in either case the  *)
(* index afterwards has the names held before.                             *)
LEMMA AddEntryFacts ==
  ASSUME NEW s, IsStore(s), NEW e \in Entry, NEW l \in Label
  PROVE  /\ IsStore(AddEntry(s, e, l))
         /\ AddEntry(s, e, l).labels = s.labels \cup Held(s.entries)
         /\ \/ /\ AddEntry(s, e, l).entries = s.entries
               /\ \/ l.name \in s.labels \cup Held(s.entries)
                  \/ ~ParseOK(l.name, l.format)
            \/ /\ ParseOK(l.name, l.format)
               /\ l.name \notin s.labels \cup Held(s.entries)
               /\ AddEntry(s, e, l).entries =
                    [d \in DOMAIN s.entries \cup {e} |->
                       IF d = e THEN Slice(s, d) \cup {l} ELSE s.entries[d]]
  <1> DEFINE r == rebuildLabels(s)
             refused == Duplicate(s, l) \/ ~ParseOK(l.name, l.format)
             grown == [d \in DOMAIN s.entries \cup {e} |->
                         IF d = e THEN Slice(s, d) \cup {l} ELSE s.entries[d]]
  <1>1. /\ IsStore(r) /\ r.entries = s.entries /\ r.nils = s.nils
        /\ r.labels = s.labels \cup Held(s.entries)
    BY RebuildFacts
  <1>2. CASE refused
    <2>1. AddEntry(s, e, l) = r
      BY <1>2 DEF AddEntry
    <2>2. l.name \in s.labels \cup Held(s.entries) \/ ~ParseOK(l.name, l.format)
      BY <1>1, <1>2 DEF Duplicate
    <2> QED  BY <1>1, <2>1, <2>2
  <1>3. CASE ~refused
    <2>1. AddEntry(s, e, l) = [entries |-> grown, nils |-> s.nils \ {e}, labels |-> r.labels]
      BY <1>1, <1>3 DEF AddEntry, IsStore
    <2>2. Slice(s, e) \subseteq Label
      BY DEF Slice, IsStore
    <2>3. grown \in [DOMAIN s.entries \cup {e} -> SUBSET Label]
      BY <2>2 DEF IsStore
    <2>4. IsStore(AddEntry(s, e, l))
      BY <1>1, <2>1, <2>3 DEF IsStore
    <2>5. l.name \notin s.labels \cup Held(s.entries) /\ ParseOK(l.name, l.format)
      BY <1>1, <1>3 DEF Duplicate
    <2> QED  BY <1>1, <2>1, <2>4, <2>5
  <1> QED  BY <1>2, <1>3

(* CleanupLabels keeps the entries, filters their slices and forgets no    *)
(* name.                                                                   *)
LEMMA CleanupFacts ==
  ASSUME NEW s, IsStore(s), NEW r, NEW t
  PROVE  /\ IsStore(CleanupLabels(s, r, t))
         /\ CleanupLabels(s, r, t).entries =
              [e \in DOMAIN s.entries |-> {l \in s.entries[e] : Retains(l, r, t)}]
         /\ CleanupLabels(s, r, t).labels =
              s.labels \cup Held(CleanupLabels(s, r, t).entries)
  <1> DEFINE kept == [e \in DOMAIN s.entries |-> {l \in s.entries[e] : Retains(l, r, t)}]
             c == [entries |-> kept, nils |-> {e \in DOMAIN kept : kept[e] = {}},
                   labels |-> s.labels]
  <1>1. c.entries = kept /\ c.labels = s.labels
    OBVIOUS
  <1>2. kept \in [DOMAIN s.entries -> SUBSET Label]
    BY DEF IsStore
  <1>3. IsStore(c)
    BY <1>2 DEF IsStore
  <1>4. CleanupLabels(s, r, t) = rebuildLabels(c)
    BY DEF CleanupLabels
  <1> HIDE DEF c
  <1>5. /\ IsStore(rebuildLabels(c))
        /\ rebuildLabels(c).entries = c.entries
        /\ rebuildLabels(c).labels = c.labels \cup Held(c.entries)
    BY <1>3, RebuildFacts
  <1> QED  BY <1>1, <1>4, <1>5

(* Remove forgets one entry, but none of its names.                        *)
LEMMA RemoveFacts ==
  ASSUME NEW s, IsStore(s), NEW e
  PROVE  /\ IsStore(Remove(s, e))
         /\ Remove(s, e).entries = [d \in DOMAIN s.entries \ {e} |-> s.entries[d]]
         /\ Remove(s, e).labels = s.labels \cup Held(Remove(s, e).entries)
  <1> DEFINE c == [entries |-> [d \in DOMAIN s.entries \ {e} |-> s.entries[d]],
                   nils |-> s.nils \ {e}, labels |-> s.labels]
  <1>1. /\ c.entries = [d \in DOMAIN s.entries \ {e} |-> s.entries[d]]
        /\ c.labels = s.labels
    OBVIOUS
  <1>2. IsStore(c)
    BY DEF IsStore
  <1>3. Remove(s, e) = rebuildLabels(c)
    BY DEF Remove
  <1> HIDE DEF c
  <1>4. /\ IsStore(rebuildLabels(c))
        /\ rebuildLabels(c).entries = c.entries
        /\ rebuildLabels(c).labels = c.labels \cup Held(c.entries)
    BY <1>2, RebuildFacts
  <1> QED  BY <1>1, <1>3, <1>4

(* Load of a saved map yields a store with just that map, and an index of  *)
(* just its names.                                                         *)
LEMMA LoadFacts ==
  ASSUME NEW c, IsEntries(c)
  PROVE  IsStore(Load(c)) /\ Load(c).entries = c /\ Load(c).labels = Held(c)
  <1> DEFINE n == [entries |-> c, nils |-> {}, labels |-> {}]
  <1>1. n.entries = c /\ n.labels = {}
    OBVIOUS
  <1>2. IsStore(n)
    BY DEF IsStore, IsEntries
  <1>3. Load(c) = rebuildLabels(n)
    BY DEF Load
  <1> HIDE DEF n
  <1>4. /\ IsStore(rebuildLabels(n)) /\ rebuildLabels(n).entries = n.entries
        /\ rebuildLabels(n).labels = n.labels \cup Held(n.entries)
    BY <1>2, RebuildFacts
  <1> QED  BY <1>1, <1>3, <1>4
(* A configured hold time is never negative: the test for one that is      *)
(* missing or zero and the comparison with zero agree.                     *)
LEMMA ConfiguredFacts ==
  ASSUME NEW r \in RetentionConfig, NEW f
  PROVE  /\ Configured(r, f) \in Nat
         /\ Configured(r, f) > 0 <=> f \in DOMAIN r /\ r[f] # 0
  <1>1. PICK F \in SUBSET Format : r \in [F -> Hold]
    BY DEF RetentionConfig
  <1>2. f \in DOMAIN r => r[f] \in Nat
    BY <1>1, FormatAssumption
  <1> QED  BY <1>2 DEF Configured
=============================================================================
