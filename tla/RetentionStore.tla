--------------------------- MODULE RetentionStore ---------------------------
(***************************************************************************)
(* pkg/labelmanager/retentionStore.go: which labels hold which backup.     *)
(*                                                                         *)
(* The operators take a store and return the store the method leaves       *)
(* behind.  A store is a record                                            *)
(*   entries   the Entries map: its keys are the known backups, its values *)
(*             the slices of labels, here sets (a slice never repeats a    *)
(*             label and nothing depends on its order)                     *)
(*   nils      the keys whose slice is nil (as opposed to empty)           *)
(*   labels    the keys of the labels index (label name -> entry; the      *)
(*             code only asks whether a name has a value)                  *)
(* Entry and label names are opaque values, times and durations integers.  *)
(***************************************************************************)
EXTENDS Integers

CONSTANTS
  Entry,              \* backup names
  Format,             \* strftime formats a RetentionConfig may name
  Name,               \* rendered label names
  Time,               \* the instants of the clock
  Hold,               \* the durations that occur in a RetentionConfig
  FormatTime(_, _),   \* timefmt.Format(time, format): the name of a label
  ParseOK(_, _),      \* timefmt.Parse(name, format) succeeds ...
  ParseTime(_, _)     \* ... and returns this time

(* A conversion to text and back keeps only the period a time falls into:  *)
(* ParseTime(FormatTime(t, f), f) is the start of that period, not t.      *)
ASSUME FormatAssumption ==
  /\ \A t \in Time, f \in Format : FormatTime(t, f) \in Name
  /\ \A n \in Name, f \in Format : ParseOK(n, f) => ParseTime(n, f) \in Int
  /\ Time \subseteq Int
  /\ Hold \subseteq Nat

-----------------------------------------------------------------------------
(* retentionStoreEntry and the RetentionConfig map of the manager.         *)
Label == [format : Format, initialHoldTime : Hold, name : Name]

RetentionConfig == UNION {[F -> Hold] : F \in SUBSET Format}

(* The Entries map on its own, which is what a label file holds, and a     *)
(* whole store.                                                            *)
IsEntries(c) ==
  /\ DOMAIN c \subseteq Entry
  /\ c \in [DOMAIN c -> SUBSET Label]

IsStore(s) ==
  /\ DOMAIN s.entries \subseteq Entry
  /\ s.entries \in [DOMAIN s.entries -> SUBSET Label]
  /\ s.nils \subseteq {e \in DOMAIN s.entries : s.entries[e] = {}}
  /\ s.labels \subseteq Name

newRetentionStore ==
  [entries |-> [e \in {} |-> {}], nils |-> {}, labels |-> {}]

(* Indexing a Go map: a missing key yields the zero value.                 *)
Configured(retention, f) == IF f \in DOMAIN retention THEN retention[f] ELSE 0

Slice(s, e) == IF e \in DOMAIN s.entries THEN s.entries[e] ELSE {}

(* rebuildLabels indexes every label held by an entry.  It never takes a   *)
(* name out of the index.                                                  *)
Held(entries) == UNION {{l.name : l \in entries[e]} : e \in DOMAIN entries}

rebuildLabels(s) ==
  [entries |-> s.entries, nils |-> s.nils, labels |-> s.labels \cup Held(s.entries)]

(* AddEntry: refused if the name is in the rebuilt index, or if the name   *)
(* cannot be parsed back; otherwise appended (and not indexed before the   *)
(* next rebuild).                                                          *)
(* (mutant) the index is consulted as the last call left it *)
DuplicateStaleIndex(s, label) == label.name \in s.labels

(* (mutant) the whole label is compared, not its name *)
DuplicateWhole(s, label) == \E e \in DOMAIN s.entries : label \in s.entries[e]

Duplicate(s, label) == label.name \in rebuildLabels(s).labels

(* (mutant) the slice is replaced instead of appended to *)
AddEntryReplaces(s, entry, label) ==
  LET r == rebuildLabels(s) IN
  IF Duplicate(s, label) \/ ~ParseOK(label.name, label.format)
  THEN r
  ELSE [entries |-> [e \in DOMAIN s.entries \cup {entry} |->
                       IF e = entry THEN {label} ELSE s.entries[e]],
        nils    |-> s.nils \ {entry},
        labels  |-> r.labels]

(* (mutant) the name is indexed before it is parsed *)
AddEntryIndexesFirst(s, entry, label) ==
  LET r == rebuildLabels(s)
      refused == Duplicate(s, label) \/ ~ParseOK(label.name, label.format)
  IN [entries |-> [e \in DOMAIN s.entries \cup (IF refused THEN {} ELSE {entry}) |->
                     IF e = entry /\ ~refused THEN Slice(s, e) \cup {label}
                                              ELSE s.entries[e]],
      nils    |-> IF refused THEN s.nils ELSE s.nils \ {entry},
      labels  |-> r.labels \cup {label.name}]

AddEntry(s, entry, label) ==
  LET r == rebuildLabels(s) IN
  IF Duplicate(s, label) \/ ~ParseOK(label.name, label.format)
  THEN r
  ELSE [entries |-> [e \in DOMAIN s.entries \cup {entry} |->
                       IF e = entry THEN Slice(s, e) \cup {label}
                                    ELSE s.entries[e]],
        nils    |-> s.nils \ {entry},
        labels  |-> r.labels]

(* CleanupLabels: the hold time of the current configuration overrides the *)
(* one the label was created with, unless it is missing or zero.  All      *)
(* labels are judged at one instant, where the code asks for the time at   *)
(* every label.                                                            *)
(* (mutant) the configuration never overrides the initial hold time *)
RetainForInitial(label, retention) == label.initialHoldTime

RetainFor(label, retention) ==
  IF Configured(retention, label.format) > 0
  THEN Configured(retention, label.format)
  ELSE label.initialHoldTime

(* (mutant) a label is dropped at the last instant of its hold time *)
RetainsTooShort(label, retention, now) ==
  /\ ParseOK(label.name, label.format)
  /\ ~(ParseTime(label.name, label.format) + RetainFor(label, retention) <= now)

Retains(label, retention, now) ==
  /\ ParseOK(label.name, label.format)
  /\ ~(ParseTime(label.name, label.format) + RetainFor(label, retention) < now)

CleanupLabels(s, retention, now) ==
  LET kept == [e \in DOMAIN s.entries |->
                 {l \in s.entries[e] : Retains(l, retention, now)}]
  IN rebuildLabels([entries |-> kept,
                    nils    |-> {e \in DOMAIN kept : kept[e] = {}},
                    labels  |-> s.labels])

(* FindRetainedBackupForPointInTime: the entries with a label closest to,  *)
(* and not after, the point in time.  Map iteration order decides between  *)
(* them; no entry stands for the empty string.                             *)
OlderLabels(s, e, pointInTime) ==
  {l \in s.entries[e] : /\ ParseOK(l.name, l.format)
                        /\ ParseTime(l.name, l.format) <= pointInTime}

FindRetainedBackupForPointInTime(s, pointInTime) ==
  {e \in DOMAIN s.entries :
     \E l \in OlderLabels(s, e, pointInTime) :
       \A d \in DOMAIN s.entries : \A m \in OlderLabels(s, d, pointInTime) :
         ParseTime(m.name, m.format) <= ParseTime(l.name, l.format)}

IsEntryKnown(s, e) == e \in DOMAIN s.entries /\ e \notin s.nils

IsEntryRetained(s, e) == Slice(s, e) # {}

ListRetainedEntries(s) == {e \in DOMAIN s.entries : IsEntryRetained(s, e)}

ListUnretainedEntries(s) == {e \in DOMAIN s.entries : ~IsEntryRetained(s, e)}

(* (mutant) the removed key is remembered as a nil slice *)
RemoveKeepsNil(s, entry) ==
  rebuildLabels([entries |-> [e \in DOMAIN s.entries \ {entry} |-> s.entries[e]],
                 nils    |-> s.nils \cup {entry},
                 labels  |-> s.labels])

Remove(s, entry) ==
  rebuildLabels([entries |-> [e \in DOMAIN s.entries \ {entry} |-> s.entries[e]],
                 nils    |-> s.nils \ {entry},
                 labels  |-> s.labels])

(* Save writes only the exported Entries field; a nil slice is written as  *)
(* [] and read back as an empty one.  Load fills a new store and rebuilds  *)
(* the index, which therefore holds no name of a label that is gone.       *)
Save(s) == s.entries

Load(file) == rebuildLabels([entries |-> file, nils |-> {}, labels |-> {}])
=============================================================================
