---------------------------- MODULE LabelManager ----------------------------
(***************************************************************************)
(* pkg/labelmanager/manager.go: the Manager API over one retentionStore,   *)
(* called by one goroutine while the clock runs.  Add is a loop: each      *)
(* format is its own AddEntry call and reads the clock on its own, so the  *)
(* clock may move on between two labels of one backup.                     *)
(***************************************************************************)
EXTENDS RetentionStore

CONSTANTS
  Configs,    \* the retention configurations the manager may be started with
  NoEntry     \* no Add is running

ASSUME ManagerAssumption ==
  /\ Configs \subseteq RetentionConfig
  /\ NoEntry \notin Entry
  /\ 0 \in Time

VARIABLES
  now,        \* time.Now()
  retention,  \* Manager.retention
  store,      \* Manager.store
  adding,     \* the entry an Add call is labelling, or NoEntry
  todo,       \* the formats its loop has left
  added,      \* addedLabels > 0
  created,    \* history: the time each entry's Add was called, -1 before
  offered,    \* history: every label an Add tried to assign
  overdue,    \* history: those whose hold time has passed at some instant
  released    \* history: names given up by Remove of a retained entry

vars == <<now, retention, store, adding, todo, added, created, offered,
          overdue, released>>

(* When a label has been kept long enough, said without the store: the     *)
(* configured time for its format, or its initial one, is over.            *)
PastHold(label, config, t) ==
  LET f == label.format
      h == IF f \in DOMAIN config /\ config[f] # 0 THEN config[f]
                                                   ELSE label.initialHoldTime
  IN t > ParseTime(label.name, f) + h

Observe == overdue' = overdue \cup {l \in offered' : PastHold(l, retention', now')}

Init ==
  /\ now = 0
  /\ retention \in Configs
  /\ store = newRetentionStore
  /\ adding = NoEntry
  /\ todo = {}
  /\ added = FALSE
  /\ created = [e \in Entry |-> -1]
  /\ offered = {}
  /\ overdue = {}
  /\ released = {}

-----------------------------------------------------------------------------
Tick ==
  /\ now + 1 \in Time
  /\ now' = now + 1
  /\ UNCHANGED <<retention, store, adding, todo, added, created, offered, released>>
  /\ Observe

(* Add(entryName): backup names are used once.                             *)
Add(e) ==
  /\ adding = NoEntry
  /\ created[e] = -1
  /\ adding' = e
  /\ created' = [created EXCEPT ![e] = now]
  /\ todo' = DOMAIN retention
  /\ added' = FALSE
  /\ UNCHANGED <<now, retention, store, offered, overdue, released>>

(* One iteration of Add's loop.  An error other than errDuplicateLabel     *)
(* counts as an added label.                                               *)
NewLabel(f) ==
  [format |-> f, initialHoldTime |-> retention[f], name |-> FormatTime(now, f)]

AddLabel(f) ==
  LET label == NewLabel(f) IN
  /\ adding # NoEntry
  /\ f \in todo
  /\ todo' = todo \ {f}
  /\ added' = (added \/ ~Duplicate(store, label))
  /\ store' = AddEntry(store, adding, label)
  /\ offered' = offered \cup {label}
  /\ UNCHANGED <<now, retention, adding, created, released>>
  /\ Observe

(* Add returns, nil or ErrNoLabelsAdded.                                   *)
AddReturn ==
  /\ adding # NoEntry
  /\ todo = {}
  /\ adding' = NoEntry
  /\ UNCHANGED <<now, retention, store, todo, added, created, offered, overdue, released>>

CleanRetentions ==
  /\ adding = NoEntry
  /\ store' = CleanupLabels(store, retention, now)
  /\ UNCHANGED <<now, retention, adding, todo, added, created, offered, overdue, released>>

RemoveEntry(e) ==
  /\ adding = NoEntry
  /\ e \in DOMAIN store.entries
  /\ store' = Remove(store, e)
  /\ released' = released \cup {l.name : l \in Slice(store, e)}
  /\ UNCHANGED <<now, retention, adding, todo, added, created, offered, overdue>>

(* Save, and New of the next manager from what was saved, which may be     *)
(* given another configuration.                                            *)
SaveAndNew(config) ==
  /\ adding = NoEntry
  /\ retention' = config
  /\ store' = Load(Save(store))
  /\ UNCHANGED <<now, adding, todo, added, created, offered, released>>
  /\ Observe

Next ==
  \/ Tick
  \/ \E e \in Entry : Add(e)
  \/ \E f \in Format : AddLabel(f)
  \/ AddReturn
  \/ CleanRetentions
  \/ \E e \in Entry : RemoveEntry(e)
  \/ \E config \in Configs : SaveAndNew(config)

Spec == Init /\ [][Next]_vars

-----------------------------------------------------------------------------
(* The variables keep the shapes of the Go fields, and nil slices only     *)
(* ever stand for known entries without labels.                            *)
TypeOK ==
  /\ now \in Time
  /\ retention \in Configs
  /\ IsStore(store)
  /\ adding \in Entry \cup {NoEntry}
  /\ todo \subseteq DOMAIN retention
  /\ added \in BOOLEAN
  /\ created \in [Entry -> Time \cup {-1}]
  /\ offered \subseteq Label
  /\ overdue \subseteq offered
  /\ released \subseteq Name

(* A label, identified by its name, is attached to at most one backup.     *)
UniqueLabels ==
  \A d, e \in DOMAIN store.entries :
    \A l \in store.entries[d], m \in store.entries[e] :
      l.name = m.name => d = e /\ l = m

(* manager.go:56-59, "this ensures the generations are kept for as long as *)
(* the RetentionConfig defines": whatever label an Add ever tried to       *)
(* assign, some backup holds that name until it is past its hold time or   *)
(* its backup was removed by the caller.                                   *)
GenerationsKept ==
  \A l \in offered :
    \/ ~ParseOK(l.name, l.format)
    \/ l.name \in Held(store.entries)
    \/ l.name \in released
    \/ \E m \in overdue : m.name = l.name

(* manager.go:89-90, the backup GetClosestOlderBackup retrieves was        *)
(* created before the point in time.                                       *)
ClosestIsOlder ==
  adding = NoEntry =>
    \A pit \in Time : \A e \in FindRetainedBackupForPointInTime(store, pit) :
      created[e] <= pit

(* Why it holds.  A label is refused when its name is in the index, which  *)
(* never forgets one: whatever the index knows is held, was given up by    *)
(* the caller, or was the name of a label that is past its hold time.      *)
IndexAccounted ==
  store.labels \subseteq
    Held(store.entries) \cup released \cup {m.name : m \in overdue}

(* Only labels an Add tried to assign are held, and all can be parsed.     *)
HeldOffered ==
  \A e \in DOMAIN store.entries : \A l \in store.entries[e] :
    l \in offered /\ ParseOK(l.name, l.format)

(* The history overdue is up to date.                                      *)
OverdueExact == \A l \in offered : PastHold(l, retention, now) => l \in overdue

(* Between two calls of Add its loop has nothing left to do.               *)
LoopOver == adding = NoEntry => todo = {}

(* All of it together is kept by every step.                               *)
IndInv ==
  /\ TypeOK /\ LoopOver /\ UniqueLabels /\ GenerationsKept
  /\ IndexAccounted /\ HeldOffered /\ OverdueExact
=============================================================================
