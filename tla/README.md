# db-backup-controller in TLA+

TLA+ models of the backup system in `src/`, checked with TLC on small instances,
with the safety properties of every modelled component proved with TLAPS for every
value of its constants.

## 1. The system

A *controller* turns a `DatabaseBackup` object into a Secret, a Service and a
StatefulSet. The StatefulSet runs one *runner* pod, which takes backups with a
database *engine*, streams them to one or more S3 *storage* locations and lets the
*label manager* decide how long each backup is kept.

| component | state | operations | interacts with |
|---|---|---|---|
| label manager, `pkg/labelmanager` | entries with their labels, index of label names | Add, CleanRetentions, Remove, GetClosestOlderBackup, Save, New | loaded and saved by the storage as the object `.labels` |
| S3 storage, `pkg/storage/s3` | the bucket; per `Storage` a copy of the labels | New, UploadFromReader, CleanupBackups, Download... | one `Storage` per backup and location; its clean-up goes on in the background |
| runner, `cmd/backup-runner` | `actionRunning`, trigger channel, goroutines, metrics | automatic backup, IPC request, backup, restore | storage, engine; a pipe between engine and upload |
| CockroachDB engine, `pkg/backupengine/cockroach` | `hdl`, the HTTP handler of the backup or restore under way; archive | CreateBackup, RestoreBackup, HTTP file system | the database calls back over HTTP |
| PostgreSQL engine, `pkg/backupengine/postgres` | none | pg_dump, psql, Unpack | writes to and reads from the stream |
| stream encryption, `pkg/cryptostream` | blocks written, a partial block | Write, Close, ReadAt | between engine and pipe, between object and engine |
| backup-unpack, `cmd/backup-unpack` | none | Unpack | reads a downloaded object |
| controller, `cmd/backup-controller` | work queue, two workers | add, update and delete handlers | Kubernetes API server |
| status conditions, `pkg/apis/v1/status.go` | conditions, hash | Init, Set, CalculateReady | written by the controller |
| resource generator, `pkg/rssgenerator` | none | FromKubernetesResources | reads storage class and secrets |

What is hard about it:

* **Concurrency.** `actionRunning` admits one backup or restore, but the clean-up
  of a backup and the goroutine feeding the pipe are not covered by it: they outlive
  the action, run next to the following ones and share `.labels`, the bucket and
  the engine's unlocked `hdl`. The controller's queue holds pointers, so both
  workers may handle the same object.
* **Failure.** Every request may fail, a failed write may have taken effect, runner
  and controller may be killed at any step, one of several locations or resources
  may fail.
* **Layout.** The archive has its index at the end of the stream, at a fixed distance;
  the cipher works on blocks; restores ask for byte ranges. Offsets of the three layers
  meet in every read.
* **Time.** Labels are names of periods; what is kept depends on the clock, on the
  configuration of the moment and on the one at the label's creation.

## 2. Modules

    RetentionStore          the methods of retentionStore as operators on a store
      LabelManager          the Manager API, one caller, running clock
        MCLabelManager
      S3Storage             sessions over one bucket (the operators of RetentionStore)
        MCS3Storage
    BackupRunner            goroutines of the runner with the CockroachDB engine
      MCBackupRunner
    CryptoStream            pkg/cryptostream as operators on a writer and an object
      CockroachArchive      archive.go as operators on a writer
        BackupFile          one backup: requests, archive, pipe, object, reads
    FileStore               what a backup's files promise; BackupFile implements it
    Controller              queue, workers and handlers for one DatabaseBackup

    RetentionStoreProofs    what each method does to a store
      LabelManagerProofs, S3StorageProofs
    BackupRunnerProofs
    CryptoStreamProofs      a reader gets what the writer was given
      BackupFileProofs      safety, and the refinement of FileStore
    ControllerProofs        any number of workers
      ControllerAloneProofs workers that do not overlap

PROJECT.json maps every definition to the lines it stands for.

**RetentionStore.** A store is a record of the `Entries` map (`entries`; slices as
sets, which nothing can tell apart as a label is never repeated), the keys with a
nil slice (`nils`) and the keys of the index (`labels`). Formatting and parsing a
time are constant operators: a name keeps only the period, and parsing yields the
start of it. A format may fail to parse. `AddEntry`, `CleanupLabels`,
`FindRetainedBackupForPointInTime`, `Remove`, `Save`, `Load` follow the methods of
the same name. The outcome of a map iteration is a set of possible results.
A clean-up judges all labels at one instant; the code asks for the time at every label,
so a clean-up that goes on past a boundary drops what the next one would have dropped.

**LabelManager.** `Add` is three actions: the call, one step per format (each reads
the clock on its own) and the return. `SaveAndNew` saves, and loads with any
configuration. History variables record when an entry was created, which labels were
offered and which were past their hold time once.

**S3Storage.** The bucket is `objects` and `labelFile`. A *session* is one `Storage`
object with its copy of the labels; `pc` is its place in New, UploadFromReader,
CleanupBackups or a download. Each request is a step with a success and a failure
action; where a failed write may have taken effect the failure action allows both.
A location is used with labels or as a single target, whichever
`useSingleBackupTarget` says; a change from one to the other is not modelled.
`NoAction` is `actionRunning`; a session in a clean-up phase does not count as an
action. `Restart` ends all sessions and may change the configuration,
`ExternalDelete` is somebody else deleting an object. The transfer of the data is one
step; what a partial transfer leaves is the store's promise that an object appears
complete or not at all.

**BackupRunner.** The ticker with its channel of one slot, the select loop, the
goroutines of `/ipc`, the owner of `actionRunning` with its place in executeBackup or
executeRestore, one pump per location of a backup and the clean-up goroutines. The
test of `hdl` and its assignment are two steps, as nothing makes them one. A pump
whose upload has failed stays until the database gives up; the write of the archive's
footer then blocks for good, which is the end of it (`PumpGone`). An upload that has got all of its
data may still fail for want of a label (`NoLabelsAdded`: the labels themselves are in
S3Storage, here it may happen to any upload). A location is
reduced to the number of backups it lists, up to `MaxStored`.

**CryptoStream.** A byte says something (`val`) and carries the set of key stream bytes
it has been XORed with (`key`), each named by passphrase and position; only a byte with
an empty `key` can be understood. So a wrong offset, a wrong passphrase or a
block encrypted twice is visible wherever it happens. `Write`, `Close` and `ReadAt` follow
the methods line by line as far as lengths and offsets go, with a block of `BlockSize`
bytes for the 16 of AES. Deriving the same key from passphrase and salt is taken
for granted.

**CockroachArchive.** `Create`, `Written`, `closeIfOpen` work on the record of an
archiveWriter. The footer is a JSON text of one byte and one more per file, padded with
zeros to `FooterPad`; `FooterFits` is where `bytes.Repeat` panics.

**BackupFile.** The database sends PUT and DELETE requests, whose bodies may break off,
and notes in `told` what it was answered. A handler holds `reqLock` throughout and is one
step. `waiting` are requests that have passed the test of `hdl` and wait for the lock:
they are served even after `backupWriter.Close` has written the footer, as nothing waits
for them. `CloseLocked`, `CopyMeta`, `WriteFooter` are `Close`, in the order of a map
iteration; `CloseDest` and `ClosePipe` are the end of executeBackup's goroutine. The
other engine's `DumpWrites` and `DumpExits` write to the same stream. `OpenBackup` reads
the object with any passphrase, as restoreForLocation and backup-unpack do; then files
are read by `ReadSection` (a full answer, Unpack, psql) or `ReadRange` (a range, with the
range's end used as a length as in reader.go:98). Reads have any buffer length
up to `MaxBuf`. `Drop` breaks a connection, `GetRange` asks for the rest; suffix ranges (`bytes=-n`) are
left out. Writes into the pipe do not fail in
the model: nobody closes its reading end, a write whose upload is gone blocks for good,
which BackupRunner has.

**FileStore.** The abstract promise: while open, files change one at a time; `Seal` fixes
all of them at once; afterwards they stay, or the whole is `Spoiled`, or the backup
has `Failed`. BackupFile implements it under the mapping of `Store`: before the footer the
files are what writer and memFS hold (`Kept`), after it what was there at that moment
(`final`), and once the pipe is closed what the footer *in the object* says (`contents`),
decrypted from the stored bytes. The history variables `final` and `contents` are only written.

**Controller.** One object, its resources, the waiting entries per kind (`queue`) and
the workers, each with its copy of what the handler read. `stale` says that the object
has changed since the copy was read, which is what the API server finds out from the
resourceVersion. An upsert is the update or patch and, after NotFound, the
creation as a second request; between them the other worker may act. The generated
content is three versions: the generation of the spec, the storage class, and the secrets
both refer to (one version for all of them), each read by a request of its own
(`UpdateFetch`, `GetStorageClass`, `Generate`), between which they may be edited; the hash
stands for the content. The generation is part of the hashed secret, so
an edited spec that is edited back has another hash; the storage class and the secrets
have no such mark. A new initial status differs from the one that is
there, as it has the time in it, unless that is of the same second (`ClaimStatus` has both).
Objects the spec refers to always exist; that they cannot be
read is covered by a failing API server. The managed fields of the object, which are in
the hashed secret too, are left out (see the hazard at secret.go:41). Queued entries above `MaxQueue` are merged.

## 3. Runs

| run | bounds | shows |
|---|---|---|
| label_manager | 2 entries, 5 instants, days of 2, 3 configurations, a format that cannot be parsed | a label is on one backup (`UniqueLabels`); each generation is kept as long as configured (`GenerationsKept`); `IndInv`, the invariant of the proofs |
| s3_overlapping | 2 backups, 2 sessions, 5 instants, 2 configurations | `Durable`, `Restorable`, `ChosenIsThere`, `UniqueLabels`; `IndInv`; `SingleTargetKept` (both modes of a location) |
| backup_file | 2 .sst files, 1 meta-file, 3 bodies of up to 2 bytes, 1 waiting request, blocks of 2, a footer for 2 files, 2 passphrases, reads of up to 3 bytes | `ToldKept`, `Readable`, `FetchedExact`, `FetchEnds`; `ImplementsFileStore`, the refinement |
| runner | 2 locations, 1 caller, 2 pumps, outages, restarts | `StatusHonest`; `HandlerOwnedUntilAbandoned`; `IndInv` |
| runner_live | 1 location, 1 caller, 2 pumps, outages | `ActionEnds`, `Recovers` |
| controller | 2 workers, 1 resource, 2 creations, an edit, outages, no restart | `HashIsCurrent`, `DeletionCompletes`; `IndInv` |
| controller_alone | 1 worker, Service and StatefulSet, 2 creations, edits of spec, storage class and secrets, a restart, outages | `NoOrphans`, `HashMeansApplied`, `ReadyMeansThere`; `DeletionCompletes` and `Converges`, after a restart too; `AloneInv`, the invariant of the proofs |
| label_manager_pit | as label_manager | violated: `ClosestIsOlder` |
| s3_lost_update | 2 backups, 2 sessions | violated: `DoneIsTracked` |
| runner_handler_shared | 1 location, 2 pumps | violated: `HandlerOwned` |
| controller_orphans | 2 workers, all three resources | violated: `NoOrphans` |
| controller_revert | 1 worker, inputs that are changed back | violated: `HashMeansApplied` |

Why the bounds are enough for the cases of interest: two sessions are one clean-up
next to one other clean-up, upload or restore, which is all that two copies of
`.labels` can do to each other, and the proofs cover any number; two days of two
seconds have a label that outlives another, a boundary between them and an expiry. Two
pumps are one left behind and one running; two locations are a first and a last one.
One resource is enough for the liveness of a deletion by two workers, two are needed
for a state between two upserts; Secret and StatefulSet both depend on the content, so
one of them stands for both, and the Service does not. Two creations let a handler of
the first object meet the second.

Blocks of two bytes with bodies of up to two and reads of up to three have every way a
file can lie across blocks and a read across both; three bodies are two files and one
repetition, or three files, one more than the footer has room for.

Deadlock is checked for the runner and the controller, which never stop. It is not
for the label manager and the storage, where clock and backup names run out, nor for
backup_file, as a dump that has been read is the end of its backup.

### The disagreements

* *label_manager_pit.* A backup of noon carries the label of its day, whose time is
  midnight; it is chosen for a restore to ten o'clock. manager.go:89-90 promises a
  backup created before that time.
* *s3_lost_update.* Backup 1 is done and its clean-up is slow. Backup 2 is uploaded,
  labelled, saved. The clean-up saves its copy without backup 2, which is in the
  bucket but listed nowhere. `Durable` holds all the same, the object is not deleted:
  it is never found for a restore to a point in time and never cleaned up.
* *runner_handler_shared.* An upload fails before its pump has got to the test of
  `hdl`; the next backup's pump tests too, both find nil. The requests of
  the database for one archive go to the other or nowhere. Only a failed
  upload gets there: `HandlerOwnedUntilAbandoned` is what holds.
* *controller_orphans.* One worker has fetched the object for an update when it is
  deleted; the other removes resources and finalizer; the first creates them again.
  With one worker at a time (`controller_alone`) this cannot happen. The program
  has `workerProcessCount = 2` and makes every entry of its queue a new pointer.
* *controller_revert.* The storage class is changed, one of the upserts fails, the
  class is changed back: the hash of the status matches, although a resource has the
  other content. Without a revert the property holds, also after failures
  (`controller_alone`, `MayRevert = FALSE`).

### What backup_file shows beyond its properties

No comment or test of the code claims these, so they are no findings:

* A request served between the footer and the end of the pipe puts its bytes behind
  the footer. The upload succeeds, and the backup cannot be opened any more: nothing in
  it, since the footer is looked for at the end. `Readable` holds except for that (`late`).
* More files than the footer has room for panic in the pump's goroutine, which ends the
  runner. No object is stored, and the next run meets the same files.
* A range `bytes=a-b` is answered with `b-a` bytes, one too few, and its chunk has `b`
  instead of `b-a` bytes, of which the HTTP server drops what exceeds the length it
  announced. The bytes that arrive are the right ones (`FetchedExact`), unless the range
  is a suffix: `bytes=-n` is parsed as from 0 to `n` (reader.go:138-140), so the answer is
  from the beginning of the file, as its Content-Range says, and not its last `n` bytes. No
  reader in the model asks for a suffix.
* With encryption an answer to `bytes=a-` may end early: the chunk is a section of
  a section, and the inner one reports the end of the file with every read that reaches
  beyond it, although the crypto-reader returned less than that. A client that asks for
  the rest again has the file in the end (`FetchEnds`).
* An archive read with a wrong passphrase is refused for its footer. A PostgreSQL dump
  has nothing to be refused for: psql gets garbage.

### Fairness

*Runner.* Goroutines that can run do; the clock advances, so the ticker sends; a
request to the storage and a statement of the database end, at the latest with an
error of the client or server. Nothing is assumed of IPC callers, outages or
clean-ups. `Recovers` has as its premise that from some time on storage and database
answer and no IPC request interferes: a caller may always be faster than the
automatic backup, which is then dropped (cmd_run.go:214). Its other premise is that
from some time on every upload gets a label (`<>[][~NoLabelsAdded]_vars`). That is so when
a retention format is finer than the interval of the backups; with a coarser one only the
first backup of a period gets a label, every further one fails although storage and database
answer, and `last_job_success` stays 0 until the period ends.
*Backup file.* A copy goes on by itself (`WF(Copy)`). The connection does not break
before every single read, and the database asks for the rest of a file again and
again without naming an end (`SF`): assumptions about network and database, which are
outside the code; without them no server could ever deliver a file. Nothing is assumed of
the requests of the backup.
*Controller.* Workers run (`wait.Until` restarts them) and the informer resyncs every
`RescanInterval`. A retry after an error is not assumed, as entries that are too old are
dropped: the resync alone must do. Premise of both liveness properties: the API server
answers from some time on (`DeletionCompletes` says that this and an object in deletion for good
do not go together).

## 4. Proofs

Every safety property that a passing run checks is a theorem, for every value of the
constants: any sets of backups, labels, sessions, locations, workers and files, any
formats and configurations, any sizes of blocks, files and reads. None of the properties
is inductive; each proof module has an invariant that is, with one lemma per action or
group of actions, and `Inductive`, `Spec => []IndInv`, from which the rest follows. TLC
checks the invariant on the run of the component before it is proved (except
BackupFile's, see there). Constants that bound counters are arbitrary numbers in the
theorems, so the bounds of the runs play no part in them; what the models leave out
(section 5) remains left out.

**RetentionStoreProofs** has no theorem of its own but what the methods do to a store:
`AddEntry` adds a label if its name is neither held nor indexed and can be parsed, and
otherwise changes no entry (`AddEntryFacts`); a clean-up only drops labels
(`CleanupFacts`), removing an entry takes only its own (`RemoveFacts`), and a load is
what was saved with an index of the names held (`LoadFacts`). `FormatAssumption`: formatting yields names, parsing integers,
hold times are natural numbers. Nothing is assumed of what a name parses to, so formats
that overlap or cannot be parsed are included.

**LabelManagerProofs**: `UniqueLabelsThm`, `GenerationsThm`. `ManagerAssumption`:
configurations map formats to hold times, the clock starts at 0. The index refuses a label
by its name alone, and never forgets one while the manager lives. A generation is kept
only if that never hits a label nobody holds, so the invariant says where every name in
the index comes from (`IndexAccounted`): a backup holds it, the caller removed the
backup, or it belongs to a label that was past its hold time. `HeldOffered` (a label that
is held was once offered and can be parsed, so clean-up drops it only when overdue),
`OverdueExact` (the history is up to date with clock and configuration) and
`LoopOver` complete it.

**S3StorageProofs**: `DurableThm`, `RestorableThm`, `ChosenThm`, `UniqueThm`, and the action
property `SingleTargetThm`. `StorageAssumption` is as `ManagerAssumption`. `Durable` fails when a
copy of the labels is missing a label that is not overdue: the clean-up working on that copy
would delete the backup. `IndInv` therefore says

* `Faithful`: a copy that lists a backup has all of its labels except overdue ones,
  and no other labels;
* `Unpublished`: until an upload is over, only its own session's copy lists the backup,
  so no stale copy can list it with some of its labels only;
* `UnlabelledAtFirst`: labels of a backup come from its own session;
* `LabelledIsThere`: labels are given after the object is stored, and it goes
  only when they are all overdue;
* `TodoIsUnlabelled`: what a removal loop has left has no labels in its copy;
* `HistoryExact`: `overdue` is up to date with clock and configuration;
* `NoLabels`: none in single-target mode;

with `TypeOK`, `OneAction` (at most one upload or restore) and the properties themselves.
What makes overlapping clean-ups harmless for existing backups is that copies differ
by whole entries or by overdue labels, never by a label still held; and `overdue`
only grows, so a configuration that is extended later does not bring labels back.
`SingleTargetKept` is inductive relative to `IndInv`: without labels no clean-up ever
removes the object (`SingleNeverRemoves`), and an upload replaces it in one request.

**BackupRunnerProofs**: `StatusHonestThm`, `HandlerThm`. `RunnerAssumption`: there is a
location, and the names of goroutines and marks differ. `FlagHasOwner`: `actionRunning` is
set exactly while somebody owns the action, with a request of the right kind.
`BackupProgress`: a backup at location *n* without an error has reached the *n-1* before,
and one that gets to the end has reached all; that is what the metric says.
`OnePump`: until an upload fails and leaves its pump behind, the only pump is the one whose
pipe is read, and `hdl` belongs to it or to the restore; so the two steps that test and
assign `hdl` have nobody between them.

**ControllerProofs**: `HashIsCurrentThm`, for any number of workers that handle the object
at once. `CopiesCurrent`: a worker's copy that is not stale has the spec and the hash of
the object. A hash is written only under the resourceVersion of the copy, so only for
that spec. `ControllerAssumption`: numbers and marks, and `Resource` is among the
three kinds the generator makes, `secret`, `service` and `sts`.

**ControllerAloneProofs**: `NoOrphansThm`, `ReadyMeansThereThm`, `HashMeansAppliedThm`, under
the premise `[]NoOverlap`: never do two workers handle the object at the same
time. It holds of a behaviour in which every handler is done before the next entry of its
object is taken. The code does not guarantee it, and without
it `NoOrphans` is false (*controller_orphans*): these theorems say that overlap
is the only way to leave orphans, not that there are none. `AloneInv` is `Guarded` (the
finalizer is there while there are resources or a handler is at work on them), `Applied`
(what the loop has upserted is in place, and the status about to be written either has
the new hash and everything is in place, or the old one and an Unknown condition),
`HashOrder` and `ReadyMeansThere`. `HashOrder`
is about the hash that a failed upsert leaves behind: contents are only ever asked for
in their order, so that hash cannot match again. That holds unless inputs are changed
back, hence the premise `~MayRevert` of `HashMeansAppliedThm`
(*controller_revert* shows what happens otherwise).

**CryptoStreamProofs**: `WriteAppends`, `CloseCompletes`, `ReadAtExact` say of the three
operators, for any block size, that a write appends its bytes to what a reader with
the passphrase will see, that closing adds the rest of the buffer, and that a read at any
offset and of any length has its slice bounds in order, returns at least one byte and
only bytes of the decrypted stream from that offset on. They rest on the key stream being
addressed by position: encrypting two pieces one after the other is encrypting their
concatenation (`XORConcat`), and any section can be decrypted by itself (`XORPart`).
`CryptoAssumption`: blocks are not empty, no passphrase is the mark for none.

**BackupFileProofs**: `ToldKeptThm`, `ReadableThm`, `FetchedExactThm`, and `Refines`,
`Spec => ImplementsFileStore`. Assumptions: `FileAssumption` (.sst files, meta-files and the
dump differ, bounds are numbers) and `ArchiveAssumption`, that the footer is at least
as long as a block (524288 and 16 bytes in the code). The latter is needed: after
`Close` the end of the footer is in the crypto-writer's buffer, and all of what a late
request pushes out must be footer. The invariant follows the data: `DestOK`
(destination and cipher), `ArchiveOK` (files follow each other, `written` is the length of
the stream), `CopyOK` (meta-files copied so far), `PostgresOK`, `ToldSoFar` (what the
database believes is what writer and memFS hold), `FlushedOK` and `SealedOK` (the stream, and
later the object, ends with the footer of exactly these files, or has bytes of a late
request where a footer is looked for), `ReadOK` (a reader's bytes are a section of the
decrypted object). `FooterFound` is what makes an object that is not an archive be
recognised: among what is written to a stream, the first byte of a footer is found only
at the beginning of a footer, and under another key it cannot be read. The refinement takes one lemma
each for the requests, the end of the backup and the reader; every step changes one
file, or seals, fails or spoils the store, or leaves it alone. Here `IndInv` is not an
invariant of a run: the footers and bytes it speaks of are any, which TLC cannot enumerate.

Only model-checked: liveness (`FetchEnds`, `ActionEnds`, `Recovers`, `DeletionCompletes`,
`Converges`), as fairness and ENABLED are out of the prover's reach, and the
violations, which are counterexamples anyway. Nothing is proved of the code of AES, JSON, the
S3 client or the API server: the models' account of them is part of every theorem's
premises.

## 5. Not modelled

The walk over secret references (one version stands for what it finds); manifests, pod
specifications and certificates, which are data; generated clients, charts, CRDs;
`ListAvailableBackups`, `DownloadToFile`, `UploadFromFile`, which the
programs do not call or which only read.
Storage class and secret informers exist in the code but are never registered.
In the modelled parts: backups within the same second (names are unique in
the model), time zones, the data races on `err` in executeBackup and between
CryptoWriteCloser.Close and a late request (taken one after the other), resource names of
different objects that coincide. Objects left by uploads that failed after the data was
stored are in the model and break no property: nothing lists or removes them. PROJECT.json
lists these among the hazards, each with the reason.

## 6. Plan

1. Done: RetentionStore, LabelManager, S3Storage, BackupRunner, Controller, CryptoStream,
   CockroachArchive, BackupFile and its refinement of FileStore.
2. Done: theorems for every safety property of the passing runs, and the refinement.
3. Next: an abstract specification of what a storage location promises over time,
   implemented by S3Storage; action properties of the runner and the controller (a
   finalizer is taken off only when the resources are gone) as theorems.
