----------------------------- MODULE BackupFile -----------------------------
(***************************************************************************)
(* The life of one backup file, from the engine that writes it to the      *)
(* restore or backup-unpack that reads it.                                 *)
(*                                                                         *)
(*   CockroachDB   the database PUTs, GETs and DELETEs files by HTTP while *)
(*                 a BACKUP statement runs (writer.go); .sst files go to   *)
(*                 the archive at once, meta-files stay in memory until    *)
(*                 backupWriter.Close.  For a restore it GETs files or     *)
(*                 ranges of them (reader.go).                             *)
(*   PostgreSQL    pg_dump writes the stream, psql reads it.               *)
(*                                                                         *)
(* Both write through executeBackup's goroutine into a pipe, encrypted if  *)
(* the location has a passphrase.  A handler holds reqLock from start to   *)
(* end and is one step; whatever fails in it fails at some byte of the     *)
(* body.  A request that has passed the test of hdl is served even if the  *)
(* statement has ended since.                                              *)
(***************************************************************************)
EXTENDS CockroachArchive

CONSTANTS
  SST, Meta,   \* names the database uses: "*.sst"; "BACKUP*", "progress/BACKUP*"
  Dump,        \* the output of pg_dump
  Missing,     \* no such file
  Unknown,     \* the database does not know what became of a file
  MaxBody,     \* bound: bytes in a body
  MaxPuts,     \* bound: bodies sent
  MaxWaiting,  \* bound: requests that wait for reqLock
  MaxBuf       \* bound: the buffer of a read

Name == SST \cup Meta \cup {Dump}

ASSUME FileAssumption ==
  /\ SST \cap Meta = {}
  /\ Dump \notin SST \cup Meta
  /\ NoFile \notin Name
  /\ {MaxBody, MaxPuts, MaxWaiting, MaxBuf} \subseteq Nat
  /\ MaxBuf > 0

VARIABLES
  engine,    \* spec.databaseType
  pass,      \* the location's EncryptionPass when the backup is taken
  phase,     \* how far the backup and its restore are
  result,    \* what the engine's statement or command returned
  dest,      \* backupDest: the pipe, with the CryptoWriteCloser in front
  aw,        \* backupWriter.aw
  memFS,     \* backupWriter.memFS
  todo,      \* the meta-files Close has left
  waiting,   \* requests that wait for reqLock
  puts,      \* bodies sent so far
  told,      \* history: what the database was told about its files
  final,     \* history: the files when the backup was closed
  contents,  \* history: the files in the stored object
  late,      \* history: bytes were written after the footer
  readPass,  \* the passphrase of whoever reads the backup
  index,     \* archiveReader.footer
  file,      \* the file that is read; NoFile is the footer
  section,   \* where it is
  how,       \* "local" copy, "full" answer, "range"
  from, to,  \* the range; -1 is the end of the file
  got        \* what the reader has of the file

writer == <<dest, aw, memFS, todo, waiting, puts>>
history == <<told, final, contents, late>>
request == <<file, section, how, from, to, got>>
reader == <<readPass, index, request>>
vars == <<engine, pass, phase, result, writer, history, reader>>

(* backupDest: w itself or a crypto-writer on top of it.                   *)
NewDest(p) ==
  IF p = NoPass
  THEN [pass |-> NoPass, out |-> <<>>, buf |-> <<>>, blocksWritten |-> 0]
  ELSE NewWriter(p)

WriteTo(d, p) ==
  IF p = <<>> THEN d
  ELSE IF d.pass = NoPass THEN [d EXCEPT !.out = @ \o p] ELSE Write(d, p)

Init ==
  /\ engine \in {"cockroach", "postgres"}
  /\ pass \in Pass \cup {NoPass}
  /\ phase = "exec"
  /\ result = "ok"
  /\ dest = NewDest(pass)
  /\ aw = newArchiveWriter
  /\ memFS = <<>>
  /\ todo = {}
  /\ waiting = 0
  /\ puts = 0
  /\ told = [n \in Name |-> Missing]
  /\ final = [n \in Name |-> Missing]
  /\ contents = [intact |-> FALSE, files |-> final]
  /\ late = FALSE
  /\ readPass = NoPass
  /\ index = <<>>
  /\ file = NoFile
  /\ section = [start |-> 0, size |-> 0]
  /\ how = "local"
  /\ from = 0
  /\ to = -1
  /\ got = <<>>

-----------------------------------------------------------------------------
(* The files as the writer has them.                                       *)
Stream(d) ==
  IF d.pass = NoPass THEN d.out
  ELSE XORKeyStreamAt(SubSeq(d.out, BlockSize + 1, Len(d.out)), d.pass, 0) \o d.buf

Part(stream, info) == SubSeq(stream, info.start + 1, info.start + info.size)

Kept ==
  [n \in Name |->
     IF n \in DOMAIN memFS THEN memFS[n]
     ELSE IF n \in SST /\ Exists(aw, n)
          THEN Part(Stream(dest), closeIfOpen(aw).footer[n])
     ELSE IF n = Dump /\ engine = "postgres" THEN Stream(dest)
     ELSE Missing]

(* The body of the next request, and what a complete or incomplete one     *)
(* lets the database believe.  Nobody listens after the statement's end.   *)
Body(n, len) == [i \in 1 .. len |-> Plain(<<"file", n, puts, i>>)]

Running == phase \in {"exec", "close"}

Tell(n, what) ==
  told' = IF Running THEN [told EXCEPT ![n] = what] ELSE told

(* handleCRDBCommunication: hdl is set as long as the statement runs.      *)
Arrive ==
  /\ engine = "cockroach"
  /\ phase = "exec"
  /\ waiting < MaxWaiting
  /\ waiting' = waiting + 1
  /\ UNCHANGED <<engine, pass, phase, result, dest, aw, memFS, todo, puts,
                 history, reader>>

(* A request gets reqLock, which Close has not got or has given back.      *)
Served ==
  /\ waiting > 0
  /\ phase \in {"exec", "close", "flushed", "sealed"}
  /\ waiting' = waiting - 1

(* PUT of an .sst file, of whose len bytes n arrive.                       *)
PutSST(name, len, n) ==
  /\ Served
  /\ puts < MaxPuts
  /\ puts' = puts + 1
  /\ IF Exists(aw, name)
     THEN /\ aw' = Create(aw, name)
          /\ UNCHANGED <<dest, told, late>>
     ELSE /\ aw' = Written(Create(aw, name), n)
          /\ dest' = WriteTo(dest, Body(name, n))
          /\ Tell(name, IF n = len THEN Body(name, len) ELSE Unknown)
          /\ late' = (late \/ (~Running /\ n > 0))
  /\ UNCHANGED <<engine, pass, phase, result, memFS, todo, final, contents, reader>>

(* PUT of a meta-file: memFS is replaced by whatever has arrived.          *)
PutMeta(name, len, n) ==
  /\ Served
  /\ puts < MaxPuts
  /\ puts' = puts + 1
  /\ memFS' = [m \in DOMAIN memFS \cup {name} |->
                 IF m = name THEN Body(name, n) ELSE memFS[m]]
  /\ Tell(name, IF n = len THEN Body(name, len) ELSE Unknown)
  /\ UNCHANGED <<engine, pass, phase, result, dest, aw, todo, final, contents, late, reader>>

(* (mutant) the file is not forgotten *)
ForgottenNever(name) == memFS

Forgotten(name) == [m \in DOMAIN memFS \ {name} |-> memFS[m]]

DeleteMeta(name) ==
  /\ Served
  /\ memFS' = Forgotten(name)
  /\ Tell(name, Missing)
  /\ UNCHANGED <<engine, pass, phase, result, dest, aw, todo, puts, final, contents, late,
                 reader>>

(* GET of a meta-file, any other method, any other name: nothing changes.  *)
ServeOther ==
  /\ Served
  /\ UNCHANGED <<engine, pass, phase, result, dest, aw, memFS, todo, puts, history,
                 reader>>

-----------------------------------------------------------------------------
(* BACKUP DATABASE ends and hdl is reset; backupWriter.Close, deferred     *)
(* earlier and executed later, gets reqLock ...                            *)
StatementEnds(r) ==
  /\ engine = "cockroach"
  /\ phase = "exec"
  /\ phase' = "close"
  /\ result' = r
  /\ UNCHANGED <<engine, pass, writer, history, reader>>

CloseLocked ==
  /\ phase = "close"
  /\ phase' = "copy"
  /\ todo' = DOMAIN memFS
  /\ UNCHANGED <<engine, pass, result, dest, aw, memFS, waiting, puts, history, reader>>

(* ... copies the meta-files into the archive, in any order, ...           *)
CopyMeta(name) ==
  /\ phase = "copy"
  /\ name \in todo
  /\ todo' = todo \ {name}
  /\ aw' = Written(Create(aw, name), Len(memFS[name]))
  /\ dest' = WriteTo(dest, memFS[name])
  /\ UNCHANGED <<engine, pass, phase, result, memFS, waiting, puts, history, reader>>

(* ... and closes the archive.  A panic ends the process.                  *)
WriteFooter ==
  /\ phase = "copy"
  /\ todo = {}
  /\ final' = Kept
  /\ aw' = closeIfOpen(aw)
  /\ IF FooterFits(aw.footer)
     THEN dest' = WriteTo(dest, FooterOf(aw)) /\ phase' = "flushed"
     ELSE phase' = "panicked" /\ UNCHANGED dest
  /\ UNCHANGED <<engine, pass, result, memFS, todo, waiting, puts, told, contents, late, reader>>

(* pg_dump writes and exits.                                               *)
DumpWrites(n) ==
  /\ engine = "postgres"
  /\ phase = "exec"
  /\ puts < MaxPuts
  /\ puts' = puts + 1
  /\ dest' = WriteTo(dest, Body(Dump, n))
  /\ UNCHANGED <<engine, pass, phase, result, aw, memFS, todo, waiting, history, reader>>

DumpExits(r) ==
  /\ engine = "postgres"
  /\ phase = "exec"
  /\ result' = r
  /\ phase' = "flushed"
  /\ final' = Kept
  /\ UNCHANGED <<engine, pass, writer, told, contents, late, reader>>

(* The goroutine of executeBackup: an error goes into the pipe and fails   *)
(* the upload; otherwise the crypto-writer is closed, if there is one, and *)
(* then the pipe, which ends the object.                                   *)
CloseDest ==
  /\ phase = "flushed"
  /\ IF result = "ok"
     THEN /\ phase' = "sealed"
          /\ dest' = IF pass = NoPass THEN dest ELSE Close(dest)
     ELSE phase' = "failed" /\ UNCHANGED dest
  /\ UNCHANGED <<engine, pass, result, aw, memFS, todo, waiting, puts, history, reader>>

(* The files in the stored object, as a reader with the right passphrase   *)
(* finds them.                                                             *)
Contents ==
  LET stream == Stream([dest EXCEPT !.buf = <<>>])
      raw == SubSeq(stream, Len(stream) - FooterPad + 1, Len(stream))
      footer == IF engine = "postgres"
                THEN [n \in {Dump} |-> [start |-> 0, size |-> Len(stream)]]
                ELSE IF IsFooter(raw) THEN DecodeFrom(raw)
                ELSE <<>>
  IN [intact |-> engine = "postgres" \/ IsFooter(raw),
      files |-> [n \in Name |->
                   IF n \in DOMAIN footer THEN Part(stream, footer[n]) ELSE Missing]]

ClosePipe ==
  /\ phase = "sealed"
  /\ phase' = "stored"
  /\ contents' = Contents
  /\ UNCHANGED <<engine, pass, result, writer, told, final, late, reader>>

-----------------------------------------------------------------------------
(* Reading the object, with or without decryption.                         *)
object == dest.out

Size(p) == IF p = NoPass THEN Len(object) ELSE Len(object) - BlockSize

SourceReadAt(len, off) ==
  IF readPass = NoPass THEN ObjectReadAt(object, len, off)
                       ELSE ReadAt(object, readPass, len, off)

SourcePanics(len, off) ==
  readPass # NoPass /\ ReadAtPanics(object, readPass, len, off)

Reads(name, info, mode) ==
  /\ file' = name
  /\ section' = info
  /\ how' = mode
  /\ from' = 0
  /\ to' = -1
  /\ got' = <<>>

(* restoreForLocation or backup-unpack, with the passphrase it was given;  *)
(* psql gets the whole stream, an archive is opened by reading its footer. *)
OpenBackup(p) ==
  /\ phase = "stored"
  /\ readPass' = p
  /\ IF \/ p # NoPass /\ ~HeaderOK(object)
        \/ engine = "cockroach" /\ Size(p) < FooterPad
     THEN phase' = "unreadable" /\ UNCHANGED request
     ELSE /\ phase' = "read"
          /\ IF engine = "postgres"
             THEN Reads(Dump, [start |-> 0, size |-> Size(p)], "local")
             ELSE Reads(NoFile, [start |-> Size(p) - FooterPad, size |-> FooterPad],
                        "local")
  /\ UNCHANGED <<engine, pass, result, writer, history, index>>

(* GET of a file of the archive; Unpack copies it.                         *)
GetFile(name, mode) ==
  /\ phase = "ready"
  /\ name \in DOMAIN index
  /\ Reads(name, index[name], mode)
  /\ phase' = "read"
  /\ UNCHANGED <<engine, pass, result, writer, history, readPass, index>>

(* One Read of the SectionReader that archiveReader.Open returns.          *)
ReadSection(len) ==
  LET pos == Len(got)
      n == Lesser(len, section.size - pos)
  IN
  /\ phase = "read"
  /\ how # "range"
  /\ pos < section.size
  /\ IF SourcePanics(n, section.start + pos)
     THEN phase' = "panicked" /\ UNCHANGED got
     ELSE got' = got \o SourceReadAt(n, section.start + pos) /\ UNCHANGED phase
  /\ UNCHANGED <<engine, pass, result, writer, history, readPass, index,
                 file, section, how, from, to>>

(* Its end: the footer is decoded, a file is complete.                     *)
EndOfSection ==
  /\ phase = "read"
  /\ how # "range"
  /\ Len(got) >= section.size
  /\ IF file # NoFile THEN phase' = "done" /\ UNCHANGED index
     ELSE IF IsFooter(got) THEN phase' = "ready" /\ index' = DecodeFrom(got)
     ELSE phase' = "unreadable" /\ UNCHANGED index
  /\ UNCHANGED <<engine, pass, result, writer, history, readPass, request>>

(* An answer is over: the database has the file or notices that a part is  *)
(* missing.                                                                *)
AnswerOver(g) == phase' = IF Len(g) = section.size THEN "done" ELSE "cut"

(* One Read of a range: the chunk is a section of "end" bytes (not up to   *)
(* "end") of the file's section, which reports the end of the file with    *)
(* whatever its last read returned.  net/http refuses a write beyond the   *)
(* announced Content-Length, or the client does not look at the rest.      *)
RangeEnd == IF to = -1 THEN section.size ELSE to

ReadRange(len) ==
  LET pos == Len(got)
      n == Lesser(len, from + RangeEnd - pos)
      data == SourceReadAt(Lesser(n, section.size - pos), section.start + pos)
      all == got \o data
  IN
  /\ phase = "read"
  /\ how = "range"
  /\ IF pos >= Lesser(from + RangeEnd, section.size)
     THEN AnswerOver(got) /\ UNCHANGED got
     ELSE IF SourcePanics(Lesser(n, section.size - pos), section.start + pos)
     THEN phase' = "panicked" /\ UNCHANGED got
     ELSE IF Len(all) > RangeEnd
     THEN /\ got' \in {got, SubSeq(all, 1, RangeEnd)}
          /\ AnswerOver(got')
     ELSE /\ got' = all
          /\ IF n > section.size - pos THEN AnswerOver(all) ELSE UNCHANGED phase
  /\ UNCHANGED <<engine, pass, result, writer, history, readPass, index,
                 file, section, how, from, to>>

(* The connection breaks; the database asks for what is missing, usually   *)
(* without naming an end.  (The last n bytes, bytes=-n, are never what is  *)
(* missing and are not asked for; reader.go:138-140 takes their request    *)
(* for one from 0 to n, which is GetRange(n) of an empty got.)             *)
Drop ==
  /\ phase = "read"
  /\ how # "local"
  /\ phase' = "cut"
  /\ UNCHANGED <<engine, pass, result, writer, history, reader>>

GetRange(end) ==
  /\ phase = "cut"
  /\ from' = Len(got)
  /\ to' = end
  /\ how' = IF Len(got) = 0 /\ end = -1 THEN "full" ELSE "range"
  /\ phase' = "read"
  /\ UNCHANGED <<engine, pass, result, writer, history, readPass, index,
                 file, section, got>>

NextFile ==
  /\ phase = "done"
  /\ engine = "cockroach"
  /\ phase' = "ready"
  /\ Reads(NoFile, [start |-> 0, size |-> 0], "local")
  /\ UNCHANGED <<engine, pass, result, writer, history, readPass, index>>

-----------------------------------------------------------------------------
ServeHTTP ==
  \/ \E len \in 0 .. MaxBody : \E n \in 0 .. len :
       \/ \E name \in SST : PutSST(name, len, n)
       \/ \E name \in Meta : PutMeta(name, len, n)
  \/ \E name \in Meta : DeleteMeta(name)
  \/ ServeOther

CloseBackup ==
  \/ CloseLocked
  \/ \E name \in Meta : CopyMeta(name)
  \/ WriteFooter
  \/ CloseDest
  \/ ClosePipe

Read == \E len \in 1 .. MaxBuf : ReadSection(len) \/ ReadRange(len)

Copy == Read \/ EndOfSection

Next ==
  \/ Arrive
  \/ ServeHTTP
  \/ \E r \in {"ok", "err"} : StatementEnds(r) \/ DumpExits(r)
  \/ \E n \in 1 .. MaxBody : DumpWrites(n)
  \/ CloseBackup
  \/ \E p \in Pass \cup {NoPass} : OpenBackup(p)
  \/ \E name \in SST \cup Meta, mode \in {"local", "full"} : GetFile(name, mode)
  \/ Copy
  \/ Drop
  \/ \E end \in {-1} \cup (Len(got) .. section.size + 1) : GetRange(end)
  \/ NextFile

Spec == Init /\ [][Next]_vars

(* A copy goes on by itself.  The connection does not break every time,    *)
(* and the database asks for the rest of a file again and again.           *)
Fairness ==
  /\ WF_vars(Copy)
  /\ SF_vars(to = -1 /\ Copy)
  /\ SF_vars(GetRange(-1))

FairSpec == Spec /\ Fairness

-----------------------------------------------------------------------------
(* Offsets and sizes are never negative, the archive has no file twice,    *)
(* and every part of the state has the shape of the field it stands for.   *)
TypeOK ==
  /\ engine \in {"cockroach", "postgres"}
  /\ {pass, readPass} \subseteq Pass \cup {NoPass}
  /\ phase \in {"exec", "close", "copy", "flushed", "sealed", "stored", "read", "cut",
                "ready", "done", "unreadable", "failed", "panicked"}
  /\ result \in {"ok", "err"}
  /\ dest.blocksWritten \in Nat
  /\ phase \in {"exec", "close", "copy", "flushed"} => Len(dest.buf) < BlockSize
  /\ aw.written \in Nat
  /\ aw.openFile \in SST \cup Meta \cup {NoFile}
  /\ DOMAIN aw.footer \subseteq SST \cup Meta
  /\ \A n \in DOMAIN aw.footer :
       aw.footer[n].start \in Nat /\ aw.footer[n].size \in Nat
  /\ DOMAIN memFS \subseteq Meta
  /\ todo \subseteq Meta
  /\ waiting \in 0 .. MaxWaiting
  /\ puts \in 0 .. MaxPuts
  /\ DOMAIN told = Name /\ DOMAIN final = Name
  /\ late \in BOOLEAN
  /\ DOMAIN index \subseteq SST \cup Meta
  /\ file \in Name \cup {NoFile}
  /\ section.start \in Nat /\ section.size \in Nat
  /\ how \in {"local", "full", "range"}
  /\ from \in Nat /\ to \in Nat \cup {-1}
  /\ Len(got) <= section.size

-----------------------------------------------------------------------------
(* When the archive is closed it has every file as the database was last   *)
(* told it has it: an acknowledged upload is complete, an acknowledged     *)
(* removal holds, and a repeated .sst upload that is refused (ErrExist)    *)
(* has not damaged the first one (writer.go, archiveWriter.Create).        *)
ToldKept ==
  engine = "cockroach" /\ phase \notin {"exec", "close", "copy"} =>
    \A n \in SST \cup Meta : told[n] # Unknown => final[n] = told[n]

(* A backup whose upload succeeded can be opened by whoever has the right  *)
(* passphrase, unless a request that was still waiting for reqLock wrote   *)
(* behind the footer (crdb.go resets hdl, but does not wait for handlers). *)
Readable == phase = "unreadable" => late \/ readPass # pass

(* Whatever a restore or backup-unpack has of a file is the beginning of   *)
(* what the file was when the backup was closed, however reads, ranges and *)
(* cipher blocks overlap, and all of it in the end.  An archive read with  *)
(* a wrong passphrase yields nothing; a dump has nothing that would tell.  *)
FetchedExact ==
  phase \in {"read", "cut", "done"} /\ file # NoFile
      /\ (engine = "cockroach" \/ readPass = pass) =>
    /\ got = SubSeq(final[file], 1, Len(got))
    /\ phase = "done" => Len(got) = Len(final[file])

(* Reading ends, and not with a panic: no Read returns nothing for ever    *)
(* (readerAt.go), and a file whose answers are cut short by broken         *)
(* connections or by the end that a nested SectionReader reports too early *)
(* (reader.go) is complete after enough requests for the rest.             *)
FetchEnds == phase = "read" ~> phase \in {"done", "ready", "unreadable"}

-----------------------------------------------------------------------------
Open == phase \in {"exec", "close", "copy"}

Failed ==
  \/ phase = "flushed" /\ result = "err"
  \/ phase = "failed"
  \/ phase = "panicked" /\ ~FooterFits(aw.footer)

AsClosed == phase \in {"flushed", "sealed"}

Store == INSTANCE FileStore WITH
  state <- IF Open THEN "open"
           ELSE IF Failed THEN "failed"
           ELSE IF AsClosed \/ contents.intact THEN "sealed"
           ELSE "spoiled",
  files <- IF Open THEN Kept
           ELSE IF Failed THEN [n \in Name |-> Missing]
           ELSE IF AsClosed THEN final
           ELSE contents.files

(* A backup file implements FileStore: a request changes one file at most, *)
(* nothing changes once the archive is closed, and the object that is      *)
(* stored in the end has exactly those files or is no archive at all.      *)
ImplementsFileStore == Store!Spec
=============================================================================
