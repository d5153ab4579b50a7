-------------------------- MODULE BackupFileProofs --------------------------
(***************************************************************************)
(* Theorems about BackupFile for any files, bodies, passphrases, blocks    *)
(* and reads: what the database was told is what the archive has, what the *)
(* archive has can be read by whoever has the passphrase, and by nobody    *)
(* else, and the whole implements FileStore.                               *)
(***************************************************************************)
EXTENDS BackupFile, CryptoStreamProofs, FiniteSetTheorems

-----------------------------------------------------------------------------
(* What a byte says: all but the first byte of a footer is Said.           *)
Footers == UNION {[D -> [start : Nat, size : Nat]] : D \in SUBSET (SST \cup Meta)}
Said == {<<"header">>, <<"json">>, <<"zero">>} \cup ({"file"} \X Name \X Nat \X Nat)
Val == Said \cup ({"footer"} \X Footers)

HasHeader(out) ==
  Len(out) >= BlockSize /\ \A i \in 1 .. BlockSize : out[i] = Plain(<<"header">>)

(* A backupDest, and one that has not been closed.                         *)
HasFields(d) == d = [pass |-> d.pass, out |-> d.out, buf |-> d.buf,
                     blocksWritten |-> d.blocksWritten]

IsDest(d) ==
  /\ HasFields(d)
  /\ d.pass \in Pass \cup {NoPass}
  /\ d.out \in Seq(Byte(Val))
  /\ d.buf \in Seq(Byte(Val))
  /\ d.blocksWritten \in Nat
  /\ Len(d.buf) < BlockSize
  /\ d.pass = NoPass => d.buf = <<>>
  /\ d.pass # NoPass => HasHeader(d.out)

IsOpenDest(d) == IsDest(d) /\ (d.pass # NoPass => IsWriter(d, Val))

(* What a reader with passphrase p sees.                                   *)
View(o, p) == IF p = NoPass THEN o ELSE XORKeyStreamAt(Payload(o), p, 0)

(* An archiveWriter whose files follow each other.                         *)
IsArchiveWriter(a) ==
  /\ a = [footer |-> a.footer, openFile |-> a.openFile, written |-> a.written]
  /\ a.footer \in Footers
  /\ IsFiniteSet(DOMAIN a.footer)
  /\ a.openFile \in DOMAIN a.footer \cup {NoFile}
  /\ a.written \in Nat
  /\ \A n \in DOMAIN a.footer :
       /\ a.footer[n].start <= a.written
       /\ n # a.openFile => a.footer[n].start + a.footer[n].size <= a.written

-----------------------------------------------------------------------------
(* The stream ends with a footer that says where the files are, ...        *)
Last(s) == SubSeq(s, Len(s) - FooterPad + 1, Len(s))

IsArchive(s, kept) ==
  LET footer == DecodeFrom(Last(s)) IN
  /\ Len(s) >= FooterPad
  /\ footer \in Footers
  /\ IsFiniteSet(DOMAIN footer)
  /\ FooterFits(footer)
  /\ Last(s) = EncodeTo(footer)
  /\ \A n \in DOMAIN footer : footer[n].start + footer[n].size <= Len(s)
  /\ \A n \in Name :
       kept[n] = IF n \in DOMAIN footer THEN Part(s, footer[n]) ELSE Missing

(* ... or with bytes among which no footer begins.                         *)
NoFooter(s) ==
  /\ Len(s) >= FooterPad
  /\ \A i \in Len(s) - FooterPad + 1 .. Len(s) : s[i].val \in Said

HasFiles(s) ==
  IF engine = "postgres"
  THEN \A n \in Name : final[n] = IF n = Dump THEN s ELSE Missing
  ELSE IsArchive(s, final)

-----------------------------------------------------------------------------
(* The invariant, part by part.  The destination, ...                      *)
DestOK ==
  /\ IsDest(dest)
  /\ dest.pass = pass
  /\ (Open \/ phase = "flushed") => IsOpenDest(dest)

(* ... the archive in it, ...                                              *)
ArchiveOK ==
  /\ IsArchiveWriter(aw)
  /\ (Open /\ engine = "cockroach") => aw.written = Len(Stream(dest))
  /\ phase \in {"exec", "close"} => DOMAIN aw.footer \subseteq SST
  /\ \A n \in DOMAIN memFS : memFS[n] \in Seq(Byte(Said))

(* ... which has the meta-files that have been copied, ...                 *)
CopyOK ==
  phase = "copy" =>
    /\ todo \subseteq DOMAIN memFS
    /\ DOMAIN memFS \ todo \subseteq DOMAIN aw.footer
    /\ DOMAIN aw.footer \subseteq SST \cup (DOMAIN memFS \ todo)
    /\ \A n \in DOMAIN memFS \ todo :
         memFS[n] = Part(Stream(dest), closeIfOpen(aw).footer[n])

(* ... none of it with pg_dump, ...                                        *)
PostgresOK ==
  /\ engine = "postgres" =>
       /\ DOMAIN memFS = {} /\ DOMAIN aw.footer = {}
       /\ waiting = 0 /\ ~late
       /\ phase \notin {"close", "copy"}
  /\ late => ~Open

(* ... what the database believes meanwhile, ...                           *)
ToldSoFar ==
  engine = "cockroach" /\ Open =>
    \A n \in SST \cup Meta : told[n] # Unknown => Kept[n] = told[n]

(* ... what is in the stream with its footer, ...                          *)
FlushedOK ==
  phase = "flushed" =>
    IF late THEN NoFooter(Stream(dest)) ELSE HasFiles(Stream(dest))

(* ... in the object, ...                                                  *)
Ended == phase \in {"sealed", "stored", "read", "cut", "ready", "done", "unreadable"}

SealedOK ==
  LET s == View(dest.out, pass) IN
  Ended =>
    /\ (late /\ NoFooter(s)) \/ HasFiles(s)
    /\ engine = "cockroach" => dest.buf \in Seq(Byte(Said))

(* ... and what a reader has of it.                                        *)
ReadOK ==
  LET s == View(dest.out, readPass) IN
  /\ phase \in {"read", "cut", "ready", "done"} =>
       /\ readPass # NoPass => Len(dest.out) >= BlockSize
       /\ engine = "cockroach" => Len(s) >= FooterPad
       /\ (engine = "cockroach" /\ (phase = "ready" \/ file # NoFile)) =>
            IsFooter(Last(s)) /\ index = DecodeFrom(Last(s))
       /\ engine = "postgres" => phase # "ready"
  /\ phase \in {"read", "cut", "done"} =>
       /\ section.start + section.size <= Len(s)
       /\ got \in Seq(Byte(Val))
       /\ got = SubSeq(s, section.start + 1, section.start + Len(got))
       /\ IF engine = "postgres"
          THEN file = Dump /\ section = [start |-> 0, size |-> Len(s)]
          ELSE IF file # NoFile
          THEN file \in DOMAIN index /\ section = index[file]
          ELSE /\ phase = "read" /\ how = "local"
               /\ section = [start |-> Len(s) - FooterPad, size |-> FooterPad]
  /\ phase = "done" => (file # NoFile /\ Len(got) = section.size)

WriterInv ==
  /\ DestOK /\ ArchiveOK /\ CopyOK /\ PostgresOK
  /\ ToldSoFar /\ ToldKept
  /\ FlushedOK /\ SealedOK

ReaderInv == ReadOK /\ Readable

IndInv == TypeOK /\ WriterInv /\ ReaderInv

-----------------------------------------------------------------------------
(* Bytes of files are bytes.                                               *)
LEMMA SaidBytes ==
  /\ Byte(Said) \subseteq Byte(Val)
  /\ Seq(Byte(Said)) \subseteq Seq(Byte(Val))
  <1>1. Byte(Said) \subseteq Byte(Val)
    BY DEF Byte, Val
  <1> HIDE DEF Said, Val
  <1>2. ASSUME NEW s \in Seq(Byte(Said))
        PROVE  s \in Seq(Byte(Val))
    <2>1. \A i \in 1 .. Len(s) : s[i] \in Byte(Val)
      BY <1>1, ElementOfSeq
    <2> QED  BY <2>1
  <1> QED  BY <1>1, <1>2

(* Nothing that is said by another byte begins a footer.                   *)
LEMMA SaidIsNoFooter ==
  ASSUME NEW v \in Said
  PROVE  v[1] # "footer"
  BY DEF Said

(* A new destination has nothing in it.                                    *)
LEMMA NewDestEmpty ==
  ASSUME NEW p \in Pass \cup {NoPass}
  PROVE  /\ IsOpenDest(NewDest(p))
         /\ NewDest(p).pass = p
         /\ Stream(NewDest(p)) = <<>>
  <1>0. BlockSize \in Nat \ {0} /\ NoPass \notin Pass
    BY CryptoAssumption
  <1>1. CASE p = NoPass
    BY <1>0, <1>1 DEF NewDest, IsOpenDest, IsDest, HasFields, Stream
  <1>2. CASE p # NoPass
    <2> DEFINE d == NewWriter(p)
               x == Payload(Header)
               e == <<>>
    <2>1. NewDest(p) = d
      BY <1>2 DEF NewDest
    <2>2. /\ d = [pass |-> d.pass, out |-> d.out, buf |-> d.buf,
                  blocksWritten |-> d.blocksWritten]
          /\ d.pass = p /\ d.out = Header /\ d.buf = <<>> /\ d.blocksWritten = 0
      BY DEF NewWriter
    <2> HIDE DEF d
    <2>3. /\ Header \in Seq(Byte(Val)) /\ Len(Header) = BlockSize
          /\ \A i \in 1 .. BlockSize : Header[i] = Plain(<<"header">>)
      <3>1. Plain(<<"header">>) \in Byte(Val)
        BY DEF Plain, Byte, Val, Said
      <3> QED  BY <1>0, <3>1 DEF Header
    <2>4. e \in Seq(Byte(Val)) /\ Len(e) = 0
      OBVIOUS
    <2>5. x \in Seq(Byte(Val)) /\ Len(x) = 0
      BY <1>0, <2>3, PayloadOf
    <2>6. XORKeyStreamAt(x, p, 0) \in Seq(Byte(Val)) /\ Len(XORKeyStreamAt(x, p, 0)) = 0
      <3>1. p \in Pass /\ 0 \in Nat
        BY <1>2
      <3> HIDE DEF x
      <3> QED  BY <2>5, <3>1, XORBytes
    <2>7. XORKeyStreamAt(x, p, 0) = <<>>
      BY <2>6, EmptySeq
    <2>8. Stream(d) = XORKeyStreamAt(x, p, 0) \o <<>>
      BY <1>2, <2>2 DEF Stream, Payload
    <2>9. IsDest(d) /\ IsWriter(d, Val)
      BY <1>0, <1>2, <2>2, <2>3, <2>4 DEF IsDest, HasFields, IsWriter, HasHeader
    <2> QED  BY <2>1, <2>2, <2>7, <2>8, <2>9 DEF IsOpenDest
  <1> QED  BY <1>1, <1>2

(* What a writer does to its object and its buffer, closed or not.         *)
LEMMA WriteShape ==
  ASSUME NEW V, NEW c, NEW p \in Seq(Byte(V)), c.buf \in Seq(Byte(V)), c.pass \in Pass,
         c.blocksWritten \in Nat, HasFields(c)
  PROVE  /\ \E q \in Seq(Byte(V)) : Write(c, p).out = c.out \o q
         /\ Write(c, p).pass = c.pass
         /\ Write(c, p).buf \in Seq(Byte(V))
         /\ Len(Write(c, p).buf) < BlockSize
         /\ Write(c, p).blocksWritten \in Nat
  <1> DEFINE n == c.blocksWritten
             data == c.buf \o p
             k == Len(data) \div BlockSize
             e == k * BlockSize
             full == SubSeq(data, 1, e)
             rest == SubSeq(data, e + 1, Len(data))
             enc == XORKeyStreamAt(full, c.pass, n * BlockSize)
             d == Write(c, p)
  <1>1. BlockSize \in Nat \ {0} /\ n \in Nat /\ n * BlockSize \in Nat
    BY CryptoAssumption
  <1>2. data \in Seq(Byte(V)) /\ Len(data) \in Nat
    BY ConcatProperties
  <1>3. /\ d.pass = c.pass /\ d.out = c.out \o enc /\ d.buf = rest
        /\ d.blocksWritten = n + k
    BY DEF Write, HasFields
  <1> HIDE DEF data, d
  <1>4. k \in Nat /\ e \in Nat /\ e <= Len(data) /\ Len(data) < e + BlockSize
    BY <1>2, WholeBlocks
  <1> HIDE DEF k, e
  <1>5. \A i \in 1 .. Len(data) : data[i] \in Byte(V)
    BY <1>2, ElementOfSeq
  <1>6. full \in Seq(Byte(V)) /\ Len(full) = e
    BY <1>2, <1>4, <1>5, SubSeqProperties
  <1>7. rest \in Seq(Byte(V)) /\ Len(rest) = Len(data) - e
    <2> DEFINE t == SubSeq(data, e + 1, Len(data))
    <2>1. t \in Seq(Byte(V)) /\ Len(t) = Len(data) - e
      BY <1>2, <1>4, SectionOf
    <2> QED  BY <2>1
  <1> HIDE DEF full, rest
  <1>8. enc \in Seq(Byte(V))
    BY <1>1, <1>6, XORBytes
  <1> HIDE DEF enc
  <1>9. Len(rest) < BlockSize /\ n + k \in Nat
    BY <1>1, <1>2, <1>4, <1>7
  <1> QED  BY <1>3, <1>7, <1>8, <1>9 DEF d

(* The header of an object is not written to again.                        *)
LEMMA HeaderStays ==
  ASSUME NEW s \in Seq(Byte(Val)), NEW q \in Seq(Byte(Val)), HasHeader(s)
  PROVE  HasHeader(s \o q)
  <1> DEFINE t == s \o q
  <1>1. /\ t \in Seq(Byte(Val)) /\ Len(t) = Len(s) + Len(q)
        /\ \A i \in 1 .. Len(s) + Len(q) : t[i] = IF i <= Len(s) THEN s[i] ELSE q[i - Len(s)]
    BY ConcatProperties
  <1> HIDE DEF t
  <1>2. Len(s) \in Nat /\ Len(q) \in Nat /\ BlockSize \in Nat
    BY CryptoAssumption
  <1>3. HasHeader(t)
    BY <1>1, <1>2 DEF HasHeader
  <1> QED  BY <1>3 DEF t

(* Writing to an open destination appends to the stream in it.             *)
LEMMA WriteToAppends ==
  ASSUME NEW d, IsOpenDest(d), NEW p \in Seq(Byte(Val))
  PROVE  /\ IsOpenDest(WriteTo(d, p))
         /\ WriteTo(d, p).pass = d.pass
         /\ Stream(d) \in Seq(Byte(Val))
         /\ Stream(WriteTo(d, p)) = Stream(d) \o p
  <1> DEFINE r == WriteTo(d, p)
  <1>0. BlockSize \in Nat \ {0} /\ NoPass \notin Pass
    BY CryptoAssumption
  <1>1. Stream(d) \in Seq(Byte(Val))
    <2>1. CASE d.pass = NoPass
      BY <2>1 DEF Stream, IsOpenDest, IsDest
    <2>2. CASE d.pass # NoPass
      <3>1. Stream(d) = Plaintext(d)
        BY <2>2 DEF Stream, Plaintext, Payload
      <3>2. IsWriter(d, Val)
        BY <2>2 DEF IsOpenDest
      <3>3. d = [pass |-> d.pass, out |-> d.out, buf |-> d.buf,
                 blocksWritten |-> d.blocksWritten]
        BY DEF IsOpenDest, IsDest, HasFields
      <3> QED  BY <3>1, <3>2, <3>3, WriteAppends
    <2> QED  BY <2>1, <2>2
  <1>2. CASE p = <<>>
    <2>1. r = d
      BY <1>2 DEF WriteTo
    <2>2. Stream(d) \o p = Stream(d)
      BY <1>1, <1>2, ConcatEmptySeq
    <2> QED  BY <1>1, <2>1, <2>2
  <1>3. CASE p # <<>> /\ d.pass = NoPass
    <2>1. r = [d EXCEPT !.out = @ \o p]
      BY <1>3 DEF WriteTo
    <2>2. /\ d = [pass |-> d.pass, out |-> d.out, buf |-> d.buf,
                  blocksWritten |-> d.blocksWritten]
          /\ d.out \in Seq(Byte(Val)) /\ d.buf \in Seq(Byte(Val)) /\ d.blocksWritten \in Nat
          /\ Len(d.buf) < BlockSize /\ d.buf = <<>>
      BY <1>3 DEF IsOpenDest, IsDest, HasFields
    <2> HIDE DEF r
    <2>3. /\ r.out = d.out \o p /\ r.buf = d.buf /\ r.pass = d.pass
          /\ r.blocksWritten = d.blocksWritten
          /\ r = [pass |-> r.pass, out |-> r.out, buf |-> r.buf,
                  blocksWritten |-> r.blocksWritten]
      BY <2>1, <2>2
    <2>4. r.out \in Seq(Byte(Val))
      BY <2>2, <2>3, ConcatProperties
    <2>5. IsOpenDest(r)
      BY <1>3, <2>2, <2>3, <2>4 DEF IsOpenDest, IsDest, HasFields
    <2>6. Stream(r) = Stream(d) \o p
      BY <1>3, <2>3 DEF Stream
    <2> QED  BY <1>1, <2>3, <2>5, <2>6 DEF r
  <1>4. CASE p # <<>> /\ d.pass # NoPass
    <2>1. r = Write(d, p)
      BY <1>4 DEF WriteTo
    <2>2. /\ IsWriter(d, Val) /\ HasHeader(d.out)
          /\ d = [pass |-> d.pass, out |-> d.out, buf |-> d.buf,
                  blocksWritten |-> d.blocksWritten]
          /\ d.out \in Seq(Byte(Val))
      BY <1>4 DEF IsOpenDest, IsDest, HasFields
    <2>3. /\ IsWriter(r, Val) /\ r.pass = d.pass
          /\ Plaintext(r) = Plaintext(d) \o p
      BY <2>1, <2>2, WriteAppends
    <2>4. \E q \in Seq(Byte(Val)) : r.out = d.out \o q
      <3>1. d.buf \in Seq(Byte(Val)) /\ d.pass \in Pass /\ d.blocksWritten \in Nat
        BY <2>2 DEF IsWriter
      <3>2. HasFields(d)
        BY DEF IsOpenDest, IsDest
      <3> HIDE DEF r
      <3>3. /\ \E q \in Seq(Byte(Val)) : Write(d, p).out = d.out \o q
            /\ Write(d, p).pass = d.pass
            /\ Write(d, p).buf \in Seq(Byte(Val))
            /\ Len(Write(d, p).buf) < BlockSize
            /\ Write(d, p).blocksWritten \in Nat
        BY <3>1, <3>2, WriteShape
      <3> QED  BY <2>1, <3>3
    <2>5. HasHeader(r.out)
      BY <2>2, <2>4, HeaderStays
    <2>6. r = [pass |-> r.pass, out |-> r.out, buf |-> r.buf,
                  blocksWritten |-> r.blocksWritten]
      BY <2>1, <2>2 DEF Write
    <2>7. IsOpenDest(r)
      <3>1. /\ r.pass \in Pass /\ r.out \in Seq(Byte(Val)) /\ r.buf \in Seq(Byte(Val))
            /\ r.blocksWritten \in Nat /\ Len(r.buf) < BlockSize
        BY <2>3 DEF IsWriter
      <3> HIDE DEF r
      <3> QED  BY <1>0, <2>3, <2>5, <2>6, <3>1 DEF IsOpenDest, IsDest, HasFields
    <2>8. Stream(r) = Plaintext(r) /\ Stream(d) = Plaintext(d)
      BY <1>4, <2>3 DEF Stream, Plaintext, Payload
    <2> QED  BY <1>1, <2>3, <2>7, <2>8
  <1> QED  BY <1>2, <1>3, <1>4

-----------------------------------------------------------------------------
(* What a reader does not see: the header.                                 *)
Skipped(p) == IF p = NoPass THEN 0 ELSE BlockSize

(* What it sees of an object, byte by byte, ...                            *)
LEMMA ViewOf ==
  ASSUME NEW o \in Seq(Byte(Val)), NEW p \in Pass \cup {NoPass},
         p # NoPass => BlockSize <= Len(o)
  PROVE  /\ Skipped(p) \in Nat
         /\ View(o, p) \in Seq(Byte(Val))
         /\ Len(View(o, p)) = Len(o) - Skipped(p)
         /\ \A i \in 1 .. Len(o) - Skipped(p) :
              /\ View(o, p)[i].val = o[Skipped(p) + i].val
              /\ View(o, p)[i].key = IF p = NoPass THEN o[i].key
                                     ELSE Toggled(o[BlockSize + i].key, <<p, 0 + i - 1>>)
  <1>0. BlockSize \in Nat \ {0} /\ NoPass \notin Pass /\ Len(o) \in Nat
    BY CryptoAssumption
  <1>1. CASE p = NoPass
    BY <1>0, <1>1 DEF View, Skipped
  <1>2. CASE p # NoPass
    <2> DEFINE x == Payload(o)
               y == XORKeyStreamAt(x, p, 0)
    <2>0. View(o, p) = y
      BY <1>2 DEF View
    <2>1. /\ x \in Seq(Byte(Val)) /\ Len(x) = Len(o) - BlockSize
          /\ \A i \in 1 .. Len(o) - BlockSize : x[i] = o[BlockSize + i]
      BY <1>2, PayloadOf
    <2> HIDE DEF x
    <2>2. /\ y \in Seq(Byte(Val)) /\ Len(y) = Len(x)
          /\ \A i \in 1 .. Len(x) :
               y[i] = [val |-> x[i].val, key |-> Toggled(x[i].key, <<p, 0 + i - 1>>)]
      BY <1>2, <2>1, XORBytes
    <2> HIDE DEF y
    <2>3. ASSUME NEW i \in 1 .. Len(o) - BlockSize
          PROVE  /\ y[i].val = o[BlockSize + i].val
                 /\ y[i].key = Toggled(o[BlockSize + i].key, <<p, 0 + i - 1>>)
      <3>1. x[i] = o[BlockSize + i]
        BY <2>1
      <3>2. y[i] = [val |-> x[i].val, key |-> Toggled(x[i].key, <<p, 0 + i - 1>>)]
        BY <2>1, <2>2
      <3> QED  BY <3>1, <3>2
    <2> QED  BY <1>0, <1>2, <2>0, <2>1, <2>2, <2>3 DEF Skipped
  <1> QED  BY <1>1, <1>2

(* ... which grows with the object.                                        *)
LEMMA ViewGrows ==
  ASSUME NEW o \in Seq(Byte(Val)), NEW p \in Pass \cup {NoPass},
         p # NoPass => BlockSize <= Len(o),
         NEW q \in Seq(Byte(Said))
  PROVE  \E r \in Seq(Byte(Said)) : Len(r) = Len(q) /\ View(o \o q, p) = View(o, p) \o r
  <1>1. CASE p = NoPass
    BY <1>1 DEF View
  <1>2. CASE p # NoPass
    <2> DEFINE x == Payload(o)
               r == XORKeyStreamAt(q, p, 0 + Len(x))
    <2>1. q \in Seq(Byte(Val)) /\ p \in Pass
      BY <1>2, SaidBytes
    <2>2. x \in Seq(Byte(Val)) /\ Payload(o \o q) = x \o q
      BY <1>2, <2>1, PayloadOf, PayloadGrows
    <2> HIDE DEF x
    <2>3. XORKeyStreamAt(x \o q, p, 0) = XORKeyStreamAt(x, p, 0) \o r
      BY <2>1, <2>2, XORConcat
    <2>4. r \in Seq(Byte(Said)) /\ Len(r) = Len(q)
      <3>1. 0 + Len(x) \in Nat
        BY <2>2
      <3> QED  BY <2>1, <3>1, XORBytes
    <2>5. View(o, p) = XORKeyStreamAt(x, p, 0)
          /\ View(o \o q, p) = XORKeyStreamAt(Payload(o \o q), p, 0)
      BY <1>2 DEF View, x
    <2> HIDE DEF r
    <2> QED  BY <2>2, <2>3, <2>4, <2>5
  <1> QED  BY <1>1, <1>2

(* Closing the crypto-writer makes all of the stream readable.             *)
LEMMA CloseSeals ==
  ASSUME NEW d, IsOpenDest(d), d.pass # NoPass
  PROVE  /\ IsDest(Close(d))
         /\ Close(d).pass = d.pass
         /\ View(Close(d).out, d.pass) = Stream(d)
         /\ \A W : d.buf \in Seq(Byte(W)) => Close(d).buf \in Seq(Byte(W))
  <1> DEFINE r == Close(d)
             s == Plaintext(d)
  <1>0. BlockSize \in Nat \ {0} /\ NoPass \notin Pass
    BY CryptoAssumption
  <1>1. /\ IsWriter(d, Val) /\ HasHeader(d.out) /\ d.pass \in Pass
        /\ d.out \in Seq(Byte(Val)) /\ d.buf \in Seq(Byte(Val)) /\ d.blocksWritten \in Nat
        /\ Len(d.buf) < BlockSize
        /\ d = [pass |-> d.pass, out |-> d.out, buf |-> d.buf,
                blocksWritten |-> d.blocksWritten]
    BY <1>0 DEF IsOpenDest, IsDest, HasFields
  <1>2. /\ r.pass = d.pass /\ r.out \in Seq(Byte(Val)) /\ Len(d.out) <= Len(r.out)
        /\ \A i \in 1 .. Len(d.out) : r.out[i] = d.out[i]
        /\ Payload(r.out) = XORKeyStreamAt(s, d.pass, 0)
    BY <1>1, CloseCompletes
  <1>3. s \in Seq(Byte(Val))
    <2>1. <<>> \in Seq(Byte(Val))
      OBVIOUS
    <2> QED  BY <1>1, <2>1, WriteAppends
  <1>4. s = Stream(d)
    BY <1>0, <1>1 DEF Stream, Plaintext, Payload
  <1> HIDE DEF s
  <1>5. View(r.out, d.pass) = s
    <2>1. XORKeyStreamAt(XORKeyStreamAt(s, d.pass, 0), d.pass, 0) = s
      BY <1>1, <1>3, XORTwice
    <2> QED  BY <1>0, <1>1, <1>2, <2>1 DEF View
  <1>6. ASSUME NEW W, d.buf \in Seq(Byte(W))
        PROVE  r.buf \in Seq(Byte(W)) /\ Len(r.buf) = Len(d.buf)
    <2> DEFINE n == d.blocksWritten * BlockSize
    <2>1. n \in Nat
      BY <1>0, <1>1
    <2>2. r.buf = XORKeyStreamAt(d.buf, d.pass, n)
      BY <1>1 DEF Close
    <2> HIDE DEF n, r
    <2> QED  BY <1>1, <1>6, <2>1, <2>2, XORBytes
  <1>7. r.blocksWritten = d.blocksWritten
        /\ r = [pass |-> r.pass, out |-> r.out, buf |-> r.buf,
                blocksWritten |-> r.blocksWritten]
    <2> DEFINE rest == XORKeyStreamAt(d.buf, d.pass, d.blocksWritten * BlockSize)
    <2>1. r = [d EXCEPT !.out = @ \o rest, !.buf = rest]
      BY DEF Close
    <2> HIDE DEF r, rest
    <2> QED  BY <1>1, <2>1
  <1>8. HasHeader(r.out)
    <2>1. Len(d.out) \in Nat /\ Len(r.out) \in Nat
      BY <1>1, <1>2
    <2> QED  BY <1>0, <1>1, <1>2, <2>1 DEF HasHeader
  <1>9. r.buf \in Seq(Byte(Val)) /\ Len(r.buf) = Len(d.buf)
    BY <1>1, <1>6
  <1> HIDE DEF r
  <1>10. IsDest(r)
    BY <1>0, <1>1, <1>2, <1>7, <1>8, <1>9 DEF IsDest, HasFields
  <1> QED  BY <1>2, <1>4, <1>5, <1>6, <1>10 DEF r

(* Writing to a destination, closed or not, appends bytes of files to the  *)
(* object if it has been given some and no others are waiting.             *)
LEMMA LateWrite ==
  ASSUME NEW d, IsDest(d), d.buf \in Seq(Byte(Said)), NEW p \in Seq(Byte(Said))
  PROVE  /\ IsDest(WriteTo(d, p))
         /\ WriteTo(d, p).pass = d.pass
         /\ WriteTo(d, p).buf \in Seq(Byte(Said))
         /\ \E q \in Seq(Byte(Said)) :
              /\ WriteTo(d, p).out = d.out \o q
              /\ p = <<>> => q = <<>>
  <1> DEFINE r == WriteTo(d, p)
  <1>0. BlockSize \in Nat \ {0} /\ NoPass \notin Pass
    BY CryptoAssumption
  <1>1. /\ d = [pass |-> d.pass, out |-> d.out, buf |-> d.buf,
                blocksWritten |-> d.blocksWritten]
        /\ d.pass \in Pass \cup {NoPass}
        /\ d.out \in Seq(Byte(Val)) /\ d.buf \in Seq(Byte(Val)) /\ d.blocksWritten \in Nat
        /\ Len(d.buf) < BlockSize
        /\ d.pass = NoPass => d.buf = <<>>
        /\ d.pass # NoPass => HasHeader(d.out)
    BY DEF IsDest, HasFields
  <1>2. CASE p = <<>>
    <2>1. r = d
      BY <1>2 DEF WriteTo
    <2>2. d.out = d.out \o <<>>
      BY <1>1, ConcatEmptySeq
    <2>3. <<>> \in Seq(Byte(Said))
      OBVIOUS
    <2> QED  BY <2>1, <2>2, <2>3
  <1>3. CASE p # <<>>
    <2>1. /\ \E q \in Seq(Byte(Said)) : r.out = d.out \o q
          /\ r.pass = d.pass
          /\ r.buf \in Seq(Byte(Said))
          /\ r.buf \in Seq(Byte(Val))
          /\ Len(r.buf) < BlockSize
          /\ r.blocksWritten \in Nat
          /\ r.pass = NoPass => r.buf = <<>>
      <3>1. CASE d.pass = NoPass
        <4>1. r = [d EXCEPT !.out = @ \o p]
          BY <1>3, <3>1 DEF WriteTo
        <4> HIDE DEF r
        <4>2. r.out = d.out \o p /\ r.pass = d.pass /\ r.buf = d.buf
              /\ r.blocksWritten = d.blocksWritten
          BY <1>1, <4>1
        <4> QED  BY <1>1, <3>1, <4>2
      <3>2. CASE d.pass # NoPass
        <4>1. r = Write(d, p)
          BY <1>3, <3>2 DEF WriteTo
        <4>2. d.pass \in Pass /\ d.blocksWritten \in Nat
              /\ HasFields(d)
          BY <1>1, <3>2 DEF HasFields
        <4> HIDE DEF r
        <4>3. /\ \E q \in Seq(Byte(Said)) : Write(d, p).out = d.out \o q
              /\ Write(d, p).pass = d.pass
              /\ Write(d, p).buf \in Seq(Byte(Said))
              /\ Len(Write(d, p).buf) < BlockSize
              /\ Write(d, p).blocksWritten \in Nat
          BY <4>2, WriteShape
        <4>4. r.buf \in Seq(Byte(Val))
          BY <4>1, <4>3, SaidBytes
        <4> QED  BY <3>2, <4>1, <4>3, <4>4
      <3> QED  BY <3>1, <3>2
    <2>2. PICK q \in Seq(Byte(Said)) : r.out = d.out \o q
      BY <2>1
    <2>3. q \in Seq(Byte(Val))
      BY SaidBytes
    <2>4. r.out \in Seq(Byte(Val))
      BY <1>1, <2>2, <2>3, ConcatProperties
    <2>5. d.pass # NoPass => HasHeader(r.out)
      BY <1>1, <2>2, <2>3, HeaderStays
    <2>6. r = [pass |-> r.pass, out |-> r.out, buf |-> r.buf,
               blocksWritten |-> r.blocksWritten]
      BY <1>1, <1>3 DEF WriteTo, Write
    <2> HIDE DEF r
    <2>7. IsDest(r)
      BY <1>1, <2>1, <2>4, <2>5, <2>6 DEF IsDest, HasFields
    <2> QED  BY <1>3, <2>1, <2>2, <2>7 DEF r
  <1> QED  BY <1>2, <1>3

-----------------------------------------------------------------------------
(* A footer that fits fills its place, can be decoded and begins only      *)
(* once.                                                                   *)
LEMMA EncodedFooter ==
  ASSUME NEW f \in Footers, IsFiniteSet(DOMAIN f), FooterFits(f)
  PROVE  /\ EncodeTo(f) \in Seq(Byte(Val))
         /\ Len(EncodeTo(f)) = FooterPad
         /\ DecodeFrom(EncodeTo(f)) = f
         /\ IsFooter(EncodeTo(f))
         /\ \A i \in 2 .. FooterPad : EncodeTo(f)[i].val \in Said
  <1> DEFINE n == FooterLen(f)
             g(i) == Plain(IF i = 1 THEN <<"footer", f>> ELSE <<"json">>)
             json == [i \in 1 .. n |-> g(i)]
             padding == [i \in 1 .. FooterPad - n |-> Plain(<<"zero">>)]
             e == json \o padding
  <1>0. FooterPad \in Nat /\ n \in Nat /\ 1 <= n /\ n <= FooterPad
    <2>1. Cardinality(DOMAIN f) \in Nat
      BY FS_CardinalityType
    <2> QED  BY <2>1, ArchiveAssumption DEF FooterLen, FooterFits
  <1>1. EncodeTo(f) = e
    BY DEF EncodeTo
  <1>v. <<"footer", f>> \in Val
    BY DEF Val
  <1> HIDE DEF n
  <1>2. \A i \in 1 .. n : g(i) \in Byte(Val)
    <2>1. Plain(<<"footer", f>>) \in Byte(Val)
      BY <1>v DEF Plain, Byte
    <2>2. Plain(<<"json">>) \in Byte(Val)
      BY DEF Plain, Byte, Val, Said
    <2> QED  BY <2>1, <2>2
  <1>3. Plain(<<"zero">>) \in Byte(Val)
    BY DEF Plain, Byte, Val, Said
  <1>g. /\ g(1).val = <<"footer", f>> /\ \A i \in 1 .. n : g(i).key = {}
        /\ \A i \in 2 .. n : g(i).val \in Said
    BY <1>0 DEF Plain, Said
  <1> HIDE DEF g
  <1>4. json \in Seq(Byte(Val)) /\ Len(json) = n /\ \A i \in 1 .. n : json[i] = g(i)
    BY <1>0, <1>2
  <1>5. /\ padding \in Seq(Byte(Val)) /\ Len(padding) = FooterPad - n
        /\ \A i \in 1 .. FooterPad - n : padding[i] = Plain(<<"zero">>)
    BY <1>0, <1>3
  <1> HIDE DEF json, padding
  <1>6. /\ e \in Seq(Byte(Val)) /\ Len(e) = Len(json) + Len(padding)
        /\ \A i \in 1 .. Len(json) + Len(padding) :
             e[i] = IF i <= Len(json) THEN json[i] ELSE padding[i - Len(json)]
    BY <1>4, <1>5, ConcatProperties
  <1> HIDE DEF e
  <1>7. Len(e) = FooterPad
    BY <1>0, <1>4, <1>5, <1>6
  <1>8. \A i \in 1 .. n : e[i] = g(i)
    BY <1>0, <1>4, <1>5, <1>6
  <1>9. DecodeFrom(e) = f
    BY <1>0, <1>8, <1>g DEF DecodeFrom
  <1>10. IsFooter(e)
    <2>1. e[1].val[1] = "footer"
      BY <1>0, <1>8, <1>g
    <2>2. \A i \in 1 .. n : e[i].key = {}
      BY <1>8, <1>g
    <2> QED  BY <1>7, <1>9, <2>1, <2>2 DEF IsFooter, n
  <1>11. ASSUME NEW i \in 2 .. FooterPad
         PROVE  e[i].val \in Said
    <2>1. CASE i <= n
      BY <1>0, <1>8, <1>g, <2>1
    <2>2. CASE i > n
      <3>1. e[i] = padding[i - n] /\ i - n \in 1 .. FooterPad - n
        BY <1>0, <1>4, <1>5, <1>6, <2>2
      <3>2. e[i] = Plain(<<"zero">>)
        BY <1>5, <3>1
      <3> QED  BY <3>2 DEF Plain, Said
    <2> QED  BY <1>0, <2>1, <2>2
  <1> QED  BY <1>1, <1>6, <1>7, <1>9, <1>10, <1>11

(* The end of a stream.                                                    *)
LEMMA LastOf ==
  ASSUME NEW s \in Seq(Byte(Val)), FooterPad <= Len(s)
  PROVE  /\ Last(s) \in Seq(Byte(Val))
         /\ Len(Last(s)) = FooterPad
         /\ \A i \in 1 .. FooterPad : Last(s)[i] = s[Len(s) - FooterPad + i]
  <1> DEFINE m == Len(s) - FooterPad
             n == Len(s)
             t == SubSeq(s, m + 1, n)
  <1>1. m \in Nat /\ n \in Nat /\ m <= n /\ n <= Len(s) /\ n - m = FooterPad
    BY ArchiveAssumption
  <1>2. Last(s) = t
    BY DEF Last
  <1>m. m = Len(s) - FooterPad
    OBVIOUS
  <1> HIDE DEF m, n
  <1>3. /\ t \in Seq(Byte(Val)) /\ Len(t) = n - m
        /\ \A i \in 1 .. n - m : t[i] = s[m + i]
    BY <1>1, SectionOf
  <1> QED  BY <1>1, <1>2, <1>3, <1>m

(* Nothing begins a footer behind the footer, ...                          *)
LEMMA BehindFooter ==
  ASSUME NEW kept, NEW s \in Seq(Byte(Val)), IsArchive(s, kept) \/ NoFooter(s)
  PROVE  /\ FooterPad <= Len(s)
         /\ \A i \in Len(s) - FooterPad + 2 .. Len(s) : s[i].val \in Said
  <1>0. FooterPad \in Nat /\ Len(s) \in Nat
    BY ArchiveAssumption
  <1>1. CASE NoFooter(s)
    BY <1>0, <1>1 DEF NoFooter
  <1>2. CASE IsArchive(s, kept)
    <2> DEFINE f == DecodeFrom(Last(s))
               m == Len(s) - FooterPad
    <2>1. /\ FooterPad <= Len(s) /\ f \in Footers /\ IsFiniteSet(DOMAIN f) /\ FooterFits(f)
          /\ Last(s) = EncodeTo(f)
      BY <1>0, <1>2 DEF IsArchive
    <2> HIDE DEF f
    <2>2. \A i \in 2 .. FooterPad : Last(s)[i].val \in Said
      BY <2>1, EncodedFooter
    <2>3. \A i \in 1 .. FooterPad : Last(s)[i] = s[m + i]
      BY <2>1, LastOf
    <2>4. ASSUME NEW i \in m + 2 .. Len(s)
          PROVE  s[i].val \in Said
      <3>1. i - m \in 2 .. FooterPad /\ m + (i - m) = i
        BY <1>0, <2>1
      <3> HIDE DEF m
      <3> QED  BY <1>0, <2>2, <2>3, <3>1
    <2> QED  BY <2>1, <2>4
  <1> QED  BY <1>1, <1>2

(* ... so there is none at the end of what has been written to.            *)
LEMMA FooterLost ==
  ASSUME NEW kept, NEW s \in Seq(Byte(Val)), IsArchive(s, kept) \/ NoFooter(s),
         NEW r \in Seq(Byte(Said)), r # <<>>
  PROVE  NoFooter(s \o r)
  <1> DEFINE t == s \o r
  <1>0. FooterPad \in Nat /\ Len(s) \in Nat /\ Len(r) \in Nat /\ Len(r) > 0
    BY ArchiveAssumption, EmptySeq
  <1>1. r \in Seq(Byte(Val))
    BY SaidBytes
  <1>2. /\ t \in Seq(Byte(Val)) /\ Len(t) = Len(s) + Len(r)
        /\ \A i \in 1 .. Len(s) + Len(r) : t[i] = IF i <= Len(s) THEN s[i] ELSE r[i - Len(s)]
    BY <1>1, ConcatProperties
  <1> HIDE DEF t
  <1>3. /\ FooterPad <= Len(s)
        /\ \A i \in Len(s) - FooterPad + 2 .. Len(s) : s[i].val \in Said
    BY BehindFooter
  <1>4. \A i \in 1 .. Len(r) : r[i].val \in Said
    <2>1. \A i \in 1 .. Len(r) : r[i] \in Byte(Said)
      BY ElementOfSeq
    <2> QED  BY <2>1 DEF Byte
  <1>5. ASSUME NEW i \in Len(t) - FooterPad + 1 .. Len(t)
        PROVE  t[i].val \in Said
    <2>0. i \in 1 .. Len(s) + Len(r)
      BY <1>0, <1>2, <1>3
    <2>1. CASE i <= Len(s)
      <3>1. i \in Len(s) - FooterPad + 2 .. Len(s)
        BY <1>0, <1>2, <2>1
      <3> QED  BY <1>2, <1>3, <2>0, <2>1, <3>1
    <2>2. CASE i > Len(s)
      <3>1. i - Len(s) \in 1 .. Len(r)
        BY <1>0, <2>0, <2>2
      <3> QED  BY <1>2, <1>4, <2>0, <2>2, <3>1
    <2> QED  BY <1>0, <2>0, <2>1, <2>2
  <1>6. NoFooter(t)
    BY <1>0, <1>2, <1>3, <1>5 DEF NoFooter
  <1> QED  BY <1>6 DEF t

(* An archive has a footer, ...                                            *)
LEMMA ArchiveHasFooter ==
  ASSUME NEW kept, NEW s \in Seq(Byte(Val)), IsArchive(s, kept)
  PROVE  IsFooter(Last(s)) /\ DecodeFrom(Last(s)) \in Footers
  BY EncodedFooter DEF IsArchive

(* ... and a footer is only found in an archive, and with the passphrase   *)
(* it was written with.                                                    *)
THEOREM FooterFound ==
  ASSUME NEW kept, NEW o \in Seq(Byte(Val)),
         NEW w \in Pass \cup {NoPass}, NEW p \in Pass \cup {NoPass},
         w # NoPass => BlockSize <= Len(o),
         p # NoPass => BlockSize <= Len(o),
         IsArchive(View(o, w), kept) \/ NoFooter(View(o, w)),
         FooterPad <= Len(View(o, p)),
         IsFooter(Last(View(o, p)))
  PROVE  p = w /\ IsArchive(View(o, w), kept)
  <1> DEFINE s == View(o, w)
             v == View(o, p)
             i == Len(s) - FooterPad + 1
             j == Len(v) - FooterPad + 1
             k == Len(o) - FooterPad + 1
  <1>0. /\ FooterPad \in Nat \ {0} /\ BlockSize \in Nat \ {0} /\ NoPass \notin Pass
        /\ Len(o) \in Nat
    BY CryptoAssumption, ArchiveAssumption
  <1>1. /\ Skipped(w) \in Nat
        /\ s \in Seq(Byte(Val)) /\ Len(s) = Len(o) - Skipped(w)
        /\ \A n \in 1 .. Len(o) - Skipped(w) :
             /\ s[n].val = o[Skipped(w) + n].val
             /\ s[n].key = IF w = NoPass THEN o[n].key
                           ELSE Toggled(o[BlockSize + n].key, <<w, 0 + n - 1>>)
    BY ViewOf
  <1>2. /\ Skipped(p) \in Nat
        /\ v \in Seq(Byte(Val)) /\ Len(v) = Len(o) - Skipped(p)
        /\ \A n \in 1 .. Len(o) - Skipped(p) :
             /\ v[n].val = o[Skipped(p) + n].val
             /\ v[n].key = IF p = NoPass THEN o[n].key
                           ELSE Toggled(o[BlockSize + n].key, <<p, 0 + n - 1>>)
    BY ViewOf
  <1>a. /\ IsArchive(s, kept) \/ NoFooter(s)
        /\ FooterPad <= Len(v) /\ IsFooter(Last(v))
    OBVIOUS
  <1> HIDE DEF s, v
  <1>3. FooterPad <= Len(s)
    BY <1>1, <1>a, BehindFooter
  <1>4. Last(v)[1] = v[j] /\ Last(s)[1] = s[i]
    <2>1. /\ Last(v)[1] = v[Len(v) - FooterPad + 1]
          /\ Last(s)[1] = s[Len(s) - FooterPad + 1]
      <3>1. 1 \in 1 .. FooterPad
        BY <1>0
      <3> QED  BY <1>1, <1>2, <1>3, <1>a, <3>1, LastOf
    <2> QED  BY <2>1
  <1>5. /\ i \in 1 .. Len(o) - Skipped(w) /\ Skipped(w) + i = k
        /\ j \in 1 .. Len(o) - Skipped(p) /\ Skipped(p) + j = k
        /\ i \in Len(s) - FooterPad + 1 .. Len(s)
    <2>1. /\ Len(s) = Len(o) - Skipped(w) /\ Len(v) = Len(o) - Skipped(p)
          /\ Skipped(w) \in Nat /\ Skipped(p) \in Nat
          /\ FooterPad <= Len(s) /\ FooterPad <= Len(v)
      BY <1>1, <1>2, <1>3, <1>a
    <2> DEFINE S == Len(s)
               T == Len(v)
               L == Len(o)
               sw == Skipped(w)
               sp == Skipped(p)
    <2>2. /\ S = L - sw /\ T = L - sp /\ sw \in Nat /\ sp \in Nat /\ L \in Nat
          /\ FooterPad <= S /\ FooterPad <= T
          /\ i = S - FooterPad + 1 /\ j = T - FooterPad + 1 /\ k = L - FooterPad + 1
      BY <1>0, <2>1
    <2> HIDE DEF S, T, L, sw, sp, i, j, k
    <2>3. i \in 1 .. L - sw /\ sw + i = k /\ i \in S - FooterPad + 1 .. S
      BY <1>0, <2>2
    <2>4. j \in 1 .. L - sp /\ sp + j = k
      BY <1>0, <2>2
    <2> QED  BY <2>3, <2>4 DEF S, T, L, sw, sp
  <1>6. v[j].val = o[k].val /\ s[i].val = o[k].val
    BY <1>1, <1>2, <1>5
  <1>7. v[j].val[1] = "footer"
    BY <1>4, <1>a DEF IsFooter
  <1>8. IsArchive(s, kept)
    <2> SUFFICES ASSUME NoFooter(s)
                 PROVE  FALSE
      BY <1>a
    <2>1. s[i].val \in Said
      BY <1>5 DEF NoFooter
    <2> QED  BY <1>6, <1>7, <2>1, SaidIsNoFooter
  <1> DEFINE f == DecodeFrom(Last(s))
  <1>9. /\ f \in Footers /\ IsFiniteSet(DOMAIN f) /\ FooterFits(f) /\ Last(s) = EncodeTo(f)
    BY <1>8 DEF IsArchive
  <1>10. DecodeFrom(Last(v)) = f
    BY <1>4, <1>6 DEF DecodeFrom
  <1> HIDE DEF f
  <1>11. FooterLen(f) \in Nat /\ 1 \in 1 .. FooterLen(f)
    <2>1. Cardinality(DOMAIN f) \in Nat
      BY <1>9, FS_CardinalityType
    <2> QED  BY <2>1 DEF FooterLen
  <1>12. v[j].key = {}
    BY <1>4, <1>10, <1>11, <1>a DEF IsFooter
  <1>13. s[i].key = {}
    <2>1. IsFooter(Last(s)) /\ DecodeFrom(Last(s)) = f
      BY <1>9, EncodedFooter
    <2> QED  BY <1>4, <1>11, <2>1 DEF IsFooter
  <1>14. /\ s[i].key = IF w = NoPass THEN o[k].key ELSE Toggled(o[k].key, <<w, 0 + i - 1>>)
         /\ v[j].key = IF p = NoPass THEN o[k].key ELSE Toggled(o[k].key, <<p, 0 + j - 1>>)
    <2> HIDE DEF i, j, k
    <2>1. /\ s[i].key = IF w = NoPass THEN o[i].key
                        ELSE Toggled(o[BlockSize + i].key, <<w, 0 + i - 1>>)
          /\ v[j].key = IF p = NoPass THEN o[j].key
                        ELSE Toggled(o[BlockSize + j].key, <<p, 0 + j - 1>>)
      BY <1>1, <1>2, <1>5
    <2>2. /\ w = NoPass => i = k
          /\ w # NoPass => BlockSize + i = k
          /\ p = NoPass => j = k
          /\ p # NoPass => BlockSize + j = k
      BY <1>0, <1>5 DEF Skipped
    <2> QED  BY <2>1, <2>2
  <1> HIDE DEF i, j, k
  <1>15. ASSUME NEW key, NEW x, Toggled(key, x) = {}
         PROVE  key = {x}
    BY <1>15 DEF Toggled
  <1>16. /\ w = NoPass => o[k].key = {}
         /\ w # NoPass => o[k].key = {<<w, 0 + i - 1>>}
         /\ p = NoPass => o[k].key = {}
         /\ p # NoPass => o[k].key = {<<p, 0 + j - 1>>}
    BY <1>12, <1>13, <1>14, <1>15
  <1>17. p = w
    <2>1. CASE p = NoPass
      BY <1>16, <2>1
    <2>2. CASE p # NoPass
      <3>1. w # NoPass
        BY <1>16, <2>2
      <3>2. {<<w, 0 + i - 1>>} = {<<p, 0 + j - 1>>}
        BY <1>16, <2>2, <3>1
      <3>3. <<w, 0 + i - 1>> = <<p, 0 + j - 1>>
        BY <3>2
      <3> QED  BY <3>3
    <2> QED  BY <2>1, <2>2
  <1> QED  BY <1>8, <1>17 DEF s

-----------------------------------------------------------------------------
(* Footers are functions from names to places.                             *)
LEMMA FooterIs ==
  ASSUME NEW f \in Footers
  PROVE  /\ DOMAIN f \subseteq SST \cup Meta
         /\ f = [n \in DOMAIN f |-> f[n]]
         /\ \A n \in DOMAIN f : f[n] \in [start : Nat, size : Nat]
  <1>1. PICK D \in SUBSET (SST \cup Meta) : f \in [D -> [start : Nat, size : Nat]]
    BY DEF Footers
  <1> QED  BY <1>1

(* So is every such function a footer.                                     *)
LEMMA IsAFooter ==
  ASSUME NEW D \in SUBSET (SST \cup Meta), NEW f \in [D -> [start : Nat, size : Nat]]
  PROVE  f \in Footers
  BY DEF Footers

(* closeIfOpen completes the open file and leaves the others alone.        *)
LEMMA CloseIfOpenCompletes ==
  ASSUME NEW a, IsArchiveWriter(a)
  PROVE  LET c == closeIfOpen(a) IN
         /\ IsArchiveWriter(c)
         /\ c.openFile = NoFile
         /\ c.written = a.written
         /\ DOMAIN c.footer = DOMAIN a.footer
         /\ closeIfOpen(c) = c
         /\ \A n \in DOMAIN a.footer :
              /\ c.footer[n] = IF n = a.openFile
                               THEN [start |-> a.footer[n].start,
                                     size |-> a.written - a.footer[n].start]
                               ELSE a.footer[n]
              /\ c.footer[n].start + c.footer[n].size <= a.written
  <1> DEFINE c == closeIfOpen(a)
             f == a.footer
             D == DOMAIN f
             h == a.openFile
             w == a.written
  <1>0. /\ a = [footer |-> f, openFile |-> h, written |-> w]
        /\ f \in Footers /\ IsFiniteSet(D) /\ h \in D \cup {NoFile} /\ w \in Nat
        /\ \A n \in D : f[n].start <= w /\ (n # h => f[n].start + f[n].size <= w)
    BY DEF IsArchiveWriter
  <1>1. /\ D \subseteq SST \cup Meta /\ f = [n \in D |-> f[n]]
        /\ \A n \in D : f[n] \in [start : Nat, size : Nat]
    BY <1>0, FooterIs
  <1>2. NoFile \notin D
    BY <1>1, FileAssumption DEF Name
  <1>3. CASE h = NoFile
    <2>1. c = a
      BY <1>3 DEF closeIfOpen
    <2>2. closeIfOpen(c) = c
      BY <1>3, <2>1 DEF closeIfOpen
    <2> QED  BY <1>0, <1>2, <1>3, <2>1, <2>2
  <1>4. CASE h # NoFile
    <2> DEFINE g == [n \in D |-> IF n = h THEN [start |-> f[n].start, size |-> w - f[n].start]
                                 ELSE f[n]]
    <2>1. c = [a EXCEPT !.footer[h].size = w - f[h].start, !.openFile = NoFile]
      BY <1>4 DEF closeIfOpen
    <2> HIDE DEF f, D, h, w, c
    <2>2. [f EXCEPT ![h].size = w - f[h].start] = g
      <3>1. ASSUME NEW n \in D
            PROVE  [f EXCEPT ![h].size = w - f[h].start][n] = g[n]
        <4>1. f[n] = [start |-> f[n].start, size |-> f[n].size]
          BY <1>1
        <4>2. CASE n = h
          BY <1>1, <4>1, <4>2
        <4>3. CASE n # h
          BY <1>1, <4>1, <4>3
        <4> QED  BY <4>2, <4>3
      <3> QED  BY <1>1, <3>1
    <2>3. c = [footer |-> g, openFile |-> NoFile, written |-> w]
      BY <1>0, <2>1, <2>2
    <2> HIDE DEF g
    <2>4. c.footer = g /\ c.openFile = NoFile /\ c.written = w
      BY <2>3
    <2>5. DOMAIN g = D
          /\ \A n \in D : g[n] = IF n = h THEN [start |-> f[n].start, size |-> w - f[n].start]
                                 ELSE f[n]
      BY DEF g
    <2>6. ASSUME NEW n \in D
          PROVE  /\ g[n] \in [start : Nat, size : Nat]
                 /\ g[n].start + g[n].size <= w
                 /\ g[n].start <= w
      <3>0. f[n].start \in Nat /\ f[n].size \in Nat /\ f[n].start <= w
        BY <1>0, <1>1
      <3>1. CASE n = h
        <4>1. g[n] = [start |-> f[n].start, size |-> w - f[n].start]
          BY <2>5, <3>1
        <4>2. w - f[n].start \in Nat /\ f[n].start + (w - f[n].start) <= w
          BY <1>0, <3>0
        <4> QED  BY <3>0, <4>1, <4>2
      <3>2. CASE n # h
        BY <1>0, <1>1, <2>5, <3>0, <3>2
      <3> QED  BY <3>1, <3>2
    <2>7. g \in Footers
      <3>1. g \in [D -> [start : Nat, size : Nat]]
        BY <2>6 DEF g
      <3> QED  BY <1>1, <3>1, IsAFooter
    <2>8. IsArchiveWriter(c)
      BY <1>0, <2>3, <2>4, <2>5, <2>6, <2>7 DEF IsArchiveWriter
    <2>9. closeIfOpen(c) = c
      BY <2>4 DEF closeIfOpen
    <2> QED  BY <2>4, <2>5, <2>6, <2>8, <2>9 DEF c, f, D, h, w
  <1> QED  BY <1>3, <1>4

(* A new file begins where the last one ends, and has what is written.     *)
LEMMA FileWritten ==
  ASSUME NEW a, IsArchiveWriter(a), NEW name \in SST \cup Meta, ~Exists(a, name),
         NEW n \in Nat
  PROVE  LET b == Written(Create(a, name), n) IN
         /\ IsArchiveWriter(b)
         /\ b.written = a.written + n
         /\ DOMAIN b.footer = DOMAIN a.footer \cup {name}
         /\ \A m \in DOMAIN a.footer : closeIfOpen(b).footer[m] = closeIfOpen(a).footer[m]
         /\ closeIfOpen(b).footer[name] = [start |-> a.written, size |-> n]
  <1> DEFINE c == closeIfOpen(a)
             D == DOMAIN a.footer
             w == a.written
             g == [m \in D \cup {name} |-> IF m = name THEN [start |-> w, size |-> 0]
                                           ELSE c.footer[m]]
             b == Written(Create(a, name), n)
  <1>1. /\ IsArchiveWriter(c) /\ c.openFile = NoFile /\ c.written = w /\ DOMAIN c.footer = D
        /\ \A m \in D : c.footer[m].start + c.footer[m].size <= w
    BY CloseIfOpenCompletes
  <1>2. /\ w \in Nat /\ IsFiniteSet(D) /\ a.footer \in Footers /\ name \notin D
    BY DEF IsArchiveWriter, Exists
  <1>3. D \subseteq SST \cup Meta /\ \A m \in D : c.footer[m] \in [start : Nat, size : Nat]
    <2>1. c.footer \in Footers
      BY <1>1 DEF IsArchiveWriter
    <2> QED  BY <1>1, <2>1, FooterIs
  <1>4. c = [footer |-> c.footer, openFile |-> c.openFile, written |-> c.written]
    BY <1>1 DEF IsArchiveWriter
  <1>5. Create(a, name) = [c EXCEPT !.openFile = name, !.footer = g]
    BY <1>1 DEF Create, Exists
  <1> HIDE DEF c, D, w, g
  <1>6. b = [footer |-> g, openFile |-> name, written |-> w + n]
    <2> DEFINE d == Create(a, name)
    <2>1. b = [d EXCEPT !.written = @ + n]
      BY DEF Written
    <2>2. d = [footer |-> g, openFile |-> name, written |-> w]
      BY <1>1, <1>4, <1>5
    <2> HIDE DEF b, d
    <2> QED  BY <2>1, <2>2
  <1> HIDE DEF b
  <1>7. b.footer = g /\ b.openFile = name /\ b.written = w + n
    BY <1>6
  <1>8. /\ DOMAIN g = D \cup {name}
        /\ g[name] = [start |-> w, size |-> 0]
        /\ \A m \in D : g[m] = c.footer[m]
    BY <1>2 DEF g
  <1>9. ASSUME NEW m \in D \cup {name}
        PROVE  /\ g[m] \in [start : Nat, size : Nat]
               /\ g[m].start <= w + n
               /\ m # name => g[m].start + g[m].size <= w + n
    <2>1. CASE m = name
      BY <1>2, <1>8, <2>1
    <2>2. CASE m # name
      <3>1. g[m] = c.footer[m] /\ c.footer[m].start \in Nat /\ c.footer[m].size \in Nat
            /\ c.footer[m].start + c.footer[m].size <= w
            /\ c.footer[m] \in [start : Nat, size : Nat]
        BY <1>1, <1>3, <1>8, <2>2
      <3> QED  BY <1>2, <3>1
    <2> QED  BY <2>1, <2>2
  <1>10. g \in Footers
    <2>1. g \in [D \cup {name} -> [start : Nat, size : Nat]]
      BY <1>9 DEF g
    <2>2. D \cup {name} \in SUBSET (SST \cup Meta)
      BY <1>3
    <2> QED  BY <2>1, <2>2, IsAFooter
  <1>11. IsFiniteSet(D \cup {name})
    BY <1>2, FS_AddElement
  <1>12. IsArchiveWriter(b)
    <2>1. b = [footer |-> b.footer, openFile |-> b.openFile, written |-> b.written]
      BY <1>6
    <2>2. w + n \in Nat
      BY <1>2
    <2> QED  BY <1>7, <1>8, <1>9, <1>10, <1>11, <2>1, <2>2 DEF IsArchiveWriter
  <1>13. \A m \in DOMAIN b.footer :
           closeIfOpen(b).footer[m] = IF m = b.openFile
                                      THEN [start |-> b.footer[m].start,
                                            size |-> b.written - b.footer[m].start]
                                      ELSE b.footer[m]
    BY <1>12, CloseIfOpenCompletes
  <1>14. \A m \in D : closeIfOpen(b).footer[m] = c.footer[m]
    BY <1>2, <1>7, <1>8, <1>13
  <1>15. closeIfOpen(b).footer[name] = [start |-> w, size |-> n]
    <2>1. g[name].start = w /\ w + n - w = n /\ name \in DOMAIN b.footer
      BY <1>2, <1>7, <1>8
    <2>2. closeIfOpen(b).footer[name] =
            [start |-> b.footer[name].start, size |-> b.written - b.footer[name].start]
      BY <1>7, <1>13, <2>1
    <2>3. b.footer[name].start = w /\ b.written - w = n
      BY <1>2, <1>7, <2>1
    <2> QED  BY <2>2, <2>3
  <1> QED  BY <1>7, <1>8, <1>12, <1>14, <1>15 DEF b, c, D, w

-----------------------------------------------------------------------------
(* A part of a stream stays what it is when the stream grows, ...          *)
LEMMA PartStays ==
  ASSUME NEW s \in Seq(Byte(Val)), NEW t \in Seq(Byte(Val)),
         NEW info \in [start : Nat, size : Nat], info.start + info.size <= Len(s)
  PROVE  /\ Part(s \o t, info) = Part(s, info)
         /\ Part(s, info) \in Seq(Byte(Val))
         /\ Len(Part(s, info)) = info.size
  <1> DEFINE st == s \o t
             m == info.start
             n == info.start + info.size
             x == SubSeq(s, m + 1, n)
             y == SubSeq(st, m + 1, n)
  <1>1. /\ st \in Seq(Byte(Val)) /\ Len(st) = Len(s) + Len(t)
        /\ \A i \in 1 .. Len(s) + Len(t) : st[i] = IF i <= Len(s) THEN s[i] ELSE t[i - Len(s)]
    BY ConcatProperties
  <1> HIDE DEF st
  <1>2. /\ m \in Nat /\ n \in Nat /\ m <= n /\ n <= Len(s) /\ n <= Len(st) /\ n - m = info.size
        /\ Len(s) \in Nat /\ Len(t) \in Nat
    BY <1>1
  <1>3. Part(s, info) = x /\ Part(st, info) = y
    BY DEF Part
  <1> HIDE DEF m, n
  <1>4. x \in Seq(Byte(Val)) /\ Len(x) = n - m /\ \A i \in 1 .. n - m : x[i] = s[m + i]
    BY <1>2, SectionOf
  <1>5. y \in Seq(Byte(Val)) /\ Len(y) = n - m /\ \A i \in 1 .. n - m : y[i] = st[m + i]
    BY <1>1, <1>2, SectionOf
  <1> HIDE DEF x, y
  <1>6. ASSUME NEW i \in 1 .. n - m
        PROVE  y[i] = x[i]
    <2>1. m + i \in 1 .. Len(s) + Len(t) /\ m + i <= Len(s)
      BY <1>2
    <2> QED  BY <1>1, <1>4, <1>5, <2>1
  <1>7. y = x
    BY <1>4, <1>5, <1>6, SeqEqual
  <1> QED  BY <1>2, <1>3, <1>4, <1>7 DEF st

(* ... and what is appended is the part behind it.                         *)
LEMMA PartAppended ==
  ASSUME NEW s \in Seq(Byte(Val)), NEW t \in Seq(Byte(Val))
  PROVE  Part(s \o t, [start |-> Len(s), size |-> Len(t)]) = t
  <1> DEFINE st == s \o t
             m == Len(s)
             n == Len(s) + Len(t)
             y == SubSeq(st, m + 1, n)
  <1>1. /\ st \in Seq(Byte(Val)) /\ Len(st) = Len(s) + Len(t)
        /\ \A i \in 1 .. Len(s) + Len(t) : st[i] = IF i <= Len(s) THEN s[i] ELSE t[i - Len(s)]
    BY ConcatProperties
  <1>2. Part(st, [start |-> Len(s), size |-> Len(t)]) = y
    BY DEF Part
  <1> HIDE DEF st
  <1>3. m \in Nat /\ n \in Nat /\ m <= n /\ n <= Len(st) /\ n - m = Len(t) /\ Len(t) \in Nat
        /\ m = Len(s) /\ n = Len(s) + Len(t)
    BY <1>1
  <1> HIDE DEF m, n
  <1>4. y \in Seq(Byte(Val)) /\ Len(y) = n - m /\ \A i \in 1 .. n - m : y[i] = st[m + i]
    BY <1>1, <1>3, SectionOf
  <1> HIDE DEF y
  <1>5. ASSUME NEW i \in 1 .. Len(t)
        PROVE  y[i] = t[i]
    <2>1. m + i \in 1 .. Len(s) + Len(t) /\ ~(m + i <= Len(s)) /\ m + i - Len(s) = i
      BY <1>3
    <2> QED  BY <1>1, <1>3, <1>4, <2>1
  <1>6. y = t
    BY <1>3, <1>4, <1>5, SeqEqual
  <1> QED  BY <1>2, <1>6 DEF st

-----------------------------------------------------------------------------
(* The body of a request says what is in a file.                           *)
LEMMA BodySaid ==
  ASSUME puts \in Nat, NEW name \in Name, NEW n \in Nat
  PROVE  /\ Body(name, n) \in Seq(Byte(Said))
         /\ Body(name, n) \in Seq(Byte(Val))
         /\ Len(Body(name, n)) = n
         /\ Body(name, n) = <<>> <=> n = 0
  <1> DEFINE b == Body(name, n)
  <1>1. \A i \in 1 .. n : Plain(<<"file", name, puts, i>>) \in Byte(Said)
    BY DEF Plain, Byte, Said
  <1>2. b \in Seq(Byte(Said)) /\ Len(b) = n
    BY <1>1 DEF Body
  <1> HIDE DEF b
  <1>3. b \in Seq(Byte(Val))
    BY <1>2, SaidBytes
  <1>4. b = <<>> <=> n = 0
    BY <1>2, EmptySeq
  <1> QED  BY <1>2, <1>3, <1>4 DEF b

(* A file of the archive is a part of the stream, and stays the same part. *)
LEMMA FilePart ==
  ASSUME NEW a, IsArchiveWriter(a), NEW s \in Seq(Byte(Val)), a.written <= Len(s),
         NEW n \in DOMAIN a.footer, NEW t \in Seq(Byte(Val))
  PROVE  LET info == closeIfOpen(a).footer[n] IN
         /\ info \in [start : Nat, size : Nat]
         /\ info.start + info.size <= Len(s)
         /\ Part(s \o t, info) = Part(s, info)
  <1> DEFINE c == closeIfOpen(a)
             info == c.footer[n]
  <1>1. /\ IsArchiveWriter(c) /\ DOMAIN c.footer = DOMAIN a.footer
        /\ info.start + info.size <= a.written
    BY CloseIfOpenCompletes
  <1>2. info \in [start : Nat, size : Nat]
    <2>1. c.footer \in Footers
      BY <1>1 DEF IsArchiveWriter
    <2> QED  BY <1>1, <2>1, FooterIs
  <1> HIDE DEF c
  <1>3. info.start + info.size <= Len(s)
    <2>1. a.written \in Nat /\ Len(s) \in Nat /\ info.start \in Nat /\ info.size \in Nat
      BY <1>2 DEF IsArchiveWriter
    <2> QED  BY <1>1, <2>1
  <1> HIDE DEF info
  <1>4. Part(s \o t, info) = Part(s, info)
    BY <1>2, <1>3, PartStays
  <1> QED  BY <1>2, <1>3, <1>4 DEF info, c

(* The last bytes of the stream are those waiting in the crypto-writer.    *)
LEMMA BufferIsEnd ==
  ASSUME NEW kept, NEW d, IsOpenDest(d), IsArchive(Stream(d), kept) \/ NoFooter(Stream(d))
  PROVE  d.buf \in Seq(Byte(Said))
  <1>0. /\ BlockSize \in Nat \ {0} /\ NoPass \notin Pass
        /\ FooterPad \in Nat /\ BlockSize <= FooterPad
    BY CryptoAssumption, ArchiveAssumption
  <1>1. CASE d.pass = NoPass
    <2>1. d.buf = <<>>
      BY <1>1 DEF IsOpenDest, IsDest
    <2> QED  BY <2>1
  <1>2. CASE d.pass # NoPass
    <2> DEFINE b == d.buf
               o == d.out
               x == Payload(o)
               y == XORKeyStreamAt(x, d.pass, 0)
               s == y \o b
    <2>1. /\ b \in Seq(Byte(Val)) /\ Len(b) < BlockSize /\ o \in Seq(Byte(Val))
          /\ d.pass \in Pass /\ BlockSize <= Len(o)
      BY <1>2 DEF IsOpenDest, IsDest, HasHeader
    <2>2. x \in Seq(Byte(Val))
      BY <2>1, PayloadOf
    <2>3. y \in Seq(Byte(Val))
      BY <2>1, <2>2, XORBytes
    <2>4. Stream(d) = s
      BY <1>2 DEF Stream, Payload
    <2> HIDE DEF y
    <2>5. /\ s \in Seq(Byte(Val)) /\ Len(s) = Len(y) + Len(b)
          /\ \A i \in 1 .. Len(y) + Len(b) : s[i] = IF i <= Len(y) THEN y[i] ELSE b[i - Len(y)]
      BY <2>1, <2>3, ConcatProperties
    <2> HIDE DEF s
    <2>6. /\ FooterPad <= Len(s)
          /\ \A i \in Len(s) - FooterPad + 2 .. Len(s) : s[i].val \in Said
      <3>1. IsArchive(s, kept) \/ NoFooter(s)
        BY <2>4
      <3> QED  BY <2>5, <3>1, BehindFooter
    <2> HIDE DEF b
    <2>7. ASSUME NEW i \in 1 .. Len(b)
          PROVE  b[i] \in Byte(Said)
      <3> DEFINE j == Len(y) + i
      <3>1. Len(y) \in Nat /\ Len(b) \in Nat
        BY <2>1, <2>3
      <3>2. /\ j \in Len(s) - FooterPad + 2 .. Len(s) /\ j \in 1 .. Len(y) + Len(b)
            /\ ~(j <= Len(y)) /\ j - Len(y) = i
        BY <1>0, <2>1, <2>5, <3>1
      <3> HIDE DEF j
      <3>3. s[j] = b[i] /\ s[j].val \in Said
        BY <2>5, <2>6, <3>2
      <3>4. b[i] \in Byte(Val)
        BY <2>1, ElementOfSeq
      <3> QED  BY <3>3, <3>4 DEF Byte
    <2>8. b \in Seq(Byte(Said))
      BY <2>1, <2>7
    <2> QED  BY <2>8 DEF b
  <1> QED  BY <1>1, <1>2

-----------------------------------------------------------------------------
(* What is kept is determined by where the files are.                      *)
LEMMA SameKept ==
  ASSUME UNCHANGED <<memFS, dest, engine>>,
         DOMAIN aw'.footer = DOMAIN aw.footer,
         \A n \in DOMAIN aw.footer : closeIfOpen(aw').footer[n] = closeIfOpen(aw).footer[n]
  PROVE  Kept' = Kept
  BY DEF Kept, Exists

(* A repeated upload of an .sst file closes the open file, no more.        *)
LEMMA PutSSTRefused ==
  ASSUME TypeOK, WriterInv,
         NEW name \in SST, NEW len \in Nat, NEW n \in 0 .. len,
         PutSST(name, len, n), Exists(aw, name)
  PROVE  WriterInv' /\ Kept' = Kept
  <1>1. /\ aw' = closeIfOpen(aw)
        /\ UNCHANGED <<dest, told, late, engine, pass, phase, result, memFS, todo, final,
                       contents>>
    BY DEF PutSST, Create
  <1>2. phase # "copy" /\ waiting > 0
    BY DEF PutSST, Served
  <1>3. engine = "cockroach"
    BY <1>2 DEF TypeOK, WriterInv, PostgresOK
  <1>4. IsArchiveWriter(aw)
    BY DEF WriterInv, ArchiveOK
  <1>5. /\ IsArchiveWriter(aw') /\ aw'.written = aw.written
        /\ DOMAIN aw'.footer = DOMAIN aw.footer /\ closeIfOpen(aw') = aw'
    BY <1>1, <1>4, CloseIfOpenCompletes
  <1>6. Kept' = Kept
    BY <1>1, <1>5, SameKept
  <1>7. DestOK'
    BY <1>1 DEF WriterInv, DestOK, Open
  <1>8. ArchiveOK'
    BY <1>1, <1>5 DEF WriterInv, ArchiveOK, Open
  <1>9. CopyOK'
    BY <1>1, <1>2 DEF CopyOK
  <1>10. PostgresOK'
    BY <1>1, <1>3 DEF WriterInv, PostgresOK, Open
  <1>11. ToldSoFar'
    BY <1>1, <1>6 DEF WriterInv, ToldSoFar, Open
  <1>12. ToldKept'
    BY <1>1 DEF WriterInv, ToldKept
  <1>13. FlushedOK'
    BY <1>1 DEF WriterInv, FlushedOK, NoFooter, HasFiles, IsArchive
  <1>14. SealedOK'
    BY <1>1 DEF WriterInv, SealedOK, NoFooter, HasFiles, IsArchive, Ended
  <1> QED  BY <1>6, <1>7, <1>8, <1>9, <1>10, <1>11, <1>12, <1>13, <1>14 DEF WriterInv

(* A new .sst file while the statement runs is what is sent of it, and all *)
(* others stay as they are.                                                *)
LEMMA PutSSTOpen ==
  ASSUME TypeOK, WriterInv,
         NEW name \in SST, NEW len \in Nat, NEW n \in 0 .. len,
         PutSST(name, len, n), ~Exists(aw, name), Open
  PROVE  WriterInv' /\ \A m \in Name \ {name} : Kept'[m] = Kept[m]
  <1> DEFINE b == Body(name, n)
             s == Stream(dest)
             t == Stream(dest')
  <1>1. /\ aw' = Written(Create(aw, name), n)
        /\ dest' = WriteTo(dest, b)
        /\ Tell(name, IF n = len THEN Body(name, len) ELSE Unknown)
        /\ late' = (late \/ (~Running /\ n > 0))
        /\ UNCHANGED <<engine, pass, phase, result, memFS, todo, final, contents>>
    BY DEF PutSST
  <1>2. phase \in {"exec", "close"} /\ waiting > 0
    BY DEF PutSST, Served, Open
  <1>3. engine = "cockroach" /\ late' = late
    BY <1>1, <1>2 DEF TypeOK, WriterInv, PostgresOK, Running
  <1>4. /\ IsArchiveWriter(aw) /\ aw.written = Len(s)
        /\ IsOpenDest(dest) /\ dest.pass = pass
    BY <1>3 DEF WriterInv, ArchiveOK, DestOK
  <1>5. b \in Seq(Byte(Val)) /\ Len(b) = n
    <2>1. name \in Name /\ puts \in Nat /\ n \in Nat
      BY FileAssumption DEF Name, TypeOK
    <2> QED  BY <2>1, BodySaid
  <1> HIDE DEF b
  <1>6. /\ IsOpenDest(dest') /\ dest'.pass = pass /\ s \in Seq(Byte(Val)) /\ t = s \o b
    BY <1>1, <1>4, <1>5, WriteToAppends
  <1>7. /\ IsArchiveWriter(aw') /\ aw'.written = Len(s) + n
        /\ DOMAIN aw'.footer = DOMAIN aw.footer \cup {name}
        /\ \A m \in DOMAIN aw.footer : closeIfOpen(aw').footer[m] = closeIfOpen(aw).footer[m]
        /\ closeIfOpen(aw').footer[name] = [start |-> Len(s), size |-> n]
    <2>1. name \in SST \cup Meta /\ n \in Nat
      OBVIOUS
    <2> QED  BY <1>1, <1>4, <2>1, FileWritten
  <1>8. Len(t) = Len(s) + n
    BY <1>5, <1>6, ConcatProperties
  <1>9. name \notin DOMAIN memFS /\ name # Dump
    BY FileAssumption DEF TypeOK
  <1>10. ASSUME NEW m \in Name \ {name}
         PROVE  Kept'[m] = Kept[m]
    <2>1. CASE m \in SST /\ m \notin DOMAIN memFS /\ Exists(aw, m)
      <3>1. Part(t, closeIfOpen(aw').footer[m]) = Part(s, closeIfOpen(aw).footer[m])
        <4>1. m \in DOMAIN aw.footer /\ aw.written <= Len(s)
          BY <1>4, <1>6, <2>1 DEF Exists
        <4>2. Part(s \o b, closeIfOpen(aw).footer[m]) = Part(s, closeIfOpen(aw).footer[m])
          BY <1>4, <1>5, <1>6, <4>1, FilePart
        <4> QED  BY <1>6, <1>7, <4>1, <4>2
      <3>2. Exists(aw', m)
        BY <1>7, <2>1 DEF Exists
      <3> QED  BY <1>1, <2>1, <3>1, <3>2 DEF Kept
    <2>2. CASE m \in DOMAIN memFS
      BY <1>1, <2>2 DEF Kept
    <2>3. CASE m \notin DOMAIN memFS /\ ~(m \in SST /\ Exists(aw, m))
      <3>1. ~(m \in SST /\ Exists(aw', m))
        BY <1>7, <2>3 DEF Exists
      <3> QED  BY <1>1, <1>3, <2>3, <3>1 DEF Kept
    <2> QED  BY <2>1, <2>2, <2>3
  <1>11. Kept'[name] = b
    <2>1. Part(t, closeIfOpen(aw').footer[name]) = b
      BY <1>5, <1>6, <1>7, PartAppended
    <2>2. Exists(aw', name) /\ name \in Name /\ name \notin DOMAIN memFS'
      BY <1>1, <1>7, <1>9 DEF Exists, Name
    <2> QED  BY <2>1, <2>2 DEF Kept
  <1>12. DestOK'
    BY <1>1, <1>6 DEF DestOK, IsOpenDest
  <1>13. ArchiveOK'
    <2>1. DOMAIN aw'.footer \subseteq SST
      BY <1>2, <1>7 DEF WriterInv, ArchiveOK
    <2>2. aw'.written = Len(t)
      BY <1>7, <1>8
    <2> QED  BY <1>1, <1>7, <2>1, <2>2 DEF WriterInv, ArchiveOK
  <1>14. CopyOK' /\ FlushedOK' /\ SealedOK' /\ ToldKept'
    BY <1>1, <1>2 DEF CopyOK, FlushedOK, SealedOK, Ended, ToldKept
  <1>15. PostgresOK'
    BY <1>1, <1>3 DEF WriterInv, PostgresOK, Open
  <1>16. ToldSoFar'
    <2> SUFFICES ASSUME NEW m \in SST \cup Meta, told'[m] # Unknown
                 PROVE  Kept'[m] = told'[m]
      BY DEF ToldSoFar
    <2>0. /\ told' = [told EXCEPT ![name] = IF n = len THEN Body(name, len) ELSE Unknown]
          /\ DOMAIN told = Name /\ m \in Name /\ name \in Name
      BY <1>1, <1>2 DEF Tell, Running, TypeOK, Name
    <2>1. CASE m = name
      <3>1. n = len /\ told'[m] = Body(name, len)
        BY <2>0, <2>1
      <3> QED  BY <1>11, <2>1, <3>1 DEF b
    <2>2. CASE m # name
      <3>1. told'[m] = told[m]
        BY <2>0, <2>2
      <3>2. Kept[m] = told[m]
        BY <1>3, <3>1 DEF WriterInv, ToldSoFar
      <3> QED  BY <1>10, <2>0, <2>2, <3>1, <3>2
    <2> QED  BY <2>1, <2>2
  <1> QED  BY <1>10, <1>12, <1>13, <1>14, <1>15, <1>16 DEF WriterInv

(* A new .sst file after the footer spoils the archive.                    *)
LEMMA PutSSTLate ==
  ASSUME TypeOK, WriterInv,
         NEW name \in SST, NEW len \in Nat, NEW n \in 0 .. len,
         PutSST(name, len, n), ~Exists(aw, name), ~Open
  PROVE  WriterInv'
  <1> DEFINE b == Body(name, n)
  <1>1. /\ aw' = Written(Create(aw, name), n)
        /\ dest' = WriteTo(dest, b)
        /\ Tell(name, IF n = len THEN Body(name, len) ELSE Unknown)
        /\ late' = (late \/ (~Running /\ n > 0))
        /\ UNCHANGED <<engine, pass, phase, result, memFS, todo, final, contents>>
    BY DEF PutSST
  <1>2. phase \in {"flushed", "sealed"} /\ waiting > 0
    BY DEF PutSST, Served, Open
  <1>3. engine = "cockroach" /\ (late' <=> late \/ n > 0) /\ told' = told
    <2>1. ~Running
      BY <1>2 DEF Running
    <2>2. engine = "cockroach"
      BY <1>2 DEF TypeOK, WriterInv, PostgresOK
    <2>3. told' = told
      BY <1>1, <2>1 DEF Tell
    <2>4. late' <=> (late \/ n > 0)
      BY <1>1, <2>1
    <2> QED  BY <2>2, <2>3, <2>4
  <1>4. IsArchiveWriter(aw) /\ IsDest(dest) /\ dest.pass = pass /\ pass \in Pass \cup {NoPass}
    BY DEF WriterInv, ArchiveOK, DestOK, TypeOK
  <1>5. /\ b \in Seq(Byte(Said)) /\ b \in Seq(Byte(Val)) /\ Len(b) = n /\ (b = <<>> <=> n = 0)
        /\ n \in Nat
    <2>1. name \in Name /\ puts \in Nat /\ n \in Nat
      BY FileAssumption DEF Name, TypeOK
    <2> QED  BY <2>1, BodySaid
  <1> HIDE DEF b
  <1>6. IsArchiveWriter(aw')
    <2>1. name \in SST \cup Meta /\ n \in Nat
      OBVIOUS
    <2> QED  BY <1>1, <1>4, <2>1, FileWritten
  <1>7. DestOK' /\ FlushedOK' /\ SealedOK'
    <2>1. CASE phase = "flushed"
      <3>1. IsOpenDest(dest)
        BY <2>1 DEF WriterInv, DestOK
      <3>2. /\ IsOpenDest(dest') /\ dest'.pass = pass /\ Stream(dest) \in Seq(Byte(Val))
            /\ Stream(dest') = Stream(dest) \o b
        BY <1>1, <1>4, <1>5, <3>1, WriteToAppends
      <3>3. FlushedOK'
        <4>1. CASE n = 0
          <5>1. dest' = dest
            BY <1>1, <1>5, <4>1 DEF WriteTo
          <5>2. late' <=> late
            BY <1>3, <4>1
          <5> QED  BY <1>1, <5>1, <5>2 DEF WriterInv, FlushedOK, HasFiles
        <4>2. CASE n > 0
          <5>1. IsArchive(Stream(dest), final) \/ NoFooter(Stream(dest))
            BY <1>3, <2>1 DEF WriterInv, FlushedOK, HasFiles
          <5>2. NoFooter(Stream(dest) \o b)
            <6>1. b # <<>>
              BY <1>5, <4>2
            <6> QED  BY <1>5, <3>2, <5>1, <6>1, FooterLost
          <5>3. NoFooter(Stream(dest'))
            BY <3>2, <5>2
          <5> QED  BY <1>3, <4>2, <5>3 DEF FlushedOK
        <4> QED  BY <1>5, <4>1, <4>2
      <3> QED  BY <1>1, <2>1, <3>2, <3>3 DEF DestOK, SealedOK, Ended, Open, IsOpenDest
    <2>2. CASE phase = "sealed"
      <3> DEFINE o == dest.out
                 v == View(o, pass)
      <3>1. /\ dest.buf \in Seq(Byte(Said))
            /\ (late /\ NoFooter(v)) \/ IsArchive(v, final)
        BY <1>3, <2>2 DEF WriterInv, SealedOK, Ended, HasFiles
      <3>2. /\ IsDest(dest') /\ dest'.pass = pass /\ dest'.buf \in Seq(Byte(Said))
            /\ \E q \in Seq(Byte(Said)) : dest'.out = o \o q /\ (b = <<>> => q = <<>>)
        BY <1>1, <1>4, <1>5, <3>1, LateWrite
      <3>3. PICK q \in Seq(Byte(Said)) : dest'.out = o \o q /\ (b = <<>> => q = <<>>)
        BY <3>2
      <3>4. o \in Seq(Byte(Val)) /\ (pass # NoPass => BlockSize <= Len(o))
        BY <1>4 DEF IsDest, HasHeader
      <3>5. PICK r \in Seq(Byte(Said)) : Len(r) = Len(q) /\ View(o \o q, pass) = v \o r
        BY <1>4, <3>4, ViewGrows
      <3>6. v \in Seq(Byte(Val))
        BY <1>4, <3>4, ViewOf
      <3> HIDE DEF v
      <3>7. (late' /\ NoFooter(v \o r)) \/ IsArchive(v \o r, final)
        <4>1. CASE r = <<>>
          <5>1. v \o r = v
            BY <3>6, <4>1, ConcatEmptySeq
          <5> QED  BY <1>3, <3>1, <5>1
        <4>2. CASE r # <<>>
          <5>1. NoFooter(v \o r)
            BY <3>1, <3>6, <4>2, FooterLost
          <5>2. q # <<>>
            BY <3>5, <4>2, EmptySeq
          <5>3. n > 0
            BY <1>5, <3>3, <5>2
          <5> QED  BY <1>3, <5>1, <5>3
        <4> QED  BY <4>1, <4>2
      <3>8. View(dest'.out, pass') = v \o r
        BY <1>1, <3>3, <3>5
      <3>9. SealedOK'
        <4>1. \/ late' /\ NoFooter(View(dest'.out, pass'))
              \/ IsArchive(View(dest'.out, pass'), final)
          BY <3>7, <3>8
        <4> QED  BY <1>1, <1>3, <3>2, <4>1 DEF SealedOK, HasFiles
      <3> QED  BY <1>1, <2>2, <3>2, <3>9 DEF DestOK, FlushedOK, Open
    <2> QED  BY <1>2, <2>1, <2>2
  <1>8. ArchiveOK'
    BY <1>1, <1>2, <1>6 DEF WriterInv, ArchiveOK, Open
  <1>9. CopyOK' /\ ToldSoFar'
    BY <1>1, <1>2 DEF CopyOK, ToldSoFar, Open
  <1>10. PostgresOK'
    BY <1>1, <1>2, <1>3 DEF PostgresOK, Open
  <1>11. ToldKept'
    BY <1>1, <1>3 DEF WriterInv, ToldKept
  <1> QED  BY <1>7, <1>8, <1>9, <1>10, <1>11 DEF WriterInv

(* A meta-file in memory is what has been sent of it, ...                  *)
LEMMA PutMetaKeeps ==
  ASSUME TypeOK, WriterInv,
         NEW name \in Meta, NEW len \in Nat, NEW n \in 0 .. len,
         PutMeta(name, len, n)
  PROVE  WriterInv' /\ \A m \in Name \ {name} : Kept'[m] = Kept[m]
  <1> DEFINE b == Body(name, n)
  <1>1. /\ memFS' = [m \in DOMAIN memFS \cup {name} |-> IF m = name THEN b ELSE memFS[m]]
        /\ Tell(name, IF n = len THEN Body(name, len) ELSE Unknown)
        /\ UNCHANGED <<engine, pass, phase, result, dest, aw, todo, final, contents, late>>
    BY DEF PutMeta
  <1>2. phase \in {"exec", "close", "flushed", "sealed"} /\ waiting > 0
    BY DEF PutMeta, Served
  <1>3. engine = "cockroach"
    BY <1>2 DEF TypeOK, WriterInv, PostgresOK
  <1>4. b \in Seq(Byte(Said)) /\ name \in Name
    <2>1. name \in Name /\ puts \in Nat /\ n \in Nat
      BY FileAssumption DEF Name, TypeOK
    <2> QED  BY <2>1, BodySaid
  <1>b. b = Body(name, n)
    OBVIOUS
  <1> HIDE DEF b
  <1>5. ASSUME NEW m \in Name \ {name}
        PROVE  Kept'[m] = Kept[m]
    BY <1>1 DEF Kept
  <1>6. Kept'[name] = b
    BY <1>1, <1>4 DEF Kept
  <1>7. DestOK' /\ FlushedOK' /\ SealedOK'
    BY <1>1 DEF WriterInv, DestOK, Open, FlushedOK, SealedOK, Ended, HasFiles
  <1>8. ArchiveOK'
    <2>1. \A m \in DOMAIN memFS' : memFS'[m] \in Seq(Byte(Said))
      BY <1>1, <1>4 DEF WriterInv, ArchiveOK
    <2> QED  BY <1>1, <2>1 DEF WriterInv, ArchiveOK, Open
  <1>9. CopyOK'
    BY <1>1, <1>2 DEF CopyOK
  <1>10. PostgresOK'
    BY <1>1, <1>3 DEF WriterInv, PostgresOK, Open
  <1>11. ToldSoFar'
    <2> SUFFICES ASSUME Open, NEW m \in SST \cup Meta, told'[m] # Unknown
                 PROVE  Kept'[m] = told'[m]
      BY <1>1 DEF ToldSoFar, Open
    <2>0. /\ told' = [told EXCEPT ![name] = IF n = len THEN Body(name, len) ELSE Unknown]
          /\ DOMAIN told = Name /\ m \in Name /\ name \in Name
      BY <1>1, <1>2 DEF Tell, Running, TypeOK, Name, Open
    <2>1. CASE m = name
      <3>1. n = len /\ told'[m] = Body(name, len)
        BY <2>0, <2>1
      <3> QED  BY <1>6, <1>b, <2>1, <3>1
    <2>2. CASE m # name
      <3>1. told'[m] = told[m]
        BY <2>0, <2>2
      <3>2. Kept[m] = told[m]
        BY <1>3, <3>1 DEF WriterInv, ToldSoFar
      <3> QED  BY <1>5, <2>0, <2>2, <3>1, <3>2
    <2> QED  BY <2>1, <2>2
  <1>12. ToldKept'
    <2>1. phase \notin {"exec", "close"} => told' = told
      BY <1>1 DEF Tell, Running
    <2> QED  BY <1>1, <2>1 DEF WriterInv, ToldKept
  <1> QED  BY <1>5, <1>7, <1>8, <1>9, <1>10, <1>11, <1>12 DEF WriterInv

(* ... or is gone when it has been deleted.                                *)
LEMMA DeleteMetaKeeps ==
  ASSUME TypeOK, WriterInv, NEW name \in Meta, DeleteMeta(name)
  PROVE  WriterInv' /\ \A m \in Name \ {name} : Kept'[m] = Kept[m]
  <1>1. /\ memFS' = [m \in DOMAIN memFS \ {name} |-> memFS[m]]
        /\ Tell(name, Missing)
        /\ UNCHANGED <<engine, pass, phase, result, dest, aw, todo, final, contents, late>>
    BY DEF DeleteMeta, Forgotten
  <1>2. phase \in {"exec", "close", "flushed", "sealed"} /\ waiting > 0
    BY DEF DeleteMeta, Served
  <1>3. engine = "cockroach"
    BY <1>2 DEF TypeOK, WriterInv, PostgresOK
  <1>4. name \in Name /\ name \notin SST /\ name # Dump
    BY FileAssumption DEF Name
  <1>5. ASSUME NEW m \in Name \ {name}
        PROVE  Kept'[m] = Kept[m]
    BY <1>1 DEF Kept
  <1>6. Kept'[name] = Missing
    BY <1>1, <1>4 DEF Kept
  <1>7. DestOK' /\ FlushedOK' /\ SealedOK'
    BY <1>1 DEF WriterInv, DestOK, Open, FlushedOK, SealedOK, Ended, HasFiles
  <1>8. ArchiveOK'
    BY <1>1 DEF WriterInv, ArchiveOK, Open
  <1>9. CopyOK'
    BY <1>1, <1>2 DEF CopyOK
  <1>10. PostgresOK'
    BY <1>1, <1>3 DEF WriterInv, PostgresOK, Open
  <1>11. ToldSoFar'
    <2> SUFFICES ASSUME Open, NEW m \in SST \cup Meta, told'[m] # Unknown
                 PROVE  Kept'[m] = told'[m]
      BY <1>1 DEF ToldSoFar, Open
    <2>0. /\ told' = [told EXCEPT ![name] = Missing]
          /\ DOMAIN told = Name /\ m \in Name /\ name \in Name
      BY <1>1, <1>2 DEF Tell, Running, TypeOK, Name, Open
    <2>1. CASE m = name
      BY <1>6, <2>0, <2>1
    <2>2. CASE m # name
      <3>1. told'[m] = told[m]
        BY <2>0, <2>2
      <3>2. Kept[m] = told[m]
        BY <1>3, <3>1 DEF WriterInv, ToldSoFar
      <3> QED  BY <1>5, <2>0, <2>2, <3>1, <3>2
    <2> QED  BY <2>1, <2>2
  <1>12. ToldKept'
    <2>1. phase \notin {"exec", "close"} => told' = told
      BY <1>1 DEF Tell, Running
    <2> QED  BY <1>1, <2>1 DEF WriterInv, ToldKept
  <1> QED  BY <1>5, <1>7, <1>8, <1>9, <1>10, <1>11, <1>12 DEF WriterInv

(* A request that changes nothing, or waits, and the end of the statement. *)
LEMMA OtherRequestKeeps ==
  ASSUME TypeOK, WriterInv,
         Arrive \/ ServeOther \/ \E r \in {"ok", "err"} : StatementEnds(r)
  PROVE  WriterInv' /\ Kept' = Kept /\ Open' = Open
  <1>1. /\ UNCHANGED <<engine, pass, dest, aw, memFS, todo, history>>
        /\ phase' = phase \/ (phase = "exec" /\ phase' = "close")
        /\ engine = "cockroach"
    <2>1. waiting > 0 => engine = "cockroach"
      BY DEF TypeOK, WriterInv, PostgresOK
    <2> QED  BY <2>1 DEF Arrive, ServeOther, Served, StatementEnds, writer
  <1>2. Kept' = Kept
    BY <1>1, SameKept
  <1>3. Open' = Open
    BY <1>1 DEF Open
  <1>4. DestOK'
    BY <1>1 DEF history, WriterInv, DestOK, Open
  <1>5. ArchiveOK'
    BY <1>1 DEF history, WriterInv, ArchiveOK, Open
  <1>6. CopyOK'
    BY <1>1 DEF history, WriterInv, CopyOK
  <1>7. PostgresOK'
    BY <1>1 DEF history, WriterInv, PostgresOK, Open
  <1>8. ToldSoFar'
    BY <1>1, <1>2 DEF history, WriterInv, ToldSoFar, Open
  <1>9. ToldKept'
    BY <1>1 DEF history, WriterInv, ToldKept
  <1>10. FlushedOK' /\ SealedOK'
    BY <1>1 DEF history, WriterInv, FlushedOK, SealedOK, Ended, HasFiles
  <1> QED  BY <1>2, <1>3, <1>4, <1>5, <1>6, <1>7, <1>8, <1>9, <1>10 DEF WriterInv

(* Close begins.                                                           *)
LEMMA CloseLockedKeeps ==
  ASSUME TypeOK, WriterInv, CloseLocked
  PROVE  WriterInv' /\ Kept' = Kept
  <1>1. /\ phase = "close" /\ phase' = "copy" /\ todo' = DOMAIN memFS
        /\ UNCHANGED <<engine, pass, result, dest, aw, memFS, waiting, puts, history>>
    BY DEF CloseLocked
  <1>2. engine = "cockroach"
    BY <1>1 DEF TypeOK, WriterInv, PostgresOK
  <1>3. Kept' = Kept
    BY <1>1, SameKept
  <1>4. DestOK'
    BY <1>1 DEF history, WriterInv, DestOK, Open
  <1>5. ArchiveOK'
    BY <1>1 DEF history, WriterInv, ArchiveOK, Open
  <1>6. CopyOK'
    <2>1. DOMAIN aw.footer \subseteq SST
      BY <1>1 DEF WriterInv, ArchiveOK
    <2> QED  BY <1>1, <2>1 DEF CopyOK
  <1>7. PostgresOK'
    BY <1>1, <1>2 DEF history, WriterInv, PostgresOK, Open
  <1>8. ToldSoFar'
    BY <1>1, <1>3 DEF history, WriterInv, ToldSoFar, Open
  <1>9. ToldKept' /\ FlushedOK' /\ SealedOK'
    BY <1>1 DEF ToldKept, FlushedOK, SealedOK, Ended
  <1> QED  BY <1>3, <1>4, <1>5, <1>6, <1>7, <1>8, <1>9 DEF WriterInv

(* A meta-file gets into the archive, which does not have one of its name. *)
LEMMA CopyMetaKeeps ==
  ASSUME TypeOK, WriterInv, NEW name \in Meta, CopyMeta(name)
  PROVE  WriterInv' /\ Kept' = Kept
  <1> DEFINE b == memFS[name]
             s == Stream(dest)
             t == Stream(dest')
  <1>1. /\ phase = "copy" /\ name \in todo
        /\ todo' = todo \ {name}
        /\ aw' = Written(Create(aw, name), Len(b))
        /\ dest' = WriteTo(dest, b)
        /\ UNCHANGED <<engine, pass, phase, result, memFS, waiting, puts, history>>
    BY DEF CopyMeta
  <1>2. engine = "cockroach"
    BY <1>1 DEF TypeOK, WriterInv, PostgresOK
  <1>3. /\ todo \subseteq DOMAIN memFS /\ DOMAIN memFS \ todo \subseteq DOMAIN aw.footer
        /\ DOMAIN aw.footer \subseteq SST \cup (DOMAIN memFS \ todo)
        /\ \A n \in DOMAIN memFS \ todo : memFS[n] = Part(s, closeIfOpen(aw).footer[n])
    BY <1>1 DEF WriterInv, CopyOK
  <1>4. /\ IsArchiveWriter(aw) /\ aw.written = Len(s)
        /\ IsOpenDest(dest) /\ dest.pass = pass
    BY <1>1, <1>2 DEF WriterInv, ArchiveOK, DestOK, Open
  <1>5. b \in Seq(Byte(Val)) /\ Len(b) \in Nat
    <2>1. b \in Seq(Byte(Said))
      BY <1>1, <1>3 DEF WriterInv, ArchiveOK
    <2> QED  BY <2>1, SaidBytes
  <1>6. ~Exists(aw, name) /\ name \in SST \cup Meta /\ name \in DOMAIN memFS
    BY <1>1, <1>3, FileAssumption DEF Exists
  <1>b. b = memFS[name]
    OBVIOUS
  <1> HIDE DEF b
  <1>7. /\ IsOpenDest(dest') /\ dest'.pass = pass /\ s \in Seq(Byte(Val)) /\ t = s \o b
    BY <1>1, <1>4, <1>5, WriteToAppends
  <1>8. /\ IsArchiveWriter(aw') /\ aw'.written = Len(s) + Len(b)
        /\ DOMAIN aw'.footer = DOMAIN aw.footer \cup {name}
        /\ \A m \in DOMAIN aw.footer : closeIfOpen(aw').footer[m] = closeIfOpen(aw).footer[m]
        /\ closeIfOpen(aw').footer[name] = [start |-> Len(s), size |-> Len(b)]
    BY <1>1, <1>4, <1>5, <1>6, FileWritten
  <1>9. Len(t) = Len(s) + Len(b)
    BY <1>5, <1>7, ConcatProperties
  <1>10. ASSUME NEW m \in DOMAIN aw.footer
         PROVE  Part(t, closeIfOpen(aw').footer[m]) = Part(s, closeIfOpen(aw).footer[m])
    <2>1. aw.written <= Len(s)
      BY <1>4, <1>7
    <2>2. Part(s \o b, closeIfOpen(aw).footer[m]) = Part(s, closeIfOpen(aw).footer[m])
      BY <1>4, <1>5, <1>7, <2>1, FilePart
    <2> QED  BY <1>7, <1>8, <2>2
  <1>11. Kept' = Kept
    <2>1. DOMAIN memFS \subseteq Meta /\ SST \cap Meta = {}
      BY FileAssumption DEF TypeOK
    <2>2. \A m \in SST : Exists(aw', m) <=> Exists(aw, m)
      BY <1>8, <2>1 DEF Exists
    <2>3. \A m \in Name : Kept'[m] = Kept[m]
      <3> SUFFICES ASSUME NEW m \in Name
                   PROVE  Kept'[m] = Kept[m]
        OBVIOUS
      <3>1. CASE m \in SST /\ Exists(aw, m)
        <4>1. Part(t, closeIfOpen(aw').footer[m]) = Part(s, closeIfOpen(aw).footer[m])
          BY <1>10, <3>1 DEF Exists
        <4> QED  BY <1>1, <2>2, <3>1, <4>1 DEF Kept
      <3>2. CASE ~(m \in SST /\ Exists(aw, m))
        BY <1>1, <1>2, <2>2, <3>2 DEF Kept
      <3> QED  BY <3>1, <3>2
    <2> QED  BY <2>3 DEF Kept
  <1>12. DestOK'
    BY <1>1, <1>7 DEF DestOK, IsOpenDest
  <1>13. ArchiveOK'
    BY <1>1, <1>8, <1>9 DEF WriterInv, ArchiveOK
  <1>14. CopyOK'
    <2>1. Part(t, closeIfOpen(aw').footer[name]) = b
      BY <1>5, <1>7, <1>8, PartAppended
    <2>2. ASSUME NEW n \in DOMAIN memFS' \ todo'
          PROVE  memFS'[n] = Part(t, closeIfOpen(aw').footer[n])
      <3>1. CASE n = name
        BY <1>1, <1>b, <2>1, <3>1
      <3>2. CASE n # name
        <4>1. n \in DOMAIN memFS \ todo
          BY <1>1, <3>2
        <4>2. n \in DOMAIN aw.footer /\ memFS[n] = Part(s, closeIfOpen(aw).footer[n])
          BY <1>3, <4>1
        <4> QED  BY <1>1, <1>10, <4>2
      <3> QED  BY <3>1, <3>2
    <2>3. /\ todo' \subseteq DOMAIN memFS'
          /\ DOMAIN memFS' \ todo' \subseteq DOMAIN aw'.footer
          /\ DOMAIN aw'.footer \subseteq SST \cup (DOMAIN memFS' \ todo')
      BY <1>1, <1>3, <1>6, <1>8
    <2> QED  BY <2>2, <2>3 DEF CopyOK
  <1>15. PostgresOK'
    BY <1>1, <1>2 DEF history, WriterInv, PostgresOK, Open
  <1>16. ToldSoFar'
    BY <1>1, <1>11 DEF history, WriterInv, ToldSoFar, Open
  <1>17. ToldKept' /\ FlushedOK' /\ SealedOK'
    BY <1>1 DEF ToldKept, FlushedOK, SealedOK, Ended
  <1> QED  BY <1>11, <1>12, <1>13, <1>14, <1>15, <1>16, <1>17 DEF WriterInv

(* The footer says where the files are that are kept, if it fits.          *)
LEMMA WriteFooterKeeps ==
  ASSUME TypeOK, WriterInv, WriteFooter
  PROVE  WriterInv'
  <1> DEFINE c == closeIfOpen(aw)
             f == c.footer
             e == EncodeTo(f)
             s == Stream(dest)
             t == Stream(dest')
  <1>1. /\ phase = "copy" /\ todo = {} /\ final' = Kept /\ aw' = c
        /\ IF FooterFits(aw.footer)
           THEN dest' = WriteTo(dest, e) /\ phase' = "flushed"
           ELSE phase' = "panicked" /\ UNCHANGED dest
        /\ UNCHANGED <<engine, pass, result, memFS, todo, waiting, puts, told, contents, late>>
    BY DEF WriteFooter, FooterOf
  <1>2. engine = "cockroach" /\ ~late /\ Open
    BY <1>1 DEF TypeOK, WriterInv, PostgresOK, Open
  <1>3. /\ IsArchiveWriter(aw) /\ aw.written = Len(s) /\ IsOpenDest(dest) /\ dest.pass = pass
    BY <1>2 DEF WriterInv, ArchiveOK, DestOK
  <1>4. IsArchiveWriter(c) /\ DOMAIN f = DOMAIN aw.footer
    BY <1>3, CloseIfOpenCompletes
  <1>5. ArchiveOK'
    BY <1>1, <1>4 DEF WriterInv, ArchiveOK, Open
  <1>6. ToldKept'
    BY <1>1, <1>2 DEF WriterInv, ToldSoFar, ToldKept
  <1>7. CopyOK' /\ PostgresOK' /\ ToldSoFar' /\ SealedOK'
    BY <1>1, <1>2 DEF CopyOK, PostgresOK, ToldSoFar, SealedOK, Ended, Open
  <1>8. DestOK' /\ FlushedOK'
    <2>1. CASE ~FooterFits(aw.footer)
      BY <1>1, <2>1 DEF WriterInv, DestOK, FlushedOK, Open
    <2>2. CASE FooterFits(aw.footer)
      <3>1. f \in Footers /\ IsFiniteSet(DOMAIN f) /\ FooterFits(f)
        BY <1>4, <2>2 DEF IsArchiveWriter, FooterFits, FooterLen
      <3>f. f = closeIfOpen(aw).footer
        OBVIOUS
      <3> HIDE DEF f
      <3>2. e \in Seq(Byte(Val)) /\ Len(e) = FooterPad /\ DecodeFrom(e) = f
        BY <3>1, EncodedFooter
      <3>e. e = EncodeTo(f)
        OBVIOUS
      <3>d. dest' = WriteTo(dest, e)
        BY <1>1, <2>2
      <3> HIDE DEF e
      <3>3. IsOpenDest(dest') /\ dest'.pass = pass /\ s \in Seq(Byte(Val)) /\ t = s \o e
        BY <1>3, <3>2, <3>d, WriteToAppends
      <3>4. Len(t) = Len(s) + FooterPad /\ t \in Seq(Byte(Val))
        BY <3>2, <3>3, ConcatProperties
      <3>5. Last(t) = e
        <4>1. Last(t) = Part(t, [start |-> Len(s), size |-> FooterPad])
          <5>1. Len(t) - FooterPad + 1 = Len(s) + 1 /\ Len(t) = Len(s) + FooterPad
            BY <3>2, <3>3, <3>4
          <5> QED  BY <5>1 DEF Last, Part
        <4> QED  BY <3>2, <3>3, <4>1, PartAppended
      <3>6. ASSUME NEW n \in DOMAIN f
            PROVE  /\ f[n].start + f[n].size <= Len(t)
                   /\ Part(t, f[n]) = Part(s, f[n])
        <4>1. n \in DOMAIN aw.footer /\ aw.written <= Len(s) /\ Len(s) \in Nat
          BY <1>3, <1>4, <3>3, <3>f
        <4>2. /\ f[n] \in [start : Nat, size : Nat] /\ f[n].start + f[n].size <= Len(s)
              /\ Part(s \o e, f[n]) = Part(s, f[n])
          BY <1>3, <3>2, <3>3, <3>f, <4>1, FilePart
        <4>3. f[n].start + f[n].size <= Len(s) + FooterPad
          BY <4>1, <4>2, ArchiveAssumption, CryptoAssumption
        <4> QED  BY <3>3, <3>4, <4>2, <4>3
      <3>7. ASSUME NEW n \in Name
            PROVE  final'[n] = IF n \in DOMAIN f THEN Part(t, f[n]) ELSE Missing
        <4>0. /\ DOMAIN memFS \subseteq DOMAIN f /\ DOMAIN f \subseteq SST \cup DOMAIN memFS
              /\ \A m \in DOMAIN memFS : memFS[m] = Part(s, f[m])
          BY <1>1, <1>4, <3>f DEF WriterInv, CopyOK
        <4>1. final'[n] = Kept[n]
          BY <1>1
        <4>2. CASE n \in DOMAIN memFS
          BY <3>6, <4>0, <4>1, <4>2 DEF Kept
        <4>3. CASE n \notin DOMAIN memFS /\ n \in DOMAIN f
          <5>1. n \in SST /\ Exists(aw, n)
            BY <1>4, <3>f, <4>0, <4>3 DEF Exists
          <5>2. Kept[n] = Part(s, f[n])
            BY <3>f, <4>3, <5>1 DEF Kept
          <5> QED  BY <3>6, <4>1, <4>3, <5>2
        <4>4. CASE n \notin DOMAIN f
          <5>1. n \notin DOMAIN memFS /\ ~Exists(aw, n)
            BY <1>4, <3>f, <4>0, <4>4 DEF Exists
          <5> QED  BY <1>2, <4>1, <4>4, <5>1 DEF Kept
        <4> QED  BY <4>2, <4>3, <4>4
      <3>8. IsArchive(t, final')
        <4>1. FooterPad <= Len(t)
          <5>1. Len(s) \in Nat /\ FooterPad \in Nat
            BY <3>3, ArchiveAssumption
          <5> QED  BY <3>4, <5>1
        <4>2. DecodeFrom(Last(t)) = f
          BY <3>2, <3>5
        <4> QED  BY <3>1, <3>5, <3>6, <3>7, <3>e, <4>1, <4>2 DEF IsArchive
      <3>9. FlushedOK'
        BY <1>1, <1>2, <3>8 DEF FlushedOK, HasFiles
      <3> QED  BY <1>1, <3>3, <3>9 DEF DestOK, IsOpenDest
    <2> QED  BY <2>1, <2>2
  <1> QED  BY <1>5, <1>6, <1>7, <1>8 DEF WriterInv

(* pg_dump's output is the stream, ...                                     *)
LEMMA DumpWritesKeeps ==
  ASSUME TypeOK, WriterInv, NEW n \in 1 .. MaxBody, DumpWrites(n)
  PROVE  WriterInv' /\ \A m \in Name \ {Dump} : Kept'[m] = Kept[m]
  <1> DEFINE b == Body(Dump, n)
  <1>1. /\ engine = "postgres" /\ phase = "exec"
        /\ dest' = WriteTo(dest, b)
        /\ UNCHANGED <<engine, pass, phase, result, aw, memFS, todo, waiting, history>>
    BY DEF DumpWrites
  <1>2. b \in Seq(Byte(Val))
    <2>1. Dump \in Name /\ puts \in Nat /\ n \in Nat
      BY FileAssumption DEF Name, TypeOK
    <2> QED  BY <2>1, BodySaid
  <1> HIDE DEF b
  <1>3. IsOpenDest(dest') /\ dest'.pass = pass
    <2>1. IsOpenDest(dest) /\ dest.pass = pass
      BY <1>1 DEF WriterInv, DestOK, Open
    <2> QED  BY <1>1, <1>2, <2>1, WriteToAppends
  <1>4. DestOK'
    BY <1>1, <1>3 DEF DestOK, IsOpenDest
  <1>5. ArchiveOK'
    BY <1>1 DEF history, WriterInv, ArchiveOK
  <1>6. PostgresOK'
    BY <1>1 DEF history, WriterInv, PostgresOK, Open
  <1>7. CopyOK' /\ ToldSoFar' /\ ToldKept' /\ FlushedOK' /\ SealedOK'
    BY <1>1 DEF CopyOK, ToldSoFar, ToldKept, FlushedOK, SealedOK, Ended
  <1>8. \A m \in Name \ {Dump} : Kept'[m] = Kept[m]
    <2>1. \A m : ~Exists(aw, m)
      BY <1>1 DEF WriterInv, PostgresOK, Exists
    <2> QED  BY <1>1, <2>1 DEF Kept
  <1> QED  BY <1>4, <1>5, <1>6, <1>7, <1>8 DEF WriterInv

(* ... all of it when it exits.                                            *)
LEMMA DumpExitsKeeps ==
  ASSUME TypeOK, WriterInv, NEW r \in {"ok", "err"}, DumpExits(r)
  PROVE  WriterInv'
  <1>1. /\ engine = "postgres" /\ phase = "exec" /\ phase' = "flushed" /\ final' = Kept
        /\ UNCHANGED <<engine, pass, dest, aw, memFS, todo, waiting, puts, told, contents,
                       late>>
    BY DEF DumpExits, writer
  <1>2. DestOK'
    BY <1>1 DEF WriterInv, DestOK, Open
  <1>3. ArchiveOK' /\ CopyOK' /\ PostgresOK' /\ ToldSoFar' /\ ToldKept' /\ SealedOK'
    BY <1>1 DEF WriterInv, ArchiveOK, CopyOK, PostgresOK, ToldSoFar, ToldKept, SealedOK,
                Ended, Open
  <1>4. FlushedOK'
    <2>1. DOMAIN memFS = {} /\ DOMAIN aw.footer = {} /\ ~late
      BY <1>1 DEF WriterInv, PostgresOK
    <2>2. \A n \in Name : final'[n] = IF n = Dump THEN Stream(dest) ELSE Missing
      BY <1>1, <2>1 DEF Kept, Exists
    <2> QED  BY <1>1, <2>1, <2>2 DEF FlushedOK, HasFiles
  <1> QED  BY <1>2, <1>3, <1>4 DEF WriterInv

(* Closing the crypto-writer puts all of the stream into the object.       *)
LEMMA CloseDestKeeps ==
  ASSUME TypeOK, WriterInv, CloseDest
  PROVE  WriterInv'
  <1>1. /\ phase = "flushed" /\ IsOpenDest(dest) /\ dest.pass = pass
        /\ IF result = "ok"
           THEN phase' = "sealed" /\ dest' = IF pass = NoPass THEN dest ELSE Close(dest)
           ELSE phase' = "failed" /\ UNCHANGED dest
        /\ UNCHANGED <<engine, pass, result, aw, memFS, todo, waiting, puts, history>>
    BY DEF CloseDest, WriterInv, DestOK
  <1>2. ArchiveOK' /\ CopyOK' /\ PostgresOK' /\ ToldSoFar' /\ ToldKept' /\ FlushedOK'
    BY <1>1 DEF history, WriterInv, ArchiveOK, CopyOK, PostgresOK, ToldSoFar, ToldKept,
                FlushedOK, Open
  <1>3. DestOK' /\ SealedOK'
    <2>1. CASE result # "ok"
      BY <1>1, <2>1 DEF WriterInv, DestOK, SealedOK, Ended, Open
    <2>2. CASE result = "ok"
      <3>1. /\ IsDest(dest') /\ dest'.pass = pass
            /\ View(dest'.out, pass) = Stream(dest)
            /\ \A W : dest.buf \in Seq(Byte(W)) => dest'.buf \in Seq(Byte(W))
        <4>1. CASE pass = NoPass
          BY <1>1, <2>2, <4>1 DEF IsOpenDest, View, Stream
        <4>2. CASE pass # NoPass
          BY <1>1, <2>2, <4>2, CloseSeals
        <4> QED  BY <4>1, <4>2
      <3>2. IF late THEN NoFooter(Stream(dest)) ELSE HasFiles(Stream(dest))
        BY <1>1 DEF WriterInv, FlushedOK
      <3>3. engine = "cockroach" => dest'.buf \in Seq(Byte(Said))
        <4> SUFFICES ASSUME engine = "cockroach"
                     PROVE  dest'.buf \in Seq(Byte(Said))
          OBVIOUS
        <4>1. IsArchive(Stream(dest), final) \/ NoFooter(Stream(dest))
          BY <3>2 DEF HasFiles
        <4>2. dest.buf \in Seq(Byte(Said))
          BY <1>1, <4>1, BufferIsEnd
        <4> QED  BY <3>1, <4>2
      <3>4. SealedOK'
        <4> DEFINE v == View(dest'.out, pass')
        <4>1. v = Stream(dest) /\ late' = late /\ engine' = engine /\ final' = final
          BY <1>1, <3>1 DEF history
        <4>2. \/ late' /\ NoFooter(v)
              \/ IF engine' = "postgres"
                 THEN \A n \in Name : final'[n] = IF n = Dump THEN v ELSE Missing
                 ELSE IsArchive(v, final')
          BY <3>2, <4>1 DEF HasFiles
        <4> QED  BY <3>3, <4>1, <4>2 DEF SealedOK, HasFiles
      <3> QED  BY <1>1, <2>2, <3>1, <3>4 DEF DestOK, Open
    <2> QED  BY <2>1, <2>2
  <1> QED  BY <1>2, <1>3 DEF WriterInv

(* The steps of whoever reads the object, ...                              *)
Reader ==
  \/ \E p \in Pass \cup {NoPass} : OpenBackup(p)
  \/ \E name \in SST \cup Meta, mode \in {"local", "full"} : GetFile(name, mode)
  \/ Copy
  \/ Drop
  \/ \E end \in {-1} \cup (Len(got) .. section.size + 1) : GetRange(end)
  \/ NextFile

(* ... who leaves it as it is.                                             *)
LEMMA ReaderLeaves ==
  ASSUME Reader
  PROVE  /\ phase \in {"stored", "read", "cut", "ready", "done"}
         /\ phase' \in {"read", "cut", "ready", "done", "unreadable", "panicked"}
         /\ UNCHANGED <<engine, pass, result, writer, history>>
  <1>1. ASSUME NEW p \in Pass \cup {NoPass}, OpenBackup(p)
        PROVE  /\ phase \in {"stored", "read", "cut", "ready", "done"}
               /\ phase' \in {"read", "cut", "ready", "done", "unreadable", "panicked"}
               /\ UNCHANGED <<engine, pass, result, writer, history>>
    BY <1>1 DEF OpenBackup
  <1>2. ASSUME NEW name, NEW mode, GetFile(name, mode)
        PROVE  /\ phase \in {"stored", "read", "cut", "ready", "done"}
               /\ phase' \in {"read", "cut", "ready", "done", "unreadable", "panicked"}
               /\ UNCHANGED <<engine, pass, result, writer, history>>
    BY <1>2 DEF GetFile
  <1>3. ASSUME NEW len, ReadSection(len) \/ ReadRange(len)
        PROVE  /\ phase \in {"stored", "read", "cut", "ready", "done"}
               /\ phase' \in {"read", "cut", "ready", "done", "unreadable", "panicked"}
               /\ UNCHANGED <<engine, pass, result, writer, history>>
    BY <1>3 DEF ReadSection, ReadRange, AnswerOver
  <1>4. ASSUME EndOfSection \/ Drop \/ NextFile
        PROVE  /\ phase \in {"stored", "read", "cut", "ready", "done"}
               /\ phase' \in {"read", "cut", "ready", "done", "unreadable", "panicked"}
               /\ UNCHANGED <<engine, pass, result, writer, history>>
    BY <1>4 DEF EndOfSection, Drop, NextFile
  <1>5. ASSUME NEW end, GetRange(end)
        PROVE  /\ phase \in {"stored", "read", "cut", "ready", "done"}
               /\ phase' \in {"read", "cut", "ready", "done", "unreadable", "panicked"}
               /\ UNCHANGED <<engine, pass, result, writer, history>>
    BY <1>5 DEF GetRange
  <1> QED  BY <1>1, <1>2, <1>3, <1>4, <1>5 DEF Reader, Copy, Read

(* The end of the pipe, reading, and steps of others change nothing.       *)
LEMMA StoredKeeps ==
  ASSUME TypeOK, WriterInv, ClosePipe \/ Reader \/ UNCHANGED vars
  PROVE  WriterInv'
  <1>1. /\ UNCHANGED <<engine, pass, dest, aw, memFS, todo, waiting, told, final, late>>
        /\ \/ phase' = phase
           \/ /\ Ended
              /\ Ended' \/ phase' = "panicked"
              /\ phase' # "sealed"
    <2>1. CASE UNCHANGED vars
      BY <2>1 DEF vars, writer, history
    <2>2. CASE ClosePipe
      BY <2>2 DEF ClosePipe, writer, Ended
    <2>3. CASE Reader
      BY <2>3, ReaderLeaves DEF writer, history, Ended
    <2> QED  BY <2>1, <2>2, <2>3
  <1>2. Kept' = Kept
    BY <1>1, SameKept
  <1>3. DestOK' /\ CopyOK' /\ PostgresOK'
    BY <1>1 DEF WriterInv, DestOK, CopyOK, PostgresOK, Open, Ended
  <1>4. ArchiveOK'
    BY <1>1 DEF WriterInv, ArchiveOK, Open, Ended
  <1>5. ToldSoFar' /\ ToldKept'
    BY <1>1, <1>2 DEF WriterInv, ToldSoFar, ToldKept, Open, Ended
  <1>6. FlushedOK' /\ SealedOK'
    BY <1>1 DEF WriterInv, FlushedOK, SealedOK, Ended, HasFiles
  <1> QED  BY <1>3, <1>4, <1>5, <1>6 DEF WriterInv

-----------------------------------------------------------------------------
(* Sections that follow each other.                                        *)
LEMMA AdjacentSections ==
  ASSUME NEW S, NEW s \in Seq(S), NEW a \in Nat, NEW b \in Nat, NEW c \in Nat,
         a <= b, b <= c, c <= Len(s)
  PROVE  SubSeq(s, a + 1, b) \o SubSeq(s, b + 1, c) = SubSeq(s, a + 1, c)
  <1>1. /\ a + 1 \in 1 .. Len(s) + 1 /\ b \in (a + 1) - 1 .. Len(s) /\ c \in b .. Len(s)
    OBVIOUS
  <1> DEFINE m == a + 1
  <1>2. m \in 1 .. Len(s) + 1 /\ b \in m - 1 .. Len(s)
    BY <1>1
  <1> HIDE DEF m
  <1>3. SubSeq(s, m, b) \o SubSeq(s, b + 1, c) = SubSeq(s, m, c)
    BY <1>1, <1>2, ConcatAdjacentSubSeq
  <1> QED  BY <1>3 DEF m

(* What the reader knows of the object.                                    *)
LEMMA ObjectIs ==
  ASSUME TypeOK, WriterInv
  PROVE  /\ dest.out \in Seq(Byte(Val))
         /\ pass \in Pass \cup {NoPass} /\ readPass \in Pass \cup {NoPass}
         /\ pass # NoPass => BlockSize <= Len(dest.out) /\ HasHeader(dest.out)
  BY CryptoAssumption DEF TypeOK, WriterInv, DestOK, IsDest, HasHeader

(* The header of an encrypted object is recognised, ...                    *)
LEMMA HeaderFound ==
  ASSUME NEW o \in Seq(Byte(Val))
  PROVE  /\ HasHeader(o) => HeaderOK(o)
         /\ HeaderOK(o) => BlockSize <= Len(o)
  <1>0. BlockSize \in Nat \ {0} /\ Len(o) \in Nat
    BY CryptoAssumption
  <1>1. /\ Header \in Seq(Byte(Val)) /\ Len(Header) = BlockSize
        /\ \A i \in 1 .. BlockSize : Header[i] = Plain(<<"header">>)
    <2>1. Plain(<<"header">>) \in Byte(Val)
      BY DEF Plain, Byte, Val, Said
    <2> QED  BY <1>0, <2>1 DEF Header
  <1> DEFINE n == Lesser(0 + BlockSize, Len(o))
             h == SubSeq(o, 0 + 1, n)
  <1>2. n \in Nat /\ n <= Len(o) /\ 0 <= n /\ (BlockSize <= Len(o) <=> n = BlockSize)
    BY <1>0 DEF Lesser
  <1>3. HeaderOK(o) <=> h = Header
    BY DEF HeaderOK, ObjectReadAt
  <1> HIDE DEF n
  <1>4. h \in Seq(Byte(Val)) /\ Len(h) = n - 0 /\ \A i \in 1 .. n - 0 : h[i] = o[0 + i]
    <2>1. 0 \in Nat
      OBVIOUS
    <2> QED  BY <1>2, <2>1, SectionOf
  <1> HIDE DEF h
  <1>5. ASSUME HasHeader(o)
        PROVE  h = Header
    <2>1. n = BlockSize /\ \A i \in 1 .. BlockSize : o[i] = Plain(<<"header">>)
      BY <1>0, <1>2, <1>5 DEF HasHeader
    <2>2. Len(h) = Len(Header) /\ \A i \in 1 .. Len(h) : h[i] = Header[i]
      BY <1>0, <1>1, <1>4, <2>1
    <2> QED  BY <1>1, <1>4, <2>2, SeqEqual
  <1>6. ASSUME h = Header
        PROVE  BlockSize <= Len(o)
    BY <1>0, <1>1, <1>2, <1>4, <1>6
  <1> QED  BY <1>3, <1>5, <1>6

(* ... and the stream behind it is as long as the reader believes.         *)
LEMMA SizeIs ==
  ASSUME dest.out \in Seq(Byte(Val)), NEW p \in Pass \cup {NoPass},
         p # NoPass => BlockSize <= Len(dest.out)
  PROVE  /\ View(dest.out, p) \in Seq(Byte(Val))
         /\ Len(View(dest.out, p)) = Size(p)
         /\ Size(p) \in Nat
  <1>1. /\ View(dest.out, p) \in Seq(Byte(Val))
        /\ Len(View(dest.out, p)) = Len(dest.out) - Skipped(p)
    BY ViewOf
  <1>2. Size(p) = Len(dest.out) - Skipped(p)
    BY CryptoAssumption DEF Size, object, Skipped
  <1>3. Len(View(dest.out, p)) \in Nat
    BY <1>1
  <1> QED  BY <1>1, <1>2, <1>3

(* One ReadAt returns a part of that stream and does not panic.            *)
LEMMA SourceExact ==
  ASSUME dest.out \in Seq(Byte(Val)), readPass \in Pass \cup {NoPass},
         readPass # NoPass => BlockSize <= Len(dest.out),
         NEW n \in Nat \ {0}, NEW off \in Nat, off < Len(View(dest.out, readPass))
  PROVE  /\ ~SourcePanics(n, off)
         /\ \E m \in 1 .. n :
              /\ off + m <= Len(View(dest.out, readPass))
              /\ SourceReadAt(n, off) = SubSeq(View(dest.out, readPass), off + 1, off + m)
  <1> DEFINE o == dest.out
             v == View(o, readPass)
  <1>0. BlockSize \in Nat \ {0} /\ Len(o) \in Nat
    BY CryptoAssumption
  <1>1. v \in Seq(Byte(Val)) /\ Len(v) = Size(readPass) /\ Len(v) \in Nat
    BY SizeIs
  <1>2. CASE readPass = NoPass
    <2>1. v = o /\ ~SourcePanics(n, off) /\ SourceReadAt(n, off) = ObjectReadAt(o, n, off)
      BY <1>2 DEF View, SourcePanics, SourceReadAt, object
    <2>2. off < Len(o) /\ o \in Seq(Byte(Val))
      BY <2>1
    <2> HIDE DEF v, o
    <2>3. /\ Lesser(n, Len(o) - off) \in 1 .. n
          /\ ObjectReadAt(o, n, off) = SubSeq(o, off + 1, off + Lesser(n, Len(o) - off))
      BY <2>2, ObjectReadAtExact
    <2> DEFINE m == Lesser(n, Len(o) - off)
    <2>4. off + m <= Len(o)
      BY <1>0, <2>2 DEF Lesser
    <2> HIDE DEF m
    <2>5. /\ m \in 1 .. n /\ off + m <= Len(v)
          /\ SourceReadAt(n, off) = SubSeq(v, off + 1, off + m)
      BY <2>1, <2>3, <2>4 DEF m
    <2> QED  BY <2>1, <2>5 DEF v, o
  <1>3. CASE readPass # NoPass
    <2>1. /\ v = XORKeyStreamAt(Payload(o), readPass, 0)
          /\ SourcePanics(n, off) <=> ReadAtPanics(o, readPass, n, off)
          /\ SourceReadAt(n, off) = ReadAt(o, readPass, n, off)
      BY <1>3 DEF View, SourcePanics, SourceReadAt, object
    <2>2. /\ off < Len(v) /\ o \in Seq(Byte(Val)) /\ readPass \in Pass
          /\ Len(v) = Len(o) - BlockSize
      BY <1>1, <1>3 DEF Size, object
    <2> HIDE DEF v, o
    <2>3. BlockSize + off < Len(o)
      BY <1>0, <2>2
    <2>4. /\ ~ReadAtPanics(o, readPass, n, off)
          /\ \E m \in 1 .. Lesser(n, Len(o) - BlockSize - off) :
               ReadAt(o, readPass, n, off)
                 = SubSeq(XORKeyStreamAt(Payload(o), readPass, 0), off + 1, off + m)
      BY <2>2, <2>3, ReadAtExact
    <2>5. PICK m \in 1 .. Lesser(n, Len(o) - BlockSize - off) :
            ReadAt(o, readPass, n, off) = SubSeq(v, off + 1, off + m)
      BY <2>1, <2>4
    <2>6. m \in 1 .. n /\ off + m <= Len(v)
      BY <1>0, <2>2, <2>3 DEF Lesser
    <2>7. ~SourcePanics(n, off) /\ SourceReadAt(n, off) = SubSeq(v, off + 1, off + m)
      BY <2>1, <2>4, <2>5
    <2> QED  BY <2>6, <2>7 DEF v, o
  <1> QED  BY <1>2, <1>3

(* An archive that has been opened has been opened with its passphrase.    *)
LEMMA OpenedIs ==
  ASSUME TypeOK, WriterInv, ReadOK, engine = "cockroach",
         phase \in {"read", "cut", "ready", "done"}, phase = "ready" \/ file # NoFile
  PROVE  /\ readPass = pass
         /\ IsArchive(View(dest.out, readPass), final)
         /\ index = DecodeFrom(Last(View(dest.out, readPass)))
         /\ index \in Footers
         /\ \A n \in DOMAIN index :
              index[n].start + index[n].size <= Len(View(dest.out, readPass))
  <1> DEFINE o == dest.out
             v == View(o, readPass)
             u == View(o, pass)
  <1>1. /\ o \in Seq(Byte(Val))
        /\ pass \in Pass \cup {NoPass} /\ readPass \in Pass \cup {NoPass}
        /\ pass # NoPass => BlockSize <= Len(o)
    BY ObjectIs
  <1>2. /\ readPass # NoPass => BlockSize <= Len(o)
        /\ FooterPad <= Len(v)
        /\ IsFooter(Last(v)) /\ index = DecodeFrom(Last(v))
    BY ArchiveAssumption DEF ReadOK
  <1>3. IsArchive(u, final) \/ NoFooter(u)
    BY DEF WriterInv, SealedOK, Ended, HasFiles
  <1>4. readPass = pass /\ IsArchive(u, final)
    <2> HIDE DEF o
    <2> QED  BY <1>1, <1>2, <1>3, FooterFound
  <1>5. index \in Footers
        /\ \A n \in DOMAIN index : index[n].start + index[n].size <= Len(v)
    BY <1>2, <1>4 DEF IsArchive
  <1> QED  BY <1>2, <1>4, <1>5

-----------------------------------------------------------------------------
(* A reader's own state.                                                   *)
LEMMA ReaderTypes ==
  ASSUME TypeOK, Reader,
         readPass' \in Pass \cup {NoPass},
         DOMAIN index' \subseteq SST \cup Meta,
         file' \in Name \cup {NoFile},
         section'.start \in Nat, section'.size \in Nat,
         how' \in {"local", "full", "range"},
         from' \in Nat, to' \in Nat \cup {-1},
         Len(got') <= section'.size
  PROVE  TypeOK'
  BY ReaderLeaves DEF TypeOK, writer, history

(* What a reader has read before is the beginning of what it reads.        *)
LEMMA ReadingOn ==
  ASSUME ReadOK, Readable, phase \in {"read", "cut"},
         UNCHANGED <<engine, pass, dest, final, late, readPass, index, file, section>>,
         how' = how \/ file # NoFile,
         got' \in Seq(Byte(Val)),
         got' = SubSeq(View(dest.out, readPass), section.start + 1, section.start + Len(got')),
         phase' \in {"read", "cut", "done"},
         phase' # "read" => file # NoFile,
         phase' = "done" => Len(got') = section.size
  PROVE  ReadOK' /\ Readable'
  <1>1. /\ readPass # NoPass => Len(dest.out) >= BlockSize
        /\ engine = "cockroach" => Len(View(dest.out, readPass)) >= FooterPad
        /\ (engine = "cockroach" /\ file # NoFile) =>
              /\ IsFooter(Last(View(dest.out, readPass)))
              /\ index = DecodeFrom(Last(View(dest.out, readPass)))
        /\ section.start + section.size <= Len(View(dest.out, readPass))
        /\ IF engine = "postgres"
           THEN file = Dump /\ section = [start |-> 0, size |-> Len(View(dest.out, readPass))]
           ELSE IF file # NoFile
           THEN file \in DOMAIN index /\ section = index[file]
           ELSE /\ phase = "read" /\ how = "local"
                /\ section = [start |-> Len(View(dest.out, readPass)) - FooterPad,
                              size |-> FooterPad]
    BY DEF ReadOK
  <1>2. ReadOK'
    BY <1>1 DEF ReadOK
  <1>3. Readable'
    BY DEF Readable
  <1> QED  BY <1>2, <1>3

(* A read begins with nothing.                                             *)
LEMMA NothingRead ==
  ASSUME NEW s \in Seq(Byte(Val)), NEW a \in Nat, a <= Len(s)
  PROVE  <<>> \in Seq(Byte(Val)) /\ <<>> = SubSeq(s, a + 1, a + Len(<<>>))
  <1> DEFINE x == SubSeq(s, a + 1, a)
  <1>1. x \in Seq(Byte(Val)) /\ Len(x) = a - a
    BY SectionOf
  <1>2. x = <<>>
    <2> HIDE DEF x
    <2>1. Len(x) = 0
      BY <1>1
    <2> QED  BY <1>1, <2>1, EmptySeq
  <1>3. a + Len(<<>>) = a
    OBVIOUS
  <1> QED  BY <1>2, <1>3

(* What is stored can be opened with the right passphrase, unless a late   *)
(* request has written behind the footer.                                  *)
LEMMA StoredOpens ==
  ASSUME TypeOK, WriterInv, Ended, ~late
  PROVE  /\ pass # NoPass => HeaderOK(dest.out)
         /\ engine = "cockroach" =>
              /\ Size(pass) >= FooterPad
              /\ IsFooter(Last(View(dest.out, pass)))
  <1> DEFINE s == View(dest.out, pass)
  <1>1. /\ dest.out \in Seq(Byte(Val)) /\ pass \in Pass \cup {NoPass}
        /\ pass # NoPass => BlockSize <= Len(dest.out) /\ HasHeader(dest.out)
    BY ObjectIs
  <1>2. pass # NoPass => HeaderOK(dest.out)
    BY <1>1, HeaderFound
  <1>3. s \in Seq(Byte(Val)) /\ Len(s) = Size(pass)
    BY <1>1, SizeIs
  <1>4. engine = "cockroach" => IsArchive(s, final)
    BY DEF WriterInv, SealedOK, HasFiles
  <1> HIDE DEF s
  <1>5. engine = "cockroach" => Len(s) >= FooterPad /\ IsFooter(Last(s))
    BY <1>3, <1>4, ArchiveHasFooter DEF IsArchive
  <1> QED  BY <1>2, <1>3, <1>5 DEF s

(* Opening reads the dump, or the footer of the archive, ...               *)
LEMMA OpenBackupReads ==
  ASSUME TypeOK, WriterInv, ReadOK, Readable, NEW p \in Pass \cup {NoPass}, OpenBackup(p)
  PROVE  TypeOK' /\ ReadOK' /\ Readable' /\ phase' # "panicked"
  <1> DEFINE o == dest.out
             v == View(o, p)
  <1>1. /\ phase = "stored" /\ readPass' = p /\ dest' = dest
        /\ UNCHANGED <<engine, pass, final, late, index>>
    BY DEF OpenBackup, writer, history
  <1>r. Reader
    BY DEF Reader
  <1>2. o \in Seq(Byte(Val))
    BY ObjectIs
  <1>3. CASE \/ p # NoPass /\ ~HeaderOK(object)
             \/ engine = "cockroach" /\ Size(p) < FooterPad
    <2>1. phase' = "unreadable"
      BY <1>3 DEF OpenBackup
    <2>2. late \/ p # pass
      <3>1. FooterPad \in Nat /\ (p # NoPass => BlockSize <= Len(o)) => Size(p) \in Nat
        BY <1>2, SizeIs
      <3>2. pass # NoPass => BlockSize <= Len(o)
        BY ObjectIs
      <3> SUFFICES ASSUME ~late, p = pass
                   PROVE  FALSE
        OBVIOUS
      <3>3. Ended
        BY <1>1 DEF Ended
      <3>4. /\ pass # NoPass => HeaderOK(o)
            /\ engine = "cockroach" => Size(pass) >= FooterPad
        BY <3>3, StoredOpens
      <3> QED  BY <1>3, <3>1, <3>2, <3>4, ArchiveAssumption DEF object
    <2>3. ReadOK'
      BY <2>1 DEF ReadOK
    <2>4. TypeOK'
      <3>1. UNCHANGED request
        BY <1>3 DEF OpenBackup
      <3> QED  BY <1>1, <1>r, <3>1, ReaderTypes DEF TypeOK, request
    <2> QED  BY <1>1, <2>1, <2>2, <2>3, <2>4 DEF Readable
  <1>4. CASE ~ \/ p # NoPass /\ ~HeaderOK(object)
               \/ engine = "cockroach" /\ Size(p) < FooterPad
    <2>1. /\ phase' = "read" /\ got' = <<>> /\ how' = "local" /\ from' = 0 /\ to' = -1
          /\ IF engine = "postgres"
             THEN file' = Dump /\ section' = [start |-> 0, size |-> Size(p)]
             ELSE /\ file' = NoFile
                  /\ section' = [start |-> Size(p) - FooterPad, size |-> FooterPad]
      BY <1>4 DEF OpenBackup, Reads
    <2>2. p # NoPass => BlockSize <= Len(o)
      BY <1>2, <1>4, HeaderFound DEF object
    <2>3. v \in Seq(Byte(Val)) /\ Len(v) = Size(p) /\ Size(p) \in Nat
      BY <1>2, <2>2, SizeIs
    <2>4. engine = "cockroach" => Size(p) >= FooterPad
      BY <1>4, <2>3, ArchiveAssumption
    <2>5. engine \in {"cockroach", "postgres"} /\ FooterPad \in Nat
      BY ArchiveAssumption DEF TypeOK
    <2>6. /\ section'.start \in Nat /\ section'.start <= Len(v)
          /\ section'.start + section'.size <= Len(v)
      BY <2>1, <2>3, <2>4, <2>5
    <2>7. got' \in Seq(Byte(Val))
          /\ got' = SubSeq(v, section'.start + 1, section'.start + Len(got'))
      <3> DEFINE a == section'.start
      <3> HIDE DEF a, v
      <3>1. a \in Nat /\ a <= Len(v)
        BY <2>6 DEF a
      <3> QED  BY <2>1, <2>3, <3>1, NothingRead DEF a
    <2>8. ReadOK'
      <3> HIDE DEF v
      <3>1. View(o, p) = v
        BY DEF v
      <3>2. View(dest'.out, readPass') = v
        BY <1>1, <3>1
      <3>3. BlockSize \in Nat
        BY CryptoAssumption
      <3> QED  BY <1>1, <2>1, <2>2, <2>3, <2>4, <2>5, <2>6, <2>7, <3>2, <3>3, FileAssumption
               DEF ReadOK, Name
    <2>9. TypeOK'
      <3>1. Len(got') <= section'.size /\ section'.size \in Nat
        BY <2>1, <2>3, <2>5
      <3>2. file' \in Name \cup {NoFile}
        BY <2>1 DEF Name
      <3>3. DOMAIN index' \subseteq SST \cup Meta
        BY <1>1 DEF TypeOK
      <3> QED  BY <1>1, <1>r, <2>1, <2>6, <3>1, <3>2, <3>3, ReaderTypes
    <2> QED  BY <2>1, <2>8, <2>9 DEF Readable
  <1> QED  BY <1>3, <1>4

(* ... and a file is read from where the footer says it begins.            *)
LEMMA GetFileReads ==
  ASSUME TypeOK, WriterInv, ReadOK, Readable,
         NEW name \in SST \cup Meta, NEW mode \in {"local", "full"}, GetFile(name, mode)
  PROVE  TypeOK' /\ ReadOK' /\ Readable' /\ phase' # "panicked"
  <1> DEFINE v == View(dest.out, readPass)
  <1>1. /\ phase = "ready" /\ phase' = "read" /\ name \in DOMAIN index
        /\ file' = name /\ section' = index[name] /\ got' = <<>>
        /\ how' = mode /\ from' = 0 /\ to' = -1
        /\ UNCHANGED <<engine, pass, dest, final, late, readPass, index>>
    BY DEF GetFile, Reads, writer, history
  <1>2. engine = "cockroach"
    BY <1>1 DEF ReadOK, TypeOK
  <1>3. /\ index \in Footers
        /\ \A n \in DOMAIN index : index[n].start + index[n].size <= Len(v)
    BY <1>1, <1>2, OpenedIs
  <1>4. name # NoFile /\ index[name] \in [start : Nat, size : Nat]
    BY <1>1, <1>3, FooterIs, FileAssumption DEF Name
  <1>5. v \in Seq(Byte(Val))
    <2>1. readPass # NoPass => BlockSize <= Len(dest.out)
      BY <1>1 DEF ReadOK
    <2> QED  BY <2>1, ObjectIs, SizeIs
  <1>6. section'.start \in Nat /\ section'.start <= Len(v)
        /\ section'.start + section'.size <= Len(v)
    <2> HIDE DEF v
    <2> QED  BY <1>1, <1>3, <1>4, <1>5
  <1>7. got' \in Seq(Byte(Val))
        /\ got' = SubSeq(v, section'.start + 1, section'.start + Len(got'))
    <2> DEFINE a == section'.start
    <2> HIDE DEF a, v
    <2>1. a \in Nat /\ a <= Len(v)
      BY <1>6 DEF a
    <2> QED  BY <1>1, <1>5, <2>1, NothingRead DEF a
  <1>8. /\ readPass # NoPass => Len(dest.out) >= BlockSize
        /\ Len(v) >= FooterPad /\ IsFooter(Last(v)) /\ index = DecodeFrom(Last(v))
    BY <1>1, <1>2 DEF ReadOK
  <1>9. ReadOK'
    <2> HIDE DEF v
    <2>1. View(dest'.out, readPass') = v
      BY <1>1 DEF v
    <2> QED  BY <1>1, <1>2, <1>4, <1>6, <1>7, <1>8, <2>1 DEF ReadOK
  <1>10. TypeOK'
    <2>1. Reader
      BY DEF Reader
    <2>2. section'.size \in Nat /\ Len(got') <= section'.size
      BY <1>1, <1>4
    <2>3. file' \in Name \cup {NoFile}
      BY <1>1 DEF Name
    <2>4. readPass' \in Pass \cup {NoPass} /\ DOMAIN index' \subseteq SST \cup Meta
      BY <1>1 DEF TypeOK
    <2> QED  BY <1>1, <1>6, <2>1, <2>2, <2>3, <2>4, ReaderTypes
  <1> QED  BY <1>1, <1>9, <1>10 DEF Readable

(* One Read returns what follows in the object.                            *)
LEMMA ReadFollows ==
  ASSUME TypeOK, WriterInv, ReadOK, phase = "read", Len(got) < section.size,
         NEW n \in Nat \ {0}, n <= section.size - Len(got)
  PROVE  LET data == SourceReadAt(n, section.start + Len(got)) IN
         /\ ~SourcePanics(n, section.start + Len(got))
         /\ got \o data \in Seq(Byte(Val))
         /\ Len(got \o data) <= section.size
         /\ got \o data = SubSeq(View(dest.out, readPass), section.start + 1,
                                 section.start + Len(got \o data))
  <1> DEFINE v == View(dest.out, readPass)
             pos == Len(got)
             off == section.start + pos
             data == SourceReadAt(n, off)
  <1>1. /\ readPass # NoPass => Len(dest.out) >= BlockSize
        /\ section.start + section.size <= Len(v)
        /\ got \in Seq(Byte(Val))
        /\ got = SubSeq(v, section.start + 1, section.start + Len(got))
    BY DEF ReadOK
  <1>2. /\ dest.out \in Seq(Byte(Val)) /\ readPass \in Pass \cup {NoPass}
        /\ readPass # NoPass => BlockSize <= Len(dest.out)
    BY <1>1, ObjectIs, CryptoAssumption
  <1>3. v \in Seq(Byte(Val)) /\ Len(v) \in Nat
    BY <1>2, SizeIs
  <1>4. section.start \in Nat /\ section.size \in Nat /\ pos \in Nat /\ off \in Nat
    BY <1>1 DEF TypeOK
  <1>5. off < Len(v)
    <2> HIDE DEF v
    <2> QED  BY <1>1, <1>3, <1>4
  <1>6. /\ ~SourcePanics(n, off)
        /\ \E m \in 1 .. n : off + m <= Len(v) /\ data = SubSeq(v, off + 1, off + m)
    <2> HIDE DEF off
    <2> QED  BY <1>2, <1>4, <1>5, SourceExact
  <1>7. PICK m \in 1 .. n : off + m <= Len(v) /\ data = SubSeq(v, off + 1, off + m)
    BY <1>6
  <1> DEFINE all == got \o data
             a == section.start
             c == off + m
  <1>8. a \in Nat /\ off \in Nat /\ c \in Nat /\ a <= off /\ off <= c /\ c <= Len(v)
    <2>1. m \in Nat /\ off + m <= Len(v)
      BY <1>7
    <2> HIDE DEF v
    <2> QED  BY <1>4, <2>1
  <1>c. c - a <= section.size
    <2>1. m \in Nat /\ m <= n
      BY <1>7
    <2> QED  BY <1>4, <2>1
  <1>9. all = SubSeq(v, a + 1, off) \o SubSeq(v, off + 1, c)
    BY <1>1, <1>7
  <1> HIDE DEF v, a, off, c, data
  <1>10. SubSeq(v, a + 1, off) \o SubSeq(v, off + 1, c) = SubSeq(v, a + 1, c)
    BY <1>3, <1>8, AdjacentSections
  <1>11. SubSeq(v, a + 1, c) \in Seq(Byte(Val)) /\ Len(SubSeq(v, a + 1, c)) = c - a
    <2>1. a <= c
      BY <1>8
    <2> QED  BY <1>3, <1>8, <2>1, SectionOf
  <1>12. all = SubSeq(v, a + 1, c) /\ all \in Seq(Byte(Val)) /\ Len(all) = c - a
    BY <1>9, <1>10, <1>11
  <1> HIDE DEF all
  <1>13. a + Len(all) = c
    BY <1>8, <1>12
  <1>14. Len(all) <= section.size
    BY <1>12, <1>c
  <1> QED  BY <1>6, <1>12, <1>13, <1>14 DEF all, v, a, off, data

(* The copy of a whole file, ...                                           *)
LEMMA ReadSectionReads ==
  ASSUME TypeOK, WriterInv, ReadOK, Readable, NEW len \in 1 .. MaxBuf, ReadSection(len)
  PROVE  TypeOK' /\ ReadOK' /\ Readable' /\ phase' # "panicked"
  <1> DEFINE pos == Len(got)
             n == Lesser(len, section.size - pos)
             off == section.start + pos
  <1>1. /\ phase = "read" /\ how # "range" /\ pos < section.size
        /\ IF SourcePanics(n, off)
           THEN phase' = "panicked" /\ UNCHANGED got
           ELSE got' = got \o SourceReadAt(n, off) /\ UNCHANGED phase
        /\ UNCHANGED <<engine, pass, dest, final, late, readPass, index, file, section, how,
                       from, to>>
    BY DEF ReadSection, writer, history
  <1>2. n \in Nat \ {0} /\ n <= section.size - pos
    <2>1. pos \in Nat /\ section.size \in Nat
      BY <1>1 DEF ReadOK, TypeOK
    <2> QED  BY <1>1, <2>1 DEF Lesser
  <1>3. /\ ~SourcePanics(n, off)
        /\ got \o SourceReadAt(n, off) \in Seq(Byte(Val))
        /\ Len(got \o SourceReadAt(n, off)) <= section.size
        /\ got \o SourceReadAt(n, off)
             = SubSeq(View(dest.out, readPass), section.start + 1,
                      section.start + Len(got \o SourceReadAt(n, off)))
    <2> HIDE DEF n
    <2> QED  BY <1>1, <1>2, ReadFollows
  <1>4. phase' = "read" /\ got' = got \o SourceReadAt(n, off)
    BY <1>1, <1>3
  <1>5. ReadOK' /\ Readable'
    <2>1. /\ got' \in Seq(Byte(Val))
          /\ got' = SubSeq(View(dest.out, readPass), section.start + 1,
                           section.start + Len(got'))
      BY <1>3, <1>4
    <2> QED  BY <1>1, <1>4, <2>1, ReadingOn
  <1>6. TypeOK'
    <2>1. Reader
      BY DEF Reader, Copy, Read
    <2>2. Len(got') <= section'.size
      BY <1>1, <1>3, <1>4
    <2> HIDE DEF n, off
    <2> QED  BY <1>1, <2>1, <2>2, ReaderTypes DEF TypeOK
  <1> QED  BY <1>4, <1>5, <1>6

(* ... of a range, whose end the answer may announce too early or too      *)
(* late, ...                                                               *)
LEMMA ReadRangeReads ==
  ASSUME TypeOK, WriterInv, ReadOK, Readable, NEW len \in 1 .. MaxBuf, ReadRange(len)
  PROVE  TypeOK' /\ ReadOK' /\ Readable' /\ phase' # "panicked"
  <1> DEFINE v == View(dest.out, readPass)
             pos == Len(got)
             n == Lesser(len, from + RangeEnd - pos)
             k == Lesser(n, section.size - pos)
             off == section.start + pos
             all == got \o SourceReadAt(k, off)
             Kept1 == got' = got
             Kept2 == got' = all
             Kept3 == RangeEnd < Len(all) /\ got' = SubSeq(all, 1, RangeEnd)
  <1>1. /\ phase = "read" /\ how = "range"
        /\ IF pos >= Lesser(from + RangeEnd, section.size)
           THEN AnswerOver(got) /\ UNCHANGED got
           ELSE IF SourcePanics(k, off)
           THEN phase' = "panicked" /\ UNCHANGED got
           ELSE IF Len(all) > RangeEnd
           THEN /\ got' \in {got, SubSeq(all, 1, RangeEnd)}
                /\ AnswerOver(got')
           ELSE /\ got' = all
                /\ IF n > section.size - pos THEN AnswerOver(all) ELSE UNCHANGED phase
        /\ UNCHANGED <<engine, pass, dest, final, late, readPass, index, file, section, how,
                       from, to>>
    BY DEF ReadRange, writer, history
  <1>2. /\ pos \in Nat /\ section.size \in Nat /\ from \in Nat /\ RangeEnd \in Nat
        /\ got \in Seq(Byte(Val)) /\ section.start \in Nat
    BY <1>1 DEF ReadOK, TypeOK, RangeEnd
  <1>3. file # NoFile
    BY <1>1, FileAssumption DEF ReadOK, Name, TypeOK
  <1>4. /\ got = SubSeq(v, section.start + 1, section.start + Len(got))
        /\ readPass # NoPass => Len(dest.out) >= BlockSize
        /\ section.start + section.size <= Len(v)
    BY <1>1 DEF ReadOK
  <1>5. v \in Seq(Byte(Val)) /\ Len(v) \in Nat
    <2>1. readPass # NoPass => BlockSize <= Len(dest.out)
      BY <1>4, CryptoAssumption
    <2> QED  BY <2>1, ObjectIs, SizeIs
  <1>6. ASSUME ~(pos >= Lesser(from + RangeEnd, section.size))
        PROVE  /\ ~SourcePanics(k, off)
               /\ all \in Seq(Byte(Val))
               /\ Len(all) <= section.size
               /\ all = SubSeq(v, section.start + 1, section.start + Len(all))
    <2>1. pos < section.size /\ n \in Nat \ {0}
      BY <1>2, <1>6 DEF Lesser
    <2> HIDE DEF n
    <2>2. k \in Nat \ {0} /\ k <= section.size - pos
      BY <1>2, <2>1 DEF Lesser
    <2> HIDE DEF k
    <2> QED  BY <1>1, <2>1, <2>2, ReadFollows
  <1>7. /\ phase' \in {"read", "cut", "done"}
        /\ phase' = "done" => Len(got') = section.size
        /\ \/ Kept1
           \/ ~(pos >= Lesser(from + RangeEnd, section.size)) /\ (Kept2 \/ Kept3)
    <2> HIDE DEF all, n, k, off
    <2>1. CASE pos >= Lesser(from + RangeEnd, section.size)
      BY <1>1, <2>1 DEF AnswerOver
    <2>2. CASE ~(pos >= Lesser(from + RangeEnd, section.size))
      <3>1. CASE Len(all) > RangeEnd
        <4>1. RangeEnd < Len(all)
          BY <1>2, <1>6, <2>2, <3>1
        <4> QED  BY <1>1, <1>6, <2>2, <3>1, <4>1 DEF AnswerOver
      <3>2. CASE ~(Len(all) > RangeEnd)
        BY <1>1, <1>6, <2>2, <3>2 DEF AnswerOver
      <3> QED  BY <3>1, <3>2
    <2> QED  BY <2>1, <2>2
  <1>8. /\ got' \in Seq(Byte(Val)) /\ Len(got') <= section.size
        /\ got' = SubSeq(v, section.start + 1, section.start + Len(got'))
    <2>1. CASE Kept1
      BY <1>2, <1>4, <2>1 DEF TypeOK
    <2>2. CASE ~(pos >= Lesser(from + RangeEnd, section.size)) /\ Kept2
      BY <1>6, <2>2
    <2>3. CASE ~(pos >= Lesser(from + RangeEnd, section.size)) /\ Kept3
      <3> DEFINE a == section.start
                 l == RangeEnd
                 c == a + Len(all)
                 u == SubSeq(all, 1, l)
      <3>1. /\ all \in Seq(Byte(Val)) /\ Len(all) <= section.size
            /\ all = SubSeq(v, a + 1, c) /\ Len(all) \in Nat
        <4> HIDE DEF all, v
        <4> QED  BY <1>6, <2>3
      <3>2. l < Len(all) /\ got' = u
        BY <2>3
      <3>3. 0 \in Nat /\ 0 <= l /\ l <= Len(all) /\ l \in Nat
        BY <1>2, <3>1, <3>2
      <3>4. a \in Nat /\ c \in Nat /\ a <= c /\ c <= Len(v) /\ l <= c - a
        <4> HIDE DEF all, v
        <4>1. section.start + Len(all) <= Len(v)
          BY <1>2, <1>4, <1>5, <3>1
        <4> QED  BY <1>2, <1>5, <3>1, <3>3, <4>1
      <3>5. u \in Seq(Byte(Val)) /\ Len(u) = l
        <4> DEFINE y == SubSeq(all, 0 + 1, l)
        <4> HIDE DEF all, l
        <4>1. y \in Seq(Byte(Val)) /\ Len(y) = l - 0
          BY <3>1, <3>3, SectionOf
        <4> QED  BY <3>3, <4>1
      <3>6. u = SubSeq(v, a + 1, a + l)
        <4>1. all = SubSeq(v, a + 1, c)
          BY <3>1
        <4> HIDE DEF all, v, a, c, l
        <4>2. SubSeq(SubSeq(v, a + 1, c), 0 + 1, l) = SubSeq(v, a + 0 + 1, a + l)
          BY <1>5, <3>3, <3>4, SectionOfSection
        <4>3. a + 0 + 1 = a + 1 /\ 0 + 1 = 1
          BY <3>4
        <4> QED  BY <4>1, <4>2, <4>3
      <3>7. l <= section.size
        BY <1>2, <3>1, <3>2
      <3> QED  BY <3>2, <3>5, <3>6, <3>7
    <2> QED  BY <1>7, <2>1, <2>2, <2>3
  <1>9. ReadOK' /\ Readable'
    <2> HIDE DEF Kept1, Kept2, Kept3
    <2> QED  BY <1>1, <1>3, <1>7, <1>8, ReadingOn
  <1>10. TypeOK'
    <2>1. Reader
      BY DEF Reader, Copy, Read
    <2>2. Len(got') <= section'.size
      BY <1>1, <1>8
    <2> HIDE DEF Kept1, Kept2, Kept3
    <2> QED  BY <1>1, <2>1, <2>2, ReaderTypes DEF TypeOK
  <1> QED  BY <1>7, <1>9, <1>10

(* ... its end, ...                                                        *)
LEMMA EndOfSectionReads ==
  ASSUME TypeOK, WriterInv, ReadOK, Readable, EndOfSection
  PROVE  TypeOK' /\ ReadOK' /\ Readable' /\ phase' # "panicked"
  <1> DEFINE v == View(dest.out, readPass)
  <1>1. /\ phase = "read" /\ how # "range" /\ Len(got) >= section.size
        /\ IF file # NoFile THEN phase' = "done" /\ UNCHANGED index
           ELSE IF IsFooter(got) THEN phase' = "ready" /\ index' = DecodeFrom(got)
           ELSE phase' = "unreadable" /\ UNCHANGED index
        /\ UNCHANGED <<engine, pass, dest, final, late, readPass, file, section, how, got,
                       from, to>>
    BY DEF EndOfSection, writer, history, request
  <1>t. DOMAIN index' \subseteq SST \cup Meta => TypeOK'
    <2>1. Reader
      BY DEF Reader, Copy
    <2> QED  BY <1>1, <2>1, ReaderTypes DEF TypeOK
  <1>i. index' = index => TypeOK'
    BY <1>t DEF TypeOK
  <1>2. /\ got \in Seq(Byte(Val))
        /\ got = SubSeq(v, section.start + 1, section.start + Len(got))
    BY <1>1 DEF ReadOK
  <1>3. Len(got) = section.size
    BY <1>1, <1>2 DEF TypeOK
  <1>4. CASE file # NoFile
    BY <1>1, <1>2, <1>3, <1>4, <1>i, ReadingOn
  <1>5. CASE file = NoFile
    <2>1. /\ engine = "cockroach"
          /\ section = [start |-> Len(v) - FooterPad, size |-> FooterPad]
          /\ Len(v) >= FooterPad
          /\ readPass # NoPass => Len(dest.out) >= BlockSize
      BY <1>1, <1>5, FileAssumption DEF ReadOK, Name, TypeOK
    <2>2. v \in Seq(Byte(Val)) /\ Len(v) \in Nat
      <3>1. readPass # NoPass => BlockSize <= Len(dest.out)
        BY <2>1, CryptoAssumption
      <3> QED  BY <3>1, ObjectIs, SizeIs
    <2>3. got = Last(v)
      <3> HIDE DEF v
      <3>1. section.start = Len(v) - FooterPad /\ section.start + Len(got) = Len(v)
        BY <1>3, <2>1, <2>2, ArchiveAssumption
      <3> QED  BY <1>2, <3>1 DEF Last, v
    <2>4. CASE IsFooter(got)
      <3>1. phase' = "ready" /\ index' = DecodeFrom(Last(v))
        BY <1>1, <1>5, <2>3, <2>4
      <3>2. ReadOK'
        <4> HIDE DEF v
        <4>1. View(dest'.out, readPass') = v
          BY <1>1 DEF v
        <4> QED  BY <1>1, <2>1, <2>3, <2>4, <3>1, <4>1 DEF ReadOK
      <3>3. DOMAIN index' \subseteq SST \cup Meta
        <4>1. Ended
          BY <1>1 DEF Ended
        <4>2. IsArchive(View(dest.out, pass), final) \/ NoFooter(View(dest.out, pass))
          BY <2>1, <4>1 DEF WriterInv, SealedOK, HasFiles
        <4>3. /\ readPass # NoPass => BlockSize <= Len(dest.out)
              /\ FooterPad <= Len(v)
          BY <2>1, <2>2, CryptoAssumption, ArchiveAssumption
        <4>4. readPass = pass /\ IsArchive(View(dest.out, pass), final)
          BY <2>3, <2>4, <4>2, <4>3, ObjectIs, FooterFound
        <4>5. DecodeFrom(Last(v)) \in Footers
          BY <4>4 DEF IsArchive
        <4> QED  BY <3>1, <4>5, FooterIs
      <3> QED  BY <1>t, <3>1, <3>2, <3>3 DEF Readable
    <2>5. CASE ~IsFooter(got)
      <3>1. phase' = "unreadable"
        BY <1>1, <1>5, <2>5
      <3>2. late \/ readPass # pass
        <4>1. Ended
          BY <1>1 DEF Ended
        <4> QED  BY <2>1, <2>3, <2>5, <4>1, StoredOpens
      <3>3. ReadOK'
        BY <3>1 DEF ReadOK
      <3>4. TypeOK'
        BY <1>1, <1>5, <1>i, <2>5
      <3> QED  BY <1>1, <3>1, <3>2, <3>3, <3>4 DEF Readable
    <2> QED  BY <2>4, <2>5
  <1> QED  BY <1>4, <1>5

(* ... an answer that is cut short, the request for the rest, and the next *)
(* file.                                                                   *)
LEMMA OtherStepsRead ==
  ASSUME TypeOK, WriterInv, ReadOK, Readable,
         \/ Drop
         \/ \E end \in {-1} \cup (Len(got) .. section.size + 1) : GetRange(end)
         \/ NextFile
  PROVE  TypeOK' /\ ReadOK' /\ Readable' /\ phase' # "panicked"
  <1>r. Reader
    BY DEF Reader
  <1>0. readPass \in Pass \cup {NoPass} /\ DOMAIN index \subseteq SST \cup Meta
    BY DEF TypeOK
  <1>1. CASE Drop
    <2>1. /\ phase = "read" /\ how # "local" /\ phase' = "cut"
          /\ UNCHANGED <<engine, pass, dest, final, late, readPass, index, file, section,
                         how, from, to, got>>
      BY <1>1 DEF Drop, writer, history, reader, request
    <2>2. /\ got \in Seq(Byte(Val)) /\ file # NoFile
          /\ got = SubSeq(View(dest.out, readPass), section.start + 1,
                          section.start + Len(got))
      BY <2>1, FileAssumption DEF ReadOK, TypeOK, Name
    <2>3. TypeOK'
      BY <1>r, <1>0, <2>1, ReaderTypes DEF TypeOK
    <2> QED  BY <2>1, <2>2, <2>3, ReadingOn
  <1>2. CASE \E end \in {-1} \cup (Len(got) .. section.size + 1) : GetRange(end)
    <2>1. /\ phase = "cut" /\ phase' = "read"
          /\ UNCHANGED <<engine, pass, dest, final, late, readPass, index, file, section, got>>
          /\ from' = Len(got) /\ to' \in {-1} \cup (Len(got) .. section.size + 1)
          /\ how' \in {"full", "range"}
      BY <1>2 DEF GetRange, writer, history
    <2>2. /\ got \in Seq(Byte(Val)) /\ file # NoFile
          /\ got = SubSeq(View(dest.out, readPass), section.start + 1,
                          section.start + Len(got))
      BY <2>1, FileAssumption DEF ReadOK, TypeOK, Name
    <2>3. TypeOK'
      <3>1. from' \in Nat /\ to' \in Nat \cup {-1}
        BY <2>1, <2>2 DEF TypeOK
      <3> QED  BY <1>r, <1>0, <2>1, <3>1, ReaderTypes DEF TypeOK
    <2> QED  BY <2>1, <2>2, <2>3, ReadingOn
  <1>3. CASE NextFile
    <2>1. /\ phase = "done" /\ engine = "cockroach" /\ phase' = "ready"
          /\ UNCHANGED <<engine, pass, dest, final, late, readPass, index>>
          /\ file' = NoFile /\ section' = [start |-> 0, size |-> 0] /\ how' = "local"
          /\ from' = 0 /\ to' = -1 /\ got' = <<>>
      BY <1>3 DEF NextFile, Reads, writer, history
    <2>2. ReadOK'
      BY <2>1 DEF ReadOK
    <2>3. TypeOK'
      <3>1. Len(got') <= section'.size /\ section'.start \in Nat /\ section'.size \in Nat
        BY <2>1
      <3> QED  BY <1>r, <1>0, <2>1, <3>1, ReaderTypes
    <2> QED  BY <2>1, <2>2, <2>3 DEF Readable
  <1> QED  BY <1>1, <1>2, <1>3


-----------------------------------------------------------------------------
(* A writer's state has the types of what it is made of, and nothing of it *)
(* is read yet.                                                            *)
LEMMA WriterTypes ==
  ASSUME TypeOK, WriterInv',
         UNCHANGED <<engine, pass, reader>>,
         phase' \in {"exec", "close", "copy", "flushed", "sealed", "stored", "failed",
                     "panicked"},
         result' \in {"ok", "err"},
         DOMAIN memFS' \subseteq Meta, todo' \subseteq Meta,
         waiting' \in 0 .. MaxWaiting, puts' \in 0 .. MaxPuts,
         DOMAIN told' = Name, DOMAIN final' = Name, late' \in BOOLEAN
  PROVE  IndInv'
  <1>1. dest'.blocksWritten \in Nat /\ Len(dest'.buf) < BlockSize
    BY DEF WriterInv, DestOK, IsDest
  <1>2. IsArchiveWriter(aw')
    BY DEF WriterInv, ArchiveOK
  <1>3. /\ aw'.written \in Nat
        /\ aw'.openFile \in SST \cup Meta \cup {NoFile}
        /\ DOMAIN aw'.footer \subseteq SST \cup Meta
        /\ \A n \in DOMAIN aw'.footer :
             aw'.footer[n].start \in Nat /\ aw'.footer[n].size \in Nat
    <2>1. aw'.footer \in Footers
      BY <1>2 DEF IsArchiveWriter
    <2>2. /\ DOMAIN aw'.footer \subseteq SST \cup Meta
          /\ \A n \in DOMAIN aw'.footer : aw'.footer[n] \in [start : Nat, size : Nat]
      BY <2>1, FooterIs
    <2> QED  BY <1>2, <2>2 DEF IsArchiveWriter
  <1>4. TypeOK'
    BY <1>1, <1>3 DEF TypeOK, reader, request
  <1>5. ReadOK' /\ Readable'
    BY DEF ReadOK, Readable
  <1> QED  BY <1>4, <1>5 DEF IndInv, ReaderInv

(* A backup begins with nothing.                                           *)
LEMMA InitInv ==
  ASSUME Init
  PROVE  IndInv
  <1>1. /\ IsOpenDest(dest) /\ dest.pass = pass /\ Stream(dest) = <<>>
        /\ pass \in Pass \cup {NoPass}
    BY NewDestEmpty DEF Init
  <1>2. /\ aw.footer = <<>> /\ aw.openFile = NoFile /\ aw.written = 0
        /\ aw = [footer |-> aw.footer, openFile |-> aw.openFile, written |-> aw.written]
    BY DEF Init, newArchiveWriter
  <1>3. /\ DOMAIN aw.footer = {} /\ aw.footer \in Footers
        /\ \A n \in DOMAIN aw.footer :
             aw.footer[n].start \in Nat /\ aw.footer[n].size \in Nat
    <2>1. aw.footer \in [{} -> [start : Nat, size : Nat]]
      BY <1>2
    <2>2. {} \in SUBSET (SST \cup Meta)
      OBVIOUS
    <2> QED  BY <2>1, <2>2, IsAFooter
  <1>4. IsArchiveWriter(aw)
    BY <1>2, <1>3, FS_EmptySet DEF IsArchiveWriter
  <1>5. ArchiveOK
    <2>1. Len(Stream(dest)) = 0 /\ DOMAIN memFS = {}
      BY <1>1 DEF Init
    <2> QED  BY <1>2, <1>3, <1>4, <2>1 DEF ArchiveOK
  <1>6. ToldSoFar
    <2>1. SUFFICES ASSUME engine = "cockroach", NEW n \in SST \cup Meta
                   PROVE  Kept[n] = told[n]
      BY DEF ToldSoFar
    <2>2. n \in Name /\ told[n] = Missing /\ DOMAIN memFS = {} /\ ~Exists(aw, n)
      BY <1>3 DEF Init, Name, Exists
    <2>3. n # Dump
      BY FileAssumption
    <2> QED  BY <2>1, <2>2, <2>3 DEF Kept
  <1>7. DestOK
    BY <1>1 DEF DestOK, IsOpenDest
  <1>8. CopyOK /\ PostgresOK /\ ToldKept /\ FlushedOK /\ SealedOK
    BY <1>3 DEF Init, CopyOK, PostgresOK, ToldKept, FlushedOK, SealedOK, Ended
  <1>9. WriterInv
    BY <1>5, <1>6, <1>7, <1>8 DEF WriterInv
  <1>10. ReaderInv
    BY DEF Init, ReaderInv, ReadOK, Readable
  <1>11. TypeOK
    <2>1. dest.blocksWritten \in Nat /\ Len(dest.buf) < BlockSize
      BY <1>1 DEF IsOpenDest, IsDest
    <2>2. MaxWaiting \in Nat /\ MaxPuts \in Nat
      BY FileAssumption
    <2>3. /\ DOMAIN memFS = {} /\ DOMAIN index = {}
          /\ DOMAIN told = Name /\ DOMAIN final = Name
      BY DEF Init
    <2>4. section.start = 0 /\ section.size = 0 /\ Len(got) = 0
      BY DEF Init
    <2>5. /\ engine \in {"cockroach", "postgres"} /\ phase = "exec" /\ result = "ok"
          /\ todo = {} /\ waiting = 0 /\ puts = 0 /\ late = FALSE /\ readPass = NoPass
          /\ file = NoFile /\ how = "local" /\ from = 0 /\ to = -1
      BY DEF Init
    <2>6. /\ waiting \in 0 .. MaxWaiting /\ puts \in 0 .. MaxPuts
          /\ section.start \in Nat /\ section.size \in Nat /\ Len(got) <= section.size
          /\ from \in Nat /\ to \in Nat \cup {-1} /\ aw.written \in Nat
      BY <1>2, <2>2, <2>4, <2>5
    <2>7. /\ {pass, readPass} \subseteq Pass \cup {NoPass}
          /\ DOMAIN memFS \subseteq Meta /\ todo \subseteq Meta
          /\ DOMAIN index \subseteq SST \cup Meta /\ DOMAIN aw.footer \subseteq SST \cup Meta
      BY <1>1, <1>3, <2>3, <2>5
    <2> QED  BY <1>2, <1>3, <2>1, <2>3, <2>5, <2>6, <2>7 DEF TypeOK
  <1> QED  BY <1>9, <1>10, <1>11 DEF IndInv

(* The database's requests keep the invariant, ...                         *)
LEMMA RequestInv ==
  ASSUME IndInv, ServeHTTP
  PROVE  IndInv'
  <1>0. /\ TypeOK /\ WriterInv
        /\ engine \in {"cockroach", "postgres"} /\ result \in {"ok", "err"}
        /\ DOMAIN memFS \subseteq Meta /\ todo \subseteq Meta
        /\ DOMAIN told = Name /\ DOMAIN final = Name /\ late \in BOOLEAN
    BY DEF IndInv, TypeOK
  <1>1. /\ MaxWaiting \in Nat /\ MaxPuts \in Nat
        /\ waiting \in 0 .. MaxWaiting /\ puts \in 0 .. MaxPuts
    BY <1>0, FileAssumption DEF TypeOK
  <1>2. ASSUME NEW len \in 0 .. MaxBody, NEW n \in 0 .. len, NEW name \in SST,
               PutSST(name, len, n)
        PROVE  IndInv'
    <2>1. WriterInv'
      <3>1. len \in Nat
        OBVIOUS
      <3> QED  BY <1>0, <1>2, <3>1, PutSSTRefused, PutSSTOpen, PutSSTLate
    <2>2. /\ UNCHANGED <<engine, pass, reader, result, memFS, todo, final>>
          /\ phase' = phase /\ phase \in {"exec", "close", "flushed", "sealed"}
          /\ waiting' \in 0 .. MaxWaiting /\ puts' \in 0 .. MaxPuts
      BY <1>1, <1>2 DEF PutSST, Served
    <2>3. DOMAIN told' = Name
      BY <1>0, <1>2 DEF PutSST, Tell
    <2>4. late' \in BOOLEAN
      <3>1. late' = late \/ late' = (late \/ (~Running /\ n > 0))
        BY <1>2 DEF PutSST
      <3> QED  BY <1>0, <3>1
    <2> QED  BY <1>0, <2>1, <2>2, <2>3, <2>4, WriterTypes
  <1>3. ASSUME NEW len \in 0 .. MaxBody, NEW n \in 0 .. len, NEW name \in Meta,
               PutMeta(name, len, n)
        PROVE  IndInv'
    <2>1. WriterInv'
      <3>1. len \in Nat
        OBVIOUS
      <3> QED  BY <1>0, <1>3, <3>1, PutMetaKeeps
    <2>2. /\ UNCHANGED <<engine, pass, reader, result, todo, final, late>>
          /\ phase' = phase /\ phase \in {"exec", "close", "flushed", "sealed"}
          /\ waiting' \in 0 .. MaxWaiting /\ puts' \in 0 .. MaxPuts
      BY <1>1, <1>3 DEF PutMeta, Served
    <2>3. DOMAIN told' = Name
      BY <1>0, <1>3 DEF PutMeta, Tell
    <2>4. DOMAIN memFS' \subseteq Meta
      BY <1>0, <1>3 DEF PutMeta
    <2> QED  BY <1>0, <2>1, <2>2, <2>3, <2>4, WriterTypes
  <1>4. ASSUME NEW name \in Meta, DeleteMeta(name)
        PROVE  IndInv'
    <2>1. WriterInv'
      BY <1>0, <1>4, DeleteMetaKeeps
    <2>2. /\ UNCHANGED <<engine, pass, reader, result, todo, puts, final, late>>
          /\ phase' = phase /\ phase \in {"exec", "close", "flushed", "sealed"}
          /\ waiting' \in 0 .. MaxWaiting
      BY <1>1, <1>4 DEF DeleteMeta, Served
    <2>3. DOMAIN told' = Name
      BY <1>0, <1>4 DEF DeleteMeta, Tell
    <2>4. DOMAIN memFS' \subseteq Meta
      BY <1>0, <1>4 DEF DeleteMeta, Forgotten
    <2> QED  BY <1>0, <1>1, <2>1, <2>2, <2>3, <2>4, WriterTypes
  <1>5. ASSUME ServeOther
        PROVE  IndInv'
    <2>1. WriterInv'
      BY <1>0, <1>5, OtherRequestKeeps
    <2>2. /\ UNCHANGED <<engine, pass, reader, result, memFS, todo, puts, told, final, late>>
          /\ phase' = phase /\ phase \in {"exec", "close", "flushed", "sealed"}
          /\ waiting' \in 0 .. MaxWaiting
      BY <1>1, <1>5 DEF ServeOther, Served, history
    <2> QED  BY <1>0, <1>1, <2>1, <2>2, WriterTypes
  <1> QED  BY <1>2, <1>3, <1>4, <1>5 DEF ServeHTTP

(* ... and so does what ends the backup.                                   *)
LEMMA CloseInv ==
  ASSUME IndInv,
         \/ Arrive \/ CloseBackup
         \/ \E r \in {"ok", "err"} : StatementEnds(r) \/ DumpExits(r)
         \/ \E n \in 1 .. MaxBody : DumpWrites(n)
  PROVE  IndInv'
  <1>0. /\ TypeOK /\ WriterInv
        /\ engine \in {"cockroach", "postgres"} /\ result \in {"ok", "err"}
        /\ DOMAIN memFS \subseteq Meta /\ todo \subseteq Meta
        /\ DOMAIN told = Name /\ DOMAIN final = Name /\ late \in BOOLEAN
    BY DEF IndInv, TypeOK
  <1>1. /\ MaxWaiting \in Nat /\ MaxPuts \in Nat
        /\ waiting \in 0 .. MaxWaiting /\ puts \in 0 .. MaxPuts
    BY <1>0, FileAssumption DEF TypeOK
  <1>2. CASE Arrive
    <2>1. WriterInv'
      BY <1>0, <1>2, OtherRequestKeeps
    <2>2. /\ UNCHANGED <<engine, pass, reader, result, memFS, todo, puts, told, final, late>>
          /\ phase' = "exec" /\ waiting' \in 0 .. MaxWaiting
      BY <1>1, <1>2 DEF Arrive, history
    <2> QED  BY <1>0, <1>1, <2>1, <2>2, WriterTypes
  <1>3. ASSUME NEW r \in {"ok", "err"}, StatementEnds(r)
        PROVE  IndInv'
    <2>1. WriterInv'
      BY <1>0, <1>3, OtherRequestKeeps
    <2>2. /\ UNCHANGED <<engine, pass, reader, memFS, todo, waiting, puts, told, final, late>>
          /\ phase' = "close" /\ result' = r
      BY <1>3 DEF StatementEnds, history, writer
    <2> QED  BY <1>0, <1>1, <2>1, <2>2, WriterTypes
  <1>4. ASSUME NEW r \in {"ok", "err"}, DumpExits(r)
        PROVE  IndInv'
    <2>1. WriterInv'
      BY <1>0, <1>4, DumpExitsKeeps
    <2>2. /\ UNCHANGED <<engine, pass, reader, memFS, todo, waiting, puts, told, late>>
          /\ phase' = "flushed" /\ result' = r /\ final' = Kept
      BY <1>4 DEF DumpExits, writer
    <2>3. DOMAIN final' = Name
      BY <2>2 DEF Kept
    <2> QED  BY <1>0, <1>1, <2>1, <2>2, <2>3, WriterTypes
  <1>5. ASSUME NEW n \in 1 .. MaxBody, DumpWrites(n)
        PROVE  IndInv'
    <2>1. WriterInv'
      BY <1>0, <1>5, DumpWritesKeeps
    <2>2. /\ UNCHANGED <<engine, pass, reader, result, memFS, todo, waiting, told, final, late>>
          /\ phase' = "exec" /\ puts' \in 0 .. MaxPuts
      BY <1>1, <1>5 DEF DumpWrites, history
    <2> QED  BY <1>0, <1>1, <2>1, <2>2, WriterTypes
  <1>6. CASE CloseLocked
    <2>1. WriterInv'
      BY <1>0, <1>6, CloseLockedKeeps
    <2>2. /\ UNCHANGED <<engine, pass, reader, result, memFS, waiting, puts, told, final, late>>
          /\ phase' = "copy" /\ todo' = DOMAIN memFS
      BY <1>6 DEF CloseLocked, history
    <2> QED  BY <1>0, <1>1, <2>1, <2>2, WriterTypes
  <1>7. ASSUME NEW name \in Meta, CopyMeta(name)
        PROVE  IndInv'
    <2>1. WriterInv'
      BY <1>0, <1>7, CopyMetaKeeps
    <2>2. /\ UNCHANGED <<engine, pass, reader, result, memFS, waiting, puts, told, final, late>>
          /\ phase' = "copy" /\ todo' \subseteq Meta
      BY <1>0, <1>7 DEF CopyMeta, history
    <2> QED  BY <1>0, <1>1, <2>1, <2>2, WriterTypes
  <1>8. CASE WriteFooter
    <2>1. WriterInv'
      BY <1>0, <1>8, WriteFooterKeeps
    <2>2. /\ UNCHANGED <<engine, pass, reader, result, memFS, todo, waiting, puts, told, late>>
          /\ phase' \in {"flushed", "panicked"} /\ final' = Kept
      BY <1>8 DEF WriteFooter
    <2>3. DOMAIN final' = Name
      BY <2>2 DEF Kept
    <2> QED  BY <1>0, <1>1, <2>1, <2>2, <2>3, WriterTypes
  <1>9. CASE CloseDest
    <2>1. WriterInv'
      BY <1>0, <1>9, CloseDestKeeps
    <2>2. /\ UNCHANGED <<engine, pass, reader, result, memFS, todo, waiting, puts, told, final,
                         late>>
          /\ phase' \in {"sealed", "failed"}
      BY <1>9 DEF CloseDest, history
    <2> QED  BY <1>0, <1>1, <2>1, <2>2, WriterTypes
  <1>10. CASE ClosePipe
    <2>1. WriterInv'
      BY <1>0, <1>10, StoredKeeps
    <2>2. /\ UNCHANGED <<engine, pass, reader, result, memFS, todo, waiting, puts, told, final,
                         late>>
          /\ phase' = "stored"
      BY <1>10 DEF ClosePipe, writer
    <2> QED  BY <1>0, <1>1, <2>1, <2>2, WriterTypes
  <1> QED  BY <1>2, <1>3, <1>4, <1>5, <1>6, <1>7, <1>8, <1>9, <1>10 DEF CloseBackup

(* No reader disturbs it, and none panics.                                 *)
LEMMA ReaderKeeps ==
  ASSUME IndInv, Reader
  PROVE  IndInv' /\ phase' # "panicked"
  <1>0. TypeOK /\ WriterInv /\ ReadOK /\ Readable
    BY DEF IndInv, ReaderInv
  <1>1. WriterInv'
    BY <1>0, StoredKeeps
  <1>2. TypeOK' /\ ReadOK' /\ Readable' /\ phase' # "panicked"
    <2>1. CASE \E p \in Pass \cup {NoPass} : OpenBackup(p)
      BY <1>0, <2>1, OpenBackupReads
    <2>2. CASE \E name \in SST \cup Meta, mode \in {"local", "full"} : GetFile(name, mode)
      BY <1>0, <2>2, GetFileReads
    <2>3. CASE Read
      <3>1. PICK len \in 1 .. MaxBuf : ReadSection(len) \/ ReadRange(len)
        BY <2>3 DEF Read
      <3> QED  BY <1>0, <3>1, ReadSectionReads, ReadRangeReads
    <2>4. CASE EndOfSection
      BY <1>0, <2>4, EndOfSectionReads
    <2>5. CASE \/ Drop
               \/ \E end \in {-1} \cup (Len(got) .. section.size + 1) : GetRange(end)
               \/ NextFile
      BY <1>0, <2>5, OtherStepsRead
    <2> QED  BY <2>1, <2>2, <2>3, <2>4, <2>5 DEF Reader, Copy
  <1> QED  BY <1>1, <1>2 DEF IndInv, ReaderInv

(* Every step keeps the invariant.                                         *)
LEMMA NextInv ==
  ASSUME IndInv, [Next]_vars
  PROVE  IndInv'
  <1>1. CASE UNCHANGED vars
    <2>1. WriterInv'
      BY <1>1, StoredKeeps DEF IndInv
    <2>2. TypeOK' /\ ReadOK' /\ Readable'
      BY <1>1 DEF vars, writer, history, reader, request, IndInv, ReaderInv, TypeOK, ReadOK,
                  Readable
    <2> QED  BY <2>1, <2>2 DEF IndInv, ReaderInv
  <1>2. CASE ServeHTTP
    BY <1>2, RequestInv
  <1>3. CASE \/ Arrive \/ CloseBackup
             \/ \E r \in {"ok", "err"} : StatementEnds(r) \/ DumpExits(r)
             \/ \E n \in 1 .. MaxBody : DumpWrites(n)
    BY <1>3, CloseInv
  <1>4. CASE Reader
    BY <1>4, ReaderKeeps
  <1> QED  BY <1>1, <1>2, <1>3, <1>4 DEF Next, Reader

-----------------------------------------------------------------------------
(* The invariant that the theorems rest on: what the archive and the       *)
(* cipher hold at every moment, and what a reader has of it.               *)
THEOREM Inductive == Spec => []IndInv
  <1>1. Init => IndInv
    BY InitInv
  <1>2. IndInv /\ [Next]_vars => IndInv'
    BY NextInv
  <1> QED  BY <1>1, <1>2, PTL DEF Spec

(* Offsets, sizes and counters are never negative, and the rest of the     *)
(* crypto-writer's bytes never fills a block (archive.go, writer.go).      *)
THEOREM TypeCorrect == Spec => []TypeOK
  <1>1. IndInv => TypeOK
    BY DEF IndInv
  <1> QED  BY <1>1, Inductive, PTL

(* The closed archive has every file as the database was last told: an     *)
(* acknowledged upload is complete, an acknowledged removal holds          *)
(* (cockroach/writer.go).                                                  *)
THEOREM ToldKeptThm == Spec => []ToldKept
  <1>1. IndInv => ToldKept
    BY DEF IndInv, WriterInv
  <1> QED  BY <1>1, Inductive, PTL

(* A backup whose upload succeeded can be opened with the right            *)
(* passphrase, unless a request came after the footer (archive.go,         *)
(* readerAt.go).                                                           *)
THEOREM ReadableThm == Spec => []Readable
  <1>1. IndInv => Readable
    BY DEF IndInv, ReaderInv
  <1> QED  BY <1>1, Inductive, PTL

(* Whatever a reader has of a file is the beginning of the file, for any   *)
(* sizes of blocks, files, ranges and reads (reader.go, readerAt.go).      *)
THEOREM FetchedExactThm == Spec => []FetchedExact
  <1>1. ASSUME IndInv
        PROVE  FetchedExact
    <2> DEFINE v == View(dest.out, readPass)
    <2>0. TypeOK /\ WriterInv /\ ReadOK
      BY <1>1 DEF IndInv, ReaderInv
    <2> SUFFICES ASSUME phase \in {"read", "cut", "done"}, file # NoFile,
                        engine = "cockroach" \/ readPass = pass
                 PROVE  /\ got = SubSeq(final[file], 1, Len(got))
                        /\ phase = "done" => Len(got) = Len(final[file])
      BY DEF FetchedExact
    <2>1. /\ got \in Seq(Byte(Val)) /\ Len(got) <= section.size
          /\ section.start \in Nat /\ section.size \in Nat
          /\ got = SubSeq(v, section.start + 1, section.start + Len(got))
          /\ section.start + section.size <= Len(v)
          /\ phase = "done" => Len(got) = section.size
      BY <2>0 DEF ReadOK, TypeOK
    <2>2. v \in Seq(Byte(Val)) /\ Len(v) \in Nat
      <3>1. readPass # NoPass => BlockSize <= Len(dest.out)
        BY <2>0, CryptoAssumption DEF ReadOK
      <3> QED  BY <2>0, <3>1, ObjectIs, SizeIs
    <2>3. final[file] = Part(v, section)
      <3>1. CASE engine = "cockroach"
        <4>1. /\ IsArchive(v, final) /\ index = DecodeFrom(Last(v))
          BY <2>0, <3>1, OpenedIs
        <4>2. file \in DOMAIN index /\ section = index[file] /\ file \in Name
          BY <2>0, <3>1 DEF ReadOK, TypeOK
        <4> HIDE DEF v
        <4> QED  BY <4>1, <4>2 DEF IsArchive
      <3>2. CASE engine # "cockroach"
        <4>1. engine = "postgres" /\ readPass = pass
          BY <2>0, <3>2 DEF TypeOK
        <4>2. file = Dump /\ section = [start |-> 0, size |-> Len(v)]
          BY <2>0, <4>1 DEF ReadOK
        <4>3. final[Dump] = v
          <5>1. ~late /\ Ended /\ Dump \in Name
            BY <2>0, <4>1 DEF WriterInv, PostgresOK, Ended, Name
          <5>2. HasFiles(v)
            BY <2>0, <4>1, <5>1 DEF WriterInv, SealedOK
          <5> HIDE DEF v
          <5> QED  BY <4>1, <5>1, <5>2 DEF HasFiles
        <4> HIDE DEF v
        <4>4. Part(v, section) = SubSeq(v, 1, Len(v))
          <5>1. section.start + 1 = 1 /\ section.start + section.size = Len(v)
            BY <2>2, <4>2
          <5> QED  BY <5>1 DEF Part
        <4>5. SubSeq(v, 1, Len(v)) = v
          BY <2>2, SubSeqFull
        <4> QED  BY <4>2, <4>3, <4>4, <4>5
      <3> QED  BY <3>1, <3>2
    <2> DEFINE a == section.start
               c == section.start + section.size
               l == Len(got)
               x == SubSeq(v, a + 1, c)
    <2>4. /\ a \in Nat /\ c \in Nat /\ a <= c /\ c <= Len(v) /\ c - a = section.size
          /\ 0 \in Nat /\ l \in Nat /\ 0 <= l /\ l <= c - a
      <3> HIDE DEF v
      <3> QED  BY <2>1, <2>2
    <2>5. final[file] = x /\ got = SubSeq(v, a + 1, a + l)
      BY <2>1, <2>3 DEF Part
    <2> HIDE DEF v, a, c, l
    <2>6. Len(x) = c - a
      BY <2>2, <2>4, SectionOf
    <2>7. SubSeq(x, 0 + 1, l) = SubSeq(v, a + 0 + 1, a + l)
      BY <2>2, <2>4, SectionOfSection
    <2>8. SubSeq(x, 1, l) = got
      <3>1. a + 0 + 1 = a + 1 /\ 0 + 1 = 1
        BY <2>4
      <3> QED  BY <2>5, <2>7, <3>1
    <2>9. phase = "done" => l = Len(x)
      BY <2>1, <2>4, <2>6 DEF l
    <2> QED  BY <2>5, <2>8, <2>9 DEF l
  <1> QED  BY <1>1, Inductive, PTL


-----------------------------------------------------------------------------
(* The refinement mapping, by name.                                        *)
StoreState ==
  IF Open THEN "open"
  ELSE IF Failed THEN "failed"
  ELSE IF AsClosed \/ contents.intact THEN "sealed"
  ELSE "spoiled"

StoreFiles ==
  IF Open THEN Kept
  ELSE IF Failed THEN [n \in Name |-> Missing]
  ELSE IF AsClosed THEN final
  ELSE contents.files

(* The steps of FileStore in these terms.                                  *)
LEMMA StoreSteps ==
  /\ StoreState = "open" /\ StoreState' = "open"
     /\ (\E n \in Name : \A m \in Name \ {n} : StoreFiles'[m] = StoreFiles[m])
       => Store!Next
  /\ StoreState = "open" /\ StoreState' = "sealed" /\ StoreFiles' = StoreFiles
       => Store!Next
  /\ StoreState = "open" /\ StoreState' = "failed" /\ StoreFiles' = [n \in Name |-> Missing]
       => Store!Next
  /\ StoreState = "sealed" /\ StoreState' = "spoiled"
     /\ StoreFiles' = [n \in Name |-> Missing]
       => Store!Next
  /\ StoreState' = StoreState /\ StoreFiles' = StoreFiles => UNCHANGED Store!vars
  BY DEF StoreState, StoreFiles, Store!Next, Store!Change, Store!Seal, Store!Fail,
         Store!Spoil, Store!NoFiles, Store!vars

(* What is kept when the archive is closed is a function, like Kept.       *)
FinalShape == final = [n \in Name |-> final[n]]

(* It stays one.                                                           *)
LEMMA FinalStep ==
  ASSUME FinalShape, [Next]_vars
  PROVE  FinalShape'
  <1>1. final' = final \/ final' = Kept
    <2>1. CASE UNCHANGED vars
      BY <2>1 DEF vars, history
    <2>2. CASE ServeHTTP
      BY <2>2 DEF ServeHTTP, PutSST, PutMeta, DeleteMeta, ServeOther, history
    <2>3. CASE CloseBackup
      BY <2>3 DEF CloseBackup, CloseLocked, CopyMeta, WriteFooter, CloseDest, ClosePipe, history
    <2>4. CASE \/ Arrive
               \/ \E r \in {"ok", "err"} : StatementEnds(r) \/ DumpExits(r)
               \/ \E n \in 1 .. MaxBody : DumpWrites(n)
      BY <2>4 DEF Arrive, StatementEnds, DumpExits, DumpWrites, history
    <2>5. CASE Reader
      BY <2>5, ReaderLeaves DEF history
    <2> QED  BY <2>1, <2>2, <2>3, <2>4, <2>5 DEF Next, Reader
  <1>2. Kept = [n \in Name |-> Kept[n]]
    BY DEF Kept
  <1> QED  BY <1>1, <1>2 DEF FinalShape

(* The stored object has the files of the closed archive, or is none.      *)
LEMMA StoredIs ==
  ASSUME IndInv, FinalShape, ClosePipe
  PROVE  \/ contents'.intact /\ contents'.files = final
         \/ ~contents'.intact /\ contents'.files = [n \in Name |-> Missing]
  <1> DEFINE s == View(dest.out, pass)
             stream == Stream([dest EXCEPT !.buf = <<>>])
             raw == SubSeq(stream, Len(stream) - FooterPad + 1, Len(stream))
             footer == IF engine = "postgres"
                       THEN [n \in {Dump} |-> [start |-> 0, size |-> Len(stream)]]
                       ELSE IF IsFooter(raw) THEN DecodeFrom(raw)
                       ELSE <<>>
             files == [n \in Name |->
                         IF n \in DOMAIN footer THEN Part(stream, footer[n]) ELSE Missing]
  <1>1. /\ phase = "sealed" /\ TypeOK /\ WriterInv
        /\ contents' = [intact |-> engine = "postgres" \/ IsFooter(raw), files |-> files]
    BY DEF ClosePipe, Contents, IndInv
  <1>2. s \in Seq(Byte(Val)) /\ Len(s) \in Nat
    <2>1. pass # NoPass => BlockSize <= Len(dest.out)
      BY <1>1, ObjectIs
    <2> QED  BY <1>1, <2>1, ObjectIs, SizeIs
  <1>3. stream = s
    <2> DEFINE d == [dest EXCEPT !.buf = <<>>]
               x == XORKeyStreamAt(SubSeq(d.out, BlockSize + 1, Len(d.out)), d.pass, 0)
    <2>1. d.pass = pass /\ d.out = dest.out /\ d.buf = <<>>
      BY <1>1 DEF WriterInv, DestOK, IsDest, HasFields
    <2> HIDE DEF d
    <2>2. stream = IF d.pass = NoPass THEN d.out ELSE x \o d.buf
      BY DEF Stream, d
    <2>3. CASE pass = NoPass
      BY <2>1, <2>2, <2>3 DEF View
    <2>4. CASE pass # NoPass
      <3>1. x = s
        BY <2>1, <2>4 DEF View, Payload
      <3>2. s \o <<>> = s
        <4> HIDE DEF s
        <4> QED  BY <1>2, ConcatEmptySeq
      <3> QED  BY <2>1, <2>2, <2>4, <3>1, <3>2
    <2> QED  BY <2>3, <2>4
  <1> HIDE DEF stream
  <1>4. raw = Last(s)
    BY <1>3 DEF Last
  <1> HIDE DEF raw
  <1>5. HasFiles(s) \/ (late /\ NoFooter(s))
    BY <1>1 DEF WriterInv, SealedOK, Ended
  <1> HIDE DEF s
  <1>6. CASE engine = "postgres"
    <2>1. ~late /\ Dump \in Name
      BY <1>1, <1>6 DEF WriterInv, PostgresOK, Name
    <2>2. \A n \in Name : final[n] = IF n = Dump THEN s ELSE Missing
      BY <1>5, <1>6, <2>1 DEF HasFiles
    <2>3. Part(s, [start |-> 0, size |-> Len(s)]) = s
      <3> DEFINE info == [start |-> 0, size |-> Len(s)]
      <3>1. info.start + 1 = 1 /\ info.start + info.size = Len(s)
        BY <1>2
      <3> HIDE DEF info
      <3>2. Part(s, info) = SubSeq(s, 1, Len(s))
        BY <3>1 DEF Part
      <3>3. SubSeq(s, 1, Len(s)) = s
        BY <1>2, SubSeqFull
      <3> QED  BY <3>2, <3>3 DEF info
    <2>4. footer = [n \in {Dump} |-> [start |-> 0, size |-> Len(s)]]
      BY <1>3, <1>6
    <2> HIDE DEF footer
    <2>5. \A n \in Name : files[n] = final[n]
      BY <1>3, <2>2, <2>3, <2>4
    <2>6. files = final
      BY <2>5 DEF FinalShape
    <2> QED  BY <1>1, <1>6, <2>6
  <1>7. CASE engine # "postgres" /\ HasFiles(s)
    <2>1. IsArchive(s, final)
      BY <1>7 DEF HasFiles
    <2>2. IsFooter(raw)
      BY <1>2, <1>4, <2>1, ArchiveHasFooter
    <2>3. footer = DecodeFrom(Last(s))
      BY <1>4, <1>7, <2>2
    <2> HIDE DEF footer
    <2>4. \A n \in Name : files[n] = final[n]
      BY <1>3, <2>1, <2>3 DEF IsArchive
    <2>5. files = final
      BY <2>4 DEF FinalShape
    <2> QED  BY <1>1, <2>2, <2>5
  <1>8. CASE engine # "postgres" /\ NoFooter(s)
    <2>1. ~IsFooter(raw)
      <3>0. FooterPad \in Nat \ {0}
        BY ArchiveAssumption, CryptoAssumption
      <3>1. FooterPad <= Len(s)
        BY <1>2, <1>8, <3>0 DEF NoFooter
      <3>2. Last(s)[1] = s[Len(s) - FooterPad + 1]
        BY <1>2, <3>0, <3>1, LastOf
      <3>3. s[Len(s) - FooterPad + 1].val \in Said
        BY <1>2, <1>8, <3>0, <3>1 DEF NoFooter
      <3>4. Last(s)[1].val[1] # "footer"
        BY <3>2, <3>3, SaidIsNoFooter
      <3> QED  BY <1>4, <3>4 DEF IsFooter
    <2>2. DOMAIN footer = {}
      BY <1>8, <2>1
    <2> HIDE DEF footer
    <2>3. files = [n \in Name |-> Missing]
      BY <2>2
    <2> QED  BY <1>1, <1>8, <2>1, <2>3
  <1> QED  BY <1>5, <1>6, <1>7, <1>8

(* A request changes one file, and none when the archive is closed.        *)
LEMMA RequestImplements ==
  ASSUME IndInv, ServeHTTP
  PROVE  [Store!Next]_(Store!vars)
  <1>0. TypeOK /\ WriterInv
    BY DEF IndInv
  <1>1. /\ UNCHANGED <<engine, phase, result, final, contents>>
        /\ phase \in {"exec", "close", "flushed", "sealed"}
    BY DEF ServeHTTP, PutSST, PutMeta, DeleteMeta, ServeOther, Served, history
  <1>2. Open => \E n \in Name : \A m \in Name \ {n} : Kept'[m] = Kept[m]
    <2> SUFFICES ASSUME Open
                 PROVE  \E n \in Name : \A m \in Name \ {n} : Kept'[m] = Kept[m]
      OBVIOUS
    <2>1. ASSUME NEW len \in 0 .. MaxBody, NEW n \in 0 .. len, NEW name \in SST,
                 PutSST(name, len, n)
          PROVE  \A m \in Name \ {name} : Kept'[m] = Kept[m]
      <3>1. len \in Nat
        OBVIOUS
      <3>2. CASE Exists(aw, name)
        BY <1>0, <2>1, <3>1, <3>2, PutSSTRefused
      <3>3. CASE ~Exists(aw, name)
        BY <1>0, <2>1, <3>1, <3>3, PutSSTOpen
      <3> QED  BY <3>2, <3>3
    <2>2. ASSUME NEW len \in 0 .. MaxBody, NEW n \in 0 .. len, NEW name \in Meta,
                 PutMeta(name, len, n)
          PROVE  \A m \in Name \ {name} : Kept'[m] = Kept[m]
      <3>1. len \in Nat
        OBVIOUS
      <3> QED  BY <1>0, <2>2, <3>1, PutMetaKeeps
    <2>3. ASSUME NEW name \in Meta, DeleteMeta(name)
          PROVE  \A m \in Name \ {name} : Kept'[m] = Kept[m]
      BY <1>0, <2>3, DeleteMetaKeeps
    <2>4. ASSUME ServeOther
          PROVE  \A m \in Name : Kept'[m] = Kept[m]
      BY <1>0, <2>4, OtherRequestKeeps
    <2>5. SST \cup Meta \cup {Dump} = Name
      BY DEF Name
    <2> QED  BY <2>1, <2>2, <2>3, <2>4, <2>5 DEF ServeHTTP
  <1>3. CASE Open
    <2>1. StoreState = "open" /\ StoreState' = "open"
      BY <1>1, <1>3 DEF StoreState, Open
    <2>2. StoreFiles = Kept /\ StoreFiles' = Kept'
      BY <1>1, <1>3 DEF StoreFiles, Open
    <2> QED  BY <1>2, <1>3, <2>1, <2>2, StoreSteps
  <1>4. CASE ~Open
    <2>1. StoreState' = StoreState /\ StoreFiles' = StoreFiles
      BY <1>1, <1>4 DEF StoreState, StoreFiles, Open, Failed, AsClosed
    <2> QED  BY <2>1, StoreSteps
  <1> QED  BY <1>3, <1>4

(* The end of a backup seals its files, loses all of them, or does not     *)
(* concern them.                                                           *)
LEMMA CloseImplements ==
  ASSUME IndInv, FinalShape,
         \/ Arrive \/ CloseBackup
         \/ \E r \in {"ok", "err"} : StatementEnds(r) \/ DumpExits(r)
         \/ \E n \in 1 .. MaxBody : DumpWrites(n)
  PROVE  [Store!Next]_(Store!vars)
  <1>0. TypeOK /\ WriterInv /\ result \in {"ok", "err"}
    BY DEF IndInv, TypeOK
  <1>1. CASE \/ Arrive \/ CloseLocked
             \/ \E r \in {"ok", "err"} : StatementEnds(r)
             \/ \E name \in Meta : CopyMeta(name)
    <2>1. Kept' = Kept
      BY <1>0, <1>1, OtherRequestKeeps, CloseLockedKeeps, CopyMetaKeeps
    <2>2. Open /\ Open'
      BY <1>1 DEF Arrive, CloseLocked, StatementEnds, CopyMeta, Open
    <2>3. StoreState' = StoreState /\ StoreFiles' = StoreFiles
      BY <2>1, <2>2 DEF StoreState, StoreFiles
    <2> QED  BY <2>3, StoreSteps
  <1>2. ASSUME NEW n \in 1 .. MaxBody, DumpWrites(n)
        PROVE  [Store!Next]_(Store!vars)
    <2>1. (\A m \in Name \ {Dump} : Kept'[m] = Kept[m]) /\ Dump \in Name
      BY <1>0, <1>2, DumpWritesKeeps DEF Name
    <2>2. Open /\ Open'
      BY <1>2 DEF DumpWrites, Open
    <2>3. /\ StoreState = "open" /\ StoreState' = "open"
          /\ StoreFiles = Kept /\ StoreFiles' = Kept'
      BY <2>2 DEF StoreState, StoreFiles
    <2> QED  BY <2>1, <2>3, StoreSteps
  <1>3. CASE WriteFooter \/ \E r \in {"ok", "err"} : DumpExits(r)
    <2>1. /\ Open /\ ~Open' /\ final' = Kept
          /\ \/ phase' = "flushed" /\ result' \in {"ok", "err"}
             \/ phase' = "panicked" /\ ~FooterFits(aw'.footer)
      <3>1. CASE WriteFooter
        <4>1. IsArchiveWriter(aw)
          BY <1>0 DEF WriterInv, ArchiveOK
        <4>2. DOMAIN closeIfOpen(aw).footer = DOMAIN aw.footer
          BY <4>1, CloseIfOpenCompletes
        <4>3. FooterFits(closeIfOpen(aw).footer) <=> FooterFits(aw.footer)
          BY <4>2 DEF FooterFits, FooterLen
        <4> QED  BY <1>0, <3>1, <4>3 DEF WriteFooter, Open
      <3>2. CASE \E r \in {"ok", "err"} : DumpExits(r)
        BY <3>2 DEF DumpExits, Open
      <3> QED  BY <1>3, <3>1, <3>2
    <2>2. StoreState = "open" /\ StoreFiles = Kept
      BY <2>1 DEF StoreState, StoreFiles
    <2>3. CASE phase' = "flushed" /\ result' = "ok"
      <3>1. StoreState' = "sealed" /\ StoreFiles' = Kept
        BY <2>1, <2>3 DEF StoreState, StoreFiles, Failed, AsClosed
      <3> QED  BY <2>2, <3>1, StoreSteps
    <2>4. CASE ~(phase' = "flushed" /\ result' = "ok")
      <3>1. StoreState' = "failed" /\ StoreFiles' = [n \in Name |-> Missing]
        BY <2>1, <2>4 DEF StoreState, StoreFiles, Failed
      <3> QED  BY <2>2, <3>1, StoreSteps
    <2> QED  BY <2>3, <2>4
  <1>4. CASE CloseDest
    <2>1. /\ UNCHANGED <<result, aw, final, contents>>
          /\ ~Open /\ ~Open' /\ phase = "flushed"
          /\ \/ result = "ok" /\ phase' = "sealed"
             \/ result = "err" /\ phase' = "failed"
      BY <1>0, <1>4 DEF CloseDest, Open, history
    <2>2. StoreState' = StoreState /\ StoreFiles' = StoreFiles
      BY <2>1 DEF StoreState, StoreFiles, Failed, AsClosed
    <2> QED  BY <2>2, StoreSteps
  <1>5. CASE ClosePipe
    <2>1. phase = "sealed" /\ phase' = "stored"
      BY <1>5 DEF ClosePipe
    <2>2. StoreState = "sealed" /\ StoreFiles = final
      BY <2>1 DEF StoreState, StoreFiles, Open, Failed, AsClosed
    <2>3. /\ StoreState' = IF contents'.intact THEN "sealed" ELSE "spoiled"
          /\ StoreFiles' = contents'.files
      BY <2>1 DEF StoreState, StoreFiles, Open, Failed, AsClosed
    <2>4. \/ contents'.intact /\ contents'.files = final
          \/ ~contents'.intact /\ contents'.files = [n \in Name |-> Missing]
      BY <1>5, StoredIs
    <2>5. CASE contents'.intact /\ contents'.files = final
      BY <2>2, <2>3, <2>5, StoreSteps
    <2>6. CASE ~contents'.intact /\ contents'.files = [n \in Name |-> Missing]
      BY <2>2, <2>3, <2>6, StoreSteps
    <2> QED  BY <2>4, <2>5, <2>6
  <1> QED  BY <1>1, <1>2, <1>3, <1>4, <1>5 DEF CloseBackup

(* Whoever reads changes nothing.                                          *)
LEMMA ReaderImplements ==
  ASSUME IndInv, Reader
  PROVE  UNCHANGED Store!vars
  <1>1. /\ phase \in {"stored", "read", "cut", "ready", "done"}
        /\ phase' \in {"read", "cut", "ready", "done", "unreadable"}
        /\ UNCHANGED contents
    BY ReaderLeaves, ReaderKeeps DEF history
  <1>2. /\ ~Open /\ ~Failed /\ ~AsClosed
        /\ ~Open' /\ ~Failed' /\ ~AsClosed'
    BY <1>1 DEF Open, Failed, AsClosed
  <1>3. StoreState' = StoreState /\ StoreFiles' = StoreFiles
    BY <1>1, <1>2 DEF StoreState, StoreFiles
  <1> QED  BY <1>3, StoreSteps

(* A backup file is a FileStore: a request changes one file at most,       *)
(* nothing changes once the archive is closed, and the stored object has   *)
(* exactly those files or is recognised as no archive (writer.go,          *)
(* archive.go, writer.go of cryptostream).                                 *)
THEOREM Refines == Spec => ImplementsFileStore
  <1>1. Init => Store!Init /\ FinalShape
    <2> SUFFICES ASSUME Init
                 PROVE  Store!Init /\ FinalShape
      OBVIOUS
    <2>1. StoreState = "open" /\ StoreFiles = Kept
      BY DEF Init, StoreState, StoreFiles, Open
    <2>2. Stream(dest) = <<>>
      BY NewDestEmpty DEF Init
    <2>3. DOMAIN memFS = {} /\ \A n : ~Exists(aw, n)
      BY DEF Init, newArchiveWriter, Exists
    <2>4. \A n \in Name : Kept[n] \in {Missing, <<>>}
      BY <2>2, <2>3 DEF Kept
    <2>5. Kept \in [Name -> {Missing, <<>>}]
      BY <2>4 DEF Kept
    <2>6. Store!Init
      BY <2>1, <2>5 DEF Store!Init, StoreState, StoreFiles
    <2>7. FinalShape
      BY DEF Init, FinalShape
    <2> QED  BY <2>6, <2>7
  <1>2. IndInv /\ FinalShape /\ [Next]_vars => FinalShape' /\ [Store!Next]_(Store!vars)
    <2> SUFFICES ASSUME IndInv, FinalShape, [Next]_vars
                 PROVE  FinalShape' /\ [Store!Next]_(Store!vars)
      OBVIOUS
    <2>1. FinalShape'
      BY FinalStep
    <2>2. CASE UNCHANGED vars
      <3>1. Kept' = Kept
        BY <2>2, SameKept DEF vars, writer, history
      <3>2. StoreState' = StoreState /\ StoreFiles' = StoreFiles
        BY <2>2, <3>1 DEF vars, writer, history, StoreState, StoreFiles, Open, Failed, AsClosed
      <3> QED  BY <2>1, <3>2, StoreSteps
    <2>3. CASE ServeHTTP
      BY <2>1, <2>3, RequestImplements
    <2>4. CASE \/ Arrive \/ CloseBackup
               \/ \E r \in {"ok", "err"} : StatementEnds(r) \/ DumpExits(r)
               \/ \E n \in 1 .. MaxBody : DumpWrites(n)
      BY <2>1, <2>4, CloseImplements
    <2>5. CASE Reader
      BY <2>1, <2>5, ReaderImplements
    <2> QED  BY <2>2, <2>3, <2>4, <2>5 DEF Next, Reader
  <1> QED  BY <1>1, <1>2, Inductive, PTL DEF Spec, ImplementsFileStore, Store!Spec
=============================================================================
