------------------------- MODULE CryptoStreamProofs -------------------------
(***************************************************************************)
(* What the operators of CryptoStream compute, for blocks of any size and  *)
(* any stream of bytes: a reader with the writer's passphrase gets what    *)
(* was written.                                                            *)
(***************************************************************************)
EXTENDS CryptoStream, SequenceTheorems, TLAPS

(* The bytes of a sequence from m up to n, ...                             *)
LEMMA SectionOf ==
  ASSUME NEW S, NEW s \in Seq(S), NEW m \in Nat, NEW n \in Nat, m <= n, n <= Len(s)
  PROVE  /\ SubSeq(s, m + 1, n) \in Seq(S)
         /\ Len(SubSeq(s, m + 1, n)) = n - m
         /\ \A i \in 1 .. n - m : SubSeq(s, m + 1, n)[i] = s[m + i]
  <1> DEFINE a == m + 1
             t == SubSeq(s, a, n)
  <1>1. \A i \in a .. n : s[i] \in S
    BY ElementOfSeq
  <1>2. a \in Int /\ a - 1 = m
    OBVIOUS
  <1> HIDE DEF a
  <1>3. /\ t \in Seq(S) /\ Len(t) = IF a <= n THEN n - a + 1 ELSE 0
        /\ \A i \in 1 .. n - a + 1 : t[i] = s[a + i - 1]
    BY <1>1, <1>2, SubSeqProperties
  <1> HIDE DEF t
  <1>4. Len(t) = n - m
    BY <1>2, <1>3
  <1>5. ASSUME NEW i \in 1 .. n - m
        PROVE  t[i] = s[m + i]
    <2>1. i \in 1 .. n - a + 1 /\ a + i - 1 = m + i
      BY <1>2
    <2> QED  BY <1>3, <2>1
  <1> QED  BY <1>3, <1>4, <1>5 DEF t, a

(* ... and some of those.                                                  *)
LEMMA SectionOfSection ==
  ASSUME NEW S, NEW s \in Seq(S), NEW m \in Nat, NEW n \in Nat, m <= n, n <= Len(s),
         NEW k \in Nat, NEW l \in Nat, k <= l, l <= n - m
  PROVE  SubSeq(SubSeq(s, m + 1, n), k + 1, l) = SubSeq(s, m + k + 1, m + l)
  <1> DEFINE t == SubSeq(s, m + 1, n)
             u == SubSeq(t, k + 1, l)
             a == m + k
             b == m + l
             v == SubSeq(s, a + 1, b)
  <1>1. /\ t \in Seq(S) /\ Len(t) = n - m /\ \A i \in 1 .. n - m : t[i] = s[m + i]
    BY SectionOf
  <1> HIDE DEF t
  <1>2. l <= Len(t)
    BY <1>1
  <1>3. /\ u \in Seq(S) /\ Len(u) = l - k /\ \A i \in 1 .. l - k : u[i] = t[k + i]
    BY <1>1, <1>2, SectionOf
  <1> HIDE DEF u
  <1>4. Len(s) \in Nat /\ a \in Nat /\ b \in Nat /\ a <= b /\ b <= Len(s) /\ b - a = l - k
        /\ a = m + k
    OBVIOUS
  <1> HIDE DEF a, b
  <1>5. /\ v \in Seq(S) /\ Len(v) = b - a /\ \A i \in 1 .. b - a : v[i] = s[a + i]
    BY <1>4, SectionOf
  <1> HIDE DEF v
  <1>6. ASSUME NEW i \in 1 .. l - k
        PROVE  u[i] = v[i]
    <2>1. k + i \in 1 .. n - m /\ m + (k + i) = a + i /\ i \in 1 .. b - a
      BY <1>4
    <2> QED  BY <1>1, <1>3, <1>5, <2>1
  <1>7. u = v
    BY <1>3, <1>4, <1>5, <1>6, SeqEqual
  <1> QED  BY <1>7 DEF u, t, v, a, b

(* A length in whole blocks and a rest.                                    *)
LEMMA WholeBlocks ==
  ASSUME NEW n \in Nat
  PROVE  /\ n \div BlockSize \in Nat
         /\ (n \div BlockSize) * BlockSize \in Nat
         /\ (n \div BlockSize) * BlockSize <= n
         /\ n < (n \div BlockSize) * BlockSize + BlockSize
  BY CryptoAssumption

(* Bytes that say something in V, whatever they have been XORed with.      *)
Byte(V) == [val : V, key : SUBSET (Pass \X Nat)]

-----------------------------------------------------------------------------
(* The same key stream byte twice is none.                                 *)
LEMMA ToggledTwice ==
  ASSUME NEW key, NEW k
  PROVE  Toggled(Toggled(key, k), k) = key
  BY DEF Toggled

(* XORing keeps the length and works byte by byte.                         *)
LEMMA XORBytes ==
  ASSUME NEW V, NEW s \in Seq(Byte(V)), NEW p \in Pass, NEW off \in Nat
  PROVE  /\ XORKeyStreamAt(s, p, off) \in Seq(Byte(V))
         /\ Len(XORKeyStreamAt(s, p, off)) = Len(s)
         /\ \A i \in 1 .. Len(s) :
              XORKeyStreamAt(s, p, off)[i] =
                [val |-> s[i].val, key |-> Toggled(s[i].key, <<p, off + i - 1>>)]
  <1> DEFINE f(i) == [val |-> s[i].val, key |-> Toggled(s[i].key, <<p, off + i - 1>>)]
  <1>1. DOMAIN s = 1 .. Len(s) /\ Len(s) \in Nat
    OBVIOUS
  <1>2. XORKeyStreamAt(s, p, off) = [i \in 1 .. Len(s) |-> f(i)]
    BY <1>1 DEF XORKeyStreamAt
  <1>3. \A i \in 1 .. Len(s) : f(i) \in Byte(V)
    <2> SUFFICES ASSUME NEW i \in 1 .. Len(s)
                 PROVE  f(i) \in Byte(V)
      OBVIOUS
    <2>1. s[i] \in Byte(V) /\ off + i - 1 \in Nat
      BY <1>1, ElementOfSeq
    <2> QED  BY <2>1 DEF Byte, Toggled
  <1> HIDE DEF f
  <1>4. [i \in 1 .. Len(s) |-> f(i)] \in Seq(Byte(V))
    BY <1>1, <1>3, IsASeq
  <1>5. Len([i \in 1 .. Len(s) |-> f(i)]) = Len(s)
    BY <1>1, <1>4
  <1> QED  BY <1>2, <1>4, <1>5 DEF f

(* Decryption undoes encryption.                                           *)
LEMMA XORTwice ==
  ASSUME NEW V, NEW s \in Seq(Byte(V)), NEW p \in Pass, NEW off \in Nat
  PROVE  XORKeyStreamAt(XORKeyStreamAt(s, p, off), p, off) = s
  <1> DEFINE t == XORKeyStreamAt(s, p, off)
             u == XORKeyStreamAt(t, p, off)
  <1>1. /\ t \in Seq(Byte(V)) /\ Len(t) = Len(s)
        /\ \A i \in 1 .. Len(s) :
             t[i] = [val |-> s[i].val, key |-> Toggled(s[i].key, <<p, off + i - 1>>)]
    BY XORBytes
  <1> HIDE DEF t
  <1>2. /\ u \in Seq(Byte(V)) /\ Len(u) = Len(t)
        /\ \A i \in 1 .. Len(t) :
             u[i] = [val |-> t[i].val, key |-> Toggled(t[i].key, <<p, off + i - 1>>)]
    BY <1>1, XORBytes
  <1> HIDE DEF u
  <1>3. ASSUME NEW i \in 1 .. Len(s)
        PROVE  u[i] = s[i]
    <2>1. s[i] \in Byte(V)
      BY ElementOfSeq
    <2> DEFINE k == <<p, off + i - 1>>
    <2>0. t[i] = [val |-> s[i].val, key |-> Toggled(s[i].key, k)]
      BY <1>1
    <2> HIDE DEF k
    <2>2. t[i].val = s[i].val /\ t[i].key = Toggled(s[i].key, k)
      BY <2>0
    <2> USE DEF k
    <2>3. u[i] = [val |-> t[i].val, key |-> Toggled(t[i].key, <<p, off + i - 1>>)]
      BY <1>1, <1>2
    <2>4. Toggled(t[i].key, <<p, off + i - 1>>) = s[i].key
      BY <2>2, ToggledTwice
    <2> QED  BY <2>1, <2>2, <2>3, <2>4 DEF Byte
  <1>4. u = s
    BY <1>1, <1>2, <1>3, SeqEqual
  <1> QED  BY <1>4 DEF t, u

(* Parts of a stream are encrypted each at its place.                      *)
LEMMA XORConcat ==
  ASSUME NEW V, NEW s \in Seq(Byte(V)), NEW t \in Seq(Byte(V)), NEW p \in Pass,
         NEW off \in Nat
  PROVE  XORKeyStreamAt(s \o t, p, off)
           = XORKeyStreamAt(s, p, off) \o XORKeyStreamAt(t, p, off + Len(s))
  <1> DEFINE st == s \o t
             x == XORKeyStreamAt(s, p, off)
             y == XORKeyStreamAt(t, p, off + Len(s))
             z == XORKeyStreamAt(st, p, off)
             xy == x \o y
  <1>1. /\ Len(s) \in Nat /\ Len(t) \in Nat /\ st \in Seq(Byte(V))
        /\ Len(st) = Len(s) + Len(t)
        /\ \A i \in 1 .. Len(s) + Len(t) : st[i] = IF i <= Len(s) THEN s[i] ELSE t[i - Len(s)]
    BY ConcatProperties
  <1> HIDE DEF st
  <1>2. /\ x \in Seq(Byte(V)) /\ Len(x) = Len(s)
        /\ \A i \in 1 .. Len(s) :
             x[i] = [val |-> s[i].val, key |-> Toggled(s[i].key, <<p, off + i - 1>>)]
    BY XORBytes
  <1>3. /\ y \in Seq(Byte(V)) /\ Len(y) = Len(t)
        /\ \A i \in 1 .. Len(t) :
             y[i] = [val |-> t[i].val, key |-> Toggled(t[i].key, <<p, off + Len(s) + i - 1>>)]
    BY <1>1, XORBytes
  <1>4. /\ z \in Seq(Byte(V)) /\ Len(z) = Len(st)
        /\ \A i \in 1 .. Len(st) :
             z[i] = [val |-> st[i].val, key |-> Toggled(st[i].key, <<p, off + i - 1>>)]
    BY <1>1, XORBytes
  <1> HIDE DEF x, y, z
  <1>5. /\ xy \in Seq(Byte(V)) /\ Len(xy) = Len(x) + Len(y)
        /\ \A i \in 1 .. Len(x) + Len(y) : xy[i] = IF i <= Len(x) THEN x[i] ELSE y[i - Len(x)]
    <2>1. x \in Seq(Byte(V)) /\ y \in Seq(Byte(V))
      BY <1>2, <1>3
    <2> QED  BY <2>1, ConcatProperties
  <1> HIDE DEF xy
  <1>6. ASSUME NEW i \in 1 .. Len(s) + Len(t)
        PROVE  z[i] = xy[i]
    <2>0. z[i] = [val |-> st[i].val, key |-> Toggled(st[i].key, <<p, off + i - 1>>)]
      BY <1>1, <1>4
    <2>1. CASE i <= Len(s)
      <3>1. i \in 1 .. Len(s) /\ st[i] = s[i] /\ xy[i] = x[i]
        BY <1>1, <1>2, <1>3, <1>5, <2>1
      <3> QED  BY <1>2, <2>0, <3>1
    <2>2. CASE i > Len(s)
      <3> DEFINE j == i - Len(s)
      <3>1. j \in 1 .. Len(t) /\ off + Len(s) + j - 1 = off + i - 1
        BY <1>1, <2>2
      <3>2. st[i] = t[j] /\ xy[i] = y[j]
        BY <1>1, <1>2, <1>3, <1>5, <2>2
      <3> HIDE DEF j
      <3>3. y[j] = [val |-> t[j].val, key |-> Toggled(t[j].key, <<p, off + Len(s) + j - 1>>)]
        BY <1>3, <3>1
      <3> QED  BY <2>0, <3>1, <3>2, <3>3
    <2> QED  BY <1>1, <2>1, <2>2
  <1>7. z = xy
    BY <1>1, <1>2, <1>3, <1>4, <1>5, <1>6, SeqEqual
  <1> QED  BY <1>7 DEF xy, x, y, z, st

(* The key stream is XORed into a part of a stream as into the whole.      *)
LEMMA XORPart ==
  ASSUME NEW V, NEW s \in Seq(Byte(V)), NEW p \in Pass,
         NEW m \in Nat, NEW n \in Nat, m <= n, n <= Len(s)
  PROVE  XORKeyStreamAt(SubSeq(s, m + 1, n), p, m)
           = SubSeq(XORKeyStreamAt(s, p, 0), m + 1, n)
  <1> DEFINE x == XORKeyStreamAt(s, p, 0)
             part == SubSeq(s, m + 1, n)
             y == XORKeyStreamAt(part, p, m)
             z == SubSeq(x, m + 1, n)
  <1>1. /\ x \in Seq(Byte(V)) /\ Len(x) = Len(s)
        /\ \A i \in 1 .. Len(s) :
             x[i] = [val |-> s[i].val, key |-> Toggled(s[i].key, <<p, 0 + i - 1>>)]
    BY XORBytes
  <1> HIDE DEF x
  <1>2. /\ part \in Seq(Byte(V)) /\ Len(part) = n - m
        /\ \A i \in 1 .. n - m : part[i] = s[m + i]
    BY SectionOf
  <1> HIDE DEF part
  <1>3. /\ z \in Seq(Byte(V)) /\ Len(z) = n - m
        /\ \A i \in 1 .. n - m : z[i] = x[m + i]
    BY <1>1, SectionOf
  <1> HIDE DEF z
  <1>4. /\ y \in Seq(Byte(V)) /\ Len(y) = Len(part)
        /\ \A i \in 1 .. Len(part) :
             y[i] = [val |-> part[i].val, key |-> Toggled(part[i].key, <<p, m + i - 1>>)]
    BY <1>2, XORBytes
  <1> HIDE DEF y
  <1>5. ASSUME NEW i \in 1 .. n - m
        PROVE  y[i] = z[i]
    <2> DEFINE j == m + i
    <2>1. j \in 1 .. Len(s) /\ m + i - 1 = 0 + j - 1
      OBVIOUS
    <2>2. z[i] = x[j] /\ part[i] = s[j]
      BY <1>2, <1>3
    <2> HIDE DEF j
    <2>3. x[j] = [val |-> s[j].val, key |-> Toggled(s[j].key, <<p, 0 + j - 1>>)]
      BY <1>1, <2>1
    <2>4. y[i] = [val |-> part[i].val, key |-> Toggled(part[i].key, <<p, m + i - 1>>)]
      BY <1>2, <1>4
    <2> QED  BY <2>1, <2>2, <2>3, <2>4
  <1>6. y = z
    BY <1>2, <1>3, <1>4, <1>5, SeqEqual
  <1> QED  BY <1>6 DEF y, z, x, part

-----------------------------------------------------------------------------
(* A writer that has not been closed: the header and whole blocks are out, *)
(* less than a block is waiting.                                           *)
IsWriter(c, V) ==
  /\ c.pass \in Pass
  /\ c.blocksWritten \in Nat
  /\ c.out \in Seq(Byte(V))
  /\ c.buf \in Seq(Byte(V))
  /\ Len(c.out) = BlockSize + c.blocksWritten * BlockSize
  /\ Len(c.buf) < BlockSize

(* What has been written to it.                                            *)
Payload(object) == SubSeq(object, BlockSize + 1, Len(object))
Plaintext(c) == XORKeyStreamAt(Payload(c.out), c.pass, 0) \o c.buf

(* The object behind its header, ...                                       *)
LEMMA PayloadOf ==
  ASSUME NEW V, NEW s \in Seq(Byte(V)), BlockSize <= Len(s)
  PROVE  /\ Payload(s) \in Seq(Byte(V))
         /\ Len(Payload(s)) = Len(s) - BlockSize
         /\ \A i \in 1 .. Len(s) - BlockSize : Payload(s)[i] = s[BlockSize + i]
  <1>1. BlockSize \in Nat /\ Len(s) \in Nat
    BY CryptoAssumption
  <1>2. \A i \in BlockSize + 1 .. Len(s) : s[i] \in Byte(V)
    BY <1>1, ElementOfSeq
  <1> QED  BY <1>1, <1>2, SubSeqProperties DEF Payload

(* ... which grows with it.                                                *)
LEMMA PayloadGrows ==
  ASSUME NEW V, NEW s \in Seq(Byte(V)), NEW t \in Seq(Byte(V)), BlockSize <= Len(s)
  PROVE  Payload(s \o t) = Payload(s) \o t
  <1> DEFINE st == s \o t
             b == Payload(s)
             bt == b \o t
  <1>1. /\ st \in Seq(Byte(V)) /\ Len(st) = Len(s) + Len(t)
        /\ Len(s) \in Nat /\ Len(t) \in Nat /\ BlockSize \in Nat
        /\ \A i \in 1 .. Len(s) + Len(t) : st[i] = IF i <= Len(s) THEN s[i] ELSE t[i - Len(s)]
    BY ConcatProperties, CryptoAssumption
  <1> HIDE DEF st
  <1>2. /\ b \in Seq(Byte(V)) /\ Len(b) = Len(s) - BlockSize
        /\ \A i \in 1 .. Len(s) - BlockSize : b[i] = s[BlockSize + i]
    BY PayloadOf
  <1> HIDE DEF b
  <1>3. /\ bt \in Seq(Byte(V)) /\ Len(bt) = Len(b) + Len(t)
        /\ \A i \in 1 .. Len(b) + Len(t) : bt[i] = IF i <= Len(b) THEN b[i] ELSE t[i - Len(b)]
    BY <1>2, ConcatProperties
  <1> HIDE DEF bt
  <1>4. /\ Payload(st) \in Seq(Byte(V)) /\ Len(Payload(st)) = Len(st) - BlockSize
        /\ \A i \in 1 .. Len(st) - BlockSize : Payload(st)[i] = st[BlockSize + i]
    <2>1. st \in Seq(Byte(V)) /\ BlockSize <= Len(st)
      BY <1>1
    <2> QED  BY <2>1, PayloadOf
  <1>5. ASSUME NEW i \in 1 .. Len(st) - BlockSize
        PROVE  Payload(st)[i] = bt[i]
    <2>1. Payload(st)[i] = st[BlockSize + i] /\ BlockSize + i \in 1 .. Len(s) + Len(t)
      BY <1>1, <1>4
    <2>2. CASE BlockSize + i <= Len(s)
      BY <1>1, <1>2, <1>3, <2>1, <2>2
    <2>3. CASE BlockSize + i > Len(s)
      BY <1>1, <1>2, <1>3, <2>1, <2>3
    <2> QED  BY <1>1, <2>2, <2>3
  <1>6. Payload(st) = bt
    BY <1>1, <1>2, <1>3, <1>4, <1>5, SeqEqual
  <1> QED  BY <1>6 DEF st, bt, b

(* Write appends to what has been written, ...                             *)
THEOREM WriteAppends ==
  ASSUME NEW V, NEW c, IsWriter(c, V), NEW p \in Seq(Byte(V)),
         c = [pass |-> c.pass, out |-> c.out, buf |-> c.buf,
              blocksWritten |-> c.blocksWritten]
  PROVE  /\ IsWriter(Write(c, p), V)
         /\ Write(c, p).pass = c.pass
         /\ Plaintext(c) \in Seq(Byte(V))
         /\ Plaintext(Write(c, p)) = Plaintext(c) \o p
  <1> DEFINE n == c.blocksWritten
             data == c.buf \o p
             k == Len(data) \div BlockSize
             e == k * BlockSize
             full == SubSeq(data, 1, e)
             rest == SubSeq(data, e + 1, Len(data))
             enc == XORKeyStreamAt(full, c.pass, n * BlockSize)
             d == Write(c, p)
  <1>1. BlockSize \in Nat \ {0} /\ n \in Nat /\ n * BlockSize \in Nat
    BY CryptoAssumption DEF IsWriter
  <1>2. data \in Seq(Byte(V)) /\ Len(data) \in Nat
    BY ConcatProperties DEF IsWriter
  <1>3. /\ d.pass = c.pass /\ d.out = c.out \o enc /\ d.buf = rest
        /\ d.blocksWritten = n + k
    BY DEF Write
  <1>d. data = c.buf \o p
    OBVIOUS
  <1>e. Plaintext(d) = XORKeyStreamAt(Payload(c.out \o enc), c.pass, 0) \o rest
    BY <1>3 DEF Plaintext
  <1> HIDE DEF data, d
  <1>4. k \in Nat /\ e \in Nat /\ e <= Len(data) /\ Len(data) < e + BlockSize
    BY <1>2, WholeBlocks
  <1>k. e = k * BlockSize
    OBVIOUS
  <1> HIDE DEF k, e
  <1>5. /\ full \in Seq(Byte(V)) /\ Len(full) = e
        /\ rest \in Seq(Byte(V)) /\ Len(rest) = Len(data) - e
        /\ full \o rest = data
    <2>1. \A i \in 1 .. Len(data) : data[i] \in Byte(V)
      BY <1>2, ElementOfSeq
    <2>2. full \in Seq(Byte(V)) /\ Len(full) = e
      BY <1>2, <1>4, <2>1, SubSeqProperties
    <2>3. rest \in Seq(Byte(V)) /\ Len(rest) = Len(data) - e
      BY <1>2, <1>4, <2>1, SubSeqProperties
    <2>4. full \o rest = SubSeq(data, 1, Len(data))
      <3>1. /\ 1 \in 1 .. Len(data) + 1 /\ e \in 1 - 1 .. Len(data)
            /\ Len(data) \in e .. Len(data)
        BY <1>2, <1>4
      <3> QED  BY <1>2, <3>1, ConcatAdjacentSubSeq
    <2>5. SubSeq(data, 1, Len(data)) = data
      BY <1>2, SubSeqFull
    <2> QED  BY <2>2, <2>3, <2>4, <2>5
  <1> HIDE DEF full, rest
  <1>6. enc \in Seq(Byte(V)) /\ Len(enc) = e
    BY <1>1, <1>5, XORBytes DEF IsWriter
  <1>7. XORKeyStreamAt(enc, c.pass, n * BlockSize) = full
    BY <1>1, <1>5, XORTwice DEF IsWriter
  <1> HIDE DEF enc
  <1>8. IsWriter(d, V)
    <2>1. c.out \o enc \in Seq(Byte(V)) /\ Len(c.out \o enc) = Len(c.out) + Len(enc)
      BY <1>6, ConcatProperties DEF IsWriter
    <2>2. (n + k) * BlockSize = n * BlockSize + e /\ n + k \in Nat
      BY <1>1, <1>4, <1>k
    <2>3. Len(rest) < BlockSize
      BY <1>2, <1>4, <1>5, <1>1
    <2>4. Len(c.out) + Len(enc) = BlockSize + (n + k) * BlockSize
      BY <1>1, <1>4, <1>6, <2>2 DEF IsWriter
    <2>5. c.pass \in Pass
      BY DEF IsWriter
    <2> QED  BY <1>3, <1>5, <2>1, <2>2, <2>3, <2>4, <2>5 DEF IsWriter
  <1> DEFINE x == Payload(c.out)
             dec == XORKeyStreamAt(x, c.pass, 0)
  <1>9. x \in Seq(Byte(V)) /\ Len(x) = n * BlockSize
    <2>1. BlockSize <= Len(c.out) /\ Len(c.out) - BlockSize = n * BlockSize
      BY <1>1 DEF IsWriter
    <2> QED  BY <2>1, PayloadOf DEF IsWriter
  <1>10. Payload(c.out \o enc) = x \o enc
    <2>1. BlockSize <= Len(c.out)
      BY <1>1 DEF IsWriter
    <2> QED  BY <1>6, <2>1, PayloadGrows DEF IsWriter
  <1> HIDE DEF x
  <1>11. dec \in Seq(Byte(V))
    BY <1>9, XORBytes DEF IsWriter
  <1>12. XORKeyStreamAt(x \o enc, c.pass, 0) = dec \o full
    <2>1. XORKeyStreamAt(x \o enc, c.pass, 0)
            = dec \o XORKeyStreamAt(enc, c.pass, 0 + Len(x))
      BY <1>6, <1>9, XORConcat DEF IsWriter
    <2>2. 0 + Len(x) = n * BlockSize
      BY <1>1, <1>9
    <2> QED  BY <1>7, <2>1, <2>2
  <1> HIDE DEF dec
  <1>13. Plaintext(c) = dec \o c.buf
    BY DEF Plaintext, dec, x
  <1>14. Plaintext(c) \in Seq(Byte(V))
    BY <1>11, <1>13, ConcatProperties DEF IsWriter
  <1>15. Plaintext(d) = Plaintext(c) \o p
    <2>1. Plaintext(d) = (dec \o full) \o rest
      BY <1>e, <1>10, <1>12
    <2>0. /\ full \in Seq(Byte(V)) /\ rest \in Seq(Byte(V)) /\ c.buf \in Seq(Byte(V))
      BY <1>5 DEF IsWriter
    <2>4. (dec \o full) \o rest = dec \o (full \o rest)
      BY <1>11, <2>0, ConcatAssociative
    <2>2. (dec \o full) \o rest = dec \o data
      BY <1>5, <2>4
    <2> DEFINE b == c.buf
    <2>5. b \in Seq(Byte(V))
      BY <2>0
    <2>6. data = b \o p /\ Plaintext(c) = dec \o b
      BY <1>d, <1>13
    <2> HIDE DEF b
    <2>3. (dec \o b) \o p = dec \o (b \o p)
      BY <1>11, <2>5, ConcatAssociative
    <2> QED  BY <2>1, <2>2, <2>3, <2>6
  <1> QED  BY <1>3, <1>8, <1>14, <1>15 DEF d

(* ... and Close encrypts what is left, so that all of it is in the object.*)
THEOREM CloseCompletes ==
  ASSUME NEW V, NEW c, IsWriter(c, V),
         c = [pass |-> c.pass, out |-> c.out, buf |-> c.buf,
              blocksWritten |-> c.blocksWritten]
  PROVE  /\ Close(c).pass = c.pass
         /\ Close(c).out \in Seq(Byte(V))
         /\ Len(c.out) <= Len(Close(c).out)
         /\ \A i \in 1 .. Len(c.out) : Close(c).out[i] = c.out[i]
         /\ Payload(Close(c).out) = XORKeyStreamAt(Plaintext(c), c.pass, 0)
  <1> DEFINE n == c.blocksWritten
             rest == XORKeyStreamAt(c.buf, c.pass, n * BlockSize)
             all == c.out \o rest
             x == Payload(c.out)
             dec == XORKeyStreamAt(x, c.pass, 0)
  <1>1. BlockSize \in Nat \ {0} /\ n \in Nat /\ n * BlockSize \in Nat
    BY CryptoAssumption DEF IsWriter
  <1>2. c.out \in Seq(Byte(V)) /\ c.buf \in Seq(Byte(V)) /\ c.pass \in Pass
    BY DEF IsWriter
  <1>3. Close(c).out = all /\ Close(c).pass = c.pass
    BY DEF Close
  <1>4. rest \in Seq(Byte(V)) /\ Len(rest) = Len(c.buf)
    BY <1>1, <1>2, XORBytes
  <1>5. BlockSize <= Len(c.out) /\ Len(c.out) - BlockSize = n * BlockSize
    BY <1>1 DEF IsWriter
  <1>6. x \in Seq(Byte(V)) /\ Len(x) = n * BlockSize
    BY <1>2, <1>5, PayloadOf
  <1>7. Plaintext(c) = dec \o c.buf
    BY DEF Plaintext
  <1>8. Payload(all) = x \o rest
    BY <1>2, <1>4, <1>5, PayloadGrows
  <1> HIDE DEF x
  <1>9. dec \in Seq(Byte(V)) /\ Len(dec) = n * BlockSize /\ XORKeyStreamAt(dec, c.pass, 0) = x
    BY <1>2, <1>6, XORBytes, XORTwice
  <1> HIDE DEF dec
  <1>10. XORKeyStreamAt(dec \o c.buf, c.pass, 0) = x \o rest
    <2>1. XORKeyStreamAt(dec \o c.buf, c.pass, 0)
            = XORKeyStreamAt(dec, c.pass, 0) \o XORKeyStreamAt(c.buf, c.pass, 0 + Len(dec))
      BY <1>2, <1>9, XORConcat
    <2>2. 0 + Len(dec) = n * BlockSize
      BY <1>1, <1>9
    <2> QED  BY <1>9, <2>1, <2>2
  <1> HIDE DEF rest
  <1>11. /\ all \in Seq(Byte(V)) /\ Len(all) = Len(c.out) + Len(rest)
         /\ \A i \in 1 .. Len(c.out) : all[i] = c.out[i]
    <2>1. Len(c.out) \in Nat /\ Len(rest) \in Nat
      BY <1>2, <1>4
    <2> QED  BY <1>2, <1>4, <2>1, ConcatProperties
  <1>12. Len(c.out) <= Len(all)
    <2>1. Len(c.out) \in Nat /\ Len(rest) \in Nat
      BY <1>2, <1>4
    <2> QED  BY <1>11, <2>1
  <1> QED  BY <1>3, <1>7, <1>8, <1>10, <1>11, <1>12

-----------------------------------------------------------------------------
(* Reading a part of an object that is not encrypted.                      *)
LEMMA ObjectReadAtExact ==
  ASSUME NEW V, NEW object \in Seq(Byte(V)), NEW len \in Nat \ {0}, NEW off \in Nat,
         off < Len(object)
  PROVE  /\ Lesser(len, Len(object) - off) \in 1 .. len
         /\ ObjectReadAt(object, len, off)
              = SubSeq(object, off + 1, off + Lesser(len, Len(object) - off))
  <1>1. Len(object) \in Nat
    OBVIOUS
  <1> QED  BY <1>1 DEF ObjectReadAt, Lesser

(* Where the blocks of a read are: they start at or before its first byte  *)
(* and end behind it.                                                      *)
LEMMA ReadBlocks ==
  ASSUME NEW len \in Nat, NEW off \in Nat
  PROVE  /\ ReadStart(off) \in Nat /\ ReadEnd(len, off) \in Nat
         /\ BlockSize <= ReadStart(off)
         /\ ReadStart(off) <= off + BlockSize
         /\ off + BlockSize < ReadEnd(len, off)
  <1> DEFINE B == BlockSize
             q == (off + B) \div B
             r == (off + B + len) \div B
  <1>1. B \in Nat \ {0}
    BY CryptoAssumption
  <1>2. /\ q \in Nat /\ q * B \in Nat /\ q * B <= off + B /\ off + B < q * B + B
    BY <1>1, WholeBlocks
  <1>3. /\ r \in Nat /\ r * B \in Nat /\ r * B <= off + B + len /\ off + B + len < r * B + B
    BY <1>1, WholeBlocks
  <1>4. ReadStart(off) = q * B
    BY DEF ReadStart, BlockStart
  <1>5. ReadEnd(len, off) = IF r * B = q * B THEN r * B + B ELSE r * B
    BY <1>4 DEF ReadEnd, BlockStart
  <1> HIDE DEF q, r
  <1>6. B <= q * B
    <2>1. q >= 1
      <3>1. q # 0
        BY <1>1, <1>2
      <3> QED  BY <1>2, <3>1
    <2> QED  BY <1>1, <1>2, <2>1
  <1>7. q <= r
    <2> SUFFICES ASSUME q > r
                 PROVE  FALSE
      BY <1>2, <1>3
    <2>1. r + 1 <= q
      BY <1>2, <1>3
    <2>2. (r + 1) * B <= q * B
      BY <1>1, <1>2, <1>3, <2>1
    <2>3. (r + 1) * B = r * B + B
      BY <1>1, <1>3
    <2> QED  BY <1>1, <1>2, <1>3, <2>2, <2>3
  <1>8. r * B = q * B \/ q * B + B <= r * B
    <2>1. q = r \/ q + 1 <= r
      BY <1>2, <1>3, <1>7
    <2>2. q + 1 <= r => (q + 1) * B <= r * B
      BY <1>1, <1>2, <1>3
    <2>3. (q + 1) * B = q * B + B
      BY <1>1, <1>2
    <2> QED  BY <2>1, <2>2, <2>3
  <1> QED  BY <1>1, <1>2, <1>3, <1>4, <1>5, <1>6, <1>8

(* ReadAt of the crypto-reader returns at least a byte and at most what is *)
(* asked for, of the decrypted stream, from the given position on; and the *)
(* slice it copies from has its bounds in order.                           *)
THEOREM ReadAtExact ==
  ASSUME NEW V, NEW object \in Seq(Byte(V)), NEW p \in Pass, NEW len \in Nat \ {0},
         NEW off \in Nat, BlockSize + off < Len(object)
  PROVE  /\ ~ReadAtPanics(object, p, len, off)
         /\ \E m \in 1 .. Lesser(len, Len(object) - BlockSize - off) :
              ReadAt(object, p, len, off)
                = SubSeq(XORKeyStreamAt(Payload(object), p, 0), off + 1, off + m)
  <1> DEFINE B == BlockSize
             L == Len(object)
             RS == ReadStart(off)
             RE == ReadEnd(len, off)
             hi == Lesser(RE, L)
             x == Payload(object)
             plain == XORKeyStreamAt(x, p, 0)
             raw == ObjectReadAt(object, RE - RS, RS)
             d == Decrypted(object, p, len, off)
             from == SliceFrom(off)
             to == SliceTo(object, p, len, off)
  <1>1. B \in Nat \ {0} /\ L \in Nat /\ B + off < L
    BY CryptoAssumption
  <1>2. RS \in Nat /\ RE \in Nat /\ B <= RS /\ RS <= off + B /\ off + B < RE
    BY ReadBlocks
  <1>d. d = XORKeyStreamAt(raw, p, RS - B)
    BY DEF Decrypted
  <1>r. raw = SubSeq(object, RS + 1, Lesser(RS + (RE - RS), L))
    BY DEF ObjectReadAt
  <1>f. from = off + B - RS
    BY DEF SliceFrom
  <1>t. to = Lesser(Len(d), from + len)
    BY DEF SliceTo
  <1>a. ReadAt(object, p, len, off) = SubSeq(d, from + 1, to)
    BY DEF ReadAt
  <1>p. ReadAtPanics(object, p, len, off) <=> from > to
    BY DEF ReadAtPanics
  <1> HIDE DEF RS, RE, raw, d, from, to
  <1>3. hi \in Nat /\ hi <= L /\ off + B < hi /\ RS + (RE - RS) = RE
    BY <1>1, <1>2 DEF Lesser
  <1>4. raw = SubSeq(object, RS + 1, hi)
    BY <1>3, <1>r
  <1> HIDE DEF hi
  <1>5. /\ x \in Seq(Byte(V)) /\ Len(x) = L - B
        /\ \A i \in 1 .. L - B : x[i] = object[B + i]
    BY <1>1, PayloadOf
  <1> HIDE DEF x
  <1>6. raw = SubSeq(x, RS - B + 1, hi - B)
    <2> DEFINE y == SubSeq(x, RS - B + 1, hi - B)
    <2>1. /\ raw \in Seq(Byte(V)) /\ Len(raw) = hi - RS
          /\ \A i \in 1 .. hi - RS : raw[i] = object[RS + i]
      BY <1>1, <1>2, <1>3, <1>4, SectionOf
    <2> DEFINE a == RS - B
               b == hi - B
    <2>2. a \in Nat /\ b \in Nat /\ a <= b /\ b <= Len(x) /\ b - a = hi - RS
      BY <1>1, <1>2, <1>3, <1>5
    <2>3. /\ y \in Seq(Byte(V)) /\ Len(y) = b - a
          /\ \A i \in 1 .. b - a : y[i] = x[a + i]
      <3>1. y = SubSeq(x, a + 1, b)
        OBVIOUS
      <3> HIDE DEF a, b, y
      <3> QED  BY <1>5, <2>2, <3>1, SectionOf
    <2> HIDE DEF y
    <2>4. ASSUME NEW i \in 1 .. hi - RS
          PROVE  raw[i] = y[i]
      <3>1. a + i \in 1 .. L - B /\ B + (a + i) = RS + i
        BY <1>1, <1>2, <1>3
      <3> QED  BY <1>5, <2>1, <2>2, <2>3, <3>1
    <2>5. raw = y
      BY <2>1, <2>2, <2>3, <2>4, SeqEqual
    <2> QED  BY <2>5 DEF y
  <1>7. plain \in Seq(Byte(V)) /\ Len(plain) = L - B
    BY <1>5, XORBytes
  <1>8. d = SubSeq(plain, RS - B + 1, hi - B)
    <2> DEFINE a == RS - B
               b == hi - B
    <2>1. a \in Nat /\ b \in Nat /\ a <= b /\ b <= Len(x)
      BY <1>1, <1>2, <1>3, <1>5
    <2>2. raw = SubSeq(x, a + 1, b) /\ d = XORKeyStreamAt(raw, p, a)
      BY <1>6, <1>d
    <2> HIDE DEF a, b
    <2>3. d = SubSeq(plain, a + 1, b)
      BY <1>5, <2>1, <2>2, XORPart
    <2> QED  BY <2>3 DEF a, b
  <1> HIDE DEF plain
  <1>9. Len(d) = hi - RS
    <2> DEFINE a == RS - B
               b == hi - B
    <2>1. a \in Nat /\ b \in Nat /\ a <= b /\ b <= Len(plain) /\ b - a = hi - RS
      BY <1>1, <1>2, <1>3, <1>7
    <2>2. d = SubSeq(plain, a + 1, b)
      BY <1>8
    <2> HIDE DEF a, b
    <2> QED  BY <1>7, <2>1, <2>2, SectionOf
  <1>10. /\ from \in Nat /\ to \in Nat /\ from < to /\ to <= hi - RS /\ to <= from + len
    BY <1>1, <1>2, <1>3, <1>9, <1>f, <1>t DEF Lesser
  <1> DEFINE m == RS - B + to - off
  <1>11. m \in 1 .. Lesser(len, L - B - off)
    BY <1>1, <1>2, <1>3, <1>10, <1>f DEF Lesser
  <1>12. SubSeq(d, from + 1, to) = SubSeq(plain, off + 1, off + m)
    <2> DEFINE a == RS - B
               b == hi - B
    <2>1. /\ a \in Nat /\ b \in Nat /\ a <= b /\ b <= Len(plain) /\ to <= b - a /\ from <= to
      BY <1>1, <1>2, <1>3, <1>7, <1>10
    <2>2. d = SubSeq(plain, a + 1, b)
      BY <1>8
    <2>3. a + from = off /\ a + to = off + m
      BY <1>1, <1>2, <1>10, <1>f
    <2> HIDE DEF a, b, m
    <2>4. SubSeq(SubSeq(plain, a + 1, b), from + 1, to) = SubSeq(plain, a + from + 1, a + to)
      BY <1>7, <1>10, <2>1, SectionOfSection
    <2> QED  BY <2>2, <2>3, <2>4
  <1>13. ~ReadAtPanics(object, p, len, off)
    BY <1>10, <1>p
  <1> QED  BY <1>11, <1>12, <1>13, <1>a DEF plain, x
=============================================================================
