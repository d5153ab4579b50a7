---------------------------- MODULE CryptoStream ----------------------------
(***************************************************************************)
(* pkg/cryptostream: AES-CTR encryption of a stream of bytes, written      *)
(* front to back and read at any offset.                                   *)
(*                                                                         *)
(* A byte is a record of what it says (val) and of the key stream bytes it *)
(* has been XORed with (key): a second XOR with the same key stream byte   *)
(* undoes the first one, and a byte can be understood only when key is     *)
(* empty.  A key stream byte is named by the passphrase and its position;  *)
(* the salt is in the header, so both ends derive the same key from it.    *)
(* The operators take a writer and return the writer the method leaves     *)
(* behind.                                                                 *)
(***************************************************************************)
EXTENDS Integers, Sequences

CONSTANTS
  BlockSize,  \* aes.BlockSize, also the size of the header with the salt
  Pass,       \* passphrases
  NoPass      \* the empty passphrase: no encryption

ASSUME CryptoAssumption ==
  /\ BlockSize \in Nat \ {0}
  /\ NoPass \notin Pass

Plain(val) == [val |-> val, key |-> {}]

Lesser(a, b) == IF a < b THEN a ELSE b

(* The start of the block that position n is in.                           *)
BlockStart(n) == (n \div BlockSize) * BlockSize

Toggled(key, k) == IF k \in key THEN key \ {k} ELSE key \cup {k}

XORKeyStreamAt(data, pass, off) ==
  [i \in DOMAIN data |->
     [val |-> data[i].val, key |-> Toggled(data[i].key, <<pass, off + i - 1>>)]]

Header == [i \in 1 .. BlockSize |-> Plain(<<"header">>)]

-----------------------------------------------------------------------------
(* CryptoWriteCloser: out is what the underlying writer has got, buf the   *)
(* rest that does not fill a block.                                        *)
NewWriter(pass) == [pass |-> pass, out |-> Header, buf |-> <<>>, blocksWritten |-> 0]

Write(c, p) ==
  LET data == c.buf \o p
      availBlocks == Len(data) \div BlockSize
      encDataLen == availBlocks * BlockSize
  IN [c EXCEPT
        !.out = @ \o XORKeyStreamAt(SubSeq(data, 1, encDataLen), c.pass,
                                    c.blocksWritten * BlockSize),
        !.buf = SubSeq(data, encDataLen + 1, Len(data)),
        !.blocksWritten = @ + availBlocks]

(* Close writes the rest.  It leaves blocksWritten as it was and buf in    *)
(* place, encrypted.                                                       *)
Close(c) ==
  LET rest == XORKeyStreamAt(c.buf, c.pass, c.blocksWritten * BlockSize)
  IN [c EXCEPT !.out = @ \o rest, !.buf = rest]

-----------------------------------------------------------------------------
(* ReadAt of the stored object: less than len bytes only at the end.       *)
ObjectReadAt(object, len, off) ==
  SubSeq(object, off + 1, Lesser(off + len, Len(object)))

(* NewReaderAt accepts a stream that starts with the header.               *)
HeaderOK(object) == ObjectReadAt(object, BlockSize, 0) = Header

(* CryptoReaderAt.ReadAt reads whole blocks, decrypts them and returns the *)
(* part that was asked for, up to the last block boundary in it.           *)
ReadStart(off) == BlockStart(off + BlockSize)

(* (mutant) a read that ends in the block it starts in gets no block *)
ReadEndWithoutExtra(len, off) == BlockStart(off + BlockSize + len)

ReadEnd(len, off) ==
  LET aligned == BlockStart(off + BlockSize + len)
  IN IF aligned = ReadStart(off) THEN aligned + BlockSize ELSE aligned

(* (mutant) the header is taken into account when decrypting *)
DecryptedWithHeader(object, pass, len, off) ==
  XORKeyStreamAt(
    ObjectReadAt(object, ReadEnd(len, off) - ReadStart(off), ReadStart(off)),
    pass, ReadStart(off))

Decrypted(object, pass, len, off) ==
  XORKeyStreamAt(
    ObjectReadAt(object, ReadEnd(len, off) - ReadStart(off), ReadStart(off)),
    pass, ReadStart(off) - BlockSize)

(* The bounds of the slice that is copied out; a lower bound above the     *)
(* upper one panics.                                                       *)
SliceFrom(off) == off + BlockSize - ReadStart(off)

SliceTo(object, pass, len, off) ==
  Lesser(Len(Decrypted(object, pass, len, off)), SliceFrom(off) + len)

ReadAtPanics(object, pass, len, off) ==
  SliceFrom(off) > SliceTo(object, pass, len, off)

ReadAt(object, pass, len, off) ==
  SubSeq(Decrypted(object, pass, len, off), SliceFrom(off) + 1,
         SliceTo(object, pass, len, off))
=============================================================================
