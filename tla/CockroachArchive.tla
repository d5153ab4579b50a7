-------------------------- MODULE CockroachArchive --------------------------
(***************************************************************************)
(* pkg/backupengine/cockroach/archive.go: many files in one stream.  The   *)
(* files follow each other from the start of the stream; a footer of fixed *)
(* length at its end says where each of them is.                           *)
(*                                                                         *)
(* The operators take an archiveWriter and return the one the method       *)
(* leaves behind; the bytes go to the underlying writer, which is not part *)
(* of it.  A footer is a function from file names to offset and size.      *)
(***************************************************************************)
EXTENDS CryptoStream, FiniteSets

CONSTANTS
  FooterPad,  \* archiveFooterPadSize
  NoFile      \* no file is open

(* archiveFooterPadSize is 524288, aes.BlockSize 16.                       *)
ASSUME ArchiveAssumption == FooterPad \in Nat /\ FooterPad >= BlockSize

newArchiveWriter == [footer |-> <<>>, openFile |-> NoFile, written |-> 0]

(* (mutant) the difference is taken the wrong way round *)
closeIfOpenNegative(a) ==
  IF a.openFile = NoFile THEN a
  ELSE [a EXCEPT !.footer[a.openFile].size =
                   a.footer[a.openFile].start - a.written,
                 !.openFile = NoFile]

closeIfOpen(a) ==
  IF a.openFile = NoFile THEN a
  ELSE [a EXCEPT !.footer[a.openFile].size =
                   a.written - a.footer[a.openFile].start,
                 !.openFile = NoFile]

(* Create of a name the archive has fails with ErrExist, but closes the    *)
(* open file all the same.                                                 *)
Exists(a, name) == name \in DOMAIN a.footer

Create(a, name) ==
  LET c == closeIfOpen(a) IN
  IF Exists(a, name) THEN c
  ELSE [c EXCEPT !.openFile = name,
                 !.footer = [n \in DOMAIN c.footer \cup {name} |->
                               IF n = name THEN [start |-> c.written, size |-> 0]
                                           ELSE c.footer[n]]]

(* archiveWriter.Write of n bytes to the open file.                        *)
Written(a, n) == [a EXCEPT !.written = @ + n]

-----------------------------------------------------------------------------
(* The footer as JSON, a byte for the braces and one for every file, and   *)
(* zeros up to its fixed length; bytes.Repeat panics when there is no room *)
(* for the JSON.                                                           *)
FooterLen(footer) == Cardinality(DOMAIN footer) + 1

(* (mutant) one byte more than there is *)
FooterFitsTooLong(footer) == FooterLen(footer) <= FooterPad + 1

FooterFits(footer) == FooterLen(footer) <= FooterPad

EncodeTo(footer) ==
  LET json == [i \in 1 .. FooterLen(footer) |->
                 Plain(IF i = 1 THEN <<"footer", footer>> ELSE <<"json">>)]
      padding == [i \in 1 .. FooterPad - FooterLen(footer) |-> Plain(<<"zero">>)]
  IN json \o padding

(* What archiveWriter.Close writes.                                        *)
(* (mutant) the last file is not closed *)
FooterOfOpen(a) == EncodeTo(a.footer)

FooterOf(a) == EncodeTo(closeIfOpen(a).footer)

(* DecodeFrom: all of the footer has been read, and it starts with JSON.   *)
(* What follows the JSON is not looked at.                                 *)
DecodeFrom(raw) == raw[1].val[2]

IsFooter(raw) ==
  /\ Len(raw) = FooterPad
  /\ raw[1].val[1] = "footer"
  /\ \A i \in 1 .. FooterLen(DecodeFrom(raw)) : raw[i].key = {}
=============================================================================
