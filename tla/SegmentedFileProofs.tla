------------------------- MODULE SegmentedFileProofs -------------------------
(***************************************************************************)
(* Proofs about SegmentedFile, for every size of a block, every            *)
(* MarcMinDataFree and all lengths of records: the type invariant, that a  *)
(* file read back is a file of records (RecordFile), where reading may     *)
(* fail, and that the SCWs lead through a segmented file.                  *)
(*                                                                         *)
(* What the writer leaves behind is said byte by byte, without counting    *)
(* records or blocks: where one byte of a record is, where the next one    *)
(* is. The reader is always at a place such a sentence speaks of.          *)
(***************************************************************************)
EXTENDS SegmentedFile, TLAPS

\* p bytes into the file: the end of the block the next byte is in.
EndOf(p) == (p \div BlockSize + 1) * BlockSize
AtBlock(p) == EndOf(p) = p + BlockSize

\* Byte k of record r is byte i of the file.
At(r, k, i) == i \in DOMAIN file /\ file[i] = <<r, k, 0>>

\* Five bytes of an SCW follow p bytes of the file.
ScwAt(p) ==
    /\ p + 5 <= Len(file)
    /\ file[p + 1] # Pad
    /\ \A j \in 1 .. 5 : file[p + j] = <<0, file[p + 1][2], file[p + 1][3]>>

\* Record r begins, or goes on with byte k, p bytes into the file.
Begins(r, p) == IF segmented THEN ScwAt(p) /\ At(r, 1, p + 6) ELSE At(r, 1, p + 1)
Ahead(r, k, p) ==
    IF segmented /\ AtBlock(p) THEN ScwAt(p) /\ At(r, k, p + 6) ELSE At(r, k, p + 1)

\* Where a record begins if the one before it ends p bytes into the file.
Start(p) == IF segmented /\ EndOf(p) - p <= minDataFree THEN EndOf(p) ELSE p

\* Record r ends there; the file begins where "record 0" ends.
EndsAt(r, p) == IF r = 0 THEN p = 0 ELSE At(r, lengths[r], p)

\* The bytes of the last record that are in the file.
Written == lengths[Len(lengths)] - (IF pc = "piece" THEN remaining ELSE 0)

-----------------------------------------------------------------------------
(* The file *)

\* A byte is padding, of an SCW, or one of the bytes written so far.
Known == \A i \in DOMAIN file :
    \/ file[i] = Pad
    \/ file[i] # Pad /\ file[i][1] = 0
    \/ \E r \in DOMAIN lengths : \E k \in 1 .. lengths[r] :
          file[i] = <<r, k, 0>> /\ (r = Len(lengths) => k <= Written)

\* Up to the end of its block, or of the record, a record is in one piece.
Whole == \A r \in DOMAIN lengths : \A k \in 1 .. lengths[r] : \A i \in DOMAIN file :
    At(r, k, i) => \A n \in 0 .. lengths[r] - k :
        (segmented => i + n <= EndOf(i - 1)) => At(r, k + n, i + n)

\* It goes on behind the SCW of the next block, once that is written.
GoesOn == \A r \in DOMAIN lengths : \A k \in 1 .. lengths[r] - 1 : \A i \in DOMAIN file :
    segmented /\ AtBlock(i) /\ At(r, k, i) =>
        \/ ScwAt(i) /\ At(r, k + 1, i + 6)
        \/ pc = "piece" /\ r = Len(lengths) /\ k = Written /\ i = Len(file)

\* Where a record ends the next one begins, or will.
Follows == \A r \in 0 .. Len(lengths) - 1 : \A p \in 0 .. Len(file) :
    EndsAt(r, p) =>
        \/ Begins(r + 1, Start(p))
        \/ pc = "piece" /\ r + 1 = Len(lengths) /\ Written = 0 /\ Len(file) = Start(p)

\* Nothing but padding, if that, is behind the last record.
Behind(p) ==
    /\ \A j \in p + 1 .. Len(file) : file[j] = Pad
    /\ pc = "write" \/ ~lastBlock => p = Len(file)
LastOfAll == pc # "piece" => \A p \in 0 .. Len(file) : EndsAt(Len(lengths), p) => Behind(p)

\* A record begins at one place.
Once == \A r \in DOMAIN lengths : \A i, j \in DOMAIN file : At(r, 1, i) /\ At(r, 1, j) => i = j

Layout == Known /\ Whole /\ GoesOn /\ Follows /\ LastOfAll /\ Once

-----------------------------------------------------------------------------
(* The writer and the reader *)

\* A piece is written to the end of the record or of the block: what is left goes
\* into a block of its own, and a record begins with more than an SCW's room.
WriterInv == pc \in {"write", "piece"} =>
    /\ PosCour = Len(file) /\ block_end = EndOf(PosCour)
    /\ at = 0 /\ delivered = <<>>
    /\ pc = "write" => EndsAt(Len(lengths), Len(file))
    /\ pc = "piece" =>
          /\ lengths # <<>> /\ remaining \in 1 .. lengths[Len(lengths)]
          /\ Written = 0 => (segmented => block_end - PosCour > minDataFree)
          /\ Written > 0 => segmented /\ AtBlock(PosCour) /\ At(Len(lengths), Written, Len(file))

Came == Len(delivered)

\* The reader has the first records as they were sent; PosCour is where it is,
\* and block_end belongs to it, unless the first five bytes of a record ended a block.
ReaderInv ==
    /\ Came <= Len(lengths)
    /\ \A r \in 1 .. Came : delivered[r] = Sent[r]
    /\ pc \in {"read", "scw", "length", "rest"} => PosCour = at
    /\ pc \in {"read", "scw", "length"} => block_end = EndOf(at)
    /\ pc = "read" => EndsAt(Came, at)
    /\ pc = "scw" =>
          /\ segmented => block_end - at > minDataFree
          /\ IF Came < Len(lengths) THEN Begins(Came + 1, at) ELSE Behind(at)
    /\ pc = "length" =>
          /\ segmented => block_end - at > minDataFree - 5
          /\ IF Came < Len(lengths) THEN At(Came + 1, 1, at + 1) ELSE ~segmented /\ Behind(at)
    /\ pc = "rest" =>
          /\ Came < Len(lengths) /\ remaining \in 1 .. lengths[Came + 1] - 5
          /\ Buffer = Bytes(Came + 1, 1, lengths[Came + 1] - remaining)
          /\ Ahead(Came + 1, lengths[Came + 1] - remaining + 1, at)
          /\ \/ block_end = EndOf(at)
             \/ AtBlock(at) /\ block_end = at /\ (segmented => Hard(RoomAt(Came + 1)))
    /\ pc = "end" => Came = Len(lengths)
    /\ FailsOnlyAtBlockEnd

Byte == {Pad} \union (Nat \X Nat \X Nat)
Types ==
    /\ TypeOK
    /\ file \in Seq(Byte) /\ Buffer \in Seq(Byte) /\ delivered \in Seq(Seq(Byte))

Inv == Types /\ Layout /\ WriterInv /\ ReaderInv

-----------------------------------------------------------------------------
(* Blocks *)

LEMMA Sizes ==
    ASSUME minDataFree \in MinDataFrees
    PROVE  BlockSize \in Nat /\ minDataFree \in 5 .. BlockSize - 6
BY SizeAssumption

LEMMA BlockEnds ==
    ASSUME BlockSize > 0, NEW p \in Nat
    PROVE  EndOf(p) \in Nat /\ p < EndOf(p) /\ EndOf(p) <= p + BlockSize
BY SizeAssumption DEF EndOf

LEMMA SameBlock ==
    ASSUME BlockSize > 0, NEW p \in Nat, NEW q \in Nat, p <= q, q < EndOf(p)
    PROVE  EndOf(q) = EndOf(p)
BY SizeAssumption DEF EndOf

LEMMA NextBlock ==
    ASSUME BlockSize > 0, NEW p \in Nat
    PROVE  EndOf(EndOf(p)) = EndOf(p) + BlockSize
BY SizeAssumption DEF EndOf

LEMMA FirstBlock == ASSUME BlockSize > 0 PROVE EndOf(0) = BlockSize
BY SizeAssumption DEF EndOf

LEMMA Remainder ==
    ASSUME BlockSize > 0, NEW p \in Nat
    PROVE  p % BlockSize = BlockSize - (EndOf(p) - p)
BY SizeAssumption DEF EndOf

LEMMA Moved ==
    ASSUME BlockSize > 0, NEW pos \in Nat, MoveTo(pos)
    PROVE  PosCour' = pos /\ block_end' = EndOf(pos) /\ NumBloc' \in Nat /\ block_end' \in Nat
<1>1. pos \div BlockSize \in Nat
  BY SizeAssumption
<1> QED
  BY <1>1, SizeAssumption, BlockEnds DEF MoveTo, EndOf

-----------------------------------------------------------------------------
(* Bytes *)

LEMMA PadsAre ==
    ASSUME NEW n \in Nat
    PROVE  /\ Pads(n) \in Seq(Byte) /\ Len(Pads(n)) = n
           /\ \A k \in 1 .. n : Pads(n)[k] = Pad
BY DEF Pads, Byte

LEMMA BytesAre ==
    ASSUME NEW r \in Nat, NEW w \in Nat, NEW n \in Nat
    PROVE  /\ Bytes(r, w + 1, w + n) \in Seq(Byte) /\ Len(Bytes(r, w + 1, w + n)) = n
           /\ \A j \in 1 .. n : Bytes(r, w + 1, w + n)[j] = <<r, w + j, 0>>
<1>1. w + n - (w + 1) + 1 = n /\ \A j \in 1 .. n : w + 1 + j - 1 = w + j
  OBVIOUS
<1>2. Bytes(r, w + 1, w + n) = [j \in 1 .. n |-> <<r, w + j, 0>>]
  BY <1>1 DEF Bytes
<1>3. \A j \in 1 .. n : <<r, w + j, 0>> \in Byte
  BY DEF Byte
<1>4. Bytes(r, w + 1, w + n) \in Seq(Byte)
  <2> DEFINE f == [j \in 1 .. n |-> <<r, w + j, 0>>]
  <2>1. f \in [1 .. n -> Byte]
    BY <1>3
  <2> HIDE DEF f
  <2>2. f \in Seq(Byte)
    BY <2>1
  <2> QED
    BY <1>2, <2>2 DEF f
<1>5. Len(Bytes(r, w + 1, w + n)) = n
  BY <1>2
<1> QED
  BY <1>2, <1>4, <1>5

LEMMA ScwIs ==
    ASSUME NEW type \in Nat, NEW length \in Nat
    PROVE  /\ Scw(type, length) \in Seq(Byte) /\ Len(Scw(type, length)) = 5
           /\ \A k \in 1 .. 5 : Scw(type, length)[k] = <<0, type, length>>
BY DEF Scw, Byte

\* A byte of a record is not padding, and not of an SCW.
LEMMA DataIsData ==
    ASSUME NEW r \in Nat \ {0}, NEW k
    PROVE  <<r, k, 0>> # Pad /\ <<r, k, 0>>[1] # 0
BY DEF Pad

LEMMA ScwIsNoData ==
    ASSUME NEW t, NEW n
    PROVE  /\ <<0, t, n>> # Pad /\ <<0, t, n>>[1] = 0
           /\ <<0, t, n>>[2] = t /\ <<0, t, n>>[3] = n
BY DEF Pad

LEMMA SameData ==
    ASSUME NEW r, NEW k, NEW s, NEW j, <<r, k, 0>> = <<s, j, 0>>
    PROVE  r = s /\ k = j
OBVIOUS

LEMMA Joined ==
    ASSUME NEW S, NEW s \in Seq(S), NEW t \in Seq(S)
    PROVE  /\ s \o t \in Seq(S) /\ Len(s \o t) = Len(s) + Len(t)
           /\ \A i \in 1 .. Len(s) : (s \o t)[i] = s[i]
           /\ \A i \in 1 .. Len(t) : (s \o t)[Len(s) + i] = t[i]
OBVIOUS

LEMMA JoinedTwice ==
    ASSUME NEW S, NEW s \in Seq(S), NEW t \in Seq(S), NEW u \in Seq(S)
    PROVE  (s \o t) \o u = s \o (t \o u)
OBVIOUS

\* Bytes that are there stay when more are written.
LEMMA Kept ==
    ASSUME file \in Seq(Byte), NEW more \in Seq(Byte), file' = file \o more
    PROVE  /\ file' \in Seq(Byte) /\ Len(file') = Len(file) + Len(more)
           /\ \A i \in 1 .. Len(file) : file'[i] = file[i]
           /\ \A i \in 1 .. Len(more) : file'[Len(file) + i] = more[i]
           /\ \A r, k, i : At(r, k, i) => At(r, k, i)'
           /\ \A p \in Nat : ScwAt(p) => ScwAt(p)'
<1>1. /\ file' \in Seq(Byte) /\ Len(file') = Len(file) + Len(more)
      /\ \A i \in 1 .. Len(file) : file'[i] = file[i]
      /\ \A i \in 1 .. Len(more) : file'[Len(file) + i] = more[i]
  OBVIOUS
<1>2. \A r, k, i : At(r, k, i) => At(r, k, i)'
  BY <1>1 DEF At
<1>3. ASSUME NEW p \in Nat, ScwAt(p) PROVE ScwAt(p)'
  <2>1. \A j \in 1 .. 5 : p + j \in 1 .. Len(file)
    BY <1>3 DEF ScwAt
  <2> QED
    BY <1>1, <1>3, <2>1 DEF ScwAt
<1> QED
  BY <1>1, <1>2, <1>3

\* A byte of a record is one that was written.
LEMMA DataKnown ==
    ASSUME Types, Known, NEW r \in Nat \ {0}, NEW k, NEW i, At(r, k, i)
    PROVE  r \in DOMAIN lengths /\ k \in 1 .. lengths[r] /\ (r = Len(lengths) => k <= Written)
<1>1. i \in DOMAIN file /\ file[i] # Pad /\ file[i][1] # 0
  BY DataIsData DEF At
<1>2. PICK s \in DOMAIN lengths : \E j \in 1 .. lengths[s] :
          file[i] = <<s, j, 0>> /\ (s = Len(lengths) => j <= Written)
  BY <1>1 DEF Known
<1>3. PICK j \in 1 .. lengths[s] : file[i] = <<s, j, 0>> /\ (s = Len(lengths) => j <= Written)
  BY <1>2
<1>4. r = s /\ k = j
  BY <1>3, SameData DEF At
<1> QED
  BY <1>2, <1>3, <1>4

LEMMA LengthsAre ==
    ASSUME Types
    PROVE  /\ lengths \in Seq(Lengths) /\ Len(lengths) \in Nat /\ DOMAIN lengths = 1 .. Len(lengths)
           /\ \A r \in DOMAIN lengths : lengths[r] \in Nat /\ lengths[r] > 5
           /\ Len(file) \in Nat /\ DOMAIN file = 1 .. Len(file)
           /\ BlockSize \in Nat /\ minDataFree \in 5 .. BlockSize - 6 /\ BlockSize > 0
<1>1. lengths \in Seq(Lengths) /\ file \in Seq(Byte) /\ minDataFree \in MinDataFrees
  BY DEF Types, TypeOK
<1>2. BlockSize \in Nat /\ minDataFree \in 5 .. BlockSize - 6 /\ BlockSize > 0
  BY <1>1, Sizes
<1>3. Len(lengths) \in Nat /\ DOMAIN lengths = 1 .. Len(lengths)
      /\ \A r \in DOMAIN lengths : lengths[r] \in Lengths
  BY <1>1
<1>4. Len(file) \in Nat /\ DOMAIN file = 1 .. Len(file)
  BY <1>1
<1> QED
  BY <1>1, <1>2, <1>3, <1>4, LengthAssumption

-----------------------------------------------------------------------------
(* Write *)

LEMMA WriteFile ==
    ASSUME Inv, NEW n \in Lengths, Write(n)
    PROVE  /\ \E more \in Seq(Byte) :
                 file' = file \o more /\ \A i \in 1 .. Len(more) : more[i] = Pad
           /\ Len(file') = Start(Len(file))
           /\ PosCour' = Len(file') /\ block_end' = EndOf(PosCour')
           /\ segmented => block_end' - PosCour' > minDataFree
           /\ NumBloc' \in Nat /\ block_end' \in Nat
<1> DEFINE L == Len(file)
<1>1. /\ PosCour = L /\ block_end = EndOf(L) /\ pc = "write" /\ L \in Nat
      /\ BlockSize \in Nat /\ minDataFree \in 5 .. BlockSize - 6 /\ BlockSize > 0
      /\ file \in Seq(Byte) /\ NumBloc \in Nat
  BY LengthsAre DEF Inv, WriterInv, Write, Types, TypeOK
<1>2. EndOf(L) \in Nat /\ L < EndOf(L) /\ EndOf(L) <= L + BlockSize
  BY <1>1, BlockEnds
<1>3. NoRoom <=> segmented /\ EndOf(L) - L <= minDataFree
  BY <1>1 DEF NoRoom
<1>4. CASE NoRoom
  <2> DEFINE more == Pads(EndOf(L) - L)
  <2>1. file' = file \o more /\ MoveTo(EndOf(L))
    BY <1>1, <1>4 DEF Write
  <2>2. more \in Seq(Byte) /\ Len(more) = EndOf(L) - L /\ \A i \in 1 .. Len(more) : more[i] = Pad
    <3>1. EndOf(L) - L \in Nat
      BY <1>1, <1>2
    <3> QED
      BY <3>1, PadsAre
  <2>3. Len(file') = EndOf(L)
    <3> HIDE DEF more
    <3>1. Len(file') = L + Len(more)
      BY <1>1, <2>1, <2>2, Kept
    <3> QED
      BY <1>1, <1>2, <2>2, <3>1
  <2>4. PosCour' = EndOf(L) /\ block_end' = EndOf(L) + BlockSize /\ NumBloc' \in Nat /\ block_end' \in Nat
    BY <1>1, <1>2, <2>1, Moved, NextBlock
  <2>5. EndOf(EndOf(L)) = EndOf(L) + BlockSize
    BY <1>1, NextBlock
  <2>6. Start(L) = EndOf(L)
    BY <1>3, <1>4 DEF Start
  <2>7. \E m \in Seq(Byte) : file' = file \o m /\ \A i \in 1 .. Len(m) : m[i] = Pad
    <3> HIDE DEF more
    <3> QED
      BY <2>1, <2>2
  <2>8. block_end' - PosCour' = BlockSize /\ block_end' = EndOf(PosCour')
    BY <1>1, <1>2, <2>4, <2>5
  <2>9. Len(file') = Start(L) /\ PosCour' = Len(file') /\ block_end' - PosCour' > minDataFree
    BY <1>1, <2>3, <2>4, <2>6, <2>8
  <2> QED
    BY <2>4, <2>7, <2>8, <2>9
<1>5. CASE ~NoRoom
  <2>1. UNCHANGED <<file, position>>
    BY <1>5 DEF Write
  <2>2. Start(L) = L
    BY <1>3, <1>5 DEF Start
  <2>3. file' = file \o <<>> /\ <<>> \in Seq(Byte)
    BY <1>1, <2>1
  <2>4. segmented => block_end' - PosCour' > minDataFree
    BY <1>1, <1>2, <1>3, <1>5, <2>1 DEF position
  <2>5. \E m \in Seq(Byte) : file' = file \o m /\ \A i \in 1 .. Len(m) : m[i] = Pad
    <3>1. \A i \in 1 .. Len(<<>>) : <<>>[i] = Pad
      OBVIOUS
    <3> QED
      BY <2>3, <3>1
  <2>6. NumBloc' \in Nat /\ block_end' \in Nat /\ Len(file') = L
        /\ PosCour' = L /\ block_end' = EndOf(L)
    BY <1>1, <1>2, <2>1 DEF position
  <2> QED
    BY <2>2, <2>4, <2>5, <2>6
<1> QED
  BY <1>4, <1>5

LEMMA WriteInv ==
    ASSUME Inv, NEW n \in Lengths, Write(n)
    PROVE  Inv'
<1> DEFINE N == Len(lengths)
<1>1. /\ lengths \in Seq(Lengths) /\ N \in Nat /\ DOMAIN lengths = 1 .. N
      /\ \A r \in 1 .. N : lengths[r] \in Nat /\ lengths[r] > 5
      /\ Len(file) \in Nat /\ DOMAIN file = 1 .. Len(file) /\ file \in Seq(Byte)
  BY LengthsAre DEF Inv, Types
<1>2. /\ lengths' \in Seq(Lengths) /\ Len(lengths') = N + 1 /\ DOMAIN lengths' = 1 .. N + 1
      /\ \A r \in 1 .. N : lengths'[r] = lengths[r]
      /\ lengths'[N + 1] = n /\ N < MaxRecords /\ n \in Nat /\ n > 5
  BY <1>1, LengthAssumption DEF Write
<1>3. /\ pc = "write" /\ pc' = "piece" /\ remaining' = n
      /\ UNCHANGED <<attributes, reader>>
  BY DEF Write
<1>4. PICK more \in Seq(Byte) : file' = file \o more /\ \A i \in 1 .. Len(more) : more[i] = Pad
  BY WriteFile
<1>5. /\ file' \in Seq(Byte) /\ Len(file') = Len(file) + Len(more)
      /\ \A i \in 1 .. Len(file) : file'[i] = file[i]
      /\ \A i \in 1 .. Len(more) : file'[Len(file) + i] = Pad
      /\ \A r, k, i : At(r, k, i) => At(r, k, i)'
      /\ \A p \in Nat : ScwAt(p) => ScwAt(p)'
  BY <1>1, <1>4, Kept
<1>6. DOMAIN file' = 1 .. Len(file) + Len(more) /\ Len(more) \in Nat
  BY <1>4, <1>5
<1>7. \A i \in DOMAIN file' : i \in DOMAIN file \/ file'[i] = Pad
  <2> TAKE i \in DOMAIN file'
  <2>1. i \in 1 .. Len(file) \/ i - Len(file) \in 1 .. Len(more)
    BY <1>1, <1>6
  <2>2. i = Len(file) + (i - Len(file))
    BY <1>1, <1>6
  <2> QED
    BY <1>1, <1>5, <2>1, <2>2
<1>8. \A r, k, i : r \in Nat \ {0} => (At(r, k, i)' => At(r, k, i))
  BY <1>1, <1>5, <1>7, DataIsData DEF At
<1>9. Written' = 0
  BY <1>2, <1>3 DEF Written
<1>10. Known'
  <2> SUFFICES ASSUME NEW i \in DOMAIN file', file'[i] # Pad, file'[i][1] # 0
               PROVE  \E r \in DOMAIN lengths' : \E k \in 1 .. lengths'[r] :
                         file'[i] = <<r, k, 0>> /\ (r = Len(lengths') => k <= Written')
    BY DEF Known
  <2>0. i \in 1 .. Len(file) /\ file'[i] = file[i]
    BY <1>1, <1>5, <1>7
  <2>1. PICK r \in 1 .. N : \E k \in 1 .. lengths[r] : file[i] = <<r, k, 0>>
    BY <1>1, <2>0 DEF Inv, Layout, Known
  <2>2. r # Len(lengths') /\ r \in DOMAIN lengths' /\ lengths'[r] = lengths[r]
    BY <1>1, <1>2
  <2> QED
    BY <2>0, <2>1, <2>2
<1>11. ASSUME NEW r \in Nat \ {0}, NEW k, NEW i, At(r, k, i)'
       PROVE  /\ At(r, k, i) /\ r \in DOMAIN lengths /\ k \in 1 .. lengths[r]
              /\ lengths'[r] = lengths[r] /\ i \in DOMAIN file /\ r <= N
  <2>1. At(r, k, i)
    BY <1>8, <1>11
  <2>2. r \in DOMAIN lengths /\ k \in 1 .. lengths[r]
    BY <2>1, DataKnown DEF Inv, Layout
  <2>3. i \in DOMAIN file
    BY <2>1 DEF At
  <2> QED
    BY <1>1, <1>2, <2>1, <2>2, <2>3
<1>12. Whole'
  <2> SUFFICES ASSUME NEW r \in 1 .. N + 1, NEW k, NEW i, At(r, k, i)', NEW m \in 0 .. lengths'[r] - k,
                      segmented => i + m <= EndOf(i - 1)
               PROVE  At(r, k + m, i + m)'
    BY <1>2, <1>3 DEF Whole, attributes
  <2>1. At(r, k, i) /\ r \in DOMAIN lengths /\ k \in 1 .. lengths[r] /\ m \in 0 .. lengths[r] - k /\ i \in DOMAIN file
    BY <1>11
  <2>2. At(r, k + m, i + m)
    BY <2>1 DEF Inv, Layout, Whole
  <2> QED
    BY <1>5, <2>2
<1>13. GoesOn'
  <2> SUFFICES ASSUME NEW r \in 1 .. N + 1, NEW k \in 1 .. lengths'[r] - 1, NEW i,
                      segmented, AtBlock(i), At(r, k, i)'
               PROVE  ScwAt(i)' /\ At(r, k + 1, i + 6)'
    BY <1>2, <1>3 DEF GoesOn, attributes
  <2>1. At(r, k, i) /\ r \in DOMAIN lengths /\ k \in 1 .. lengths[r] - 1 /\ i \in DOMAIN file /\ i \in Nat
    BY <1>1, <1>11
  <2>2. ScwAt(i) /\ At(r, k + 1, i + 6)
    BY <1>3, <2>1 DEF Inv, Layout, GoesOn
  <2> QED
    BY <1>5, <2>1, <2>2
<1>14. Follows'
  <2> SUFFICES ASSUME NEW r \in 0 .. N, NEW p \in 0 .. Len(file'), EndsAt(r, p)'
               PROVE  \/ Begins(r + 1, Start(p))'
                      \/ r = N /\ Len(file') = Start(p)
    BY <1>2, <1>3, <1>9 DEF Follows, Start, attributes
  <2>1. p \in 0 .. Len(file) /\ EndsAt(r, p)
    <3>1. CASE r = 0
      BY <1>1, <3>1 DEF EndsAt
    <3>2. CASE r # 0
      BY <1>1, <1>11, <3>2 DEF EndsAt
    <3> QED
      BY <3>1, <3>2
  <2>2. CASE r = N
    <3>1. p = Len(file)
      BY <1>3, <2>1, <2>2 DEF Inv, Layout, LastOfAll, Behind
    <3> QED
      BY <2>2, <3>1, WriteFile
  <2>3. CASE r # N
    <3>1. Begins(r + 1, Start(p))
      <4>1. r \in 0 .. Len(lengths) - 1
        <5>1. N \in Nat
          BY <1>1
        <5> QED
          BY <2>3, <5>1
      <4> QED
        BY <1>3, <2>1, <4>1 DEF Inv, Layout, Follows
    <3>2. Start(p) \in Nat
      BY <1>1, <2>1, BlockEnds, LengthsAre DEF Inv, Start
    <3>3. Start(p)' = Start(p) /\ segmented' = segmented
      BY <1>3 DEF Start, attributes
    <3> QED
      BY <1>5, <3>1, <3>2, <3>3 DEF Begins
  <2> QED
    BY <2>2, <2>3
<1>15. LastOfAll'
  BY <1>3 DEF LastOfAll
<1>16. Once'
  BY <1>2, <1>11 DEF Inv, Layout, Once
<1>17. WriterInv'
  <2>1. lengths' # <<>> /\ remaining' \in 1 .. lengths'[Len(lengths')]
    BY <1>2, <1>3
  <2>2. at' = 0 /\ delivered' = <<>>
    BY <1>3 DEF Inv, WriterInv, reader
  <2> QED
    BY <1>3, <1>9, <2>1, <2>2, WriteFile DEF WriterInv, attributes
<1>18. ReaderInv'
  <2>1. delivered' = <<>>
    BY <1>3 DEF Inv, WriterInv, reader
  <2> QED
    BY <1>2, <1>3, <2>1 DEF ReaderInv, Came, FailsOnlyAtBlockEnd
<1>19. Types'
  <2>1. segmented' \in BOOLEAN /\ minDataFree' \in MinDataFrees /\ lastBlock' \in BOOLEAN
        /\ Buffer' \in Seq(Byte) /\ delivered' \in Seq(Seq(Byte)) /\ at' \in 0 .. Len(file')
        /\ Len(delivered') <= Len(lengths')
    BY <1>1, <1>2, <1>3, <1>5, <1>6 DEF Inv, Types, TypeOK, attributes, reader
  <2>2. PosCour' \in Nat /\ NumBloc' \in Nat /\ block_end' \in Nat
    BY <1>5, <1>6, WriteFile
  <2> QED
    BY <1>2, <1>3, <1>5, <2>1, <2>2, BoundAssumption DEF Types, TypeOK
<1> QED
  BY <1>10, <1>12, <1>13, <1>14, <1>15, <1>16, <1>17, <1>18, <1>19 DEF Inv, Layout

-----------------------------------------------------------------------------
(* WritePiece *)

\* What WritePiece works out.
PieceEnds == ~segmented \/ remaining + PosCour + 5 <= block_end
PieceLen == IF PieceEnds THEN remaining ELSE block_end - PosCour - 5

\* A piece has a byte at least, and ends with the record or with the block.
LEMMA PieceFits ==
    ASSUME Inv, pc = "piece"
    PROVE  /\ Written \in 0 .. lengths[Len(lengths)] - 1 /\ Len(lengths) \in DOMAIN lengths
           /\ PieceLen \in 1 .. remaining /\ remaining = lengths[Len(lengths)] - Written
           /\ PieceEnds => PieceLen = remaining
           /\ segmented => Len(file) + 5 + PieceLen <= block_end
           /\ ~PieceEnds => /\ segmented /\ PieceLen < remaining
                            /\ Len(file) + 5 + PieceLen = block_end
           /\ ~segmented => Written = 0
           /\ PosCour = Len(file) /\ block_end = EndOf(Len(file)) /\ remaining \in Nat
<1>1. /\ Len(lengths) \in Nat /\ DOMAIN lengths = 1 .. Len(lengths) /\ lengths \in Seq(Lengths)
      /\ BlockSize \in Nat /\ minDataFree \in 5 .. BlockSize - 6 /\ BlockSize > 0
      /\ Len(file) \in Nat
  BY LengthsAre DEF Inv, Types
<1>2. /\ lengths # <<>> /\ remaining \in 1 .. lengths[Len(lengths)]
      /\ Written = 0 => (segmented => block_end - PosCour > minDataFree)
      /\ Written > 0 => segmented /\ AtBlock(PosCour)
      /\ PosCour = Len(file) /\ block_end = EndOf(Len(file))
  BY DEF Inv, WriterInv
<1>3. Len(lengths) \in DOMAIN lengths
  BY <1>1, <1>2
<1>4. lengths[Len(lengths)] \in Nat
  BY <1>3, LengthsAre DEF Inv
<1>5. Written = lengths[Len(lengths)] - remaining
  BY DEF Written
<1>6. EndOf(Len(file)) \in Nat
  BY <1>1, BlockEnds
<1>7. segmented => block_end - PosCour > 5
  BY <1>1, <1>2, <1>4, <1>5, <1>6 DEF AtBlock
<1>8. PieceEnds => PieceLen = remaining
  BY DEF PieceLen
<1>9. ~PieceEnds => segmented /\ PieceLen < remaining /\ Len(file) + 5 + PieceLen = block_end /\ PieceLen >= 1
  BY <1>1, <1>2, <1>4, <1>6, <1>7 DEF PieceLen, PieceEnds
<1>10. segmented => Len(file) + 5 + PieceLen <= block_end
  BY <1>1, <1>2, <1>4, <1>6, <1>8, <1>9 DEF PieceEnds
<1>11. PieceLen \in 1 .. remaining
  BY SMTT(30), <1>1, <1>2, <1>4, <1>6, <1>8, <1>9 DEF PieceLen
<1>12. Written \in 0 .. lengths[Len(lengths)] - 1 /\ remaining = lengths[Len(lengths)] - Written
  BY <1>2, <1>4, <1>5
<1>13. ~segmented => Written = 0
  BY <1>2, <1>12, <1>4
<1> QED
  BY <1>2, <1>3, <1>4, <1>8, <1>9, <1>10, <1>11, <1>12, <1>13

LEMMA PieceFile ==
    ASSUME Inv, WritePiece
    PROVE  /\ \E more \in Seq(Byte) : file' = file \o more /\ Len(more) = ScwSize + PieceLen
           /\ segmented => \E t, m \in Nat : \A j \in 1 .. 5 : file'[Len(file) + j] = <<0, t, m>>
           /\ segmented => \A j \in 1 .. 5 :
                 file'[Len(file) + j] = <<0, ScwType(Written = 0, PieceEnds), PieceLen + 5>>
           /\ \A j \in 1 .. PieceLen :
                 file'[Len(file) + ScwSize + j] = <<Len(lengths), Written + j, 0>>
           /\ PosCour' = Len(file') /\ block_end' = EndOf(PosCour') /\ Len(file') = Len(file) + ScwSize + PieceLen
           /\ NumBloc' \in Nat /\ block_end' \in Nat
<1> DEFINE r == Len(lengths)
           type == ScwType(Written = 0, PieceEnds)
           scw == IF segmented THEN Scw(type, PieceLen + 5) ELSE <<>>
           bytes == Bytes(r, Written + 1, Written + PieceLen)
<1>1. /\ PieceLen \in Nat /\ Written \in Nat /\ r \in Nat /\ Len(file) \in Nat /\ file \in Seq(Byte)
      /\ PosCour = Len(file) /\ PieceLen \in 1 .. remaining /\ remaining \in Nat
      /\ lengths[r] - remaining = Written /\ ScwSize \in Nat /\ BlockSize > 0
  BY PieceFits, LengthsAre DEF Inv, Types, WritePiece, Written, ScwSize
<1>2. file' = file \o scw \o bytes
  BY <1>1 DEF WritePiece, PieceLen, PieceEnds
<1>3. MoveTo(PosCour + ScwSize + PieceLen)
  BY DEF WritePiece, PieceLen, PieceEnds
<1>4. scw \in Seq(Byte) /\ Len(scw) = ScwSize
      /\ (segmented => type \in Nat /\ \A j \in 1 .. 5 : scw[j] = <<0, type, PieceLen + 5>>)
  <2>1. type \in Nat /\ PieceLen + 5 \in Nat
    BY <1>1 DEF ScwType
  <2> HIDE DEF type
  <2>2. CASE segmented
    <3>1. scw = Scw(type, PieceLen + 5) /\ ScwSize = 5
      BY <2>2 DEF ScwSize
    <3> QED
      BY <2>1, <3>1, ScwIs
  <2>3. CASE ~segmented
    BY <2>3 DEF ScwSize
  <2> QED
    BY <2>2, <2>3
<1>5. bytes \in Seq(Byte) /\ Len(bytes) = PieceLen
      /\ \A j \in 1 .. PieceLen : bytes[j] = <<r, Written + j, 0>>
  <2>1. r \in Nat /\ Written \in Nat /\ PieceLen \in Nat
    BY <1>1
  <2> HIDE DEF r
  <2> QED
    BY <2>1, BytesAre
<1> HIDE DEF scw, bytes, type, r
<1>6. /\ scw \o bytes \in Seq(Byte) /\ Len(scw \o bytes) = ScwSize + PieceLen
      /\ \A j \in 1 .. ScwSize : (scw \o bytes)[j] = scw[j]
      /\ \A j \in 1 .. PieceLen : (scw \o bytes)[ScwSize + j] = bytes[j]
  <2>1. scw \in Seq(Byte) /\ bytes \in Seq(Byte)
    BY <1>4, <1>5
  <2>2. /\ scw \o bytes \in Seq(Byte) /\ Len(scw \o bytes) = Len(scw) + Len(bytes)
        /\ \A j \in 1 .. Len(scw) : (scw \o bytes)[j] = scw[j]
        /\ \A j \in 1 .. Len(bytes) : (scw \o bytes)[Len(scw) + j] = bytes[j]
    BY <2>1, Joined
  <2> QED
    BY <1>4, <1>5, <2>2
<1>7. file' = file \o (scw \o bytes)
  <2>1. scw \in Seq(Byte) /\ bytes \in Seq(Byte) /\ file \in Seq(Byte)
    BY <1>1, <1>4, <1>5
  <2>2. (file \o scw) \o bytes = file \o (scw \o bytes)
    BY <2>1, JoinedTwice
  <2> QED
    BY <1>2, <2>2
<1>8. Len(file') = Len(file) + (ScwSize + PieceLen)
      /\ \A j \in 1 .. ScwSize + PieceLen : file'[Len(file) + j] = (scw \o bytes)[j]
  BY <1>1, <1>6, <1>7, Kept
<1>9. ASSUME segmented
      PROVE  \A j \in 1 .. 5 : file'[Len(file) + j] = <<0, type, PieceLen + 5>>
  <2>1. ScwSize = 5 /\ \A j \in 1 .. 5 : j \in 1 .. ScwSize + PieceLen
    BY <1>1, <1>9 DEF ScwSize
  <2> QED
    BY <1>4, <1>6, <1>8, <1>9, <2>1
<1>10. ASSUME NEW j \in 1 .. PieceLen
       PROVE  file'[Len(file) + ScwSize + j] = <<r, Written + j, 0>>
  <2>1. ScwSize + j \in 1 .. ScwSize + PieceLen
        /\ Len(file) + ScwSize + j = Len(file) + (ScwSize + j)
    BY <1>1
  <2> QED
    BY <1>5, <1>6, <1>8, <2>1
<1>11. PosCour + ScwSize + PieceLen \in Nat /\ PosCour + ScwSize + PieceLen = Len(file')
  BY <1>1, <1>8
<1>12. PosCour' = Len(file') /\ block_end' = EndOf(PosCour') /\ NumBloc' \in Nat /\ block_end' \in Nat
  BY <1>1, <1>3, <1>11, Moved
<1>13. segmented => \E t, m \in Nat : \A j \in 1 .. 5 : file'[Len(file) + j] = <<0, t, m>>
  <2>1. PieceLen + 5 \in Nat
    BY <1>1
  <2> QED
    BY <1>4, <1>9, <2>1
<1>14. \E more \in Seq(Byte) : file' = file \o more /\ Len(more) = ScwSize + PieceLen
  BY <1>6, <1>7
<1>15. Len(file') = Len(file) + ScwSize + PieceLen
  BY <1>1, <1>8
<1> QED
  BY <1>9, <1>10, <1>12, <1>13, <1>14, <1>15 DEF r, type

LEMMA PieceInv ==
    ASSUME Inv, WritePiece
    PROVE  Inv'
<1>1. /\ pc = "piece" /\ UNCHANGED <<attributes, lengths, reader>>
      /\ remaining' = remaining - PieceLen /\ pc' = IF PieceEnds THEN "write" ELSE "piece"
  BY DEF WritePiece, PieceLen, PieceEnds
<1>2. PICK L, N, w, n, c, e :
          L = Len(file) /\ N = Len(lengths) /\ w = Written /\ n = PieceLen /\ c = ScwSize /\ e = block_end
  OBVIOUS
<1>3. /\ N \in 1 .. N /\ DOMAIN lengths = 1 .. N /\ N \in Nat /\ L \in Nat
      /\ \A r \in 1 .. N : lengths[r] \in Nat /\ lengths[r] > 5
      /\ file \in Seq(Byte) /\ DOMAIN file = 1 .. L
      /\ BlockSize \in Nat /\ BlockSize > 0 /\ minDataFree \in 5 .. BlockSize - 6
      /\ c = IF segmented THEN 5 ELSE 0
  BY <1>1, <1>2, PieceFits, LengthsAre DEF Inv, Types, ScwSize
<1>4. /\ w \in 0 .. lengths[N] - 1 /\ n \in 1 .. remaining
      /\ remaining = lengths[N] - w /\ remaining \in Nat
      /\ PieceEnds => n = remaining
      /\ segmented => L + 5 + n <= e
      /\ ~PieceEnds => segmented /\ n < remaining /\ L + 5 + n = e
      /\ ~segmented => w = 0
      /\ PosCour = L /\ e = EndOf(L)
  BY <1>1, <1>2, PieceFits
<1>5. /\ file' \in Seq(Byte) /\ Len(file') = L + c + n /\ DOMAIN file' = 1 .. L + c + n
      /\ \A i \in 1 .. L : file'[i] = file[i]
      /\ \A r, k, i : At(r, k, i) => At(r, k, i)'
      /\ \A p \in Nat : ScwAt(p) => ScwAt(p)'
  <2>1. PICK more \in Seq(Byte) : file' = file \o more /\ Len(more) = ScwSize + PieceLen
    BY PieceFile
  <2>2. file' \in Seq(Byte) /\ \A i \in 1 .. L : file'[i] = file[i]
    BY <1>2, <1>3, <2>1, Kept
  <2>3. Len(file') = L + c + n
    BY <1>2, PieceFile
  <2>4. DOMAIN file' = 1 .. L + c + n
    BY <2>2, <2>3
  <2>5. /\ \A r, k, i : At(r, k, i) => At(r, k, i)'
        /\ \A p \in Nat : ScwAt(p) => ScwAt(p)'
    BY <1>3, <2>1, Kept
  <2> QED
    BY <2>2, <2>3, <2>4, <2>5
<1>6. \A j \in 1 .. n : file'[L + c + j] = <<N, w + j, 0>> /\ At(N, w + j, L + c + j)'
  <2> TAKE j \in 1 .. n
  <2>1. L + c + j \in 1 .. L + c + n
    BY <1>3, <1>4
  <2>2. file'[L + c + j] = <<N, w + j, 0>>
    BY <1>2, PieceFile
  <2> QED
    BY <1>5, <2>1, <2>2 DEF At
<1>7. segmented => ScwAt(L)'
  <2> SUFFICES ASSUME segmented PROVE ScwAt(L)'
    OBVIOUS
  <2>1. PICK t, m \in Nat : \A j \in 1 .. 5 : file'[L + j] = <<0, t, m>>
    BY <1>2, PieceFile
  <2>2. file'[L + 1] = <<0, t, m>>
    BY <2>1
  <2>3. file'[L + 1] # Pad /\ file'[L + 1][2] = t /\ file'[L + 1][3] = m
    BY <2>2, ScwIsNoData
  <2>4. L + 5 <= Len(file')
    BY <1>3, <1>4, <1>5
  <2>5. \A j \in 1 .. 5 : file'[L + j] = <<0, file'[L + 1][2], file'[L + 1][3]>>
    BY <2>1, <2>3
  <2> QED
    BY <2>3, <2>4, <2>5 DEF ScwAt
\* Every byte is an old one, of the SCW, or of the piece.
<1>8. ASSUME NEW i \in 1 .. L + c + n, i > L
      PROVE  \/ segmented /\ file'[i] # Pad /\ file'[i][1] = 0
             \/ \E j \in 1 .. n : i = L + c + j /\ file'[i] = <<N, w + j, 0>>
  <2>1. CASE i <= L + c
    <3>1. segmented /\ i - L \in 1 .. 5 /\ i = L + (i - L)
      BY <1>3, <1>8, <2>1
    <3>2. PICK t, m \in Nat : \A j \in 1 .. 5 : file'[L + j] = <<0, t, m>>
      BY <1>2, <3>1, PieceFile
    <3>3. file'[i] = <<0, t, m>>
      BY <3>1, <3>2
    <3> QED
      BY <3>1, <3>3, ScwIsNoData
  <2>2. CASE i > L + c
    <3>1. i - L - c \in 1 .. n /\ i = L + c + (i - L - c)
      <4>1. L \in Nat /\ c \in Nat /\ n \in Nat
        BY <1>3, <1>4
      <4> QED
        BY <1>8, <2>2, <4>1
    <3> QED
      BY <1>6, <3>1
  <2> QED
    BY <1>3, <1>5, <2>1, <2>2
<1>9. Written' = w + n
  <2>1. lengths' = lengths /\ Len(lengths) = N /\ lengths[N] \in Nat
    BY <1>1, <1>2, <1>3
  <2>2. remaining' = remaining - n
    BY <1>1, <1>2
  <2>3. PieceEnds => pc' = "write" /\ lengths[N] = w + n
    BY <1>1, <1>3, <1>4, <2>1
  <2>4. ~PieceEnds => pc' = "piece" /\ lengths[N] - remaining' = w + n
    BY SMTT(30), <1>1, <1>3, <1>4, <2>1, <2>2
  <2> QED
    BY <2>1, <2>3, <2>4 DEF Written
\* Which bytes of a record are there.
<1>10. ASSUME NEW r \in Nat \ {0}, NEW k, NEW i, At(r, k, i)'
       PROVE  \/ At(r, k, i) /\ i \in 1 .. L /\ r \in 1 .. N /\ k \in 1 .. lengths[r]
                 /\ (r = N => k <= w)
              \/ r = N /\ \E j \in 1 .. n : i = L + c + j /\ k = w + j
  <2>1. i \in 1 .. L + c + n /\ file'[i] = <<r, k, 0>> /\ file'[i] # Pad /\ file'[i][1] # 0
    BY <1>5, <1>10, DataIsData DEF At
  <2>2. CASE i > L
    <3>1. PICK j \in 1 .. n : i = L + c + j /\ file'[i] = <<N, w + j, 0>>
      BY <1>8, <2>1, <2>2
    <3>2. r = N /\ k = w + j
      BY <2>1, <3>1, SameData
    <3> QED
      BY <3>1, <3>2
  <2>3. CASE ~(i > L)
    <3>1. i \in 1 .. L /\ At(r, k, i)
      BY <1>3, <1>5, <2>1, <2>3 DEF At
    <3>2. r \in DOMAIN lengths /\ k \in 1 .. lengths[r] /\ (r = N => k <= w)
      BY <1>2, <3>1, DataKnown DEF Inv, Layout
    <3> QED
      BY <1>3, <3>1, <3>2
  <2> QED
    BY <2>2, <2>3
<1>11. Known'
  <2> SUFFICES ASSUME NEW i \in DOMAIN file', file'[i] # Pad, file'[i][1] # 0
               PROVE  \E r \in DOMAIN lengths' : \E k \in 1 .. lengths'[r] :
                         file'[i] = <<r, k, 0>> /\ (r = Len(lengths') => k <= Written')
    BY DEF Known
  <2>1. DOMAIN lengths' = 1 .. N /\ lengths' = lengths /\ Len(lengths') = N /\ Written' = w + n
    BY <1>1, <1>2, <1>3, <1>9
  <2>2. CASE i > L
    <3>1. PICK j \in 1 .. n : file'[i] = <<N, w + j, 0>>
      BY <1>5, <1>8, <2>2
    <3>2. w + j \in 1 .. lengths[N] /\ w + j <= w + n
      BY <1>3, <1>4
    <3> QED
      BY <1>3, <2>1, <3>1, <3>2
  <2>3. CASE ~(i > L)
    <3>1. i \in 1 .. L /\ file'[i] = file[i]
      BY <1>3, <1>4, <1>5, <2>3
    <3>2. PICK r \in 1 .. N : \E k \in 1 .. lengths[r] : file[i] = <<r, k, 0>> /\ (r = N => k <= w)
      BY <1>2, <1>3, <3>1 DEF Inv, Layout, Known
    <3>3. PICK k \in 1 .. lengths[r] : file[i] = <<r, k, 0>> /\ (r = N => k <= w)
      BY <3>2
    <3>4. r = N => k <= w + n
      BY <1>3, <1>4, <3>3
    <3> QED
      BY <2>1, <3>1, <3>3, <3>4
  <2> QED
    BY <2>2, <2>3
<1>12. Whole'
  <2> SUFFICES ASSUME NEW r \in 1 .. N, NEW k \in 1 .. lengths[r], NEW i, At(r, k, i)',
                      NEW m \in 0 .. lengths[r] - k, segmented => i + m <= EndOf(i - 1)
               PROVE  At(r, k + m, i + m)'
    BY <1>1, <1>3 DEF Whole, attributes
  <2>1. CASE At(r, k, i) /\ i \in 1 .. L
    <3>1. At(r, k + m, i + m)
      BY <1>3, <2>1 DEF Inv, Layout, Whole
    <3> QED
      BY <1>5, <3>1
  <2>2. ASSUME r = N, NEW j \in 1 .. n, i = L + c + j, k = w + j
        PROVE  At(r, k + m, i + m)'
    <3>1. j + m \in 1 .. n
      <4>1. CASE PieceEnds
        <5>1. n = lengths[N] - w /\ lengths[N] \in Nat
          BY <1>3, <1>4, <4>1
        <5>2. m \in 0 .. lengths[N] - (w + j)
          BY <2>2
        <5> QED
          BY <1>4, <5>1, <5>2
      <4>2. CASE ~PieceEnds
        <5>1. segmented /\ i - 1 \in Nat /\ L <= i - 1 /\ i - 1 < EndOf(L) /\ c = 5
          BY <1>3, <1>4, <2>2, <4>2
        <5>2. EndOf(i - 1) = e
          BY <1>3, <1>4, <5>1, SameBlock
        <5>3. m \in Nat
          BY <1>3, <2>2
        <5> QED
          BY <1>3, <1>4, <2>2, <4>2, <5>1, <5>2, <5>3
      <4> QED
        BY <4>1, <4>2
    <3>2. k + m = w + (j + m) /\ i + m = L + c + (j + m)
      BY <1>3, <1>4, <1>5, <2>2
    <3> QED
      BY <1>6, <2>2, <3>1, <3>2
  <2> QED
    BY <1>3, <1>10, <2>1, <2>2
<1>13. GoesOn'
  <2> SUFFICES ASSUME NEW r \in 1 .. N, NEW k \in 1 .. lengths[r] - 1, NEW i,
                      segmented, AtBlock(i), At(r, k, i)'
               PROVE  \/ ScwAt(i)' /\ At(r, k + 1, i + 6)'
                      \/ pc' = "piece" /\ r = N /\ k = w + n /\ i = L + c + n
    BY <1>1, <1>2, <1>3, <1>5, <1>9 DEF GoesOn, attributes
  <2>1. CASE At(r, k, i) /\ i \in 1 .. L
    <3>1. \/ ScwAt(i) /\ At(r, k + 1, i + 6)
          \/ r = N /\ k = w /\ i = L
      BY <1>2, <1>3, <2>1 DEF Inv, Layout, GoesOn
    <3>2. CASE ScwAt(i) /\ At(r, k + 1, i + 6)
      BY <1>3, <1>5, <2>1, <3>2
    <3>3. CASE r = N /\ k = w /\ i = L
      <4>1. L + c + 1 = i + 6 /\ 1 \in 1 .. n
        BY <1>3, <1>4, <3>3
      <4> QED
        BY <1>6, <1>7, <3>3, <4>1
    <3> QED
      BY <3>1, <3>2, <3>3
  <2>2. ASSUME r = N, NEW j \in 1 .. n, i = L + c + j, k = w + j
        PROVE  pc' = "piece" /\ k = w + n /\ i = L + c + n
    <3>1. /\ i \in Nat /\ L < i /\ i <= e /\ e <= L + BlockSize /\ e \in Nat /\ n \in Nat /\ w \in Nat /\ c = 5
      <4>1. n \in Nat /\ w \in Nat /\ c = 5 /\ j \in Nat /\ j >= 1 /\ j <= n
        BY <1>3, <1>4
      <4>2. e \in Nat /\ e <= L + BlockSize /\ L + 5 + n <= e
        BY <1>3, <1>4, BlockEnds
      <4> QED
        BY <1>3, <2>2, <4>1, <4>2
    <3>2. i = e
      <4>1. i < e => EndOf(i) = e
        BY <1>3, <1>4, <3>1, SameBlock
      <4> QED
        BY <1>3, <3>1, <4>1 DEF AtBlock
    <3>3. j = n
      BY <1>3, <1>4, <2>2, <3>1, <3>2
    <3>4. ~PieceEnds
      <4>1. lengths[N] \in Nat /\ k < lengths[N]
        BY <1>3, <2>2
      <4> QED
        BY <1>4, <2>2, <3>1, <3>3, <4>1
    <3> QED
      BY <1>1, <2>2, <3>3, <3>4
  <2> QED
    BY <1>3, <1>10, <2>1, <2>2
<1>14. Follows'
  <2> SUFFICES ASSUME NEW r \in 0 .. N - 1, NEW p \in 0 .. Len(file'), EndsAt(r, p)'
               PROVE  Begins(r + 1, Start(p))'
    BY <1>1, <1>2 DEF Follows
  <2>1. p \in 0 .. L /\ EndsAt(r, p)
    <3>1. CASE r = 0
      BY <1>3, <3>1 DEF EndsAt
    <3>2. CASE r # 0
      <4>1. r # N /\ r \in Nat \ {0}
        BY <1>3, <3>2
      <4>2. At(r, lengths[r], p)'
        BY <1>1, <3>2 DEF EndsAt
      <4>3. At(r, lengths[r], p) /\ p \in 1 .. L
        BY <1>1, <1>10, <4>1, <4>2
      <4> QED
        BY <1>3, <3>2, <4>3 DEF EndsAt
    <3> QED
      BY <3>1, <3>2
  <2>2. \/ Begins(r + 1, Start(p))
        \/ r + 1 = N /\ w = 0 /\ L = Start(p)
    BY <1>2, <2>1 DEF Inv, Layout, Follows
  <2>3. Start(p)' = Start(p) /\ segmented' = segmented
    BY <1>1 DEF Start, attributes
  <2>4. CASE Begins(r + 1, Start(p))
    <3>1. Start(p) \in Nat
      BY <1>3, <2>1, BlockEnds DEF Start
    <3> QED
      BY <1>5, <2>3, <2>4, <3>1 DEF Begins
  <2>5. CASE r + 1 = N /\ w = 0 /\ L = Start(p)
    <3>1. At(N, 1, L + c + 1)'
      <4>1. 1 \in 1 .. n /\ w + 1 = 1
        BY <1>4, <2>5
      <4> QED
        BY <1>6, <4>1
    <3>2. segmented => L + c + 1 = L + 6
      BY <1>3
    <3>3. ~segmented => L + c + 1 = L + 1
      BY <1>3
    <3> QED
      BY <1>7, <2>3, <2>5, <3>1, <3>2, <3>3 DEF Begins
  <2> QED
    BY <2>2, <2>4, <2>5
<1>15. PieceEnds => w + n = lengths[N]
  BY <1>3, <1>4
<1>16. LastOfAll'
  <2> SUFFICES ASSUME pc' = "write", PieceEnds, NEW p \in 0 .. Len(file'), EndsAt(N, p)'
               PROVE  p = L + c + n
    BY <1>1, <1>2, <1>5, <1>3, <1>4 DEF LastOfAll, Behind
  <2>1. PICK v : v = lengths[N]
    OBVIOUS
  <2>2. PICK j \in 1 .. n : p = L + c + j /\ v = w + j
    <3>0. At(N, v, p)'
      BY <1>1, <1>3, <2>1 DEF EndsAt
    <3>1. ~(v <= w)
      BY <1>3, <1>4, <2>1
    <3>2. N \in Nat \ {0}
      BY <1>3
    <3> QED
      BY <1>10, <3>0, <3>1, <3>2
  <2> QED
    BY <1>4, <1>15, <2>1, <2>2
<1>17. Once'
  <2> SUFFICES ASSUME NEW r \in 1 .. N, NEW i, NEW j, At(r, 1, i)', At(r, 1, j)'
               PROVE  i = j
    BY <1>1, <1>3 DEF Once
  <2>1. CASE At(r, 1, i) /\ i \in 1 .. L /\ At(r, 1, j) /\ j \in 1 .. L
    BY <1>3, <2>1 DEF Inv, Layout, Once
  <2>2. CASE r = N /\ w = 0
    BY <1>4, <1>10, <2>2
  <2>3. CASE r = N /\ w # 0
    BY <1>4, <1>10, <2>1, <2>3
  <2>4. CASE r # N
    BY <1>10, <2>1, <2>4
  <2> QED
    BY <2>2, <2>3, <2>4
<1>18. WriterInv'
  <2>1. PosCour' = Len(file') /\ block_end' = EndOf(PosCour') /\ Len(file') = L + c + n
    BY <1>5, PieceFile
  <2>2. at' = 0 /\ delivered' = <<>>
    BY <1>1 DEF Inv, WriterInv, reader
  <2>3. At(N, w + n, L + c + n)'
    BY <1>4, <1>6
  <2>4. CASE PieceEnds
    <3>1. EndsAt(N, L + c + n)'
      BY <1>1, <1>3, <1>15, <2>3, <2>4 DEF EndsAt
    <3> QED
      BY <1>1, <1>2, <2>1, <2>2, <2>4, <3>1 DEF WriterInv
  <2>5. CASE ~PieceEnds
    <3>1. lengths' # <<>> /\ remaining' \in 1 .. lengths'[Len(lengths')]
      BY <1>1, <1>2, <1>3, <1>4, <2>5
    <3>2. Written' # 0
      BY <1>4, <1>9
    <3>3. PosCour' = e /\ segmented'
      BY <1>1, <1>3, <1>4, <2>1, <2>5 DEF attributes
    <3>4. AtBlock(e)
      BY <1>3, <1>4, NextBlock DEF AtBlock
    <3> QED
      BY <1>1, <1>2, <1>9, <2>1, <2>2, <2>3, <2>5, <3>1, <3>2, <3>3, <3>4 DEF WriterInv, AtBlock
  <2> QED
    BY <2>4, <2>5
<1>19. ReaderInv'
  <2>1. delivered' = <<>> /\ pc' \in {"write", "piece"}
    BY <1>1 DEF Inv, WriterInv, reader
  <2> QED
    BY <1>1, <1>2, <1>3, <2>1 DEF ReaderInv, Came, FailsOnlyAtBlockEnd
<1>20. Types'
  <2>1. /\ segmented' \in BOOLEAN /\ minDataFree' \in MinDataFrees /\ lastBlock' \in BOOLEAN
        /\ Buffer' \in Seq(Byte) /\ delivered' \in Seq(Seq(Byte))
        /\ lengths' \in Seq(Lengths) /\ Len(lengths') <= MaxRecords /\ Len(delivered') <= Len(lengths')
    BY <1>1 DEF Inv, Types, TypeOK, attributes, reader
  <2>2. at' \in 0 .. Len(file')
    BY <1>1, <1>3, <1>4, <1>5 DEF Inv, WriterInv, reader
  <2>3. PosCour' \in Nat /\ NumBloc' \in Nat /\ block_end' \in Nat
    <3>1. L + c + n \in Nat
      BY <1>3, <1>4
    <3> QED
      BY <1>5, <3>1, PieceFile
  <2>4. remaining' \in Nat
    BY <1>1, <1>2, <1>4
  <2> QED
    BY <1>1, <1>5, <2>1, <2>2, <2>3, <2>4 DEF Types, TypeOK
<1> QED
  BY <1>11, <1>12, <1>13, <1>14, <1>16, <1>17, <1>18, <1>19, <1>20 DEF Inv, Layout

-----------------------------------------------------------------------------
(* Init and Close *)

LEMMA InitInv == Init => Inv
<1> SUFFICES ASSUME Init PROVE Inv
  OBVIOUS
<1>1. /\ file = <<>> /\ lengths = <<>> /\ delivered = <<>> /\ pc = "write"
      /\ Len(file) = 0 /\ Len(lengths) = 0 /\ DOMAIN file = {} /\ DOMAIN lengths = {}
      /\ PosCour = 0 /\ at = 0 /\ block_end = BlockSize
  BY DEF Init
<1>2. BlockSize \in Nat /\ BlockSize > 0
  BY SizeAssumption DEF Init
<1>3. Types
  <2>1. Len(delivered) <= Len(lengths) /\ Len(lengths) <= MaxRecords /\ at \in 0 .. Len(file)
    BY <1>1, BoundAssumption
  <2>2. /\ file \in Seq(Byte) /\ Buffer \in Seq(Byte) /\ delivered \in Seq(Seq(Byte))
        /\ lengths \in Seq(Lengths)
    BY DEF Init
  <2>3. PosCour \in Nat /\ NumBloc \in Nat /\ block_end \in Nat /\ remaining \in Nat
    BY <1>2 DEF Init
  <2> QED
    BY <1>1, <2>1, <2>2, <2>3 DEF Init, Types, TypeOK
<1>4. Known /\ Whole /\ GoesOn /\ Once
  BY <1>1 DEF Known, Whole, GoesOn, Once
<1>5. Follows /\ LastOfAll
  BY <1>1 DEF Follows, LastOfAll, Behind, EndsAt
<1>6. WriterInv
  BY <1>1, <1>2, FirstBlock DEF WriterInv, EndsAt
<1>7. ReaderInv
  BY <1>1 DEF ReaderInv, Came, FailsOnlyAtBlockEnd
<1> QED
  BY <1>3, <1>4, <1>5, <1>6, <1>7 DEF Inv, Layout

LEMMA CloseFile ==
    ASSUME Inv, Close
    PROVE  \E more \in Seq(Byte) : /\ file' = file \o more /\ \A i \in 1 .. Len(more) : more[i] = Pad
                                   /\ lastBlock \/ more = <<>>
<1>1. PICK L : L = Len(file)
  OBVIOUS
<1>2. L \in Nat /\ file \in Seq(Byte) /\ BlockSize \in Nat /\ BlockSize > 0
  BY <1>1, LengthsAre DEF Inv, Types
<1>3. CASE file' = file
  <2>1. file' = file \o <<>> /\ <<>> \in Seq(Byte) /\ \A i \in 1 .. Len(<<>>) : <<>>[i] = Pad
    BY <1>2, <1>3
  <2> QED
    BY <2>1
<1>4. CASE lastBlock /\ file' = file \o Pads(BlockSize - (Len(file) % BlockSize))
  <2>1. BlockSize - (L % BlockSize) \in Nat
    <3>1. L % BlockSize = BlockSize - (EndOf(L) - L) /\ EndOf(L) \in Nat /\ L < EndOf(L)
      BY <1>2, Remainder, BlockEnds
    <3> QED
      BY <1>2, <3>1
  <2>2. PICK d \in Nat : d = BlockSize - (L % BlockSize)
    BY <2>1
  <2>3. Pads(d) \in Seq(Byte) /\ Len(Pads(d)) = d /\ \A k \in 1 .. d : Pads(d)[k] = Pad
    BY PadsAre
  <2> QED
    BY <1>1, <1>4, <2>2, <2>3
<1> QED
  BY <1>3, <1>4 DEF Close

LEMMA CloseInv ==
    ASSUME Inv, Close
    PROVE  Inv'
<1>1. /\ pc = "write" /\ pc' = "read" /\ UNCHANGED <<attributes, lengths, remaining, reader>>
      /\ MoveTo(0)
  BY DEF Close
<1>2. PICK L, N : L = Len(file) /\ N = Len(lengths)
  OBVIOUS
<1>3. /\ DOMAIN lengths = 1 .. N /\ N \in Nat /\ L \in Nat
      /\ \A r \in 1 .. N : lengths[r] \in Nat /\ lengths[r] > 5
      /\ file \in Seq(Byte) /\ DOMAIN file = 1 .. L
      /\ BlockSize \in Nat /\ BlockSize > 0 /\ minDataFree \in 5 .. BlockSize - 6
  BY <1>2, LengthsAre DEF Inv, Types
<1>4. PICK more \in Seq(Byte) : /\ file' = file \o more /\ \A i \in 1 .. Len(more) : more[i] = Pad
                                /\ lastBlock \/ more = <<>>
  BY CloseFile
<1>5. PICK m \in Nat : m = Len(more)
  BY <1>4
<1>6. /\ file' \in Seq(Byte) /\ Len(file') = L + m /\ DOMAIN file' = 1 .. L + m
      /\ \A i \in 1 .. L : file'[i] = file[i]
      /\ \A i \in 1 .. m : file'[L + i] = Pad
      /\ \A r, k, i : At(r, k, i) => At(r, k, i)'
      /\ \A p \in Nat : ScwAt(p) => ScwAt(p)'
  <2>1. file' \in Seq(Byte) /\ Len(file') = L + m
    BY <1>2, <1>3, <1>4, <1>5, Kept
  <2>2. DOMAIN file' = 1 .. L + m
    BY <2>1
  <2> QED
    BY SMTT(30), <1>2, <1>3, <1>4, <1>5, <2>1, <2>2, Kept
<1>7. ASSUME NEW i \in 1 .. L + m, i > L PROVE file'[i] = Pad
  <2>1. i - L \in 1 .. m /\ i = L + (i - L)
    BY <1>3, <1>7
  <2> QED
    BY <1>6, <2>1
<1>8. ASSUME NEW r \in Nat \ {0}, NEW k, NEW i, At(r, k, i)'
      PROVE  At(r, k, i) /\ r \in 1 .. N /\ k \in 1 .. lengths[r] /\ i \in 1 .. L
  <2>1. i \in 1 .. L + m /\ file'[i] = <<r, k, 0>> /\ file'[i] # Pad
    BY <1>6, <1>8, DataIsData DEF At
  <2>2. i \in 1 .. L
    <3>1. L \in Nat /\ m \in Nat
      BY <1>3
    <3>2. ~(i > L)
      BY <1>7, <2>1
    <3> QED
      BY <2>1, <3>1, <3>2
  <2>3. At(r, k, i)
    BY <1>3, <1>6, <2>1, <2>2 DEF At
  <2>4. r \in DOMAIN lengths /\ k \in 1 .. lengths[r]
    BY <2>3, DataKnown DEF Inv, Layout
  <2> QED
    BY <1>3, <2>2, <2>3, <2>4
<1>9. Written' = Written
  BY <1>1 DEF Written
<1>10. Known'
  <2> SUFFICES ASSUME NEW i \in DOMAIN file', file'[i] # Pad, file'[i][1] # 0
               PROVE  \E r \in DOMAIN lengths' : \E k \in 1 .. lengths'[r] :
                         file'[i] = <<r, k, 0>> /\ (r = Len(lengths') => k <= Written')
    BY DEF Known
  <2>1. i \in 1 .. L /\ file'[i] = file[i]
    BY <1>3, <1>6, <1>7
  <2> QED
    BY <1>1, <1>3, <1>9, <2>1 DEF Inv, Layout, Known
<1>11. Whole'
  <2> SUFFICES ASSUME NEW r \in 1 .. N, NEW k \in 1 .. lengths[r], NEW i, At(r, k, i)',
                      NEW n \in 0 .. lengths[r] - k, segmented => i + n <= EndOf(i - 1)
               PROVE  At(r, k + n, i + n)'
    BY <1>1, <1>3 DEF Whole, attributes
  <2>1. At(r, k, i) /\ i \in 1 .. L
    BY <1>3, <1>8
  <2>2. At(r, k + n, i + n)
    BY <1>3, <2>1 DEF Inv, Layout, Whole
  <2> QED
    BY <1>6, <2>2
<1>12. GoesOn'
  <2> SUFFICES ASSUME NEW r \in 1 .. N, NEW k \in 1 .. lengths[r] - 1, NEW i,
                      segmented, AtBlock(i), At(r, k, i)'
               PROVE  ScwAt(i)' /\ At(r, k + 1, i + 6)'
    BY <1>1, <1>3 DEF GoesOn, attributes
  <2>1. At(r, k, i) /\ i \in 1 .. L
    BY <1>3, <1>8
  <2>2. ScwAt(i) /\ At(r, k + 1, i + 6)
    BY <1>1, <1>3, <2>1 DEF Inv, Layout, GoesOn
  <2> QED
    BY <1>3, <1>6, <2>1, <2>2
<1>13. ASSUME NEW r \in 0 .. N, NEW p, EndsAt(r, p)' PROVE p \in 0 .. L /\ EndsAt(r, p)
  <2>1. CASE r = 0
    BY <1>3, <1>13, <2>1 DEF EndsAt
  <2>2. CASE r # 0
    BY <1>1, <1>3, <1>8, <1>13, <2>2 DEF EndsAt
  <2> QED
    BY <2>1, <2>2
<1>14. Follows'
  <2> SUFFICES ASSUME NEW r \in 0 .. N - 1, NEW p, EndsAt(r, p)'
               PROVE  Begins(r + 1, Start(p))'
    BY <1>1, <1>2 DEF Follows
  <2>1. p \in 0 .. L /\ EndsAt(r, p)
    BY <1>3, <1>13
  <2>2. Begins(r + 1, Start(p))
    BY <1>1, <1>2, <2>1 DEF Inv, Layout, Follows
  <2>3. Start(p)' = Start(p) /\ segmented' = segmented
    BY <1>1 DEF Start, attributes
  <2>4. Start(p) \in Nat
    BY <1>3, <2>1, BlockEnds DEF Start
  <2> QED
    BY <1>6, <2>2, <2>3, <2>4 DEF Begins
<1>15. LastOfAll'
  <2> SUFFICES ASSUME NEW p, EndsAt(N, p)'
               PROVE  Behind(p)'
    BY <1>1, <1>2 DEF LastOfAll
  <2>1. p \in 0 .. L /\ EndsAt(N, p)
    BY <1>3, <1>13
  <2>2. p = L
    BY <1>1, <1>2, <2>1 DEF Inv, Layout, LastOfAll, Behind
  <2>3. \A j \in p + 1 .. Len(file') : file'[j] = Pad
    BY <1>3, <1>6, <1>7, <2>2
  <2>4. ~lastBlock' => p = Len(file')
    BY <1>1, <1>3, <1>4, <1>5, <1>6, <2>2 DEF attributes
  <2> QED
    BY <1>1, <2>3, <2>4 DEF Behind
<1>16. Once'
  <2> SUFFICES ASSUME NEW r \in 1 .. N, NEW i, NEW j, At(r, 1, i)', At(r, 1, j)'
               PROVE  i = j
    BY <1>1, <1>3 DEF Once
  <2>1. At(r, 1, i) /\ At(r, 1, j) /\ i \in 1 .. L /\ j \in 1 .. L
    BY <1>3, <1>8
  <2> QED
    BY <1>3, <2>1 DEF Inv, Layout, Once
<1>17. WriterInv'
  BY <1>1 DEF WriterInv
<1>18. PosCour' = 0 /\ block_end' = EndOf(0) /\ NumBloc' \in Nat /\ block_end' \in Nat
  BY <1>1, <1>3, Moved
<1>19. at' = 0 /\ delivered' = <<>> /\ Len(delivered') = 0
  BY <1>1 DEF Inv, WriterInv, reader
<1>20. ReaderInv'
  <2>1. EndsAt(Came, at)'
    BY <1>19 DEF EndsAt, Came
  <2> QED
    BY <1>1, <1>2, <1>3, <1>18, <1>19, <2>1 DEF ReaderInv, Came, FailsOnlyAtBlockEnd
<1>21. Types'
  <2>1. /\ segmented' \in BOOLEAN /\ minDataFree' \in MinDataFrees /\ lastBlock' \in BOOLEAN
        /\ Buffer' \in Seq(Byte) /\ delivered' \in Seq(Seq(Byte)) /\ remaining' \in Nat
        /\ lengths' \in Seq(Lengths) /\ Len(lengths') <= MaxRecords /\ Len(delivered') <= Len(lengths')
    BY <1>1 DEF Inv, Types, TypeOK, attributes, reader
  <2> QED
    BY <1>1, <1>3, <1>6, <1>18, <1>19, <2>1 DEF Types, TypeOK
<1> QED
  BY <1>10, <1>11, <1>12, <1>14, <1>15, <1>16, <1>17, <1>20, <1>21 DEF Inv, Layout

-----------------------------------------------------------------------------
(* What the reader finds *)

\* A reading step leaves the file and what is known of it.
LEMMA FileKept ==
    ASSUME Inv, pc \notin {"write", "piece"}, pc' \notin {"write", "piece"},
           UNCHANGED <<attributes, file, lengths>>
    PROVE  Layout' /\ WriterInv'
<1>1. /\ segmented' = segmented /\ minDataFree' = minDataFree /\ lastBlock' = lastBlock
      /\ file' = file /\ lengths' = lengths
  BY DEF attributes
<1>2. Written' = Written /\ (Known' <=> Known) /\ (Whole' <=> Whole) /\ (Once' <=> Once)
  BY <1>1 DEF Written, Known, Whole, Once, At
<1>3. GoesOn => GoesOn'
  BY <1>1, <1>2 DEF GoesOn, At, ScwAt
<1>4. Follows => Follows'
  <2> SUFFICES ASSUME Follows, NEW r \in 0 .. Len(lengths) - 1, NEW p \in 0 .. Len(file), EndsAt(r, p)'
               PROVE  Begins(r + 1, Start(p))'
    BY <1>1 DEF Follows
  <2>1. EndsAt(r, p)
    BY <1>1 DEF EndsAt, At
  <2>2. Begins(r + 1, Start(p))
    BY <2>1 DEF Follows
  <2>3. PICK q : q = Start(p)
    OBVIOUS
  <2>4. q = Start(p)'
    BY <1>1, <2>3 DEF Start
  <2>5. Begins(r + 1, q)'
    BY <1>1, <2>2, <2>3 DEF Begins, At, ScwAt
  <2> QED
    BY <2>4, <2>5
<1>5. LastOfAll => LastOfAll'
  BY <1>1 DEF LastOfAll, Behind, EndsAt, At
<1>6. WriterInv'
  BY DEF WriterInv
<1> QED
  BY <1>2, <1>3, <1>4, <1>5, <1>6 DEF Inv, Layout

LEMMA ReadingTypes ==
    ASSUME Types, UNCHANGED <<attributes, file, lengths>>,
           PosCour' \in Nat, NumBloc' \in Nat, block_end' \in Nat, remaining' \in Nat,
           at' \in 0 .. Len(file), Buffer' \in Seq(Byte), delivered' \in Seq(Seq(Byte)),
           Len(delivered') <= Len(lengths), pc' \in {"read", "scw", "length", "rest", "error"}
    PROVE  Types'
BY DEF Types, TypeOK, attributes, Stopped

LEMMA StoppedTypes ==
    ASSUME Inv, UNCHANGED <<attributes, file, lengths>>, UNCHANGED <<position, remaining, reader>>,
           pc' \in {"end", "error", "overrun"}
    PROVE  Types'
BY DEF Inv, Types, TypeOK, attributes, position, reader, Stopped

LEMMA Part ==
    ASSUME NEW S, NEW s \in Seq(S), NEW p \in Nat, NEW n \in Nat, p + n <= Len(s)
    PROVE  /\ SubSeq(s, p + 1, p + n) \in Seq(S) /\ Len(SubSeq(s, p + 1, p + n)) = n
           /\ \A k \in 1 .. n : SubSeq(s, p + 1, p + n)[k] = s[p + k]
<1>1. Len(s) \in Nat
  OBVIOUS
<1>2. p + n - (p + 1) + 1 = n /\ \A k \in 1 .. n : p + 1 + k - 1 = p + k /\ p + k \in 1 .. Len(s)
  BY <1>1
<1> QED
  BY <1>1, <1>2

LEMMA SameSequence ==
    ASSUME NEW S, NEW s \in Seq(S), NEW t \in Seq(S), Len(s) = Len(t),
           \A k \in 1 .. Len(s) : s[k] = t[k]
    PROVE  s = t
OBVIOUS

LEMMA FirstBytes ==
    ASSUME NEW r \in Nat, NEW n \in Nat
    PROVE  /\ Bytes(r, 1, n) \in Seq(Byte) /\ Len(Bytes(r, 1, n)) = n
           /\ \A j \in 1 .. n : Bytes(r, 1, n)[j] = <<r, j, 0>>
<1> DEFINE f == [j \in 1 .. n |-> <<r, j, 0>>]
<1>1. n - 1 + 1 = n /\ \A j \in 1 .. n : 1 + j - 1 = j
  OBVIOUS
<1>2. Bytes(r, 1, n) = f
  BY <1>1 DEF Bytes
<1>3. f \in [1 .. n -> Byte]
  BY DEF Byte
<1> HIDE DEF f
<1>4. f \in Seq(Byte) /\ Len(f) = n
  BY <1>3
<1> QED
  BY <1>2, <1>4 DEF f

\* read_marc_scw accepts an SCW.
LEMMA ScwRead ==
    ASSUME file \in Seq(Byte), NEW p \in Nat, ScwAt(p)
    PROVE  IsScw(SubSeq(file, p + 1, p + 5)) /\ SubSeq(file, p + 1, p + 5) # Pads(5)
<1> DEFINE b == SubSeq(file, p + 1, p + 5)
<1>1. /\ b \in Seq(Byte) /\ Len(b) = 5 /\ \A k \in 1 .. 5 : b[k] = file[p + k]
  BY Part DEF ScwAt
<1>2. PICK t, n : \A k \in 1 .. 5 : b[k] = <<0, t, n>>
  BY <1>1 DEF ScwAt
<1>3. b[1] # Pad /\ b[1][2] = t /\ b[1][3] = n
  <2>1. b[1] = <<0, t, n>>
    BY <1>2
  <2> HIDE DEF b
  <2> QED
    BY <2>1, ScwIsNoData
<1>4. b = Scw(t, n)
  <2> HIDE DEF b
  <2>1. b = [k \in 1 .. 5 |-> b[k]]
    BY <1>1
  <2>2. b = [k \in 1 .. 5 |-> <<0, t, n>>]
    BY <1>2, <2>1
  <2> QED
    BY <2>2 DEF Scw
<1>5. Pads(5)[1] = Pad
  BY DEF Pads
<1> QED
  BY <1>3, <1>4, <1>5 DEF IsScw

\* What it makes of five pads.
LEMMA PadsRead ==
    ASSUME file \in Seq(Byte), NEW p \in Nat, p + 5 <= Len(file), \A j \in 1 .. 5 : file[p + j] = Pad
    PROVE  SubSeq(file, p + 1, p + 5) = Pads(5) /\ ~IsScw(SubSeq(file, p + 1, p + 5))
<1> DEFINE b == SubSeq(file, p + 1, p + 5)
<1>1. /\ b \in Seq(Byte) /\ Len(b) = 5 /\ \A k \in 1 .. 5 : b[k] = file[p + k]
  BY Part
<1>2. \A k \in 1 .. 5 : b[k] = Pad
  BY <1>1
<1>3. b = Pads(5)
  BY SMTT(30), <1>1, <1>2 DEF Pads
<1> QED
  BY <1>2, <1>3 DEF IsScw

\* Five bytes are the first of one record at most.
LEMMA OneRecord ==
    ASSUME NEW r \in Nat, NEW s \in Nat, Bytes(r, 1, 5) = Bytes(s, 1, 5)
    PROVE  r = s
<1>1. 1 \in 1 .. 5 /\ 5 \in Nat
  OBVIOUS
<1>2. Bytes(r, 1, 5)[1] = <<r, 1, 0>> /\ Bytes(s, 1, 5)[1] = <<s, 1, 0>>
  BY <1>1, FirstBytes
<1> QED
  BY <1>2, SameData

\* The room a record begins with.
LEMMA RoomIs ==
    ASSUME Inv, NEW r \in DOMAIN lengths, NEW p \in Nat, At(r, 1, p + 1)
    PROVE  RoomAt(r) = EndOf(p) - p
<1>1. p + 1 \in DOMAIN file /\ file[p + 1] = <<r, 1, 0>>
  BY DEF At
<1>2. ASSUME NEW j \in DOMAIN file, file[j] = <<r, 1, 0>> PROVE j = p + 1
  BY <1>1, <1>2 DEF Inv, Layout, Once, At
<1> DEFINE i == CHOOSE j \in DOMAIN file : file[j] = <<r, 1, 0>>
<1>3. i = p + 1 /\ RoomAt(r) = BlockSize - ((i - 1) % BlockSize)
  BY <1>1, <1>2 DEF RoomAt
<1> HIDE DEF i
<1>4. BlockSize \in Nat /\ BlockSize > 0
  BY LengthsAre DEF Inv
<1>5. p % BlockSize = BlockSize - (EndOf(p) - p) /\ EndOf(p) \in Nat /\ p + 1 - 1 = p
  <2>1. p + 1 - 1 = p
    OBVIOUS
  <2> QED
    BY <1>4, <2>1, Remainder, BlockEnds
<1>6. RoomAt(r) = BlockSize - (p % BlockSize)
  BY <1>3, <1>5
<1>7. PICK m, b : m = p % BlockSize /\ b = BlockSize
  OBVIOUS
<1>8. RoomAt(r) = b - m /\ m = b - (EndOf(p) - p) /\ b \in Nat
  BY <1>4, <1>5, <1>6, <1>7
<1> QED
  BY <1>5, <1>8

-----------------------------------------------------------------------------
(* Skip and ReadScw *)

LEMMA SkipInv ==
    ASSUME Inv, Skip
    PROVE  Inv'
<1>1. /\ pc = "read" /\ pc' \in {"scw", "end"} /\ UNCHANGED <<attributes, file, lengths>>
      /\ UNCHANGED <<remaining, Buffer, delivered>>
  BY DEF Skip, Return, reader
<1>2. PICK a, N, d : a = at /\ N = Len(lengths) /\ d = Came
  OBVIOUS
<1>3. /\ d \in 0 .. N /\ N \in Nat /\ a \in 0 .. Len(file) /\ Len(file) \in Nat
      /\ DOMAIN file = 1 .. Len(file) /\ PosCour = a /\ block_end = EndOf(a) /\ EndsAt(d, a)
      /\ BlockSize \in Nat /\ BlockSize > 0 /\ minDataFree \in 5 .. BlockSize - 6
      /\ EndOf(a) \in Nat /\ a < EndOf(a)
      /\ NumBloc \in Nat /\ block_end \in Nat
  <2>1. /\ d \in 0 .. N /\ N \in Nat /\ a \in 0 .. Len(file)
    BY <1>2 DEF Inv, Types, TypeOK, Came, ReaderInv
  <2>2. PosCour = a /\ block_end = EndOf(a) /\ EndsAt(d, a)
    BY <1>1, <1>2 DEF Inv, ReaderInv
  <2> QED
    BY <2>1, <2>2, LengthsAre, BlockEnds DEF Inv, Types, TypeOK
<1>4. d < N => Begins(d + 1, Start(a))
  <2> SUFFICES ASSUME d < N PROVE Begins(d + 1, Start(a))
    OBVIOUS
  <2>1. d \in 0 .. Len(lengths) - 1
    BY <1>2, <1>3
  <2> QED
    BY <1>1, <1>3, <2>1 DEF Inv, Layout, Follows
<1>5. d = N => Behind(a)
  BY <1>1, <1>2, <1>3 DEF Inv, Layout, LastOfAll
<1>6. NoRoom <=> segmented /\ EndOf(a) - a <= minDataFree
  BY <1>3 DEF NoRoom
<1>7. Came' = d /\ \A r \in 1 .. d : delivered'[r] = Sent'[r]
  BY <1>1, <1>2 DEF Inv, ReaderInv, Came, Sent
<1>8. CASE pc' = "end"
  <2>1. NoRoom /\ ~Available(block_end - PosCour) /\ UNCHANGED <<position, reader>>
    BY <1>1, <1>8 DEF Skip, Return
  <2>2. d = N
    <3> SUFFICES ASSUME d < N PROVE FALSE
      BY <1>3
    <3>1. At(d + 1, 1, EndOf(a) + 6)
      BY <1>4, <1>6, <2>1 DEF Start, Begins
    <3> QED
      BY <1>2, <1>3, <2>1, <3>1 DEF At, Available
  <2>3. ReaderInv'
    BY <1>1, <1>2, <1>3, <1>7, <1>8, <2>2 DEF ReaderInv, FailsOnlyAtBlockEnd
  <2>4. Types'
    BY <1>1, <1>8, <2>1, StoppedTypes
  <2> QED
    BY <1>1, <1>8, <2>3, <2>4, FileKept DEF Inv
<1>9. CASE pc' = "scw"
  <2>1. /\ at' = Start(a) /\ PosCour' = Start(a) /\ block_end' = EndOf(Start(a))
        /\ segmented => EndOf(Start(a)) - Start(a) > minDataFree
        /\ Start(a) \in 0 .. Len(file) /\ NumBloc' \in Nat /\ block_end' \in Nat
        /\ d = N => Behind(Start(a))
    <3>1. CASE NoRoom
      <4>1. Available(EndOf(a) - a) /\ at' = a + (EndOf(a) - a) /\ MoveTo(EndOf(a))
        BY <1>1, <1>2, <1>3, <1>9, <3>1 DEF Skip, Return
      <4>2. Start(a) = EndOf(a) /\ at' = EndOf(a) /\ EndOf(a) <= Len(file)
        BY <1>2, <1>3, <1>6, <3>1, <4>1 DEF Start, Available
      <4>3. PosCour' = EndOf(a) /\ block_end' = EndOf(EndOf(a)) /\ NumBloc' \in Nat /\ block_end' \in Nat
        BY <1>3, <4>1, Moved
      <4>4. EndOf(EndOf(a)) - EndOf(a) > minDataFree
        BY <1>3, NextBlock
      <4>5. d = N => Behind(EndOf(a))
        <5> SUFFICES ASSUME d = N PROVE Behind(EndOf(a))
          OBVIOUS
        <5>1. \A j \in EndOf(a) + 1 .. Len(file) : j \in a + 1 .. Len(file)
          BY <1>3
        <5>2. a # Len(file)
          <6>1. a < EndOf(a) /\ EndOf(a) <= Len(file) /\ a \in Int /\ EndOf(a) \in Int /\ Len(file) \in Int
            BY <1>3, <4>2
          <6> QED
            BY <6>1
        <5> QED
          BY <1>1, <1>5, <5>1, <5>2 DEF Behind
      <4> QED
        BY <1>3, <4>2, <4>3, <4>4, <4>5
    <3>2. CASE ~NoRoom
      <4>1. UNCHANGED <<position, reader>>
        BY <1>1, <1>9, <3>2 DEF Skip, Return
      <4>2. Start(a) = a
        BY <1>6, <3>2 DEF Start
      <4>3. segmented => EndOf(a) - a > minDataFree
        BY <1>3, <1>6, <3>2
      <4> QED
        BY <1>2, <1>3, <1>5, <4>1, <4>2, <4>3 DEF position, reader
    <3> QED
      BY <3>1, <3>2
  <2>2. PICK q : q = Start(a)
    OBVIOUS
  <2>3. segmented' = segmented /\ minDataFree' = minDataFree /\ file' = file /\ lengths' = lengths
        /\ lastBlock' = lastBlock
    BY <1>1 DEF attributes
  <2>4. d < N => Begins(d + 1, q)'
    BY <1>4, <2>2, <2>3 DEF Begins, At, ScwAt
  <2>5. d = N => Behind(q)'
    BY <1>1, <1>9, <2>1, <2>2, <2>3 DEF Behind
  <2>6. ReaderInv'
    BY <1>2, <1>3, <1>7, <1>9, <2>1, <2>2, <2>3, <2>4, <2>5 DEF ReaderInv, FailsOnlyAtBlockEnd
  <2>7. Types'
    <3>1. PosCour' \in Nat /\ at' \in 0 .. Len(file')
      BY <1>3, <2>1, <2>3
    <3> QED
      BY <1>1, <1>9, <2>1, <3>1 DEF Inv, Types, TypeOK, attributes
  <2> QED
    BY <1>1, <2>6, <2>7, FileKept DEF Inv
<1> QED
  BY <1>1, <1>8, <1>9

\* Nothing is read any more, and the end was not reported too early: what holds of
\* the file at that place is all that is left to show.
LEMMA StoppedInv ==
    ASSUME Inv, pc \notin {"write", "piece"}, UNCHANGED <<attributes, file, lengths>>,
           UNCHANGED <<position, remaining, reader>>,
           pc' \in {"end", "error", "overrun"},
           pc' = "end" => Came = Len(lengths), FailsOnlyAtBlockEnd'
    PROVE  Inv'
<1>1. Came' = Came /\ Sent' = Sent /\ delivered' = delivered /\ lengths' = lengths
  BY DEF Came, Sent, reader
<1>2. ReaderInv'
  BY <1>1 DEF Inv, ReaderInv
<1>3. Types'
  BY StoppedTypes
<1> QED
  BY <1>2, <1>3, FileKept DEF Inv

\* The same where some bytes were read first.
LEMMA FailedInv ==
    ASSUME Inv, pc \notin {"write", "piece"}, UNCHANGED <<attributes, file, lengths, remaining, delivered>>,
           PosCour' \in Nat, NumBloc' \in Nat, block_end' \in Nat,
           at' \in 0 .. Len(file), Buffer' \in Seq(Byte), pc' = "error", FailsOnlyAtBlockEnd'
    PROVE  Inv'
<1>1. Came' = Came /\ Sent' = Sent /\ delivered' = delivered /\ lengths' = lengths
  BY DEF Came, Sent
<1>2. ReaderInv'
  BY <1>1 DEF Inv, ReaderInv
<1>3. Types'
  <2>1. remaining' \in Nat /\ delivered' \in Seq(Seq(Byte)) /\ Len(delivered') <= Len(lengths)
    BY <1>1 DEF Inv, Types, TypeOK
  <2> QED
    BY <2>1, ReadingTypes DEF Inv
<1> QED
  BY <1>2, <1>3, FileKept DEF Inv

LEMMA ReadScwInv ==
    ASSUME Inv, ReadScw
    PROVE  Inv'
<1>1. /\ pc = "scw" /\ pc' \in {"length", "end", "error"} /\ UNCHANGED <<attributes, file, lengths>>
      /\ UNCHANGED <<remaining, Buffer, delivered>>
  BY DEF ReadScw, Return, reader
<1>2. PICK a, N, d : a = at /\ N = Len(lengths) /\ d = Came
  OBVIOUS
<1>3. /\ d \in 0 .. N /\ N \in Nat /\ a \in 0 .. Len(file) /\ Len(file) \in Nat /\ file \in Seq(Byte)
      /\ DOMAIN file = 1 .. Len(file) /\ PosCour = a /\ block_end = EndOf(a)
      /\ BlockSize \in Nat /\ BlockSize > 0 /\ minDataFree \in 5 .. BlockSize - 6
      /\ EndOf(a) \in Nat
      /\ segmented => EndOf(a) - a > minDataFree
      /\ IF d < N THEN Begins(d + 1, a) ELSE Behind(a)
  <2>1. /\ d \in 0 .. N /\ N \in Nat /\ a \in 0 .. Len(file) /\ file \in Seq(Byte)
    BY <1>2 DEF Inv, Types, TypeOK, Came, ReaderInv
  <2>2. PosCour = a /\ block_end = EndOf(a) /\ (segmented => EndOf(a) - a > minDataFree)
        /\ IF d < N THEN Begins(d + 1, a) ELSE Behind(a)
    BY <1>1, <1>2 DEF Inv, ReaderInv
  <2> QED
    BY <2>1, <2>2, LengthsAre, BlockEnds DEF Inv
<1>4. Next5(0) = SubSeq(file, a + 1, a + 5) /\ (Available(5) <=> a + 5 <= Len(file))
  <2>1. a + 0 + 1 = a + 1 /\ a + 0 + 5 = a + 5
    BY <1>3
  <2> QED
    BY <1>2, <2>1 DEF Next5, Available
<1>5. segmented /\ d < N => Available(5) /\ IsScw(Next5(0)) /\ Next5(0) # Pads(5)
  <2> SUFFICES ASSUME segmented, d < N PROVE Available(5) /\ IsScw(Next5(0)) /\ Next5(0) # Pads(5)
    OBVIOUS
  <2>1. ScwAt(a)
    BY <1>3 DEF Begins
  <2>2. a + 5 <= Len(file) /\ a \in Nat
    BY <1>3, <2>1 DEF ScwAt
  <2> QED
    BY <1>3, <1>4, <2>1, <2>2, ScwRead
<1>6. d = N /\ Available(5) => Next5(0) = Pads(5) /\ ~IsScw(Next5(0))
  <2> SUFFICES ASSUME d = N, Available(5) PROVE Next5(0) = Pads(5) /\ ~IsScw(Next5(0))
    OBVIOUS
  <2>1. a + 5 <= Len(file) /\ a \in Nat /\ \A j \in 1 .. 5 : a + j \in a + 1 .. Len(file)
    BY <1>3, <1>4
  <2>2. \A j \in 1 .. 5 : file[a + j] = Pad
    <3>1. Behind(a)
      BY <1>3
    <3> QED
      BY <2>1, <3>1 DEF Behind
  <2> QED
    BY <1>3, <1>4, <2>1, <2>2, PadsRead
<1>7. CASE pc' = "end"
  <2>1. segmented /\ (Available(5) => Next5(0) = Pads(5)) /\ UNCHANGED <<position, remaining, reader>>
    BY <1>1, <1>7 DEF ReadScw, Return
  <2>2. d = N
    BY <1>3, <1>5, <2>1
  <2>3. FailsOnlyAtBlockEnd'
    BY <1>7 DEF FailsOnlyAtBlockEnd
  <2> QED
    BY <1>1, <1>2, <1>7, <2>1, <2>2, <2>3, StoppedInv
<1>8. pc' # "error"
  <2> SUFFICES ASSUME pc' = "error" PROVE FALSE
    OBVIOUS
  <2>1. segmented /\ Available(5) /\ Next5(0) # Pads(5) /\ ~IsScw(Next5(0))
    BY <1>1 DEF ReadScw, Return
  <2> QED
    BY <1>3, <1>5, <1>6, <2>1
<1>9. CASE pc' = "length"
  <2>1. /\ segmented => Available(5) /\ IsScw(Next5(0))
        /\ at' = at + ScwSize /\ MoveTo(PosCour + ScwSize)
    BY <1>1, <1>9 DEF ReadScw, Return
  <2>2. PICK q : q = a + ScwSize
    OBVIOUS
  <2>3. /\ q \in 0 .. Len(file) /\ at' = q /\ PosCour' = q /\ block_end' = EndOf(q)
        /\ NumBloc' \in Nat /\ block_end' \in Nat
        /\ segmented => EndOf(q) = EndOf(a) /\ q = a + 5
        /\ ~segmented => q = a
    <3>1. segmented => q = a + 5 /\ q <= Len(file)
      BY <1>4, <2>1, <2>2 DEF ScwSize
    <3>2. ~segmented => q = a
      BY <1>3, <2>2 DEF ScwSize
    <3>3. q \in 0 .. Len(file)
      BY <1>3, <3>1, <3>2
    <3>4. segmented => EndOf(q) = EndOf(a)
      <4> SUFFICES ASSUME segmented PROVE EndOf(q) = EndOf(a)
        OBVIOUS
      <4>1. a \in Nat /\ q \in Nat /\ a <= q /\ q < EndOf(a)
        BY <1>3, <3>1, <3>3
      <4> QED
        BY <1>3, <4>1, SameBlock
    <3>5. PosCour' = q /\ block_end' = EndOf(q) /\ NumBloc' \in Nat /\ block_end' \in Nat
      BY <1>3, <2>1, <2>2, <3>3, Moved
    <3> QED
      BY <1>2, <2>1, <2>2, <3>1, <3>2, <3>3, <3>4, <3>5
  <2>4. segmented => block_end' - q > minDataFree - 5
    BY <1>3, <2>3
  <2>5. segmented' = segmented /\ minDataFree' = minDataFree /\ file' = file /\ lengths' = lengths
        /\ lastBlock' = lastBlock
    BY <1>1 DEF attributes
  <2>6. d < N => At(d + 1, 1, q + 1)'
    <3> SUFFICES ASSUME d < N PROVE At(d + 1, 1, q + 1)
      BY <2>5 DEF At
    <3>1. segmented => q + 1 = a + 6
      BY <1>3, <2>3
    <3> QED
      BY <1>3, <2>3, <3>1 DEF Begins
  <2>7. d = N => ~segmented' /\ Behind(q)'
    <3>1. d = N => ~segmented
      BY <1>6, <2>1
    <3> QED
      <4> SUFFICES ASSUME d = N PROVE ~segmented' /\ Behind(q)'
        OBVIOUS
      <4>1. Behind(a) /\ q = a
        BY <1>3, <2>3, <3>1
      <4> QED
        BY <1>1, <1>9, <2>5, <3>1, <4>1 DEF Behind
  <2>8. Came' = d /\ \A r \in 1 .. d : delivered'[r] = Sent'[r]
    BY <1>1, <1>2 DEF Inv, ReaderInv, Came, Sent
  <2>9. ReaderInv'
    BY <1>2, <1>3, <1>9, <2>3, <2>4, <2>5, <2>6, <2>7, <2>8 DEF ReaderInv, FailsOnlyAtBlockEnd
  <2>10. Types'
    <3>1. PosCour' \in Nat
      BY <1>3, <2>3
    <3>2. remaining' \in Nat /\ Buffer' \in Seq(Byte) /\ delivered' \in Seq(Seq(Byte)) /\ Len(delivered') <= Len(lengths)
      BY <1>1 DEF Inv, Types, TypeOK
    <3> QED
      BY <1>1, <1>9, <2>3, <3>1, <3>2, ReadingTypes DEF Inv
  <2> QED
    BY <1>1, <1>9, <2>9, <2>10, FileKept DEF Inv
<1> QED
  BY <1>1, <1>7, <1>8, <1>9

-----------------------------------------------------------------------------
(* ReadLength *)

\* The bytes of a record are there, up to the end of the block.
LEMMA Contiguous ==
    ASSUME Inv, NEW r \in DOMAIN lengths, NEW k \in 1 .. lengths[r], NEW p \in Nat, At(r, k, p + 1),
           NEW n \in 1 .. lengths[r] - k + 1, segmented => p + n <= EndOf(p)
    PROVE  /\ p + n <= Len(file)
           /\ \A j \in 1 .. n : At(r, k + j - 1, p + j) /\ file[p + j] = <<r, k + j - 1, 0>>
<1>1. lengths[r] \in Nat /\ DOMAIN file = 1 .. Len(file) /\ Len(file) \in Nat /\ p + 1 - 1 = p
  BY LengthsAre DEF Inv
<1>2. ASSUME NEW j \in 1 .. n PROVE At(r, k + j - 1, p + j)
  <2>1. j - 1 \in 0 .. lengths[r] - k /\ p + 1 + (j - 1) = p + j /\ k + (j - 1) = k + j - 1
    BY <1>1
  <2>2. p + 1 \in DOMAIN file
    BY DEF At
  <2>3. segmented => p + 1 + (j - 1) <= EndOf(p + 1 - 1)
    <3> SUFFICES ASSUME segmented PROVE p + 1 + (j - 1) <= EndOf(p)
      BY <1>1
    <3>1. BlockSize > 0
      BY LengthsAre DEF Inv
    <3>2. EndOf(p) \in Nat /\ p + n <= EndOf(p)
      BY <3>1, BlockEnds
    <3> QED
      BY <3>2
  <2>4. At(r, k + (j - 1), p + 1 + (j - 1))
    BY <2>1, <2>2, <2>3 DEF Inv, Layout, Whole
  <2> QED
    BY <2>1, <2>4
<1>3. n \in 1 .. n
  OBVIOUS
<1>4. p + n \in DOMAIN file
  BY <1>2, <1>3 DEF At
<1>5. p + n <= Len(file)
  BY <1>1, <1>4
<1>6. \A j \in 1 .. n : file[p + j] = <<r, k + j - 1, 0>>
  BY <1>2 DEF At
<1> QED
  BY <1>2, <1>5, <1>6

\* Where the bytes of a record that are still to be read go on.
LEMMA WhatIsAhead ==
    ASSUME Inv, pc \notin {"write", "piece"}, NEW r \in DOMAIN lengths, NEW k \in 1 .. lengths[r] - 1,
           NEW i \in Nat, At(r, k, i)
    PROVE  Ahead(r, k + 1, i)
<1>1. /\ lengths[r] \in Nat /\ DOMAIN file = 1 .. Len(file) /\ Len(file) \in Nat
      /\ BlockSize \in Nat /\ BlockSize > 0 /\ i \in DOMAIN file
  BY LengthsAre DEF Inv, At
<1>2. CASE segmented /\ AtBlock(i)
  BY <1>1, <1>2 DEF Inv, Layout, GoesOn, Ahead
<1>3. CASE ~(segmented /\ AtBlock(i))
  <2>1. segmented => i + 1 <= EndOf(i - 1)
    <3> SUFFICES ASSUME segmented, ~(i + 1 <= EndOf(i - 1)) PROVE FALSE
      OBVIOUS
    <3>1. i - 1 \in Nat /\ EndOf(i - 1) \in Nat /\ i - 1 < EndOf(i - 1)
      BY <1>1, BlockEnds
    <3>2. i = EndOf(i - 1)
      BY <1>1, <3>1
    <3>3. AtBlock(i)
      BY <1>1, <3>1, <3>2, NextBlock DEF AtBlock
    <3> QED
      BY <1>3, <3>3
  <2>2. k \in 1 .. lengths[r] /\ 1 \in 0 .. lengths[r] - k
    BY <1>1
  <2>3. At(r, k + 1, i + 1)
    BY <1>1, <2>1, <2>2 DEF Inv, Layout, Whole
  <2> QED
    BY <1>3, <2>3 DEF Ahead
<1> QED
  BY <1>2, <1>3

LEMMA FiveHere ==
    ASSUME Inv, pc \notin {"write", "piece"}, NEW r \in DOMAIN lengths, NEW p \in Nat,
           At(r, 1, p + 1), segmented => p + 5 <= EndOf(p)
    PROVE  /\ p + 5 <= Len(file) /\ SubSeq(file, p + 1, p + 5) = Bytes(r, 1, 5)
           /\ Ahead(r, 6, p + 5)
<1>1. /\ lengths[r] \in Nat /\ lengths[r] > 5 /\ file \in Seq(Byte) /\ r \in Nat /\ Len(file) \in Nat
  BY LengthsAre DEF Inv, Types
<1>2. p + 5 <= Len(file) /\ \A j \in 1 .. 5 : At(r, j, p + j) /\ file[p + j] = <<r, j, 0>>
  <2>1. 1 \in 1 .. lengths[r] /\ 5 \in 1 .. lengths[r] - 1 + 1 /\ \A j \in 1 .. 5 : 1 + j - 1 = j
    BY <1>1
  <2>2. p + 5 <= Len(file) /\ \A j \in 1 .. 5 : At(r, 1 + j - 1, p + j) /\ file[p + j] = <<r, 1 + j - 1, 0>>
    BY <2>1, Contiguous
  <2> QED
    BY <2>1, <2>2
<1>3. SubSeq(file, p + 1, p + 5) = Bytes(r, 1, 5)
  <2> DEFINE b == SubSeq(file, p + 1, p + 5)
  <2>1. b \in Seq(Byte) /\ Len(b) = 5 /\ \A k \in 1 .. 5 : b[k] = file[p + k]
    <3>1. p \in Nat /\ 5 \in Nat /\ p + 5 <= Len(file) /\ file \in Seq(Byte)
      BY <1>1, <1>2
    <3> QED
      BY ONLY <3>1, ZenonT(60), Part
  <2>2. Bytes(r, 1, 5) \in Seq(Byte) /\ Len(Bytes(r, 1, 5)) = 5 /\ \A j \in 1 .. 5 : Bytes(r, 1, 5)[j] = <<r, j, 0>>
    BY <1>1, FirstBytes
  <2> HIDE DEF b
  <2>3. Len(b) = Len(Bytes(r, 1, 5)) /\ \A k \in 1 .. Len(b) : b[k] = Bytes(r, 1, 5)[k]
    BY <1>2, <2>1, <2>2
  <2>4. b = Bytes(r, 1, 5)
    BY <2>1, <2>2, <2>3, SameSequence
  <2> QED
    BY <2>4 DEF b
<1>4. Ahead(r, 5 + 1, p + 5)
  <2>1. 5 \in 1 .. lengths[r] - 1 /\ p + 5 \in Nat /\ 5 \in 1 .. 5
    BY <1>1
  <2>2. At(r, 5, p + 5)
    BY <1>2, <2>1
  <2> QED
    BY <2>1, <2>2, WhatIsAhead
<1> QED
  BY <1>2, <1>3, <1>4

\* The first five bytes of a record that has only h of them in its block.
LEMMA FiveAcross ==
    ASSUME Inv, pc \notin {"write", "piece"}, NEW r \in DOMAIN lengths, NEW p \in Nat,
           At(r, 1, p + 1), NEW h \in 1 .. 5, h = EndOf(p) - p, NEW c, c = ScwSize
    PROVE  /\ p + 5 + c <= Len(file) /\ (segmented => ScwAt(p + h)) /\ Ahead(r, 6, p + 5 + c)
           /\ SubSeq(file, p + 1, p + h) \o SubSeq(file, p + h + c + 1, p + 5 + c) = Bytes(r, 1, 5)
<1>1. /\ lengths[r] \in Nat /\ lengths[r] > 5 /\ file \in Seq(Byte) /\ r \in Nat /\ Len(file) \in Nat
      /\ BlockSize \in Nat /\ BlockSize > 10 /\ c = (IF segmented THEN 5 ELSE 0)
  BY LengthsAre DEF Inv, Types, ScwSize
<1>2. p + h = EndOf(p) /\ EndOf(p) \in Nat /\ EndOf(p + h) = p + h + BlockSize
  <2>1. EndOf(p) \in Nat
    BY <1>1, BlockEnds
  <2>2. p + h = EndOf(p)
    BY <2>1
  <2> QED
    BY <1>1, <2>1, <2>2, NextBlock
\* The bytes up to the end of the block.
<1>3. p + h <= Len(file) /\ \A j \in 1 .. h : At(r, j, p + j) /\ file[p + j] = <<r, j, 0>>
  <2>1. 1 \in 1 .. lengths[r] /\ h \in 1 .. lengths[r] - 1 + 1 /\ \A j \in 1 .. h : 1 + j - 1 = j
    BY <1>1
  <2>2. p + h <= EndOf(p)
    BY <1>2
  <2>3. p + h <= Len(file) /\ \A j \in 1 .. h : At(r, 1 + j - 1, p + j) /\ file[p + j] = <<r, 1 + j - 1, 0>>
    BY ZenonT(60), <2>1, <2>2, Contiguous
  <2> QED
    BY <2>1, <2>3
\* And those behind it, up to the sixth.
<1>4. (segmented => ScwAt(p + h)) /\ At(r, h + 1, p + h + c + 1)
  <2>1. h \in 1 .. lengths[r] - 1 /\ p + h \in Nat /\ h \in 1 .. h
    BY SMTT(30), <1>1
  <2>2. At(r, h, p + h)
    BY <1>3, <2>1
  <2>3. Ahead(r, h + 1, p + h)
    BY <2>1, <2>2, WhatIsAhead
  <2>4. AtBlock(p + h)
    BY <1>2 DEF AtBlock
  <2>5. segmented => p + h + c + 1 = p + h + 6
    BY <1>1
  <2>6. ~segmented => p + h + c + 1 = p + h + 1
    BY <1>1
  <2> QED
    BY <2>3, <2>4, <2>5, <2>6 DEF Ahead
<1>5. /\ p + 6 + c <= Len(file)
      /\ \A j \in 1 .. 6 - h : At(r, h + j, p + h + c + j) /\ file[p + h + c + j] = <<r, h + j, 0>>
  <2> DEFINE q == p + h + c
  <2>1. /\ q \in Nat /\ h + 1 \in 1 .. lengths[r] /\ 6 - h \in 1 .. lengths[r] - (h + 1) + 1
        /\ \A j \in 1 .. 6 - h : h + 1 + j - 1 = h + j
        /\ q + (6 - h) = p + 6 + c
    <3>1. h + 1 \in 1 .. lengths[r] /\ 6 - h \in 1 .. lengths[r] - (h + 1) + 1
      <4>1. lengths[r] \in Nat /\ lengths[r] > 5
        BY <1>1
      <4> QED
        BY <4>1
    <3>2. q \in Nat /\ q + (6 - h) = p + 6 + c
      <4>1. c \in Nat
        BY <1>1
      <4> QED
        BY <4>1
    <3>3. \A j \in 1 .. 6 - h : h + 1 + j - 1 = h + j
      OBVIOUS
    <3> QED
      BY <3>1, <3>2, <3>3
  <2>2. segmented => q + (6 - h) <= EndOf(q)
    <3> SUFFICES ASSUME segmented PROVE q + (6 - h) <= EndOf(q)
      OBVIOUS
    <3>1. p + h \in Nat /\ q \in Nat /\ p + h <= q /\ q < EndOf(p + h)
      BY <1>1, <1>2
    <3>2. EndOf(q) = EndOf(p + h)
      BY <1>1, <3>1, SameBlock
    <3>3. q + (6 - h) = p + 11
      BY <1>1
    <3>4. p + 11 <= p + h + BlockSize
      BY <1>1
    <3> QED
      BY <1>2, <3>2, <3>3, <3>4
  <2>3. At(r, h + 1, q + 1)
    BY <1>4
  <2> HIDE DEF q
  <2>4. /\ q + (6 - h) <= Len(file)
        /\ \A j \in 1 .. 6 - h : At(r, h + 1 + j - 1, q + j) /\ file[q + j] = <<r, h + 1 + j - 1, 0>>
    BY <2>1, <2>2, <2>3, Contiguous
  <2> QED
    BY <2>1, <2>4 DEF q
<1>6. SubSeq(file, p + 1, p + h) \o SubSeq(file, p + h + c + 1, p + 5 + c) = Bytes(r, 1, 5)
  <2> DEFINE s == SubSeq(file, p + 1, p + h)
             t == SubSeq(file, p + h + c + 1, p + 5 + c)
  <2>1. s \in Seq(Byte) /\ Len(s) = h /\ \A k \in 1 .. h : s[k] = file[p + k]
    BY SMTT(30), <1>1, <1>3, Part
  <2>2. t \in Seq(Byte) /\ Len(t) = 5 - h /\ \A k \in 1 .. 5 - h : t[k] = file[p + h + c + k]
    <3>1. PICK q \in Nat, n \in Nat : q = p + h + c /\ n = 5 - h /\ q + n = p + 5 + c
      <4>1. p + h + c \in Nat /\ 5 - h \in Nat /\ p + h + c + (5 - h) = p + 5 + c
        BY SMTT(30), <1>1
      <4> QED
        BY <4>1
    <3>2. q + n <= Len(file)
      BY <1>1, <1>5, <3>1
    <3>3. /\ SubSeq(file, q + 1, q + n) \in Seq(Byte) /\ Len(SubSeq(file, q + 1, q + n)) = n
          /\ \A k \in 1 .. n : SubSeq(file, q + 1, q + n)[k] = file[q + k]
      <4>1. file \in Seq(Byte)
        BY <1>1
      <4> QED
        BY <3>2, <4>1, Part
    <3> QED
      BY <3>1, <3>3
  <2> HIDE DEF s, t
  <2>3. /\ s \o t \in Seq(Byte) /\ Len(s \o t) = Len(s) + Len(t)
        /\ \A i \in 1 .. Len(s) : (s \o t)[i] = s[i]
        /\ \A i \in 1 .. Len(t) : (s \o t)[Len(s) + i] = t[i]
    BY SMTT(30), <2>1, <2>2, Joined
  <2>4. Len(s \o t) = 5
    BY <2>1, <2>2, <2>3
  <2>5. ASSUME NEW k \in 1 .. 5 PROVE (s \o t)[k] = <<r, k, 0>>
    <3>1. CASE k <= h
      <4>1. k \in 1 .. h /\ k \in 1 .. Len(s)
        BY <2>1, <3>1
      <4>2. (s \o t)[k] = s[k]
        BY <2>3, <4>1
      <4>3. s[k] = file[p + k]
        BY <2>1, <4>1
      <4> QED
        BY <1>3, <4>1, <4>2, <4>3
    <3>2. CASE k > h
      <4>1. k - h \in 1 .. 5 - h /\ k - h \in 1 .. 6 - h /\ h + (k - h) = k
        BY <3>2
      <4>2. (s \o t)[h + (k - h)] = t[k - h]
        BY <2>1, <2>2, <2>3, <4>1
      <4>3. t[k - h] = <<r, h + (k - h), 0>>
        BY <1>5, <2>2, <4>1
      <4> QED
        BY <4>1, <4>2, <4>3
    <3>3. k <= h \/ k > h
      OBVIOUS
    <3> QED
      BY <3>1, <3>2, <3>3
  <2>6. Bytes(r, 1, 5) \in Seq(Byte) /\ Len(Bytes(r, 1, 5)) = 5 /\ \A j \in 1 .. 5 : Bytes(r, 1, 5)[j] = <<r, j, 0>>
    BY <1>1, FirstBytes
  <2>7. s \o t = Bytes(r, 1, 5)
    <3>1. Len(s \o t) = Len(Bytes(r, 1, 5)) /\ \A k \in 1 .. Len(s \o t) : (s \o t)[k] = Bytes(r, 1, 5)[k]
      BY <2>4, <2>5, <2>6
    <3> QED
      BY <2>3, <2>6, <3>1, SameSequence
  <2> QED
    BY <2>7 DEF s, t
<1>7. At(r, 6, p + 6 + c) /\ p + 5 + c + 1 = p + 6 + c
  <2>1. 6 - h \in 1 .. 6 - h /\ h + (6 - h) = 6 /\ p + h + c + (6 - h) = p + 6 + c /\ p + 5 + c + 1 = p + 6 + c
    BY SMTT(30), <1>1
  <2> QED
    BY <1>5, <2>1
<1>8. Ahead(r, 6, p + 5 + c)
  <2>1. ~(segmented /\ AtBlock(p + 5 + c))
    <3> SUFFICES ASSUME segmented, AtBlock(p + 5 + c) PROVE FALSE
      OBVIOUS
    <3>1. p + h \in Nat /\ p + 5 + c \in Nat /\ p + h <= p + 5 + c /\ p + 5 + c < EndOf(p + h)
      BY SMTT(30), <1>1, <1>2
    <3>2. EndOf(p + 5 + c) = EndOf(p + h)
      BY <1>1, <3>1, SameBlock
    <3> QED
      BY SMTT(30), <1>1, <1>2, <3>1, <3>2 DEF AtBlock
  <2> QED
    BY <1>7, <2>1 DEF Ahead
<1>9. p + 5 + c <= Len(file)
  BY <1>1, <1>5
<1> QED
  BY <1>4, <1>6, <1>8, <1>9

LEMMA RecordDecoded ==
    ASSUME NEW r \in DOMAIN lengths, DOMAIN lengths \subseteq Nat, Decoded(Bytes(r, 1, 5))
    PROVE  remaining' = lengths[r] - 5 /\ pc' = "rest"
<1>1. PICK s \in DOMAIN lengths : /\ Bytes(r, 1, 5) = Bytes(s, 1, 5)
                                  /\ remaining' = lengths[s] - 5 /\ pc' = "rest"
  BY DEF Decoded
<1>2. s = r
  BY <1>1, OneRecord
<1> QED
  BY <1>1, <1>2

LEMMA PadDecoded ==
    ASSUME NEW b, b[1] = Pad, DOMAIN lengths \subseteq Nat \ {0}, Decoded(b)
    PROVE  pc' = "error" /\ UNCHANGED remaining
<1>1. ASSUME NEW s \in DOMAIN lengths PROVE b # Bytes(s, 1, 5)
  <2>1. s \in Nat \ {0} /\ 5 \in Nat /\ 1 \in 1 .. 5
    OBVIOUS
  <2>2. Bytes(s, 1, 5)[1] = <<s, 1, 0>>
    BY <2>1, FirstBytes
  <2>3. <<s, 1, 0>> # Pad
    BY <2>1, DataIsData
  <2> QED
    BY <2>2, <2>3
<1> QED
  BY <1>1 DEF Decoded

\* The length of a record is read: q bytes into the file its sixth byte is next.
LEMMA LengthRead ==
    ASSUME Inv, pc = "length", UNCHANGED <<attributes, file, lengths, delivered>>,
           NEW r, r = Came + 1, r <= Len(lengths),
           Buffer' = Bytes(r, 1, 5), remaining' = lengths[r] - 5, pc' = "rest",
           NEW q \in 0 .. Len(file), at' = q, PosCour' = q, NumBloc' \in Nat, block_end' \in Nat,
           Ahead(r, 6, q),
           \/ block_end' = EndOf(q)
           \/ AtBlock(q) /\ block_end' = q /\ (segmented => Hard(RoomAt(r)))
    PROVE  Inv'
<1>1. /\ segmented' = segmented /\ minDataFree' = minDataFree /\ lastBlock' = lastBlock
      /\ file' = file /\ lengths' = lengths /\ delivered' = delivered /\ Came' = Came
      /\ Sent' = Sent
  BY DEF attributes, Came, Sent
<1>2. /\ r \in DOMAIN lengths /\ r \in Nat /\ lengths[r] \in Nat /\ lengths[r] > 5 /\ Len(file) \in Nat
      /\ Came \in Nat
  <2>1. Came \in Nat /\ Came <= Len(lengths)
    BY DEF Inv, ReaderInv, Types, Came
  <2> QED
    BY <2>1, LengthsAre DEF Inv
<1>3. lengths[r] - remaining' = 5 /\ remaining' \in 1 .. lengths[r] - 5 /\ remaining' \in Nat
  BY <1>2
<1>4. Ahead(r, 6, q)'
  BY <1>1 DEF Ahead, At, ScwAt
<1>5. Hard(RoomAt(r))' <=> Hard(RoomAt(r))
  BY <1>1 DEF Hard, RoomAt
<1>6. ReaderInv'
  <2>1. \A k \in 1 .. Came' : delivered'[k] = Sent'[k]
    BY <1>1 DEF Inv, ReaderInv
  <2>2. Came' < Len(lengths')
    BY <1>1, <1>2
  <2>3. Buffer' = Bytes(Came' + 1, 1, lengths'[Came' + 1] - remaining')
    BY <1>1, <1>3
  <2>4. \/ block_end' = EndOf(at')
        \/ AtBlock(at') /\ block_end' = at' /\ (segmented' => Hard(RoomAt(Came + 1))')
    BY <1>1, <1>5
  <2>5. Ahead(Came + 1, lengths[Came + 1] - remaining + 1, at)'
    <3>1. lengths[r] - remaining' + 1 = 6
      BY <1>3
    <3> QED
      BY <1>1, <1>4, <3>1
  <2>6. remaining' \in 1 .. lengths'[Came' + 1] - 5
    BY <1>1, <1>3
  <2>7. Came' <= Len(lengths')
    BY <1>1, <1>2, <2>2
  <2> QED
    BY <2>1, <2>2, <2>3, <2>4, <2>5, <2>6, <2>7 DEF ReaderInv, FailsOnlyAtBlockEnd, AtBlock
<1>7. Types'
  <2>1. Buffer' \in Seq(Byte)
    BY <1>2, FirstBytes
  <2>2. delivered' \in Seq(Seq(Byte)) /\ Len(delivered') <= Len(lengths)
    BY <1>1 DEF Inv, Types, TypeOK
  <2>3. PosCour' \in Nat
    BY <1>2
  <2> QED
    BY <1>1, <1>3, <2>1, <2>2, <2>3, ReadingTypes DEF Inv
<1> QED
  BY <1>6, <1>7, FileKept DEF Inv

LEMMA ReadLengthInv ==
    ASSUME Inv, ReadLength
    PROVE  Inv'
<1>1. pc = "length" /\ UNCHANGED <<attributes, file, lengths>> /\ (ReadLengthHere \/ ReadLengthAcross)
  BY DEF ReadLength
<1>2. PICK a, N, d, c, h : a = at /\ N = Len(lengths) /\ d = Came /\ c = ScwSize /\ h = EndOf(a) - a
  OBVIOUS
<1>3. /\ d \in 0 .. N /\ N \in Nat /\ a \in 0 .. Len(file) /\ Len(file) \in Nat /\ file \in Seq(Byte)
      /\ DOMAIN file = 1 .. Len(file) /\ DOMAIN lengths = 1 .. N
      /\ PosCour = a /\ block_end = EndOf(a) /\ block_end - PosCour = h
      /\ BlockSize \in Nat /\ BlockSize > 0 /\ minDataFree \in 5 .. BlockSize - 6
      /\ EndOf(a) \in Nat /\ h \in Nat \ {0}
      /\ c = (IF segmented THEN 5 ELSE 0) /\ c \in Nat
      /\ d < N => At(d + 1, 1, a + 1)
      /\ d = N => ~segmented /\ Behind(a)
      /\ NumBloc \in Nat
  <2>1. /\ d \in 0 .. N /\ N \in Nat /\ a \in 0 .. Len(file) /\ file \in Seq(Byte) /\ NumBloc \in Nat
    BY <1>2 DEF Inv, Types, TypeOK, Came, ReaderInv
  <2>2. PosCour = a /\ block_end = EndOf(a)
        /\ IF d < N THEN At(d + 1, 1, a + 1) ELSE ~segmented /\ Behind(a)
    BY <1>1, <1>2 DEF Inv, ReaderInv
  <2>3. DOMAIN file = 1 .. Len(file) /\ DOMAIN lengths = 1 .. N /\ Len(file) \in Nat
        /\ BlockSize \in Nat /\ BlockSize > 0 /\ minDataFree \in 5 .. BlockSize - 6
    BY <1>2, LengthsAre DEF Inv
  <2>4. EndOf(a) \in Nat /\ a < EndOf(a)
    BY <2>1, <2>3, BlockEnds
  <2>5. h \in Nat \ {0}
    BY <1>2, <2>1, <2>4
  <2>6. c = (IF segmented THEN 5 ELSE 0)
    BY <1>2 DEF ScwSize
  <2>7. d = N => ~(d < N)
    BY <2>1
  <2> QED
    BY <1>2, <2>1, <2>2, <2>3, <2>4, <2>5, <2>6, <2>7
<1>4. ASSUME d < N PROVE d + 1 \in DOMAIN lengths /\ RoomAt(d + 1) = h
  <2>1. d + 1 \in DOMAIN lengths /\ a \in Nat
    BY <1>3, <1>4
  <2> QED
    BY <1>2, <1>3, <1>4, <2>1, RoomIs
<1>5. d = N => lastBlock \/ a = Len(file)
  BY <1>1, <1>3 DEF Behind
\* Five bytes that are all padding or begin with it.
<1>6. ASSUME d = N, a + 1 <= Len(file) PROVE lastBlock /\ file[a + 1] = Pad
  <2>1. a # Len(file) /\ a + 1 \in a + 1 .. Len(file)
    <3>1. a \in Int /\ Len(file) \in Int
      BY <1>3
    <3> QED
      BY <1>6, <3>1
  <2> QED
    BY <1>3, <1>5, <1>6, <2>1 DEF Behind
\* Reading fails here: what has to be shown.
<1>7. ASSUME pc' \in {"error", "overrun"}, delivered' = delivered,
             d < N => h \in 6 .. minDataFree - 1,
             d = N => lastBlock \/ (a = Len(file) /\ h < minDataFree)
      PROVE  FailsOnlyAtBlockEnd'
  <2>1. /\ segmented' = segmented /\ minDataFree' = minDataFree /\ lastBlock' = lastBlock
        /\ file' = file /\ lengths' = lengths /\ Len(delivered') = d
    BY <1>1, <1>2, <1>7 DEF attributes, Came
  <2>2. CASE d < N
    <3>1. Hard(RoomAt(d + 1))
      BY <1>4, <1>7, <2>2 DEF Hard
    <3>2. Hard(RoomAt(Len(delivered) + 1))'
      BY <2>1, <3>1 DEF Hard, RoomAt
    <3> QED
      BY <1>2, <2>1, <2>2, <3>2 DEF FailsOnlyAtBlockEnd
  <2>3. CASE d = N
    <3>1. a = Len(file) => BlockSize - (Len(file) % BlockSize) = h
      <4> SUFFICES ASSUME a = Len(file) PROVE BlockSize - (a % BlockSize) = h
        OBVIOUS
      <4>1. a % BlockSize = BlockSize - (EndOf(a) - a)
        BY <1>3, Remainder
      <4>2. a % BlockSize = BlockSize - h
        BY <1>2, <4>1
      <4>3. PICK m : m = a % BlockSize
        OBVIOUS
      <4>4. m = BlockSize - h
        BY <4>2, <4>3
      <4>5. BlockSize - m = h
        BY <1>3, <4>4
      <4> QED
        BY <4>3, <4>5
    <3>2. ~segmented /\ (lastBlock \/ BlockSize - (Len(file) % BlockSize) < minDataFree)
      BY <1>3, <1>7, <2>3, <3>1
    <3>3. ~(Len(delivered') < Len(lengths'))
      BY <1>2, <1>3, <2>1, <2>3
    <3> QED
      BY <2>1, <3>2, <3>3 DEF FailsOnlyAtBlockEnd
  <2> QED
    BY <1>3, <2>2, <2>3
<1>8. Next5(0) = SubSeq(file, a + 1, a + 5) /\ (Available(5) <=> a + 5 <= Len(file))
  <2>1. a + 0 + 1 = a + 1 /\ a + 0 + 5 = a + 5
    BY <1>3
  <2> QED
    BY <1>2, <2>1 DEF Next5, Available
<1>9. d < N /\ h >= 5 /\ (segmented => h >= 5) =>
        /\ a + 5 <= Len(file) /\ Next5(0) = Bytes(d + 1, 1, 5) /\ Ahead(d + 1, 6, a + 5)
  <2> SUFFICES ASSUME d < N, h >= 5
               PROVE  /\ a + 5 <= Len(file) /\ Next5(0) = Bytes(d + 1, 1, 5) /\ Ahead(d + 1, 6, a + 5)
    OBVIOUS
  <2>1. a + 5 <= EndOf(a) /\ a \in Nat
    BY <1>2, <1>3
  <2> QED
    BY <1>1, <1>3, <1>4, <1>8, <2>1, FiveHere
<1>10. CASE ReadLengthHere
  <2>1. h >= minDataFree /\ h >= 5
    BY <1>3, <1>10 DEF ReadLengthHere
  <2>2. CASE ~Available(5)
    <3>1. pc' = "end" /\ UNCHANGED <<position, remaining, reader>>
      BY <1>10, <2>2 DEF ReadLengthHere, Return
    <3>2. d = N
      BY <1>3, <1>8, <1>9, <2>1, <2>2
    <3>3. FailsOnlyAtBlockEnd'
      BY <3>1 DEF FailsOnlyAtBlockEnd
    <3> QED
      BY <1>1, <1>2, <3>1, <3>2, <3>3, StoppedInv
  <2>3. CASE Available(5)
    <3>1. /\ at' = a + 5 /\ Buffer' = Next5(0) /\ PosCour' = a + 5 /\ Decoded(Next5(0))
          /\ NumBloc' = NumBloc /\ block_end' = EndOf(a) /\ delivered' = delivered
      BY <1>2, <1>3, <1>10, <2>3 DEF ReadLengthHere
    <3>2. CASE d < N
      <4>1. /\ a + 5 <= Len(file) /\ Next5(0) = Bytes(d + 1, 1, 5) /\ Ahead(d + 1, 6, a + 5)
        BY <1>9, <2>1, <3>2
      <4>2. remaining' = lengths[d + 1] - 5 /\ pc' = "rest"
        <5>1. DOMAIN lengths \subseteq Nat /\ Decoded(Bytes(d + 1, 1, 5))
          BY <1>3, <3>1, <4>1
        <5> QED
          BY <1>4, <3>2, <5>1, RecordDecoded
      <4>3. PICK q : q = a + 5
        OBVIOUS
      <4>4. \/ EndOf(a) = EndOf(q)
            \/ AtBlock(q) /\ EndOf(a) = q /\ (segmented => Hard(RoomAt(d + 1)))
        <5>1. CASE h = 5
          <6>1. EndOf(a) = q
            BY <1>2, <1>3, <4>3, <5>1
          <6>2. AtBlock(q)
            BY <1>3, <6>1, NextBlock DEF AtBlock
          <6>3. segmented => Hard(RoomAt(d + 1))
            BY <1>3, <1>4, <2>1, <3>2, <5>1 DEF Hard
          <6> QED
            BY <6>1, <6>2, <6>3
        <5>2. CASE h # 5
          <6>1. a \in Nat /\ q \in Nat /\ a <= q /\ q < EndOf(a)
            BY <1>2, <1>3, <2>1, <4>3, <5>2
          <6> QED
            BY <1>3, <6>1, SameBlock
        <5> QED
          BY <5>1, <5>2
      <4>5. PICK r : r = d + 1
        OBVIOUS
      <4>6. /\ r = Came + 1 /\ r <= Len(lengths) /\ Buffer' = Bytes(r, 1, 5) /\ remaining' = lengths[r] - 5
            /\ Ahead(r, 6, q)
            /\ \/ block_end' = EndOf(q)
               \/ AtBlock(q) /\ block_end' = q /\ (segmented => Hard(RoomAt(r)))
        BY <1>2, <1>3, <3>1, <3>2, <4>1, <4>2, <4>3, <4>4, <4>5
      <4>7. q \in 0 .. Len(file) /\ at' = q /\ PosCour' = q /\ NumBloc' \in Nat /\ block_end' \in Nat
        BY <1>3, <3>1, <4>1, <4>3
      <4>8. UNCHANGED <<attributes, file, lengths, delivered>>
        BY <1>1, <3>1
      <4> QED
        BY <1>1, <4>2, <4>6, <4>7, <4>8, LengthRead
    <3>3. CASE d = N
      <4>1. a + 1 <= Len(file) /\ a + 5 <= Len(file) /\ a \in Nat
        BY <1>3, <1>8, <2>3
      <4>2. Next5(0)[1] = Pad
        <5>1. SubSeq(file, a + 1, a + 5)[1] = file[a + 1]
          BY <1>3, <4>1, Part
        <5> QED
          BY <1>6, <1>8, <3>3, <4>1, <5>1
      <4>3. pc' = "error" /\ remaining' = remaining
        <5>1. DOMAIN lengths \subseteq Nat \ {0}
          BY <1>3
        <5> QED
          BY <3>1, <4>2, <5>1, PadDecoded
      <4>4. FailsOnlyAtBlockEnd'
        BY <1>3, <1>6, <1>7, <3>1, <3>3, <4>1, <4>3
      <4>5. Buffer' \in Seq(Byte)
        <5>1. file \in Seq(Byte)
          BY <1>3
        <5>2. SubSeq(file, a + 1, a + 5) \in Seq(Byte)
          BY <4>1, <5>1, Part
        <5> QED
          BY <1>8, <3>1, <5>2
      <4>6. /\ PosCour' \in Nat /\ NumBloc' \in Nat /\ block_end' \in Nat /\ at' \in 0 .. Len(file)
            /\ UNCHANGED <<attributes, file, lengths, remaining, delivered>>
        BY <1>1, <1>3, <3>1, <4>1, <4>3
      <4> QED
        BY <1>1, <4>3, <4>4, <4>5, <4>6, FailedInv
    <3> QED
      BY <1>3, <3>2, <3>3
  <2> QED
    BY <2>2, <2>3
<1>11. CASE ReadLengthAcross
  <2> DEFINE bytes == SubSeq(file, a + 1, a + h) \o SubSeq(file, a + h + c + 1, a + 5 + c)
             there == Available(h + c) /\ (segmented => IsScw(Next5(h)))
  <2>1. h < minDataFree
    BY <1>3, <1>11 DEF ReadLengthAcross
  <2>2. \/ /\ there /\ 5 - h < 0
           /\ Return("overrun")
        \/ /\ there /\ 5 - h >= 0 /\ Available(5 + c)
           /\ at' = a + 5 + c
           /\ Buffer' = bytes
           /\ MoveTo(block_end + c + (5 - h))
           /\ Decoded(bytes)
           /\ UNCHANGED delivered
        \/ /\ there => 5 - h >= 0 /\ ~Available(5 + c)
           /\ Return("error")
    BY <1>2, <1>3, <1>11 DEF ReadLengthAcross
  <2>3. /\ Available(5 + c) <=> a + 5 + c <= Len(file)
        /\ Available(h + c) <=> a + h + c <= Len(file)
        /\ Next5(h) = SubSeq(file, a + h + 1, a + h + 5)
    BY <1>2, <1>3 DEF Available, Next5
\* A record whose first bytes do go over to the next block.
  <2>4. ASSUME d < N, h <= 5
        PROVE  /\ there /\ Available(5 + c) /\ bytes = Bytes(d + 1, 1, 5) /\ Ahead(d + 1, 6, a + 5 + c)
    <3>1. a \in Nat /\ h \in 1 .. 5
      BY <1>3, <2>4
    <3>2. /\ a + 5 + c <= Len(file) /\ (segmented => ScwAt(a + h)) /\ Ahead(d + 1, 6, a + 5 + c)
          /\ bytes = Bytes(d + 1, 1, 5)
      <4>1. d + 1 \in DOMAIN lengths /\ At(d + 1, 1, a + 1)
        BY <1>3, <1>4, <2>4
      <4>2. pc \notin {"write", "piece"}
        BY <1>1
      <4>3. PICK r : r = d + 1
        OBVIOUS
      <4>4. /\ a + 5 + c <= Len(file) /\ (segmented => ScwAt(a + h)) /\ Ahead(r, 6, a + 5 + c)
            /\ SubSeq(file, a + 1, a + h) \o SubSeq(file, a + h + c + 1, a + 5 + c) = Bytes(r, 1, 5)
        <5>1. r \in DOMAIN lengths /\ At(r, 1, a + 1) /\ h = EndOf(a) - a /\ c = ScwSize
          BY <1>2, <4>1, <4>3
        <5> QED
          BY <3>1, <4>2, <5>1, FiveAcross
      <4> QED
        BY <4>3, <4>4
    <3>3. a + h + c <= Len(file) /\ a + h \in Nat
      BY <1>3, <3>1, <3>2
    <3>4. segmented => IsScw(Next5(h))
      BY <1>3, <2>3, <3>2, <3>3, ScwRead
    <3> QED
      BY <2>3, <3>2, <3>3, <3>4
  <2> HIDE DEF there
  <2>5. CASE Return("overrun") /\ there /\ 5 - h < 0
    <3>1. pc' = "overrun" /\ UNCHANGED <<position, remaining, reader>>
      BY <2>5 DEF Return
    <3>2. h \in 6 .. minDataFree - 1
      BY <1>3, <2>1, <2>5
    <3>3. d = N => lastBlock
      <4> SUFFICES ASSUME d = N PROVE lastBlock
        OBVIOUS
      <4>1. a + h + c <= Len(file)
        BY <2>3, <2>5 DEF there
      <4>2. a + 1 <= Len(file)
        BY <1>3, <4>1
      <4> QED
        BY <1>6, <4>2
    <3>4. FailsOnlyAtBlockEnd'
      BY <1>7, <3>1, <3>2, <3>3 DEF reader
    <3> QED
      BY <1>1, <3>1, <3>4, StoppedInv
  <2>6. CASE Return("error") /\ (there => 5 - h >= 0 /\ ~Available(5 + c))
    <3>1. pc' = "error" /\ UNCHANGED <<position, remaining, reader>>
      BY <2>6 DEF Return
    <3>2. d < N => h \in 6 .. minDataFree - 1
      <4> SUFFICES ASSUME d < N PROVE h \in 6 .. minDataFree - 1
        OBVIOUS
      <4>1. ~(h <= 5)
        BY <2>4, <2>6 DEF there
      <4> QED
        BY <1>3, <2>1, <4>1
    <3>3. FailsOnlyAtBlockEnd'
      BY <1>5, <1>7, <2>1, <3>1, <3>2 DEF reader
    <3> QED
      BY <1>1, <3>1, <3>3, StoppedInv
  <2>7. CASE /\ there /\ 5 - h >= 0 /\ Available(5 + c)
             /\ at' = a + 5 + c
             /\ Buffer' = bytes
             /\ MoveTo(block_end + c + (5 - h))
             /\ Decoded(bytes)
             /\ UNCHANGED delivered
    <3>1. PICK q \in Nat : q = a + 5 + c
      BY <1>3
    <3>2. h \in 1 .. 5 /\ q <= Len(file) /\ block_end + c + (5 - h) = q /\ a \in Nat
      <4>1. h \in 1 .. 5 /\ a \in Nat
        BY <1>3, <2>7
      <4>2. block_end = a + h
        BY <1>2, <1>3
      <4>3. a + h + c + (5 - h) = a + 5 + c
        BY <1>3, <4>1
      <4> QED
        BY <2>3, <2>7, <3>1, <4>1, <4>2, <4>3
    <3>3. /\ q \in 0 .. Len(file) /\ at' = q /\ PosCour' = q /\ NumBloc' \in Nat
          /\ block_end' \in Nat /\ block_end' = EndOf(q)
      BY <1>3, <2>7, <3>1, <3>2, Moved
    <3>4. CASE d < N
      <4>1. bytes = Bytes(d + 1, 1, 5) /\ Ahead(d + 1, 6, q)
        <5>1. h <= 5
          BY <3>2
        <5>2. bytes = Bytes(d + 1, 1, 5) /\ Ahead(d + 1, 6, a + 5 + c)
          BY <2>4, <3>4, <5>1
        <5> HIDE DEF bytes
        <5> QED
          BY <3>1, <5>2
      <4> HIDE DEF bytes
      <4>2. remaining' = lengths[d + 1] - 5 /\ pc' = "rest"
        <5>1. DOMAIN lengths \subseteq Nat /\ Decoded(Bytes(d + 1, 1, 5))
          BY <1>3, <2>7, <4>1
        <5> QED
          BY <1>4, <3>4, <5>1, RecordDecoded
      <4>3. PICK r : r = d + 1
        OBVIOUS
      <4>4. /\ r = Came + 1 /\ r <= Len(lengths) /\ Buffer' = Bytes(r, 1, 5) /\ remaining' = lengths[r] - 5
            /\ Ahead(r, 6, q)
        BY <1>2, <1>3, <2>7, <3>4, <4>1, <4>2, <4>3
      <4>5. UNCHANGED <<attributes, file, lengths, delivered>>
        BY <1>1, <2>7
      <4> QED
        BY <1>1, <3>3, <4>2, <4>4, <4>5, LengthRead
    <3>5. CASE d = N
      <4>1. c = 0 /\ a + h + c = a + h /\ a + h \in Nat /\ 5 - h \in Nat /\ a + h + (5 - h) = a + 5
            /\ a + h <= Len(file) /\ a + 5 <= Len(file) /\ a + 1 <= Len(file) /\ 1 \in 1 .. h
        BY <1>3, <3>1, <3>2, <3>5
      <4>2. /\ SubSeq(file, a + 1, a + h) \in Seq(Byte) /\ Len(SubSeq(file, a + 1, a + h)) = h
            /\ \A k \in 1 .. h : SubSeq(file, a + 1, a + h)[k] = file[a + k]
        BY SMTT(30), <1>3, <3>2, <4>1, Part
      <4>3. SubSeq(file, a + h + c + 1, a + 5 + c) \in Seq(Byte)
        <5>1. PICK v \in Nat, n \in Nat : v = a + h + c /\ n = 5 - h /\ v + n = a + 5 + c
          BY <4>1
        <5>2. v + n <= Len(file)
          BY <3>1, <3>2, <5>1
        <5>3. SubSeq(file, v + 1, v + n) \in Seq(Byte)
          BY <1>3, <5>2, Part
        <5> QED
          BY <5>1, <5>3
      <4>4. bytes \in Seq(Byte) /\ bytes[1] = file[a + 1]
        BY SMTT(30), <4>1, <4>2, <4>3, Joined
      <4> HIDE DEF bytes
      <4>5. pc' = "error" /\ remaining' = remaining
        <5>1. DOMAIN lengths \subseteq Nat \ {0}
          BY <1>3
        <5>2. bytes[1] = Pad
          BY <1>6, <3>5, <4>1, <4>4
        <5> QED
          BY <2>7, <5>1, <5>2, PadDecoded
      <4>6. FailsOnlyAtBlockEnd'
        BY <1>3, <1>6, <1>7, <2>7, <3>5, <4>1, <4>5
      <4>7. /\ PosCour' \in Nat /\ NumBloc' \in Nat /\ block_end' \in Nat /\ at' \in 0 .. Len(file)
            /\ UNCHANGED <<attributes, file, lengths, remaining, delivered>>
            /\ Buffer' \in Seq(Byte)
        BY <1>1, <2>7, <3>3, <4>4, <4>5
      <4> QED
        BY <1>1, <4>5, <4>6, <4>7, FailedInv
    <3> QED
      BY <1>3, <3>4, <3>5
  <2> HIDE DEF bytes
  <2> QED
    BY <2>2, <2>5, <2>6, <2>7
<1> QED
  BY <1>1, <1>10, <1>11

-----------------------------------------------------------------------------
(* ReadRest *)

\* Behind byte p are n bytes of record r, those that follow its byte k.
Run(f, r, k, n, p) == p + n <= Len(f) /\ \A j \in 1 .. n : f[p + j] = <<r, k + j, 0>>

\* The first k bytes of record r, and part of the file.
More(f, r, k, first, last) == Bytes(r, 1, k) \o SubSeq(f, first, last)

LEMMA MoreBytes ==
    ASSUME NEW f \in Seq(Byte), NEW r \in Nat, NEW k \in Nat, NEW n \in Nat, NEW p \in Nat,
           Run(f, r, k, n, p), NEW first, first = p + 1, NEW last, last = p + n, NEW l, l = k + n
    PROVE  More(f, r, k, first, last) = Bytes(r, 1, l)
<1> DEFINE s == Bytes(r, 1, k)
           t == SubSeq(f, p + 1, p + n)
           u == Bytes(r, 1, k + n)
<1>1. s \in Seq(Byte) /\ Len(s) = k /\ \A j \in 1 .. k : s[j] = <<r, j, 0>>
  BY FirstBytes
<1>2. t \in Seq(Byte) /\ Len(t) = n /\ \A j \in 1 .. n : t[j] = <<r, k + j, 0>>
  <2>1. t \in Seq(Byte) /\ Len(t) = n /\ \A j \in 1 .. n : t[j] = f[p + j]
    BY Part DEF Run
  <2> QED
    BY <2>1 DEF Run
<1>3. u \in Seq(Byte) /\ Len(u) = k + n /\ \A j \in 1 .. k + n : u[j] = <<r, j, 0>>
  <2>1. k + n \in Nat
    OBVIOUS
  <2> QED
    BY <2>1, FirstBytes
<1> HIDE DEF s, t, u
<1>4. /\ s \o t \in Seq(Byte) /\ Len(s \o t) = k + n
      /\ \A i \in 1 .. k : (s \o t)[i] = s[i]
      /\ \A i \in 1 .. n : (s \o t)[k + i] = t[i]
  <2>1. /\ s \o t \in Seq(Byte) /\ Len(s \o t) = Len(s) + Len(t)
        /\ \A i \in 1 .. Len(s) : (s \o t)[i] = s[i]
        /\ \A i \in 1 .. Len(t) : (s \o t)[Len(s) + i] = t[i]
    <3>1. s \in Seq(Byte) /\ t \in Seq(Byte)
      BY <1>1, <1>2
    <3> QED
      BY <3>1, Joined
  <2> QED
    BY <1>1, <1>2, <2>1
<1>5. ASSUME NEW j \in 1 .. k + n PROVE (s \o t)[j] = u[j]
  <2>1. u[j] = <<r, j, 0>>
    BY <1>3
  <2>2. CASE j <= k
    <3>1. j \in 1 .. k
      BY <2>2
    <3> QED
      BY <1>1, <1>4, <2>1, <3>1
  <2>3. CASE j > k
    <3>1. j - k \in 1 .. n /\ k + (j - k) = j
      BY <2>3
    <3>2. (s \o t)[k + (j - k)] = t[j - k]
      BY <1>4, <3>1
    <3>3. t[j - k] = <<r, k + (j - k), 0>>
      BY <1>2, <3>1
    <3> QED
      BY <2>1, <3>1, <3>2, <3>3
  <2>4. j <= k \/ j > k
    OBVIOUS
  <2> QED
    BY <2>2, <2>3, <2>4
<1>6. s \o t = u
  <2>1. Len(s \o t) = Len(u) /\ \A j \in 1 .. Len(s \o t) : (s \o t)[j] = u[j]
    BY <1>3, <1>4, <1>5
  <2> QED
    BY <1>3, <1>4, <2>1, SameSequence
<1> QED
  BY <1>6 DEF s, t, u, More

LEMMA OneMore ==
    ASSUME NEW S, NEW s \in Seq(S), NEW x \in S
    PROVE  /\ Append(s, x) \in Seq(S) /\ Len(Append(s, x)) = Len(s) + 1
           /\ \A j \in 1 .. Len(s) : Append(s, x)[j] = s[j]
           /\ Append(s, x)[Len(s) + 1] = x
OBVIOUS

LEMMA ReadRestInv ==
    ASSUME Inv, ReadRest
    PROVE  Inv'
<1>1. pc = "rest" /\ UNCHANGED <<attributes, file, lengths>>
  BY DEF ReadRest
<1>2. PICK a, N, r, m, k, z, e :
          /\ a = at /\ N = Len(lengths) /\ r = Came + 1 /\ m = remaining /\ k = lengths[r] - m
          /\ z = ScwAhead /\ e = block_end
  OBVIOUS
<1>3. /\ r \in 1 .. N /\ N \in Nat /\ DOMAIN lengths = 1 .. N /\ Came = r - 1
      /\ a \in 0 .. Len(file) /\ Len(file) \in Nat /\ file \in Seq(Byte)
      /\ lengths[r] \in Nat /\ m \in 1 .. lengths[r] - 5 /\ k \in 5 .. lengths[r] - 1
      /\ m = lengths[r] - k
      /\ Buffer = Bytes(r, 1, k) /\ Ahead(r, k + 1, a) /\ PosCour = a
      /\ BlockSize \in Nat /\ BlockSize > 10
      /\ EndOf(a) \in Nat /\ a < EndOf(a)
      /\ \/ e = EndOf(a)
         \/ AtBlock(a) /\ e = a /\ (segmented => Hard(RoomAt(r)))
  <2>1. /\ Came < Len(lengths) /\ m \in 1 .. lengths[r] - 5 /\ Buffer = Bytes(r, 1, k)
        /\ Ahead(r, k + 1, a) /\ PosCour = a
        /\ \/ e = EndOf(a)
           \/ AtBlock(a) /\ e = a /\ (segmented => Hard(RoomAt(r)))
    BY <1>1, <1>2 DEF Inv, ReaderInv
  <2>2. Came \in Nat /\ a \in 0 .. Len(file) /\ file \in Seq(Byte)
    BY <1>2 DEF Inv, Types, TypeOK, Came
  <2>3. DOMAIN lengths = 1 .. N /\ N \in Nat /\ Len(file) \in Nat /\ BlockSize \in Nat /\ BlockSize > 10
        /\ \A j \in DOMAIN lengths : lengths[j] \in Nat
    BY <1>2, LengthsAre DEF Inv
  <2>4. r \in 1 .. N /\ Came = r - 1
    BY <1>2, <2>1, <2>2, <2>3
  <2>5. lengths[r] \in Nat
    BY <2>3, <2>4
  <2>6. k \in 5 .. lengths[r] - 1 /\ m = lengths[r] - k
    BY SMTT(30), <1>2, <2>1, <2>5
  <2>7. EndOf(a) \in Nat /\ a < EndOf(a)
    BY <2>2, <2>3, BlockEnds
  <2> QED
    BY <2>1, <2>2, <2>3, <2>4, <2>5, <2>6, <2>7
<1>4. z = IF segmented /\ AtBlock(a) THEN 5 ELSE 0
  <2>1. a % BlockSize = BlockSize - (EndOf(a) - a)
    BY <1>3, Remainder
  <2>2. (a % BlockSize = 0) <=> AtBlock(a)
    <3>1. PICK v, b, c : v = a % BlockSize /\ b = EndOf(a) /\ c = BlockSize
      OBVIOUS
    <3>2. b \in Int /\ a \in Int /\ c \in Int
      BY <1>3, <3>1
    <3>3. v = c - (b - a)
      BY <2>1, <3>1
    <3>4. v = 0 <=> b = a + c
      BY <3>2, <3>3
    <3> QED
      BY <3>1, <3>4 DEF AtBlock
  <2> QED
    BY <1>2, <1>3, <2>2 DEF ScwAhead, ScwSize
<1>5. PICK p \in Nat : p = a + z
  BY <1>3, <1>4
<1>6. (z > 0 => ScwAt(a)) /\ At(r, k + 1, p + 1) /\ z \in {0, 5} /\ (z = 5 => AtBlock(a))
  <2>1. z = 5 => p + 1 = a + 6
    BY <1>3, <1>5
  <2>2. z = 0 => p + 1 = a + 1
    BY <1>3, <1>5
  <2> QED
    BY SMTT(30), <1>3, <1>4, <2>1, <2>2 DEF Ahead
<1>7. PICK len : len = IF m + p > e THEN e - p ELSE m
  OBVIOUS
<1> DEFINE there == Available(z + len) /\ (z > 0 => IsScw(Next5(0)))
<1>8. \/ /\ len < 0
         /\ Return("overrun")
      \/ /\ len >= 0 /\ there
         /\ at' = a + z + len
         /\ Buffer' = Buffer \o SubSeq(file, a + z + 1, a + z + len)
         /\ MoveTo(p + len)
         /\ remaining' = m - len
         /\ IF remaining' = 0
            THEN delivered' = Append(delivered, Buffer') /\ pc' = "read"
            ELSE UNCHANGED delivered /\ pc' = "rest"
      \/ /\ len >= 0 /\ ~there
         /\ Return("error")
  BY <1>2, <1>3, <1>5, <1>7 DEF ReadRest, Done
<1>9. z > 0 => IsScw(Next5(0))
  <2> SUFFICES ASSUME z > 0 PROVE IsScw(Next5(0))
    OBVIOUS
  <2>1. Next5(0) = SubSeq(file, a + 1, a + 5) /\ a \in Nat
    BY <1>2, <1>3 DEF Next5
  <2> QED
    BY <1>3, <1>6, <2>1, ScwRead
<1>10. /\ segmented' = segmented /\ minDataFree' = minDataFree /\ lastBlock' = lastBlock
       /\ file' = file /\ lengths' = lengths /\ Sent' = Sent
  BY <1>1 DEF attributes, Sent
<1>11. \A j \in 1 .. r - 1 : delivered[j] = Sent[j]
  BY <1>3 DEF Inv, ReaderInv, Came
<1>12. delivered \in Seq(Seq(Byte)) /\ Len(delivered) = r - 1
  BY <1>3 DEF Inv, Types, Came
\* The block_end that belongs to PosCour.
<1>13. CASE e = EndOf(a)
  <2>1. p < e /\ EndOf(p) = e /\ e \in Nat
    <3>1. p < e
      BY SMTT(30), <1>3, <1>5, <1>6, <1>13 DEF AtBlock
    <3>2. a \in Nat /\ a <= p /\ p < EndOf(a)
      BY <1>3, <1>5, <1>6, <1>13, <3>1
    <3> QED
      BY <1>3, <1>13, <3>1, <3>2, SameBlock
  <2>2. /\ len \in 1 .. m /\ p + len <= e /\ len \in Nat
        /\ m \in Nat /\ k + 1 \in 1 .. lengths[r] /\ len \in 1 .. lengths[r] - (k + 1) + 1
    <3>1. len \in 1 .. m /\ p + len <= e /\ m \in Nat
      BY SMTT(30), <1>3, <1>7, <2>1
    <3> QED
      BY SMTT(30), <1>3, <3>1
  <2>3. /\ p + len <= Len(file)
        /\ \A j \in 1 .. len : At(r, k + j, p + j) /\ file[p + j] = <<r, k + j, 0>>
    <3>1. r \in DOMAIN lengths /\ At(r, k + 1, p + 1) /\ p + len <= EndOf(p)
      BY <1>3, <1>6, <2>1, <2>2
    <3>2. /\ p + len <= Len(file)
          /\ \A j \in 1 .. len : At(r, k + 1 + j - 1, p + j) /\ file[p + j] = <<r, k + 1 + j - 1, 0>>
      BY <2>2, <3>1, Contiguous
    <3>3. \A j \in 1 .. len : k + 1 + j - 1 = k + j
      BY <1>3
    <3> QED
      BY <3>2, <3>3
  <2>4. there
    <3>1. a + (z + len) = p + len
      BY <1>3, <1>5, <1>6, <2>2
    <3> QED
      BY <1>2, <1>9, <2>3, <3>1 DEF Available
  <2>5. /\ at' = p + len /\ Buffer' = Bytes(r, 1, k) \o SubSeq(file, p + 1, p + len)
        /\ MoveTo(p + len) /\ remaining' = m - len
        /\ IF remaining' = 0
           THEN delivered' = Append(delivered, Buffer') /\ pc' = "read"
           ELSE UNCHANGED delivered /\ pc' = "rest"
    <3>1. len >= 0 /\ ~(len < 0) /\ a + z = p
      BY <1>5, <2>2
    <3>2. a + z + len = p + len /\ a + z + 1 = p + 1
      BY <3>1
    <3>3. /\ at' = a + z + len
          /\ Buffer' = Buffer \o SubSeq(file, a + z + 1, a + z + len)
          /\ MoveTo(p + len) /\ remaining' = m - len
          /\ IF remaining' = 0
             THEN delivered' = Append(delivered, Buffer') /\ pc' = "read"
             ELSE UNCHANGED delivered /\ pc' = "rest"
      BY <1>8, <2>4, <3>1
    <3> QED
      BY <1>3, <3>2, <3>3
  <2>6. PICK q \in Nat : q = p + len
    BY <2>2
  <2>7. PICK l \in Nat : l = k + len
    BY <1>3, <2>2
  <2>8. /\ at' = q /\ PosCour' = q /\ block_end' = EndOf(q) /\ NumBloc' \in Nat /\ block_end' \in Nat
        /\ q \in 0 .. Len(file) /\ At(r, l, q)
    <3>1. MoveTo(q) /\ BlockSize > 0 /\ at' = q
      BY <1>3, <2>5, <2>6
    <3>2. len \in 1 .. len /\ q <= Len(file)
      BY <2>2, <2>3, <2>6
    <3>3. At(r, l, q)
      BY <2>3, <2>6, <2>7, <3>2
    <3> QED
      BY <1>3, <3>1, <3>2, <3>3, Moved
  <2>9. Buffer' = Bytes(r, 1, l) /\ Buffer' \in Seq(Byte)
    <3>1. r \in Nat /\ k \in Nat /\ len \in Nat
      BY <1>3, <2>2
    <3>2. Bytes(r, 1, k) \o SubSeq(file, p + 1, p + len) = Bytes(r, 1, k + len)
      <4>1. file \in Seq(Byte) /\ p + len <= Len(file)
        BY <1>3, <2>3
      <4>2. \A j \in 1 .. len : file[p + j] = <<r, k + j, 0>>
        BY <2>3
      <4>3. PICK first, last, w : first = p + 1 /\ last = p + len /\ w = k + len
        OBVIOUS
      <4>4. More(file, r, k, first, last) = Bytes(r, 1, w)
        <5>1. Run(file, r, k, len, p)
          BY <4>1, <4>2 DEF Run
        <5> QED
          BY <3>1, <4>1, <4>3, <5>1, MoreBytes
      <4> QED
        BY <4>3, <4>4 DEF More
    <3> QED
      BY ZenonT(60), <2>5, <2>7, <3>1, <3>2, FirstBytes
  <2>10. l \in 1 .. lengths[r] /\ remaining' = lengths[r] - l /\ (remaining' = 0 <=> l = lengths[r])
         /\ remaining' \in Nat /\ l >= 5
    <3>1. PICK w : w = lengths[r]
      OBVIOUS
    <3>2. w \in Nat /\ m = w - k /\ k \in 5 .. w - 1 /\ len \in 1 .. m /\ l = k + len
      BY <1>3, <2>2, <2>7, <3>1
    <3>3. PICK left : left = m - len
      OBVIOUS
    <3>4. l \in 1 .. w /\ left = w - l /\ (left = 0 <=> l = w) /\ left \in Nat /\ l >= 5
      BY <3>2, <3>3
    <3> QED
      BY <2>5, <3>1, <3>3, <3>4
  <2>11. CASE remaining' = 0
    <3>1. delivered' = Append(delivered, Buffer') /\ pc' = "read" /\ Buffer' = Bytes(r, 1, lengths[r])
      BY <2>5, <2>9, <2>10, <2>11
    <3>2. /\ delivered' \in Seq(Seq(Byte)) /\ Len(delivered') = r
          /\ \A j \in 1 .. r - 1 : delivered'[j] = delivered[j]
          /\ delivered'[r] = Buffer'
      <4>1. r - 1 + 1 = r /\ r - 1 \in Nat
        BY <1>3
      <4> QED
        BY <1>12, <2>9, <3>1, <4>1, OneMore
    <3>3. Sent[r] = Bytes(r, 1, lengths[r])
      BY <1>3 DEF Sent
    <3>4. \A j \in 1 .. r : delivered'[j] = Sent'[j]
      BY SMTT(30), <1>3, <1>10, <1>11, <3>1, <3>2, <3>3
    <3>5. Came' = r
      BY <3>2 DEF Came
    <3>6. EndsAt(r, q)'
      BY <1>3, <1>10, <2>8, <2>10, <2>11 DEF EndsAt, At
    <3>7. r <= Len(lengths')
      BY <1>2, <1>3, <1>10
    <3>8. ReaderInv'
      BY <2>8, <3>1, <3>4, <3>5, <3>6, <3>7 DEF ReaderInv, FailsOnlyAtBlockEnd
    <3>9. Types'
      <4>1. Len(delivered') <= Len(lengths) /\ PosCour' \in Nat
        BY <1>10, <2>8, <3>2, <3>7
      <4> QED
        BY <1>1, <2>8, <2>9, <2>10, <3>1, <3>2, <4>1, ReadingTypes DEF Inv
    <3> QED
      BY <1>1, <3>1, <3>8, <3>9, FileKept DEF Inv
  <2>12. CASE remaining' # 0
    <3>1. delivered' = delivered /\ pc' = "rest" /\ Came' = Came
      BY <2>5, <2>12 DEF Came
    <3>2. l \in 1 .. lengths[r] - 1 /\ r \in DOMAIN lengths
      BY SMTT(30), <1>3, <2>10, <2>12
    <3>3. Ahead(r, l + 1, q)
      BY <1>1, <2>8, <3>2, WhatIsAhead
    <3>4. Ahead(r, l + 1, q)'
      BY <1>10, <3>3 DEF Ahead, At, ScwAt
    <3>5. /\ Came' + 1 = r /\ lengths'[Came' + 1] - remaining' = l
          /\ Came' < Len(lengths') /\ Came' <= Len(lengths')
          /\ remaining' \in 1 .. lengths'[Came' + 1] - 5
      <4>1. PICK w, left : w = lengths[r] /\ left = remaining'
        OBVIOUS
      <4>2. l \in 1 .. w /\ left = w - l /\ left \in Nat /\ left # 0 /\ l >= 5 /\ w \in Nat
        BY <1>3, <2>10, <2>12, <4>1
      <4>3. w - left = l /\ left \in 1 .. w - 5
        BY <4>2
      <4>4. Came' = r - 1 /\ r \in 1 .. N /\ N \in Nat /\ Len(lengths') = N /\ lengths' = lengths
        BY <1>2, <1>3, <1>10, <3>1
      <4>5. Came' + 1 = r /\ Came' < N /\ Came' <= N
        <5>1. PICK c : c = Came'
          OBVIOUS
        <5>2. c + 1 = r /\ c < N /\ c <= N
          BY <4>4, <5>1
        <5> QED
          BY <5>1, <5>2
      <4> QED
        BY <4>1, <4>3, <4>4, <4>5
    <3>6. ReaderInv'
      <4>1. \A j \in 1 .. Came' : delivered'[j] = Sent'[j]
        BY <1>3, <1>10, <1>11, <3>1
      <4>2. Ahead(Came + 1, lengths[Came + 1] - remaining + 1, at)'
        BY <2>8, <3>4, <3>5
      <4>3. Buffer' = Bytes(Came' + 1, 1, lengths'[Came' + 1] - remaining')
        BY <2>9, <3>5
      <4> QED
        BY <2>8, <3>1, <3>5, <4>1, <4>2, <4>3 DEF ReaderInv, FailsOnlyAtBlockEnd
    <3>7. Types'
      <4>1. Len(delivered') <= Len(lengths) /\ PosCour' \in Nat
        BY <1>10, <2>8, <3>1 DEF Inv, Types, TypeOK
      <4> QED
        BY <1>1, <1>12, <2>8, <2>9, <2>10, <3>1, <4>1, ReadingTypes DEF Inv
    <3> QED
      BY <1>1, <3>1, <3>6, <3>7, FileKept DEF Inv
  <2> QED
    BY <2>11, <2>12
\* That of the block before.
<1>14. CASE AtBlock(a) /\ e = a /\ (segmented => Hard(RoomAt(r)))
  <2>1. CASE segmented
    <3>1. len < 0
      <4>1. z = 5 /\ p = a + 5 /\ m \in Nat
        BY <1>3, <1>4, <1>5, <1>14, <2>1
      <4> QED
        BY <1>3, <1>7, <1>14, <4>1
    <3>2. pc' = "overrun" /\ UNCHANGED <<position, remaining, reader>>
      <4>1. ~(len >= 0)
        <5>1. len \in Int
          BY <1>3, <1>7, <1>14
        <5> QED
          BY <3>1, <5>1
      <4> QED
        BY <1>8, <4>1 DEF Return
    <3>3. FailsOnlyAtBlockEnd'
      <4>1. Len(delivered') = r - 1 /\ Len(delivered') + 1 = r /\ Len(delivered') < Len(lengths')
        <5>1. Len(delivered') = r - 1 /\ Len(lengths') = N
          BY <1>2, <1>10, <1>12, <3>2 DEF reader
        <5>2. r - 1 + 1 = r /\ r - 1 < N
          BY <1>3
        <5> QED
          BY <5>1, <5>2
      <4>2. Hard(RoomAt(r))'
        BY <1>10, <1>14, <2>1 DEF Hard, RoomAt
      <4> QED
        BY <3>2, <4>1, <4>2 DEF FailsOnlyAtBlockEnd, RoomAt, Hard
    <3> QED
      BY <1>1, <3>2, <3>3, StoppedInv
  <2>2. CASE ~segmented
    <3>1. z = 0 /\ p = a /\ m \in Nat /\ m # 0 /\ len = 0
      <4>1. z = 0 /\ p = a /\ m \in Nat /\ m # 0
        BY <1>3, <1>4, <1>5, <2>2
      <4> QED
        BY <1>3, <1>7, <1>14, <4>1
    <3>2. there
      BY <1>2, <1>3, <3>1 DEF Available
    <3>3. at' = a /\ MoveTo(a) /\ remaining' = m /\ delivered' = delivered /\ pc' = "rest"
          /\ Buffer' = Buffer \o SubSeq(file, a + 1, a + 0)
      BY <1>3, <1>8, <3>1, <3>2
    <3>4. Buffer' = Bytes(r, 1, k) /\ Buffer' \in Seq(Byte)
      <4>1. r \in Nat /\ k \in Nat /\ 0 \in Nat /\ k + 0 = k /\ a \in Nat /\ a + 0 <= Len(file)
            /\ \A j \in 1 .. 0 : file[a + j] = <<r, k + j, 0>>
        BY <1>3
      <4>2. Bytes(r, 1, k) \o SubSeq(file, a + 1, a + 0) = Bytes(r, 1, k + 0)
        <5>1. file \in Seq(Byte)
          BY <1>3
        <5>2. PICK first, last, w : first = a + 1 /\ last = a + 0 /\ w = k + 0
          OBVIOUS
        <5>3. More(file, r, k, first, last) = Bytes(r, 1, w)
          <6>1. Run(file, r, k, 0, a)
            BY <4>1 DEF Run
          <6> QED
            BY <4>1, <5>1, <5>2, <6>1, MoreBytes
        <5> QED
          BY <5>2, <5>3 DEF More
      <4>3. Bytes(r, 1, k) \in Seq(Byte)
        BY <4>1, FirstBytes
      <4>4. Buffer = Bytes(r, 1, k)
        BY <1>3
      <4>5. Buffer' = Bytes(r, 1, k + 0)
        BY <3>3, <4>2, <4>4
      <4> QED
        BY <4>1, <4>3, <4>5
    <3>5. PosCour' = a /\ block_end' = EndOf(a) /\ NumBloc' \in Nat /\ block_end' \in Nat
      <4>1. a \in Nat /\ BlockSize > 0
        BY <1>3
      <4> QED
        BY <3>3, <4>1, Moved
    <3>6. ReaderInv'
      <4>1. \A j \in 1 .. Came' : delivered'[j] = Sent'[j]
        BY <1>3, <1>10, <1>11, <3>3 DEF Came
      <4>2. /\ Came' + 1 = r /\ lengths'[Came' + 1] - remaining' = k
            /\ Came' < Len(lengths') /\ Came' <= Len(lengths')
            /\ remaining' \in 1 .. lengths'[Came' + 1] - 5
        <5>1. Came' = r - 1 /\ r \in 1 .. N /\ N \in Nat /\ Len(lengths') = N /\ lengths' = lengths
          BY <1>2, <1>3, <1>10, <3>3 DEF Came
        <5>2. Came' + 1 = r /\ Came' < N /\ Came' <= N
          <6>1. PICK c : c = Came'
            OBVIOUS
          <6>2. c + 1 = r /\ c < N /\ c <= N
            BY <5>1, <6>1
          <6> QED
            BY <6>1, <6>2
        <5>3. PICK w : w = lengths[r]
          OBVIOUS
        <5>4. w \in Nat /\ m = w - k /\ k \in 5 .. w - 1 /\ m \in 1 .. w - 5
          BY <1>3, <5>3
        <5>5. w - m = k
          BY <5>4
        <5> QED
          BY <3>3, <5>1, <5>2, <5>3, <5>4, <5>5
      <4>3. Ahead(r, k + 1, a)'
        BY <1>3, <1>10 DEF Ahead, At, ScwAt
      <4>4. Ahead(Came + 1, lengths[Came + 1] - remaining + 1, at)'
        BY <3>3, <4>2, <4>3
      <4>5. Buffer' = Bytes(Came' + 1, 1, lengths'[Came' + 1] - remaining')
        BY <3>4, <4>2
      <4> QED
        BY <3>3, <3>5, <4>1, <4>2, <4>4, <4>5 DEF ReaderInv, FailsOnlyAtBlockEnd
    <3>7. Types'
      <4>1. Len(delivered') <= Len(lengths) /\ PosCour' \in Nat /\ remaining' \in Nat /\ at' \in 0 .. Len(file)
        BY <1>3, <3>1, <3>3, <3>5 DEF Inv, Types, TypeOK
      <4> QED
        BY <1>1, <1>12, <3>3, <3>4, <3>5, <4>1, ReadingTypes DEF Inv
    <3> QED
      BY <1>1, <3>3, <3>6, <3>7, FileKept DEF Inv
  <2> QED
    BY <2>1, <2>2
<1> QED
  BY <1>3, <1>13, <1>14

-----------------------------------------------------------------------------
(* Every step *)

LEMMA NextInv ==
    ASSUME Inv, [Next]_vars
    PROVE  Inv'
<1>1. CASE \E n \in Lengths : Write(n)
  BY <1>1, WriteInv
<1>2. CASE WritePiece
  BY <1>2, PieceInv
<1>3. CASE Close
  BY <1>3, CloseInv
<1>4. CASE Read
  BY <1>4, SkipInv, ReadScwInv, ReadLengthInv, ReadRestInv DEF Read
<1>5. CASE UNCHANGED vars
  <2>1. /\ UNCHANGED <<segmented, minDataFree, lastBlock, file, lengths, PosCour, NumBloc, block_end>>
        /\ UNCHANGED <<remaining, at, Buffer, delivered, pc>>
    BY <1>5 DEF vars, attributes, position, reader
  <2>2. Types'
    BY <2>1 DEF Inv, Types, TypeOK
  <2>3. Layout'
    <3>1. Written' = Written
      BY <2>1 DEF Written
    <3>2. Known' /\ Whole' /\ Once'
      BY <2>1, <3>1 DEF Inv, Layout, Known, Whole, Once, At
    <3>3. GoesOn'
      BY SMTT(30), <2>1, <3>1 DEF Inv, Layout, GoesOn, At, ScwAt
    <3>4. Follows'
      <4>1. \A r, q : EndsAt(r, q)' <=> EndsAt(r, q)
        BY <2>1 DEF EndsAt, At
      <4>2. \A q : Start(q)' = Start(q)
        BY <2>1 DEF Start
      <4>3. \A r, q : Begins(r, q)' <=> Begins(r, q)
        BY <2>1 DEF Begins, At, ScwAt
      <4>4. \A r \in 0 .. Len(lengths) - 1 : \A q \in 0 .. Len(file) :
               EndsAt(r, q) =>
                   \/ Begins(r + 1, Start(q))
                   \/ pc = "piece" /\ r + 1 = Len(lengths) /\ Written = 0 /\ Len(file) = Start(q)
        BY DEF Inv, Layout, Follows
      <4>5. \A r \in 0 .. Len(lengths') - 1 : \A q \in 0 .. Len(file') :
               EndsAt(r, q)' =>
                   \/ Begins(r + 1, Start(q))'
                   \/ pc' = "piece" /\ r + 1 = Len(lengths') /\ Written' = 0 /\ Len(file') = Start(q)'
        <5> SUFFICES ASSUME NEW r \in 0 .. Len(lengths) - 1, NEW q \in 0 .. Len(file), EndsAt(r, q)
                     PROVE  \/ Begins(r + 1, Start(q))'
                            \/ pc = "piece" /\ r + 1 = Len(lengths) /\ Written = 0 /\ Len(file) = Start(q)
          BY <2>1, <3>1, <4>1, <4>2
        <5>1. PICK t : t = Start(q)
          OBVIOUS
        <5>2. t = Start(q)'
          BY <4>2, <5>1
        <5>3. Begins(r + 1, t)' <=> Begins(r + 1, t)
          BY <4>3
        <5>4. \/ Begins(r + 1, t)
              \/ pc = "piece" /\ r + 1 = Len(lengths) /\ Written = 0 /\ Len(file) = Start(q)
          BY <4>4, <5>1
        <5> QED
          BY <5>2, <5>3, <5>4
      <4> QED
        BY <4>5 DEF Follows
    <3>5. LastOfAll'
      BY <2>1 DEF Inv, Layout, LastOfAll, Behind, EndsAt, At
    <3> QED
      BY <3>2, <3>3, <3>4, <3>5 DEF Layout
  <2>4. WriterInv'
    BY <2>1 DEF Inv, WriterInv, EndsAt, Written, At
  <2>5. ReaderInv'
    BY <2>1 DEF Inv, ReaderInv, Came, Sent, EndsAt, Begins, Behind, Ahead, At, ScwAt, Hard, RoomAt,
                FailsOnlyAtBlockEnd
  <2> QED
    BY <2>2, <2>3, <2>4, <2>5 DEF Inv, Layout
<1> QED
  BY <1>1, <1>2, <1>3, <1>4, <1>5 DEF Next

LEMMA InvAlways == Spec => []Inv
  BY InitInv, NextInv, PTL DEF Spec

\* The lengths kept are lengths of records, the file is never read past its end,
\* and no more records come than were written (marcfile.cpp).
THEOREM TypeCorrect == Spec => []TypeOK
<1>1. Inv => TypeOK
  BY DEF Inv, Types
<1> QED
  BY <1>1, InvAlways, PTL

\* Reading fails only at a record that begins with an awkward number of bytes left
\* in its block, or behind the last record of a file without segments: where
\* TMarcFile::Read takes "too little room" for less, or more, than Write did.
THEOREM FailsAtBlockEnds == Spec => []FailsOnlyAtBlockEnd
<1>1. Inv => FailsOnlyAtBlockEnd
  BY DEF Inv, ReaderInv
<1> QED
  BY <1>1, InvAlways, PTL

-----------------------------------------------------------------------------
(* A file of records *)

LEMMA SentIs ==
    ASSUME Types
    PROVE  DOMAIN Sent = 1 .. Len(lengths) /\ Len(Sent) = Len(lengths) /\ Sent \in Seq(Seq(Byte))
<1>1. DOMAIN lengths = 1 .. Len(lengths) /\ Len(lengths) \in Nat /\ \A r \in DOMAIN lengths : lengths[r] \in Nat
  BY LengthsAre
<1>2. \A r \in DOMAIN lengths : Bytes(r, 1, lengths[r]) \in Seq(Byte)
  BY <1>1, FirstBytes
<1>3. Sent \in [1 .. Len(lengths) -> Seq(Byte)]
  BY <1>1, <1>2 DEF Sent
<1>4. Sent \in Seq(Seq(Byte)) /\ DOMAIN Sent = 1 .. Len(lengths)
  BY <1>1, <1>3
<1> QED
  BY <1>1, <1>4

LEMMA WriteIsSend ==
    ASSUME Inv, NEW n \in Lengths, Write(n)
    PROVE  \E b \in {Bytes(r, 1, l) : r \in 1 .. MaxRecords, l \in Lengths} : Abstract!Send(b)
<1>1. PICK N : N = Len(lengths)
  OBVIOUS
<1>2. /\ pc = "write" /\ pc' = "piece" /\ lengths' = Append(lengths, n) /\ delivered' = delivered
      /\ N < MaxRecords
  BY <1>1 DEF Write, reader
<1>3. lengths \in Seq(Lengths) /\ N \in Nat /\ MaxRecords \in Nat
  BY <1>1, BoundAssumption DEF Inv, Types, TypeOK
<1>4. N + 1 \in 1 .. MaxRecords
  BY <1>2, <1>3
<1>5. Sent' = Append(Sent, Bytes(N + 1, 1, n))
  <2>1. /\ lengths' \in Seq(Lengths) /\ Len(lengths') = N + 1
        /\ \A j \in 1 .. N : lengths'[j] = lengths[j]
        /\ lengths'[N + 1] = n
    BY <1>1, <1>2, <1>3, OneMore
  <2>2. DOMAIN lengths' = 1 .. N + 1
    BY <1>3, <2>1
  <2>3. Sent' = [r \in 1 .. N + 1 |-> Bytes(r, 1, lengths'[r])]
    BY <2>2 DEF Sent
  <2>4. /\ Sent \in Seq(Seq(Byte)) /\ Len(Sent) = N /\ DOMAIN Sent = 1 .. N
    BY <1>1, SentIs DEF Inv
  <2>5. \A r \in 1 .. N : Sent[r] = Bytes(r, 1, lengths[r])
    BY <2>4 DEF Sent
  <2>6. PICK b : b = Bytes(N + 1, 1, n)
    OBVIOUS
  <2>7. b \in Seq(Byte)
    <3>1. N + 1 \in Nat /\ n \in Nat
      BY <1>3, LengthAssumption
    <3> QED
      BY <2>6, <3>1, FirstBytes
  <2>8. PICK s : s = Append(Sent, b)
    OBVIOUS
  <2>9. /\ s \in Seq(Seq(Byte)) /\ Len(s) = N + 1
        /\ \A j \in 1 .. N : s[j] = Sent[j]
        /\ s[N + 1] = b
    BY <2>4, <2>7, <2>8, OneMore
  <2>10. \A r \in 1 .. N + 1 : s[r] = Bytes(r, 1, lengths'[r])
    <3> SUFFICES ASSUME NEW r \in 1 .. N + 1 PROVE s[r] = Bytes(r, 1, lengths'[r])
      OBVIOUS
    <3>1. CASE r = N + 1
      BY <2>1, <2>6, <2>9, <3>1
    <3>2. CASE r \in 1 .. N
      BY <2>1, <2>5, <2>9, <3>2
    <3>3. r = N + 1 \/ r \in 1 .. N
      BY <1>3
    <3> QED
      BY <3>1, <3>2, <3>3
  <2>11. s = [r \in 1 .. N + 1 |-> s[r]]
    BY <1>3, <2>9
  <2>12. s = Sent'
    BY <2>3, <2>10, <2>11
  <2> QED
    BY <2>6, <2>8, <2>12
<1>6. Phase = "writing" /\ Phase' = "writing"
  BY <1>2 DEF Phase
<1>7. Abstract!Send(Bytes(N + 1, 1, n))
  BY <1>2, <1>5, <1>6 DEF Abstract!Send
<1> QED
  BY <1>4, <1>7

\* What a reading step does to the records and the phase.
LEMMA ReadingSteps ==
    ASSUME Inv, Inv', Read
    PROVE  [Abstract!Next]_<<Sent, delivered, Phase>>
<1>1. /\ pc \in {"read", "scw", "length", "rest"} /\ UNCHANGED <<attributes, file, lengths>>
      /\ \/ pc' = "end" /\ delivered' = delivered
         \/ pc' \in {"error", "overrun"} /\ delivered' = delivered
         \/ pc' \in {"scw", "length", "rest"} /\ delivered' = delivered
         \/ pc' = "read" /\ delivered' = Append(delivered, Buffer')
  <2>1. CASE Skip
    BY <2>1 DEF Skip, Return, reader
  <2>2. CASE ReadScw
    BY <2>2 DEF ReadScw, Return, reader
  <2>3. CASE ReadLength
    BY <2>3 DEF ReadLength, ReadLengthHere, ReadLengthAcross, Decoded, Return, reader
  <2>4. CASE ReadRest
    BY <2>4 DEF ReadRest, Return, reader
  <2> QED
    BY <2>1, <2>2, <2>3, <2>4 DEF Read
<1>2. Phase = "reading" /\ Sent' = Sent /\ lengths' = lengths
  BY <1>1 DEF Phase, Sent
<1>3. /\ delivered \in Seq(Seq(Byte)) /\ Sent \in Seq(Seq(Byte)) /\ Len(Sent) = Len(lengths)
      /\ \A r \in 1 .. Len(delivered) : delivered[r] = Sent[r]
  BY SentIs DEF Inv, Types, ReaderInv, Came
<1>4. CASE pc' = "end" /\ delivered' = delivered
  <2>1. Len(delivered) = Len(lengths)
    BY <1>2, <1>4 DEF Inv, ReaderInv, Came
  <2>2. delivered = Sent
    BY <1>3, <2>1, SameSequence
  <2>3. Phase' = "end"
    BY <1>4 DEF Phase
  <2> QED
    BY <1>2, <1>4, <2>2, <2>3 DEF Abstract!Next, Abstract!End
<1>5. CASE pc' \in {"error", "overrun"} /\ delivered' = delivered
  <2>1. Phase' = "failed"
    BY <1>5 DEF Phase
  <2> QED
    BY <1>2, <1>5, <2>1 DEF Abstract!Next, Abstract!Fail
<1>6. CASE pc' \in {"scw", "length", "rest"} /\ delivered' = delivered
  <2>1. Phase' = "reading"
    BY <1>6 DEF Phase
  <2> QED
    BY <1>2, <1>6, <2>1
<1>7. CASE pc' = "read" /\ delivered' = Append(delivered, Buffer')
  <2>1. PICK c : c = Len(delivered)
    OBVIOUS
  <2>2. Phase' = "reading" /\ Buffer' \in Seq(Byte) /\ c \in Nat
    BY <1>3, <1>7, <2>1 DEF Phase, Inv, Types
  <2>3. Len(delivered') = c + 1 /\ delivered'[c + 1] = Buffer'
    BY <1>3, <1>7, <2>1, <2>2, OneMore
  <2>4. /\ Len(delivered') <= Len(lengths')
        /\ \A r \in 1 .. Len(delivered') : delivered'[r] = Sent'[r]
    BY DEF Inv, ReaderInv, Came
  <2>5. Len(lengths) \in Nat
    BY LengthsAre DEF Inv
  <2>6. c < Len(Sent) /\ Buffer' = Sent[c + 1]
    BY <1>2, <1>3, <2>2, <2>3, <2>4, <2>5
  <2> QED
    BY <1>2, <1>7, <2>1, <2>2, <2>6 DEF Abstract!Next, Abstract!Receive
<1> QED
  BY <1>1, <1>4, <1>5, <1>6, <1>7

\* What TMarcFile::Write has put in a file, TMarcFile::Read gives back: the same
\* records in the same order, all of them before the end of the file is reported.
THEOREM RecordsComeBack == Spec => IsRecordFile
<1>1. Init => Abstract!Init
  <2> SUFFICES ASSUME Init PROVE Abstract!Init
    OBVIOUS
  <2>1. DOMAIN lengths = {}
    BY DEF Init
  <2>2. Sent = <<>>
    BY <2>1 DEF Sent
  <2> QED
    BY <2>2 DEF Init, Phase, Abstract!Init
<1>2. Inv /\ Inv' /\ [Next]_vars => [Abstract!Next]_<<Sent, delivered, Phase>>
  <2> SUFFICES ASSUME Inv, Inv', [Next]_vars PROVE [Abstract!Next]_<<Sent, delivered, Phase>>
    OBVIOUS
  <2>1. CASE \E n \in Lengths : Write(n)
    BY <2>1, WriteIsSend DEF Abstract!Next
  <2>2. CASE WritePiece
    <3>1. UNCHANGED <<lengths, delivered>> /\ pc = "piece" /\ pc' \in {"write", "piece"}
      BY <2>2 DEF WritePiece, reader
    <3>2. Sent' = Sent /\ Phase' = Phase
      BY <3>1 DEF Sent, Phase
    <3> QED
      BY <3>1, <3>2
  <2>3. CASE Close
    <3>1. UNCHANGED <<lengths, delivered>> /\ pc = "write" /\ pc' = "read"
      BY <2>3 DEF Close, reader
    <3>2. Sent' = Sent /\ Phase = "writing" /\ Phase' = "reading"
      BY <3>1 DEF Sent, Phase
    <3> QED
      BY <3>1, <3>2 DEF Abstract!Next, Abstract!Close
  <2>4. CASE Read
    BY <2>4, ReadingSteps
  <2>5. CASE UNCHANGED vars
    <3>1. UNCHANGED <<lengths, delivered, pc>>
      BY <2>5 DEF vars, reader
    <3> QED
      BY <3>1 DEF Sent, Phase
  <2> QED
    BY <2>1, <2>2, <2>3, <2>4, <2>5 DEF Next
<1> QED
  BY <1>1, <1>2, InvAlways, PTL DEF Spec, IsRecordFile, Abstract!Spec

-----------------------------------------------------------------------------
(* The SCWs lead through a segmented file *)

\* The SCW that begins with byte i is in front of a piece of record r, its bytes
\* from k on: the length leads past the piece, which is in one block, and the type
\* tells whether the record begins and ends there.
Piece(i, t, n, r, k) ==
    /\ n > 5 /\ i + n - 1 <= Len(file) /\ i + n - 1 <= EndOf(i - 1)
    /\ file[i] = <<0, t, n>>
    /\ At(r, k, i + 5) /\ (t \in {0, 1} <=> k = 1)
    /\ At(r, k + n - 6, i + n - 1) /\ (t \in {0, 3} <=> k + n - 6 = lengths[r])

\* There the file ends, padding begins, or another SCW.
GoesTo(p) ==
    \/ p = Len(file) + 1
    \/ p \in DOMAIN file /\ (file[p] = Pad \/ StartsScw(p))

Leads(i) == \E t, n, k \in Nat : \E r \in DOMAIN lengths : Piece(i, t, n, r, k) /\ GoesTo(i + n)

\* The last byte is never of an SCW: a piece has a byte at least.
Controls == segmented =>
    /\ \A i \in DOMAIN file : StartsScw(i) => Leads(i)
    /\ \A i \in DOMAIN file : AtBlock(i - 1) => file[i] = Pad \/ StartsScw(i)
    /\ \A i \in DOMAIN file : i = Len(file) => file[i] = Pad \/ file[i][1] # 0

\* What the SCWs of a file lead to stays when more is written, if that begins
\* with padding or an SCW.
LEMMA LeadsStay ==
    ASSUME Types, segmented, Controls, NEW more \in Seq(Byte), file' = file \o more,
           \A r \in DOMAIN lengths : r \in DOMAIN lengths' /\ lengths'[r] = lengths[r],
           NEW next \in Nat, next = Len(file) + 1,
           more = <<>> \/ file'[next] = Pad \/ StartsScw(next)'
    PROVE  \A i \in DOMAIN file :
              /\ StartsScw(i)' <=> StartsScw(i)
              /\ StartsScw(i) => Leads(i)'
              /\ AtBlock(i - 1) => file'[i] = Pad \/ StartsScw(i)'
<1>1. PICK L \in Nat : L = Len(file)
  BY DEF Types
<1>2. PICK m \in Nat : m = Len(more)
  OBVIOUS
<1>3. /\ DOMAIN file = 1 .. L /\ file' \in Seq(Byte) /\ Len(file') = L + m /\ DOMAIN file' = 1 .. L + m
      /\ \A i \in 1 .. L : file'[i] = file[i]
      /\ \A r, k, i : At(r, k, i) => At(r, k, i)'
  <2>1. file \in Seq(Byte)
    BY DEF Types
  <2>2. file' \in Seq(Byte) /\ Len(file') = L + m
    BY <1>1, <1>2, <2>1, Kept
  <2>3. DOMAIN file = 1 .. L /\ DOMAIN file' = 1 .. L + m
    BY <1>1, <2>1, <2>2
  <2> QED
    BY <1>1, <2>1, <2>2, <2>3, Kept
<1>4. \A i \in 1 .. L : StartsScw(i)' <=> StartsScw(i)
  <2> SUFFICES ASSUME NEW i \in 1 .. L PROVE StartsScw(i)' <=> StartsScw(i)
    OBVIOUS
  <2>1. i = 1 \/ i - 1 \in 1 .. L
    OBVIOUS
  <2>2. PICK h : h = i - 1
    OBVIOUS
  <2> QED
    BY <1>3, <2>1, <2>2 DEF StartsScw
<1>5. ASSUME NEW p \in Nat, GoesTo(p) PROVE GoesTo(p)'
  <2>1. CASE p = L + 1
    <3>1. CASE more = <<>>
      <4>1. m = 0
        BY <1>2, <3>1
      <4> QED
        <5>1. p = Len(file') + 1
          BY <1>3, <2>1, <4>1
        <5> QED
          BY <5>1 DEF GoesTo
    <3>2. CASE more # <<>>
      <4>1. m > 0
        BY <1>2, <3>2
      <4>2. p \in DOMAIN file'
        BY <1>3, <2>1, <4>1
      <4>3. p = next
        BY <1>1, <2>1
      <4>4. file'[p] = Pad \/ StartsScw(p)'
        BY <3>2, <4>3
      <4> QED
        BY <4>2, <4>4 DEF GoesTo
    <3> QED
      BY <3>1, <3>2
  <2>2. CASE p \in DOMAIN file /\ (file[p] = Pad \/ StartsScw(p))
    <3>1. p \in DOMAIN file' /\ (file'[p] = Pad \/ StartsScw(p)')
      BY <1>3, <1>4, <2>2
    <3> QED
      BY <3>1 DEF GoesTo
  <2> QED
    BY <1>1, <1>5, <2>1, <2>2 DEF GoesTo
<1>6. ASSUME NEW i \in 1 .. L, StartsScw(i) PROVE Leads(i)'
  <2>1. PICK t \in Nat, n \in Nat, k \in Nat : \E r \in DOMAIN lengths : Piece(i, t, n, r, k) /\ GoesTo(i + n)
    BY <1>3, <1>6 DEF Controls, Leads
  <2>2. PICK r \in DOMAIN lengths : Piece(i, t, n, r, k) /\ GoesTo(i + n)
    BY <2>1
  <2>3. Piece(i, t, n, r, k)'
    <3>1. PICK x, y, z : x = k + n - 6 /\ y = i + n - 1 /\ z = i + 5
      OBVIOUS
    <3>2. /\ n > 5 /\ y <= Len(file) /\ y <= EndOf(i - 1) /\ y \in Int
          /\ file[i] = <<0, t, n>>
          /\ At(r, k, z) /\ (t \in {0, 1} <=> k = 1)
          /\ At(r, x, y) /\ (t \in {0, 3} <=> x = lengths[r])
      BY <2>2, <3>1 DEF Piece
    <3>3. y <= Len(file')
      BY SMTT(30), <1>1, <1>3, <3>2
    <3>4. /\ n > 5 /\ y <= Len(file') /\ y <= EndOf(i - 1)
          /\ file'[i] = <<0, t, n>>
          /\ At(r, k, z)' /\ (t \in {0, 1} <=> k = 1)
          /\ At(r, x, y)' /\ (t \in {0, 3} <=> x = lengths'[r])
      BY <1>3, <3>2, <3>3
    <3> QED
      BY <3>1, <3>4 DEF Piece
  <2>4. GoesTo(i + n)'
    <3>1. PICK p \in Nat : p = i + n
      OBVIOUS
    <3> QED
      BY <1>5, <2>2, <3>1
  <2> QED
    BY <2>2, <2>3, <2>4 DEF Leads
<1>7. ASSUME NEW i \in 1 .. L, AtBlock(i - 1) PROVE file'[i] = Pad \/ StartsScw(i)'
  BY <1>3, <1>4, <1>7 DEF Controls
<1> QED
  BY <1>3, <1>4, <1>6, <1>7

\* Write and Close only pad.
LEMMA PadsControls ==
    ASSUME Types, Controls, segmented' = segmented,
           NEW more \in Seq(Byte), file' = file \o more, \A i \in 1 .. Len(more) : more[i] = Pad,
           \A r \in DOMAIN lengths : r \in DOMAIN lengths' /\ lengths'[r] = lengths[r]
    PROVE  Controls'
<1> SUFFICES ASSUME segmented, segmented' PROVE Controls'
  BY DEF Controls
<1>1. PICK L \in Nat : L = Len(file)
  BY DEF Types
<1>2. PICK m \in Nat : m = Len(more)
  OBVIOUS
<1>3. /\ DOMAIN file = 1 .. L /\ Len(file') = L + m /\ DOMAIN file' = 1 .. L + m
      /\ \A i \in 1 .. L : file'[i] = file[i]
      /\ \A i \in 1 .. m : file'[L + i] = Pad
  <2>1. file \in Seq(Byte)
    BY DEF Types
  <2>2. file' \in Seq(Byte) /\ Len(file') = L + m
    BY <1>1, <1>2, <2>1, Kept
  <2>3. DOMAIN file = 1 .. L /\ DOMAIN file' = 1 .. L + m
    BY <1>1, <2>1, <2>2
  <2> QED
    BY <1>1, <1>2, <2>1, <2>2, <2>3, Kept
<1>4. PICK next \in Nat : next = Len(file) + 1 /\ (more = <<>> \/ file'[next] = Pad)
  <2>1. more # <<>> => 1 \in 1 .. m
    BY <1>2
  <2>2. L + 1 = Len(file) + 1 /\ (more = <<>> \/ file'[L + 1] = Pad)
    BY <1>1, <1>3, <2>1
  <2> QED
    BY <2>2
<1>5. \A i \in DOMAIN file :
         /\ StartsScw(i)' <=> StartsScw(i)
         /\ StartsScw(i) => Leads(i)'
         /\ AtBlock(i - 1) => file'[i] = Pad \/ StartsScw(i)'
  BY <1>4, LeadsStay
<1>6. ASSUME NEW i \in 1 .. L + m, i \notin 1 .. L PROVE file'[i] = Pad
  <2>1. i - L \in 1 .. m /\ i = L + (i - L)
    BY <1>6
  <2> QED
    BY <1>3, <2>1
<1>7. \A i \in DOMAIN file' : StartsScw(i)' => Leads(i)'
  BY <1>3, <1>5, <1>6 DEF StartsScw
<1>8. \A i \in DOMAIN file' : AtBlock(i - 1) => file'[i] = Pad \/ StartsScw(i)'
  BY <1>3, <1>5, <1>6
<1>9. ASSUME NEW i \in DOMAIN file', i = Len(file') PROVE file'[i] = Pad \/ file'[i][1] # 0
  <2>1. CASE i \in 1 .. L
    <3>1. i = L
      BY <1>3, <1>9, <2>1
    <3> QED
      BY <1>1, <1>3, <2>1, <3>1 DEF Controls
  <2>2. CASE i \notin 1 .. L
    BY <1>3, <1>6, <1>9, <2>2
  <2> QED
    BY <2>1, <2>2
<1> QED
  BY <1>7, <1>8, <1>9 DEF Controls

\* WritePiece puts an SCW behind a byte that is of none.
LEMMA PieceControls ==
    ASSUME Inv, Controls, WritePiece
    PROVE  Controls'
<1>1. UNCHANGED <<attributes, lengths, reader>> /\ pc = "piece"
  BY DEF WritePiece
<1> SUFFICES ASSUME segmented, segmented' PROVE Controls'
  BY <1>1 DEF Controls, attributes
<1>2. PICK L, N, w, n, e, t :
          /\ L = Len(file) /\ N = Len(lengths) /\ w = Written /\ n = PieceLen /\ e = block_end
          /\ t = ScwType(Written = 0, PieceEnds)
  OBVIOUS
<1>3. /\ N \in DOMAIN lengths /\ N \in Nat \ {0} /\ L \in Nat /\ file \in Seq(Byte) /\ DOMAIN file = 1 .. L
      /\ BlockSize \in Nat /\ BlockSize > 0 /\ Types
  <2>1. N \in DOMAIN lengths
    BY <1>1, <1>2, PieceFits
  <2>2. /\ DOMAIN lengths = 1 .. N /\ N \in Nat /\ L \in Nat /\ DOMAIN file = 1 .. L
        /\ BlockSize \in Nat /\ BlockSize > 0
    BY <1>2, LengthsAre DEF Inv
  <2> QED
    BY <2>1, <2>2 DEF Inv, Types
<1>4. /\ w \in Nat /\ n \in Nat /\ n >= 1 /\ L + 5 + n <= e /\ e = EndOf(L) /\ e \in Nat /\ e <= L + BlockSize
      /\ PieceEnds <=> w + n = lengths[N]
  <2>1. /\ w \in 0 .. lengths[N] - 1 /\ n \in 1 .. remaining /\ remaining = lengths[N] - w
        /\ PieceEnds => n = remaining
        /\ L + 5 + n <= e
        /\ ~PieceEnds => n < remaining
        /\ e = EndOf(L) /\ remaining \in Nat
    BY <1>1, <1>2, PieceFits
  <2>2. lengths[N] \in Nat
    BY <1>3, LengthsAre DEF Inv
  <2>3. e \in Nat /\ e <= L + BlockSize
    BY <1>3, <2>1, BlockEnds
  <2>4. w \in Nat /\ n \in Nat /\ n >= 1
    BY <2>1
  <2>5. PieceEnds <=> w + n = lengths[N]
    BY <2>1, <2>2, <2>4
  <2> QED
    BY <2>1, <2>3, <2>4, <2>5
<1>5. t \in Nat /\ (t \in {0, 1} <=> w = 0) /\ (t \in {0, 3} <=> w + n = lengths[N])
  BY <1>2, <1>4 DEF ScwType
<1>6. /\ Len(file') = L + 5 + n /\ DOMAIN file' = 1 .. L + 5 + n
      /\ \A j \in 1 .. 5 : file'[L + j] = <<0, t, n + 5>>
      /\ \A j \in 1 .. n : file'[L + 5 + j] = <<N, w + j, 0>> /\ At(N, w + j, L + 5 + j)'
  <2>1. ScwSize = 5
    BY DEF ScwSize
  <2>2. PICK more \in Seq(Byte) : file' = file \o more /\ Len(more) = ScwSize + PieceLen
    BY PieceFile
  <2>3. file' \in Seq(Byte)
    BY <1>3, <2>2, Kept
  <2>4. /\ Len(file') = Len(file) + ScwSize + PieceLen
        /\ \A j \in 1 .. 5 : file'[Len(file) + j] = <<0, ScwType(Written = 0, PieceEnds), PieceLen + 5>>
        /\ \A j \in 1 .. PieceLen : file'[Len(file) + ScwSize + j] = <<Len(lengths), Written + j, 0>>
    BY PieceFile
  <2>5. /\ Len(file') = L + 5 + n
        /\ \A j \in 1 .. 5 : file'[L + j] = <<0, t, n + 5>>
        /\ \A j \in 1 .. n : file'[L + 5 + j] = <<N, w + j, 0>>
    BY <1>2, <2>1, <2>4
  <2>6. DOMAIN file' = 1 .. L + 5 + n
    BY <2>3, <2>5
  <2>7. \A j \in 1 .. n : L + 5 + j \in 1 .. L + 5 + n
    BY <1>3, <1>4
  <2> QED
    BY <2>5, <2>6, <2>7 DEF At
<1>7. PICK first \in Nat : first = L + 1
  BY <1>3
<1>8. first \in DOMAIN file' /\ file'[first] = <<0, t, n + 5>> /\ file'[first] # Pad /\ file'[first][1] = 0
  <2>1. file'[first] = <<0, t, n + 5>>
    BY <1>6, <1>7
  <2>2. first \in DOMAIN file'
    BY <1>3, <1>4, <1>6, <1>7
  <2> QED
    BY <2>1, <2>2, ScwIsNoData
<1>9. PICK more \in Seq(Byte) : file' = file \o more
  BY PieceFile
<1>10. \A i \in 1 .. L : file'[i] = file[i]
  BY <1>2, <1>3, <1>9, Kept
<1>11. StartsScw(first)'
  <2>1. CASE L = 0
    BY <1>7, <1>8, <2>1 DEF StartsScw
  <2>2. CASE L # 0
    <3>1. L \in DOMAIN file /\ (file[L] = Pad \/ file[L][1] # 0)
      BY <1>2, <1>3, <2>2 DEF Controls
    <3>2. file'[L] # file'[first]
      BY <1>3, <1>8, <1>10, <3>1
    <3>3. first - 1 = L
      BY <1>3, <1>7
    <3> QED
      BY <1>8, <3>2, <3>3 DEF StartsScw
  <2> QED
    BY <2>1, <2>2
<1>12. \A i \in DOMAIN file :
          /\ StartsScw(i)' <=> StartsScw(i)
          /\ StartsScw(i) => Leads(i)'
          /\ AtBlock(i - 1) => file'[i] = Pad \/ StartsScw(i)'
  <2>1. \A r \in DOMAIN lengths : r \in DOMAIN lengths' /\ lengths'[r] = lengths[r]
    BY <1>1
  <2>2. first = Len(file) + 1
    BY <1>2, <1>7
  <2> QED
    BY <1>3, <1>9, <1>11, <2>1, <2>2, LeadsStay
\* The new bytes: those of the SCW, and the piece.
<1>13. ASSUME NEW i \in DOMAIN file', i \notin DOMAIN file
       PROVE  \/ i = first
              \/ /\ i - 1 >= first /\ file'[i] = <<0, t, n + 5>> /\ file'[i - 1] = <<0, t, n + 5>>
              \/ /\ i - 1 >= first /\ file'[i] # Pad /\ file'[i][1] # 0
  <2>1. i \in 1 .. L + 5 + n /\ i > L
    BY <1>3, <1>6, <1>13
  <2>2. PICK d \in Nat : d = i - L
    BY <1>3, <2>1
  <2>3. i = L + d /\ d >= 1 /\ d <= 5 + n
    BY <1>3, <1>4, <2>1, <2>2
  <2>4. CASE d = 1
    BY <1>7, <2>3, <2>4
  <2>5. CASE d \in 2 .. 5
    <3>1. d - 1 \in 1 .. 5 /\ d \in 1 .. 5 /\ i - 1 = L + (d - 1) /\ i - 1 >= first
      BY <1>3, <1>7, <2>3, <2>5
    <3> QED
      BY <1>6, <2>3, <3>1
  <2>6. CASE d > 5
    <3>1. PICK j \in Nat : j = d - 5
      BY <2>6
    <3>2. j \in 1 .. n /\ i = L + 5 + j /\ i - 1 >= first
      BY <1>3, <1>4, <1>7, <2>3, <2>6, <3>1
    <3>3. file'[i] = <<N, w + j, 0>>
      BY <1>6, <3>2
    <3>4. <<N, w + j, 0>> # Pad /\ <<N, w + j, 0>>[1] # 0
      BY <1>3, DataIsData
    <3> QED
      BY <3>2, <3>3, <3>4
  <2> QED
    BY <2>3, <2>4, <2>5, <2>6
<1>14. Leads(first)'
  <2>1. PICK x, y, z, k, c, p :
            /\ c = n + 5 /\ k = w + 1 /\ x = k + c - 6 /\ y = first + c - 1 /\ z = first + 5 /\ p = first + c
    OBVIOUS
  <2>2. /\ x = w + n /\ y = L + 5 + n /\ z = L + 5 + 1 /\ p = L + 5 + n + 1 /\ c > 5 /\ first - 1 = L
        /\ c \in Nat /\ k \in Nat /\ y \in Nat
    BY <1>3, <1>4, <1>7, <2>1
  <2>3. At(N, k, z)' /\ At(N, x, y)'
    <3>1. 1 \in 1 .. n /\ n \in 1 .. n
      BY <1>4
    <3> QED
      BY <1>6, <2>1, <2>2, <3>1
  <2>4. (t \in {0, 1} <=> k = 1) /\ (t \in {0, 3} <=> x = lengths'[N])
    <3>1. k = 1 <=> w = 0
      BY <1>4, <2>1
    <3> QED
      BY <1>1, <1>5, <2>2, <3>1
  <2>5. y <= Len(file') /\ y <= EndOf(first - 1)
    BY <1>4, <1>6, <2>2
  <2>6. file'[first] = <<0, t, c>>
    BY <1>8, <2>1
  <2>7. Piece(first, t, c, N, k)'
    BY <2>1, <2>2, <2>3, <2>4, <2>5, <2>6 DEF Piece
  <2>8. GoesTo(p)'
    BY <1>6, <2>2 DEF GoesTo
  <2>9. N \in DOMAIN lengths'
    BY <1>1, <1>3
  <2> QED
    BY <1>5, <2>1, <2>2, <2>7, <2>8, <2>9 DEF Leads
<1>15. ASSUME NEW i \in DOMAIN file', StartsScw(i)' PROVE Leads(i)'
  <2>1. CASE i \in DOMAIN file
    BY <1>12, <1>15, <2>1
  <2>2. CASE i \notin DOMAIN file
    <3>1. i - 1 >= first => i # 1
      <4>1. i \in Int /\ first >= 1
        BY <1>3, <1>6, <1>7
      <4> QED
        BY <4>1
    <3>2. i = first
      BY <1>13, <1>15, <2>2, <3>1 DEF StartsScw
    <3> QED
      BY <1>14, <3>2
  <2> QED
    BY <2>1, <2>2
<1>16. ASSUME NEW i \in DOMAIN file', AtBlock(i - 1) PROVE file'[i] = Pad \/ StartsScw(i)'
  <2>1. CASE i \in DOMAIN file
    BY <1>12, <1>16, <2>1
  <2>2. CASE i \notin DOMAIN file
    <3>1. CASE i = first
      BY <1>11, <3>1
    <3>2. CASE i # first
      <4>1. i \in Nat /\ i - 1 >= first /\ i <= L + 5 + n
        BY <1>6, <1>13, <2>2, <3>2
      <4>2. PICK q \in Nat : q = i - 1
        BY <1>7, <4>1
      <4>3. L <= q /\ q < e /\ q > L
        BY <1>3, <1>4, <1>7, <4>1, <4>2
      <4>4. EndOf(q) = e
        BY <1>3, <1>4, <4>3, SameBlock
      <4>5. e = q + BlockSize
        BY <1>16, <4>2, <4>4 DEF AtBlock
      <4> QED
        BY <1>3, <1>4, <4>3, <4>5
    <3> QED
      BY <3>1, <3>2
  <2> QED
    BY <2>1, <2>2
<1>17. ASSUME NEW i \in DOMAIN file', i = Len(file') PROVE file'[i] = Pad \/ file'[i][1] # 0
  <2>1. i = L + 5 + n /\ n \in 1 .. n
    BY <1>4, <1>6, <1>17
  <2>2. file'[i] = <<N, w + n, 0>>
    BY <1>6, <2>1
  <2>3. <<N, w + n, 0>> # Pad /\ <<N, w + n, 0>>[1] # 0
    BY <1>3, DataIsData
  <2> QED
    BY <2>2, <2>3
<1> QED
  BY <1>15, <1>16, <1>17 DEF Controls

LEMMA ControlsStep ==
    ASSUME Inv, Controls, [Next]_vars
    PROVE  Controls'
<1>1. ASSUME NEW n \in Lengths, Write(n) PROVE Controls'
  <2>1. PICK more \in Seq(Byte) : file' = file \o more /\ \A i \in 1 .. Len(more) : more[i] = Pad
    BY <1>1, WriteFile
  <2>2. segmented' = segmented /\ lengths' = Append(lengths, n)
    BY <1>1 DEF Write, attributes
  <2>3. \A r \in DOMAIN lengths : r \in DOMAIN lengths' /\ lengths'[r] = lengths[r]
    <3>1. lengths \in Seq(Lengths)
      BY DEF Inv, Types, TypeOK
    <3> QED
      BY <2>2, <3>1
  <2> QED
    BY <2>1, <2>2, <2>3, PadsControls DEF Inv
<1>2. CASE WritePiece
  BY <1>2, PieceControls
<1>3. CASE Close
  <2>1. PICK more \in Seq(Byte) : file' = file \o more /\ \A i \in 1 .. Len(more) : more[i] = Pad
    BY <1>3, CloseFile
  <2>2. segmented' = segmented /\ lengths' = lengths
    BY <1>3 DEF Close, attributes
  <2> QED
    BY <2>1, <2>2, PadsControls DEF Inv
<1>4. CASE UNCHANGED <<attributes, file, lengths>>
  <2>1. segmented' = segmented /\ file' = file /\ lengths' = lengths
    BY <1>4 DEF attributes
  <2>2. \A i : StartsScw(i)' <=> StartsScw(i)
    BY <2>1 DEF StartsScw
  <2>3. \A p : GoesTo(p)' <=> GoesTo(p)
    BY <2>1, <2>2 DEF GoesTo
  <2>4. \A i, t, n, r, k : Piece(i, t, n, r, k)' <=> Piece(i, t, n, r, k)
    BY <2>1 DEF Piece, At
  <2>5. \A i : Leads(i) => Leads(i)'
    BY <2>1, <2>3, <2>4 DEF Leads
  <2> QED
    BY <2>1, <2>2, <2>5 DEF Controls
<1>5. CASE Read \/ UNCHANGED vars
  <2>1. UNCHANGED <<attributes, file, lengths>>
    BY <1>5 DEF Read, Skip, ReadScw, ReadLength, ReadRest, vars
  <2> QED
    BY <1>4, <2>1
<1> QED
  BY <1>1, <1>2, <1>3, <1>5 DEF Next

LEMMA SameQuotient ==
    ASSUME BlockSize > 0, NEW p \in Nat, NEW q \in Nat, p <= q, q < EndOf(p)
    PROVE  p \div BlockSize = q \div BlockSize
BY SizeAssumption DEF EndOf

LEMMA ControlsFollowed ==
    ASSUME Inv, Controls
    PROVE  BlocksFollowScws
<1> SUFFICES ASSUME segmented, NEW i \in DOMAIN file
             PROVE  /\ i % BlockSize = 1 => file[i] = Pad \/ StartsScw(i)
                    /\ StartsScw(i) =>
                           LET type == file[i][2]
                               next == i + file[i][3]
                               first == file[i + 5]
                               last == file[next - 1]
                           IN /\ (i - 1) \div BlockSize = (next - 2) \div BlockSize
                              /\ next > Len(file) \/ file[next] = Pad \/ StartsScw(next)
                              /\ type \in {0, 1} <=> first[2] = 1
                              /\ type \in {0, 3} <=> last[2] = lengths[last[1]]
  BY DEF BlocksFollowScws
<1>1. PICK p \in Nat : p = i - 1
  BY DEF Inv, Types
<1>2. /\ i \in Nat /\ i = p + 1 /\ BlockSize \in Nat /\ BlockSize > 10 /\ Len(file) \in Nat
      /\ EndOf(p) \in Nat /\ p < EndOf(p)
  <2>1. i \in Nat /\ Len(file) \in Nat
    BY DEF Inv, Types
  <2>2. BlockSize \in Nat /\ BlockSize > 10
    BY LengthsAre DEF Inv
  <2>3. EndOf(p) \in Nat /\ p < EndOf(p)
    BY <2>2, BlockEnds
  <2> QED
    BY <1>1, <2>1, <2>2, <2>3
<1>3. ASSUME i % BlockSize = 1 PROVE file[i] = Pad \/ StartsScw(i)
  <2>1. AtBlock(p)
    <3>1. PICK b, c, d, v : b = BlockSize /\ c = EndOf(i) /\ d = EndOf(p) /\ v = i % BlockSize
      OBVIOUS
    <3>2. v = b - (c - i) /\ v = 1
      BY <1>2, <1>3, <3>1, Remainder
    <3>3. c \in Nat /\ d \in Nat /\ b \in Nat /\ b > 10 /\ p < d
      BY <1>2, <3>1, BlockEnds
    <3>4. i < d => c = d
      BY <1>2, <3>1, SameBlock
    <3>5. EndOf(d) = d + b
      BY <1>2, <3>1, NextBlock
    <3>6. i = d => c = d + b
      BY <3>1, <3>5
    <3>7. i <= d
      BY <1>2, <3>3
    <3>8. d = p + b
      BY <1>2, <3>2, <3>3, <3>4, <3>6, <3>7
    <3> QED
      BY <3>1, <3>8 DEF AtBlock
  <2> QED
    BY <1>1, <2>1 DEF Controls
<1>4. ASSUME StartsScw(i)
      PROVE  \E t, n, f, l :
                /\ t = file[i][2] /\ n = i + file[i][3] /\ f = file[i + 5] /\ l = file[n - 1]
                /\ (i - 1) \div BlockSize = (n - 2) \div BlockSize
                /\ (n > Len(file) \/ file[n] = Pad \/ StartsScw(n))
                /\ t \in {0, 1} <=> f[2] = 1
                /\ t \in {0, 3} <=> l[2] = lengths[l[1]]
  <2>1. PICK t \in Nat, m \in Nat, k \in Nat : \E r \in DOMAIN lengths : Piece(i, t, m, r, k) /\ GoesTo(i + m)
    BY <1>4 DEF Controls, Leads
  <2>2. PICK r \in DOMAIN lengths : Piece(i, t, m, r, k) /\ GoesTo(i + m)
    BY <2>1
  <2>3. PICK n, x, y, z : n = i + m /\ x = k + m - 6 /\ y = i + m - 1 /\ z = i + 5
    OBVIOUS
  <2>4. /\ m > 5 /\ y <= EndOf(i - 1) /\ file[i] = <<0, t, m>>
        /\ At(r, k, z) /\ (t \in {0, 1} <=> k = 1)
        /\ At(r, x, y) /\ (t \in {0, 3} <=> x = lengths[r])
    BY <2>2, <2>3 DEF Piece
  <2>5. file[i][2] = t /\ file[i][3] = m
    BY <2>4, ScwIsNoData
  <2>6. n \in Nat /\ y = n - 1 /\ y = p + m
    BY <1>2, <2>3
  <2>7. (i - 1) \div BlockSize = (n - 2) \div BlockSize
    <3>1. PICK q \in Nat : q = n - 2
      BY <1>2, <2>3, <2>4
    <3>2. p <= q /\ q < EndOf(p)
      <4>1. /\ y \in Int /\ m \in Nat /\ m > 5 /\ q = y - 1 /\ y = p + m /\ EndOf(p) \in Nat
        BY <1>2, <2>3, <2>4, <2>6, <3>1
      <4>2. i - 1 = p
        BY <1>1
      <4>3. y <= EndOf(p)
        BY <2>4, <4>2
      <4>4. PICK d : d = EndOf(p)
        OBVIOUS
      <4>5. p <= q /\ q < d
        BY <4>1, <4>3, <4>4
      <4> QED
        BY <4>4, <4>5
    <3>3. p \div BlockSize = q \div BlockSize
      BY <1>2, <3>2, SameQuotient
    <3> QED
      BY <1>1, <3>1, <3>3
  <2>8. n > Len(file) \/ file[n] = Pad \/ StartsScw(n)
    <3>1. GoesTo(n)
      BY <2>2, <2>3
    <3>2. n = Len(file) + 1 => n > Len(file)
      BY <1>2
    <3> QED
      BY <3>1, <3>2 DEF GoesTo
  <2>9. PICK f, l : f = file[z] /\ l = file[y]
    OBVIOUS
  <2>10. f[2] = k /\ l[1] = r /\ l[2] = x
    BY <2>4, <2>9 DEF At
  <2>11. (t \in {0, 1} <=> f[2] = 1) /\ (t \in {0, 3} <=> l[2] = lengths[l[1]])
    BY <2>4, <2>10
  <2>12. f = file[i + 5] /\ l = file[n - 1] /\ n = i + file[i][3] /\ t = file[i][2]
    BY <2>3, <2>5, <2>6, <2>9
  <2> QED
    <3>1. /\ t = file[i][2] /\ n = i + file[i][3] /\ f = file[i + 5] /\ l = file[n - 1]
          /\ (i - 1) \div BlockSize = (n - 2) \div BlockSize
          /\ (n > Len(file) \/ file[n] = Pad \/ StartsScw(n))
          /\ t \in {0, 1} <=> f[2] = 1
          /\ t \in {0, 3} <=> l[2] = lengths[l[1]]
      BY <2>7, <2>8, <2>11, <2>12
    <3> WITNESS t, n, f, l
    <3> QED
      BY <3>1
<1> QED
  BY <1>3, <1>4

\* Any program that follows the SCWs of a segmented file TMarcFile::Write has made
\* finds every piece of every record, and which begin and end one.
THEOREM ScwsLead == Spec => []BlocksFollowScws
<1>1. Init => Controls
  BY DEF Init, Controls
<1>2. Inv /\ Controls /\ [Next]_vars => Controls'
  BY ControlsStep
<1>3. Inv /\ Controls => BlocksFollowScws
  BY ControlsFollowed
<1> QED
  BY <1>1, <1>2, <1>3, InvAlways, PTL DEF Spec

=============================================================================
