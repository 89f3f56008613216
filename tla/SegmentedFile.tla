---------------------------- MODULE SegmentedFile ----------------------------
(***************************************************************************)
(* The ISO 2709 files of marcfile.cpp, cut into blocks: TMarcFile::Write   *)
(* puts a segment control word (SCW) in front of every piece of a record,  *)
(* TMarcFile::Read takes them out again. The file is written, closed and   *)
(* then read with the same attributes.                                     *)
(*                                                                         *)
(* A byte is <<r, k, 0>>, the k-th byte of record r, <<0, type, length>>,  *)
(* one of the five of an SCW, or Pad. The first five bytes of a record     *)
(* tell its length. Blocks have less than 10000 bytes, the limit of an SCW.*)
(***************************************************************************)
EXTENDS Integers, Sequences

CONSTANTS
    BlockSize,    \* MarcSizeBlock
    MinDataFrees, \* values of MarcMinDataFree
    Lengths,      \* lengths of records
    MaxRecords    \* bound: records in the file

\* With less than 5 bytes the writer has no room for an SCW.
ASSUME SizeAssumption == BlockSize \in Nat /\ \A m \in MinDataFrees : m \in 5 .. BlockSize - 6
\* An SCW has four digits for the length of a piece.
ASSUME ScwAssumption == BlockSize < 10000
ASSUME LengthAssumption == Lengths \subseteq Nat /\ \A n \in Lengths : n > 5
ASSUME BoundAssumption == MaxRecords \in Nat

VARIABLES
    segmented, minDataFree, lastBlock, \* the attributes of the file
    file,      \* its bytes
    lengths,   \* the lengths of the records written
    PosCour, NumBloc, block_end,
    remaining, \* write_remaining, read_remaining
    at,        \* bytes that read_marc has consumed
    Buffer,    \* the record that is being read
    delivered, \* records read
    pc         \* where Write or Read is, or how reading ended

attributes == <<segmented, minDataFree, lastBlock>>
position == <<PosCour, NumBloc, block_end>>
reader == <<at, Buffer, delivered>>
vars == <<attributes, file, lengths, position, remaining, reader, pc>>

Pad == <<>>
Pads(n) == [k \in 1 .. n |-> Pad]
Scw(type, length) == [k \in 1 .. 5 |-> <<0, type, length>>]
ScwSize == IF segmented THEN 5 ELSE 0
\* Bytes first to last of record r.
Bytes(r, first, last) == [k \in 1 .. last - first + 1 |-> <<r, first + k - 1, 0>>]

Init ==
    /\ segmented \in BOOLEAN /\ minDataFree \in MinDataFrees /\ lastBlock \in BOOLEAN
    /\ file = <<>> /\ lengths = <<>>
    /\ PosCour = 0 /\ NumBloc = 0 /\ block_end = BlockSize
    /\ remaining = 0
    /\ at = 0 /\ Buffer = <<>> /\ delivered = <<>>
    /\ pc = "write"

\* PosCour is pos, and what is derived from it.
MoveTo(pos) ==
    /\ PosCour' = pos
    /\ NumBloc' = pos \div BlockSize
    /\ block_end' = (NumBloc' + 1) * BlockSize

-----------------------------------------------------------------------------
(* TMarcFile::Write *)

NoRoom == segmented /\ block_end - PosCour <= minDataFree

\* A record of n bytes: what is left of a block too short for it is padded.
Write(n) ==
    /\ pc = "write" /\ Len(lengths) < MaxRecords
    /\ lengths' = Append(lengths, n)
    /\ remaining' = n
    /\ IF NoRoom THEN file' = file \o Pads(block_end - PosCour) /\ MoveTo(block_end)
       ELSE UNCHANGED <<file, position>>
    /\ pc' = "piece"
    /\ UNCHANGED <<attributes, reader>>

\* Variant for mutation: every piece that is not the last is a first one.
ScwTypeOfFirst(starts, ends) == IF starts THEN IF ends THEN 0 ELSE 1 ELSE IF ends THEN 3 ELSE 1

\* The type of a piece: 0 a whole record, 1 its first, 2 a middle, 3 its last.
ScwType(starts, ends) == IF starts THEN IF ends THEN 0 ELSE 1 ELSE IF ends THEN 3 ELSE 2

\* One turn of the loop: the record up to its end or to that of the block.
WritePiece ==
    /\ pc = "piece"
    /\ LET r == Len(lengths)
           pos == lengths[r] - remaining
           ends == ~segmented \/ remaining + PosCour + 5 <= block_end
           len == IF ends THEN remaining ELSE block_end - PosCour - 5
       IN /\ file' = file \o (IF segmented THEN Scw(ScwType(pos = 0, ends), len + 5) ELSE <<>>)
                          \o Bytes(r, pos + 1, pos + len)
          /\ MoveTo(PosCour + ScwSize + len)
          /\ remaining' = remaining - len
          /\ pc' = IF ends THEN "write" ELSE "piece"
    /\ UNCHANGED <<attributes, lengths, reader>>

\* TMarcFile::Close, and Open for reading. An empty buffer is padded to a block,
\* a full one is not.
Close ==
    /\ pc = "write"
    /\ file' = IF lastBlock /\ (file = <<>> \/ Len(file) % BlockSize # 0)
               THEN file \o Pads(BlockSize - (Len(file) % BlockSize)) ELSE file
    /\ MoveTo(0)
    /\ pc' = "read"
    /\ UNCHANGED <<attributes, lengths, remaining, reader>>

-----------------------------------------------------------------------------
(* TMarcFile::Read *)

Available(n) == at + n <= Len(file)
Next5(offset) == SubSeq(file, at + offset + 1, at + offset + 5)

\* Read returned: "end" at the end of the file, "error" with error 1002 to 1004.
Return(outcome) ==
    /\ pc' = outcome
    /\ UNCHANGED <<position, remaining, reader>>

\* Variant for mutation: whether there is a next block is not looked at.
SkipUnchecked ==
    /\ pc = "read"
    /\ IF NoRoom THEN at' = at + (block_end - PosCour) /\ MoveTo(block_end) ELSE UNCHANGED <<at, position>>
    /\ pc' = "scw"
    /\ UNCHANGED <<attributes, file, lengths, remaining, Buffer, delivered>>

\* Too little room for a record: on to the next block.
Skip ==
    /\ pc = "read"
    /\ \/ /\ NoRoom /\ ~Available(block_end - PosCour)
          /\ Return("end")
       \/ /\ NoRoom /\ Available(block_end - PosCour)
          /\ at' = at + (block_end - PosCour)
          /\ MoveTo(block_end)
          /\ pc' = "scw"
          /\ UNCHANGED <<remaining, Buffer, delivered>>
       \/ /\ ~NoRoom
          /\ pc' = "scw"
          /\ UNCHANGED <<position, remaining, reader>>
    /\ UNCHANGED <<attributes, file, lengths>>

IsScw(bytes) == bytes[1] # Pad /\ bytes = Scw(bytes[1][2], bytes[1][3])

\* read_marc_scw in front of a record. Five pads end the file.
ReadScw ==
    /\ pc = "scw"
    /\ \/ /\ segmented /\ (Available(5) => Next5(0) = Pads(5))
          /\ Return("end")
       \/ /\ segmented /\ Available(5) /\ Next5(0) # Pads(5) /\ ~IsScw(Next5(0))
          /\ Return("error")
       \/ /\ segmented => Available(5) /\ IsScw(Next5(0))
          /\ at' = at + ScwSize
          /\ MoveTo(PosCour + ScwSize)
          /\ pc' = "length"
          /\ UNCHANGED <<remaining, Buffer, delivered>>
    /\ UNCHANGED <<attributes, file, lengths>>

\* The record whose first five bytes these are says how much is left to read.
Decoded(bytes) ==
    \/ \E r \in DOMAIN lengths :
          /\ bytes = Bytes(r, 1, 5)
          /\ remaining' = lengths[r] - 5
          /\ pc' = "rest"
    \/ /\ \A r \in DOMAIN lengths : bytes # Bytes(r, 1, 5)
       /\ pc' = "error"
       /\ UNCHANGED remaining

\* The five bytes are in this block, or so it is taken: they may end it. If they
\* are not there, that is no error.
ReadLengthHere ==
    /\ block_end - PosCour >= minDataFree
    /\ \/ /\ Available(5)
          /\ at' = at + 5
          /\ Buffer' = Next5(0)
          /\ PosCour' = PosCour + 5
          /\ Decoded(Next5(0))
          /\ UNCHANGED <<NumBloc, block_end, delivered>>
       \/ /\ ~Available(5)
          /\ Return("end")

\* Variant for mutation: the SCW between the two parts is not taken out.
ReadLengthStraight ==
    /\ block_end - PosCour < minDataFree
    /\ IF Available(5)
       THEN /\ at' = at + 5
            /\ Buffer' = Next5(0)
            /\ MoveTo(PosCour + 5)
            /\ Decoded(Next5(0))
            /\ UNCHANGED delivered
       ELSE Return("error")

\* They go on in the next block, behind its SCW. More than five bytes left make
\* the length of the second part wrap round.
ReadLengthAcross ==
    /\ block_end - PosCour < minDataFree
    /\ LET head == block_end - PosCour
           tail == 5 - head
           bytes == SubSeq(file, at + 1, at + head)
                    \o SubSeq(file, at + head + ScwSize + 1, at + 5 + ScwSize)
           there == Available(head + ScwSize) /\ (segmented => IsScw(Next5(head)))
       IN \/ /\ there /\ tail < 0
             /\ Return("overrun")
          \/ /\ there /\ tail >= 0 /\ Available(5 + ScwSize)
             /\ at' = at + 5 + ScwSize
             /\ Buffer' = bytes
             /\ MoveTo(block_end + ScwSize + tail)
             /\ Decoded(bytes)
             /\ UNCHANGED delivered
          \/ /\ there => tail >= 0 /\ ~Available(5 + ScwSize)
             /\ Return("error")

ReadLength ==
    /\ pc = "length"
    /\ ReadLengthHere \/ ReadLengthAcross
    /\ UNCHANGED <<attributes, file, lengths>>

\* Variant for mutation: the SCW in front of a block is taken for data.
NoScwAhead == 0

\* The bytes to jump over where a block begins.
ScwAhead == IF PosCour % BlockSize = 0 THEN ScwSize ELSE 0

\* Variant for mutation: while (read_remaining >= 0).
NeverDone(left) == left < 0

Done(left) == left = 0

\* One turn of the loop: the SCW if a block begins, then the record up to its
\* end or to that of the block. Past block_end the length wraps round, and what
\* read_marc does then is undefined: reading ends here.
ReadRest ==
    /\ pc = "rest"
    /\ LET pos == PosCour + ScwAhead
           len == IF remaining + pos > block_end THEN block_end - pos ELSE remaining
           there == Available(ScwAhead + len) /\ (ScwAhead > 0 => IsScw(Next5(0)))
       IN \/ /\ len < 0
             /\ Return("overrun")
          \/ /\ len >= 0 /\ there
             /\ at' = at + ScwAhead + len
             /\ Buffer' = Buffer \o SubSeq(file, at + ScwAhead + 1, at + ScwAhead + len)
             /\ MoveTo(pos + len)
             /\ remaining' = remaining - len
             /\ IF Done(remaining')
                THEN delivered' = Append(delivered, Buffer') /\ pc' = "read"
                ELSE UNCHANGED delivered /\ pc' = "rest"
          \/ /\ len >= 0 /\ ~there
             /\ Return("error")
    /\ UNCHANGED <<attributes, file, lengths>>

Read == Skip \/ ReadScw \/ ReadLength \/ ReadRest
Next == (\E n \in Lengths : Write(n)) \/ WritePiece \/ Close \/ Read

\* A program that has opened the file reads on.
Spec == Init /\ [][Next]_vars /\ WF_vars(Read)

-----------------------------------------------------------------------------
Stopped == {"end", "error", "overrun"}

TypeOK ==
    /\ segmented \in BOOLEAN /\ minDataFree \in MinDataFrees /\ lastBlock \in BOOLEAN
    /\ lengths \in Seq(Lengths) /\ Len(lengths) <= MaxRecords
    /\ PosCour \in Nat /\ NumBloc \in Nat /\ block_end \in Nat
    /\ remaining \in Nat /\ at \in 0 .. Len(file)
    /\ Len(delivered) <= Len(lengths)
    /\ pc \in {"write", "piece", "read", "scw", "length", "rest"} \union Stopped

\* A file written and read with the same attributes is a file of records.
Sent == [r \in DOMAIN lengths |-> Bytes(r, 1, lengths[r])]
Phase == CASE pc \in {"write", "piece"} -> "writing"
           [] pc \in {"error", "overrun"} -> "failed"
           [] pc = "end" -> "end"
           [] OTHER -> "reading"
Abstract == INSTANCE RecordFile WITH
    Records <- {Bytes(r, 1, n) : r \in 1 .. MaxRecords, n \in Lengths},
    sent <- Sent, received <- delivered, phase <- Phase
IsRecordFile == Abstract!Spec

\* Reading fails only at a record that begins with exactly so many bytes left in
\* its block that its length seems to, but does not, go on in the next block (6
\* and more, less than MarcMinDataFree) or does not seem to, but does (5, in
\* segmented files): with MarcMinDataFree = 6 never. Behind the last record it
\* fails only without segments, if the file is padded or ends near a block's end.
RoomAt(r) == LET i == CHOOSE j \in DOMAIN file : file[j] = <<r, 1, 0>>
             IN BlockSize - ((i - 1) % BlockSize)
Hard(room) == room \in 6 .. minDataFree - 1 \/ (segmented /\ room = 5 /\ minDataFree = 5)
FailsOnlyAtBlockEnd ==
    pc \in {"error", "overrun"} =>
        IF Len(delivered) < Len(lengths) THEN Hard(RoomAt(Len(delivered) + 1))
        ELSE ~segmented /\ (lastBlock \/ BlockSize - (Len(file) % BlockSize) < minDataFree)

\* Once opened, a file is read to its end or to an error.
ReadingStops == pc = "read" ~> pc \in Stopped

\* In a segmented file any program that follows the SCWs finds the pieces: an SCW
\* begins every block, and its length leads to the next SCW, to padding, or to
\* the end of the block or the file; its type tells where a record begins and ends.
StartsScw(i) == file[i] # Pad /\ file[i][1] = 0 /\ (i = 1 \/ file[i - 1] # file[i])
BlocksFollowScws ==
    segmented /\ pc = "read" =>
        \A i \in DOMAIN file :
            /\ i % BlockSize = 1 => file[i] = Pad \/ StartsScw(i)
            /\ StartsScw(i) =>
                   LET type == file[i][2]
                       next == i + file[i][3]
                       first == file[i + 5]
                       last == file[next - 1]
                   IN /\ (i - 1) \div BlockSize = (next - 2) \div BlockSize
                      /\ next > Len(file) \/ file[next] = Pad \/ StartsScw(next)
                      /\ type \in {0, 1} <=> first[2] = 1
                      /\ type \in {0, 3} <=> last[2] = lengths[last[1]]

\* "chaque morceau s'arretant soit a la fin de la notice, soit a la fin du bloc
\* courant": every piece read ends with the record or with the block.
PiecesEndInBlock == pc # "overrun"
=============================================================================
