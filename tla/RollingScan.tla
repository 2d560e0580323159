----------------------------- MODULE RollingScan -----------------------------
(***************************************************************************)
(* The search for one block of the client's file in a candidate file of    *)
(* the server (WeakChecksum and ScanCandidate in transfer/transfer.cpp).   *)
(* A window slides over the candidate byte by byte; a rolling checksum     *)
(* tells where it pays to compare the strong hash, which stands here for   *)
(* the content itself.  The window is a ring buffer, as in the code.       *)
(***************************************************************************)
EXTENDS Integers, Sequences

CONSTANTS
  MaxByte,        \* bytes are 0 .. MaxByte
  WeakModulus,    \* 2^16 in the code: both halves of the checksum wrap
  BlockLength,    \* Signature::length of the block
  MaxFileLength   \* bound: bytes of a candidate

ASSUME ScanAssumption ==
  /\ {MaxByte, BlockLength, MaxFileLength} \subseteq Nat
  /\ BlockLength > 0
  /\ WeakModulus \in Nat /\ WeakModulus > MaxByte

Bytes == 0 .. MaxByte
Candidates == UNION {[1 .. n -> Bytes] : n \in 0 .. MaxFileLength}
Blocks == [1 .. BlockLength -> Bytes]

VARIABLES
  candidate,  \* the file that is scanned
  block,      \* the block that is looked for
  ring,       \* window
  ringStart,  \* ring_start, counted from 0
  position,   \* bytes of the candidate read so far
  weak,       \* the rolling checksum, its halves
  found,    \* the block was found and written
  scan        \* new, scanning or over

scanVars == <<candidate, block, ring, ringStart, position, weak, found, scan>>

\* A half of the checksum keeps its width.
Wrap(x) == x % WeakModulus

\* The checksum of a window from scratch, byte by byte: the first one weighs
\* most.
WeakChecksum(w) ==
  LET sums[i \in 0 .. Len(w)] ==
        IF i = 0 THEN [a |-> 0, b |-> 0]
        ELSE [a |-> Wrap(sums[i - 1].a + w[i]),
              b |-> Wrap(sums[i - 1].b + (Len(w) - i + 1) * w[i])]
  IN  sums[Len(w)]

ScanInit ==
  /\ candidate \in Candidates /\ block \in Blocks
  /\ ring = <<>> /\ ringStart = 0 /\ position = 0
  /\ weak = WeakChecksum(<<>>)
  /\ found = FALSE /\ scan = "new"

\* The window in the order of the file.
Ordered == [i \in 1 .. BlockLength |-> ring[((ringStart + i - 1) % BlockLength) + 1]]

\* A candidate that is shorter than the window is passed over.
OpenCandidate ==
  /\ scan = "new"
  /\ IF Len(candidate) < BlockLength
       THEN /\ scan' = "over"
            /\ UNCHANGED <<ring, position, weak>>
       ELSE /\ scan' = "scanning"
            /\ ring' = SubSeq(candidate, 1, BlockLength)
            /\ weak' = WeakChecksum(SubSeq(candidate, 1, BlockLength))
            /\ position' = BlockLength
  /\ UNCHANGED <<candidate, block, ringStart, found>>

\* Only where the weak checksum agrees the strong one is computed.
Matches == weak = WeakChecksum(block) /\ Ordered = block

\* Mutant: the byte that leaves counts once in b.
RollForgetting(w, old, next) ==
  LET a == Wrap(w.a + WeakModulus - old + next)
  IN  [a |-> a, b |-> Wrap(w.b + WeakModulus - old + a)]

\* The checksum when old leaves the window and next enters it.
Roll(w, old, next) ==
  LET a == Wrap(w.a + WeakModulus - old + next)
  IN  [a |-> a, b |-> Wrap(w.b + WeakModulus - Wrap(BlockLength * old) + a)]

Slide ==
  /\ scan = "scanning"
  /\ found' = (found \/ Matches)
  /\ IF position = Len(candidate)
       THEN /\ scan' = "over"
            /\ UNCHANGED <<ring, ringStart, position, weak>>
       ELSE /\ position' = position + 1
            /\ weak' = Roll(weak, ring[ringStart + 1], candidate[position + 1])
            /\ ring' = [ring EXCEPT ![ringStart + 1] = candidate[position + 1]]
            /\ ringStart' = (ringStart + 1) % BlockLength
            /\ UNCHANGED scan
  /\ UNCHANGED <<candidate, block>>

ScanNext == OpenCandidate \/ Slide
ScanSpec == ScanInit /\ [][ScanNext]_scanVars

-----------------------------------------------------------------------------
ScanTypeOK ==
  /\ candidate \in Candidates /\ block \in Blocks
  /\ ringStart \in 0 .. BlockLength - 1
  /\ position \in 0 .. MaxFileLength
  /\ {weak.a, weak.b} \subseteq 0 .. WeakModulus - 1
  /\ found \in BOOLEAN
  /\ scan \in {"new", "scanning", "over"}

\* Wherever the block starts in the candidate, the scan finds it, although
\* the rolling checksum wraps around at every step; it finds nothing else.
ScanIsExact ==
  scan = "over" =>
    (found <=> \E k \in 1 .. Len(candidate) - BlockLength + 1 :
                   SubSeq(candidate, k, k + BlockLength - 1) = block)
=============================================================================
