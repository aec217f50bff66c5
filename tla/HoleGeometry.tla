---------------------------- MODULE HoleGeometry ----------------------------
(***************************************************************************)
(* Where FileTree::Node punches the next hole of a file, and how it        *)
(* re-counts the holes of a file that is truncated                         *)
(* (include/filestorm/filetree.h, lines 73-124).  Pure arithmetic on file  *)
(* sizes; every size and address is a number of bytes.  Operators marked   *)
(* "Fault:" are not part of the model; the mutation runs put them in place *)
(* of the operator that follows.                                           *)
(***************************************************************************)
EXTENDS Integers

CONSTANT Block   \* the "blocksize" parameter

ASSUME BlockAssumption == Block \in Nat \ {0}

BlockDown(x) == x - (x % Block)

\* The file is halved again and again: slot 0 is its first half, slot k + 1
\* starts where slot k ends and is half as long.
NextSlot(s) == [start |-> s.end, end |-> s.end + (s.end - s.start) \div 2]

Slot(size, k) ==
  LET slot[i \in Nat] == IF i = 0 THEN [start |-> 0, end |-> size \div 2]
                                  ELSE NextSlot(slot[i - 1])
  IN  slot[k]

\* The hole a slot is turned into: both ends rounded down to the block size
\* and one block kept mapped at each end.  A slot shorter than three blocks
\* has no hole ("Not enough space for hole in file").
\* Fault: two blocks are enough.
HasTwoBlocks(s) == BlockDown(s.end) - BlockDown(s.start) >= 2 * Block
\* Fault: one block is enough.
HasOneBlock(s) == BlockDown(s.end) - BlockDown(s.start) >= Block
HasRoom(s) == BlockDown(s.end) - BlockDown(s.start) >= 3 * Block

\* Fault: no block is kept at the ends.
WholeSlot(s) == [from |-> BlockDown(s.start), to |-> BlockDown(s.end)]
HoleOf(s) == [from |-> BlockDown(s.start) + Block, to |-> BlockDown(s.end) - Block]

IsPunchable(size, count) == HasRoom(Slot(size, count))

\* Fault: the counter is ignored.
FirstHole(size, count) == HoleOf(Slot(size, 0))
HoleAddress(size, count) == HoleOf(Slot(size, count))

\* Node::truncate: the new hole count of a file shrunk from old to new bytes.
\* The walk stops at the first slot that reaches the new end or is no longer
\* than three blocks, and gives up ("Too many iterations") at MaxWalk.
MaxWalk == 300

WalkStops(old, new, k) ==
  LET s == Slot(old, k)
  IN  s.end >= new \/ s.end - s.start <= 3 * Block

IsTruncatedCount(old, new, i) ==
  WalkStops(old, new, i - 1) /\ \A j \in 1..(i - 1) : ~WalkStops(old, new, j - 1)

Threw == -1

TruncatedCount(old, new, count) ==
  IF new >= old THEN count
  ELSE IF \E i \in 1..MaxWalk : IsTruncatedCount(old, new, i)
       THEN CHOOSE i \in 1..MaxWalk : IsTruncatedCount(old, new, i)
       ELSE Threw
=============================================================================
