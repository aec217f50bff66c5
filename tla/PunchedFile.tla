---------------------------- MODULE PunchedFile -----------------------------
(***************************************************************************)
(* The life of one file as far as its holes go: FileTree::Node's hole      *)
(* counter (include/filestorm/filetree.h) driven by the aging scenario's   *)
(* ALTER_SMALLER_FALLOCATE, ALTER_SMALLER_TRUNCATE and ALTER_BIGGER_*      *)
(* handlers (source/scenarios/aging.cpp).                                  *)
(***************************************************************************)
EXTENDS HoleGeometry, FiniteSets

CONSTANT Sizes   \* the sizes the file may have

ASSUME SizesAssumption == Sizes \subseteq Nat

VARIABLES size,    \* st_size of the file
          count,   \* Node::fallocated_count
          holes,   \* the holes punched so far that still lie (partly) in the file
          cut      \* ghost: the file has been truncated

vars == <<size, count, holes, cut>>

Init == size \in Sizes /\ count = 0 /\ holes = {} /\ cut = FALSE

-----------------------------------------------------------------------------
\* ALTER_SMALLER_FALLOCATE.  The counter is advanced by getHoleAddress before
\* the fallocate call, whose result nobody looks at; here the call succeeds.
Punch ==
  /\ IsPunchable(size, count)
  /\ count' = count + 1
  /\ holes' = holes \cup {HoleAddress(size, count)}
  /\ UNCHANGED <<size, cut>>

\* ALTER_SMALLER_TRUNCATE, for a new size of at least half the old one.
Truncate ==
  \E new \in Sizes :
    /\ new < size
    /\ new >= size \div 2
    /\ new >= Block
    /\ count' = TruncatedCount(size, new, count)
    /\ holes' = {[h EXCEPT !.to = IF @ < new THEN @ ELSE new] : h \in {g \in holes : g.from < new}}
    /\ size' = new
    /\ cut' = TRUE

\* ALTER_BIGGER_WRITE and ALTER_BIGGER_FALLOCATE: the counter is not touched.
Grow ==
  \E new \in Sizes : new > size /\ size' = new /\ UNCHANGED <<count, holes, cut>>

Next == Punch \/ Truncate \/ Grow

Spec == Init /\ [][Next]_vars
-----------------------------------------------------------------------------
TypeOK ==
  /\ size \in Sizes
  /\ count \in Nat /\ cut \in BOOLEAN
  /\ \A h \in holes : h.from \in Nat /\ h.to \in Nat /\ h.from < h.to

\* The README's claim: the holes of one file never intersect.  At least one
\* mapped block is left between two of them.
HolesDisjoint ==
  \A h, g \in holes : h = g \/ h.to + Block <= g.from \/ g.to + Block <= h.from

\* The claim does hold for a file that has only been punched and expanded: its
\* holes are disjoint, and every punch makes a hole of its own.  None is spent
\* on an address that was a hole already, so the counter is their number.
HolesDisjointUntilCut == cut \/ (HolesDisjoint /\ Cardinality(holes) = count)

\* A hole is punched strictly inside the file, behind its first block and
\* with at least one block kept after it, never past the end of file.
HoleInsideFile ==
  [][count' = count + 1 /\ size' = size =>
       \A h \in holes' \ holes : Block <= h.from /\ h.to + Block <= size]_vars

\* The powers of two.
TwoTo[n \in Nat] == IF n = 0 THEN 1 ELSE 2 * TwoTo[n - 1]

\* Whatever mixture of punches, truncations and growth led here, a file that
\* still counts as punchable has a slot of more than two blocks left, so its
\* size bounds the punches to come by its logarithm.
PunchBudget ==
  IsPunchable(size, count) => (2 * Block + 1) * TwoTo[count + 1] <= size
=============================================================================
