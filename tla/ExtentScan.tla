----------------------------- MODULE ExtentScan -----------------------------
(***************************************************************************)
(* get_extents (source/filefrag.cpp): the extents of a file are asked for  *)
(* in batches with the FIEMAP ioctl, each batch starting where the last    *)
(* extent of the one before ended.  One action is one ioctl and what the   *)
(* loop does with its answer.                                              *)
(*                                                                         *)
(* The file system is external.  It answers each ioctl from the layout the *)
(* file has at that moment, and between two ioctls it may split, merge and *)
(* move the extents of the pages that are mapped (delayed allocation,      *)
(* defragmentation, snapshots).                                            *)
(* Operators marked "Fault:" are not part of the model; the mutation runs  *)
(* put them in place of the operator that follows.                         *)
(***************************************************************************)
EXTENDS Integers, Sequences

CONSTANTS Pages,      \* pages of the largest file
          MaxExtents  \* MAX_EXTENTS, the extents of a batch (32)

ASSUME ScanAssumption == Pages \in Nat /\ MaxExtents \in Nat \ {0}

VARIABLES
  layout, \* the extents of the file, in the order of the file
  scan,   \* "idle", "running", "done", "failed"
  start,  \* start: where the next batch begins
  list,   \* extents_list
  moved   \* ghost: the layout has changed since the scan began

scanVars == <<layout, scan, start, list, moved>>

Extents == {e \in [from : 0..Pages, to : 0..Pages] : e.from < e.to}
IsLayout(l) == \A i, j \in DOMAIN l : i < j => l[i].to <= l[j].from
Lists == UNION {[1..n -> Extents] : n \in 0..Pages}
Layouts == {l : l \in {m \in Lists : IsLayout(m)}}

Covers(l, p) == \E i \in DOMAIN l : l[i].from <= p /\ p < l[i].to
SamePages(l, m) == \A p \in 0..Pages : Covers(l, p) <=> Covers(m, p)

ScanInit ==
  /\ layout \in Layouts
  /\ scan = "idle" /\ start = 0 /\ list = <<>> /\ moved = FALSE

\* get_extents opens the file.
Begin ==
  /\ scan \in {"idle", "done"}
  /\ scan' = "running" /\ start' = 0 /\ list' = <<>> /\ moved' = FALSE
  /\ UNCHANGED layout

\* Between two scans the caller changes the file and drops the list it got.
BetweenScans ==
  /\ scan \in {"idle", "done"}
  /\ scan' = "idle" /\ start' = 0 /\ list' = <<>> /\ moved' = FALSE
  /\ layout' \in Layouts \cup {layout}

\* The extents before page s, of which there are n; an extent that s lies in
\* is not one of them.
\* Fault: it is.
StartBefore(s, n) ==
  n \in 0..Len(layout) /\ \A i \in 1..Len(layout) : i <= n <=> layout[i].from <= s
EndBefore(s, n) ==
  n \in 0..Len(layout) /\ \A i \in 1..Len(layout) : i <= n <=> layout[i].to <= s

\* The last extent of a batch that begins after extent n.
BatchEnd(n) == IF n + MaxExtents <= Len(layout) THEN n + MaxExtents ELSE Len(layout)

\* Where the batch after one that ended with extent e begins.
\* Faults: one page later; with that extent.
SkipsAPage(e) == e.to + 1
WithTheLast(e) == e.from
After(e) == e.to

\* Extents came back.  The file system marks the file's last extent, or leaves
\* it unmarked, and then one more ioctl finds nothing.
Batch(n) ==
  /\ n < Len(layout)
  /\ list' = list \o SubSeq(layout, n + 1, BatchEnd(n))
  /\ \/ scan' = "done" /\ BatchEnd(n) = Len(layout) /\ UNCHANGED start
     \/ UNCHANGED scan /\ start' = After(layout[BatchEnd(n)])

NoneMapped(n) == n = Len(layout) /\ scan' = "done" /\ UNCHANGED <<start, list>>

Ioctl ==
  /\ scan = "running"
  /\ \E n \in 0..Len(layout) : EndBefore(start, n) /\ (Batch(n) \/ NoneMapped(n))
  /\ UNCHANGED <<layout, moved>>

\* The ioctl fails: an exception.
IoctlFails == scan = "running" /\ scan' = "failed" /\ UNCHANGED <<layout, start, list, moved>>

Relayout ==
  /\ layout' \in Layouts /\ layout' # layout /\ SamePages(layout, layout')
  /\ moved' = TRUE
  /\ UNCHANGED <<scan, start, list>>

ScanNext == Begin \/ BetweenScans \/ Ioctl \/ IoctlFails \/ Relayout

ScanSpec == ScanInit /\ [][ScanNext]_scanVars

-----------------------------------------------------------------------------
ScanTypeOK ==
  /\ layout \in Seq(Extents) /\ IsLayout(layout)
  /\ scan \in {"idle", "running", "done", "failed"}
  /\ start \in 0..Pages
  /\ list \in Seq(Extents)
  /\ moved \in BOOLEAN

\* A scan during which the layout stays as it is returns exactly the extents of
\* the file: none is missing between two batches and none is returned twice.
ScanExact == scan = "done" /\ ~ moved => list = layout

\* Whatever the file system does to the layout between the batches, every
\* mapped page of the file lies in an extent that was returned.
ScanCovers == scan = "done" => \A p \in 0..Pages : Covers(layout, p) => Covers(list, p)

\* A scan goes forward: whatever the file system does between the batches, every
\* extent ends behind the one before, so that none is returned twice and the
\* loop ends, with no more extents than the file has pages.
ScanAdvances ==
  /\ \A i, j \in DOMAIN list : i < j => list[i].to < list[j].to
  /\ Len(list) <= Pages
=============================================================================
