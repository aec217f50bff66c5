---------------------------- MODULE ExtentTrend -----------------------------
(***************************************************************************)
(* How a file's extents become the decision to stop rapid aging: cycles of *)
(* the aging scenario (source/scenarios/aging.cpp, lines 140-167, 603-616  *)
(* and 625-668) with one file, the scan of its extents batch by batch      *)
(* (ExtentScan), the running total, and the curve of totals (ExtentCurve). *)
(* Aging has all handlers with the scan as one step and the verdict of the *)
(* curve as a free choice; here the handlers are what they do to the       *)
(* file's layout, and the scan and the verdict are the code's.             *)
(* Operators marked "Fault:" are not part of the model; the mutation runs  *)
(* put them in place of the operator that follows.                         *)
(***************************************************************************)
EXTENDS ExtentScan, ExtentCurve

CONSTANTS RapidMaxExtents, \* the "rapid-aging-max-extents" parameter
          MaxPoints,       \* bound: points of the curve
          MaxDrifts        \* bound: changes of the layout by the file system

ASSUME TrendAssumption == {RapidMaxExtents, MaxPoints, MaxDrifts} \subseteq Nat

VARIABLES
  phase,   \* "handler", "end" (the state entered next), "deleting", "ending"
           \* (the handler's scan is running), "died"
  exists,  \* the file exists
  touched, \* the file is in touched_files
  cached,  \* the number of extents in Node::_extents
  total,   \* FileTree::total_extents_count
  curve,   \* extents_curve
  clock,   \* "early", "judging" (rapid-aging-min-time is over), "over" (max-time is)
  rapid,   \* rapid_aging
  drifts   \* ghost: how often the file system has changed the layout by itself

cycleVars == <<phase, exists, touched, cached, total, curve>>
headVars == <<clock, rapid>>
vars == <<scanVars, cycleVars, headVars, drifts>>

Init ==
  /\ ScanInit /\ layout = <<>>
  /\ phase = "handler" /\ exists = FALSE /\ touched = FALSE
  /\ cached = 0 /\ total = 0 /\ curve = EmptyCurve
  /\ clock = "early" /\ rapid = TRUE /\ drifts = 0

\* The head of an iteration in rapid aging.
Later(c) == CASE c = "early" -> {"early", "judging", "over"}
              [] c = "judging" -> {"judging", "over"}
              [] c = "over" -> {"over"}

LoopHead ==
  \/ /\ rapid
     /\ clock' \in Later(clock)
     /\ rapid' = /\ ~ (clock' # "early" /\ Saturated(curve.points))
                 /\ clock' # "over"
                 /\ total <= RapidMaxExtents
  \/ ~ rapid /\ UNCHANGED headVars

\* A handler that creates or alters the file.
Alter ==
  /\ phase = "handler" /\ LoopHead
  /\ Len(curve.points) < MaxPoints
  /\ BetweenScans
  /\ exists' = TRUE /\ touched' = TRUE /\ phase' = "end"
  /\ UNCHANGED <<cached, total, curve, drifts>>

\* A handler that touches no file.
Pass ==
  /\ phase = "handler" /\ LoopHead /\ phase' = "end"
  /\ UNCHANGED <<scanVars, exists, touched, cached, total, curve, drifts>>

\* DELETE_FILE scans the file, removes it and takes off what the scan found.
Delete ==
  /\ phase = "handler" /\ exists /\ LoopHead /\ Begin /\ phase' = "deleting"
  /\ UNCHANGED <<exists, touched, cached, total, curve, drifts>>

Deleted ==
  /\ phase = "deleting" /\ scan = "done"
  /\ total' = total - Len(list)
  /\ BetweenScans /\ layout' = <<>>
  /\ exists' = FALSE /\ cached' = 0 /\ phase' = "end"
  /\ UNCHANGED <<touched, curve, headVars, drifts>>

\* END scans a touched file and corrects the total.
End ==
  /\ phase = "end" /\ LoopHead
  /\ IF touched
     THEN Begin /\ phase' = "ending"
     ELSE phase' = "handler" /\ UNCHANGED scanVars
  /\ UNCHANGED <<exists, touched, cached, total, curve, drifts>>

\* What the scan adds to the total.  Fault: the whole of it.
WholeScan == Len(list)
Correction == Len(list) - cached

Ended ==
  /\ phase = "ending" /\ scan = "done"
  /\ total' = total + Correction
  /\ cached' = Len(list)
  /\ curve' = AddPoint(curve, total')
  /\ touched' = FALSE /\ phase' = "handler"
  /\ BetweenScans
  /\ UNCHANGED <<layout, exists, headVars, drifts>>

\* One ioctl of a scan.
Scan ==
  /\ phase \in {"deleting", "ending"} /\ Ioctl
  /\ UNCHANGED <<cycleVars, headVars, drifts>>

ScanFails ==
  /\ phase \in {"deleting", "ending"} /\ IoctlFails /\ phase' = "died"
  /\ UNCHANGED <<exists, touched, cached, total, curve, headVars, drifts>>

\* The file system by itself, at any time.
FileSystem == Relayout /\ drifts < MaxDrifts /\ drifts' = drifts + 1 /\ UNCHANGED <<cycleVars, headVars>>

Next ==
  \/ Alter \/ Pass \/ Delete \/ Deleted \/ End \/ Ended \/ Scan \/ ScanFails
  \/ FileSystem

Spec == Init /\ [][Next]_vars

-----------------------------------------------------------------------------
\* As long as the file system leaves the layout alone, the running total between
\* two cycles is the number of extents the file has, whatever was altered,
\* scanned batch by batch and deleted before.
TotalExact == phase = "handler" /\ drifts = 0 => total = Len(layout)

\* What group i + 1 added to group i, over the mean that a group has added up
\* to the largest one, compared with the threshold.
Growth(y, i) == (y[i + 1] - y[i]) * Len(y) * Run
Threshold(y) == Largest(y) * Rise

\* Every group added at least, or less than, the threshold's part of the mean.
Steady(y) == Largest(y) > 0 /\ \A i \in 1..(Len(y) - 1) : Growth(y, i) >= Threshold(y)
Slowed(y) == Largest(y) > 0 /\ \A i \in 1..(Len(y) - 1) : Growth(y, i) < Threshold(y)

\* Since the first point the totals have gone up and down by less than half of
\* the threshold's part of the largest.
Settled(y) == Largest(y) > 0 /\ \A i \in DOMAIN y : 2 * Run * (Largest(y) - y[i]) < Threshold(y)

\* Only the time, the number of extents and a curve whose growth is not steady
\* end rapid aging.
GoesOnWhileSteady ==
  rapid /\ ~ rapid' /\ clock' # "over" /\ total <= RapidMaxExtents => ~ Steady(curve.points)

\* After the head of an iteration, once there are enough points.
StopsWhenSlowed ==
  /\ phase = "end" \/ phase' = "end"
  /\ clock' # "early"
  /\ Judged(curve.points) /\ (Slowed(curve.points) \/ Settled(curve.points))
  => ~ rapid'

\* The verdict of the fit is one on the growth of fragmentation, at whatever
\* level: rapid aging goes on while it is steady, and it stops at the next
\* iteration once there are enough points and it has slowed down in every group
\* or has settled (aging.cpp:146-156; polycurve.cpp:76-113).
TrendJudged == [][GoesOnWhileSteady /\ StopsWhenSlowed]_vars
=============================================================================
