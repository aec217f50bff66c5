------------------------------ MODULE IOEngine ------------------------------
(***************************************************************************)
(* What the loops of the aging scenario may count on when they call an I/O *)
(* engine (include/filestorm/ioengines/ioengine.h): read and write take a  *)
(* request and report the bytes of requests that have finished by then,    *)
(* this one or earlier ones; complete reports all that are left.  Every    *)
(* request is reported once.                                               *)
(***************************************************************************)
EXTENDS Integers

CONSTANTS Depth,   \* requests an engine may leave unreported
          Block    \* bytes of a request

VARIABLES phase,     \* "open", "complete", "failed"
          asked,     \* requests made
          answered,  \* requests reported
          bytes      \* bytes reported

vars == <<phase, asked, answered, bytes>>

Init == phase = "open" /\ asked = 0 /\ answered = 0 /\ bytes = 0

Answer(n) ==
  /\ answered' = answered + n
  /\ bytes' \in bytes..(bytes + n * Block)

\* read or write.
Call ==
  /\ phase = "open" /\ phase' = "open"
  /\ asked' = asked + 1
  /\ \E n \in 0..(asked' - answered) : Answer(n)
  /\ asked' - answered' <= Depth

\* complete reports in any number of portions, and is done when none is left.
Complete ==
  /\ phase = "open" /\ asked' = asked
  /\ \E n \in 0..(asked - answered) : Answer(n)
  /\ \/ phase' = "open"
     \/ phase' = "complete" /\ answered' = asked

Fail == phase = "open" /\ phase' = "failed" /\ UNCHANGED <<asked, answered, bytes>>

Next == Call \/ Complete \/ Fail

Spec == Init /\ [][Next]_vars
=============================================================================
