------------------------------- MODULE LibAIO -------------------------------
(***************************************************************************)
(* The libaio engine (source/ioengines/engines/libaio.cpp) under the loops *)
(* that call it: CREATE_FILE and CREATE_FILE_OVERWRITE write a file block  *)
(* by block, CREATE_FILE_READ reads it (source/scenarios/aging.cpp).  The  *)
(* kernel finishes the submitted requests in any order, at any time.  Sizes *)
(* and offsets are bytes.  Operators marked "Fault:" are not part of the   *)
(* model; the mutation runs put them in place of the operator that follows.*)
(***************************************************************************)
EXTENDS Integers, Sequences, FiniteSets, FiniteSetsExt

CONSTANTS Depth,   \* the "iodepth" parameter
          Block,   \* the "blocksize" parameter
          Want     \* the size the file is to get, or has

ASSUME LibAIOAssumption ==
  Depth \in Nat \ {0} /\ Block \in Nat \ {0} /\ Want \in Nat

VARIABLES
  mode,       \* "write" or "read"
  pc,         \* "loop", "complete", "closed" (the loop is done) or "failed"
  offset,     \* offset of the loop
  optimistic, \* written_bytes_optimistic, read_bytes_optimistic
  counted,    \* written_bytes_true, read_bytes_true
  submitted,  \* LibAIOEngine::submitted_cbs
  requests,   \* every request made: its offset, and its result when finished
  ring,       \* finished requests nobody has fetched yet, as a sequence
  moved       \* the bytes of the file that have been written or read

loopVars   == <<mode, offset, optimistic, counted>>
vars == <<pc, loopVars, submitted, requests, ring, moved>>

Error   == -1
Pending == -2

Init ==
  /\ mode \in {"write", "read"} /\ pc = "loop"
  /\ offset = 0 /\ optimistic = 0 /\ counted = 0
  /\ submitted = 0 /\ requests = <<>> /\ ring = <<>> /\ moved = {}

InFlight == {i \in DOMAIN requests : requests[i].result = Pending}

-----------------------------------------------------------------------------
\* The kernel: a write moves at least a byte and may be cut short by a full
\* disk, a read is cut short by the end of the file only.
Results(i) ==
  {Error} \cup
  IF mode = "write" THEN 1..Block ELSE {Max({0, Min({Block, Want - requests[i].at})})}

Kernel ==
  \E i \in InFlight : \E result \in Results(i) :
    /\ requests' = [requests EXCEPT ![i].result = result]
    /\ ring' = Append(ring, i)
    /\ moved' = moved \cup (requests[i].at .. (requests[i].at + result - 1))
    /\ UNCHANGED <<pc, loopVars, submitted>>

-----------------------------------------------------------------------------
\* wait_for_some_completions: io_getevents blocks until there is an event, and
\* fetches the events there are, Depth of them at most.  The first event of a
\* failed request throws.
Batch == {ring[k] : k \in 1..Min({Depth, Len(ring)})}
BatchFails == \E i \in Batch : requests[i].result = Error
BytesOf(S) == MapThenSumSet(LAMBDA i : requests[i].result, S)

\* What a wait without failures leaves in the ring and in submitted_cbs.
\* Fault: the events are not taken off submitted_cbs.
NothingTakenOff == submitted
TakenOff == submitted - Min({Depth, Len(ring)})
\* Fault: only the first event fetched leaves the ring.
FirstLeaves == SubSeq(ring, 2, Len(ring))
RingLeft == SubSeq(ring, Min({Depth, Len(ring)}) + 1, Len(ring))

Submit == requests' = Append(requests, [at |-> offset, result |-> Pending])

\* Fault: one request too many is let through.
OneTooMany == submitted > Depth
QueueFull == submitted >= Depth

\* One iteration of a loop: write or read, which first waits when the queue is
\* full.  What it returns moves the offset on, whichever requests it is for;
\* the request itself goes to the offset from before the wait.
Iterate ==
  /\ pc = "loop" /\ optimistic < Want
  /\ \/ /\ ~ QueueFull
        /\ submitted' = submitted + 1
        /\ UNCHANGED <<offset, counted, ring>>
     \/ /\ QueueFull /\ ring # <<>> /\ ~ BatchFails
        /\ offset' = offset + BytesOf(Batch)
        /\ counted' = counted + BytesOf(Batch)
        /\ ring' = RingLeft
        /\ submitted' = TakenOff + 1
  /\ Submit
  /\ optimistic' = optimistic + Block
  /\ UNCHANGED <<mode, pc, moved>>

\* The loop is over.
Complete ==
  /\ pc = "loop" /\ optimistic >= Want
  /\ pc' = "complete"
  /\ UNCHANGED <<loopVars, submitted, requests, ring, moved>>

\* complete waits until nothing is submitted any more.
Drain ==
  /\ pc = "complete" /\ submitted > 0
  /\ ring # <<>> /\ ~ BatchFails
  /\ counted' = counted + BytesOf(Batch)
  /\ ring' = RingLeft
  /\ submitted' = TakenOff
  /\ UNCHANGED <<mode, pc, offset, optimistic, requests, moved>>

\* complete returns; the caller closes the file and frees the buffer.
\* Fault: complete returns after one wait.
DrainedOnce == counted > 0
Drained == submitted = 0

Close ==
  /\ pc = "complete" /\ Drained
  /\ pc' = "closed"
  /\ UNCHANGED <<loopVars, submitted, requests, ring, moved>>

\* A wait that fetches a failed request, or an io_submit that fails, throws.
Fail ==
  /\ \/ pc = "loop" /\ optimistic < Want /\ (QueueFull => ring # <<>>)
     \/ pc = "complete" /\ submitted > 0 /\ ring # <<>> /\ BatchFails
  /\ pc' = "failed"
  /\ UNCHANGED <<loopVars, submitted, requests, ring, moved>>

Caller == Iterate \/ Complete \/ Drain \/ Close \/ Fail

Next == Kernel \/ Caller

Spec == Init /\ [][Next]_vars

\* The kernel finishes every request, and the calling thread runs.
FairSpec == Spec /\ WF_vars(Kernel) /\ WF_vars(Caller)

-----------------------------------------------------------------------------
TypeOK ==
  /\ mode \in {"write", "read"} /\ pc \in {"loop", "complete", "closed", "failed"}
  /\ {offset, optimistic, counted, submitted} \subseteq Nat
  /\ requests \in Seq([at : Nat, result : {Error, Pending} \cup 0..Block])
  /\ ring \in Seq(DOMAIN requests)
  /\ moved \subseteq Nat

\* submitted_cbs is the number of requests the kernel still holds, in flight or
\* unfetched, and never exceeds what io_setup was told; a wait for events
\* therefore always has an event to come.
Outstanding ==
  /\ submitted = Cardinality(InFlight) + Len(ring)
  /\ submitted <= Depth

\* Every finished request is counted once, when it is fetched, and nothing else
\* is: written_bytes_true differs from the optimistic count exactly by what
\* short writes left out, once the loop has completed.
CountedOnce ==
  counted = BytesOf({i \in DOMAIN requests : requests[i].result >= 0} \ {ring[k] : k \in DOMAIN ring})

\* When the buffer is freed and the file closed, no request uses them.
BufferReleased == pc = "closed" => InFlight = {} /\ ring = <<>>

\* The engine keeps the promise its callers count on.
Contract ==
  INSTANCE IOEngine WITH
    phase <- CASE pc = "closed" -> "complete" [] pc = "failed" -> "failed" [] OTHER -> "open",
    asked <- Len(requests), answered <- Len(requests) - submitted, bytes <- counted
KeepsContract == Contract!Spec

\* A loop comes to its end.
Ends == <>(pc \in {"closed", "failed"})

\* "the minimum file size is 2GB (if there is enough space on the filesystem)":
\* when no write was cut short, which is what the loop compares its two counts
\* for, the file has the size that was asked for.
FileAsLargeAsAsked ==
  pc = "closed" /\ mode = "write" /\ counted = optimistic => 0..(Want - 1) \subseteq moved
=============================================================================
