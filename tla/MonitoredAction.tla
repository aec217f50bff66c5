-------------------------- MODULE MonitoredAction --------------------------
(***************************************************************************)
(* A monitored action of the basic scenario (source/actions/actions.cpp,   *)
(* source/actions/rw_actions.cpp, source/scenarios/basic.cpp): the main    *)
(* thread reads or writes in work(), the monitor thread samples the byte   *)
(* counter, the timer thread raises "ended".  get_offset is not virtual,   *)
(* so randread and randwrite run the same code as read and write.  "ended" *)
(* and the counter are shared without synchronisation; their addresses     *)
(* escape before an opaque system call and both are of machine width, so   *)
(* the build reads them afresh and whole.  Operators marked "Fault:" are   *)
(* not part of the model; the mutation runs put them in place of the       *)
(* operator that follows.                                                  *)
(***************************************************************************)
EXTENDS Integers

CONSTANTS Block,      \* the "blocksize" parameter
          FileSizes,  \* the values of the "filesize" parameter to look at
          Wrap,       \* u_int64_t counts modulo this
          MaxCalls    \* bound: calls of pread or pwrite

ASSUME MonitoredActionAssumption ==
  /\ Block \in Nat \ {0} /\ FileSizes \subseteq Nat \ {0}
  /\ Wrap \in Nat \ {0} /\ MaxCalls \in Nat

VARIABLES
  operation, \* "read" or "write"
  size,      \* the "filesize" parameter
  main,      \* where the main thread is; "terminated": by std::terminate
  monitor,   \* where the monitor thread is
  timer,     \* where the timer thread is
  running,   \* m_running
  ended,     \* ended, on the stack of work()
  bytes,     \* m_read_bytes or m_written_bytes
  offset,    \* the offset of get_offset (read) or of work (write)
  calls,     \* how often pread or pwrite was called, for the bound
  failed,    \* one of these calls has failed
  logged     \* the value last put into m_monitoredData

data == <<bytes, offset, calls, failed>>
vars == <<operation, size, main, monitor, timer, running, ended, data, logged>>

Init ==
  /\ operation \in {"read", "write"} /\ size \in FileSizes
  /\ main = "start" /\ monitor = "none" /\ timer = "none"
  /\ running = FALSE /\ ended = FALSE
  /\ bytes = 0 /\ offset = 0 /\ calls = 0 /\ failed = FALSE /\ logged = 0

-----------------------------------------------------------------------------
\* The main thread.
StartMonitor ==
  /\ main = "start"
  /\ main' = "work" /\ monitor' = "check" /\ running' = TRUE
  /\ UNCHANGED <<operation, size, timer, ended, data, logged>>

StartTimer ==
  /\ main = "work"
  /\ main' = "loop" /\ timer' = "sleep"
  /\ UNCHANGED <<operation, size, monitor, running, ended, data, logged>>

\* prewrite has written whole blocks until the (new) file was large enough.
FileEnd == Block * ((size + Block - 1) \div Block)

\* Fault: the offset is not set back at the end of the file.
NeverWraps == calls = 0
\* get_offset starts again at zero when what was read is a multiple of the size.
WrapsAround == bytes % size = 0

ReadAt == IF WrapsAround THEN 0 ELSE offset + Block

\* A read ends at the end of the file, or fails (as it does when its buffer is
\* not aligned for direct I/O); the counter takes either result.
Read ==
  /\ operation = "read"
  /\ offset' = ReadAt
  /\ \E result \in {IF ReadAt >= FileEnd THEN 0 ELSE Block, -1} :
       /\ bytes' = (bytes + result) % Wrap
       /\ failed' = (failed \/ result = -1)
  /\ main' = main

\* Fault: a failed write is counted like any result.
Sum(result) == bytes + result
Written(result) == IF result = -1 THEN bytes ELSE Sum(result)
\* Faults: the next write goes to the next whole block; a failed write moves the
\* offset, too.
NextBlock(result) == offset + Block
Moved(result) == offset + result
NextOffset(result) == IF result = -1 THEN offset ELSE offset + result

\* A write may be short, and a failed one leaves the loop.
Write ==
  /\ operation = "write"
  /\ \E result \in 1..Block \cup {-1} :
       /\ bytes' = Written(result) % Wrap
       /\ offset' = NextOffset(result)
       /\ failed' = (result = -1)
       /\ main' = IF result = -1 THEN "leave" ELSE main

Transfer ==
  /\ main = "loop" /\ ~ ended /\ calls < MaxCalls
  /\ Read \/ Write
  /\ calls' = calls + 1
  /\ UNCHANGED <<operation, size, monitor, timer, running, ended, logged>>

LeaveLoop ==
  /\ main = "loop" /\ ended
  /\ main' = "leave"
  /\ UNCHANGED <<operation, size, monitor, timer, running, ended, data, logged>>

\* Fault: WriteMonitoredAction does not wait for its timer either.
TimerLeft == TRUE
TimerJoined == timer = "done"

\* The block of work that owns the timer thread is left: writing joins it,
\* reading destroys it while it is joinable, which ends the program.
LeaveWork ==
  /\ main = "leave"
  /\ \/ operation = "write" /\ TimerJoined /\ main' = "stop"
     \/ operation = "read" /\ main' = "terminated"
  /\ UNCHANGED <<operation, size, monitor, timer, running, ended, data, logged>>

\* Fault: the monitor is joined without having been told.
StillRunning == running
Stopped == FALSE

StopMonitor ==
  /\ main = "stop"
  /\ main' = "join" /\ running' = Stopped
  /\ UNCHANGED <<operation, size, monitor, timer, ended, data, logged>>

\* exec returns, and the scenario deletes the action.
Delete ==
  /\ main = "join" /\ monitor = "done"
  /\ main' = "deleted"
  /\ UNCHANGED <<operation, size, monitor, timer, running, ended, data, logged>>

Main == StartMonitor \/ StartTimer \/ Transfer \/ LeaveLoop \/ LeaveWork \/ StopMonitor \/ Delete

-----------------------------------------------------------------------------
\* The monitor thread logs, sleeps and looks at m_running again.
MonitorCheck ==
  /\ monitor = "check"
  /\ monitor' = IF running THEN "log" ELSE "done"
  /\ UNCHANGED <<operation, size, main, timer, running, ended, data, logged>>

MonitorLog ==
  /\ monitor = "log"
  /\ logged' = bytes /\ monitor' = "sleep"
  /\ UNCHANGED <<operation, size, main, timer, running, ended, data>>

MonitorWakes ==
  /\ monitor = "sleep"
  /\ monitor' = "check"
  /\ UNCHANGED <<operation, size, main, timer, running, ended, data, logged>>

Monitor == main # "terminated" /\ (MonitorCheck \/ MonitorLog \/ MonitorWakes)

\* The timer thread.
Timer ==
  /\ main # "terminated" /\ timer = "sleep"
  /\ timer' = "done" /\ ended' = TRUE
  /\ UNCHANGED <<operation, size, main, monitor, running, data, logged>>

Next == Main \/ Monitor \/ Timer

\* Sleeping threads wake up, and every thread that can run is run.
Spec == Init /\ [][Next]_vars /\ WF_vars(Main) /\ WF_vars(Monitor) /\ WF_vars(Timer)

-----------------------------------------------------------------------------
TypeOK ==
  /\ operation \in {"read", "write"} /\ size \in FileSizes
  /\ main \in {"start", "work", "loop", "leave", "stop", "join", "deleted", "terminated"}
  /\ monitor \in {"none", "check", "log", "sleep", "done"}
  /\ timer \in {"none", "sleep", "done"}
  /\ {running, ended, failed} \subseteq BOOLEAN
  /\ bytes \in 0..(Wrap - 1) /\ logged \in 0..(Wrap - 1)
  /\ {offset, calls} \subseteq Nat

\* No thread outlives what it uses: the timer writes to a variable of work()
\* while work() has not been left, the monitor uses the action until it is
\* deleted.
ThreadsEndInTime ==
  /\ timer = "sleep" => main \in {"loop", "leave"}
  /\ main = "deleted" => monitor = "done"

\* The samples of one action never decrease, as long as no read has failed, so
\* the speed the scenario computes from two of them is never negative.
SamplesGrow ==
  [][operation = "write" \/ ~ failed => logged' >= logged]_vars

\* Without errors and with a file of whole blocks, every read fills its buffer:
\* the reads start again at the beginning exactly at the end of the file.
EveryReadIsWhole ==
  operation = "read" /\ ~ failed /\ size % Block = 0 => bytes = calls * Block

\* What has been written is one range from the start of the file, however long
\* the run and whatever the "filesize" parameter.
WrittenInOrder == operation = "write" => offset = bytes

\* The action comes to its end.
Ends == <>(main \in {"deleted", "terminated"})

\* "What operation to perform. Supported: read, write, randread": a supported
\* operation does not end the program.
ReadReturns == main # "terminated"
=============================================================================
