------------------------------ MODULE Session ------------------------------
(***************************************************************************)
(* One run of the program: the command line (standalone/source/main.cpp),  *)
(* the set-up of the engine and of the scenario, the scenario's results,   *)
(* what is saved and printed at the end, and SIGINT at any moment.  While  *)
(* the scenario runs, SIGINT enters a handler (standalone/source/          *)
(* interupts.h) that prints and saves the results up to now and exits; at  *)
(* any other time it kills the process.                                    *)
(*                                                                         *)
(* The handler prints, logs and allocates, which a signal handler may not: *)
(* where the program itself may be inside the allocator or the logger, the *)
(* handler may hang or crash, or work.                                     *)
(***************************************************************************)
EXTENDS ResultLog

CONSTANTS Texts,       \* the texts given for sizes and times
          CreateFile,  \* the action after whose operation the cycle may go on
          Followers,   \* the actions that follow it: overwriting and reading the file
          MaxResults   \* bound: operations, results, or samples, of one run

ASSUME SessionAssumption ==
  /\ CreateFile \in Actions /\ Followers \subseteq Actions \ {CreateFile}
  /\ MaxResults \in Nat

VARIABLES
  scenario,   \* "none", "aging" or "basic"
  outcome,    \* "running", "exit 0", "exit 1", "exit 2", "aborted", "killed", "hangs"
  handled,    \* sigint_handler is installed
  caught,     \* the stage in which SIGINT entered the handler, or "none"
  performed,  \* history: every operation the scenario has done, in order
  samples,    \* BasicResult::results: how many
  files,      \* the results file and the file of unfinished results
  printed     \* the log that was printed, and the report on it

progVars == <<scenario, handled, caught, performed, samples>>
vars == <<stage, outcome, progVars, logVars, files, printed>>

Absent == [state |-> "absent", log |-> <<>>]
Unprinted == [log |-> <<>>, report |-> <<>>]

Init ==
  /\ stage = "globals" /\ outcome = "running" /\ scenario = "none"
  /\ handled = FALSE /\ caught = "none"
  /\ performed = <<>> /\ samples = 0 /\ result \in Uninitialized
  /\ results = <<>> /\ durations = [a \in {} |-> 0] /\ sizes = [a \in {} |-> Zero]
  /\ files = [f \in {"results", "unfinished"} |-> Absent] /\ printed = Unprinted

Goto(s) == stage' = s /\ outcome' = outcome
Ends(how) == stage' = "over" /\ outcome' = how

-----------------------------------------------------------------------------
\* The command line.  -h and -v end the program, an unknown option does not; a
\* missing or unknown name prints the usage; the help of an engine or scenario
\* ends the program, and an option they do not know throws.
Globals ==
  /\ stage = "globals"
  /\ Goto("engine") \/ Ends("exit 0")
  /\ UNCHANGED <<progVars, logVars, files, printed>>

Engine ==
  /\ stage = "engine"
  /\ \/ Goto("scenario")
     \/ Ends("exit 1")
     \/ Ends("exit 0")
     \/ Ends("aborted")
  /\ UNCHANGED <<progVars, logVars, files, printed>>

Choose(name) ==
  /\ stage = "scenario"
  /\ \/ Goto("install") /\ scenario' = name
     \/ (Ends("exit 1") \/ Ends("exit 0") \/ Ends("aborted")) /\ scenario' = scenario
  /\ UNCHANGED <<handled, caught, performed, samples, logVars, files, printed>>

\* signal(SIGINT, sigint_handler), and the head of run().
Install ==
  /\ stage = "install" /\ Goto("start") /\ handled' = TRUE
  /\ UNCHANGED <<scenario, caught, performed, samples, logVars, files, printed>>

\* "basic" reads its texts and the operation first; "aging" its directory and
\* its time.  What is wrong there throws, except an unknown operation, for
\* which run() returns at once.
StartBasic(blocksize, filesize, time) ==
  /\ stage = "start" /\ scenario = "basic"
  /\ IF Parses(blocksize, "B") /\ Parses(filesize, "KB") /\ TimeParses(time)
       THEN Goto("running") \/ Goto("returned")
       ELSE Ends("aborted")
  /\ UNCHANGED <<progVars, logVars, files, printed>>

StartAging(time, usable) ==
  /\ stage = "start" /\ scenario = "aging"
  /\ IF usable /\ TimeParses(time) THEN Goto("running") ELSE Ends("aborted")
  /\ UNCHANGED <<progVars, logVars, files, printed>>

-----------------------------------------------------------------------------
\* What a handler fills in: DELETE_FILE neither the size nor the duration.
Filled(a, s, d) ==
  [result EXCEPT !.action = a, !.path = Len(performed) + 1,
                 !.size     = IF a = DeleteFile THEN @ ELSE s,
                 !.duration = IF a = DeleteFile THEN @ ELSE d]

\* The scenario.  A cycle of aging does an operation, which fills the result, or
\* none; after CREATE_FILE it may go on to overwrite or read the file, which
\* fills the same result anew.  One that fails throws through main(), and so
\* does a check of the loop.
Operate(a, s, d) ==
  /\ stage = "running" /\ scenario = "aging" /\ Len(performed) < MaxResults
  /\ IF result.path = 0 THEN a \notin Followers
     ELSE result.action = CreateFile /\ a \in Followers
  /\ result' = Filled(a, s, d)
  /\ performed' = Append(performed, result')
  /\ UNCHANGED <<stage, outcome, scenario, handled, caught, samples, results, durations, sizes,
                 files, printed>>

\* END, at the end of the cycle, commits the result.
EndCycle ==
  /\ stage = "running" /\ scenario = "aging" /\ Len(results) < MaxResults
  /\ Goto("push")
  /\ UNCHANGED <<progVars, logVars, files, printed>>

CommitStep ==
  /\ Commit
  /\ UNCHANGED <<outcome, progVars, files, printed>>

\* result = Result()
NewResult ==
  /\ stage = "committed" /\ Goto("running")
  /\ result' = Blank
  /\ UNCHANGED <<progVars, results, durations, sizes, files, printed>>

\* The logging thread of "basic" commits a sample.
Sample ==
  /\ stage = "running" /\ scenario = "basic" /\ samples < MaxResults
  /\ samples' = samples + 1
  /\ UNCHANGED <<stage, outcome, scenario, handled, caught, performed, logVars, files, printed>>

Fails ==
  /\ stage = "running" /\ Ends("aborted")
  /\ UNCHANGED <<progVars, logVars, files, printed>>

\* A run bounded by time stops anywhere in a cycle.
Return ==
  /\ stage = "running" /\ Goto("returned")
  /\ UNCHANGED <<progVars, logVars, files, printed>>

\* Fault: main() saves first and takes the handler away afterwards.
SaveFirst ==
  /\ stage = "returned" /\ Goto("open")
  /\ UNCHANGED <<progVars, logVars, files, printed>>

\* signal(SIGINT, SIG_DFL)
Uninstall ==
  /\ stage = "returned" /\ Goto("open") /\ handled' = FALSE
  /\ UNCHANGED <<scenario, caught, performed, samples, logVars, files, printed>>

-----------------------------------------------------------------------------
\* save(): opening the file empties it; a file that cannot be opened, or a disk
\* that fills up during the write, goes unnoticed.
Open(file, next) ==
  /\ Goto(next)
  /\ files' = [files EXCEPT ![file].state = "empty"] \/ files' = files
  /\ UNCHANGED <<progVars, logVars, printed>>

Write(file, log) ==
  \/ files' = IF files[file].state = "absent" THEN files
               ELSE [files EXCEPT ![file] = [state |-> "whole", log |-> log]]
  \/ files[file].state = "empty" /\ files' = [files EXCEPT ![file].state = "short"]

\* Result::save() names every action before it writes anything.
SaveThrows(file, log) == files[file].state = "empty" /\ Unnamed(log)

\* BasicResult::save() writes the samples, Result::save() the results.
Samples(n) == [i \in 1..n |-> i]
SavedLog == IF scenario = "basic" THEN Samples(samples) ELSE results

OpenResults == stage = "open" /\ Open("results", "write")

WriteResults ==
  /\ stage = "write"
  /\ IF scenario = "aging" /\ SaveThrows("results", results)
       THEN Ends("aborted") /\ files' = files
       ELSE Goto("print") /\ Write("results", SavedLog)
  /\ UNCHANGED <<progVars, logVars, printed>>

\* print() of either scenario is Result::print().
PrintLog(log) ==
  /\ IF PrintThrows(log) THEN printed' = printed
     ELSE printed' = [log |-> log, report |-> Report(log)]
  /\ UNCHANGED <<progVars, logVars, files>>

PrintResults ==
  /\ stage = "print" /\ PrintLog(results)
  /\ IF PrintThrows(results) THEN Ends("aborted") ELSE Ends("exit 0")

-----------------------------------------------------------------------------
\* Where the scenario may be inside the allocator or the logger.
Risky == {"start", "running", "push", "growing", "durations", "sizes", "committed"}

Killed ==
  /\ ~handled /\ stage # "over" /\ Ends("killed")
  /\ UNCHANGED <<progVars, logVars, files, printed>>

Interrupt ==
  /\ handled /\ caught = "none" /\ stage # "over"
  /\ caught' = stage
  /\ \/ Goto("handlerPrint")
     \/ stage \in Risky /\ (Ends("hangs") \/ Ends("aborted"))
  /\ UNCHANGED <<scenario, handled, performed, samples, logVars, files, printed>>

\* What the handler finds in the vector.  While the array grows, some of its
\* elements have already been moved to the new one.
Moved(log, k) == [i \in DOMAIN log |-> IF i <= k THEN [log[i] EXCEPT !.path = "moved"] ELSE log[i]]
Found(k) == IF caught = "growing" THEN Moved(results, k) ELSE results

HandlerPrint ==
  /\ stage = "handlerPrint" /\ PrintLog(results)
  /\ IF PrintThrows(results) THEN Ends("aborted") ELSE Goto("handlerOpen")

HandlerOpen == stage = "handlerOpen" /\ Open("unfinished", "handlerWrite")

\* The handler saves the results, never the samples, and exits with the number
\* of the signal; exit() destroys the samples under the threads of "basic".
HandlerWrite(k) ==
  /\ stage = "handlerWrite"
  /\ IF SaveThrows("unfinished", results)
       THEN Ends("aborted") /\ files' = files
       ELSE /\ Ends("exit 2") \/ (scenario = "basic" /\ Ends("aborted"))
            /\ Write("unfinished", Found(k))
  /\ UNCHANGED <<progVars, logVars, printed>>

Main ==
  \/ Globals \/ Engine \/ Install \/ Uninstall
  \/ \E name \in {"aging", "basic"} : Choose(name)
  \/ \E blocksize, filesize, time \in Texts : StartBasic(blocksize, filesize, time)
  \/ \E time \in Texts, usable \in BOOLEAN : StartAging(time, usable)
  \/ \E a \in Actions, s \in Sizes, d \in Durations : Operate(a, s, d)
  \/ EndCycle \/ CommitStep \/ NewResult \/ Sample \/ Fails \/ Return
  \/ OpenResults \/ WriteResults \/ PrintResults

Handler == HandlerPrint \/ HandlerOpen \/ \E k \in 0..Len(results) : HandlerWrite(k)

Next == Main \/ Handler \/ Killed \/ Interrupt

Spec == Init /\ [][Next]_vars

-----------------------------------------------------------------------------
\* CREATE_FILE, when the same cycle went on to overwrite or read the file.
Superseded(n) == n < Len(performed) /\ performed[n + 1].action \in Followers

\* The log accounts for what was performed: its entries are operations that were
\* done, as they were done and in their order, or cycles that did none; and what
\* is missing is an operation another one of its cycle has superseded, or the
\* one whose result is still being filled or committed.
Accounts(log) ==
  LET entries == {i \in DOMAIN log : log[i].path # 0}
  IN  /\ \A i \in entries : log[i].path \in DOMAIN performed /\ log[i] = performed[log[i].path]
      /\ \A i, j \in entries : i < j => log[i].path < log[j].path
      /\ \A n \in DOMAIN performed :
           n = result.path \/ Superseded(n) \/ \E i \in entries : log[i].path = n

\* A file that was written whole holds every sample of "basic", or accounts for
\* the operations of "aging", the cycle the run was stopped in excepted.  So does
\* the handler's, unless the interrupt met push_back while it was moving the
\* elements (aging.cpp:236-243, 331-335, 392-396, 647-649; result.h:90-100,
\* 151-178; interupts.h:11-20).
FilesHoldTheLog ==
  /\ files["results"].state = "whole" =>
       IF scenario = "basic" THEN files["results"].log = Samples(samples)
       ELSE Accounts(files["results"].log)
  /\ files["unfinished"].state = "whole" /\ caught # "growing" =>
       Accounts(files["unfinished"].log)

\* The handler is gone before the results are saved, so that one process never
\* opens both files: no interrupt falls into the save and exits before it is
\* complete, leaving two accounts of one run (main.cpp:147-151).
OneFile == files["results"].state = "absent" \/ files["unfinished"].state = "absent"

SizeTotal(log, a) == Total([i \in DOMAIN ActionResults(log, a) |-> ActionResults(log, a)[i].size])

\* The totals printed at the end are those of the log beside them, in whole MB;
\* the ones the handler prints may miss the last result, which was being
\* committed (result.h:90-100, 217-230).
TotalsMatchLog ==
  printed.report # <<>> =>
    LET lines == printed.report.mb
        log   == printed.log
    IN  /\ DOMAIN lines \subseteq UsedActions(log)
        /\ \A a \in UsedActions(log) :
             \/ a \in DOMAIN lines /\ lines[a] = SizeTotal(log, a) \div Bytes["MB"]
             \/ /\ caught # "none" /\ log # <<>> /\ log[Len(log)].action = a
                /\ IF a \in DOMAIN lines THEN lines[a] = SizeTotal(Front(log), a) \div Bytes["MB"]
                   ELSE a \notin UsedActions(Front(log))

\* The one thing print() throws at is the action nobody set of the first result,
\* committed by a first cycle that did no operation: no later result has an
\* action without a name, and no total, whatever its bytes and whenever the
\* handler meets it, refuses the conversion to MB (aging.cpp:126, 649;
\* result.h:96, 129, 209, 227; data_sizes.h:27, 72-78).
PrintThrowsAtFirstOnly ==
  stage \in {"print", "handlerPrint"} /\ PrintThrows(results) =>
    results[1].action = Unknown /\ results[1].path = 0

\* The table is a summary of its column: its quartiles are ordered and lie
\* between the extremes, and so does the mean, for any number of results
\* (result.h:262-280).
StatisticsOrdered ==
  printed.report # <<>> =>
    \A a \in DOMAIN printed.report.stats :
      LET s == printed.report.stats[a]
      IN  /\ s.min <= s.q1 /\ 2 * s.q1 <= s.median2 /\ s.median2 <= 2 * s.q3 /\ s.q3 <= s.max
          /\ s.count * s.min <= s.sum /\ s.sum <= s.count * s.max

\* The handler says "Here are the results up to now" (interupts.h:13): of the
\* samples "basic" has taken, its file misses one at most.
ResultsUpToNow ==
  files["unfinished"].state = "whole" /\ scenario = "basic" =>
    Len(files["unfinished"].log) >= samples - 1
=============================================================================
