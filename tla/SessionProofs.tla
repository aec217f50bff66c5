--------------------------- MODULE SessionProofs ---------------------------
(***************************************************************************)
(* Session: what is saved accounts for what was performed, whenever SIGINT  *)
(* comes; the two results files exclude each other; and print() throws at  *)
(* the uninitialized first result and at nothing else.                     *)
(*                                                                         *)
(* FilesHoldTheLog is not inductive: it says nothing before a file is      *)
(* written.  What carries it is that the log accounts for what was         *)
(* performed at every statement, the result being filled excepted; and     *)
(* that the log ends in this result where push_back has taken it and it    *)
(* has not been reset yet, which lets the reset forget it.                 *)
(*                                                                         *)
(* The second part is about the table: the loops over the log as functions *)
(* of the log, the statistics of a sorted column, and the totals, which    *)
(* are at every statement of commit() those of the log with or without its *)
(* last result (TotalsKept).                                               *)
(***************************************************************************)
EXTENDS Session, NatRecursion, SequenceTheorems, TLAPS

Before == {"globals", "engine", "scenario", "install"}
Pushing == {"push", "growing"}
Committing == {"durations", "sizes", "addDuration", "addSize"}
Handled == {"start", "running", "returned", "committed"} \cup Pushing \cup Committing
Saving == {"open", "write", "print"}
InHandler == {"handlerPrint", "handlerOpen", "handlerWrite"}

\* The stage of main(), which the handler interrupts and never resumes.
At == IF caught = "none" THEN stage ELSE caught

Control ==
  /\ stage \in Before \cup Handled \cup Saving \cup InHandler \cup {"over"}
  /\ caught \in Handled \cup {"none"}
  /\ stage \in Before \cup Saving => ~handled
  /\ stage \in Handled \cup InHandler => handled
  /\ stage \in InHandler => caught # "none"
  /\ caught # "none" => handled /\ stage \in InHandler \cup {"over"}

\* push_back has taken the result, and it has not been reset.
Taken == At \in Committing \cup {"committed"}

Types == results \in Seq(Results) /\ performed \in Seq(Results) /\ result \in Results

\* The result being filled is that of the last operation, or of none; it ends the
\* log once push_back has taken it, and is not in the log before.
Filling ==
  /\ result.path # 0 => /\ result.path = Len(performed) /\ performed # <<>>
                        /\ performed[Len(performed)] = result
  /\ IF Taken THEN results # <<>> /\ results[Len(results)] = result
     ELSE result.path # 0 => \A i \in 1..Len(results) : results[i].path # result.path

\* Only the first cycle finds an action nobody set.
FirstOnly ==
  /\ result.action = Unknown => result.path = 0 /\ (Taken \/ results = <<>>)
  /\ \A i \in 1..Len(results) : results[i].action = Unknown => i = 1 /\ results[i].path = 0

\* The entries of the log are the operations done, in their order ...
Entries(log) ==
  /\ \A i \in 1..Len(log) : log[i].path # 0 =>
       log[i].path \in 1..Len(performed) /\ log[i] = performed[log[i].path]
  /\ \A i, j \in 1..Len(log) : i < j /\ log[i].path # 0 /\ log[j].path # 0 =>
       log[i].path < log[j].path

\* ... and none is missing but a superseded one and the one being filled.
Complete(log) ==
  \A n \in 1..Len(performed) :
    n = result.path \/ Superseded(n) \/ \E i \in 1..Len(log) : log[i].path = n

LogIsRight == Types /\ Filling /\ FirstOnly /\ Entries(results) /\ Complete(results)

\* What push_back has moved has lost its path.
MovedResults == [action : Actions \cup {Unknown}, size : Sizes \cup {0},
                 duration : Durations \cup {0}, path : Nat \cup {"moved"}]
Logs == Seq(MovedResults) \cup Seq(Nat)

Files ==
  /\ files \in [{"results", "unfinished"} ->
                 [state : {"absent", "empty", "short", "whole"}, log : Logs]]
  /\ files["results"].state # "absent" => ~handled /\ stage \in {"write", "print", "over"}
  /\ stage = "write" => files["results"].state \in {"absent", "empty"}
  /\ files["unfinished"].state # "absent" => caught # "none" /\ stage \in {"handlerWrite", "over"}
  /\ stage = "handlerWrite" => files["unfinished"].state \in {"absent", "empty"}

SamplesOK == samples \in Nat

IInv == Control /\ LogIsRight /\ Files /\ SamplesOK /\ FilesHoldTheLog

RoundingAllowed == \A a \in DOMAIN sizes : sizes[a].rounding = TRUE

-----------------------------------------------------------------------------
\* The log accounts for what was performed.
LEMMA LogAccounts ==
  ASSUME LogIsRight PROVE Accounts(results)
<1>1. DOMAIN results = 1..Len(results) /\ DOMAIN performed = 1..Len(performed)
  BY LenProperties DEF LogIsRight, Types
<1>2. 0 \notin 1..Len(performed)
  OBVIOUS
<1> QED
  BY <1>1, <1>2 DEF LogIsRight, Accounts, Entries, Complete

\* Results are movable.
LEMMA ResultsMovable ==
  ASSUME NEW log \in Seq(Results) PROVE log \in Seq(MovedResults)
<1>1. \A r \in Results : r \in MovedResults
  BY DEF Results, MovedResults
<1> QED
  BY <1>1

\* The numbers of a result are natural numbers.
LEMMA ResultNumbers ==
  \A r \in Results : r.size \in Nat /\ r.duration \in Nat
<1>1. \A n \in Sizes \cup {0} : n \in Nat
  BY ResultAssumption
<1>2. \A n \in Durations \cup {0} : n \in Nat
  BY ResultAssumption
<1> QED
  BY <1>1, <1>2 DEF Results

\* Elements keep their place, their action, their size and their duration when
\* they are moved.
LEMMA FoundIsLog ==
  ASSUME results \in Seq(Results), NEW k \in Nat
  PROVE  Found(k) \in Seq(MovedResults) /\ (caught # "growing" => Found(k) = results)
<1>1. \A r \in Results : r \in MovedResults /\ [r EXCEPT !.path = "moved"] \in MovedResults
  BY DEF Results, MovedResults
<1>2. Moved(results, k) \in [1..Len(results) -> MovedResults]
  <2>1. \A i \in 1..Len(results) : results[i] \in Results
    OBVIOUS
  <2>2. \A i \in 1..Len(results) :
          (IF i <= k THEN [results[i] EXCEPT !.path = "moved"] ELSE results[i]) \in MovedResults
    BY <1>1, <2>1
  <2> QED
    BY <2>2 DEF Moved
<1>3. Moved(results, k) \in Seq(MovedResults)
  BY <1>2, Len(results) \in Nat
<1>4. results \in Seq(MovedResults)
  BY ResultsMovable
<1> QED
  BY <1>3, <1>4 DEF Found

\* At the start nothing has been done and no file exists.
LEMMA Starts == Init => IInv
<1> SUFFICES ASSUME Init PROVE IInv
  OBVIOUS
<1>1. Control
  BY DEF Init, Control, Before, Handled, Saving, InHandler, Pushing, Committing
<1>2. LogIsRight
  <2>1. results = <<>> /\ performed = <<>> /\ Len(results) = 0 /\ Len(performed) = 0 /\ ~Taken
    BY DEF Init, Taken, At, Committing
  <2>2. result \in Results /\ result.path = 0
    BY DEF Init, Uninitialized, Results
  <2>3. \A i : i \notin 1..0
    OBVIOUS
  <2> QED
    BY <2>1, <2>2, <2>3 DEF LogIsRight, Types, Filling, FirstOnly, Entries, Complete
<1>3. files \in [{"results", "unfinished"} -> [state : {"absent"}, log : Logs]]
  <2>1. <<>> \in Logs
    BY DEF Logs
  <2> QED
    BY <2>1 DEF Init, Absent
<1>4. Files /\ FilesHoldTheLog /\ SamplesOK
  BY <1>3 DEF Init, Files, FilesHoldTheLog, SamplesOK, Absent
<1> QED
  BY <1>1, <1>2, <1>4 DEF IInv

\* What leaves the log and what was performed alone keeps it right.
LEMMA LogStays ==
  ASSUME LogIsRight, UNCHANGED <<performed, result, results>>, Taken' <=> Taken
  PROVE  LogIsRight'
<1>1. Types' /\ FirstOnly' /\ Entries(results)'
  BY DEF LogIsRight, Types, FirstOnly, Entries
<1>2. Filling'
  BY DEF LogIsRight, Filling
<1>3. Complete(results)'
  BY DEF LogIsRight, Complete, Superseded
<1> QED
  BY <1>1, <1>2, <1>3 DEF LogIsRight

\* An operation becomes the one being filled, and supersedes the one before if
\* this has filled the same result.
LEMMA OperateKeepsLog ==
  ASSUME LogIsRight, NEW a \in Actions, NEW s \in Sizes, NEW d \in Durations,
         Operate(a, s, d), ~Taken, ~Taken'
  PROVE  LogIsRight'
<1> DEFINE n == Len(performed)
           L == Len(results)
<1>1. /\ n \in Nat /\ L \in Nat /\ performed \in Seq(Results) /\ results \in Seq(Results)
      /\ result \in Results /\ results' = results /\ performed' = Append(performed, result')
      /\ result' = Filled(a, s, d)
      /\ IF result.path = 0 THEN a \notin Followers
         ELSE result.action = CreateFile /\ a \in Followers
  BY LenProperties DEF Operate, LogIsRight, Types
<1> HIDE DEF n, L
<1>2. result' \in Results /\ result'.path = n + 1 /\ result'.action = a
  <2>1. PICK b \in Actions \cup {Unknown}, t \in Sizes \cup {0}, e \in Durations \cup {0}, p \in Nat :
          result = [action |-> b, size |-> t, duration |-> e, path |-> p]
    BY <1>1 DEF Results
  <2> DEFINE t2 == IF a = DeleteFile THEN t ELSE s
             e2 == IF a = DeleteFile THEN e ELSE d
  <2>2. t2 \in Sizes \cup {0} /\ e2 \in Durations \cup {0}
    OBVIOUS
  <2>3. result' = [action |-> a, size |-> t2, duration |-> e2, path |-> n + 1]
    BY <1>1, <2>1 DEF Filled, n
  <2> HIDE DEF t2, e2
  <2> QED
    BY <1>1, <2>2, <2>3 DEF Results
<1>3. /\ performed' \in Seq(Results) /\ Len(performed') = n + 1 /\ performed'[n + 1] = result'
      /\ \A k \in 1..n : performed'[k] = performed[k]
  BY <1>1, <1>2, AppendProperties DEF n
<1>4. /\ result.path # 0 => result.path = n
      /\ \A i \in 1..L : results[i].path # 0 => results[i].path \in 1..n
  BY DEF LogIsRight, Filling, Entries, n, L
<1>5. Types'
  BY <1>1, <1>2, <1>3 DEF Types
<1>6. performed' # <<>>
  BY <1>1, <1>3, EmptySeq
<1>7. Filling'
  <2>1. \A i \in 1..L : results[i].path # n + 1
    BY <1>1, <1>4
  <2> QED
    BY <1>1, <1>2, <1>3, <1>6, <2>1 DEF Filling, L
<1>8. FirstOnly'
  BY <1>1, <1>2, ResultAssumption DEF LogIsRight, FirstOnly
<1>9. Entries(results)'
  <2>1. \A k \in 1..n : k \in 1..(n + 1)
    BY <1>1
  <2>2. \A i \in 1..L : results[i].path # 0 =>
          results[i].path \in 1..(n + 1) /\ results[i] = performed'[results[i].path]
    BY <1>3, <1>4, <2>1 DEF LogIsRight, Entries, L
  <2> QED
    BY <1>1, <1>3, <2>2 DEF LogIsRight, Entries, L
<1>10. Complete(results)'
  <2> SUFFICES ASSUME NEW m \in 1..(n + 1)
               PROVE  \/ m = result'.path \/ Superseded(m)'
                      \/ \E i \in 1..L : results[i].path = m
    BY <1>1, <1>3 DEF Complete, L
  <2>1. CASE m = n + 1
    BY <1>2, <2>1
  <2>2. CASE m # n + 1
    <3>1. m \in 1..n /\ m < n + 1
      BY <1>1, <2>2
    <3>2. m = result.path \/ Superseded(m) \/ \E i \in 1..L : results[i].path = m
      BY <3>1 DEF LogIsRight, Complete, n, L
    <3>3. CASE m = result.path
      <4>1. m = n /\ a \in Followers
        BY <1>1, <1>4, <3>1, <3>3
      <4> QED
        BY <1>2, <1>3, <3>1, <4>1 DEF Superseded
    <3>4. CASE Superseded(m)
      <4>1. m < n /\ performed[m + 1].action \in Followers
        BY <3>4 DEF Superseded, n
      <4>2. m + 1 \in 1..n
        BY <1>1, <3>1, <4>1
      <4> QED
        BY <1>3, <3>1, <4>1, <4>2 DEF Superseded
    <3> QED
      BY <3>2, <3>3, <3>4
  <2> QED
    BY <2>1, <2>2
<1> QED
  BY <1>5, <1>7, <1>8, <1>9, <1>10 DEF LogIsRight

\* push_back takes the operation being filled, the last one, to the end of the log.
LEMMA PushedKeepsLog ==
  ASSUME LogIsRight, ~Taken, Taken', results' = Append(results, result),
         UNCHANGED <<performed, result>>
  PROVE  LogIsRight'
<1> DEFINE n == Len(performed)
           L == Len(results)
<1>1. n \in Nat /\ L \in Nat /\ performed \in Seq(Results) /\ results \in Seq(Results) /\ result \in Results
  BY LenProperties DEF LogIsRight, Types
<1>2. /\ results' \in Seq(Results) /\ Len(results') = L + 1 /\ results'[L + 1] = result
      /\ \A k \in 1..L : results'[k] = results[k]
  BY <1>1, AppendProperties
<1>3. result.path # 0 => result.path = n /\ performed # <<>> /\ performed[n] = result
  BY DEF LogIsRight, Filling
<1>4. result.path # 0 => n \in 1..n
  BY <1>1, <1>3, EmptySeq
<1>5. result.action = Unknown => result.path = 0 /\ L = 0
  BY EmptySeq DEF LogIsRight, FirstOnly
<1>6. \A i \in 1..L : /\ results[i].path # 0 => /\ results[i].path \in 1..n
                                                /\ results[i] = performed[results[i].path]
                                                /\ results[i].path # result.path
                      /\ results[i].action = Unknown => i = 1 /\ results[i].path = 0
  BY <1>1 DEF LogIsRight, Filling, FirstOnly, Entries
<1>7. \A i, j \in 1..L : i < j /\ results[i].path # 0 /\ results[j].path # 0 =>
                           results[i].path < results[j].path
  BY DEF LogIsRight, Entries
<1>8. \A m \in 1..n : m = result.path \/ Superseded(m) \/ \E i \in 1..L : results[i].path = m
  BY DEF LogIsRight, Complete
<1> HIDE DEF n, L
<1>9. \A i \in 1..(L + 1) : (i \in 1..L /\ i < L + 1) \/ i = L + 1
  BY <1>1
<1>10. results' # <<>>
  BY <1>1, <1>2, EmptySeq
<1>11. Types' /\ Filling'
  BY <1>1, <1>2, <1>3, <1>10 DEF Types, Filling, n
<1>12. FirstOnly'
  BY <1>1, <1>2, <1>5, <1>6, <1>9 DEF FirstOnly
<1>13. Entries(results)'
  <2>1. \A i \in 1..(L + 1) : results'[i].path # 0 =>
          results'[i].path \in 1..n /\ results'[i] = performed[results'[i].path]
    BY <1>2, <1>3, <1>4, <1>6, <1>9
  <2>2. ASSUME NEW i \in 1..(L + 1), NEW j \in 1..(L + 1), i < j,
               results'[i].path # 0, results'[j].path # 0
        PROVE  results'[i].path < results'[j].path
    <3>1. i \in 1..L
      BY <1>1, <2>2
    <3>2. CASE j \in 1..L
      BY <1>2, <1>7, <2>2, <3>1, <3>2
    <3>3. CASE j = L + 1
      <4>1. results'[i].path \in 1..n /\ results'[i].path # result.path /\ results'[j].path = result.path
        BY <1>2, <1>6, <2>2, <3>1, <3>3
      <4>2. result.path = n
        BY <1>3, <2>2, <4>1
      <4>3. \A x \in 1..n : x # n => x < n
        BY <1>1
      <4> QED
        BY <4>1, <4>2, <4>3, Zenon
    <3> QED
      BY <1>9, <3>2, <3>3
  <2> QED
    BY <1>2, <2>1, <2>2 DEF Entries, n
<1>14. Complete(results)'
  <2>1. \A i \in 1..L : i \in 1..(L + 1)
    BY <1>1
  <2> QED
    BY <1>2, <1>8, <2>1 DEF Complete, Superseded, n
<1> QED
  BY <1>11, <1>12, <1>13, <1>14 DEF LogIsRight

\* A result that has been taken may be reset: it is in the log.
LEMMA ResetKeepsLog ==
  ASSUME LogIsRight, Taken, ~Taken', result' = Blank, UNCHANGED <<performed, results>>
  PROVE  LogIsRight'
<1>1. result' \in Results /\ result'.path = 0 /\ result'.action # Unknown
  BY ResultAssumption DEF Blank, Results
<1>2. Types' /\ FirstOnly' /\ Entries(results)'
  BY <1>1 DEF LogIsRight, Types, FirstOnly, Entries
<1>3. Filling'
  BY <1>1 DEF Filling
<1>4. Complete(results)'
  <2>1. results # <<>> /\ results[Len(results)] = result /\ results \in Seq(Results)
    BY DEF LogIsRight, Types, Filling
  <2>2. Len(results) \in 1..Len(results)
    BY <2>1, LenProperties, EmptySeq
  <2> QED
    BY <2>1, <2>2 DEF LogIsRight, Complete, Superseded
<1> QED
  BY <1>2, <1>3, <1>4 DEF LogIsRight

\* What was written says the same as long as the log stays.
LEMMA FilesStay ==
  ASSUME FilesHoldTheLog, UNCHANGED <<performed, result, files, samples>>,
         scenario' = scenario \/ files["results"].state = "absent",
         caught' = caught \/ files["unfinished"].state = "absent"
  PROVE  FilesHoldTheLog'
<1>1. \A f \in {"results", "unfinished"} : Accounts(files[f].log)' <=> Accounts(files[f].log)
  BY DEF Accounts, Superseded
<1> QED
  BY <1>1 DEF FilesHoldTheLog

\* The stages before the scenario runs, and its end, touch no log and no file.
LEMMA Quiet ==
  ASSUME IInv, UNCHANGED <<performed, result, results, samples, files>>,
         Control', Taken' <=> Taken,
         scenario' = scenario \/ stage = "scenario",
         stage' \notin {"write", "handlerWrite"},
         files["results"].state # "absent" => ~handled' /\ stage' \in {"print", "over"},
         files["unfinished"].state # "absent" => caught' = caught /\ stage' = "over"
  PROVE  IInv'
<1>1. LogIsRight'
  BY LogStays DEF IInv
<1>2. Files'
  BY DEF IInv, Files
<1>3. FilesHoldTheLog'
  <2>1. scenario' = scenario \/ files["results"].state = "absent"
    BY DEF IInv, Files
  <2>2. caught' = caught \/ files["unfinished"].state = "absent"
    OBVIOUS
  <2> QED
    BY <2>1, <2>2, FilesStay DEF IInv
<1> QED
  BY <1>1, <1>2, <1>3 DEF IInv, SamplesOK

\* Every statement of main(), every statement of the handler, and SIGINT at any
\* moment, keep the invariant.
LEMMA Keeps == IInv /\ [Next]_vars => IInv'
<1> SUFFICES ASSUME IInv, [Next]_vars PROVE IInv'
  OBVIOUS
<1> USE DEF Goto, Ends, progVars, logVars
<1>1. ASSUME Globals \/ Engine PROVE IInv'
  <2>1. /\ stage \in {"globals", "engine"} /\ stage' \in {"engine", "scenario", "over"}
        /\ UNCHANGED <<progVars, logVars, files>>
    BY <1>1 DEF Globals, Engine
  <2>2. Control' /\ (Taken' <=> Taken)
    BY <2>1 DEF IInv, Control, Taken, At, Before, Handled, Saving, InHandler, Pushing, Committing
  <2> QED
    BY <2>1, <2>2, Quiet DEF IInv, Files
<1>2. ASSUME NEW name \in {"aging", "basic"}, Choose(name) PROVE IInv'
  <2>1. Control' /\ (Taken' <=> Taken)
    BY <1>2 DEF IInv, Control, Choose, Taken, At, Before, Handled, Saving, InHandler, Pushing, Committing
  <2> QED
    BY <1>2, <2>1, Quiet DEF IInv, Files, Choose
<1>3. ASSUME Install PROVE IInv'
  <2>1. Control' /\ (Taken' <=> Taken)
    BY <1>3 DEF IInv, Control, Install, Taken, At, Before, Handled, Saving, InHandler, Pushing, Committing
  <2> QED
    BY <1>3, <2>1, Quiet DEF IInv, Files, Install
<1>4. ASSUME \/ \E blocksize, filesize, time \in Texts : StartBasic(blocksize, filesize, time)
             \/ \E time \in Texts, usable \in BOOLEAN : StartAging(time, usable)
      PROVE  IInv'
  <2>1. /\ stage = "start" /\ stage' \in {"running", "returned", "over"}
        /\ UNCHANGED <<progVars, logVars, files>>
    BY <1>4 DEF StartBasic, StartAging
  <2>2. Control' /\ (Taken' <=> Taken)
    BY <2>1 DEF IInv, Control, Taken, At, Before, Handled, Saving, InHandler, Pushing, Committing
  <2> QED
    BY <2>1, <2>2, Quiet DEF IInv, Control, Handled, Files
<1>5. ASSUME Fails \/ Return PROVE IInv'
  <2>1. Control' /\ (Taken' <=> Taken)
    BY <1>5 DEF IInv, Control, Fails, Return, Taken, At, Before, Handled, Saving, InHandler, Pushing, Committing
  <2> QED
    BY <1>5, <2>1, Quiet DEF IInv, Control, Handled, Files, Fails, Return
<1>6. ASSUME Uninstall PROVE IInv'
  <2>1. Control' /\ (Taken' <=> Taken)
    BY <1>6 DEF IInv, Control, Uninstall, Taken, At, Before, Handled, Saving, InHandler, Pushing, Committing
  <2> QED
    BY <1>6, <2>1, Quiet DEF IInv, Control, Handled, Files, Uninstall
<1>7. ASSUME PrintResults PROVE IInv'
  <2>1. /\ stage = "print" /\ stage' = "over"
        /\ UNCHANGED <<progVars, logVars, files>>
    BY <1>7 DEF PrintResults, PrintLog
  <2>2. Control' /\ (Taken' <=> Taken)
    BY <2>1 DEF IInv, Control, Taken, At, Before, Handled, Saving, InHandler, Pushing, Committing
  <2> QED
    BY <2>1, <2>2, Quiet DEF IInv, Control, Saving, Files
<1>8. ASSUME Killed PROVE IInv'
  <2>1. Control' /\ (Taken' <=> Taken)
    BY <1>8 DEF IInv, Control, Killed, Taken, At, Before, Handled, Saving, InHandler, Pushing, Committing
  <2> QED
    BY <1>8, <2>1, Quiet DEF IInv, Control, Files, Killed
<1>9. ASSUME NEW a \in Actions, NEW s \in Sizes, NEW d \in Durations, Operate(a, s, d)
      PROVE  IInv'
  <2>1. /\ stage = "running" /\ UNCHANGED <<stage, scenario, handled, caught, samples, files>>
    BY <1>9 DEF Operate
  <2>2. ~Taken /\ ~Taken' /\ Control'
    BY <2>1 DEF IInv, Control, Taken, At, InHandler, Committing
  <2>3. LogIsRight'
    BY <1>9, <2>2, OperateKeepsLog DEF IInv
  <2>4. files["results"].state = "absent" /\ files["unfinished"].state = "absent"
    BY <2>1 DEF IInv, Files
  <2>5. Files' /\ FilesHoldTheLog'
    BY <2>1, <2>4 DEF IInv, Files, FilesHoldTheLog
  <2> QED
    BY <2>1, <2>2, <2>3, <2>5 DEF IInv, SamplesOK
<1>10. ASSUME EndCycle \/ CommitStep \/ NewResult PROVE IInv'
  <2>1. /\ stage \in Handled \ {"start", "returned"} /\ stage' \in Handled
        /\ UNCHANGED <<progVars, files>>
    BY <1>10 DEF EndCycle, CommitStep, NewResult, Commit, Push, Pushed, CreateDuration, CreateSize,
                 AddDuration, AddSize, Handled, Pushing, Committing
  <2>2. Control' /\ At = stage /\ At' = stage'
    BY <2>1 DEF IInv, Control, At, Before, Handled, Saving, InHandler, Pushing, Committing
  <2>3. ASSUME Pushed PROVE LogIsRight'
    <3>1. results' = Append(results, result) /\ result' = result /\ ~Taken /\ Taken'
      BY <2>2, <2>3 DEF Pushed, Logged, Taken, Committing
    <3> QED
      BY <2>1, <3>1, PushedKeepsLog DEF IInv
  <2>4. ASSUME NewResult PROVE LogIsRight'
    <3>1. result' = Blank /\ results' = results /\ Taken /\ ~Taken'
      BY <2>2, <2>4 DEF NewResult, Taken, Committing
    <3> QED
      BY <2>1, <3>1, ResetKeepsLog DEF IInv
  <2>5. ASSUME EndCycle \/ Push \/ CreateDuration \/ CreateSize \/ AddDuration \/ AddSize
        PROVE  LogIsRight'
    <3>1. UNCHANGED <<result, results>> /\ (Taken' <=> Taken)
      BY <2>2, <2>5 DEF EndCycle, Push, CreateDuration, CreateSize, AddDuration, AddSize,
                        Taken, Committing
    <3> QED
      BY <2>1, <3>1, LogStays DEF IInv
  <2>6. LogIsRight'
    BY <1>10, <2>3, <2>4, <2>5 DEF CommitStep, Commit
  <2>7. files["results"].state = "absent" /\ files["unfinished"].state = "absent"
    BY <2>1 DEF IInv, Control, Files, Handled, Pushing, Committing
  <2>8. Files' /\ FilesHoldTheLog'
    BY <2>1, <2>7 DEF IInv, Files, FilesHoldTheLog
  <2> QED
    BY <2>1, <2>2, <2>6, <2>8 DEF IInv, SamplesOK
<1>11. ASSUME Sample PROVE IInv'
  <2>1. /\ stage = "running" /\ UNCHANGED <<stage, scenario, handled, caught, performed, logVars, files>>
    BY <1>11 DEF Sample
  <2>2. Control' /\ (Taken' <=> Taken)
    BY <2>1 DEF IInv, Control, Taken, At
  <2>3. LogIsRight'
    BY <2>1, <2>2, LogStays DEF IInv
  <2>4. Files'
    BY <2>1 DEF IInv, Files
  <2>5. FilesHoldTheLog'
    BY <2>1 DEF IInv, Files, FilesHoldTheLog
  <2> QED
    BY <1>11, <2>2, <2>3, <2>4, <2>5 DEF IInv, SamplesOK, Sample
<1>12. ASSUME OpenResults PROVE IInv'
  <2>1. /\ stage = "open" /\ stage' = "write" /\ UNCHANGED <<progVars, logVars>>
        /\ files' = files \/ files' = [files EXCEPT !["results"].state = "empty"]
    BY <1>12 DEF OpenResults, Open
  <2>2. Control' /\ (Taken' <=> Taken)
    BY <2>1 DEF IInv, Control, Taken, At, Before, Handled, Saving, InHandler, Pushing, Committing
  <2>3. LogIsRight'
    BY <2>1, <2>2, LogStays DEF IInv
  <2>4. caught = "none" /\ files["results"].state = "absent" /\ files["unfinished"].state = "absent"
    BY <2>1 DEF IInv, Control, Saving, InHandler, Files
  <2>5. Files' /\ files'["results"].state # "whole" /\ files'["unfinished"].state = "absent"
    BY <2>1, <2>2, <2>4 DEF IInv, Control, Saving, Files
  <2>6. FilesHoldTheLog'
    BY <2>5 DEF FilesHoldTheLog
  <2> QED
    BY <2>1, <2>2, <2>3, <2>5, <2>6 DEF IInv, SamplesOK
<1>13. ASSUME WriteResults PROVE IInv'
  <2>1. /\ stage = "write" /\ stage' \in {"print", "over"} /\ UNCHANGED <<progVars, logVars>>
        /\ \/ files' = files
           \/ files' = [files EXCEPT !["results"] = [state |-> "whole", log |-> SavedLog]]
           \/ files' = [files EXCEPT !["results"].state = "short"]
    BY <1>13 DEF WriteResults, Write
  <2>2. Control' /\ (Taken' <=> Taken)
    BY <2>1 DEF IInv, Control, Taken, At, Before, Handled, Saving, InHandler, Pushing, Committing
  <2>3. LogIsRight'
    BY <2>1, <2>2, LogStays DEF IInv
  <2>4. /\ files["results"].state \in {"absent", "empty"} /\ files["unfinished"].state = "absent"
        /\ caught = "none" /\ ~handled
    BY <2>1 DEF IInv, Control, Saving, InHandler, Files
  <2>5. SavedLog \in Logs
    <3>1. results \in Seq(MovedResults)
      BY ResultsMovable DEF IInv, LogIsRight, Types
    <3>2. Samples(samples) \in Seq(Nat)
      BY DEF Samples, IInv, SamplesOK
    <3> QED
      BY <3>1, <3>2 DEF SavedLog, Logs
  <2>6. IF scenario = "basic" THEN SavedLog = Samples(samples) ELSE Accounts(SavedLog)
    BY LogAccounts DEF SavedLog, IInv
  <2>7. Files'
    BY <2>1, <2>4, <2>5 DEF IInv, Files
  <2>8. /\ files'["results"].state = "whole" => files'["results"].log = SavedLog
        /\ files'["unfinished"].state = "absent"
    BY <2>1, <2>4 DEF IInv, Files
  <2>9. Accounts(SavedLog) => Accounts(SavedLog)'
    BY <2>1 DEF Accounts, Superseded, SavedLog
  <2>10. FilesHoldTheLog'
    BY <2>1, <2>6, <2>8, <2>9 DEF FilesHoldTheLog, Samples, SavedLog
  <2> QED
    BY <2>1, <2>2, <2>3, <2>7, <2>10 DEF IInv, SamplesOK
<1>14. ASSUME Interrupt PROVE IInv'
  <2>1. /\ handled /\ caught = "none" /\ stage # "over" /\ caught' = stage
        /\ stage' \in {"handlerPrint", "over"}
        /\ UNCHANGED <<scenario, handled, performed, samples, logVars, files>>
    BY <1>14 DEF Interrupt
  <2>2. stage \in Handled
    BY <2>1 DEF IInv, Control, Handled, InHandler
  <2>3. Control' /\ (Taken' <=> Taken)
    BY <2>1, <2>2 DEF IInv, Control, Taken, At, Before, Handled, Saving, InHandler, Pushing, Committing
  <2>4. LogIsRight'
    BY <2>1, <2>3, LogStays DEF IInv
  <2>5. files["results"].state = "absent" /\ files["unfinished"].state = "absent"
    BY <2>1 DEF IInv, Files
  <2>6. Files' /\ FilesHoldTheLog'
    BY <2>1, <2>5 DEF IInv, Files, FilesHoldTheLog
  <2> QED
    BY <2>1, <2>3, <2>4, <2>6 DEF IInv, SamplesOK
<1>15. ASSUME HandlerPrint PROVE IInv'
  <2>1. /\ stage = "handlerPrint" /\ stage' \in {"handlerOpen", "over"}
        /\ UNCHANGED <<progVars, logVars, files>>
    BY <1>15 DEF HandlerPrint, PrintLog
  <2>2. Control' /\ (Taken' <=> Taken)
    BY <2>1 DEF IInv, Control, Taken, At, Before, Handled, Saving, InHandler, Pushing, Committing
  <2>3. LogIsRight'
    BY <2>1, <2>2, LogStays DEF IInv
  <2>4. files["results"].state = "absent" /\ files["unfinished"].state = "absent"
    BY <2>1 DEF IInv, Control, InHandler, Files
  <2>5. Files' /\ FilesHoldTheLog'
    BY <2>1, <2>4 DEF IInv, Control, InHandler, Files, FilesHoldTheLog
  <2> QED
    BY <2>1, <2>2, <2>3, <2>5 DEF IInv, SamplesOK
<1>16. ASSUME HandlerOpen PROVE IInv'
  <2>1. /\ stage = "handlerOpen" /\ stage' = "handlerWrite" /\ UNCHANGED <<progVars, logVars>>
        /\ files' = files \/ files' = [files EXCEPT !["unfinished"].state = "empty"]
    BY <1>16 DEF HandlerOpen, Open
  <2>2. Control' /\ (Taken' <=> Taken)
    BY <2>1 DEF IInv, Control, Taken, At, Before, Handled, Saving, InHandler, Pushing, Committing
  <2>3. LogIsRight'
    BY <2>1, <2>2, LogStays DEF IInv
  <2>4. files["results"].state = "absent" /\ files["unfinished"].state = "absent"
    BY <2>1 DEF IInv, Control, InHandler, Files
  <2>5. Files' /\ FilesHoldTheLog'
    BY <2>1, <2>4 DEF IInv, Control, InHandler, Files, FilesHoldTheLog
  <2> QED
    BY <2>1, <2>2, <2>3, <2>5 DEF IInv, SamplesOK
<1>17. ASSUME NEW k \in 0..Len(results), HandlerWrite(k) PROVE IInv'
  <2>1. /\ stage = "handlerWrite" /\ stage' = "over" /\ UNCHANGED <<progVars, logVars>>
        /\ \/ files' = files
           \/ files' = [files EXCEPT !["unfinished"] = [state |-> "whole", log |-> Found(k)]]
           \/ files' = [files EXCEPT !["unfinished"].state = "short"]
    BY <1>17 DEF HandlerWrite, Write
  <2>2. Control' /\ (Taken' <=> Taken)
    BY <2>1 DEF IInv, Control, Taken, At, Before, Handled, Saving, InHandler, Pushing, Committing
  <2>3. LogIsRight'
    BY <2>1, <2>2, LogStays DEF IInv
  <2>4. /\ files["results"].state = "absent" /\ files["unfinished"].state \in {"absent", "empty"}
        /\ caught # "none" /\ handled
    BY <2>1 DEF IInv, Control, InHandler, Files
  <2>5. Found(k) \in Logs /\ (caught # "growing" => Found(k) = results)
    BY FoundIsLog, k \in Nat DEF IInv, LogIsRight, Types, Logs
  <2>6. Files'
    BY <2>1, <2>4, <2>5 DEF IInv, Files
  <2>7. /\ files'["unfinished"].state = "whole" => files'["unfinished"].log = Found(k)
        /\ files'["results"].state = "absent"
    BY <2>1, <2>4 DEF IInv, Files
  <2>8. Accounts(results)'
    <3>1. Accounts(results)
      BY LogAccounts DEF IInv
    <3> QED
      BY <2>1, <3>1 DEF Accounts, Superseded
  <2>9. FilesHoldTheLog'
    BY <2>1, <2>5, <2>7, <2>8 DEF FilesHoldTheLog, Accounts
  <2> QED
    BY <2>1, <2>2, <2>3, <2>6, <2>9 DEF IInv, SamplesOK
<1>18. CASE UNCHANGED vars
  <2>1. UNCHANGED <<stage, scenario, handled, caught, performed, samples, logVars, files>>
    BY <1>18 DEF vars
  <2>2. Control' /\ (Taken' <=> Taken)
    BY <2>1 DEF IInv, Control, Taken, At
  <2>3. LogIsRight' /\ FilesHoldTheLog'
    BY <2>1, <2>2, LogStays, FilesStay DEF IInv
  <2>4. Files'
    BY <2>1 DEF IInv, Files
  <2> QED
    BY <2>1, <2>2, <2>3, <2>4 DEF IInv, SamplesOK
<1> QED
  BY <1>1, <1>2, <1>3, <1>4, <1>5, <1>6, <1>7, <1>8, <1>9, <1>10, <1>11, <1>12, <1>13, <1>14,
     <1>15, <1>16, <1>17, <1>18 DEF Next, Main, Handler

\* Whatever the scenario does and whenever SIGINT comes, a file that was written
\* whole accounts for the operations done: what is missing was superseded by the
\* next operation of its cycle, or was still being filled or committed.
THEOREM FilesAreTheLog == Spec => []FilesHoldTheLog
<1>1. IInv => FilesHoldTheLog
  BY DEF IInv
<1> QED
  BY Starts, Keeps, <1>1, PTL DEF Spec

\* main() and the handler never both open their file.
THEOREM OneFileOnly == Spec => []OneFile
<1>1. IInv => OneFile
  BY DEF IInv, Control, Files, OneFile
<1> QED
  BY Starts, Keeps, <1>1, PTL DEF Spec

\* A total is created with leave to round, and += keeps it.
LEMMA RoundingStays ==
  ASSUME RoundingAllowed, [Next]_vars PROVE RoundingAllowed'
<1>1. CASE CreateSize
  <2>1. sizes' = Created(sizes, Zero)
    BY <1>1 DEF CreateSize
  <2>2. Zero.rounding = TRUE
    BY DEF Zero, DataSize
  <2> QED
    BY <2>1, <2>2 DEF RoundingAllowed, Created
<1>2. CASE AddSize
  <2>1. sizes' = [sizes EXCEPT ![result.action] = TotalSize(@, result)]
    BY <1>2 DEF AddSize
  <2>2. ASSUME NEW total, NEW r PROVE TotalSize(total, r).rounding = total.rounding
    BY DEF TotalSize, AddTo, Plus, DataSize
  <2> QED
    BY <2>1, <2>2 DEF RoundingAllowed
<1>3. CASE sizes' = sizes
  BY <1>3 DEF RoundingAllowed
<1>4. \/ CreateSize \/ AddSize \/ sizes' = sizes
  BY DEF Next, Main, Handler, vars, logVars, Globals, Engine, Install, Uninstall, Choose, StartBasic,
         StartAging, Operate, EndCycle, NewResult, CommitStep, Commit, Push, Pushed, CreateDuration, AddDuration,
         Sample, Fails, Return, OpenResults, Open, WriteResults, PrintResults, PrintLog,
         HandlerPrint, HandlerOpen, HandlerWrite, Killed, Interrupt
<1> QED
  BY <1>1, <1>2, <1>3, <1>4

\* Whatever has been added to the totals and at whatever statement SIGINT comes,
\* print() throws, in main() or in the handler, only at the first result of a run
\* whose first cycle did no operation.
THEOREM PrintEnds == Spec => []PrintThrowsAtFirstOnly
<1>1. Init => RoundingAllowed
  BY DEF Init, RoundingAllowed
<1>2. IInv /\ RoundingAllowed => PrintThrowsAtFirstOnly
  <2> SUFFICES ASSUME IInv, RoundingAllowed, PrintThrows(results)
               PROVE  results[1].action = Unknown /\ results[1].path = 0
    BY DEF PrintThrowsAtFirstOnly
  <2>1. Unknown \in UsedActions(results)
    BY DEF RoundingAllowed, PrintThrows, Unnamed, Printed, Converts
  <2>2. PICK i \in 1..Len(results) : results[i].action = Unknown
    BY <2>1 DEF UsedActions, IInv, LogIsRight, Types
  <2> QED
    BY <2>2 DEF IInv, LogIsRight, FirstOnly
<1> QED
  BY Starts, Keeps, <1>1, <1>2, RoundingStays, PTL DEF Spec

-----------------------------------------------------------------------------
\* p lists the places of the n numbers d in their order.
Sorts(p, d, n) ==
  /\ p \in Bijection(1..n, 1..n)
  /\ \A i, j \in 1..n : i < j => d[p[i]] <= d[p[j]]

\* Numbers can be put in order: the greatest last, and the others before it.
LEMMA OrderExists ==
  ASSUME NEW n \in Nat, NEW d \in [1..n -> Int]
  PROVE  \E p : Sorts(p, d, n)
<1> DEFINE S == {k \in Nat : \A e \in [1..k -> Int] : \E p : Sorts(p, e, k)}
<1>1. 0 \in S
  <2> SUFFICES ASSUME NEW e \in [1..0 -> Int] PROVE \E p : Sorts(p, e, 0)
    OBVIOUS
  <2>1. Sorts([i \in 1..0 |-> i], e, 0)
    BY DEF Sorts, Bijection, Injection, Surjection, IsInjective
  <2> QED BY <2>1
<1>2. ASSUME NEW k \in Nat, k \in S PROVE k + 1 \in S
  <2> DEFINE l == k + 1
  <2> SUFFICES ASSUME NEW e \in [1..l -> Int] PROVE \E p : Sorts(p, e, l)
    OBVIOUS
  <2>1. PICK m \in 1..l : \A i \in 1..l : e[i] <= e[m]
    BY GreatestExists
  <2> DEFINE f == [i \in 1..k |-> IF i = m THEN e[l] ELSE e[i]]
  <2>2. f \in [1..k -> Int]
    OBVIOUS
  <2>3. PICK p : Sorts(p, f, k)
    BY <1>2, <2>2
  <2>4. /\ p \in [1..k -> 1..k]
        /\ \A i, j \in 1..k : p[i] = p[j] => i = j
        /\ \A t \in 1..k : \E i \in 1..k : p[i] = t
        /\ \A i, j \in 1..k : i < j => f[p[i]] <= f[p[j]]
    BY <2>3 DEF Sorts, Bijection, Injection, Surjection, IsInjective
  <2> DEFINE q == [i \in 1..l |-> IF i = l THEN m ELSE IF p[i] = m THEN l ELSE p[i]]
  <2>5. \A i \in 1..l : i = l \/ (i \in 1..k /\ i < l)
    OBVIOUS
  <2>6. l \in 1..l /\ \A i \in 1..k : i \in 1..l /\ i < l /\ i # l
    OBVIOUS
  <2>7. q[l] = m /\ \A i \in 1..k : q[i] = IF p[i] = m THEN l ELSE p[i]
    BY <2>6
  <2>8. \A i \in 1..k : f[i] = IF i = m THEN e[l] ELSE e[i]
    OBVIOUS
  <2>q. q \in [1..l -> 1..l]
    <3>1. \A i \in 1..l : (IF i = l THEN m ELSE IF p[i] = m THEN l ELSE p[i]) \in 1..l
      BY <2>4, <2>5, <2>6
    <3> QED BY <3>1
  <2> HIDE DEF q, f, l
  <2>9. \A i \in 1..k : e[q[i]] = f[p[i]] /\ q[i] # m
    <3> TAKE i \in 1..k
    <3>1. p[i] \in 1..k /\ p[i] # l
      BY <2>4, <2>6
    <3>2. f[p[i]] = IF p[i] = m THEN e[l] ELSE e[p[i]]
      BY <2>8, <3>1
    <3> QED BY <2>7, <3>1, <3>2
  <2>10. ASSUME NEW i \in 1..l, NEW j \in 1..l, q[i] = q[j] PROVE i = j
    <3>1. CASE i = l \/ j = l
      BY <2>5, <2>7, <2>9, <2>10, <3>1
    <3>2. CASE i \in 1..k /\ j \in 1..k
      <4>1. p[i] \in 1..k /\ p[j] \in 1..k /\ p[i] # l /\ p[j] # l
        BY <2>4, <2>6, <3>2
      <4>2. p[i] = p[j]
        BY <2>7, <2>10, <3>2, <4>1
      <4> QED BY <2>4, <3>2, <4>2
    <3> QED BY <2>5, <3>1, <3>2
  <2>11. ASSUME NEW t \in 1..l PROVE \E i \in 1..l : q[i] = t
    <3>1. CASE t = m
      BY <2>6, <2>7, <3>1
    <3>2. CASE t # m /\ t = l
      <4>1. m \in 1..k
        BY <2>5, <3>2
      <4>2. PICK i \in 1..k : p[i] = m
        BY <2>4, <4>1
      <4> QED BY <2>6, <2>7, <3>2, <4>2
    <3>3. CASE t # m /\ t \in 1..k
      <4>1. PICK i \in 1..k : p[i] = t
        BY <2>4, <3>3
      <4> QED BY <2>6, <2>7, <3>3, <4>1
    <3> QED BY <2>5, <3>1, <3>2, <3>3
  <2>12. ASSUME NEW i \in 1..l, NEW j \in 1..l, i < j PROVE e[q[i]] <= e[q[j]]
    <3>1. i \in 1..k
      <4>1. \A a, b \in 1..l : a < b => a \in 1..k
        BY DEF l
      <4> QED BY <2>12, <4>1
    <3>2. CASE j = l
      <4>1. q[i] \in 1..l
        BY <2>q
      <4> QED BY <2>1, <2>7, <3>2, <4>1
    <3>3. CASE j \in 1..k
      BY <2>4, <2>9, <2>12, <3>1, <3>3
    <3> QED BY <2>5, <3>2, <3>3
  <2>13. Sorts(q, e, l)
    BY <2>q, <2>10, <2>11, <2>12 DEF Sorts, Bijection, Injection, Surjection, IsInjective
  <2> QED BY <2>13
<1>3. Nat \subseteq S
  <2> HIDE DEF S
  <2> QED BY <1>1, <1>2, Induction
<1> QED BY <1>3

\* The values, sorted, are in order.
LEMMA SortedIsInOrder ==
  ASSUME NEW data \in Seq(Nat)
  PROVE  /\ Sorted(data) \in [1..Len(data) -> Nat]
         /\ \A i, j \in 1..Len(data) : i <= j => Sorted(data)[i] <= Sorted(data)[j]
<1> DEFINE n == Len(data)
           order == CHOOSE p \in Bijection(DOMAIN data, DOMAIN data) :
                      \A i, j \in DOMAIN data : i < j => data[p[i]] <= data[p[j]]
<1>1. n \in Nat /\ DOMAIN data = 1..n /\ data \in [1..n -> Nat] /\ data \in [1..n -> Int]
  BY LenProperties
<1>2. Sorted(data) = [i \in DOMAIN data |-> data[order[i]]]
  BY Zenon DEF Sorted
<1> HIDE DEF n
<1>3. PICK p : Sorts(p, data, n)
  BY <1>1, OrderExists
<1>4. order \in Bijection(1..n, 1..n) /\ \A i, j \in 1..n : i < j => data[order[i]] <= data[order[j]]
  <2>1. /\ p \in Bijection(DOMAIN data, DOMAIN data)
        /\ \A i, j \in DOMAIN data : i < j => data[p[i]] <= data[p[j]]
    BY <1>1, <1>3 DEF Sorts
  <2>2. /\ order \in Bijection(DOMAIN data, DOMAIN data)
        /\ \A i, j \in DOMAIN data : i < j => data[order[i]] <= data[order[j]]
    BY <2>1, Zenon
  <2> HIDE DEF order
  <2> QED BY <1>1, <2>2
<1> HIDE DEF order
<1>5. order \in [1..n -> 1..n]
  BY <1>4 DEF Bijection, Injection
<1>6. \A i \in 1..n : Sorted(data)[i] = data[order[i]] /\ data[order[i]] \in Nat
  BY <1>1, <1>2, <1>5
<1>7. Sorted(data) \in [1..n -> Nat]
  BY <1>1, <1>2, <1>6
<1>8. ASSUME NEW i \in 1..n, NEW j \in 1..n, i <= j PROVE Sorted(data)[i] <= Sorted(data)[j]
  <2>1. CASE i = j
    BY <1>6, <2>1
  <2>2. CASE i < j
    BY <1>4, <1>6, <2>2
  <2> QED BY <1>1, <1>8, <2>1, <2>2
<1> QED BY <1>7, <1>8 DEF n

-----------------------------------------------------------------------------
\* The sum of some values, by the definition FoldSeq gives it.
FoldSum(data, S) ==
  (CHOOSE g : g = [s \in SUBSET S |-> IF s = {} THEN 0 ELSE data[Picked(s)] + g[s \ {Picked(s)}]])[S]

\* The total is the sum of the values.
LEMMA TotalIsSum ==
  ASSUME NEW data \in Seq(Nat)
  PROVE  /\ Total(data) = Sum(data, 1..Len(data))
         /\ IsFiniteSet(1..Len(data)) /\ Cardinality(1..Len(data)) = Len(data)
         /\ \A i \in 1..Len(data) : data[i] \in Int
<1>1. Len(data) \in Nat /\ DOMAIN data = 1..Len(data) /\ \A i \in 1..Len(data) : data[i] \in Nat
  BY LenProperties
<1>2. IsFiniteSet(1..Len(data)) /\ Cardinality(1..Len(data)) = Len(data)
  BY <1>1, FS_Interval
<1> DEFINE S == 1..Len(data)
<1>3. Total(data) = FoldSum(data, DOMAIN data)
  BY DEF Total, FoldSeq, FoldFunction, FoldFunctionOnSet, MapThenFoldSet, FoldSum, Picked
<1>4. FoldSum(data, S) = Sum(data, S)
  BY DEF FoldSum, Sum, Sums
<1> QED BY <1>1, <1>2, <1>3, <1>4

\* It is a natural number.
LEMMA TotalType ==
  ASSUME NEW data \in Seq(Nat) PROVE Total(data) \in Nat
<1> DEFINE S == 1..Len(data)
<1>1. Total(data) = Sum(data, S) /\ IsFiniteSet(S) /\ \A i \in S : data[i] \in Int
  BY TotalIsSum
<1>2. \A i \in S : data[i] \in Nat /\ 0 <= data[i]
  OBVIOUS
<1> HIDE DEF S
<1>3. Sum(data, S) \in Int /\ Cardinality(S) \in Nat
  BY <1>1, SumFacts, FS_CardinalityType
<1>4. Cardinality(S) * 0 <= Sum(data, S)
  BY <1>1, <1>2, SumAtLeast
<1> QED BY <1>1, <1>3, <1>4

\* Statistics in order: what StatisticsOrdered says of one column.
Ordered(s) ==
  /\ s.min <= s.q1 /\ 2 * s.q1 <= s.median2 /\ s.median2 <= 2 * s.q3 /\ s.q3 <= s.max
  /\ s.count * s.min <= s.sum /\ s.sum <= s.count * s.max

\* Where the quartiles and the median are, in a column of n values.
LEMMA Places ==
  ASSUME NEW n \in Nat, n >= 1
  PROVE  /\ 1 \in 1..n /\ n \in 1..n
         /\ n \div 4 + 1 \in 1..n /\ n \div 2 + 1 \in 1..n /\ (3 * n) \div 4 + 1 \in 1..n
         /\ 1 <= n \div 4 + 1 /\ n \div 4 + 1 <= n \div 2 + 1
         /\ n \div 2 + 1 <= (3 * n) \div 4 + 1 /\ (3 * n) \div 4 + 1 <= n
         /\ n % 2 = 0 => n \div 2 \in 1..n /\ n \div 4 + 1 <= n \div 2 /\ n \div 2 <= (3 * n) \div 4 + 1
OBVIOUS

\* The statistics of a column that is not empty are in order.
LEMMA StatisticsAreOrdered ==
  ASSUME NEW values \in Seq(Nat), values # <<>>
  PROVE  Ordered(Statistics(values))
<1> DEFINE n == Len(values)
           d == Sorted(values)
           m == n \div 2
           a == n \div 4 + 1
           c == (3 * n) \div 4 + 1
<1>1. n \in Nat /\ n >= 1
  BY LenProperties, EmptySeq
<1>2. d \in [1..n -> Nat] /\ \A i, j \in 1..n : i <= j => d[i] <= d[j]
  BY SortedIsInOrder
<1> HIDE DEF n
<1>3. d \in Seq(Nat) /\ Len(d) = n
  BY <1>1, <1>2
<1> HIDE DEF d
<1>4. /\ 1 \in 1..n /\ n \in 1..n /\ a \in 1..n /\ m + 1 \in 1..n /\ c \in 1..n
      /\ 1 <= a /\ a <= m + 1 /\ m + 1 <= c /\ c <= n
      /\ n % 2 = 0 => m \in 1..n /\ a <= m /\ m <= c
  BY <1>1, Places
<1>5. Statistics(values) =
        [min |-> d[1], max |-> d[n], count |-> n, sum |-> Total(d), q1 |-> d[a],
         median2 |-> IF n % 2 = 0 THEN d[m] + d[m + 1] ELSE 2 * d[m + 1], q3 |-> d[c]]
  BY <1>3, Zenon DEF Statistics, d
<1> HIDE DEF m, a, c
<1>6. \A i \in 1..n : d[i] \in Nat /\ 1 <= i /\ i <= n
  BY <1>1, <1>2
<1>7. \A i \in 1..n : d[1] <= d[i] /\ d[i] <= d[n]
  BY <1>2, <1>4, <1>6
<1>8. d[1] <= d[a] /\ d[c] <= d[n] /\ d[a] <= d[m + 1] /\ d[m + 1] <= d[c]
  BY <1>2, <1>4
<1>9. n % 2 = 0 => d[m] \in Nat /\ d[a] <= d[m] /\ d[m] <= d[c]
  BY <1>2, <1>4
<1>10. n * d[1] <= Total(d) /\ Total(d) <= n * d[n]
  <2>1. Total(d) = Sum(d, 1..n) /\ IsFiniteSet(1..n) /\ Cardinality(1..n) = n
    BY <1>3, TotalIsSum
  <2>2. d[1] \in Nat /\ d[n] \in Nat
    BY <1>4, <1>6
  <2> DEFINE S == 1..n
             low == d[1]
             high == d[n]
  <2>3. \A x \in S : d[x] \in Nat /\ low <= d[x] /\ d[x] \in 0..high
    BY <1>6, <1>7, <2>2
  <2> HIDE DEF S, low, high
  <2>4. Cardinality(S) * low <= Sum(d, S)
    BY <2>1, <2>2, <2>3, SumAtLeast DEF S, low
  <2>5. Sum(d, S) \in 0..(Cardinality(S) * high)
    BY <2>1, <2>2, <2>3, SumBound DEF S, high
  <2> QED BY <2>1, <2>4, <2>5 DEF S, low, high
<1> DEFINE median2 == IF n % 2 = 0 THEN d[m] + d[m + 1] ELSE 2 * d[m + 1]
<1>11. 2 * d[a] <= median2 /\ median2 <= 2 * d[c]
  <2> d[a] \in Nat /\ d[m + 1] \in Nat /\ d[c] \in Nat
    BY <1>4, <1>6
  <2> QED BY <1>8, <1>9
<1> HIDE DEF median2
<1> QED BY <1>5, <1>8, <1>10, <1>11 DEF Ordered, median2

-----------------------------------------------------------------------------
\* What the loop over the log has found after each element.
Collects(f, log, a) ==
  /\ f[0] = <<>>
  /\ \A n \in Nat : f[n + 1] = IF log[n + 1].action = a THEN Append(f[n], log[n + 1]) ELSE f[n]

\* The loop that collects the results of an action may be unfolded.
LEMMA ResultsCollected ==
  ASSUME NEW log, NEW a
  PROVE  \E f : Collects(f, log, a) /\ ActionResults(log, a) = f[Len(log)]
<1> DEFINE U == {log[n] : n \in Nat}
           V == Seq(U)
           Next1(n, t) == IF log[n].action = a THEN Append(t, log[n]) ELSE t
           step == [w \in Nat \X V |-> Next1(w[1] + 1, w[2])]
           Def(f) == [n \in Nat |-> IF n = 0 THEN <<>>
                                    ELSE IF log[n].action = a THEN Append(f[n - 1], log[n]) ELSE f[n - 1]]
           found == CHOOSE f : f = Def(f)
<1>1. \A n \in Nat : \A t \in V : Next1(n + 1, t) \in V
  <2> TAKE n \in Nat
  <2>1. log[n + 1] \in U
    OBVIOUS
  <2> HIDE DEF U
  <2> QED BY <2>1
<1>2. <<>> \in V
  <2> HIDE DEF U
  <2> QED OBVIOUS
<1> HIDE DEF V, Next1
<1>3. step \in [Nat \X V -> V] /\ \A n \in Nat : \A t \in V : step[<<n, t>>] = Next1(n + 1, t)
  BY <1>1
<1> HIDE DEF step
<1>4. PICK f \in [Nat -> V] : f[0] = <<>> /\ \A n \in Nat : f[n + 1] = step[<<n, f[n]>>]
  <2> DEFINE R(X, b, r) == \E g \in [Nat -> X] : g[0] = b /\ \A n \in Nat : g[n + 1] = r[<<n, g[n]>>]
  <2>1. \A X : \A b \in X : \A r \in [Nat \X X -> X] : R(X, b, r)
    BY IndexedRecursion
  <2> HIDE DEF R
  <2>2. R(V, <<>>, step)
    BY <1>2, <1>3, <2>1, Zenon
  <2> QED BY <2>2 DEF R
<1>5. f = Def(f)
  <2>1. ASSUME NEW n \in Nat PROVE f[n] = IF n = 0 THEN <<>> ELSE Next1(n, f[n - 1])
    <3>1. CASE n = 0
      BY <1>4, <3>1
    <3>2. CASE n # 0
      <4>1. n - 1 \in Nat /\ (n - 1) + 1 = n
        BY <3>2
      <4>2. f[(n - 1) + 1] = step[<<n - 1, f[n - 1]>>] /\ f[n - 1] \in V
        BY <1>4, <4>1
      <4> QED BY <1>3, <3>2, <4>1, <4>2
    <3> QED BY <3>1, <3>2
  <2> QED BY <1>4, <2>1 DEF Next1
<1>6. found = Def(found)
  <2>1. \E g : g = Def(g)
    BY <1>5
  <2> QED BY <2>1, Zenon
<1>7. ActionResults(log, a) = found[Len(log)]
  BY Zenon DEF ActionResults
<1> HIDE DEF found
<1>8. \A n \in Nat : found[n] = IF n = 0 THEN <<>> ELSE Next1(n, found[n - 1])
  BY <1>6, Zenon DEF Next1
<1>9. found[0] = <<>>
  BY <1>8
<1>10. ASSUME NEW n \in Nat PROVE found[n + 1] = Next1(n + 1, found[n])
  <2>1. n + 1 \in Nat /\ n + 1 # 0 /\ (n + 1) - 1 = n
    OBVIOUS
  <2> QED BY <1>8, <2>1
<1>11. Collects(found, log, a)
  BY <1>9, <1>10 DEF Collects, Next1
<1> QED BY <1>7, <1>11

\* A result of the action that is appended to the log is appended to those
\* found before, and one of another action is not.
LEMMA ResultsOfAppend ==
  ASSUME NEW log \in Seq(Results), NEW r \in Results, NEW a
  PROVE  ActionResults(Append(log, r), a) =
           IF r.action = a THEN Append(ActionResults(log, a), r) ELSE ActionResults(log, a)
<1> DEFINE n == Len(log)
           longer == Append(log, r)
<1>1. n \in Nat /\ Len(longer) = n + 1 /\ longer[n + 1] = r /\ \A k \in 1..n : longer[k] = log[k]
  BY LenProperties, AppendProperties
<1> HIDE DEF longer, n
<1>2. PICK f : Collects(f, log, a) /\ ActionResults(log, a) = f[n]
  BY ResultsCollected DEF n
<1>3. PICK g : Collects(g, longer, a) /\ ActionResults(longer, a) = g[n + 1]
  BY <1>1, ResultsCollected
<1> DEFINE S == {k \in Nat : k <= n => f[k] = g[k]}
<1>4. 0 \in S
  BY <1>2, <1>3 DEF Collects
<1>5. ASSUME NEW k \in Nat, k \in S PROVE k + 1 \in S
  <2> SUFFICES ASSUME k + 1 <= n PROVE f[k + 1] = g[k + 1]
    OBVIOUS
  <2>1. f[k] = g[k] /\ longer[k + 1] = log[k + 1]
    BY <1>1, <1>5
  <2> QED BY <1>2, <1>3, <2>1 DEF Collects
<1>6. Nat \subseteq S
  <2> HIDE DEF S
  <2> QED BY <1>4, <1>5, Induction
<1>7. f[n] = g[n]
  BY <1>1, <1>6
<1>8. g[n + 1] = IF r.action = a THEN Append(g[n], r) ELSE g[n]
  BY <1>1, <1>3 DEF Collects
<1> QED BY <1>2, <1>3, <1>7, <1>8 DEF longer

\* An empty log has no results.
LEMMA ResultsOfEmpty ==
  ASSUME NEW a PROVE ActionResults(<<>>, a) = <<>> /\ UsedActions(<<>>) = {}
<1>1. PICK f : Collects(f, <<>>, a) /\ ActionResults(<<>>, a) = f[Len(<<>>)]
  BY ResultsCollected
<1>2. Len(<<>>) = 0 /\ DOMAIN <<>> = {}
  BY EmptySeq
<1> QED BY <1>1, <1>2 DEF Collects, UsedActions

\* An action is used when a result of it is appended.
LEMMA UsedOfAppend ==
  ASSUME NEW log \in Seq(Results), NEW r \in Results
  PROVE  UsedActions(Append(log, r)) = UsedActions(log) \cup {r.action}
<1> DEFINE n == Len(log)
           longer == Append(log, r)
<1>1. /\ n \in Nat /\ DOMAIN log = 1..n /\ DOMAIN longer = 1..(n + 1)
      /\ longer[n + 1] = r /\ \A k \in 1..n : longer[k] = log[k]
  BY LenProperties, AppendProperties
<1> HIDE DEF longer, n
<1>2. 1..(n + 1) = 1..n \cup {n + 1}
  BY <1>1
<1>3. {longer[i].action : i \in 1..n \cup {n + 1}} = {log[i].action : i \in 1..n} \cup {r.action}
  BY <1>1, Zenon
<1> QED BY <1>1, <1>2, <1>3 DEF UsedActions, longer

\* What holds of the results of an action, for every log.
LEMMA ResultsFacts ==
  ASSUME NEW a
  PROVE  \A log \in Seq(Results) :
           /\ ActionResults(log, a) \in Seq(Results)
           /\ a \in UsedActions(log) <=> ActionResults(log, a) # <<>>
<1> DEFINE P(log) == /\ ActionResults(log, a) \in Seq(Results)
                     /\ a \in UsedActions(log) <=> ActionResults(log, a) # <<>>
           S == {k \in Nat : \A log \in Seq(Results) : Len(log) = k => P(log)}
<1>1. 0 \in S
  <2>1. ASSUME NEW log \in Seq(Results), Len(log) = 0 PROVE P(log)
    <3>1. log = <<>>
      BY <2>1, EmptySeq
    <3> QED BY <3>1, ResultsOfEmpty
  <2> QED BY <2>1
<1>2. ASSUME NEW k \in Nat, k \in S PROVE k + 1 \in S
  <2> SUFFICES ASSUME NEW log \in Seq(Results), Len(log) = k + 1 PROVE P(log)
    OBVIOUS
  <2>1. log # <<>>
    BY EmptySeq
  <2>2. PICK l \in Seq(Results), r \in Results : log = Append(l, r)
    BY <2>1, SequenceEmptyOrAppend
  <2>3. Len(l) = k
    <3> DEFINE n == Len(l)
    <3>1. n \in Nat /\ Len(log) = n + 1
      BY <2>2, LenProperties, AppendProperties
    <3> HIDE DEF n
    <3>2. n = k
      BY <3>1
    <3> QED BY <3>2 DEF n
  <2>4. P(l)
    BY <1>2, <2>3
  <2> DEFINE found == ActionResults(l, a)
  <2>5. ActionResults(log, a) = IF r.action = a THEN Append(found, r) ELSE found
    BY <2>2, ResultsOfAppend
  <2>6. UsedActions(log) = UsedActions(l) \cup {r.action}
    BY <2>2, UsedOfAppend
  <2>7. found \in Seq(Results) /\ (a \in UsedActions(l) <=> found # <<>>)
    BY <2>4
  <2> HIDE DEF found
  <2>8. Append(found, r) \in Seq(Results) /\ Append(found, r) # <<>>
    BY <2>7, AppendProperties
  <2> QED BY <2>5, <2>6, <2>7, <2>8
<1>3. Nat \subseteq S
  <2> HIDE DEF S
  <2> QED BY <1>1, <1>2, Induction
<1> HIDE DEF P
<1>4. ASSUME NEW log \in Seq(Results) PROVE P(log)
  <2>1. Len(log) \in S
    <3> HIDE DEF S
    <3> QED BY <1>3, LenProperties
  <2> QED BY <2>1
<1> QED BY <1>4 DEF P

\* The sizes of some results, one after the other.
SizesOf(done) == [i \in DOMAIN done |-> done[i].size]

\* They add up.
LEMMA SizesAddUp ==
  ASSUME NEW done \in Seq(Results), NEW r \in Results
  PROVE  /\ Total(SizesOf(done)) \in Nat
         /\ done = <<>> => Total(SizesOf(done)) = 0
         /\ Total(SizesOf(Append(done, r))) = Total(SizesOf(done)) + r.size
<1> DEFINE n == Len(done)
           longer == Append(done, r)
           w == SizesOf(done)
           v == SizesOf(longer)
<1>1. /\ n \in Nat /\ DOMAIN done = 1..n /\ DOMAIN longer = 1..(n + 1) /\ longer \in Seq(Results)
      /\ longer[n + 1] = r /\ \A k \in 1..n : longer[k] = done[k] /\ done[k] \in Results
      /\ done = <<>> => n = 0
  BY LenProperties, AppendProperties, EmptySeq
<1>2. \A x \in Results : x.size \in Nat
  BY ResultNumbers
<1> HIDE DEF n, longer
<1>3. w = [i \in 1..n |-> done[i].size] /\ v = [i \in 1..(n + 1) |-> longer[i].size]
  BY <1>1 DEF SizesOf
<1>4. /\ w \in Seq(Nat) /\ Len(w) = n /\ v \in Seq(Nat) /\ Len(v) = n + 1
      /\ v[n + 1] = r.size /\ \A i \in 1..n : w[i] = v[i] /\ w[i] \in 0..v[i]
  <2>1. \A i \in 1..(n + 1) : i = n + 1 \/ i \in 1..n
    BY <1>1
  <2>2. \A i \in 1..n : done[i].size \in Nat /\ i \in 1..(n + 1)
    BY <1>1, <1>2
  <2>3. \A i \in 1..(n + 1) : longer[i].size \in Nat
    BY <1>1, <1>2, <2>1
  <2>4. w \in [1..n -> Nat] /\ v \in [1..(n + 1) -> Nat]
    BY <1>3, <2>2, <2>3
  <2>5. v[n + 1] = r.size /\ \A i \in 1..n : w[i] = v[i]
    BY <1>1, <1>3, <2>2
  <2>6. \A i \in 1..n : w[i] \in Nat
    BY <2>4
  <2> HIDE DEF w, v
  <2>7. \A i \in 1..n : w[i] \in 0..v[i]
    BY <2>5, <2>6
  <2>8. w \in Seq(Nat) /\ Len(w) = n /\ v \in Seq(Nat) /\ Len(v) = n + 1
    BY <1>1, <2>4
  <2> QED BY <2>5, <2>7, <2>8
<1> HIDE DEF w, v
<1> DEFINE A == 1..n
           B == 1..(n + 1)
<1>5. /\ Total(w) = Sum(w, A) /\ IsFiniteSet(A) /\ \A i \in A : w[i] \in Int
      /\ Total(v) = Sum(v, B) /\ IsFiniteSet(B) /\ \A i \in B : v[i] \in Int
  BY <1>4, TotalIsSum
<1>6. B \ {n + 1} = A /\ n + 1 \in B /\ \A i \in A : w[i] = v[i]
  BY <1>1, <1>4
<1> HIDE DEF A, B
<1>7. Sum(w, A) \in Int /\ (A = {} => Sum(w, A) = 0) /\ Sum(v, A) = Sum(w, A)
  BY <1>5, <1>6, SumFacts
<1>8. Sum(v, B) = v[n + 1] + Sum(v, A)
  BY <1>5, <1>6, SumFacts
<1>9. Total(w) \in Nat
  BY <1>4, TotalType
<1>10. n = 0 => A = {}
  BY DEF A
<1>11. r.size \in Nat
  BY <1>2
<1>12. Total(w) \in Nat /\ (done = <<>> => Total(w) = 0) /\ Total(v) = Total(w) + r.size
  BY <1>1, <1>4, <1>5, <1>7, <1>8, <1>9, <1>10, <1>11
<1> QED BY <1>12 DEF w, v, longer

\* The total of an action grows by its own results, and no other result.
LEMMA SizeTotalFacts ==
  ASSUME NEW log \in Seq(Results), NEW r \in Results, NEW a
  PROVE  /\ SizeTotal(log, a) \in Nat
         /\ a \notin UsedActions(log) => SizeTotal(log, a) = 0
         /\ SizeTotal(Append(log, r), a) =
              IF r.action = a THEN SizeTotal(log, a) + r.size ELSE SizeTotal(log, a)
<1>1. \A l : SizeTotal(l, a) = Total(SizesOf(ActionResults(l, a)))
  BY DEF SizeTotal, SizesOf
<1> DEFINE done == ActionResults(log, a)
<1>2. done \in Seq(Results) /\ (a \in UsedActions(log) <=> done # <<>>)
  BY ResultsFacts
<1>3. ActionResults(Append(log, r), a) = IF r.action = a THEN Append(done, r) ELSE done
  BY ResultsOfAppend
<1>4. SizeTotal(log, a) = Total(SizesOf(done))
  BY <1>1
<1> HIDE DEF done
<1> QED BY <1>1, <1>2, <1>3, <1>4, SizesAddUp

-----------------------------------------------------------------------------
\* A throughput is a natural number.
LEMMA ThroughputType ==
  ASSUME NEW r \in Results PROVE Throughput(r) \in Nat
<1>1. r.size \in Nat /\ r.duration \in Nat /\ Second \in Nat
  BY ResultAssumption, ResultNumbers
<1> DEFINE n == r.size * Second
           d == r.duration
<1>2. n \in Nat /\ d \in Nat
  BY <1>1
<1> HIDE DEF n, d
<1>3. d # 0 => n \div d \in Nat
  BY <1>2
<1> QED BY <1>3 DEF Throughput, n, d

\* Every column of the table has statistics that are in order.
LEMMA ReportIsOrdered ==
  ASSUME NEW log \in Seq(Results), NEW a \in UsedActions(log)
  PROVE  Ordered(Report(log).stats[a])
<1> DEFINE done == ActionResults(log, a)
           values == [i \in DOMAIN done |-> Throughput(done[i])]
<1>1. done \in Seq(Results) /\ done # <<>>
  BY ResultsFacts
<1>2. Report(log).stats[a] = Statistics(values)
  BY Zenon DEF Report
<1> HIDE DEF done
<1>3. /\ Len(done) \in Nat /\ Len(done) # 0 /\ DOMAIN done = 1..Len(done)
      /\ \A i \in 1..Len(done) : done[i] \in Results
  BY <1>1, LenProperties, EmptySeq
<1>4. values \in [1..Len(done) -> Nat]
  BY <1>3, ThroughputType
<1> HIDE DEF values
<1>5. values \in Seq(Nat) /\ Len(values) = Len(done)
  BY <1>3, <1>4
<1>6. values # <<>>
  BY <1>3, <1>5, EmptySeq
<1> QED BY <1>2, <1>5, <1>6, StatisticsAreOrdered

-----------------------------------------------------------------------------
\* The results that are in the totals, and those whose actions have a total.
Counted == IF At \in Committing THEN Front(results) ELSE results
Listed == IF At \in {"durations", "sizes"} THEN Front(results) ELSE results

\* The total of an action over a log, as the program keeps it.
TotalOf(log, a) == [value |-> SizeTotal(log, a), unit |-> "B", rounding |-> TRUE]

\* At every statement of commit() the totals are those of what is counted.
TotalsKept ==
  /\ At \in Committing =>
       result \in Results /\ Front(results) \in Seq(Results) /\ results = Append(Front(results), result)
  /\ DOMAIN sizes = UsedActions(Listed)
  /\ \A a \in DOMAIN sizes : sizes[a] = TotalOf(Counted, a)

\* What the table says of the totals of a log.
LinesMatch(lines, log) ==
  /\ DOMAIN lines \subseteq UsedActions(log)
  /\ \A a \in UsedActions(log) :
       \/ a \in DOMAIN lines /\ lines[a] = SizeTotal(log, a) \div Bytes["MB"]
       \/ /\ caught # "none" /\ log # <<>> /\ log[Len(log)].action = a
          /\ IF a \in DOMAIN lines THEN lines[a] = SizeTotal(Front(log), a) \div Bytes["MB"]
             ELSE a \notin UsedActions(Front(log))

\* The table is printed last, or last but for the handler's file.
PrintedLast == printed.report # <<>> => stage \in {"handlerOpen", "handlerWrite", "over"}

\* The inductive invariant of the table.
TInv == IInv /\ TotalsKept /\ PrintedLast /\ TotalsMatchLog /\ StatisticsOrdered

\* The log without its last result.
LEMMA FrontOfAppend ==
  ASSUME NEW log \in Seq(Results), NEW r \in Results
  PROVE  /\ Front(Append(log, r)) = log /\ Append(log, r) # <<>>
         /\ Append(log, r)[Len(Append(log, r))] = r
BY AppendProperties DEF Front

\* Totals are in bytes: a size is added as it is, and shown in whole MB.
LEMMA TotalsInBytes ==
  ASSUME NEW log, NEW a, SizeTotal(log, a) \in Nat
  PROVE  /\ Convert(TotalOf(log, a), "MB").value = SizeTotal(log, a) \div Bytes["MB"]
         /\ \A r \in Results :
              TotalSize(TotalOf(log, a), r) =
                [value |-> SizeTotal(log, a) + r.size, unit |-> "B", rounding |-> TRUE]
<1>1. Bytes["B"] = 1
  BY Zenon DEF Bytes
<1>2. \A r \in Results : r.size \in Nat
  BY ResultNumbers
<1>3. Convert(TotalOf(log, a), "MB").value = (SizeTotal(log, a) * Bytes["B"]) \div Bytes["MB"]
  BY DEF Convert, TotalOf, DataSize
<1>4. ASSUME NEW r \in Results
      PROVE  TotalSize(TotalOf(log, a), r) =
               [value    |-> SizeTotal(log, a) + ((r.size * Bytes["B"]) \div Bytes["B"]),
                unit     |-> "B",
                rounding |-> TRUE]
  <2> DEFINE added == (r.size * Bytes["B"]) \div Bytes["B"]
             total == TotalOf(log, a)
  <2>1. Convert(DataSize(r.size, "B", FALSE), "B").value = added
    BY DEF Convert, DataSize
  <2>2. total.value = SizeTotal(log, a) /\ total.unit = "B" /\ total.rounding = TRUE
    BY DEF TotalOf
  <2> HIDE DEF added, total
  <2>3. TotalSize(total, r) = [[value |-> total.value + added, unit |-> "B", rounding |-> FALSE]
                                 EXCEPT !.rounding = TRUE]
    BY <2>1, <2>2 DEF TotalSize, AddTo, Plus, DataSize
  <2> QED BY <2>2, <2>3 DEF added, total
<1>5. \A n \in Nat : n * 1 = n /\ n \div 1 = n
  OBVIOUS
<1> QED BY <1>1, <1>2, <1>3, <1>4, <1>5

\* At the start nothing is counted and nothing is printed.
LEMMA TotalsStart == Init => TotalsKept /\ PrintedLast /\ TotalsMatchLog /\ StatisticsOrdered
<1> SUFFICES ASSUME Init PROVE TotalsKept /\ PrintedLast /\ TotalsMatchLog /\ StatisticsOrdered
  OBVIOUS
<1>1. At \notin Committing /\ results = <<>> /\ DOMAIN sizes = {}
  BY DEF Init, At, Committing
<1>2. TotalsKept
  BY <1>1, ResultsOfEmpty DEF TotalsKept, Listed, Committing
<1>3. printed.report = <<>>
  BY DEF Init, Unprinted
<1> QED BY <1>2, <1>3 DEF PrintedLast, TotalsMatchLog, StatisticsOrdered

\* What leaves the log, the totals and the statement of commit() alone keeps
\* the totals.
LEMMA TotalsUntouched ==
  ASSUME TotalsKept, UNCHANGED <<results, sizes>>,
         \/ At' = At /\ result' = result
         \/ At \notin Committing /\ At' \notin Committing
  PROVE  TotalsKept'
<1>1. CASE At' = At /\ result' = result
  <2>1. Counted' = Counted /\ Listed' = Listed
    BY <1>1 DEF Counted, Listed
  <2> QED BY <1>1, <2>1 DEF TotalsKept
<1>2. CASE At \notin Committing /\ At' \notin Committing
  <2>1. Counted' = Counted /\ Listed' = Listed
    BY <1>2 DEF Counted, Listed, Committing
  <2> QED BY <1>2, <2>1 DEF TotalsKept
<1> QED BY <1>1, <1>2

\* The statements of commit() lead from the totals of the log without the new
\* result to those of the log with it.
LEMMA CommitKeepsTotals ==
  ASSUME IInv, TotalsKept, CommitStep PROVE TotalsKept'
<1>1. /\ stage \in Committing \cup Pushing /\ At = stage /\ At' = stage'
      /\ stage' \in Committing \cup Pushing \cup {"committed"} /\ result' = result
  <2>1. /\ stage \in Committing \cup Pushing /\ UNCHANGED <<caught, result>>
        /\ stage' \in Committing \cup Pushing \cup {"committed"}
    BY DEF CommitStep, Commit, Push, Pushed, CreateDuration, CreateSize, AddDuration, AddSize,
           progVars, logVars, Committing, Pushing
  <2>2. caught = "none"
    BY <2>1 DEF IInv, Control, Committing, Pushing, InHandler
  <2> QED BY <2>1, <2>2 DEF At
<1>2. results \in Seq(Results) /\ result \in Results
  BY DEF IInv, LogIsRight, Types
<1>3. CASE Push
  <2>1. At \notin Committing /\ At' \notin Committing /\ UNCHANGED <<results, sizes>>
    BY <1>1, <1>3 DEF Push, logVars, Committing
  <2> QED BY <2>1, TotalsUntouched
<1>4. CASE Pushed
  <2>1. /\ stage \in Pushing /\ stage \notin Committing /\ stage' = "durations" /\ sizes' = sizes
        /\ results' = Append(results, result)
    BY <1>4 DEF Pushed, Pushing, Logged, Committing
  <2>2. Front(results') = results
    BY <1>2, <2>1, FrontOfAppend
  <2>3. Counted' = results /\ Listed' = results /\ Counted = results /\ Listed = results
    BY <1>1, <2>1, <2>2 DEF Counted, Listed, Committing
  <2> QED BY <1>1, <1>2, <2>1, <2>2, <2>3 DEF TotalsKept
<1>5. CASE CreateDuration \/ AddDuration
  <2>1. /\ UNCHANGED <<results, sizes>>
        /\ \/ stage = "durations" /\ stage' = "sizes"
           \/ stage = "addDuration" /\ stage' = "addSize"
    BY <1>5 DEF CreateDuration, AddDuration
  <2>2. Counted' = Counted /\ Listed' = Listed /\ At \in Committing
    BY <1>1, <2>1 DEF Counted, Listed, Committing
  <2> QED BY <1>1, <2>1, <2>2 DEF TotalsKept
<1>6. CASE CreateSize
  <2>1. /\ stage = "sizes" /\ stage' = "addDuration" /\ UNCHANGED <<result, results>>
        /\ sizes' = Created(sizes, Zero)
    BY <1>6 DEF CreateSize
  <2> DEFINE front == Front(results)
             act == result.action
  <2>2. /\ result \in Results /\ front \in Seq(Results) /\ results = Append(front, result)
        /\ DOMAIN sizes = UsedActions(front)
        /\ \A a \in DOMAIN sizes : sizes[a] = TotalOf(front, a)
    BY <1>1, <2>1 DEF TotalsKept, Counted, Listed, Committing
  <2>3. Counted' = front /\ Listed' = results
    BY <1>1, <2>1 DEF Counted, Listed, Committing
  <2> HIDE DEF front
  <2>4. UsedActions(results) = UsedActions(front) \cup {act}
    BY <2>2, UsedOfAppend
  <2>5. act \notin UsedActions(front) => Zero = TotalOf(front, act)
    <3>1. act \notin UsedActions(front) => SizeTotal(front, act) = 0
      BY <2>2, SizeTotalFacts
    <3> QED BY <3>1 DEF Zero, DataSize, TotalOf
  <2>6. /\ DOMAIN sizes' = DOMAIN sizes \cup {act}
        /\ \A a \in DOMAIN sizes' : sizes'[a] = IF a \in DOMAIN sizes THEN sizes[a] ELSE Zero
    BY <2>1 DEF Created
  <2>7. \A a \in DOMAIN sizes' : sizes'[a] = TotalOf(front, a)
    BY <2>2, <2>5, <2>6, Zenon
  <2>8. DOMAIN sizes' = UsedActions(results)
    BY <2>2, <2>4, <2>6
  <2> QED BY <1>1, <2>1, <2>2, <2>3, <2>7, <2>8 DEF TotalsKept, front
<1>7. CASE AddSize
  <2>1. /\ stage = "addSize" /\ stage' = "committed" /\ UNCHANGED <<result, results>>
        /\ sizes' = [sizes EXCEPT ![result.action] = TotalSize(@, result)]
    BY <1>7 DEF AddSize
  <2> DEFINE front == Front(results)
             act == result.action
  <2>2. /\ result \in Results /\ front \in Seq(Results) /\ results = Append(front, result)
        /\ DOMAIN sizes = UsedActions(results)
        /\ \A a \in DOMAIN sizes : sizes[a] = TotalOf(front, a)
    BY <1>1, <2>1 DEF TotalsKept, Counted, Listed, Committing
  <2>3. Counted' = results /\ Listed' = results /\ At' \notin Committing
    BY <1>1, <2>1 DEF Counted, Listed, Committing
  <2> HIDE DEF front
  <2>4. DOMAIN sizes' = UsedActions(results)
    BY <2>1, <2>2
  <2>5. ASSUME NEW a \in DOMAIN sizes' PROVE sizes'[a] = TotalOf(results, a)
    <3>1. /\ SizeTotal(front, a) \in Nat
          /\ SizeTotal(results, a) = IF act = a THEN SizeTotal(front, a) + result.size
                                     ELSE SizeTotal(front, a)
      BY <2>2, SizeTotalFacts
    <3>2. a \in DOMAIN sizes /\ sizes[a] = TotalOf(front, a)
      BY <2>2, <2>4
    <3>3. CASE a = act
      <4>1. sizes'[a] = TotalSize(TotalOf(front, a), result)
        BY <2>1, <3>2, <3>3
      <4>2. sizes'[a] = [value |-> SizeTotal(front, a) + result.size, unit |-> "B", rounding |-> TRUE]
        BY <2>2, <3>1, <4>1, TotalsInBytes
      <4> QED BY <3>1, <3>3, <4>2 DEF TotalOf
    <3>4. CASE a # act
      <4>1. sizes'[a] = sizes[a]
        BY <2>1, <3>2, <3>4
      <4> QED BY <3>1, <3>2, <3>4, <4>1 DEF TotalOf
    <3> QED BY <3>3, <3>4
  <2> QED BY <2>1, <2>3, <2>4, <2>5 DEF TotalsKept
<1> QED BY <1>3, <1>4, <1>5, <1>6, <1>7 DEF CommitStep, Commit

\* No step but the two that print touches the table.
LEMMA PrintedLater ==
  ASSUME IInv, [Next]_vars, ~ PrintResults, ~ HandlerPrint
  PROVE  /\ printed' = printed
         /\ stage \in {"handlerOpen", "handlerWrite", "over"} =>
              stage' \in {"handlerOpen", "handlerWrite", "over"} /\ caught' = caught
<1> USE DEF Goto, Ends, progVars, logVars
<1>0. stage \in {"handlerOpen", "handlerWrite"} => handled /\ caught # "none"
  BY DEF IInv, Control, InHandler
<1>1. CASE Globals \/ Engine \/ Install \/ Uninstall \/ Fails \/ Return \/ Sample
  BY <1>1 DEF Globals, Engine, Install, Uninstall, Fails, Return, Sample
<1>2. CASE \E name \in {"aging", "basic"} : Choose(name)
  BY <1>2 DEF Choose
<1>3. CASE \/ \E blocksize, filesize, time \in Texts : StartBasic(blocksize, filesize, time)
           \/ \E time \in Texts, usable \in BOOLEAN : StartAging(time, usable)
  BY <1>3 DEF StartBasic, StartAging
<1>4. CASE EndCycle \/ NewResult \/ \E a \in Actions, s \in Sizes, d \in Durations : Operate(a, s, d)
  BY <1>4 DEF Operate, EndCycle, NewResult
<1>5. CASE CommitStep
  BY <1>5 DEF CommitStep, Commit, Push, Pushed, CreateDuration, CreateSize, AddDuration, AddSize
<1>6. CASE OpenResults \/ WriteResults
  BY <1>6 DEF OpenResults, Open, WriteResults
<1>7. CASE HandlerOpen \/ \E k \in 0..Len(results) : HandlerWrite(k)
  BY <1>7 DEF HandlerOpen, Open, HandlerWrite
<1>8. CASE Killed \/ Interrupt
  BY <1>0, <1>8 DEF Killed, Interrupt
<1>9. CASE UNCHANGED vars
  BY <1>9 DEF vars
<1> QED BY <1>1, <1>2, <1>3, <1>4, <1>5, <1>6, <1>7, <1>8, <1>9 DEF Next, Main, Handler

\* The totals are kept, whatever happens.
LEMMA TotalsStay ==
  ASSUME IInv, TotalsKept, [Next]_vars PROVE TotalsKept'
<1> USE DEF Goto, Ends, progVars, logVars
<1>0. /\ stage \in Before \cup Handled \cup Saving \cup InHandler \cup {"over"}
      /\ stage \in Handled => caught = "none"
  BY DEF IInv, Control, Handled, InHandler, Pushing, Committing
<1>1. CASE CommitStep
  BY <1>1, CommitKeepsTotals
<1>2. CASE EndCycle \/ NewResult \/ \E a \in Actions, s \in Sizes, d \in Durations : Operate(a, s, d)
  <2>1. /\ stage \in {"running", "committed"} /\ stage' \in {"running", "push"}
        /\ UNCHANGED <<caught, results, sizes>>
    BY <1>2 DEF Operate, EndCycle, NewResult
  <2>2. At \notin Committing /\ At' \notin Committing
    BY <1>0, <2>1 DEF At, Committing, Handled
  <2> QED BY <2>1, <2>2, TotalsUntouched
<1>3. CASE /\ UNCHANGED <<result, results, sizes>>
           /\ At' = At \/ (At \notin Committing /\ At' \notin Committing)
  BY <1>3, TotalsUntouched
<1>4. CASE Globals \/ Engine \/ Install \/ Uninstall \/ Fails \/ Return \/ Sample
  <2>1. UNCHANGED <<caught, result, results, sizes>>
    BY <1>4 DEF Globals, Engine, Install, Uninstall, Fails, Return, Sample
  <2>2. stage \notin Committing /\ stage' \notin Committing
    BY <1>4 DEF Globals, Engine, Install, Uninstall, Fails, Return, Sample, Committing
  <2> QED BY <1>3, <2>1, <2>2 DEF At
<1>5. CASE \E name \in {"aging", "basic"} : Choose(name)
  BY <1>3, <1>5 DEF Choose, At, Committing
<1>6. CASE \/ \E blocksize, filesize, time \in Texts : StartBasic(blocksize, filesize, time)
           \/ \E time \in Texts, usable \in BOOLEAN : StartAging(time, usable)
  BY <1>3, <1>6 DEF StartBasic, StartAging, At, Committing
<1>7. CASE OpenResults \/ WriteResults \/ PrintResults
  <2>1. /\ UNCHANGED <<caught, result, results, sizes>>
        /\ stage \in Saving /\ stage' \in Saving \cup {"over"}
    BY <1>7 DEF OpenResults, Open, WriteResults, PrintResults, PrintLog, Saving
  <2>2. stage \notin Committing /\ stage' \notin Committing
    BY <2>1 DEF Saving, Committing
  <2> QED BY <1>3, <2>1, <2>2 DEF At
<1>8. CASE HandlerPrint \/ HandlerOpen \/ \E k \in 0..Len(results) : HandlerWrite(k)
  <2>1. UNCHANGED <<caught, result, results, sizes>> /\ stage \in InHandler
    BY <1>8 DEF HandlerPrint, HandlerOpen, Open, HandlerWrite, PrintLog, InHandler
  <2>2. caught # "none"
    BY <2>1 DEF IInv, Control
  <2> QED BY <1>3, <2>1, <2>2 DEF At
<1>9. CASE Killed
  <2>1. UNCHANGED <<caught, result, results, sizes>> /\ ~handled /\ stage' = "over"
    BY <1>9 DEF Killed
  <2>2. stage \notin Committing /\ stage' \notin Committing
    BY <2>1 DEF IInv, Control, Handled, Committing
  <2> QED BY <1>3, <2>1, <2>2 DEF At
<1>10. CASE Interrupt
  <2>1. /\ UNCHANGED <<result, results, sizes>> /\ caught = "none" /\ caught' = stage
        /\ handled /\ stage # "over"
    BY <1>10 DEF Interrupt
  <2>2. stage # "none"
    BY <1>0 DEF Before, Handled, Saving, InHandler, Pushing, Committing
  <2> QED BY <1>3, <2>1, <2>2 DEF At
<1>11. CASE UNCHANGED vars
  BY <1>3, <1>11 DEF vars, At
<1> QED BY <1>1, <1>2, <1>4, <1>5, <1>6, <1>7, <1>8, <1>9, <1>10, <1>11 DEF Next, Main, Handler

\* A total is a natural number.
LEMMA SizeTotalType ==
  ASSUME NEW log \in Seq(Results), NEW a PROVE SizeTotal(log, a) \in Nat
<1> DEFINE done == ActionResults(log, a)
           values == [i \in DOMAIN done |-> done[i].size]
<1>1. done \in Seq(Results)
  BY ResultsFacts
<1> HIDE DEF done
<1>2. DOMAIN done = 1..Len(done) /\ Len(done) \in Nat /\ \A i \in 1..Len(done) : done[i].size \in Nat
  <2>1. \A x \in Results : x.size \in Nat
    BY ResultNumbers
  <2> QED BY <1>1, <2>1, LenProperties
<1>3. values \in [1..Len(done) -> Nat]
  BY <1>2
<1>4. values \in Seq(Nat)
  BY <1>2, <1>3
<1>5. SizeTotal(log, a) = Total(values)
  BY DEF SizeTotal, done
<1> QED BY <1>4, <1>5, TotalType

\* What is printed of the log is what the log and its totals say.
LEMMA LinesMatchTheLog ==
  ASSUME IInv, TotalsKept, stage \in {"print", "handlerPrint"}
  PROVE  LinesMatch(Report(results).mb, results)
<1> DEFINE lines == Report(results).mb
           whole == Bytes["MB"]
<1>1. results \in Seq(Results)
  BY DEF IInv, LogIsRight, Types
<1>2. DOMAIN sizes = UsedActions(Listed) /\ \A a \in DOMAIN sizes : sizes[a] = TotalOf(Counted, a)
  BY DEF TotalsKept
<1>3. At \in Committing =>
        result \in Results /\ Front(results) \in Seq(Results) /\ results = Append(Front(results), result)
  BY DEF TotalsKept
<1>4. lines = [a \in UsedActions(results) \cap DOMAIN sizes |-> Convert(sizes[a], "MB").value]
  BY Zenon DEF Report, Printed
<1>5. Counted \in Seq(Results)
  BY <1>1, <1>3 DEF Counted
<1>6. \A a \in DOMAIN lines : lines[a] = SizeTotal(Counted, a) \div whole
  <2> TAKE a \in DOMAIN lines
  <2>1. a \in DOMAIN sizes /\ lines[a] = Convert(sizes[a], "MB").value
    BY <1>4
  <2>2. SizeTotal(Counted, a) \in Nat
    BY <1>5, SizeTotalType
  <2> QED BY <1>2, <2>1, <2>2, TotalsInBytes
<1>7. DOMAIN lines = UsedActions(results) \cap UsedActions(Listed)
  BY <1>2, <1>4
<1> HIDE DEF lines, whole
<1>8. CASE At \in Committing
  <2> DEFINE front == Front(results)
  <2>1. caught # "none"
    BY <1>8 DEF At, Committing
  <2>2. Counted = front /\ (Listed = front \/ Listed = results)
    BY <1>8 DEF Counted, Listed
  <2>3. front \in Seq(Results) /\ result \in Results /\ results = Append(front, result)
    BY <1>3, <1>8
  <2>4. results # <<>> /\ results[Len(results)] = result
    BY <2>3, FrontOfAppend
  <2> HIDE DEF front
  <2>5. /\ UsedActions(results) = UsedActions(front) \cup {result.action}
        /\ \A a : a # result.action => SizeTotal(results, a) = SizeTotal(front, a)
    BY <2>3, UsedOfAppend, SizeTotalFacts
  <2>6. UsedActions(front) \subseteq DOMAIN lines /\ DOMAIN lines \subseteq UsedActions(results)
    BY <1>7, <2>2, <2>5
  <2>7. front = Front(results)
    BY DEF front
  <2> QED BY <1>6, <2>1, <2>2, <2>4, <2>5, <2>6, <2>7 DEF LinesMatch, lines, whole
<1>9. CASE At \notin Committing
  <2>1. Counted = results /\ Listed = results
    BY <1>9 DEF Counted, Listed, Committing
  <2> QED BY <1>6, <1>7, <2>1 DEF LinesMatch, lines, whole
<1> QED BY <1>8, <1>9

\* The invariant is kept by every step.
LEMMA TotalsKeep == TInv /\ [Next]_vars => TInv'
<1> SUFFICES ASSUME TInv, [Next]_vars PROVE TInv'
  OBVIOUS
<1>1. IInv' /\ TotalsKept'
  BY Keeps, TotalsStay DEF TInv
<1>2. CASE PrintResults \/ HandlerPrint
  <2>1. /\ stage \in {"print", "handlerPrint"} /\ stage' \in {"handlerOpen", "over"}
        /\ caught' = caught
        /\ printed' = printed \/ printed' = [log |-> results, report |-> Report(results)]
    BY <1>2 DEF PrintResults, HandlerPrint, PrintLog, Goto, Ends, progVars
  <2>2. printed' = printed => printed'.report = <<>>
    BY <2>1 DEF TInv, PrintedLast
  <2>3. LinesMatch(Report(results).mb, results)
    BY <2>1, LinesMatchTheLog DEF TInv
  <2>4. \A a \in DOMAIN Report(results).stats : Ordered(Report(results).stats[a])
    <3>1. DOMAIN Report(results).stats = UsedActions(results) /\ results \in Seq(Results)
      BY DEF Report, TInv, IInv, LogIsRight, Types
    <3> QED BY <3>1, ReportIsOrdered
  <2>5. printed'.report # <<>> => printed'.report = Report(results) /\ printed'.log = results
    BY <2>1, <2>2
  <2>6. TotalsMatchLog'
    BY <2>1, <2>3, <2>5 DEF TotalsMatchLog, LinesMatch
  <2>7. StatisticsOrdered'
    BY <2>4, <2>5 DEF StatisticsOrdered, Ordered
  <2> QED BY <1>1, <2>1, <2>6, <2>7 DEF TInv, PrintedLast
<1>3. CASE ~ PrintResults /\ ~ HandlerPrint
  <2>1. /\ printed' = printed
        /\ printed.report # <<>> => /\ stage' \in {"handlerOpen", "handlerWrite", "over"}
                                    /\ caught' = caught
    BY <1>3, PrintedLater DEF TInv, PrintedLast
  <2> QED BY <1>1, <2>1 DEF TInv, PrintedLast, TotalsMatchLog, StatisticsOrdered
<1> QED BY <1>2, <1>3

\* The totals printed at the end are those of the printed log; the ones the
\* handler prints miss at most its last result, which was being committed.
THEOREM PrintedTotalsMatch == Spec => []TotalsMatchLog
<1>1. Init => TInv
  BY Starts, TotalsStart DEF TInv
<1>2. TInv => TotalsMatchLog
  BY DEF TInv
<1> QED BY <1>1, <1>2, TotalsKeep, PTL DEF Spec

\* The statistics that are printed are in order, of any number of results of any
\* sizes and durations.
THEOREM PrintedStatisticsOrdered == Spec => []StatisticsOrdered
<1>1. Init => TInv
  BY Starts, TotalsStart DEF TInv
<1>2. TInv => StatisticsOrdered
  BY DEF TInv
<1> QED BY <1>1, <1>2, TotalsKeep, PTL DEF Spec
=============================================================================
