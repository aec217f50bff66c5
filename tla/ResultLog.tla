----------------------------- MODULE ResultLog -----------------------------
(***************************************************************************)
(* The results of the aging scenario (include/filestorm/result.h): the     *)
(* vector of committed results, the totals per action kept beside it, and  *)
(* the table printed from both.  commit() is taken statement by statement, *)
(* because SIGINT may come between any two and the handler prints and      *)
(* saves whatever it finds.                                                *)
(*                                                                         *)
(* Operators marked "Fault:" are not part of the model; the mutation runs  *)
(* put them in place of the operator that follows.                         *)
(***************************************************************************)
EXTENDS DataSizes, SequencesExt

CONSTANTS Actions,     \* the kinds of operation, the enumeration Action
          DeleteFile,  \* the first of them, and so the action of a reset Result
          Unknown,     \* a value of an uninitialized Action that names no action
          Sizes,       \* the sizes of operations, in bytes
          Durations,   \* their durations
          Second       \* one second, in the unit of the durations

ASSUME ResultAssumption ==
  /\ DeleteFile \in Actions /\ Unknown \notin Actions
  /\ Sizes \subseteq Nat /\ Durations \subseteq Nat /\ Second \in Nat \ {0}

VARIABLES
  stage,       \* what the program does next
  result,      \* the result being filled
  results,     \* Result::results
  durations,   \* total_duration_per_action
  sizes        \* total_size_per_action

logVars == <<result, results, durations, sizes>>

\* A result of the log.  The path of an operation is its place in the order of
\* operations; a cycle that did none commits the empty path, 0.
Results == [action : Actions \cup {Unknown}, size : Sizes \cup {0},
            duration : Durations \cup {0}, path : Nat]

\* Result() sets all to zero; `Result result;` leaves the action and the
\* duration as they are.
Blank == [action |-> DeleteFile, size |-> 0, duration |-> 0, path |-> 0]
Uninitialized == [action : Actions \cup {Unknown}, size : {0}, duration : Durations, path : {0}]

\* The vector doubles its array when it is full: 1, 2, 4, ... elements.
Full(log) == Len(log) \in {0, 1, 2, 4, 8, 16}

Push ==
  /\ stage = "push" /\ Full(results)
  /\ stage' = "growing" /\ UNCHANGED logVars

\* Fault: the result is reset before it is committed.
LoggedBlank == Append(results, Blank)
Logged == Append(results, result)

Pushed ==
  /\ \/ stage = "push" /\ ~Full(results)
     \/ stage = "growing"
  /\ stage' = "durations"
  /\ results' = Logged /\ UNCHANGED <<result, durations, sizes>>

\* The total of an action that has none yet is created.
Created(totals, zero) == IF result.action \in DOMAIN totals THEN totals
                         ELSE [a \in DOMAIN totals \cup {result.action} |->
                                 IF a = result.action THEN zero ELSE totals[a]]

\* Fault: the totals are created without leave to round.
Strict == DataSize(0, "B", FALSE)
Zero == DataSize(0, "B", TRUE)

CreateDuration ==
  /\ stage = "durations" /\ stage' = "sizes"
  /\ durations' = Created(durations, 0) /\ UNCHANGED <<result, results, sizes>>

CreateSize ==
  /\ stage = "sizes" /\ stage' = "addDuration"
  /\ sizes' = Created(sizes, Zero) /\ UNCHANGED <<result, results, durations>>

AddDuration ==
  /\ stage = "addDuration" /\ stage' = "addSize"
  /\ durations' = [durations EXCEPT ![result.action] = @ + result.duration]
  /\ UNCHANGED <<result, results, sizes>>

\* Fault: the total is replaced by the size of the last result.
LastSize(total, r) == [total EXCEPT !.value = r.size]
TotalSize(total, r) == AddTo(total, DataSize(r.size, "B", FALSE))

AddSize ==
  /\ stage = "addSize" /\ stage' = "committed"
  /\ sizes' = [sizes EXCEPT ![result.action] = TotalSize(@, result)]
  /\ UNCHANGED <<result, results, durations>>

Commit == Push \/ Pushed \/ CreateDuration \/ CreateSize \/ AddDuration \/ AddSize

-----------------------------------------------------------------------------
UsedActions(log) == {log[i].action : i \in DOMAIN log}
ActionResults(log, a) ==
  LET found[n \in Nat] == IF n = 0 THEN <<>>
                          ELSE IF log[n].action = a THEN Append(found[n - 1], log[n]) ELSE found[n - 1]
  IN  found[Len(log)]

Throughput(r) == IF r.duration = 0 THEN 0 ELSE (r.size * Second) \div r.duration

Total(data) == FoldSeq(LAMBDA x, y : x + y, 0, data)

\* Fault: the values stay in the order of the log.
AsLogged(data) == data
Sorted(data) ==
  LET order == CHOOSE p \in Bijection(DOMAIN data, DOMAIN data) :
                 \A i, j \in DOMAIN data : i < j => data[p[i]] <= data[p[j]]
  IN  [i \in DOMAIN data |-> data[order[i]]]

\* The mean times the number of values, and twice the median, are whole numbers.
Statistics(values) ==
  LET data == Sorted(values)
      n    == Len(data)
  IN  [min     |-> data[1],
       max     |-> data[n],
       count   |-> n,
       sum     |-> Total(data),
       q1      |-> data[n \div 4 + 1],
       median2 |-> IF n % 2 = 0 THEN data[n \div 2] + data[n \div 2 + 1]
                                ELSE 2 * data[n \div 2 + 1],
       q3      |-> data[(3 * n) \div 4 + 1]]

\* actionToString() throws at a value that names no action.
Unnamed(log) == Unknown \in UsedActions(log)

\* print() names every used action, and converts the total of every one that has
\* one to MB.
Printed(log) == UsedActions(log) \cap DOMAIN sizes
PrintThrows(log) == Unnamed(log) \/ \E a \in Printed(log) : ~Converts(sizes[a], "MB")

Report(log) ==
  [stats   |-> [a \in UsedActions(log) |->
                  LET done == ActionResults(log, a)
                  IN  Statistics([i \in DOMAIN done |-> Throughput(done[i])])],
   seconds |-> [a \in UsedActions(log) \cap DOMAIN durations |-> durations[a] \div Second],
   mb      |-> [a \in Printed(log) |-> Convert(sizes[a], "MB").value]]
=============================================================================
