----------------------- MODULE MonitoredActionProofs ------------------------
(***************************************************************************)
(* MonitoredAction, for every block size, file size and number of calls:   *)
(* no thread outlives what it uses, what is written is one range, and the  *)
(* reads start again exactly at the end of the file.                       *)
(*                                                                         *)
(* What the two counting properties need is that the 64-bit counter does   *)
(* not wrap (NoWrap), which the theorems assume: a run would have to move  *)
(* 16 EB.                                                                  *)
(***************************************************************************)
EXTENDS MonitoredAction, TLAPS

NoWrap == Block * MaxCalls < Wrap

\* Where the timer and the monitor thread are, by the place of the main thread.
Threads ==
  /\ ended <=> timer = "done"
  /\ main \in {"start", "work"} => timer = "none"
  /\ main \in {"loop", "leave"} => timer # "none"
  /\ main = "leave" /\ operation = "read" => ended
  /\ main \in {"stop", "join", "deleted", "terminated"} => timer = "done"
  /\ main = "deleted" => monitor = "done"
  /\ monitor = "none" => main = "start"

TInv == TypeOK /\ Threads

\* The counter never shrinks, and with it the samples.
Counted ==
  /\ calls <= MaxCalls
  /\ operation = "write" \/ ~ failed => bytes <= calls * Block /\ logged <= bytes
  /\ operation = "write" => offset = bytes

\* A file of whole blocks that is read without errors.
WholeBlocks == operation = "read" /\ ~ failed /\ (size % Block) = 0

\* The position of a reader: it has read the file whole several times, and then
\* as far as the end of its last read.
Position ==
  WholeBlocks =>
    /\ bytes = calls * Block
    /\ calls > 0 => /\ (offset % Block) = 0 /\ offset + Block <= size
                    /\ (bytes % size) = ((offset + Block) % size)

CInv == TInv /\ Counted

-----------------------------------------------------------------------------
\* No multiple of s lies strictly between -s and s, except 0.
LEMMA NoSmallMultiple ==
  ASSUME NEW s \in Nat \ {0}, NEW k \in Int, -s < s * k, s * k < s PROVE k = 0
<1>1. CASE k >= 1
  <2>1. s * k >= s * 1
    BY <1>1
  <2> QED BY <2>1
<1>2. CASE k <= -1
  <2>1. s * k <= s * (-1)
    BY <1>2
  <2> QED BY <2>1
<1> QED BY <1>1, <1>2

\* Quotient and remainder make up the dividend.
LEMMA Division ==
  ASSUME NEW s \in Nat \ {0}, NEW a \in Nat
  PROVE  a \div s \in Nat /\ a % s \in 0..(s - 1) /\ a = s * (a \div s) + (a % s)
OBVIOUS

\* The remainder of a number written as a multiple of s and a rest below s.
LEMMA Remainder ==
  ASSUME NEW s \in Nat \ {0}, NEW q \in Int, NEW r \in 0..(s - 1), s * q + r \in Nat
  PROVE  (s * q + r) % s = r
<1> DEFINE a == s * q + r
<1>1. a = s * (a \div s) + (a % s) /\ a \div s \in Nat /\ a % s \in 0..(s - 1)
  BY Division
<1>2. s * (q - (a \div s)) = (a % s) - r
  BY <1>1
<1>3. q - (a \div s) = 0
  BY <1>1, <1>2, NoSmallMultiple
<1>4. s * (q - (a \div s)) = 0
  BY <1>3
<1> QED BY <1>1, <1>2, <1>4

Alike(s, a, b) == (a % s) = (b % s)

\* Numbers with the same remainder keep the same remainder when c is added.
LEMMA SumRemainder ==
  ASSUME NEW s \in Nat \ {0}, NEW a \in Nat, NEW b \in Nat, NEW c \in Nat, Alike(s, a, b)
  PROVE  Alike(s, a + c, b + c)
<1> DEFINE e == b + c
           d == e \div s
           r == e % s
           q == (a \div s) - (b \div s)
<1>1. a = s * (a \div s) + (a % s) /\ b = s * (b \div s) + (b % s) /\ a \div s \in Nat /\ b \div s \in Nat
  BY Division
<1>2. b + c = s * d + r /\ d \in Nat /\ r \in 0..(s - 1)
  <2>1. e \in Nat
    OBVIOUS
  <2>2. e = b + c
    OBVIOUS
  <2> HIDE DEF e
  <2>3. e = s * d + r /\ d \in Nat /\ r \in 0..(s - 1)
    BY <2>1, Division
  <2> QED BY <2>2, <2>3
<1>3. a - b = s * q /\ q \in Int
  <2>1. (a % s) = (b % s)
    BY DEF Alike
  <2> QED BY <1>1, <2>1
<1> HIDE DEF d, r, q
<1>4. a + c = s * (q + d) + r
  <2>1. a + c = s * q + s * d + r
    BY <1>2, <1>3
  <2>2. s * q + s * d = s * (q + d)
    BY <1>2, <1>3
  <2> QED BY <2>1, <2>2
<1>5. q + d \in Int /\ a + c \in Nat
  BY <1>2, <1>3
<1>6. (s * (q + d) + r) % s = r
  BY <1>2, <1>4, <1>5, Remainder
<1>7. (e % s) = r
  BY DEF r
<1> QED BY <1>4, <1>6, <1>7 DEF Alike

-----------------------------------------------------------------------------
\* What a call of pread does: the counter takes its result, and the offset is where
\* it read. Before the end of the file it returns a block or fails.
LEMMA ReadStep ==
  ASSUME TypeOK, Read
  PROVE  \E result \in {Block, 0, -1} :
           /\ bytes' = (bytes + result) % Wrap
           /\ failed' = (failed \/ result = -1)
           /\ ReadAt < FileEnd => result # 0
           /\ offset' = ReadAt /\ offset' \in Nat /\ UNCHANGED main
<1>1. ReadAt \in Nat
  BY MonitoredActionAssumption DEF TypeOK, ReadAt
<1>2. FileEnd \in Nat
  BY MonitoredActionAssumption DEF TypeOK, FileEnd
<1>3. PICK result \in {IF ReadAt >= FileEnd THEN 0 ELSE Block, -1} :
        /\ bytes' = (bytes + result) % Wrap
        /\ failed' = (failed \/ result = -1)
  BY DEF Read
<1>4. result \in {Block, 0, -1} /\ (ReadAt < FileEnd => result # 0)
  BY <1>1, <1>2, <1>3, MonitoredActionAssumption
<1>5. offset' = ReadAt /\ UNCHANGED main
  BY DEF Read
<1>6. offset' \in Nat
  BY <1>1, <1>5
<1> QED BY <1>3, <1>4, <1>5, <1>6, Zenon

\* What a call of pwrite does: the counter and the offset take the same amount.
LEMMA WriteStep ==
  ASSUME TypeOK, Write
  PROVE  \E result \in 0..Block :
           /\ bytes' = (bytes + result) % Wrap
           /\ offset' = offset + result
           /\ failed' \in BOOLEAN
           /\ main' \in {"leave", main}
<1>1. PICK result \in 1..Block \cup {-1} :
        /\ bytes' = Written(result) % Wrap
        /\ offset' = NextOffset(result)
        /\ failed' = (result = -1)
        /\ main' = IF result = -1 THEN "leave" ELSE main
  BY DEF Write
<1>2. failed' \in BOOLEAN /\ main' \in {"leave", main}
  BY <1>1, Zenon
<1>3. CASE result = -1
  BY <1>1, <1>2, <1>3, MonitoredActionAssumption DEF TypeOK, Written, NextOffset
<1>4. CASE result \in 1..Block
  BY <1>1, <1>2, <1>4, MonitoredActionAssumption DEF TypeOK, Written, NextOffset, Sum
<1> QED BY <1>1, <1>3, <1>4

-----------------------------------------------------------------------------
\* A step keeps the types.
LEMMA TypesKept ==
  ASSUME TypeOK, [Next]_vars PROVE TypeOK'
<1>1. CASE Transfer
  <2>1. UNCHANGED <<operation, size, monitor, timer, running, ended, logged>> /\ calls' = calls + 1 /\ main = "loop"
    BY <1>1 DEF Transfer
  <2>2. CASE Read
    <3>1. PICK result \in {Block, 0, -1} :
            /\ bytes' = (bytes + result) % Wrap
            /\ failed' = (failed \/ result = -1)
            /\ offset' \in Nat /\ UNCHANGED main
      BY <2>2, ReadStep
    <3>2. failed' \in BOOLEAN
      BY <3>1, Zenon
    <3>3. bytes' \in 0..(Wrap - 1)
      BY <3>1, MonitoredActionAssumption DEF TypeOK
    <3> QED BY <2>1, <3>1, <3>2, <3>3 DEF TypeOK
  <2>3. CASE Write
    <3>1. PICK result \in 0..Block :
            /\ bytes' = (bytes + result) % Wrap /\ offset' = offset + result
            /\ failed' \in BOOLEAN /\ main' \in {"leave", main}
      BY <2>3, WriteStep
    <3>2. bytes' \in 0..(Wrap - 1) /\ offset' \in Nat
      BY <3>1, MonitoredActionAssumption DEF TypeOK
    <3> QED BY <2>1, <3>1, <3>2 DEF TypeOK
  <2> QED BY <1>1, <2>2, <2>3 DEF Transfer
<1>2. CASE StartMonitor
  BY <1>2 DEF TypeOK, StartMonitor, data
<1>3. CASE StartTimer
  BY <1>3 DEF TypeOK, StartTimer, data
<1>4. CASE LeaveLoop
  BY <1>4 DEF TypeOK, LeaveLoop, data
<1>5. CASE LeaveWork
  BY <1>5 DEF TypeOK, LeaveWork, data
<1>6. CASE StopMonitor
  BY <1>6 DEF TypeOK, StopMonitor, Stopped, data
<1>7. CASE Delete
  BY <1>7 DEF TypeOK, Delete, data
<1>8. CASE Monitor
  BY <1>8 DEF TypeOK, Monitor, MonitorCheck, MonitorLog, MonitorWakes, data
<1>9. CASE Timer
  BY <1>9 DEF TypeOK, Timer, data
<1>10. CASE UNCHANGED vars
  BY <1>10 DEF TypeOK, vars, data
<1> QED BY <1>1, <1>2, <1>3, <1>4, <1>5, <1>6, <1>7, <1>8, <1>9, <1>10 DEF Next, Main

\* The initial state has the types.
LEMMA TypesInit == Init => TypeOK
<1> SUFFICES ASSUME Init PROVE TypeOK
  OBVIOUS
<1>1. {running, ended, failed} \subseteq BOOLEAN
  <2>1. running \in BOOLEAN /\ ended \in BOOLEAN /\ failed \in BOOLEAN
    BY Zenon DEF Init
  <2> QED BY <2>1, Zenon
<1>2. {offset, calls} \subseteq Nat /\ bytes \in 0..(Wrap - 1) /\ logged \in 0..(Wrap - 1)
  BY MonitoredActionAssumption DEF Init
<1> QED BY <1>1, <1>2 DEF Init, TypeOK

\* In every reachable state every variable has its type.
THEOREM TypeCorrect == Spec => []TypeOK
<1>1. TypeOK /\ [Next]_vars => TypeOK'
  BY TypesKept
<1> QED BY TypesInit, <1>1, PTL DEF Spec

-----------------------------------------------------------------------------
\* A step keeps the threads in their places.
LEMMA ThreadsKept ==
  ASSUME TypeOK, Threads, [Next]_vars PROVE Threads'
<1>1. CASE Transfer
  <2>1. UNCHANGED <<operation, monitor, timer, ended>> /\ main = "loop" /\ ~ ended
    BY <1>1 DEF Transfer
  <2>2. CASE Read
    <3>1. UNCHANGED main
      BY <2>2 DEF Read
    <3> QED BY <2>1, <3>1 DEF Threads
  <2>3. CASE Write
    <3>1. main' \in {"leave", main} /\ operation = "write"
      BY <2>3, WriteStep DEF Write
    <3> QED BY <2>1, <3>1 DEF Threads
  <2> QED BY <1>1, <2>2, <2>3 DEF Transfer
<1>2. CASE StartMonitor
  BY <1>2 DEF Threads, StartMonitor
<1>3. CASE StartTimer
  BY <1>3 DEF Threads, StartTimer
<1>4. CASE LeaveLoop
  BY <1>4 DEF Threads, LeaveLoop
<1>5. CASE LeaveWork
  BY <1>5 DEF Threads, LeaveWork, TimerJoined, TypeOK
<1>6. CASE StopMonitor
  BY <1>6 DEF Threads, StopMonitor
<1>7. CASE Delete
  BY <1>7 DEF Threads, Delete
<1>8. CASE Monitor
  <2>1. UNCHANGED <<operation, main, timer, ended>> /\ monitor' \in {"log", "done", "sleep", "check"}
        /\ monitor \notin {"none", "done"}
    BY <1>8 DEF Monitor, MonitorCheck, MonitorLog, MonitorWakes
  <2> QED BY <2>1 DEF Threads
<1>9. CASE Timer
  BY <1>9 DEF Threads, Timer
<1>10. CASE UNCHANGED vars
  BY <1>10 DEF Threads, vars
<1> QED BY <1>1, <1>2, <1>3, <1>4, <1>5, <1>6, <1>7, <1>8, <1>9, <1>10 DEF Next, Main

\* The timer thread has ended when the variable it writes to goes, and the
\* monitor thread when the action is deleted.
THEOREM ThreadsEnd == Spec => []ThreadsEndInTime
<1>1. Init => TInv
  BY TypesInit DEF Init, TInv, Threads
<1>2. TInv /\ [Next]_vars => TInv'
  BY TypesKept, ThreadsKept DEF TInv
<1>3. TInv => ThreadsEndInTime
  BY DEF TInv, TypeOK, Threads, ThreadsEndInTime
<1> QED BY <1>1, <1>2, <1>3, PTL DEF Spec

-----------------------------------------------------------------------------
\* A number below the bound of the counter is counted as it is.
LEMMA SmallRemainder ==
  ASSUME NEW s \in Nat \ {0}, NEW a \in 0..(s - 1) PROVE (a % s) = a
<1>1. s * 0 + a = a
  OBVIOUS
<1>2. (s * 0 + a) % s = a
  BY Remainder
<1> QED BY <1>1, <1>2

\* One more call of at most a block stays below the bound of the counter.
LEMMA NextCall ==
  ASSUME MonitoredActionAssumption, NoWrap, NEW n \in Nat, n < MaxCalls,
         NEW b \in Nat, b <= n * Block, NEW result \in 0..Block
  PROVE  /\ ((b + result) % Wrap) = b + result
         /\ b + result <= (n + 1) * Block
         /\ (n + 1) * Block = n * Block + Block
<1> USE DEF MonitoredActionAssumption
<1>1. (n + 1) * Block = n * Block + Block
  OBVIOUS
<1>2. n * Block \in Nat
  OBVIOUS
<1>3. b + result <= (n + 1) * Block
  BY <1>1, <1>2
<1>4. (n + 1) * Block <= MaxCalls * Block
  <2>1. MaxCalls - (n + 1) \in Nat
    OBVIOUS
  <2>2. (MaxCalls - (n + 1)) * Block >= 0
    BY <2>1
  <2>3. (MaxCalls - (n + 1)) * Block = MaxCalls * Block - (n + 1) * Block
    OBVIOUS
  <2> QED BY <2>2, <2>3
<1>5. MaxCalls * Block < Wrap
  <2>1. MaxCalls * Block = Block * MaxCalls
    OBVIOUS
  <2> QED BY <2>1 DEF NoWrap
<1>6. b + result \in 0..(Wrap - 1)
  <2>1. b + result < Wrap
    <3> DEFINE x == (n + 1) * Block
               y == MaxCalls * Block
    <3>1. x \in Int /\ y \in Int
      OBVIOUS
    <3>2. b + result <= x /\ x <= y /\ y < Wrap
      BY <1>3, <1>4, <1>5
    <3> HIDE DEF x, y
    <3> QED BY <3>1, <3>2
  <2> QED BY <2>1
<1>7. ((b + result) % Wrap) = b + result
  BY <1>6, SmallRemainder
<1> QED BY <1>1, <1>3, <1>7

\* A step keeps the counts: what a call returns is added without wrapping, and
\* a sample is what the counter was.
LEMMA CountsKept ==
  ASSUME NoWrap, TypeOK, Counted, [Next]_vars PROVE Counted'
<1>1. CASE Transfer
  <2>1. UNCHANGED <<operation, logged>> /\ calls' = calls + 1 /\ calls < MaxCalls /\ calls \in Nat
        /\ bytes \in Nat /\ logged \in Nat
    BY <1>1 DEF Transfer, TypeOK
  <2>2. CASE Read
    <3>1. PICK result \in {Block, 0, -1} :
            bytes' = (bytes + result) % Wrap /\ failed' = (failed \/ result = -1)
      BY <2>2, ReadStep
    <3>2. operation = "read"
      BY <2>2 DEF Read
    <3>3. CASE ~ failed'
      <4>1. ~ failed /\ result # -1
        BY <3>1, <3>3, Zenon
      <4>2. result \in 0..Block
        BY <3>1, <4>1, MonitoredActionAssumption
      <4>3. bytes <= calls * Block /\ logged <= bytes
        BY <4>1 DEF Counted
      <4>4. bytes' = bytes + result /\ bytes' <= (calls + 1) * Block
        <5>1. bytes' = (bytes + result) % Wrap
          BY <3>1, Zenon
        <5>2. /\ ((bytes + result) % Wrap) = bytes + result
              /\ bytes + result <= (calls + 1) * Block
          BY <2>1, <4>2, <4>3, NextCall, MonitoredActionAssumption
        <5> QED BY <5>1, <5>2
      <4> QED BY <2>1, <3>2, <4>2, <4>3, <4>4, MonitoredActionAssumption DEF Counted
    <3>4. CASE failed'
      BY <2>1, <3>2, <3>4, MonitoredActionAssumption DEF Counted
    <3> QED BY <3>3, <3>4
  <2>3. CASE Write
    <3>1. PICK result \in 0..Block :
            bytes' = (bytes + result) % Wrap /\ offset' = offset + result
      BY <2>3, WriteStep
    <3>2. operation = "write"
      BY <2>3 DEF Write
    <3>3. bytes <= calls * Block /\ logged <= bytes /\ offset = bytes
      BY <3>2 DEF Counted
    <3>4. bytes' = bytes + result /\ bytes' <= (calls + 1) * Block
      BY <2>1, <3>1, <3>3, NextCall, MonitoredActionAssumption
    <3> QED BY <2>1, <3>1, <3>2, <3>3, <3>4, MonitoredActionAssumption DEF Counted
  <2> QED BY <1>1, <2>2, <2>3 DEF Transfer
<1>2. CASE MonitorLog
  <2>1. UNCHANGED <<operation, bytes, offset, calls, failed>> /\ logged' = bytes
    BY <1>2 DEF MonitorLog, data
  <2> QED BY <2>1 DEF Counted, TypeOK
<1>3. CASE (Next /\ ~ Transfer /\ ~ MonitorLog) \/ UNCHANGED vars
  <2>1. UNCHANGED <<operation, bytes, offset, calls, failed, logged>>
    BY <1>3 DEF Next, Main, Monitor, StartMonitor, StartTimer, LeaveLoop, LeaveWork, StopMonitor,
                Delete, MonitorCheck, MonitorWakes, Timer, vars, data
  <2> QED BY <2>1 DEF Counted
<1> QED BY <1>1, <1>2, <1>3

\* The two halves of a state that the counts speak of hold from the start on.
LEMMA CountsAlways ==
  ASSUME NoWrap PROVE Spec => []CInv
<1>1. Init => CInv
  <2> SUFFICES ASSUME Init PROVE CInv
    OBVIOUS
  <2>1. TInv
    BY TypesInit DEF Init, TInv, Threads
  <2>2. Counted
    BY MonitoredActionAssumption DEF Init, Counted
  <2> QED BY <2>1, <2>2 DEF CInv
<1>2. CInv /\ [Next]_vars => CInv'
  BY TypesKept, ThreadsKept, CountsKept DEF CInv, TInv
<1> QED BY <1>1, <1>2, PTL DEF Spec

\* What has been written is one range from the start of the file, for every
\* block size and every number of writes, short and failed ones among them.
THEOREM OneRange ==
  ASSUME NoWrap PROVE Spec => []WrittenInOrder
<1>1. CInv => WrittenInOrder
  BY DEF CInv, Counted, WrittenInOrder
<1> QED BY <1>1, CountsAlways, PTL

\* The samples the monitor takes of one action never decrease while no read has
\* failed.
THEOREM SamplesNeverFall ==
  ASSUME NoWrap PROVE Spec => SamplesGrow
<1>1. CInv /\ [Next]_vars => [operation = "write" \/ ~ failed => logged' >= logged]_vars
  <2> SUFFICES ASSUME CInv, [Next]_vars, operation = "write" \/ ~ failed, ~ UNCHANGED vars
               PROVE  logged' >= logged
    OBVIOUS
  <2>1. CASE MonitorLog
    BY <2>1 DEF MonitorLog, CInv, Counted
  <2>2. CASE ~ MonitorLog
    <3>1. logged' = logged
      BY <2>2 DEF Next, Main, Monitor, StartMonitor, StartTimer, LeaveLoop, LeaveWork, StopMonitor,
                  Delete, MonitorCheck, MonitorWakes, Timer, Transfer, vars
    <3> QED BY <3>1 DEF CInv, TInv, TypeOK
  <2> QED BY <2>1, <2>2
<1> QED BY <1>1, CountsAlways, PTL DEF Spec, SamplesGrow

-----------------------------------------------------------------------------
\* A multiple of s is followed by a multiple of s, s further on.
LEMMA NextMultiple ==
  ASSUME NEW s \in Nat \ {0}, NEW a \in Nat, (a % s) = 0
  PROVE  ((a + s) % s) = 0
<1> DEFINE k == a \div s
<1>1. a = s * k + (a % s) /\ k \in Nat
  BY Division
<1> HIDE DEF k
<1>2. a + s = s * (k + 1) + 0
  BY <1>1
<1>3. (s * (k + 1) + 0) % s = 0
  BY <1>1, Remainder
<1> QED BY <1>2, <1>3

\* Between two multiples of s there is room for s.
LEMMA MultiplesApart ==
  ASSUME NEW s \in Nat \ {0}, NEW a \in Nat, NEW b \in Nat, (a % s) = 0, (b % s) = 0, a < b
  PROVE  a + s <= b
<1> DEFINE j == a \div s
           k == b \div s
<1>1. a = s * j + (a % s) /\ j \in Nat /\ b = s * k + (b % s) /\ k \in Nat
  BY Division
<1> HIDE DEF j, k
<1>2. a = s * j /\ b = s * k
  BY <1>1
<1>3. CASE k <= j
  <2>1. s * k <= s * j
    BY <1>1, <1>3
  <2> QED BY <1>2, <2>1, <1>1
<1>4. CASE j + 1 <= k
  <2>1. s * (j + 1) <= s * k
    BY <1>1, <1>4
  <2>2. s * (j + 1) = s * j + s
    BY <1>1
  <2> QED BY <1>2, <2>1, <2>2, <1>1
<1> QED BY <1>1, <1>3, <1>4

\* prewrite makes a file of whole blocks no larger than asked for.
LEMMA WholeFileEnd ==
  ASSUME MonitoredActionAssumption, size \in Nat \ {0}, (size % Block) = 0
  PROVE  FileEnd = size
<1> USE DEF MonitoredActionAssumption
<1> DEFINE k == size \div Block
           a == size + Block - 1
           d == a \div Block
<1>1. size = Block * k + (size % Block) /\ k \in Nat
  BY Division
<1>2. a \in Nat
  OBVIOUS
<1>3. FileEnd = Block * d
  BY DEF FileEnd
<1>4. a = size + (Block - 1)
  OBVIOUS
<1> HIDE DEF k, a
<1>5. a = Block * d + (a % Block) /\ d \in Nat
  BY <1>2, Division
<1> HIDE DEF d
<1>6. a = Block * k + (Block - 1)
  BY <1>1, <1>4
<1>7. (Block * k + (Block - 1)) % Block = Block - 1
  <2>1. /\ Block \in Nat \ {0} /\ k \in Int
        /\ Block - 1 \in 0..(Block - 1) /\ Block * k + (Block - 1) \in Nat
    BY <1>1, <1>2, <1>6
  <2> QED BY <2>1, Remainder, Zenon
<1>8. (a % Block) = Block - 1
  BY <1>6, <1>7
<1> QED BY <1>1, <1>3, <1>4, <1>5, <1>8

\* Where a reader reads next, in a file of whole blocks: at a block that the
\* file has whole, and as far from the end as the counter says.
LEMMA NextRead ==
  ASSUME MonitoredActionAssumption, TypeOK, Position, WholeBlocks, offset = 0 \/ calls > 0,
         calls = 0 => bytes = 0
  PROVE  /\ ReadAt \in Nat /\ (ReadAt % Block) = 0 /\ ReadAt + Block <= size
         /\ ((bytes + Block) % size) = ((ReadAt + Block) % size)
<1> USE DEF MonitoredActionAssumption
<1>1. size \in Nat \ {0} /\ bytes \in Nat /\ offset \in Nat /\ calls \in Nat /\ (size % Block) = 0
  BY DEF TypeOK, WholeBlocks
<1>2. (0 % Block) = 0 /\ (0 % size) = 0
  BY <1>1, SmallRemainder
<1>3. CASE WrapsAround
  <2>1. ReadAt = 0 /\ (bytes % size) = 0
    BY <1>3 DEF ReadAt, WrapsAround
  <2>2. 0 + Block <= size
    BY <1>1, <1>2, MultiplesApart
  <2>3. ((bytes + Block) % size) = ((0 + Block) % size)
    <3>1. size \in Nat \ {0} /\ bytes \in Nat /\ 0 \in Nat /\ Block \in Nat /\ (bytes % size) = (0 % size)
      BY <1>1, <1>2, <2>1
    <3>2. Alike(size, bytes, 0)
      BY <3>1 DEF Alike
    <3>3. Alike(size, bytes + Block, 0 + Block)
      BY <3>1, <3>2, SumRemainder
    <3> QED BY <3>3 DEF Alike
  <2> QED BY <1>2, <2>1, <2>2, <2>3
<1>4. CASE ~ WrapsAround
  <2>1. (bytes % size) # 0 /\ ReadAt = offset + Block
    BY <1>4 DEF ReadAt, WrapsAround
  <2>2. calls > 0
    BY <1>1, <1>2, <2>1
  <2>3. (offset % Block) = 0 /\ offset + Block <= size /\ (bytes % size) = ((offset + Block) % size)
    BY <2>2 DEF Position
  <2>4. offset + Block # size
    <3>1. (0 + size) % size = 0
      BY <1>1, <1>2, NextMultiple
    <3> QED BY <1>1, <2>1, <2>3, <3>1
  <2>5. ((offset + Block) % Block) = 0 /\ offset + Block \in Nat
    <3>1. \A a \in Nat : (a % Block) = 0 => ((a + Block) % Block) = 0
      BY NextMultiple, Zenon
    <3>2. ((offset + Block) % Block) = 0
      BY <1>1, <2>3, <3>1, Zenon
    <3>3. offset + Block \in Nat
      BY <1>1
    <3> QED BY <3>2, <3>3
  <2> DEFINE e == offset + Block
  <2>6. e \in Nat /\ (e % Block) = 0 /\ e < size /\ (bytes % size) = (e % size) /\ ReadAt = e
    BY <1>1, <2>1, <2>3, <2>4, <2>5
  <2> HIDE DEF e
  <2>7. e + Block <= size
    BY <1>1, <2>6, MultiplesApart
  <2>8. ((bytes + Block) % size) = ((e + Block) % size)
    <3>1. size \in Nat \ {0} /\ bytes \in Nat /\ e \in Nat /\ Block \in Nat /\ (bytes % size) = (e % size)
      BY <1>1, <2>6
    <3>2. Alike(size, bytes, e)
      BY <3>1 DEF Alike
    <3>3. Alike(size, bytes + Block, e + Block)
      BY <3>1, <3>2, SumRemainder
    <3> QED BY <3>3 DEF Alike
  <2> QED BY <2>6, <2>7, <2>8
<1> QED BY <1>3, <1>4

\* A step keeps a reader in its place in the file.
LEMMA PositionKept ==
  ASSUME NoWrap, TypeOK, Counted, Position, calls = 0 => offset = 0, [Next]_vars
  PROVE  Position' /\ (calls' = 0 => offset' = 0)
<1>1. CASE Transfer
  <2>1. UNCHANGED <<operation, size>> /\ calls' = calls + 1 /\ calls < MaxCalls /\ calls \in Nat
        /\ bytes \in Nat
    BY <1>1 DEF Transfer, TypeOK
  <2> SUFFICES ASSUME WholeBlocks'
               PROVE  /\ bytes' = (calls + 1) * Block
                      /\ (offset' % Block) = 0 /\ offset' + Block <= size
                      /\ (bytes' % size) = ((offset' + Block) % size)
    BY <2>1 DEF Position
  <2>2. Read
    BY <1>1, <2>1 DEF Transfer, Write, WholeBlocks
  <2>3. PICK result \in {Block, 0, -1} :
          /\ bytes' = (bytes + result) % Wrap
          /\ failed' = (failed \/ result = -1)
          /\ ReadAt < FileEnd => result # 0
          /\ offset' = ReadAt
    BY <2>2, ReadStep
  <2>4. ~ failed /\ result # -1
    <3>1. ~ failed'
      BY DEF WholeBlocks
    <3> QED BY <2>3, <3>1, Zenon
  <2>5. WholeBlocks
    BY <2>1, <2>4 DEF WholeBlocks
  <2>6. bytes = calls * Block
    BY <2>5 DEF Position
  <2>7. calls = 0 => bytes = 0
    BY <2>6, MonitoredActionAssumption
  <2>8. /\ ReadAt \in Nat /\ (ReadAt % Block) = 0 /\ ReadAt + Block <= size
        /\ ((bytes + Block) % size) = ((ReadAt + Block) % size)
    BY <2>1, <2>5, <2>7, NextRead, MonitoredActionAssumption
  <2>9. FileEnd = size /\ size \in Nat
    BY <2>5, WholeFileEnd, MonitoredActionAssumption DEF TypeOK, WholeBlocks
  <2>10. result = Block
    <3>1. ReadAt < FileEnd
      BY <2>8, <2>9, MonitoredActionAssumption
    <3>2. result # 0
      BY <2>3, <3>1, Zenon
    <3> QED BY <2>4, <3>2
  <2>11. bytes' = bytes + Block
    <3>1. bytes' = (bytes + Block) % Wrap /\ offset' = ReadAt
      BY <2>3, <2>10, Zenon
    <3>2. bytes <= calls * Block
      BY <2>1, <2>6, MonitoredActionAssumption
    <3>3. Block \in 0..Block /\ bytes \in Nat
      BY <2>1, MonitoredActionAssumption
    <3>4. ((bytes + Block) % Wrap) = bytes + Block
      BY <2>1, <3>2, <3>3, NextCall, MonitoredActionAssumption
    <3> QED BY <3>1, <3>4
  <2>12. (calls + 1) * Block = calls * Block + Block
    BY <2>1, MonitoredActionAssumption
  <2>13. offset' = ReadAt
    BY <2>3, Zenon
  <2> QED BY <2>6, <2>8, <2>11, <2>12, <2>13
<1>2. CASE (Next /\ ~ Transfer) \/ UNCHANGED vars
  <2>1. UNCHANGED <<operation, size, bytes, offset, calls, failed>>
    BY <1>2 DEF Next, Main, Monitor, StartMonitor, StartTimer, LeaveLoop, LeaveWork, StopMonitor,
                Delete, MonitorCheck, MonitorLog, MonitorWakes, Timer, vars, data
  <2> QED BY <2>1 DEF Position, WholeBlocks
<1> QED BY <1>1, <1>2

\* In a file of whole blocks that is read without errors, every read fills its
\* buffer: it starts again at the beginning exactly at the end of the file.
THEOREM WholeReads ==
  ASSUME NoWrap PROVE Spec => []EveryReadIsWhole
<1> DEFINE PInv == CInv /\ Position /\ (calls = 0 => offset = 0)
<1>1. Init => PInv
  <2> SUFFICES ASSUME Init PROVE PInv
    OBVIOUS
  <2>1. TInv
    BY TypesInit DEF Init, TInv, Threads
  <2>2. Counted /\ Position /\ offset = 0
    BY MonitoredActionAssumption DEF Init, Counted, Position
  <2> QED BY <2>1, <2>2 DEF CInv
<1>2. PInv /\ [Next]_vars => PInv'
  BY TypesKept, ThreadsKept, CountsKept, PositionKept DEF CInv, TInv
<1>3. PInv => EveryReadIsWhole
  BY DEF Position, WholeBlocks, EveryReadIsWhole
<1> QED BY <1>1, <1>2, <1>3, PTL DEF Spec
=============================================================================
