---------------------------- MODULE ExtentProofs ----------------------------
(***************************************************************************)
(* The scan of a file's extents returns every mapped page, and exactly the *)
(* file's extents when the layout stays as it is, for any file length and  *)
(* any size of a batch; and so does the scan in the cycles of ExtentTrend, *)
(* whose steps are steps of the scan.  The running total of the cycles is  *)
(* the number of extents, and the fit of the curve of totals judges the    *)
(* growth of fragmentation, for any number of points: the slope is a       *)
(* weighted mean of what the groups added.                                 *)
(***************************************************************************)
EXTENDS ExtentTrend, NatRecursion, SequenceTheorems, TLAPS

\* The batches so far are the first k extents of the file, and the next one
\* begins behind them.
IsPrefixScan(k) ==
  /\ k \in 0..Len(layout)
  /\ list = SubSeq(layout, 1, k)
  /\ start = IF k = 0 THEN 0 ELSE layout[k].to

CoveredSoFar == \A p \in 0..Pages : p < start /\ Covers(layout, p) => Covers(list, p)

ScanInv ==
  /\ ScanTypeOK
  /\ scan = "running" => CoveredSoFar
  /\ scan = "running" /\ ~ moved => \E k \in 0..Len(layout) : IsPrefixScan(k)
  /\ ScanExact
  /\ ScanCovers

\* Layouts are ordered sequences of extents, and the empty file has one.
LEMMA LayoutTypes == \A l \in Layouts : l \in Seq(Extents) /\ IsLayout(l)
PROOF
<1>1. ASSUME NEW l \in Layouts PROVE l \in Seq(Extents) /\ IsLayout(l)
  <2>1. l \in Lists /\ IsLayout(l)
    BY <1>1 DEF Layouts
  <2>2. PICK n \in 0..Pages : l \in [1..n -> Extents]
    BY <2>1 DEF Lists
  <2>3. n \in Nat
    BY <2>2, ScanAssumption
  <2> QED BY <2>1, <2>2, <2>3
<1> QED BY <1>1

\* A batch is a sequence of extents of the layout, and it is not empty.
LEMMA BatchRange ==
  ASSUME ScanTypeOK, NEW n \in 0..Len(layout), n < Len(layout)
  PROVE  BatchEnd(n) \in (n + 1)..Len(layout)
PROOF
<1>1. Len(layout) \in Nat
  BY DEF ScanTypeOK
<1> QED BY <1>1, ScanAssumption DEF BatchEnd

\* What a batch appends.
LEMMA BatchIs ==
  ASSUME ScanTypeOK, NEW n \in 0..Len(layout), n < Len(layout)
  PROVE  LET b == BatchEnd(n)  s == SubSeq(layout, n + 1, b) IN
         /\ s \in Seq(Extents)
         /\ Len(s) = b - n
         /\ \A i \in 1..(b - n) : s[i] = layout[n + i]
PROOF
<1> DEFINE b == BatchEnd(n)
           s == SubSeq(layout, n + 1, b)
<1>1. layout \in Seq(Extents) /\ Len(layout) \in Nat
  BY DEF ScanTypeOK
<1>2. b \in (n + 1)..Len(layout)
  BY BatchRange
<1>3. \A i \in (n + 1)..b : layout[i] \in Extents
  BY <1>1, <1>2
<1> HIDE DEF b
<1> QED BY <1>1, <1>2, <1>3, SubSeqProperties DEF b

\* A page covered by either of two lists is covered by their concatenation.
LEMMA CoversConcat ==
  ASSUME NEW l \in Seq(Extents), NEW m \in Seq(Extents), NEW p \in 0..Pages
  PROVE  Covers(l, p) \/ Covers(m, p) => Covers(l \o m, p)
PROOF
<1>1. ASSUME NEW i \in 1..Len(l) PROVE (l \o m)[i] = l[i] /\ i \in DOMAIN (l \o m)
  BY <1>1
<1>2. ASSUME NEW i \in 1..Len(m) PROVE (l \o m)[Len(l) + i] = m[i] /\ Len(l) + i \in DOMAIN (l \o m)
  BY <1>2
<1>3. DOMAIN l = 1..Len(l) /\ DOMAIN m = 1..Len(m)
  OBVIOUS
<1> QED BY <1>1, <1>2, <1>3 DEF Covers

\* The initial states.
LEMMA ScanStarts == ScanInit => ScanInv
PROOF
<1> SUFFICES ASSUME ScanInit PROVE ScanInv
  OBVIOUS
<1>1. layout \in Seq(Extents) /\ IsLayout(layout)
  BY LayoutTypes DEF ScanInit
<1>2. <<>> \in Seq(Extents) /\ 0 \in 0..Pages
  BY ScanAssumption
<1>3. ScanTypeOK
  BY <1>1, <1>2 DEF ScanInit, ScanTypeOK
<1> QED BY <1>3 DEF ScanInit, ScanInv, ScanExact, ScanCovers

\* The ioctl answers from where the batch begins: nothing before it is asked
\* for again, and of the pages up to the end of the batch none is left out.
LEMMA BatchCovers ==
  ASSUME ScanTypeOK, CoveredSoFar,
         NEW n \in 0..Len(layout), EndBefore(start, n), n < Len(layout),
         NEW p \in 0..Pages, Covers(layout, p), p < layout[BatchEnd(n)].to
  PROVE  Covers(list \o SubSeq(layout, n + 1, BatchEnd(n)), p)
PROOF
<1> DEFINE b == BatchEnd(n)
           s == SubSeq(layout, n + 1, b)
<1>1. layout \in Seq(Extents) /\ Len(layout) \in Nat /\ IsLayout(layout) /\ list \in Seq(Extents)
      /\ start \in 0..Pages /\ DOMAIN layout = 1..Len(layout)
  BY DEF ScanTypeOK
<1>2. b \in (n + 1)..Len(layout)
  BY BatchRange
<1>3. s \in Seq(Extents) /\ Len(s) = b - n /\ \A i \in 1..(b - n) : s[i] = layout[n + i]
  BY BatchIs
<1>4. CASE p < start
  <2>1. Covers(list, p)
    BY <1>4 DEF CoveredSoFar
  <2> QED BY <2>1, <1>1, <1>3, CoversConcat
<1>5. CASE start <= p
  <2>1. PICK i \in 1..Len(layout) : layout[i].from <= p /\ p < layout[i].to
    BY <1>1 DEF Covers
  <2>2. \A j \in 1..Len(layout) : layout[j].from \in 0..Pages /\ layout[j].to \in 0..Pages
    BY <1>1 DEF Extents
  <2>3. n < i
    BY <2>1, <2>2, <1>1, <1>5, ScanAssumption DEF EndBefore
  <2>4. i <= b
    <3> HIDE DEF b
    <3>1. SUFFICES ASSUME b < i PROVE FALSE
      BY <1>2, <1>1, <2>1
    <3>2. layout[b].to <= layout[i].from
      BY <3>1, <1>1, <1>2, <2>1 DEF IsLayout
    <3>3. b \in 1..Len(layout) /\ p < layout[b].to
      BY <1>1, <1>2 DEF b
    <3> QED BY <3>2, <3>3, <2>1, <2>2, ScanAssumption
  <2>5. i - n \in 1..(b - n) /\ n + (i - n) = i
    <3> HIDE DEF b
    <3> QED BY <2>1, <2>3, <2>4, <1>1, <1>2
  <2>6. s[i - n] = layout[i] /\ i - n \in DOMAIN s
    <3> HIDE DEF b, s
    <3>1. DOMAIN s = 1..(b - n)
      BY <1>3
    <3> QED BY <3>1, <2>5, <1>3
  <2>7. Covers(s, p)
    <3> HIDE DEF b, s
    <3> QED BY <2>6, <2>1 DEF Covers
  <2> QED BY <2>7, <1>1, <1>3, CoversConcat
<1>6. p < start \/ start <= p
  BY <1>1, ScanAssumption
<1> QED BY <1>4, <1>5, <1>6

\* When the batches so far are the first k extents, the ioctl begins behind the
\* k-th, and with its answer they are the first BatchEnd(k).
LEMMA BatchExtends ==
  ASSUME ScanTypeOK, NEW k \in 0..Len(layout), IsPrefixScan(k),
         NEW n \in 0..Len(layout), EndBefore(start, n)
  PROVE  /\ n = k
         /\ n < Len(layout) =>
              list \o SubSeq(layout, n + 1, BatchEnd(n)) = SubSeq(layout, 1, BatchEnd(n))
PROOF
<1>1. layout \in Seq(Extents) /\ Len(layout) \in Nat /\ IsLayout(layout) /\ DOMAIN layout = 1..Len(layout)
  BY DEF ScanTypeOK
<1>2. \A j \in 1..Len(layout) : /\ layout[j].from \in 0..Pages /\ layout[j].to \in 0..Pages
                                /\ layout[j].from < layout[j].to
  BY <1>1 DEF Extents
<1>3. ASSUME NEW i \in 1..Len(layout) PROVE i <= k <=> layout[i].to <= start
  <2>1. CASE k = 0
    <3>1. start = 0
      BY <2>1 DEF IsPrefixScan
    <3> QED BY <3>1, <2>1, <1>2, <1>3, ScanAssumption
  <2>2. CASE k > 0
    <3>1. start = layout[k].to /\ k \in 1..Len(layout)
      BY <2>2, <1>1 DEF IsPrefixScan
    <3>2. CASE i < k
      <4>1. layout[i].to <= layout[k].from
        BY <3>1, <3>2, <1>1, <1>3 DEF IsLayout
      <4> QED BY <4>1, <3>1, <3>2, <1>2, <1>3, ScanAssumption
    <3>3. CASE i = k
      BY <3>1, <3>3, <1>2, ScanAssumption
    <3>4. CASE i > k
      <4>1. layout[k].to <= layout[i].from
        BY <3>1, <3>4, <1>1, <1>3 DEF IsLayout
      <4> QED BY <4>1, <3>1, <3>4, <1>2, <1>3, ScanAssumption
    <3> QED BY <3>1, <3>2, <3>3, <3>4, <1>3
  <2> QED BY <2>1, <2>2, <1>1
<1>4. \A i \in 1..Len(layout) : i <= n <=> i <= k
  BY <1>3 DEF EndBefore
<1>5. n = k
  <2>1. CASE n < k
    <3>1. k \in 1..Len(layout)
      BY <2>1, <1>1
    <3> QED BY <3>1, <2>1, <1>4, <1>1
  <2>2. CASE k < n
    <3>1. n \in 1..Len(layout)
      BY <2>2, <1>1
    <3> QED BY <3>1, <2>2, <1>4, <1>1
  <2> QED BY <2>1, <2>2, <1>1
<1>6. ASSUME n < Len(layout)
      PROVE  list \o SubSeq(layout, n + 1, BatchEnd(n)) = SubSeq(layout, 1, BatchEnd(n))
  <2>1. BatchEnd(n) \in (n + 1)..Len(layout)
    BY <1>6, BatchRange
  <2>2. list = SubSeq(layout, 1, n)
    BY <1>5 DEF IsPrefixScan
  <2> DEFINE b == BatchEnd(n)
  <2>3. 1 \in 1..(Len(layout) + 1) /\ n \in (1 - 1)..Len(layout) /\ b \in n..Len(layout)
    <3> HIDE DEF b
    <3>1. b \in (n + 1)..Len(layout)
      BY <2>1 DEF b
    <3> QED BY <3>1, <1>1
  <2> HIDE DEF b
  <2>4. SubSeq(layout, 1, n) \o SubSeq(layout, n + 1, b) = SubSeq(layout, 1, b)
    BY <2>3, <1>1, ConcatAdjacentSubSeq
  <2> QED BY <2>2, <2>4 DEF b
<1> QED BY <1>5, <1>6

\* An ioctl preserves the invariant.
LEMMA IoctlKeeps == ScanInv /\ Ioctl => ScanInv'
PROOF
<1> SUFFICES ASSUME ScanInv, Ioctl PROVE ScanInv'
  OBVIOUS
<1>1. ScanTypeOK /\ scan = "running" /\ CoveredSoFar /\ UNCHANGED <<layout, moved>>
  BY DEF ScanInv, Ioctl
<1>2. PICK n \in 0..Len(layout) : EndBefore(start, n) /\ (Batch(n) \/ NoneMapped(n))
  BY DEF Ioctl
<1>3. layout \in Seq(Extents) /\ Len(layout) \in Nat /\ IsLayout(layout) /\ list \in Seq(Extents)
      /\ start \in 0..Pages /\ DOMAIN layout = 1..Len(layout)
  BY <1>1 DEF ScanTypeOK
<1>4. \A j \in 1..Len(layout) : layout[j].from \in 0..Pages /\ layout[j].to \in 0..Pages
                                /\ layout[j].from < layout[j].to
  BY <1>3 DEF Extents
<1>5. CASE Batch(n)
  <2> DEFINE b == BatchEnd(n)
             s == SubSeq(layout, n + 1, b)
  <2>1. n < Len(layout) /\ list' = list \o s
    BY <1>5 DEF Batch
  <2>2. b \in (n + 1)..Len(layout)
    BY <2>1, <1>1, BatchRange
  <2>3. s \in Seq(Extents)
    BY <2>1, <1>1, BatchIs
  <2>4. b \in 1..Len(layout)
    <3> HIDE DEF b
    <3> QED BY <2>2, <1>3
  <2>5. layout[b].to \in 0..Pages
    BY <2>4, <1>4
  <2>6. ScanTypeOK'
    <3> HIDE DEF b, s
    <3>1. list' \in Seq(Extents)
      BY <2>1, <2>3, <1>3
    <3>2. start' \in 0..Pages
      BY <1>5, <2>5, <1>3 DEF Batch, After, b
    <3>3. scan' \in {"running", "done"}
      BY <1>5, <1>1 DEF Batch
    <3> QED BY <3>1, <3>2, <3>3, <1>1 DEF ScanTypeOK
  <2>7. ASSUME NEW p \in 0..Pages, Covers(layout, p), p < layout[b].to PROVE Covers(list', p)
    BY <2>7, <2>1, <1>1, <1>2, BatchCovers
  <2>8. ASSUME ~ moved
        PROVE  list' = SubSeq(layout, 1, b)
    <3>1. PICK k \in 0..Len(layout) : IsPrefixScan(k)
      BY <2>8, <1>1 DEF ScanInv
    <3> QED BY <3>1, <2>1, <1>1, <1>2, BatchExtends
  <2> HIDE DEF b, s
  <2>9. CASE scan' = "done" /\ b = Len(layout) /\ UNCHANGED start
    <3>1. ASSUME NEW p \in 0..Pages, Covers(layout, p) PROVE p < layout[b].to
      <4>1. PICK i \in 1..Len(layout) : layout[i].from <= p /\ p < layout[i].to
        BY <3>1, <1>3 DEF Covers
      <4>2. i = b \/ i < b
        BY <4>1, <2>9, <1>3
      <4>3. CASE i < b
        <5>1. layout[i].to <= layout[b].from
          BY <4>3, <4>1, <2>4, <1>3 DEF IsLayout
        <5> QED BY <5>1, <4>1, <2>4, <1>4, ScanAssumption
      <4> QED BY <4>1, <4>2, <4>3
    <3>2. ScanCovers'
      BY <3>1, <2>7, <1>1 DEF ScanCovers, Covers
    <3>3. ScanExact'
      <4>1. SubSeq(layout, 1, Len(layout)) = layout
        BY <1>3, SubSeqFull
      <4> QED BY <4>1, <2>8, <2>9, <1>1 DEF ScanExact
    <3> QED BY <3>2, <3>3, <2>6, <2>9 DEF ScanInv
  <2>10. CASE UNCHANGED scan /\ start' = After(layout[b])
    <3>1. scan' = "running" /\ start' = layout[b].to
      BY <2>10, <1>1 DEF After
    <3>2. CoveredSoFar'
      BY <3>1, <2>7, <1>1 DEF CoveredSoFar, Covers
    <3>3. PICK k \in 0..Len(layout) : k = b /\ k # 0
      BY <2>4, <1>3
    <3>4. ~ moved' => IsPrefixScan(k)'
      BY <3>1, <3>3, <2>8, <1>1 DEF IsPrefixScan
    <3>5. ~ moved' => \E i \in 0..Len(layout)' : IsPrefixScan(i)'
      BY <3>3, <3>4, <1>1
    <3> QED BY <3>1, <3>2, <3>5, <2>6 DEF ScanInv, ScanExact, ScanCovers
  <2> QED BY <2>9, <2>10, <1>5 DEF Batch, b
<1>6. CASE NoneMapped(n)
  <2>1. n = Len(layout) /\ scan' = "done" /\ UNCHANGED <<start, list>>
    BY <1>6 DEF NoneMapped
  <2>2. \A i \in 1..Len(layout) : layout[i].to <= start
    BY <1>2, <2>1, <1>3 DEF EndBefore
  <2>3. ScanCovers'
    <3>1. ASSUME NEW p \in 0..Pages, Covers(layout, p) PROVE Covers(list, p)
      <4>1. PICK i \in 1..Len(layout) : layout[i].from <= p /\ p < layout[i].to
        BY <3>1, <1>3 DEF Covers
      <4>2. p < start
        BY <4>1, <2>2, <1>3, <1>4, ScanAssumption
      <4> QED BY <4>2, <3>1, <1>1 DEF CoveredSoFar
    <3> QED BY <3>1, <2>1, <1>1 DEF ScanCovers, Covers
  <2>4. ScanExact'
    <3>1. ASSUME ~ moved PROVE list = layout
      <4>1. PICK k \in 0..Len(layout) : IsPrefixScan(k)
        BY <3>1, <1>1 DEF ScanInv
      <4>2. n = k
        BY <4>1, <1>1, <1>2, BatchExtends
      <4>3. list = SubSeq(layout, 1, Len(layout))
        BY <4>1, <4>2, <2>1 DEF IsPrefixScan
      <4> QED BY <4>3, <1>3, SubSeqFull
    <3> QED BY <3>1, <2>1, <1>1 DEF ScanExact
  <2>5. ScanTypeOK'
    BY <2>1, <1>1 DEF ScanTypeOK
  <2> QED BY <2>1, <2>3, <2>4, <2>5 DEF ScanInv
<1> QED BY <1>2, <1>5, <1>6

\* So does every other step of the scan and of its environment.
LEMMA ScanKeeps == ScanInv /\ [ScanNext]_scanVars => ScanInv'
PROOF
<1> SUFFICES ASSUME ScanInv, [ScanNext]_scanVars PROVE ScanInv'
  OBVIOUS
<1>1. ScanTypeOK
  BY DEF ScanInv
<1>2. <<>> \in Seq(Extents) /\ 0 \in 0..Pages
  BY ScanAssumption
<1>3. CASE Begin
  <2>1. ScanTypeOK' /\ scan' = "running" /\ list' = <<>> /\ start' = 0 /\ ~ moved' /\ UNCHANGED layout
    BY <1>1, <1>2, <1>3 DEF Begin, ScanTypeOK
  <2>2. CoveredSoFar'
    BY <2>1, ScanAssumption DEF CoveredSoFar
  <2>3. IsPrefixScan(0)' /\ 0 \in 0..Len(layout)'
    <3>1. SubSeq(layout, 1, 0) = <<>> /\ Len(layout) \in Nat
      BY <1>1 DEF ScanTypeOK
    <3> QED BY <3>1, <2>1 DEF IsPrefixScan
  <2> QED BY <2>1, <2>2, <2>3 DEF ScanInv, ScanExact, ScanCovers
<1>4. CASE BetweenScans
  <2>1. layout' \in Seq(Extents) /\ IsLayout(layout')
    BY <1>4, <1>1, LayoutTypes DEF BetweenScans, ScanTypeOK
  <2>2. ScanTypeOK' /\ scan' = "idle"
    BY <2>1, <1>4, <1>2 DEF BetweenScans, ScanTypeOK
  <2> QED BY <2>2 DEF ScanInv, ScanExact, ScanCovers
<1>5. CASE Ioctl
  BY <1>5, IoctlKeeps
<1>6. CASE IoctlFails
  <2>1. ScanTypeOK' /\ scan' = "failed"
    BY <1>1, <1>6 DEF IoctlFails, ScanTypeOK
  <2> QED BY <2>1 DEF ScanInv, ScanExact, ScanCovers
<1>7. CASE Relayout
  <2>1. layout' \in Seq(Extents) /\ IsLayout(layout')
    BY <1>7, LayoutTypes DEF Relayout
  <2>2. /\ moved' = TRUE /\ UNCHANGED <<scan, start, list>>
        /\ \A p \in 0..Pages : Covers(layout, p) <=> Covers(layout', p)
    BY <1>7 DEF Relayout, SamePages
  <2>3. ScanTypeOK'
    BY <1>1, <2>1, <2>2 DEF ScanTypeOK
  <2>4. (scan = "running" => CoveredSoFar)'
    BY <2>2 DEF ScanInv, CoveredSoFar, Covers
  <2>5. ScanCovers'
    BY <2>2 DEF ScanInv, ScanCovers, Covers
  <2> QED BY <2>2, <2>3, <2>4, <2>5 DEF ScanInv, ScanExact
<1>8. CASE UNCHANGED scanVars
  BY <1>8 DEF scanVars, ScanInv, ScanTypeOK, CoveredSoFar, IsPrefixScan, ScanExact, ScanCovers, Covers, IsLayout
<1> QED BY <1>3, <1>4, <1>5, <1>6, <1>7, <1>8 DEF ScanNext

\* A scan by itself returns exactly the extents of a file whose layout stays as
\* it is, and every mapped page of any file (get_extents, filefrag.cpp:43-84).
THEOREM ScanReturnsAll == ScanSpec => [](ScanExact /\ ScanCovers)
PROOF
<1>1. ScanInit => ScanInv
  BY ScanStarts
<1>2. ScanInv /\ [ScanNext]_scanVars => ScanInv'
  BY ScanKeeps
<1>3. ScanInv => ScanExact /\ ScanCovers
  BY DEF ScanInv
<1> QED BY <1>1, <1>2, <1>3, PTL DEF ScanSpec

\* In the cycles of the scenario the scan goes its own way: every step of a
\* cycle is a step of the scan or leaves it alone.
THEOREM CyclesScan == Spec => ScanSpec
PROOF
<1>1. Init => ScanInit
  BY DEF Init
<1>2. [Next]_vars => [ScanNext]_scanVars
  <2> SUFFICES ASSUME [Next]_vars PROVE ScanNext \/ UNCHANGED scanVars
    OBVIOUS
  <2>1. CASE Alter
    BY <2>1 DEF Alter, ScanNext
  <2>2. CASE Pass
    BY <2>2 DEF Pass
  <2>3. CASE Delete
    BY <2>3 DEF Delete, ScanNext
  <2>4. CASE Deleted
    BY <2>4 DEF Deleted, ScanNext
  <2>5. CASE End
    BY <2>5 DEF End, ScanNext
  <2>6. CASE Ended
    BY <2>6 DEF Ended, ScanNext
  <2>7. CASE Scan
    BY <2>7 DEF Scan, ScanNext
  <2>8. CASE ScanFails
    BY <2>8 DEF ScanFails, ScanNext
  <2>9. CASE FileSystem
    BY <2>9 DEF FileSystem, ScanNext
  <2>10. CASE UNCHANGED vars
    BY <2>10 DEF vars, scanVars
  <2> QED BY <2>1, <2>2, <2>3, <2>4, <2>5, <2>6, <2>7, <2>8, <2>9, <2>10 DEF Next
<1> QED BY <1>1, <1>2, PTL DEF Spec, ScanSpec

\* The extents of a list end one behind the other.
Forward(l) == \A i, j \in 1..Len(l) : i < j => l[i].to < l[j].to

\* No extent of the list ends behind the start of the next batch.
ForwardInv ==
  /\ ScanTypeOK
  /\ Forward(list)
  /\ scan = "running" => \A i \in 1..Len(list) : list[i].to <= start

\* A batch ends each of its extents behind the start, one behind the other.
LEMMA BatchForward ==
  ASSUME ScanTypeOK, NEW n \in 0..Len(layout), EndBefore(start, n), n < Len(layout)
  PROVE  /\ \A i \in (n + 1)..Len(layout) : start < layout[i].to
         /\ \A i, j \in 1..Len(layout) : i < j => layout[i].to < layout[j].to
PROOF
<1>1. /\ layout \in Seq(Extents) /\ IsLayout(layout) /\ Len(layout) \in Nat
      /\ start \in 0..Pages /\ DOMAIN layout = 1..Len(layout)
  BY DEF ScanTypeOK
<1>2. \A i \in 1..Len(layout) : /\ layout[i].from \in 0..Pages /\ layout[i].to \in 0..Pages
                                /\ layout[i].from < layout[i].to
  BY <1>1 DEF Extents
<1>3. ASSUME NEW i \in (n + 1)..Len(layout) PROVE start < layout[i].to
  <2>1. i \in 1..Len(layout) /\ ~ i <= n
    BY <1>1, <1>3
  <2>2. ~ layout[i].to <= start
    BY <2>1 DEF EndBefore
  <2> QED BY <2>1, <2>2, <1>1, <1>2, ScanAssumption
<1>4. ASSUME NEW i \in 1..Len(layout), NEW j \in 1..Len(layout), i < j
      PROVE  layout[i].to < layout[j].to
  <2>1. layout[i].to <= layout[j].from
    BY <1>1, <1>4 DEF IsLayout
  <2> QED BY <2>1, <1>2, <1>4, ScanAssumption
<1> QED BY <1>3, <1>4

\* A list followed by one that goes on behind a page p at which it ends.
LEMMA ForwardConcat ==
  ASSUME NEW l \in Seq(Extents), NEW m \in Seq(Extents), NEW p \in 0..Pages,
         Forward(l), Forward(m),
         \A i \in 1..Len(l) : l[i].to <= p, \A i \in 1..Len(m) : p < m[i].to
  PROVE  Forward(l \o m)
PROOF
<1> DEFINE c == l \o m
<1>1. /\ Len(c) = Len(l) + Len(m) /\ Len(l) \in Nat /\ Len(m) \in Nat
      /\ \A i \in 1..Len(l) : c[i] = l[i]
      /\ \A i \in (Len(l) + 1)..Len(c) : i - Len(l) \in 1..Len(m) /\ c[i] = m[i - Len(l)]
  <2>1. Len(c) = Len(l) + Len(m) /\ Len(l) \in Nat /\ Len(m) \in Nat
    OBVIOUS
  <2>2. \A i \in 1..Len(l) : c[i] = l[i]
    OBVIOUS
  <2>3. \A i \in (Len(l) + 1)..(Len(l) + Len(m)) : i - Len(l) \in 1..Len(m) /\ c[i] = m[i - Len(l)]
    OBVIOUS
  <2> QED BY <2>1, <2>2, <2>3
<1>2. /\ \A i \in 1..Len(l) : l[i].to \in Int
      /\ \A i \in 1..Len(m) : m[i].to \in Int
  <2>1. /\ \A i \in 1..Len(l) : l[i] \in Extents
        /\ \A i \in 1..Len(m) : m[i] \in Extents
    OBVIOUS
  <2>2. \A e \in Extents : e.to \in Int
    BY ScanAssumption DEF Extents
  <2> QED BY <2>1, <2>2
<1> HIDE DEF c
<1>3. ASSUME NEW i \in 1..Len(c), NEW j \in 1..Len(c), i < j PROVE c[i].to < c[j].to
  <2>1. CASE j <= Len(l)
    <3>1. i \in 1..Len(l) /\ j \in 1..Len(l)
      BY <1>1, <1>3, <2>1
    <3> QED BY <3>1, <1>1, <1>3 DEF Forward
  <2>2. CASE i <= Len(l) /\ ~ j <= Len(l)
    <3>1. i \in 1..Len(l) /\ j \in (Len(l) + 1)..Len(c)
      BY <1>1, <1>3, <2>2
    <3>2. c[i].to <= p /\ p < c[j].to /\ c[i].to \in Int /\ c[j].to \in Int
      BY <3>1, <1>1, <1>2
    <3> QED BY <3>2, ScanAssumption
  <2>3. CASE ~ i <= Len(l)
    <3>1. i \in (Len(l) + 1)..Len(c) /\ j \in (Len(l) + 1)..Len(c)
      BY <1>1, <1>3, <2>3
    <3>2. i - Len(l) < j - Len(l)
      BY <1>1, <1>3
    <3> QED BY <3>1, <3>2, <1>1 DEF Forward
  <2> QED BY <2>1, <2>2, <2>3, <1>1
<1> QED BY <1>3 DEF Forward, c

\* The scan goes forward in every step.
LEMMA ForwardKeeps == ForwardInv /\ [ScanNext]_scanVars /\ ScanTypeOK' => ForwardInv'
PROOF
<1> SUFFICES ASSUME ForwardInv, [ScanNext]_scanVars, ScanTypeOK' PROVE ForwardInv'
  OBVIOUS
<1>1. /\ ScanTypeOK /\ Forward(list) /\ list \in Seq(Extents) /\ start \in 0..Pages /\ Len(list) \in Nat
      /\ layout \in Seq(Extents) /\ Len(layout) \in Nat
  BY DEF ForwardInv, ScanTypeOK
<1>2. Forward(<<>>)
  BY DEF Forward
<1>3. CASE Begin
  BY <1>2, <1>3 DEF Begin, ForwardInv
<1>4. CASE BetweenScans
  BY <1>2, <1>4 DEF BetweenScans, ForwardInv
<1>5. CASE IoctlFails
  BY <1>5 DEF IoctlFails, ForwardInv
<1>6. CASE Relayout
  BY <1>6 DEF Relayout, ForwardInv
<1>7. CASE Ioctl
  <2>1. PICK n \in 0..Len(layout) : EndBefore(start, n) /\ (Batch(n) \/ NoneMapped(n))
    BY <1>7 DEF Ioctl
  <2>2. scan = "running" /\ \A i \in 1..Len(list) : list[i].to <= start
    BY <1>7 DEF Ioctl, ForwardInv
  <2>3. CASE NoneMapped(n)
    BY <1>1, <2>3 DEF NoneMapped, ForwardInv
  <2>4. CASE Batch(n)
    <3> DEFINE b == BatchEnd(n)
               s == SubSeq(layout, n + 1, b)
    <3>1. n < Len(layout) /\ list' = list \o s
      BY <2>4 DEF Batch
    <3>2. b \in (n + 1)..Len(layout)
      BY <1>1, <3>1, BatchRange
    <3>3. s \in Seq(Extents) /\ Len(s) = b - n /\ \A i \in 1..(b - n) : s[i] = layout[n + i]
      BY <1>1, <3>1, BatchIs
    <3>4. /\ \A i \in (n + 1)..Len(layout) : start < layout[i].to
          /\ \A i, j \in 1..Len(layout) : i < j => layout[i].to < layout[j].to
      BY <1>1, <2>1, <3>1, BatchForward
    <3>5. scan' = "running" => start' = layout[b].to
      BY <2>2, <2>4 DEF Batch, After
    <3> HIDE DEF b, s
    <3>6. \A i \in 1..(b - n) : n + i \in (n + 1)..Len(layout) /\ n + i \in 1..Len(layout) /\ n + i <= b
      BY <1>1, <3>2
    <3>7. Forward(s)
      <4> SUFFICES ASSUME NEW i \in 1..Len(s), NEW j \in 1..Len(s), i < j PROVE s[i].to < s[j].to
        BY DEF Forward
      <4>1. n + i < n + j
        BY <1>1, <3>2, <3>3
      <4> QED BY <4>1, <3>3, <3>4, <3>6
    <3>8. \A i \in 1..Len(s) : start < s[i].to
      BY <3>3, <3>4, <3>6
    <3>9. Forward(list')
      BY <1>1, <2>2, <3>1, <3>3, <3>7, <3>8, ForwardConcat
    <3>10. ASSUME scan' = "running" PROVE \A i \in 1..Len(list') : list'[i].to <= start'
      <4> TAKE i \in 1..Len(list')
      <4>1. b \in 1..Len(layout) /\ start' = layout[b].to /\ start < start' /\ start' \in Int
        <5>1. b \in 1..Len(layout)
          BY <1>1, <3>2
        <5>2. layout[b].to \in 0..Pages
          BY <5>1, <1>1 DEF Extents
        <5>3. start' = layout[b].to
          BY <3>5, <3>10
        <5>4. start < layout[b].to
          BY <3>2, <3>4
        <5>5. layout[b].to \in Int
          BY <5>2, ScanAssumption
        <5> QED BY <5>1, <5>3, <5>4, <5>5
      <4>2. CASE i \in 1..Len(list)
        <5>1. list'[i] = list[i] /\ list[i].to \in 0..Pages
          <6>1. list'[i] = list[i] /\ list[i] \in Extents
            BY <1>1, <3>1, <3>3, <4>2
          <6> QED BY <6>1 DEF Extents
        <5>2. list[i].to \in Int /\ start \in Int /\ list[i].to <= start
          BY <5>1, <4>2, <2>2, <1>1, ScanAssumption
        <5> QED BY <5>1, <5>2, <4>1
      <4>3. CASE ~ i \in 1..Len(list)
        <5> DEFINE k == i - Len(list)
        <5>1. k \in 1..Len(s) /\ list'[i] = s[k]
          BY <1>1, <3>1, <3>3, <4>3
        <5> HIDE DEF k
        <5>2. s[k] = layout[n + k] /\ n + k \in 1..Len(layout) /\ n + k <= b
          BY <5>1, <3>3, <3>6
        <5>3. n + k = b \/ n + k < b
          BY <5>2, <4>1
        <5>4. layout[n + k].to \in 0..Pages
          BY <5>2, <1>1 DEF Extents
        <5>5. layout[n + k].to \in Int
          BY <5>4, ScanAssumption
        <5>6. layout[n + k].to <= layout[b].to
          <6>1. CASE n + k = b
            BY <6>1, <5>5
          <6>2. CASE n + k < b
            <7>1. layout[n + k].to < layout[b].to
              BY <6>2, <5>2, <4>1, <3>4
            <7> QED BY <7>1, <5>5, <4>1
          <6> QED BY <5>3, <6>1, <6>2
        <5> QED BY <5>1, <5>2, <5>6, <4>1
      <4> QED BY <4>2, <4>3
    <3> QED BY <3>9, <3>10 DEF ForwardInv
  <2> QED BY <2>1, <2>3, <2>4
<1>8. CASE UNCHANGED scanVars
  BY <1>8 DEF scanVars, ForwardInv
<1> QED BY <1>3, <1>4, <1>5, <1>6, <1>7, <1>8 DEF ScanNext

\* Extents that end one behind the other are at most as many as there are pages.
LEMMA ForwardIsShort ==
  ASSUME NEW l \in Seq(Extents), Forward(l)
  PROVE  Len(l) <= Pages
PROOF
<1>1. Len(l) \in Nat /\ \A i \in 1..Len(l) : l[i].to \in 0..Pages /\ 1 <= l[i].to
  BY ScanAssumption DEF Extents
<1> DEFINE S == {k \in Nat : k + 1 <= Len(l) => k + 1 <= l[k + 1].to}
<1>2. 0 \in S
  BY <1>1
<1>3. ASSUME NEW k \in Nat, k \in S PROVE k + 1 \in S
  <2> SUFFICES ASSUME (k + 1) + 1 <= Len(l) PROVE (k + 1) + 1 <= l[(k + 1) + 1].to
    OBVIOUS
  <2>1. k + 1 \in 1..Len(l) /\ (k + 1) + 1 \in 1..Len(l) /\ k + 1 < (k + 1) + 1 /\ k + 1 <= Len(l)
    BY <1>1
  <2>2. l[k + 1].to < l[(k + 1) + 1].to /\ k + 1 <= l[k + 1].to
    BY <2>1, <1>3 DEF Forward
  <2>3. l[k + 1].to \in Int /\ l[(k + 1) + 1].to \in Int
    BY <2>1, <1>1, ScanAssumption
  <2> QED BY <2>2, <2>3
<1>4. Nat \subseteq S
  <2> HIDE DEF S
  <2> QED BY <1>2, <1>3, Induction
<1>5. CASE Len(l) = 0
  BY <1>5, ScanAssumption
<1>6. CASE Len(l) # 0
  <2>1. Len(l) - 1 \in Nat /\ (Len(l) - 1) + 1 = Len(l) /\ Len(l) \in 1..Len(l)
    BY <1>1, <1>6
  <2>2. Len(l) <= l[Len(l)].to
    BY <2>1, <1>1, <1>4
  <2> QED BY <2>1, <2>2, <1>1, ScanAssumption
<1> QED BY <1>5, <1>6

\* Whatever the file system does during a scan, it goes forward: no extent comes
\* back twice, and after at most as many batches as the file has pages there is
\* nothing left to ask for (filefrag.cpp:43-84).
THEOREM ScansAdvance == Spec => []ScanAdvances
PROOF
<1>1. ScanInit => ForwardInv
  <2> SUFFICES ASSUME ScanInit PROVE ForwardInv
    OBVIOUS
  <2>1. ScanTypeOK
    BY ScanStarts DEF ScanInv
  <2> QED BY <2>1 DEF ScanInit, ForwardInv, Forward
<1>2. ScanInv' /\ ForwardInv /\ [ScanNext]_scanVars => ForwardInv'
  BY ForwardKeeps DEF ScanInv
<1>3. ForwardInv => ScanAdvances
  <2> SUFFICES ASSUME ForwardInv PROVE ScanAdvances
    OBVIOUS
  <2>1. list \in Seq(Extents) /\ Forward(list) /\ DOMAIN list = 1..Len(list)
    BY DEF ForwardInv, ScanTypeOK
  <2>2. Len(list) <= Pages
    BY <2>1, ForwardIsShort
  <2> QED BY <2>1, <2>2 DEF ScanAdvances, Forward
<1>4. ScanInit => ScanInv
  BY ScanStarts
<1>5. ScanInv /\ [ScanNext]_scanVars => ScanInv'
  BY ScanKeeps
<1>6. ScanSpec => []ForwardInv
  BY <1>1, <1>2, <1>4, <1>5, PTL DEF ScanSpec
<1> QED BY <1>3, <1>6, CyclesScan, PTL

\* What END and DELETE_FILE get from get_extents is exactly the file's extents
\* when the layout stays as it is during the scan.
THEOREM ScansAreExact == Spec => []ScanExact
PROOF
<1> QED BY ScanReturnsAll, CyclesScan, PTL

\* Whatever the file system does during the scan, no mapped page is missing.
THEOREM ScansCover == Spec => []ScanCovers
PROOF
<1> QED BY ScanReturnsAll, CyclesScan, PTL

\* While the file system leaves the layout alone, the total is what END last
\* found, and that is what the file has unless it was altered since.
TotalInv ==
  /\ ScanInv
  /\ cached \in Int /\ total \in Int /\ drifts \in Nat
  /\ drifts = 0 =>
       /\ ~ moved
       /\ phase # "died" => total = cached
       /\ phase \in {"handler", "deleting"} => cached = Len(layout) /\ ~ touched
       /\ phase = "end" /\ ~ touched => cached = Len(layout)

\* It holds at the start.
LEMMA TotalStarts == Init => TotalInv
PROOF
<1> SUFFICES ASSUME Init PROVE TotalInv
  OBVIOUS
<1>1. ScanInv /\ ~ moved
  BY ScanStarts DEF Init, ScanInit
<1>2. cached = 0 /\ total = 0 /\ drifts = 0 /\ ~ touched /\ cached = Len(layout)
  BY DEF Init
<1> QED BY <1>1, <1>2 DEF TotalInv

\* Every step preserves it.
LEMMA TotalKeeps == TotalInv /\ [Next]_vars => TotalInv'
PROOF
<1> SUFFICES ASSUME TotalInv, [Next]_vars PROVE TotalInv'
  OBVIOUS
<1>1. ScanInv'
  <2>1. [ScanNext]_scanVars
    BY DEF Next, Alter, Pass, Delete, Deleted, End, Ended, Scan, ScanFails, FileSystem,
           ScanNext, vars, scanVars
  <2> QED BY <2>1, ScanKeeps DEF TotalInv
<1>2. Len(list) \in Nat /\ Len(layout) \in Nat /\ Len(layout') \in Nat
  BY <1>1 DEF TotalInv, ScanInv, ScanTypeOK
<1>3. scan = "done" /\ ~ moved => Len(list) = Len(layout)
  BY DEF TotalInv, ScanInv, ScanExact
<1>4. CASE Alter
  BY <1>1, <1>4 DEF Alter, TotalInv, BetweenScans
<1>5. CASE Pass
  BY <1>1, <1>5 DEF Pass, TotalInv, scanVars
<1>6. CASE Delete
  BY <1>1, <1>6 DEF Delete, TotalInv, Begin
<1>7. CASE Deleted
  <2>1. Len(layout') = 0
    BY <1>7 DEF Deleted
  <2> QED BY <1>1, <1>2, <1>3, <1>7, <2>1 DEF Deleted, TotalInv, BetweenScans
<1>8. CASE End
  <2>1. CASE touched
    BY <1>1, <1>8, <2>1 DEF End, TotalInv, Begin
  <2>2. CASE ~ touched
    BY <1>1, <1>8, <2>2 DEF End, TotalInv, scanVars
  <2> QED BY <2>1, <2>2
<1>9. CASE Ended
  <2>1. total' = total + (Len(list) - cached) /\ cached' = Len(list) /\ UNCHANGED layout
    BY <1>9 DEF Ended, Correction
  <2>2. cached' \in Int /\ total' \in Int
    BY <2>1, <1>2 DEF TotalInv
  <2>3. drifts = 0 => total' = cached' /\ cached' = Len(layout')
    BY <2>1, <1>2, <1>3, <1>9 DEF TotalInv, Ended
  <2> QED BY <1>1, <2>2, <2>3, <1>9 DEF Ended, TotalInv, BetweenScans
<1>10. CASE Scan
  BY <1>1, <1>10 DEF Scan, TotalInv, Ioctl, cycleVars
<1>11. CASE ScanFails
  BY <1>1, <1>11 DEF ScanFails, TotalInv, IoctlFails
<1>12. CASE FileSystem
  BY <1>1, <1>12 DEF FileSystem, TotalInv, cycleVars
<1>13. CASE UNCHANGED vars
  BY <1>1, <1>13 DEF vars, cycleVars, scanVars, TotalInv
<1> QED BY <1>4, <1>5, <1>6, <1>7, <1>8, <1>9, <1>10, <1>11, <1>12, <1>13 DEF Next

\* Between two cycles the running total is the number of extents of the file,
\* for any file, batch size and number of cycles (aging.cpp:603-616, 631-637).
THEOREM TotalIsExact == Spec => []TotalExact
PROOF
<1>1. Init => TotalInv
  BY TotalStarts
<1>2. TotalInv /\ [Next]_vars => TotalInv'
  BY TotalKeeps
<1>3. TotalInv => TotalExact
  BY DEF TotalInv, TotalExact
<1> QED BY <1>1, <1>2, <1>3, PTL DEF Spec

-----------------------------------------------------------------------------
\* The sum of some values, by the definition MapThenSumSet gives it.
MapSum(w, S) ==
  (CHOOSE g : g = [s \in SUBSET S |-> IF s = {} THEN 0 ELSE w[Picked(s)] + g[s \ {Picked(s)}]])[S]

\* The sums of the fit are sums of weights.
LEMMA SumOfIsSum == \A w : SumOf(w) = Sum(w, DOMAIN w)
<1> TAKE w
<1>1. SumOf(w) = MapSum(w, DOMAIN w)
  BY DEF SumOf, MapThenSumSet, MapThenFoldSet, MapSum, Picked
<1>2. \A S : MapSum(w, S) = Sum(w, S)
  BY DEF MapSum, Sum, Sums
<1> QED BY <1>1, <1>2

\* The sums of the first weights, of none to all of n.
Sums0(p, w, n) ==
  /\ p \in [0..n -> Int] /\ p[0] = 0
  /\ \A k \in 0..(n - 1) : p[k + 1] = p[k] + w[k + 1]

\* A sum is reached weight by weight.
LEMMA SumStepByStep ==
  ASSUME NEW n \in Nat, NEW w \in [1..n -> Int]
  PROVE  \E p : Sums0(p, w, n) /\ p[n] = SumOf(w)
<1> DEFINE p == [k \in 0..n |-> Sum(w, 1..k)]
<1>1. \A k \in 0..n : IsFiniteSet(1..k) /\ \A i \in 1..k : w[i] \in Int
  BY FS_Interval
<1>2. \A k \in 0..n : Sum(w, 1..k) \in Int
  BY <1>1, SumFacts
<1>3. Sum(w, 1..0) = 0
  <2>1. 1..0 = {} /\ 0 \in 0..n
    OBVIOUS
  <2>2. IsFiniteSet({}) /\ \A i \in {} : w[i] \in Int
    BY FS_EmptySet
  <2>3. Sum(w, {}) = 0
    BY <2>2, SumFacts
  <2> QED BY <2>1, <2>3
<1>4. ASSUME NEW k \in 0..(n - 1) PROVE Sum(w, 1..(k + 1)) = Sum(w, 1..k) + w[k + 1]
  <2>1. k \in 0..n /\ k + 1 \in 0..n /\ k + 1 \in 1..(k + 1) /\ w[k + 1] \in Int
    OBVIOUS
  <2>2. (1..(k + 1)) \ {k + 1} = 1..k
    OBVIOUS
  <2> DEFINE S == 1..(k + 1)
  <2>3. IsFiniteSet(S) /\ (\A i \in S : w[i] \in Int) /\ k + 1 \in S
    BY <1>1, <2>1
  <2> HIDE DEF S
  <2>4. Sum(w, S) = w[k + 1] + Sum(w, S \ {k + 1})
    BY <2>3, SumFacts
  <2>5. Sum(w, 1..(k + 1)) = w[k + 1] + Sum(w, 1..k)
    BY <2>2, <2>4 DEF S
  <2>6. Sum(w, 1..k) \in Int
    BY <1>2, <2>1
  <2> QED BY <2>1, <2>5, <2>6
<1>5. p \in [0..n -> Int] /\ p[0] = 0 /\ p[n] = Sum(w, 1..n)
  BY <1>2, <1>3
<1>6. \A k \in 0..(n - 1) : p[k + 1] = p[k] + w[k + 1]
  <2> TAKE k \in 0..(n - 1)
  <2>1. k \in 0..n /\ k + 1 \in 0..n
    OBVIOUS
  <2>2. p[k + 1] = Sum(w, 1..(k + 1)) /\ p[k] = Sum(w, 1..k)
    BY <2>1
  <2> QED BY <1>4, <2>2
<1> HIDE DEF p
<1>7. Sums0(p, w, n) /\ p[n] = SumOf(w)
  BY <1>5, <1>6, SumOfIsSum DEF Sums0
<1> QED BY <1>7

\* A sum of integers is one.
LEMMA SumOfType == \A w \in Seq(Int) : SumOf(w) \in Int
<1> TAKE w \in Seq(Int)
<1> DEFINE n == Len(w)
<1>1. n \in Nat /\ w \in [1..n -> Int]
  OBVIOUS
<1> HIDE DEF n
<1>2. PICK p : Sums0(p, w, n) /\ p[n] = SumOf(w)
  BY <1>1, SumStepByStep
<1> QED BY <1>1, <1>2 DEF Sums0

\* The sums over the indices have closed forms.
LEMMA IndexSums ==
  ASSUME NEW n \in Nat, NEW y \in [1..n -> Int]
  PROVE  Sx(y) \in Int /\ 2 * Sx(y) = n * (n - 1) /\ Sxx(y) \in Int /\ 6 * Sxx(y) = n * (n - 1) * (2 * n - 1)
<1> DEFINE v == [i \in 1..n |-> i - 1]
           w == [i \in 1..n |-> (i - 1) * (i - 1)]
<1>1. Sx(y) = SumOf(v) /\ Sxx(y) = SumOf(w)
  BY DEF Sx, Sxx, Index
<1>2. v \in [1..n -> Int] /\ w \in [1..n -> Int]
  OBVIOUS
<1>3. \A k \in 0..(n - 1) : v[k + 1] = k /\ w[k + 1] = k * k
  <2> TAKE k \in 0..(n - 1)
  <2>1. k + 1 \in 1..n /\ (k + 1) - 1 = k
    OBVIOUS
  <2> QED BY <2>1
<1> HIDE DEF v, w
<1>4. PICK p : Sums0(p, v, n) /\ p[n] = SumOf(v)
  BY <1>2, SumStepByStep
<1>5. PICK q : Sums0(q, w, n) /\ q[n] = SumOf(w)
  BY <1>2, SumStepByStep
<1> DEFINE S == {k \in Nat : k <= n => /\ 2 * p[k] = k * (k - 1)
                                       /\ 6 * q[k] = k * (k - 1) * (2 * k - 1)}
<1>6. 0 \in S
  BY <1>4, <1>5 DEF Sums0
<1>7. ASSUME NEW k \in Nat, k \in S PROVE k + 1 \in S
  <2> SUFFICES ASSUME k + 1 <= n
               PROVE  /\ 2 * p[k + 1] = (k + 1) * ((k + 1) - 1)
                      /\ 6 * q[k + 1] = (k + 1) * ((k + 1) - 1) * (2 * (k + 1) - 1)
    OBVIOUS
  <2>1. k \in 0..(n - 1) /\ k \in 0..n
    OBVIOUS
  <2>2. p[k + 1] = p[k] + k /\ q[k + 1] = q[k] + k * k /\ p[k] \in Int /\ q[k] \in Int
    BY <1>3, <1>4, <1>5, <2>1 DEF Sums0
  <2>3. 2 * p[k] = k * (k - 1) /\ 6 * q[k] = k * (k - 1) * (2 * k - 1)
    BY <1>7
  <2>4. \A a \in Int : 2 * (a + k) = 2 * a + 2 * k /\ 6 * (a + k * k) = 6 * a + 6 * (k * k)
    OBVIOUS
  <2>5. /\ 2 * p[k + 1] = k * (k - 1) + 2 * k
        /\ 6 * q[k + 1] = k * (k - 1) * (2 * k - 1) + 6 * (k * k)
    BY <2>2, <2>3, <2>4
  <2>6. k * (k - 1) + 2 * k = (k + 1) * ((k + 1) - 1)
    OBVIOUS
  <2>7. k * (k - 1) * (2 * k - 1) + 6 * (k * k) = (k + 1) * ((k + 1) - 1) * (2 * (k + 1) - 1)
    OBVIOUS
  <2> QED BY <2>5, <2>6, <2>7
<1>8. n \in S
  <2> HIDE DEF S
  <2> QED BY <1>6, <1>7, Induction
<1>9. p[n] \in Int /\ q[n] \in Int
  BY <1>4, <1>5 DEF Sums0
<1> QED BY <1>1, <1>4, <1>5, <1>8, <1>9

\* What the fit says of the trend of n points: each counts with its distance
\* from the middle.
Tendency(y) == 2 * Sxy(y) - (Len(y) - 1) * Sy(y)

\* The tendency of the first points, of none to all of n.
Weighs(e, y, n) ==
  /\ e \in [0..n -> Int] /\ e[0] = 0
  /\ \A k \in 0..(n - 1) : e[k + 1] = e[k] + (2 * k - n + 1) * y[k + 1]

\* It is reached point by point.
LEMMA TendencyStepByStep ==
  ASSUME NEW n \in Nat, NEW y \in [1..n -> Int], Len(y) = n
  PROVE  /\ Sxy(y) \in Int /\ Sy(y) \in Int
         /\ \E e : Weighs(e, y, n) /\ e[n] = Tendency(y)
<1> DEFINE w == [i \in 1..n |-> (i - 1) * y[i]]
<1>1. Sy(y) = SumOf(y) /\ Sxy(y) = SumOf(w)
  BY DEF Sy, Sxy, Index
<1>2. w \in [1..n -> Int]
  <2>1. \A i \in 1..n : (i - 1) * y[i] \in Int
    OBVIOUS
  <2> QED BY <2>1
<1>3. \A k \in 0..(n - 1) : w[k + 1] = k * y[k + 1] /\ y[k + 1] \in Int
  <2> TAKE k \in 0..(n - 1)
  <2>1. k + 1 \in 1..n /\ (k + 1) - 1 = k
    OBVIOUS
  <2> QED BY <2>1
<1> HIDE DEF w
<1>4. PICK p : Sums0(p, y, n) /\ p[n] = SumOf(y)
  BY SumStepByStep
<1>5. PICK q : Sums0(q, w, n) /\ q[n] = SumOf(w)
  BY <1>2, SumStepByStep
<1>6. p \in [0..n -> Int] /\ q \in [0..n -> Int] /\ p[0] = 0 /\ q[0] = 0
  BY <1>4, <1>5 DEF Sums0
<1> DEFINE e == [k \in 0..n |-> 2 * q[k] - (n - 1) * p[k]]
<1>7. e \in [0..n -> Int] /\ e[0] = 0 /\ e[n] = 2 * q[n] - (n - 1) * p[n]
  <2>1. \A k \in 0..n : q[k] \in Int /\ p[k] \in Int
    BY <1>6
  <2>2. \A a, b \in Int : 2 * a - (n - 1) * b \in Int
    OBVIOUS
  <2>3. 0 \in 0..n /\ n \in 0..n /\ 2 * 0 - (n - 1) * 0 = 0
    OBVIOUS
  <2> QED BY <1>6, <2>1, <2>2, <2>3
<1>8. ASSUME NEW k \in 0..(n - 1) PROVE e[k + 1] = e[k] + (2 * k - n + 1) * y[k + 1]
  <2>1. k \in 0..n /\ k + 1 \in 0..n
    OBVIOUS
  <2>2. e[k] = 2 * q[k] - (n - 1) * p[k] /\ e[k + 1] = 2 * q[k + 1] - (n - 1) * p[k + 1]
    BY <2>1
  <2>3. /\ p[k + 1] = p[k] + y[k + 1] /\ q[k + 1] = q[k] + k * y[k + 1]
        /\ p[k] \in Int /\ q[k] \in Int /\ y[k + 1] \in Int
    BY <1>3, <1>4, <1>5, <1>6, <2>1 DEF Sums0
  <2> DEFINE a == p[k]
             b == q[k]
             z == y[k + 1]
  <2>4. /\ a \in Int /\ b \in Int /\ z \in Int
        /\ e[k] = 2 * b - (n - 1) * a
        /\ e[k + 1] = 2 * (b + k * z) - (n - 1) * (a + z)
    BY <2>2, <2>3
  <2> HIDE DEF a, b, z, e
  <2>5. 2 * (b + k * z) - (n - 1) * (a + z) = (2 * b - (n - 1) * a) + (2 * k - n + 1) * z
    BY <2>4
  <2> QED BY <2>4, <2>5 DEF z
<1> HIDE DEF e
<1>9. Weighs(e, y, n) /\ e[n] = Tendency(y)
  BY <1>1, <1>4, <1>5, <1>7, <1>8 DEF Weighs, Tendency
<1>10. p[n] \in Int /\ q[n] \in Int
  BY <1>6
<1> QED BY <1>1, <1>4, <1>5, <1>9, <1>10

\* The multiples a of the points fall by at most b from one to the next.
Grows(n, y, a, b) == \A i \in 1..(n - 1) : a * y[i] <= a * y[i + 1] + b

\* So with b i added they grow, and growing points have no falling tendency.
LEMMA GrowingTendency ==
  ASSUME NEW n \in Nat, n >= 1, NEW y \in [1..n -> Int], NEW a \in Int, NEW b \in Int,
         Grows(n, y, a, b), NEW e, Weighs(e, y, n)
  PROVE  6 * (a * e[n]) + b * (n * (n - 1) * (n + 1)) >= 0
<1>1. e \in [0..n -> Int] /\ e[0] = 0
      /\ \A k \in 0..(n - 1) : e[k + 1] = e[k] + (2 * k - n + 1) * y[k + 1]
  BY DEF Weighs
<1> DEFINE Low(k) == 6 * (a * e[k]) + b * (k * (k - 1) * (4 * k + 1 - 3 * n))
                       >= - (6 * (k * (n - k) * (a * y[k] + b * (k - 1))))
           S == {k \in Nat : k + 1 <= n => Low(k + 1)}
<1>2. 0 \in S
  <2>1. e[1] = (1 - n) * y[1] /\ y[1] \in Int
    <3>1. 0 \in 0..(n - 1) /\ 1 \in 1..n
      OBVIOUS
    <3>2. e[0 + 1] = e[0] + (2 * 0 - n + 1) * y[0 + 1]
      BY <1>1, <3>1
    <3>3. y[1] \in Int
      BY <3>1
    <3> QED BY <1>1, <3>2, <3>3
  <2>2. \A z \in Int : 6 * (a * ((1 - n) * z)) + b * (1 * (1 - 1) * (4 * 1 + 1 - 3 * n))
                         >= - (6 * (1 * (n - 1) * (a * z + b * (1 - 1))))
    OBVIOUS
  <2>3. Low(0 + 1)
    BY <2>1, <2>2
  <2> QED BY <2>3
<1>3. ASSUME NEW j \in Nat, j \in S PROVE j + 1 \in S
  <2> DEFINE k == j + 1
  <2> SUFFICES ASSUME k + 1 <= n PROVE Low(k + 1)
    OBVIOUS
  <2>1. k \in Nat /\ k >= 1 /\ k \in 0..(n - 1) /\ k \in 0..n /\ k \in 1..(n - 1) /\ k \in 1..n /\ k + 1 \in 1..n
    OBVIOUS
  <2>2. Low(k)
    BY <1>3
  <2> HIDE DEF k
  <2> DEFINE c == e[k]
             v == y[k]
             u == y[k + 1]
  <2>3. c \in Int /\ v \in Int /\ u \in Int /\ e[k + 1] = c + (2 * k - n + 1) * u /\ a * v <= a * u + b
    BY <1>1, <2>1 DEF Grows
  <2>4. 6 * (a * c) + b * (k * (k - 1) * (4 * k + 1 - 3 * n)) >= - (6 * (k * (n - k) * (a * v + b * (k - 1))))
    BY <2>2
  <2> HIDE DEF c, v, u
  <2> DEFINE m == k * (n - k)
             s == a * v + b * (k - 1)
             t == a * u + b * k
  <2>5. m \in Nat /\ s \in Int /\ t \in Int /\ s <= t
    <3>1. k \in Nat /\ n - k \in Nat
      BY <2>1
    <3>2. k * (n - k) \in Nat
      BY <3>1
    <3>3. b * k = b * (k - 1) + b
      BY <2>1
    <3> DEFINE x == b * (k - 1)
               av == a * v
               au == a * u
    <3>4. x \in Int /\ av \in Int /\ au \in Int
      BY <2>1, <2>3
    <3>5. s = av + x /\ t = au + (x + b) /\ av <= au + b
      BY <2>3, <3>3
    <3> HIDE DEF x, av, au, s, t
    <3>6. s \in Int /\ t \in Int /\ s <= t
      BY <3>4, <3>5
    <3> QED BY <3>2, <3>6
  <2>6. m * s <= m * t
    <3> HIDE DEF m, s, t
    <3> QED BY <2>5
  <2>7. m * t - (2 * k - n + 1) * t = (k + 1) * (n - (k + 1)) * t
    <3>1. m - (2 * k - n + 1) = (k + 1) * (n - (k + 1))
      BY <2>1
    <3> HIDE DEF m, t
    <3>2. \A x, z, w \in Int : (x - z = w) => x * t - z * t = w * t
      BY <2>5
    <3>3. (2 * k - n + 1) \in Int /\ (k + 1) * (n - (k + 1)) \in Int
      BY <2>1
    <3> QED BY <2>5, <3>1, <3>2, <3>3
  <2>8. 6 * (a * (c + (2 * k - n + 1) * u)) = 6 * (a * c) + 6 * ((2 * k - n + 1) * t) - 6 * (b * k * (2 * k - n + 1))
    BY <2>1, <2>3
  <2>9. b * (k * (k - 1) * (4 * k + 1 - 3 * n)) + 6 * (b * k * (2 * k - n + 1))
          = b * ((k + 1) * ((k + 1) - 1) * (4 * (k + 1) + 1 - 3 * n))
    BY <2>1
  <2> DEFINE A == 6 * (a * c)
             B == b * (k * (k - 1) * (4 * k + 1 - 3 * n))
             C == b * ((k + 1) * ((k + 1) - 1) * (4 * (k + 1) + 1 - 3 * n))
             D == b * k * (2 * k - n + 1)
             F == (2 * k - n + 1) * t
             G == (k + 1) * (n - (k + 1)) * t
             H == 6 * (a * (c + (2 * k - n + 1) * u))
  <2>10. A \in Int /\ B \in Int /\ C \in Int /\ D \in Int /\ F \in Int /\ G \in Int /\ H \in Int
    BY <2>1, <2>3, <2>5
  <2>11. A + B >= - (6 * (m * s))
    BY <2>4
  <2>12. m * t - F = G /\ H = A + 6 * F - 6 * D /\ B + 6 * D = C
    BY <2>7, <2>8, <2>9
  <2>13. H = 6 * (a * e[k + 1])
    BY <2>3
  <2>14. m * s \in Int /\ m * t \in Int
    <3> HIDE DEF m, s, t
    <3> QED BY <2>5
  <2>15. H + C >= - (6 * G)
    <3> HIDE DEF A, B, C, D, F, G, H, m, s, t
    <3> QED BY <2>6, <2>10, <2>11, <2>12, <2>14
  <2>16. Low(k + 1) <=> 6 * (a * e[k + 1]) + C >= - (6 * ((k + 1) * (n - (k + 1)) * (a * y[k + 1] + b * ((k + 1) - 1))))
    OBVIOUS
  <2>17. a * y[k + 1] + b * ((k + 1) - 1) = t
    BY <2>1, <2>3 DEF u
  <2> HIDE DEF A, B, C, D, F, H, t
  <2> QED BY <2>13, <2>15, <2>16, <2>17
<1>4. n - 1 \in S
  <2> HIDE DEF S
  <2>1. Nat \subseteq S
    BY <1>2, <1>3, Induction
  <2> QED BY <2>1
<1>5. Low(n)
  <2>1. (n - 1) + 1 = n /\ n <= n
    OBVIOUS
  <2> QED BY <1>4, <2>1
<1> DEFINE z == a * y[n] + b * (n - 1)
<1>6. z \in Int /\ n * (n - n) * z = 0
  <2>1. y[n] \in Int
    OBVIOUS
  <2>2. z \in Int
    BY <2>1
  <2> HIDE DEF z
  <2> QED BY <2>2
<1>7. 6 * (a * e[n]) + b * (n * (n - 1) * (4 * n + 1 - 3 * n)) >= - (6 * (n * (n - n) * z))
  BY <1>5
<1>8. 4 * n + 1 - 3 * n = n + 1
  OBVIOUS
<1> HIDE DEF z
<1>9. e[n] \in Int
  BY <1>1
<1> QED BY <1>6, <1>7, <1>8, <1>9

\* A distance.
Away(t) == IF t >= 0 THEN t ELSE - t

\* A point counts for at most its distance from the middle times the largest value.
LEMMA Outweighed ==
  ASSUME NEW t \in Int, NEW m \in Int, NEW u \in Int, - m <= u, u <= m
  PROVE  t * u <= Away(t) * m
<1>1. CASE t >= 0
  <2>1. t * u <= t * m
    BY <1>1
  <2> QED BY <1>1, <2>1 DEF Away
<1>2. CASE t < 0
  <2>1. - t \in Nat /\ 0 - u <= m
    BY <1>2
  <2>2. (- t) * (0 - u) <= (- t) * m
    <3> DEFINE s == - t
               v == 0 - u
    <3>1. s \in Nat /\ v \in Int /\ v <= m
      BY <2>1
    <3> HIDE DEF s, v
    <3>2. s * v <= s * m
      BY <3>1
    <3> QED BY <3>2 DEF s, v
  <2>3. (- t) * (0 - u) = t * u
    OBVIOUS
  <2> QED BY <1>2, <2>2, <2>3 DEF Away
<1> QED BY <1>1, <1>2

\* The distances from the middle of the first k places add up to half of this.
Width(n, k) == IF 2 * k <= n THEN 2 * (k * (n - k)) ELSE n * n - 2 * (k * (n - k))

\* The next place adds at least its distance.
LEMMA WidthGrows ==
  ASSUME NEW n \in Nat, NEW k \in Nat, k + 1 <= n
  PROVE  /\ Width(n, k) \in Int /\ Width(n, k + 1) \in Int
         /\ Width(n, k) + 2 * Away(2 * k - n + 1) <= Width(n, k + 1)
<1> DEFINE p == k * (n - k)
           q == (k + 1) * (n - (k + 1))
           t == 2 * k - n + 1
<1>1. p \in Int /\ q \in Int /\ p - t = q /\ n * n \in Int /\ t \in Int
  OBVIOUS
<1>2. CASE 2 * (k + 1) <= n
  <2>1. t < 0 /\ 2 * k <= n
    BY <1>2
  <2>2. Width(n, k) = 2 * p /\ Width(n, k + 1) = 2 * q /\ Away(t) = - t
    BY <1>2, <2>1 DEF Width, Away
  <2> HIDE DEF p, q, t
  <2> QED BY <1>1, <2>2 DEF t
<1>3. CASE 2 * k <= n /\ ~ (2 * (k + 1) <= n)
  <2>1. n = 2 * k \/ n = 2 * k + 1
    BY <1>3
  <2>2. Width(n, k) = 2 * p /\ Width(n, k + 1) = n * n - 2 * q
    BY <1>3 DEF Width
  <2>3. CASE n = 2 * k
    <3>1. t = 1 /\ p = k * k /\ q = k * k - 1 /\ n * n = 4 * (k * k)
      BY <2>3
    <3>2. Away(t) = 1
      BY <3>1 DEF Away
    <3> DEFINE s == k * k
    <3>3. s \in Int
      OBVIOUS
    <3> HIDE DEF p, q, t, s
    <3>4. Width(n, k) = 2 * s /\ Width(n, k + 1) = 4 * s - 2 * (s - 1)
      BY <2>2, <3>1 DEF s
    <3> QED BY <3>2, <3>3, <3>4 DEF t
  <2>4. CASE n = 2 * k + 1
    <3>1. t = 0 /\ p = k * k + k /\ q = k * k + k /\ n * n = 4 * (k * k) + 4 * k + 1
      BY <2>4
    <3>2. Away(t) = 0
      BY <3>1 DEF Away
    <3> DEFINE s == k * k
    <3>3. s \in Int
      OBVIOUS
    <3> HIDE DEF p, q, t, s
    <3>4. Width(n, k) = 2 * (s + k) /\ Width(n, k + 1) = (4 * s + 4 * k + 1) - 2 * (s + k)
      BY <2>2, <3>1 DEF s
    <3> QED BY <3>2, <3>3, <3>4 DEF t
  <2> QED BY <2>1, <2>3, <2>4
<1>4. CASE ~ (2 * k <= n)
  <2>1. t >= 0 /\ ~ (2 * (k + 1) <= n)
    BY <1>4
  <2>2. Width(n, k) = n * n - 2 * p /\ Width(n, k + 1) = n * n - 2 * q /\ Away(t) = t
    BY <1>4, <2>1 DEF Width, Away
  <2> DEFINE s == n * n
  <2> HIDE DEF p, q, t, s
  <2>3. s \in Int /\ Width(n, k) = s - 2 * p /\ Width(n, k + 1) = s - 2 * q
    BY <1>1, <2>2 DEF s
  <2> QED BY <1>1, <2>2, <2>3 DEF t
<1> QED BY <1>2, <1>3, <1>4

\* The next point keeps the tendency within the bound.
LEMMA BandStep ==
  ASSUME NEW t \in Int, NEW p \in Int, NEW a \in Int, NEW c \in Int, NEW d \in Int, NEW z \in Int,
         NEW m \in Nat, - m <= a * z - c, a * z - c <= m, NEW w \in Int, NEW v \in Int,
         2 * (a * d + c * p) <= m * w, w + 2 * Away(t) <= v
  PROVE  2 * (a * (d + t * z) + c * (p - t)) <= m * v
<1> DEFINE u == a * z - c
           f == Away(t)
<1>1. u \in Int /\ f \in Nat
  BY DEF Away
<1>2. t * u <= f * m
  <2> HIDE DEF u
  <2> QED BY <1>1, Outweighed DEF u, Away
<1>3. m * (w + 2 * f) <= m * v
  <2> HIDE DEF f
  <2>1. w + 2 * f \in Int /\ w + 2 * f <= v
    BY <1>1 DEF f
  <2> DEFINE b == w + 2 * f
  <2> HIDE DEF b
  <2> QED BY <2>1 DEF b
<1>4. m * (w + 2 * f) = m * w + 2 * (f * m)
  <2> HIDE DEF f
  <2> QED BY <1>1
<1>5. 2 * (a * (d + t * z) + c * (p - t)) = 2 * (a * d + c * p) + 2 * (t * u)
  <2>1. a * (d + t * z) = a * d + a * (t * z) /\ c * (p - t) = c * p - c * t
    OBVIOUS
  <2>2. t * (a * z - c) = a * (t * z) - c * t
    OBVIOUS
  <2> DEFINE A == a * d
             B == a * (t * z)
             C == c * p
             D == c * t
             F == a * (d + t * z)
             G == c * (p - t)
             H == t * u
  <2>3. A \in Int /\ B \in Int /\ C \in Int /\ D \in Int
    OBVIOUS
  <2>4. F = A + B /\ G = C - D /\ H = B - D
    BY <2>1, <2>2
  <2> HIDE DEF A, B, C, D, F, G, H
  <2>5. 2 * (F + G) = 2 * (A + C) + 2 * H
    BY <2>3, <2>4
  <2> QED BY <2>5 DEF A, C, F, G, H
<1> DEFINE l == 2 * (a * (d + t * z) + c * (p - t))
           r == 2 * (a * d + c * p)
           g == t * u
           h == f * m
           mw == m * w
           mv == m * v
<1>6. r \in Int /\ mw \in Int /\ mv \in Int
  OBVIOUS
<1>7. g \in Int /\ h \in Int
  <2> HIDE DEF u, f
  <2> QED BY <1>1
<1>8. l = r + 2 * g /\ r <= mw /\ g <= h /\ mw + 2 * h <= mv
  <2> HIDE DEF u, f
  <2> QED BY <1>2, <1>3, <1>4, <1>5
<1>9. l <= mv
  <2> HIDE DEF l, r, g, h, mw, mv
  <2> QED BY <1>6, <1>7, <1>8
<1> QED BY <1>9

\* The multiples a of the points are at most m away from c.
InBand(n, y, a, c, m) == \A i \in 1..n : - m <= a * y[i] - c /\ a * y[i] - c <= m

\* Points in a band have a tendency of at most its half width times half of n
\* squared: the signs that raise it most are those of a step in the middle.
LEMMA BoundedTendency ==
  ASSUME NEW n \in Nat, n >= 1, NEW y \in [1..n -> Int], NEW a \in Int, NEW c \in Int, NEW m \in Nat,
         InBand(n, y, a, c, m), NEW e, Weighs(e, y, n)
  PROVE  2 * (a * e[n]) <= m * (n * n)
<1>1. e \in [0..n -> Int] /\ e[0] = 0
      /\ \A k \in 0..(n - 1) : e[k + 1] = e[k] + (2 * k - n + 1) * y[k + 1]
  BY DEF Weighs
<1> DEFINE Bound(k) == 2 * (a * e[k] + c * (k * (n - k))) <= m * Width(n, k)
           S == {k \in Nat : k <= n => Bound(k)}
<1>2. 0 \in S
  <2>1. Width(n, 0) = 0 /\ 0 * (n - 0) = 0
    BY DEF Width
  <2>2. 2 * (a * 0 + c * 0) <= m * 0
    OBVIOUS
  <2>3. Bound(0)
    BY <1>1, <2>1, <2>2
  <2> QED BY <2>3
<1>3. ASSUME NEW k \in Nat, k \in S PROVE k + 1 \in S
  <2> SUFFICES ASSUME k + 1 <= n PROVE Bound(k + 1)
    OBVIOUS
  <2>1. k \in 0..(n - 1) /\ k \in 0..n /\ k + 1 \in 1..n /\ Bound(k)
    BY <1>3
  <2> DEFINE d == e[k]
             z == y[k + 1]
             t == 2 * k - n + 1
             p == k * (n - k)
             w == Width(n, k)
             v == Width(n, k + 1)
  <2>2. d \in Int /\ z \in Int /\ e[k + 1] = d + t * z /\ - m <= a * z - c /\ a * z - c <= m
    BY <1>1, <2>1 DEF InBand
  <2>3. t \in Int /\ p \in Int /\ p - t = (k + 1) * (n - (k + 1))
    OBVIOUS
  <2>4. w \in Int /\ v \in Int /\ w + 2 * Away(t) <= v
    BY WidthGrows
  <2>5. 2 * (a * d + c * p) <= m * w
    BY <2>1
  <2> HIDE DEF d, z, t, p, w, v
  <2>6. 2 * (a * (d + t * z) + c * (p - t)) <= m * v
    BY <2>2, <2>3, <2>4, <2>5, BandStep
  <2> QED BY <2>2, <2>3, <2>6 DEF v
<1>4. n \in S
  <2> HIDE DEF S
  <2> QED BY <1>2, <1>3, Induction
<1>5. Bound(n)
  BY <1>4
<1>6. n * (n - n) = 0 /\ Width(n, n) = n * n
  <2>1. ~ (2 * n <= n)
    OBVIOUS
  <2>2. n * n - 2 * (n * (n - n)) = n * n
    OBVIOUS
  <2> QED BY <2>1, <2>2 DEF Width
<1>7. 2 * (a * e[n] + c * (n * (n - n))) <= m * Width(n, n)
  BY <1>5
<1>8. 2 * (a * e[n] + c * 0) <= m * (n * n)
  BY <1>6, <1>7
<1>9. e[n] \in Int
  BY <1>1
<1>10. 2 * (a * e[n] + c * 0) = 2 * (a * e[n])
  BY <1>9
<1> QED BY <1>8, <1>10

-----------------------------------------------------------------------------
\* The largest point is one.
LEMMA LargestPoint ==
  ASSUME NEW n \in Nat, n >= 1, NEW y \in [1..n -> Int]
  PROVE  Largest(y) \in Int /\ \A i \in 1..n : y[i] <= Largest(y)
<1>1. n - 1 \in Nat /\ (n - 1) + 1 = n
  OBVIOUS
<1>2. y \in [1..((n - 1) + 1) -> Int]
  BY <1>1
<1>3. PICK m \in 1..n : \A k \in 1..n : y[k] <= y[m]
  BY <1>1, <1>2, GreatestExists
<1>4. \A k \in 1..n : y[k] \in Int /\ (y[m] >= y[k] <=> y[k] <= y[m])
  OBVIOUS
<1> DEFINE V == {y[i] : i \in DOMAIN y}
<1>5. V = {y[i] : i \in 1..n}
  OBVIOUS
<1>6. y[m] \in V /\ \A x \in V : y[m] >= x
  BY <1>3, <1>4, <1>5
<1>7. Max(V) \in V /\ \A x \in V : Max(V) >= x
  <2> HIDE DEF V
  <2> QED BY <1>6 DEF Max
<1>8. Largest(y) = Max(V)
  BY DEF Largest
<1> QED BY <1>4, <1>5, <1>7, <1>8

\* A factor above 0 does not change a comparison.
LEMMA Cancels ==
  ASSUME NEW q \in Nat, q > 0, NEW a \in Int, NEW b \in Int
  PROVE  q * a < q * b <=> a < b
<1>1. CASE a < b
  <2>1. b - a \in Nat /\ b - a >= 1
    BY <1>1
  <2>2. q * (b - a) >= q /\ q * (b - a) = q * b - q * a
    BY <2>1
  <2> QED BY <1>1, <2>2
<1>2. CASE ~ a < b
  <2>1. a - b \in Nat
    BY <1>2
  <2>2. q * (a - b) >= 0 /\ q * (a - b) = q * a - q * b
    BY <2>1
  <2> QED BY <1>2, <2>2
<1> QED BY <1>1, <1>2

\* The verdict of the fit, without the sums over the indices.
LEMMA FlatIff ==
  ASSUME NEW n \in Nat, n >= 2, NEW y \in [1..n -> Int], Len(y) = n, Largest(y) > 0
  PROVE  /\ Tendency(y) \in Int
         /\ Flat(y) <=> 6 * (Tendency(y) * Run) < Threshold(y) * ((n - 1) * (n + 1))
<1> DEFINE L == Largest(y)
           A == Tendency(y)
           x == Sx(y)
           xx == Sxx(y)
           s == Sy(y)
           xs == Sxy(y)
           N == SlopeNumerator(y)
           D == SlopeDenominator(y)
           q == n * n
           k == (n - 1) * (n + 1)
<1>1. x \in Int /\ 2 * x = n * (n - 1) /\ xx \in Int /\ 6 * xx = n * (n - 1) * (2 * n - 1)
  BY IndexSums
<1>2. s \in Int /\ xs \in Int
  BY TendencyStepByStep
<1>3. L \in Nat /\ L > 0
  BY LargestPoint
<1>4. N = n * (n * xs - x * s) /\ D = L * (n * xx - x * x) /\ A = 2 * xs - (n - 1) * s
  BY DEF SlopeNumerator, SlopeDenominator, XSpan, Tendency
<1> HIDE DEF x, xx, s, xs, N, D, A, L
<1>5. A \in Int /\ N \in Int /\ D \in Int /\ q \in Nat /\ q > 0 /\ k \in Nat /\ k > 0
  <2>1. A \in Int
    BY <1>2, <1>4
  <2>2. N \in Int
    BY <1>1, <1>2, <1>4
  <2>3. n * xx - x * x \in Int
    BY <1>1
  <2>4. D \in Int
    BY <1>3, <1>4, <2>3
  <2>5. q \in Nat /\ q > 0
    OBVIOUS
  <2>6. n - 1 \in Nat /\ n - 1 > 0 /\ n + 1 \in Nat /\ n + 1 > 0
    OBVIOUS
  <2>7. k \in Nat /\ k > 0
    BY <2>6
  <2> QED BY <2>1, <2>2, <2>4, <2>5, <2>7
<1>6. 2 * N = q * A
  <2>1. 2 * N = n * (2 * (n * xs) - (2 * x) * s)
    BY <1>1, <1>2, <1>4
  <2>2. 2 * N = n * (2 * (n * xs) - (n * (n - 1)) * s)
    BY <1>1, <2>1
  <2>3. n * (2 * (n * xs) - (n * (n - 1)) * s) = q * (2 * xs - (n - 1) * s)
    BY <1>2
  <2> QED BY <1>4, <2>2, <2>3
<1>7. 12 * D = q * (L * k)
  <2>1. 12 * (n * xx - x * x) = 2 * (n * (6 * xx)) - 3 * ((2 * x) * (2 * x))
    BY <1>1
  <2>2. 12 * (n * xx - x * x) = 2 * (n * (n * (n - 1) * (2 * n - 1))) - 3 * ((n * (n - 1)) * (n * (n - 1)))
    BY <1>1, <2>1
  <2>3. 2 * (n * (n * (n - 1) * (2 * n - 1))) - 3 * ((n * (n - 1)) * (n * (n - 1))) = q * k
    OBVIOUS
  <2> DEFINE d == n * xx - x * x
  <2>4. d \in Int /\ 12 * d = q * k
    BY <1>1, <2>2, <2>3
  <2> HIDE DEF d, q, k
  <2>5. 12 * (L * d) = L * (12 * d)
    BY <1>3, <2>4
  <2>6. L * (q * k) = q * (L * k)
    BY <1>3, <1>5
  <2> QED BY <1>4, <2>4, <2>5, <2>6 DEF d
<1> HIDE DEF q, k
<1>8. D > 0
  <2>1. L * k \in Nat /\ L * k > 0
    BY <1>3, <1>5
  <2> DEFINE p == L * k
  <2> HIDE DEF p
  <2>2. q * p > 0
    BY <1>5, <2>1 DEF p
  <2> QED BY <1>5, <1>7, <2>2 DEF p
<1>9. Flat(y) <=> N * Run < D * Rise
  BY <1>5, <1>8 DEF Flat, N, D
<1>10. Run \in Nat /\ Rise \in Nat
  BY CurveAssumption
<1> DEFINE a == 6 * (A * Run)
           b == (L * Rise) * k
<1>11. a \in Int /\ b \in Int /\ N * Run \in Int /\ D * Rise \in Int
  BY <1>3, <1>5, <1>10
<1>12. 12 * (N * Run) = q * a
  <2>1. 12 * (N * Run) = 6 * ((2 * N) * Run)
    BY <1>5, <1>10
  <2>2. 6 * ((q * A) * Run) = q * (6 * (A * Run))
    BY <1>5, <1>10
  <2> QED BY <1>6, <2>1, <2>2
<1>13. 12 * (D * Rise) = q * b
  <2>1. 12 * (D * Rise) = (12 * D) * Rise
    BY <1>5, <1>10
  <2>2. (q * (L * k)) * Rise = q * ((L * Rise) * k)
    BY <1>3, <1>5, <1>10
  <2> QED BY <1>7, <2>1, <2>2
<1>14. N * Run < D * Rise <=> a < b
  <2> DEFINE l == N * Run
             r == D * Rise
  <2> HIDE DEF a, b, l, r
  <2>1. l < r <=> 12 * l < 12 * r
    BY <1>11 DEF l, r
  <2>2. q * a < q * b <=> a < b
    BY <1>5, <1>11, Cancels
  <2>3. 12 * l = q * a /\ 12 * r = q * b
    BY <1>12, <1>13 DEF l, r
  <2>4. l < r <=> a < b
    BY <2>1, <2>2, <2>3
  <2> QED BY <2>4 DEF l, r
<1> QED BY <1>5, <1>9, <1>14 DEF Threshold, k, L, A

\* The verdict on steady growth, on growth that has slowed down, and on totals
\* that have settled, for any number of points.
LEMMA VerdictOfTheFit ==
  ASSUME NEW y \in Seq(Int), Judged(y)
  PROVE  (Steady(y) => ~ Flat(y)) /\ (Slowed(y) \/ Settled(y) => Flat(y))
<1> DEFINE n == Len(y)
           L == Largest(y)
           M == Threshold(y)
           A == Tendency(y)
           k == (n - 1) * (n + 1)
<1>1. n \in Nat /\ n >= 2 /\ y \in [1..n -> Int] /\ DOMAIN y = 1..n
  BY CurveAssumption DEF Judged
<1>2. L \in Int /\ \A i \in 1..n : y[i] \in Int /\ y[i] <= L
  BY <1>1, LargestPoint
<1>3. Run \in Nat /\ Run > 0 /\ Rise \in Nat
  BY CurveAssumption
<1> HIDE DEF n
<1>4. L > 0 => A \in Int /\ (Flat(y) <=> 6 * (A * Run) < M * k)
  BY <1>1, FlatIff DEF n
<1>5. M \in Int /\ k \in Nat /\ k > 0
  <2>1. M \in Int
    BY <1>2, <1>3 DEF Threshold
  <2>2. n - 1 \in Nat /\ n - 1 > 0 /\ n + 1 \in Nat /\ n + 1 > 0
    BY <1>1
  <2> QED BY <2>1, <2>2
<1>6. PICK e : Weighs(e, y, n) /\ e[n] = A
  BY <1>1, TendencyStepByStep DEF n
<1>7. \A i \in 1..(n - 1) : i \in 1..n /\ i + 1 \in 1..n /\ y[i] \in Int /\ y[i + 1] \in Int
  BY <1>1, <1>2
<1> DEFINE g == n * Run
           nk == n * (n - 1) * (n + 1)
<1>8. g \in Nat /\ nk = n * k
  BY <1>1, <1>3
<1>9. \A i \in 1..(n - 1) : Growth(y, i) = g * (y[i + 1] - y[i])
  <2> TAKE i \in 1..(n - 1)
  <2> DEFINE z == y[i + 1] - y[i]
  <2>1. z \in Int
    BY <1>7
  <2>2. Growth(y, i) = z * n * Run
    BY DEF Growth, n
  <2> HIDE DEF z
  <2>3. z * n * Run = g * z
    BY <1>1, <1>3, <2>1
  <2> QED BY <2>2, <2>3 DEF z
<1> HIDE DEF L, M, A, k, nk
<1>10. ASSUME Steady(y) PROVE ~ Flat(y)
  <2>1. L > 0 /\ \A i \in 1..(n - 1) : g * (y[i + 1] - y[i]) >= M
    BY <1>9, <1>10 DEF Steady, L, M, n
  <2> DEFINE c == 0 - M
  <2> HIDE DEF g
  <2>2. Grows(n, y, g, c)
    <3> SUFFICES \A i \in 1..(n - 1) : g * y[i] <= g * y[i + 1] + c
      BY DEF Grows
    <3> TAKE i \in 1..(n - 1)
    <3>1. g * (y[i + 1] - y[i]) >= M /\ y[i] \in Int /\ y[i + 1] \in Int
      BY <1>7, <2>1
    <3>2. \A u, v \in Int : g * (u - v) >= M => g * v <= g * u + c
      BY <1>5, <1>8
    <3> QED BY <3>1, <3>2
  <2>3. c \in Int /\ g \in Int
    BY <1>5, <1>8
  <2> HIDE DEF c
  <2>4. 6 * (g * e[n]) + c * nk >= 0
    BY <1>1, <1>6, <2>2, <2>3, GrowingTendency DEF nk
  <2>5. 6 * (g * A) - n * (M * k) >= 0 /\ A \in Int
    <3>1. A \in Int
      BY <1>4, <2>1
    <3>2. c * nk = - (n * (M * k))
      BY <1>1, <1>5, <1>8 DEF c
    <3> DEFINE u == 6 * (g * A)
               v == n * (M * k)
    <3>3. u \in Int /\ v \in Int
      BY <1>1, <1>5, <1>8, <3>1
    <3>4. u + (- v) >= 0
      BY <1>6, <1>8, <2>4, <3>2
    <3> HIDE DEF u, v
    <3>5. u - v >= 0
      BY <3>3, <3>4
    <3> QED BY <3>1, <3>5 DEF u, v
  <2>6. 6 * (g * A) = n * (6 * (A * Run))
    BY <1>1, <1>3, <2>5 DEF g
  <2>7. ~ (n * (6 * (A * Run)) < n * (M * k))
    <3> DEFINE u == n * (6 * (A * Run))
               v == n * (M * k)
    <3>1. u \in Int /\ v \in Int
      BY <1>1, <1>3, <1>5, <2>5
    <3>2. u - v >= 0
      BY <2>5, <2>6
    <3> HIDE DEF u, v
    <3>3. ~ (u < v)
      BY <3>1, <3>2
    <3> QED BY <3>3 DEF u, v
  <2>8. 6 * (A * Run) \in Int /\ M * k \in Int /\ n > 0
    BY <1>1, <1>3, <1>5, <2>5
  <2>9. ~ (6 * (A * Run) < M * k)
    BY <1>1, <2>7, <2>8, Cancels
  <2> QED BY <1>4, <2>1, <2>9
<1>11. ASSUME Slowed(y) PROVE Flat(y)
  <2>1. L > 0 /\ \A i \in 1..(n - 1) : g * (y[i + 1] - y[i]) < M
    BY <1>9, <1>11 DEF Slowed, L, M, n
  <2> DEFINE h == 0 - g
             c == M - 1
  <2>2. h \in Int /\ c \in Int
    BY <1>5, <1>8
  <2> HIDE DEF g
  <2>3. Grows(n, y, h, c)
    <3> SUFFICES \A i \in 1..(n - 1) : h * y[i] <= h * y[i + 1] + c
      BY DEF Grows
    <3> TAKE i \in 1..(n - 1)
    <3>1. g * (y[i + 1] - y[i]) < M /\ y[i] \in Int /\ y[i + 1] \in Int
      BY <1>7, <2>1
    <3>2. \A u, v \in Int : g * (u - v) < M => (0 - g) * v <= (0 - g) * u + (M - 1)
      <4> TAKE u, v \in Int
      <4>1. g * (u - v) = g * u - g * v /\ (0 - g) * v = 0 - g * v /\ (0 - g) * u = 0 - g * u
        BY <1>8
      <4> DEFINE a == g * u
                 b == g * v
      <4>2. a \in Int /\ b \in Int
        BY <1>8
      <4> HIDE DEF a, b
      <4>3. a - b < M => 0 - b <= (0 - a) + (M - 1)
        BY <1>5, <4>2
      <4> QED BY <4>1, <4>3 DEF a, b
    <3> QED BY <3>1, <3>2
  <2> HIDE DEF h, c
  <2>4. 6 * (h * e[n]) + c * nk >= 0
    BY <1>1, <1>6, <2>2, <2>3, GrowingTendency DEF nk
  <2>5. A \in Int
    BY <1>4, <2>1
  <2>6. 6 * (h * A) = 0 - n * (6 * (A * Run)) /\ c * nk = n * (M * k) - n * k
    <3>1. 6 * ((0 - n * Run) * A) = 0 - n * (6 * (A * Run))
      BY <1>1, <1>3, <2>5
    <3>2. (M - 1) * (n * k) = n * (M * k) - n * k
      BY <1>1, <1>5
    <3> QED BY <1>8, <3>1, <3>2 DEF h, c, g
  <2>7. n * k > 0 /\ n * k \in Int
    BY <1>1, <1>5
  <2>8. n * (6 * (A * Run)) < n * (M * k)
    <3> DEFINE u == n * (6 * (A * Run))
               v == n * (M * k)
               w == n * k
    <3>1. u \in Int /\ v \in Int
      BY <1>1, <1>3, <1>5, <2>5
    <3>2. (0 - u) + (v - w) >= 0
      BY <1>6, <2>4, <2>6
    <3>3. w > 0 /\ w \in Int
      BY <2>7
    <3> HIDE DEF u, v, w
    <3>4. u < v
      BY <3>1, <3>2, <3>3
    <3> QED BY <3>4 DEF u, v
  <2>9. 6 * (A * Run) \in Int /\ M * k \in Int /\ n > 0
    BY <1>1, <1>3, <1>5, <2>5
  <2>10. 6 * (A * Run) < M * k
    BY <1>1, <2>8, <2>9, Cancels
  <2> QED BY <1>4, <2>1, <2>10
<1>12. ASSUME Settled(y) PROVE Flat(y)
  <2>1. L > 0 /\ \A i \in 1..n : 2 * Run * (L - y[i]) < M
    BY <1>1, <1>12 DEF Settled, L, M
  <2> DEFINE a == 8 * Run
             m == 2 * M - 1
             c == 8 * (Run * L) - m
  <2>2. M > 0
    <3>1. 1 \in 1..n
      BY <1>1
    <3> DEFINE z == L - y[1]
    <3>2. 2 * Run * z < M /\ z \in Nat
      BY <1>2, <2>1, <3>1
    <3> HIDE DEF z
    <3>3. 2 * Run * z \in Nat
      BY <1>3, <3>2
    <3> DEFINE r == 2 * Run * z
    <3> HIDE DEF r
    <3>4. r < M /\ r \in Nat
      BY <3>2, <3>3 DEF r
    <3> QED BY <1>5, <3>4
  <2>3. a \in Int /\ m \in Nat /\ c \in Int
    <3>1. Run * L \in Int
      BY <1>2, <1>3
    <3> QED BY <1>3, <1>5, <2>2, <3>1
  <2>4. InBand(n, y, a, c, m)
    <3> SUFFICES \A i \in 1..n : - m <= a * y[i] - c /\ a * y[i] - c <= m
      BY DEF InBand
    <3> TAKE i \in 1..n
    <3> DEFINE z == L - y[i]
               r == Run * z
    <3>1. z \in Nat /\ 2 * Run * z < M /\ y[i] = L - z
      BY <1>2, <2>1
    <3> HIDE DEF z
    <3>2. r \in Nat /\ 2 * Run * z = 2 * r
      BY <1>3, <3>1
    <3>3. (8 * Run) * (L - z) = 8 * (Run * L) - 8 * r
      BY <1>2, <1>3, <3>1
    <3>4. a * y[i] = 8 * (Run * L) - 8 * r
      BY <3>1, <3>3
    <3> DEFINE p == 8 * (Run * L)
    <3>5. p \in Int
      BY <1>2, <1>3
    <3> HIDE DEF p, r
    <3>6. a * y[i] - c = m - 8 * r
      BY <1>5, <3>2, <3>4, <3>5 DEF p
    <3>7. - m <= m - 8 * r /\ m - 8 * r <= m
      BY <1>5, <3>1, <3>2
    <3> QED BY <3>6, <3>7
  <2> HIDE DEF a, m, c
  <2>5. 2 * (a * e[n]) <= m * (n * n)
    BY <1>1, <1>6, <2>3, <2>4, BoundedTendency
  <2>6. A \in Int
    BY <1>4, <2>1
  <2>7. 16 * (A * Run) <= m * (n * n)
    <3>1. 2 * ((8 * Run) * A) = 16 * (A * Run)
      BY <1>3, <2>6
    <3> QED BY <1>6, <2>5, <3>1 DEF a
  <2> DEFINE q == n * n
             t == A * Run
  <2>8. q \in Nat /\ q >= 4 /\ k = q - 1 /\ t \in Int
    <3>1. n * n >= 4
      BY <1>1
    <3> QED BY <1>1, <1>3, <2>6, <3>1 DEF k
  <2>9. 16 * t <= (2 * M - 1) * q
    BY <2>7 DEF m
  <2> HIDE DEF q, t
  <2>10. 6 * t < M * (q - 1)
    <3>1. (2 * M - 1) * q = 2 * (M * q) - q /\ M * (q - 1) = M * q - M /\ M * q >= 4 * M /\ M * q \in Int
      <4>1. M * (q - 4) >= 0
        BY <1>5, <2>2, <2>8
      <4>2. M * (q - 4) = M * q - 4 * M
        BY <1>5, <2>8
      <4>3. (2 * M - 1) * q = 2 * (M * q) - q /\ M * (q - 1) = M * q - M /\ M * q \in Int
        BY <1>5, <2>8
      <4> DEFINE p == M * q
      <4>4. p \in Int /\ p - 4 * M >= 0
        BY <4>1, <4>2, <4>3
      <4> HIDE DEF p
      <4>5. p >= 4 * M
        BY <1>5, <4>4
      <4> QED BY <4>3, <4>5 DEF p
    <3> DEFINE p == M * q
    <3>2. 16 * t <= 2 * p - q /\ p >= 4 * M /\ p \in Int /\ M * (q - 1) = p - M
      BY <2>9, <3>1
    <3> HIDE DEF p
    <3>3. 6 * t < p - M
      BY <1>5, <2>2, <2>8, <3>2
    <3> QED BY <3>2, <3>3
  <2>11. 6 * (A * Run) < M * k
    BY <2>8, <2>10 DEF t
  <2> QED BY <1>4, <2>1, <2>11
<1> QED BY <1>10, <1>11, <1>12
\* The curve holds integers.
CurveType == curve \in [points : Seq(Int), buffer : Seq(Int)]

\* An iteration that leaves rapid aging on has seen a curve that is not flat, and
\* the curve stays as it is until the scan at its end.
TrendInv ==
  /\ TotalInv
  /\ CurveType
  /\ phase \in {"end", "deleting"} /\ rapid /\ clock # "early" => ~ Saturated(curve.points)

\* A point is added to the curve, or the values of a group are.
LEMMA CurveGrows ==
  ASSUME NEW c \in [points : Seq(Int), buffer : Seq(Int)], NEW y \in Int
  PROVE  AddPoint(c, y) \in [points : Seq(Int), buffer : Seq(Int)]
<1> DEFINE group == Append(c.buffer, y)
<1>1. group \in Seq(Int)
  OBVIOUS
<1> HIDE DEF group
<1>2. SumOf(group) \in Int
  BY <1>1, SumOfType
<1>3. Append(c.points, SumOf(group)) \in Seq(Int) /\ <<>> \in Seq(Int)
  BY <1>2
<1>4. /\ [points |-> Append(c.points, SumOf(group)), buffer |-> <<>>] \in [points : Seq(Int), buffer : Seq(Int)]
      /\ [c EXCEPT !.buffer = group] \in [points : Seq(Int), buffer : Seq(Int)]
  BY <1>1, <1>3
<1> QED BY <1>4 DEF AddPoint, group

\* Every step preserves it.
LEMMA TrendKeeps == TrendInv /\ [Next]_vars => TrendInv'
<1> SUFFICES ASSUME TrendInv, [Next]_vars PROVE TrendInv'
  OBVIOUS
<1>1. TotalInv'
  BY TotalKeeps DEF TrendInv
<1>2. ASSUME LoopHead, UNCHANGED curve
      PROVE  rapid' /\ clock' # "early" => ~ Saturated(curve.points)'
  BY <1>2 DEF LoopHead, headVars
<1>3. CASE Alter
  BY <1>1, <1>2, <1>3 DEF Alter, TrendInv, CurveType
<1>4. CASE Pass
  BY <1>1, <1>2, <1>4 DEF Pass, TrendInv, CurveType
<1>5. CASE Delete
  BY <1>1, <1>2, <1>5 DEF Delete, TrendInv, CurveType
<1>6. CASE Deleted
  BY <1>1, <1>6 DEF Deleted, TrendInv, CurveType, headVars
<1>7. CASE End
  BY <1>1, <1>7 DEF End, TrendInv, CurveType
<1>8. CASE Ended
  <2>1. total' \in Int
    BY <1>1 DEF TotalInv
  <2>2. CurveType'
    BY <1>8, <2>1, CurveGrows DEF Ended, TrendInv, CurveType
  <2> QED BY <1>1, <1>8, <2>2 DEF Ended, TrendInv
<1>9. CASE Scan
  BY <1>1, <1>9 DEF Scan, TrendInv, CurveType, cycleVars, headVars
<1>10. CASE ScanFails
  BY <1>1, <1>10 DEF ScanFails, TrendInv, CurveType, headVars
<1>11. CASE FileSystem
  BY <1>1, <1>11 DEF FileSystem, TrendInv, CurveType, cycleVars, headVars
<1>12. CASE UNCHANGED vars
  BY <1>1, <1>12 DEF vars, TrendInv, CurveType, cycleVars, headVars
<1> QED BY <1>3, <1>4, <1>5, <1>6, <1>7, <1>8, <1>9, <1>10, <1>11, <1>12 DEF Next

\* Rapid aging goes on while fragmentation grows steadily and stops at the next
\* iteration once it has slowed down or settled, for any number of points, group
\* size and threshold (aging.cpp:146-156; polycurve.cpp:76-113).
THEOREM TrendIsJudged == Spec => TrendJudged
<1>1. Init => TrendInv
  <2> SUFFICES ASSUME Init PROVE TrendInv
    OBVIOUS
  <2>1. TotalInv
    BY TotalStarts
  <2>2. curve = EmptyCurve /\ phase = "handler" /\ <<>> \in Seq(Int)
    BY DEF Init
  <2> QED BY <2>1, <2>2 DEF TrendInv, CurveType, EmptyCurve
<1>2. TrendInv /\ [Next]_vars => TrendInv'
  BY TrendKeeps
<1>3. TrendInv /\ [Next]_vars => [GoesOnWhileSteady /\ StopsWhenSlowed]_vars
  <2> SUFFICES ASSUME TrendInv, Next PROVE GoesOnWhileSteady /\ StopsWhenSlowed
    OBVIOUS
  <2> DEFINE y == curve.points
  <2>1. y \in Seq(Int)
    BY DEF TrendInv, CurveType
  <2>2. /\ Saturated(y) => Judged(y) /\ ~ Steady(y)
        /\ Judged(y) /\ (Slowed(y) \/ Settled(y)) => Saturated(y)
    <3> HIDE DEF y
    <3> QED BY <2>1, VerdictOfTheFit DEF Saturated
  <2>3. LoopHead \/ UNCHANGED headVars
    BY DEF Next, Alter, Pass, Delete, Deleted, End, Ended, Scan, ScanFails, FileSystem, headVars
  <2>4. GoesOnWhileSteady
    BY <2>2, <2>3 DEF GoesOnWhileSteady, LoopHead, headVars
  <2>5. ASSUME /\ phase = "end" \/ phase' = "end"
               /\ clock' # "early"
               /\ Judged(y) /\ (Slowed(y) \/ Settled(y))
        PROVE  ~ rapid'
    <3>1. CASE LoopHead
      BY <2>2, <2>5, <3>1 DEF LoopHead, headVars
    <3>2. CASE UNCHANGED headVars /\ phase \in {"end", "deleting"}
      BY <2>2, <2>5, <3>2 DEF TrendInv, headVars
    <3>3. ~ LoopHead => UNCHANGED headVars /\ phase \in {"end", "deleting"}
      BY <2>5 DEF Next, Alter, Pass, Delete, Deleted, End, Ended, Scan, ScanFails, FileSystem, headVars, cycleVars
    <3> QED BY <3>1, <3>2, <3>3
  <2> QED BY <2>4, <2>5 DEF StopsWhenSlowed
<1> QED BY <1>1, <1>2, <1>3, PTL DEF Spec, TrendJudged
=============================================================================
