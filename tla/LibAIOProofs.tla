---------------------------- MODULE LibAIOProofs ----------------------------
(***************************************************************************)
(* LibAIO, for every depth, block size and file size: the counter of       *)
(* submitted requests is right, every finished request is counted once,    *)
(* the buffer is released when nothing uses it, and the engine implements  *)
(* the contract IOEngine.                                                  *)
(***************************************************************************)
EXTENDS LibAIO, NatRecursion, SequenceTheorems

Request == [at : Nat, result : {Error, Pending} \cup 0..Block]

\* Of the requests r and the ring q: every entry of the ring is a finished
\* request, and none is there twice.
QueueOf(r, q) ==
  /\ r \in Seq(Request) /\ q \in Seq(Nat)
  /\ \A k \in 1..Len(q) : q[k] \in 1..Len(r) /\ r[q[k]].result # Pending
  /\ \A j, k \in 1..Len(q) : q[j] = q[k] => j = k

Flying(r)     == {i \in 1..Len(r) : r[i].result = Pending}
First(q, n)   == {q[k] : k \in 1..n}
Fetched(r, q) == {i \in 1..Len(r) : r[i].result >= 0} \ First(q, Len(q))
Weights(r)    == [i \in 1..Len(r) |-> r[i].result]

-----------------------------------------------------------------------------
\* The elements of a sequence, and what Append adds to it.
LEMMA Appended ==
  ASSUME NEW S, NEW s \in Seq(S), NEW e \in S
  PROVE  /\ Append(s, e) \in Seq(S) /\ Len(Append(s, e)) = Len(s) + 1 /\ Len(s) \in Nat
         /\ \A k \in 1..Len(s) : Append(s, e)[k] = s[k] /\ s[k] \in S
         /\ Append(s, e)[Len(s) + 1] = e
BY AppendProperties, ElementOfSeq, LenProperties

\* The result a request may have got.
LEMMA Result ==
  ASSUME NEW r \in Seq(Request), NEW i \in 1..Len(r)
  PROVE  /\ r[i] \in Request /\ r[i].at \in Nat
         /\ r[i].result \in {-1, -2} \cup 0..Block /\ r[i].result \in Int
<1>1. r[i] \in Request
  BY ElementOfSeq
<1> QED BY <1>1, LibAIOAssumption DEF Request, Error, Pending

\* Setting the result of a request leaves its offset alone.
LEMMA NewResult ==
  ASSUME NEW c \in Request, NEW e
  PROVE  [c EXCEPT !.result = e] = [at |-> c.at, result |-> e]
BY DEF Request

\* Of the requests r and the ring q, after request i was given the result e.
Gets(r, i, e) == [r EXCEPT ![i] = [at |-> r[i].at, result |-> e]]
AfterFinish(r, q, i, s, p) ==
  /\ QueueOf(s, p) /\ Len(s) = Len(r) /\ Len(p) = Len(q) + 1
  /\ Flying(s) = Flying(r) \ {i}
  /\ Fetched(s, p) = Fetched(r, q)
  /\ \A j \in 1..Len(r) : j # i => s[j] = r[j]

\* The kernel finishes request i.
LEMMA Finished ==
  ASSUME NEW r, NEW q, QueueOf(r, q), NEW i \in Flying(r), NEW e \in {Error} \cup 0..Block,
         NEW s, s = Gets(r, i, e), NEW p, p = Append(q, i)
  PROVE  AfterFinish(r, q, i, s, p)
<1>1. r \in Seq(Request) /\ q \in Seq(Nat) /\ i \in 1..Len(r) /\ r[i].result = Pending /\ i \in Nat
      /\ Len(r) \in Nat
  BY LenProperties DEF QueueOf, Flying
<1> DEFINE new == [at |-> r[i].at, result |-> e]
<1>2. new \in Request
  BY <1>1, Result, LibAIOAssumption DEF Request
<1>3. s = [r EXCEPT ![i] = new]
  BY DEF Gets
<1>n. new.result = e
  OBVIOUS
<1> HIDE DEF new
<1>4. s \in Seq(Request) /\ Len(s) = Len(r) /\ s[i] = new /\ \A j \in 1..Len(r) : j # i => s[j] = r[j]
  BY <1>1, <1>2, <1>3, ExceptSeq
<1>5. /\ p \in Seq(Nat) /\ Len(p) = Len(q) + 1 /\ Len(q) \in Nat
      /\ \A k \in 1..Len(q) : p[k] = q[k] /\ q[k] \in Nat
      /\ p[Len(q) + 1] = i
  BY <1>1, Appended
<1>6. \A k \in 1..Len(q) : q[k] \in 1..Len(r) /\ r[q[k]].result # Pending /\ q[k] # i
  BY <1>1 DEF QueueOf
<1>7. e # Pending
  BY LibAIOAssumption DEF Error, Pending
<1>8. \A k \in 1..Len(p) : p[k] \in 1..Len(s) /\ s[p[k]].result # Pending
  <2> TAKE k \in 1..Len(p)
  <2>1. CASE k = Len(q) + 1
    BY <1>1, <1>4, <1>5, <1>7, <1>n, <2>1
  <2>2. CASE k \in 1..Len(q)
    BY <1>4, <1>5, <1>6, <2>2
  <2> QED BY <1>5, <2>1, <2>2
<1>9. \A j, k \in 1..Len(p) : p[j] = p[k] => j = k
  <2>1. \A j, k \in 1..Len(q) : q[j] = q[k] => j = k
    BY DEF QueueOf
  <2>2. \A k \in 1..Len(p) : k = Len(q) + 1 \/ k \in 1..Len(q)
    BY <1>5
  <2> QED BY <1>5, <1>6, <2>1, <2>2
<1>10. QueueOf(s, p)
  BY <1>4, <1>5, <1>8, <1>9 DEF QueueOf
<1>11. Flying(s) = Flying(r) \ {i}
  BY <1>4, <1>7, <1>n DEF Flying
<1>12. First(p, Len(p)) = First(q, Len(q)) \cup {i}
  <2>1. \A x : x \in First(p, Len(p)) => x \in First(q, Len(q)) \cup {i}
    BY <1>5 DEF First
  <2>2. \A x : x \in First(q, Len(q)) => x \in First(p, Len(p))
    <3> SUFFICES ASSUME NEW k \in 1..Len(q) PROVE q[k] \in First(p, Len(p))
      BY DEF First
    <3>1. k \in 1..Len(p) /\ p[k] = q[k]
      BY <1>5
    <3> QED BY <3>1 DEF First
  <2>3. i \in First(p, Len(p))
    <3>1. Len(q) + 1 \in 1..Len(p)
      BY <1>5
    <3> QED BY <1>5, <3>1 DEF First
  <2> QED BY <2>1, <2>2, <2>3
<1>13. ~ (r[i].result >= 0)
  BY <1>1 DEF Pending
<1>14. Fetched(s, p) = Fetched(r, q)
  BY <1>4, <1>12, <1>13 DEF Fetched
<1> QED BY <1>4, <1>5, <1>10, <1>11, <1>14 DEF AfterFinish

\* A request is submitted, at offset a.
Submission(r, a) == Append(r, [at |-> a, result |-> Pending])

AfterSubmit(r, q, s) ==
  /\ QueueOf(s, q) /\ Len(s) = Len(r) + 1 /\ Len(r) \in Nat
  /\ Flying(s) = Flying(r) \cup {Len(r) + 1}
  /\ Fetched(s, q) = Fetched(r, q)
  /\ \A j \in 1..Len(r) : s[j] = r[j]

\* A request is submitted: it is in flight, and the ring is as it was.
LEMMA Submitted ==
  ASSUME NEW r, NEW q, QueueOf(r, q), NEW a \in Nat, NEW s, s = Submission(r, a)
  PROVE  AfterSubmit(r, q, s)
<1> DEFINE new == [at |-> a, result |-> Pending]
<1>1. r \in Seq(Request) /\ q \in Seq(Nat)
  BY DEF QueueOf
<1>2. new \in Request /\ new.result = Pending
  BY DEF Request
<1> HIDE DEF new
<1>3. s = Append(r, new)
  BY DEF new, Submission
<1>4. /\ s \in Seq(Request) /\ Len(s) = Len(r) + 1 /\ Len(r) \in Nat
      /\ \A j \in 1..Len(r) : s[j] = r[j]
      /\ s[Len(r) + 1] = new
  BY <1>1, <1>2, <1>3, Appended
<1>5. QueueOf(s, q)
  <2>1. \A k \in 1..Len(q) : q[k] \in 1..Len(r) /\ r[q[k]].result # Pending
    BY DEF QueueOf
  <2>2. \A k \in 1..Len(q) : q[k] \in 1..Len(s) /\ s[q[k]].result # Pending
    <3> TAKE k \in 1..Len(q)
    <3>1. q[k] \in 1..Len(r) /\ r[q[k]].result # Pending
      BY <2>1
    <3>2. s[q[k]] = r[q[k]] /\ q[k] \in 1..Len(s)
      BY <1>4, <3>1
    <3> QED BY <3>1, <3>2
  <2>3. \A j, k \in 1..Len(q) : q[j] = q[k] => j = k
    BY DEF QueueOf
  <2> QED BY <1>1, <1>4, <2>2, <2>3 DEF QueueOf
<1>6. 1..Len(s) = (1..Len(r)) \cup {Len(r) + 1}
  BY <1>4
<1>7. Flying(s) = Flying(r) \cup {Len(r) + 1}
  BY <1>2, <1>4, <1>6 DEF Flying
<1>8. Fetched(s, q) = Fetched(r, q)
  <2>1. ~ (new.result >= 0)
    BY <1>2 DEF Pending
  <2> QED BY <1>4, <1>6, <2>1 DEF Fetched
<1> QED BY <1>4, <1>5, <1>7, <1>8 DEF AfterSubmit

\* What holds of requests r and ring q when the first n entries have left it and
\* the ring p remains.
AfterFetch(r, q, n, p) ==
  /\ QueueOf(r, p) /\ Len(p) = Len(q) - n /\ Len(q) \in Nat
  /\ Fetched(r, p) = Fetched(r, q) \cup First(q, n)
  /\ Fetched(r, q) \cap First(q, n) = {}
  /\ \A i \in First(q, n) : i \in 1..Len(r) /\ r[i].result \in 0..Block

\* The first n entries leave the ring, all of them without an error.
LEMMA Taken ==
  ASSUME NEW r, NEW q, QueueOf(r, q), NEW n \in 0..Len(q),
         \A i \in First(q, n) : r[i].result # Error,
         NEW p, p = SubSeq(q, n + 1, Len(q))
  PROVE  AfterFetch(r, q, n, p)
<1>1. r \in Seq(Request) /\ q \in Seq(Nat) /\ Len(q) \in Nat
  BY LenProperties DEF QueueOf
<1>2. \A k \in 1..Len(q) : q[k] \in 1..Len(r) /\ r[q[k]].result # Pending
  BY DEF QueueOf
<1>3. \A j, k \in 1..Len(q) : q[j] = q[k] => j = k
  BY DEF QueueOf
<1>4. p \in Seq(Nat) /\ Len(p) = Len(q) - n /\ \A k \in 1..Len(p) : p[k] = q[n + k]
  <2>1. /\ SubSeq(q, n + 1, Len(q)) \in Seq(Nat)
        /\ Len(SubSeq(q, n + 1, Len(q))) = IF n + 1 <= Len(q) THEN Len(q) - (n + 1) + 1 ELSE 0
        /\ \A k \in 1..(Len(q) - (n + 1) + 1) : SubSeq(q, n + 1, Len(q))[k] = q[n + 1 + k - 1]
    BY <1>1, <1>2, SubSeqProperties
  <2> QED BY <1>1, <2>1
<1>5. \A k \in 1..Len(p) : n + k \in 1..Len(q) /\ p[k] = q[n + k]
  BY <1>1, <1>4
<1>6. QueueOf(r, p)
  <2>1. \A k \in 1..Len(p) : p[k] \in 1..Len(r) /\ r[p[k]].result # Pending
    BY <1>2, <1>5
  <2>2. ASSUME NEW j \in 1..Len(p), NEW k \in 1..Len(p), p[j] = p[k] PROVE j = k
    <3>1. n + j \in 1..Len(q) /\ n + k \in 1..Len(q) /\ q[n + j] = q[n + k]
      BY <1>5, <2>2
    <3>2. n + j = n + k
      BY <1>3, <3>1
    <3> QED BY <1>1, <3>2
  <2> QED BY <1>1, <1>4, <2>1, <2>2 DEF QueueOf
<1>7. First(q, Len(q)) = First(q, n) \cup First(p, Len(p))
  <2>1. ASSUME NEW k \in 1..Len(q) PROVE q[k] \in First(q, n) \cup First(p, Len(p))
    <3>1. CASE k <= n
      BY <1>1, <3>1 DEF First
    <3>2. CASE k > n
      <4>1. k - n \in 1..Len(p) /\ n + (k - n) = k
        BY <1>1, <1>4, <3>2
      <4> QED BY <1>5, <4>1 DEF First
    <3> QED BY <1>1, <3>1, <3>2
  <2>2. First(q, n) \subseteq First(q, Len(q))
    BY <1>1 DEF First
  <2>3. First(p, Len(p)) \subseteq First(q, Len(q))
    BY <1>5 DEF First
  <2> QED BY <2>1, <2>2, <2>3 DEF First
<1>8. First(q, n) \cap First(p, Len(p)) = {}
  <2> SUFFICES ASSUME NEW j \in 1..n, NEW k \in 1..Len(p), q[j] = p[k] PROVE FALSE
    BY DEF First
  <2>1. j \in 1..Len(q) /\ n + k \in 1..Len(q) /\ q[j] = q[n + k]
    <3>1. j \in 1..Len(q)
      BY <1>1
    <3>2. n + k \in 1..Len(q) /\ p[k] = q[n + k]
      BY <1>5
    <3> QED BY <3>1, <3>2
  <2>2. j = n + k
    BY <1>3, <2>1, Zenon
  <2> QED BY <1>1, <2>2
<1>9. ASSUME NEW i \in First(q, n) PROVE i \in 1..Len(r) /\ r[i].result \in 0..Block
  <2>1. i \in 1..Len(r) /\ r[i].result # Pending
    <3>1. PICK k \in 1..n : i = q[k]
      BY DEF First
    <3>2. k \in 1..Len(q)
      BY <1>1
    <3> QED BY <1>2, <3>1, <3>2
  <2> QED BY <1>1, <2>1, Result DEF Error, Pending
<1>10. \A i \in First(q, n) : i \in 1..Len(r) /\ r[i].result >= 0
  BY <1>9
<1>11. Fetched(r, p) = Fetched(r, q) \cup First(q, n) /\ Fetched(r, q) \cap First(q, n) = {}
  BY <1>7, <1>8, <1>10 DEF Fetched
<1> QED BY <1>1, <1>4, <1>6, <1>9, <1>11 DEF AfterFetch

-----------------------------------------------------------------------------
\* What MapThenSumSet computes, as a sum of weights.
ByteSum(r, S) ==
  (CHOOSE g : g = [s \in SUBSET S |-> IF s = {} THEN 0 ELSE r[Picked(s)].result + g[s \ {Picked(s)}]])[S]

\* The bytes of some requests are the sum of their results.
LEMMA BytesAreSum ==
  ASSUME NEW r \in Seq(Request), NEW S, S \subseteq 1..Len(r)
  PROVE  ByteSum(r, S) = Sum(Weights(r), S) /\ IsFiniteSet(S) /\ \A i \in S : Weights(r)[i] = r[i].result
<1> DEFINE w == Weights(r)
           Rec(g) == [s \in SUBSET S |-> IF s = {} THEN 0 ELSE r[Picked(s)].result + g[s \ {Picked(s)}]]
           h == CHOOSE g : g = Rec(g)
           k == CHOOSE g : Sums(w, S, g)
<1>1. \A i \in S : w[i] = r[i].result /\ w[i] \in Int
  BY Result DEF Weights
<1>2. IsFiniteSet(S)
  <2>1. Len(r) \in Nat /\ IsFiniteSet(1..Len(r))
    BY LenProperties, FS_Interval
  <2> QED BY <2>1, FS_Subset
<1>3. \A s \in SUBSET S : s # {} => Picked(s) \in S
  BY DEF Picked
<1> HIDE DEF w
<1>4. \A g : Sums(w, S, g) <=> g = Rec(g)
  <2> TAKE g
  <2>1. [s \in SUBSET S |-> IF s = {} THEN 0 ELSE w[Picked(s)] + g[s \ {Picked(s)}]] = Rec(g)
    <3>1. ASSUME NEW s \in SUBSET S
          PROVE  (IF s = {} THEN 0 ELSE w[Picked(s)] + g[s \ {Picked(s)}])
                   = IF s = {} THEN 0 ELSE r[Picked(s)].result + g[s \ {Picked(s)}]
      <4>1. s # {} => w[Picked(s)] = r[Picked(s)].result
        BY <1>1, <1>3
      <4> QED BY <4>1, Zenon
    <3> QED BY <3>1, Zenon
  <2> HIDE DEF Rec
  <2> QED BY <2>1 DEF Sums
<1>5. \E g : Sums(w, S, g)
  BY <1>1, <1>2, SumsExist
<1> HIDE DEF Rec
<1>6. Sums(w, S, h) /\ Sums(w, S, k)
  BY <1>4, <1>5, Zenon
<1>h. ByteSum(r, S) = h[S] /\ Sum(w, S) = k[S]
  BY DEF ByteSum, Sum, Rec
<1> HIDE DEF h, k
<1>7. h[S] = k[S]
  BY <1>2, <1>6, SumsUnique
<1> QED BY <1>1, <1>2, <1>7, <1>h DEF w

\* The smaller and the larger of two numbers.
LEMMA OfTwo ==
  ASSUME NEW a \in Int, NEW b \in Int
  PROVE  /\ Min({a, b}) = IF a <= b THEN a ELSE b
         /\ Max({a, b}) = IF a <= b THEN b ELSE a
<1>1. CASE a <= b
  <2>1. \A x : x \in {a, b} /\ (\A y \in {a, b} : x <= y) => x = a
    BY <1>1
  <2>2. a \in {a, b} /\ \A y \in {a, b} : a <= y
    BY <1>1
  <2>3. \A x : x \in {a, b} /\ (\A y \in {a, b} : x >= y) => x = b
    BY <1>1
  <2>4. b \in {a, b} /\ \A y \in {a, b} : b >= y
    BY <1>1
  <2> QED BY <1>1, <2>1, <2>2, <2>3, <2>4 DEF Min, Max
<1>2. CASE ~ a <= b
  <2>1. \A x : x \in {a, b} /\ (\A y \in {a, b} : x <= y) => x = b
    BY <1>2
  <2>2. b \in {a, b} /\ \A y \in {a, b} : b <= y
    BY <1>2
  <2>3. \A x : x \in {a, b} /\ (\A y \in {a, b} : x >= y) => x = a
    BY <1>2
  <2>4. a \in {a, b} /\ \A y \in {a, b} : a >= y
    BY <1>2
  <2> QED BY <1>2, <2>1, <2>2, <2>3, <2>4 DEF Min, Max
<1> QED BY <1>1, <1>2

-----------------------------------------------------------------------------
\* The inductive invariant: the ring, the two counters, and where the caller is.
Types ==
  /\ mode \in {"write", "read"} /\ pc \in {"loop", "complete", "closed", "failed"}
  /\ offset \in Nat /\ optimistic \in Nat /\ counted \in Nat /\ submitted \in Nat
  /\ moved \subseteq Nat

LInv ==
  /\ Types /\ QueueOf(requests, ring)
  /\ submitted = Cardinality(Flying(requests)) + Len(ring) /\ submitted <= Depth
  /\ counted = Sum(Weights(requests), Fetched(requests, ring))
  /\ pc = "closed" => submitted = 0

\* The requests in flight are finitely many.
LEMMA FlyingFinite ==
  ASSUME NEW r \in Seq(Request)
  PROVE  /\ IsFiniteSet(Flying(r)) /\ Cardinality(Flying(r)) \in Nat
         /\ \A q : Fetched(r, q) \subseteq 1..Len(r)
<1>1. Len(r) \in Nat /\ IsFiniteSet(1..Len(r)) /\ Flying(r) \subseteq 1..Len(r)
  BY LenProperties, FS_Interval DEF Flying
<1>2. IsFiniteSet(Flying(r))
  BY <1>1, FS_Subset
<1> QED BY <1>2, FS_CardinalityType DEF Fetched

\* The sum over requests that have not changed has not changed.
LEMMA SumKept ==
  ASSUME NEW r \in Seq(Request), NEW s \in Seq(Request), NEW S, S \subseteq 1..Len(r),
         S \subseteq 1..Len(s), \A i \in S : s[i] = r[i]
  PROVE  Sum(Weights(s), S) = Sum(Weights(r), S)
<1> DEFINE v == Weights(s)
           w == Weights(r)
<1>1. IsFiniteSet(S) /\ \A i \in S : v[i] = w[i]
  BY BytesAreSum
<1>2. \A i \in S : w[i] \in Int
  BY Result DEF Weights
<1> HIDE DEF v, w
<1>3. Sum(v, S) = Sum(w, S)
  BY <1>1, <1>2, SumFacts
<1> QED BY <1>3 DEF v, w

\* A wait that fetches events without an error: what is counted, what is left
\* in the ring, and what remains submitted.
LEMMA Waited ==
  ASSUME LInv, ring # <<>>, ~ BatchFails
  PROVE  \E n \in 1..Len(ring) :
           /\ n <= submitted /\ TakenOff = submitted - n
           /\ QueueOf(requests, RingLeft) /\ Len(RingLeft) = Len(ring) - n
           /\ BytesOf(Batch) \in 0..(n * Block)
           /\ Sum(Weights(requests), Fetched(requests, RingLeft)) = counted + BytesOf(Batch)
<1> DEFINE n == Min({Depth, Len(ring)})
<1>0. requests \in Seq(Request) /\ ring \in Seq(Nat) /\ Len(ring) \in Nat /\ Len(ring) # 0
  BY EmptySeq DEF LInv, QueueOf
<1>1. n \in 1..Len(ring) /\ n <= Depth
  <2>1. Depth \in Int /\ Len(ring) \in Int /\ Depth >= 1
    BY <1>0, LibAIOAssumption
  <2>2. n = IF Depth <= Len(ring) THEN Depth ELSE Len(ring)
    BY <2>1, OfTwo, Zenon
  <2> HIDE DEF n
  <2> QED BY <1>0, <2>1, <2>2
<1>2. Batch = First(ring, n) /\ RingLeft = SubSeq(ring, n + 1, Len(ring)) /\ TakenOff = submitted - n
  BY DEF Batch, First, RingLeft, TakenOff
<1> HIDE DEF n
<1> DEFINE B == First(ring, n)
           F == Fetched(requests, ring)
           w == Weights(requests)
<1>3. /\ QueueOf(requests, RingLeft) /\ Len(RingLeft) = Len(ring) - n
      /\ Fetched(requests, RingLeft) = F \cup B /\ F \cap B = {}
      /\ \A i \in B : i \in 1..Len(requests) /\ requests[i].result \in 0..Block
  <2>1. QueueOf(requests, ring) /\ n \in 0..Len(ring)
    BY <1>1 DEF LInv
  <2>2. \A i \in First(ring, n) : requests[i].result # Error
    BY <1>2 DEF BatchFails
  <2>3. AfterFetch(requests, ring, n, RingLeft)
    BY <1>2, <2>1, <2>2, Taken, Zenon
  <2> QED BY <2>3 DEF AfterFetch
<1>4. B \subseteq 1..Len(requests) /\ F \subseteq 1..Len(requests)
  BY <1>0, <1>3, FlyingFinite
<1>5. BytesOf(B) = ByteSum(requests, B)
  BY DEF BytesOf, ByteSum, MapThenSumSet, MapThenFoldSet, Picked
<1>6. /\ ByteSum(requests, B) = Sum(w, B) /\ IsFiniteSet(B) /\ IsFiniteSet(F)
      /\ \A i \in B : w[i] = requests[i].result
  BY <1>0, <1>4, BytesAreSum
<1>7. \A i \in B \cup F : w[i] \in Int
  BY <1>0, <1>4, Result DEF Weights
<1>8. Cardinality(B) \in Nat /\ Cardinality(B) <= n
  <2> DEFINE f == [k \in 1..n |-> ring[k]]
  <2>1. f \in Surjection(1..n, B)
    BY DEF First, Surjection
  <2>2. IsFiniteSet(1..n) /\ Cardinality(1..n) = n
    BY <1>1, FS_Interval
  <2>3. Cardinality(B) <= Cardinality(1..n)
    BY <2>1, <2>2, FS_Surjection
  <2> QED BY <1>6, <2>2, <2>3, FS_CardinalityType
<1> HIDE DEF B, F, w
<1>9. Sum(w, F \cup B) = Sum(w, F) + Sum(w, B)
  BY <1>3, <1>6, <1>7, SumOfUnion
<1>10. Sum(w, B) \in 0..(n * Block)
  <2>1. Sum(w, B) \in 0..(Cardinality(B) * Block)
    BY <1>3, <1>6, SumBound, LibAIOAssumption
  <2>2. Cardinality(B) * Block <= n * Block
    <3>1. n - Cardinality(B) \in Nat
      BY <1>1, <1>8
    <3>2. (n - Cardinality(B)) * Block \in Nat
      BY <3>1, LibAIOAssumption
    <3>3. (n - Cardinality(B)) * Block = n * Block - Cardinality(B) * Block
      BY <1>1, <1>8, LibAIOAssumption
    <3>4. n * Block \in Nat /\ Cardinality(B) * Block \in Nat
      BY <1>1, <1>8, LibAIOAssumption
    <3> QED BY <3>2, <3>3, <3>4
  <2>3. n * Block \in Nat /\ Cardinality(B) * Block \in Nat
    BY <1>1, <1>8, LibAIOAssumption
  <2> QED BY <2>1, <2>2, <2>3
<1>11. n <= submitted
  <2>1. submitted = Cardinality(Flying(requests)) + Len(ring)
    BY DEF LInv
  <2>2. Cardinality(Flying(requests)) \in Nat
    BY <1>0, FlyingFinite
  <2> QED BY <1>0, <1>1, <2>1, <2>2
<1>12. counted = Sum(w, F)
  BY DEF LInv, w, F
<1>13. BytesOf(Batch) = Sum(w, B)
  BY <1>2, <1>5, <1>6 DEF B
<1>14. Sum(w, Fetched(requests, RingLeft)) = counted + BytesOf(Batch)
  BY <1>3, <1>9, <1>12, <1>13
<1>15. BytesOf(Batch) \in 0..(n * Block)
  BY <1>10, <1>13
<1> QED BY <1>1, <1>2, <1>3, <1>11, <1>14, <1>15 DEF w

-----------------------------------------------------------------------------
\* What the kernel may answer is an error or a number of bytes of the block.
LEMMA ResultsTyped ==
  ASSUME NEW i, requests[i].at \in Nat PROVE Results(i) \subseteq {Error} \cup 0..Block
<1> USE LibAIOAssumption
<1> DEFINE left == Want - requests[i].at
           some == Min({Block, left})
<1>1. left \in Int
  OBVIOUS
<1> HIDE DEF left
<1>2. some \in Int /\ some <= Block
  BY <1>1, OfTwo
<1> HIDE DEF some
<1>3. Max({0, some}) \in 0..Block
  BY <1>2, OfTwo
<1>4. Results(i) = {Error} \cup IF mode = "write" THEN 1..Block ELSE {Max({0, some})}
  BY DEF Results, some, left
<1> QED BY <1>3, <1>4

\* A step of the kernel keeps the invariant.
LEMMA KernelKept ==
  ASSUME LInv, Kernel PROVE LInv' /\ Len(requests') = Len(requests)
<1>1. PICK i \in InFlight : \E result \in Results(i) :
        /\ requests' = [requests EXCEPT ![i].result = result]
        /\ ring' = Append(ring, i)
        /\ moved' = moved \cup (requests[i].at .. (requests[i].at + result - 1))
        /\ UNCHANGED <<pc, loopVars, submitted>>
  BY DEF Kernel
<1>2. PICK result \in Results(i) :
        /\ requests' = [requests EXCEPT ![i].result = result]
        /\ ring' = Append(ring, i)
        /\ moved' = moved \cup (requests[i].at .. (requests[i].at + result - 1))
        /\ UNCHANGED <<pc, loopVars, submitted>>
  BY <1>1
<1>3. requests \in Seq(Request) /\ QueueOf(requests, ring) /\ i \in Flying(requests)
      /\ i \in 1..Len(requests) /\ Len(ring) \in Nat
  BY LenProperties DEF LInv, QueueOf, InFlight, Flying
<1>4. requests[i] \in Request /\ requests[i].at \in Nat
  BY <1>3, Result
<1>5. result \in {Error} \cup 0..Block
  BY <1>4, ResultsTyped
<1>6. requests' = [requests EXCEPT ![i] = [at |-> requests[i].at, result |-> result]]
  <2>1. [requests[i] EXCEPT !.result = result] = [at |-> requests[i].at, result |-> result]
    BY <1>4, NewResult
  <2> QED BY <1>2, <2>1
<1>7. /\ QueueOf(requests', ring') /\ Len(requests') = Len(requests) /\ Len(ring') = Len(ring) + 1
      /\ Flying(requests') = Flying(requests) \ {i}
      /\ Fetched(requests', ring') = Fetched(requests, ring)
      /\ \A j \in 1..Len(requests) : j # i => requests'[j] = requests[j]
  <2>1. ring' = Append(ring, i)
    BY <1>2, Zenon
  <2>2. requests' = Gets(requests, i, result)
    BY <1>6 DEF Gets
  <2>3. AfterFinish(requests, ring, i, requests', ring')
    BY <1>3, <1>5, <2>1, <2>2, Finished
  <2> QED BY <2>3 DEF AfterFinish
<1>8. Cardinality(Flying(requests')) = Cardinality(Flying(requests)) - 1
      /\ Cardinality(Flying(requests)) \in Nat
  BY <1>3, <1>7, FlyingFinite, FS_RemoveElement
<1>9. Sum(Weights(requests'), Fetched(requests, ring)) = Sum(Weights(requests), Fetched(requests, ring))
  <2>1. requests' \in Seq(Request)
    BY <1>7 DEF QueueOf
  <2>2. Fetched(requests, ring) \subseteq 1..Len(requests) /\ i \notin Fetched(requests, ring)
    BY <1>3 DEF Fetched, Flying, Pending
  <2>3. \A j \in Fetched(requests, ring) : requests'[j] = requests[j]
    BY <1>7, <2>2
  <2> QED BY <1>3, <1>7, <2>1, <2>2, <2>3, SumKept
<1>10. moved' \subseteq Nat
  <2>1. moved \subseteq Nat
    BY DEF LInv, Types
  <2>2. requests[i].at .. (requests[i].at + result - 1) \subseteq Nat
    BY <1>4, <1>5, LibAIOAssumption DEF Error
  <2> QED BY <1>2, <2>1, <2>2
<1>11. UNCHANGED <<pc, mode, offset, optimistic, counted, submitted>>
  BY <1>2 DEF loopVars
<1>12. submitted' = Cardinality(Flying(requests')) + Len(ring')
  BY <1>3, <1>7, <1>8, <1>11 DEF LInv
<1>13. counted' = Sum(Weights(requests'), Fetched(requests', ring'))
  BY <1>7, <1>9, <1>11 DEF LInv
<1> QED BY <1>7, <1>10, <1>11, <1>12, <1>13 DEF LInv, Types

\* A request is added to what is submitted; ring and counter are as they are.
LEMMA SubmitKept ==
  ASSUME LInv, Submit, NEW q, QueueOf(requests, q)
  PROVE  /\ QueueOf(requests', q) /\ Len(requests') = Len(requests) + 1 /\ Len(requests) \in Nat
         /\ Cardinality(Flying(requests')) = Cardinality(Flying(requests)) + 1
         /\ Sum(Weights(requests'), Fetched(requests', q)) = Sum(Weights(requests), Fetched(requests, q))
<1>1. requests' = Append(requests, [at |-> offset, result |-> Pending]) /\ offset \in Nat
  BY DEF Submit, LInv, Types
<1>2. /\ QueueOf(requests', q) /\ Len(requests') = Len(requests) + 1 /\ Len(requests) \in Nat
      /\ Flying(requests') = Flying(requests) \cup {Len(requests) + 1}
      /\ Fetched(requests', q) = Fetched(requests, q)
      /\ \A j \in 1..Len(requests) : requests'[j] = requests[j]
  <2>1. requests' = Submission(requests, offset)
    BY <1>1 DEF Submission
  <2>2. AfterSubmit(requests, q, requests')
    BY <1>1, <2>1, Submitted, Zenon
  <2> QED BY <2>2 DEF AfterSubmit
<1>3. requests \in Seq(Request) /\ requests' \in Seq(Request)
  BY <1>2 DEF QueueOf
<1>4. Cardinality(Flying(requests')) = Cardinality(Flying(requests)) + 1
  <2>1. Len(requests) + 1 \notin Flying(requests)
    BY <1>2 DEF Flying
  <2>2. IsFiniteSet(Flying(requests))
    BY <1>3, FlyingFinite
  <2>3. Cardinality(Flying(requests) \cup {Len(requests) + 1}) = Cardinality(Flying(requests)) + 1
    BY <2>1, <2>2, FS_AddElement
  <2> QED BY <1>2, <2>3
<1>5. Fetched(requests, q) \subseteq 1..Len(requests) /\ Fetched(requests, q) \subseteq 1..Len(requests')
  BY <1>2, <1>3, FlyingFinite
<1>6. Sum(Weights(requests'), Fetched(requests, q)) = Sum(Weights(requests), Fetched(requests, q))
  <2>1. \A j \in Fetched(requests, q) : requests'[j] = requests[j]
    BY <1>2, <1>5
  <2> QED BY <1>3, <1>5, <2>1, SumKept
<1> QED BY <1>2, <1>4, <1>6

\* What an iteration of the loop does to the numbers: n events are fetched, and
\* b bytes are counted.
LEMMA IterateKept ==
  ASSUME LInv, Iterate
  PROVE  /\ LInv' /\ Len(requests') = Len(requests) + 1 /\ Len(requests) \in Nat
         /\ pc = "loop" /\ pc' = "loop"
         /\ \E n \in 0..submitted : /\ submitted' = submitted - n + 1
                                    /\ \E b \in 0..(n * Block) : counted' = counted + b
<1>0. /\ Submit /\ UNCHANGED <<mode, pc, moved>> /\ optimistic' = optimistic + Block /\ pc = "loop"
      /\ submitted = Cardinality(Flying(requests)) + Len(ring) /\ submitted \in Nat
      /\ Cardinality(Flying(requests)) \in Nat /\ Len(ring) \in Nat
      /\ counted \in Nat /\ offset \in Nat /\ optimistic' \in Nat
  <2>1. requests \in Seq(Request) /\ ring \in Seq(Nat)
    BY DEF LInv, QueueOf
  <2> QED BY <2>1, FlyingFinite, LenProperties, LibAIOAssumption DEF LInv, Types, Iterate
<1>1. CASE ~ QueueFull /\ submitted' = submitted + 1 /\ UNCHANGED <<offset, counted, ring>>
  <2>1. submitted' = submitted - 0 + 1 /\ 0 \in 0..submitted /\ counted' = counted + 0 /\ 0 \in 0..(0 * Block)
    BY <1>0, <1>1, LibAIOAssumption
  <2>2. /\ QueueOf(requests', ring) /\ Len(requests') = Len(requests) + 1 /\ Len(requests) \in Nat
        /\ Cardinality(Flying(requests')) = Cardinality(Flying(requests)) + 1
        /\ Sum(Weights(requests'), Fetched(requests', ring)) = Sum(Weights(requests), Fetched(requests, ring))
    BY <1>0, SubmitKept DEF LInv
  <2>3. submitted' <= Depth
    BY <1>0, <1>1, LibAIOAssumption DEF QueueFull
  <2>4. submitted' = Cardinality(Flying(requests')) + Len(ring')
    BY <1>0, <1>1, <2>2
  <2>5. counted' = Sum(Weights(requests'), Fetched(requests', ring')) /\ QueueOf(requests', ring')
    BY <1>1, <2>2 DEF LInv
  <2>6. LInv'
    BY <1>0, <1>1, <2>3, <2>4, <2>5 DEF LInv, Types
  <2> QED BY <1>0, <2>1, <2>2, <2>6
<1>2. CASE /\ QueueFull /\ ring # <<>> /\ ~ BatchFails
           /\ offset' = offset + BytesOf(Batch)
           /\ counted' = counted + BytesOf(Batch)
           /\ ring' = RingLeft
           /\ submitted' = TakenOff + 1
  <2>1. PICK n \in 1..Len(ring) :
          /\ n <= submitted /\ TakenOff = submitted - n
          /\ QueueOf(requests, RingLeft) /\ Len(RingLeft) = Len(ring) - n
          /\ BytesOf(Batch) \in 0..(n * Block)
          /\ Sum(Weights(requests), Fetched(requests, RingLeft)) = counted + BytesOf(Batch)
    BY <1>2, Waited
  <2>2. n \in 0..submitted /\ submitted' = submitted - n + 1 /\ n \in Nat /\ n >= 1
    BY <1>0, <1>2, <2>1
  <2>3. /\ QueueOf(requests', ring') /\ Len(requests') = Len(requests) + 1 /\ Len(requests) \in Nat
        /\ Cardinality(Flying(requests')) = Cardinality(Flying(requests)) + 1
        /\ Sum(Weights(requests'), Fetched(requests', ring')) = Sum(Weights(requests), Fetched(requests, RingLeft))
    BY <1>0, <1>2, <2>1, SubmitKept
  <2>4. submitted' <= Depth /\ submitted' \in Nat
    <3>1. submitted <= Depth /\ Depth \in Nat /\ submitted \in Nat
      BY <1>0, LibAIOAssumption DEF LInv
    <3> QED BY <2>2, <3>1
  <2>5. submitted' = Cardinality(Flying(requests')) + Len(ring')
    <3>1. Len(ring') = Len(ring) - n
      BY <1>2, <2>1
    <3>2. /\ submitted = Cardinality(Flying(requests)) + Len(ring)
          /\ Cardinality(Flying(requests)) \in Nat /\ Len(ring) \in Nat
      BY <1>0
    <3>3. submitted' = submitted - n + 1 /\ n \in Nat
          /\ Cardinality(Flying(requests')) = Cardinality(Flying(requests)) + 1
      BY <2>2, <2>3
    <3> QED BY <3>1, <3>2, <3>3
  <2>6. counted' = Sum(Weights(requests'), Fetched(requests', ring'))
    BY <1>2, <2>1, <2>3
  <2>7. counted' \in Nat /\ offset' \in Nat
    <3>1. BytesOf(Batch) \in Nat
      BY <2>1
    <3>2. counted' = counted + BytesOf(Batch) /\ offset' = offset + BytesOf(Batch)
      BY <1>2
    <3>3. counted \in Nat /\ offset \in Nat
      BY <1>0
    <3> QED BY <3>1, <3>2, <3>3
  <2>8. LInv'
    BY <1>0, <2>3, <2>4, <2>5, <2>6, <2>7 DEF LInv, Types
  <2>9. \E b \in 0..(n * Block) : counted' = counted + b
    BY <1>2, <2>1
  <2> QED BY <1>0, <2>2, <2>3, <2>8, <2>9
<1> QED BY <1>1, <1>2 DEF Iterate

\* The same of a wait of complete.
LEMMA DrainKept ==
  ASSUME LInv, Drain
  PROVE  /\ LInv' /\ UNCHANGED requests /\ Len(requests) \in Nat
         /\ pc = "complete" /\ pc' = "complete"
         /\ \E n \in 0..submitted : /\ submitted' = submitted - n
                                    /\ \E b \in 0..(n * Block) : counted' = counted + b
<1>0. /\ UNCHANGED <<mode, pc, offset, optimistic, requests, moved>> /\ pc = "complete"
      /\ ring # <<>> /\ ~ BatchFails
      /\ counted' = counted + BytesOf(Batch) /\ ring' = RingLeft /\ submitted' = TakenOff
  BY DEF Drain
<1>1. /\ submitted = Cardinality(Flying(requests)) + Len(ring) /\ submitted \in Nat
      /\ Cardinality(Flying(requests)) \in Nat /\ Len(ring) \in Nat /\ counted \in Nat
      /\ Len(requests) \in Nat
  <2>1. requests \in Seq(Request) /\ ring \in Seq(Nat)
    BY DEF LInv, QueueOf
  <2> QED BY <2>1, FlyingFinite, LenProperties DEF LInv, Types
<1>2. PICK n \in 1..Len(ring) :
        /\ n <= submitted /\ TakenOff = submitted - n
        /\ QueueOf(requests, RingLeft) /\ Len(RingLeft) = Len(ring) - n
        /\ BytesOf(Batch) \in 0..(n * Block)
        /\ Sum(Weights(requests), Fetched(requests, RingLeft)) = counted + BytesOf(Batch)
  BY <1>0, Waited
<1>3. n \in 0..submitted /\ submitted' = submitted - n /\ submitted' \in Nat /\ submitted' <= submitted
  BY <1>0, <1>1, <1>2
<1>4. submitted' <= Depth
  BY <1>1, <1>3, LibAIOAssumption DEF LInv
<1>5. submitted' = Cardinality(Flying(requests')) + Len(ring')
  BY <1>0, <1>1, <1>2, <1>3
<1>6. counted' = Sum(Weights(requests'), Fetched(requests', ring')) /\ QueueOf(requests', ring')
  BY <1>0, <1>2
<1>7. counted' \in Nat
  BY <1>0, <1>1, <1>2
<1>8. LInv'
  BY <1>0, <1>3, <1>4, <1>5, <1>6, <1>7 DEF LInv, Types
<1>9. \E b \in 0..(n * Block) : counted' = counted + b
  BY <1>0, <1>2
<1> QED BY <1>0, <1>1, <1>3, <1>8, <1>9

\* Every step keeps the invariant.
LEMMA LInvKept ==
  ASSUME LInv, [Next]_vars PROVE LInv'
<1>1. CASE Kernel
  BY <1>1, KernelKept
<1>2. CASE Iterate
  BY <1>2, IterateKept
<1>3. CASE Drain
  BY <1>3, DrainKept
<1>4. CASE Complete \/ Fail \/ UNCHANGED vars
  <2>1. UNCHANGED <<loopVars, submitted, requests, ring, moved>> /\ pc' \in {"complete", "failed", pc}
    BY <1>4 DEF Complete, Fail, vars
  <2>2. UNCHANGED <<mode, offset, optimistic, counted, submitted, requests, ring, moved>>
    BY <2>1 DEF loopVars
  <2> QED BY <2>1, <2>2 DEF LInv, Types
<1>5. CASE Close
  <2>1. UNCHANGED <<loopVars, submitted, requests, ring, moved>> /\ pc' = "closed" /\ submitted = 0
    BY <1>5 DEF Close, Drained
  <2>2. UNCHANGED <<mode, offset, optimistic, counted, submitted, requests, ring, moved>>
    BY <2>1 DEF loopVars
  <2> QED BY <2>1, <2>2 DEF LInv, Types
<1> QED BY <1>1, <1>2, <1>3, <1>4, <1>5 DEF Next, Caller

\* It holds before the first request.
LEMMA LInvInit == Init => LInv
<1> SUFFICES ASSUME Init PROVE LInv
  OBVIOUS
<1>1. requests = <<>> /\ ring = <<>> /\ Len(requests) = 0 /\ Len(ring) = 0
      /\ requests \in Seq(Request) /\ ring \in Seq(Nat)
  BY EmptySeq DEF Init
<1>2. QueueOf(requests, ring)
  BY <1>1 DEF QueueOf
<1>3. Flying(requests) = {} /\ Fetched(requests, ring) = {}
  BY <1>1 DEF Flying, Fetched
<1>4. Cardinality(Flying(requests)) = 0
  BY <1>3, FS_EmptySet
<1>5. Sum(Weights(requests), Fetched(requests, ring)) = 0
  BY <1>3, SumFacts, FS_EmptySet
<1> QED BY <1>1, <1>2, <1>4, <1>5, LibAIOAssumption DEF Init, LInv, Types

\* It holds in every reachable state.
LEMMA LInvAlways == Spec => []LInv
BY LInvInit, LInvKept, PTL DEF Spec

-----------------------------------------------------------------------------
\* The definitions of the two modules speak of the same requests.
LEMMA SameRequests ==
  ASSUME LInv
  PROVE  /\ DOMAIN requests = 1..Len(requests) /\ DOMAIN ring = 1..Len(ring)
         /\ requests \in Seq(Request) /\ ring \in Seq(Nat)
         /\ Len(requests) \in Nat /\ Len(ring) \in Nat
         /\ InFlight = Flying(requests)
<1>1. requests \in Seq(Request) /\ ring \in Seq(Nat)
  BY DEF LInv, QueueOf
<1>2. DOMAIN requests = 1..Len(requests) /\ DOMAIN ring = 1..Len(ring)
      /\ Len(requests) \in Nat /\ Len(ring) \in Nat
  BY <1>1, LenProperties
<1> QED BY <1>1, <1>2 DEF InFlight, Flying

\* submitted_cbs is the number of requests in flight or unfetched, and never
\* more than the depth, for every depth.
THEOREM OutstandingIsRight == Spec => []Outstanding
<1>1. LInv => Outstanding
  BY SameRequests DEF LInv, Outstanding
<1> QED BY <1>1, LInvAlways, PTL

\* When the buffer is freed and the file closed, nothing is in flight.
THEOREM BufferIsReleased == Spec => []BufferReleased
<1>1. LInv => BufferReleased
  <2> SUFFICES ASSUME LInv, pc = "closed" PROVE InFlight = {} /\ ring = <<>>
    BY DEF BufferReleased
  <2>1. Cardinality(Flying(requests)) + Len(ring) = 0
    BY DEF LInv
  <2>2. Cardinality(Flying(requests)) = 0 /\ Len(ring) = 0
    BY <2>1, SameRequests, FlyingFinite
  <2>3. Flying(requests) = {}
    BY <2>2, SameRequests, FlyingFinite, FS_EmptySet
  <2>4. ring = <<>>
    BY <2>2, SameRequests, EmptySeq
  <2> QED BY <2>3, <2>4, SameRequests
<1> QED BY <1>1, LInvAlways, PTL

\* Every finished request is counted once, when it is fetched.
THEOREM EachCountedOnce == Spec => []CountedOnce
<1>1. LInv => CountedOnce
  <2> SUFFICES ASSUME LInv PROVE CountedOnce
    OBVIOUS
  <2> DEFINE F == {i \in DOMAIN requests : requests[i].result >= 0} \ {ring[k] : k \in DOMAIN ring}
  <2>1. F = Fetched(requests, ring)
    BY SameRequests DEF Fetched, First
  <2>2. F \subseteq 1..Len(requests)
    BY <2>1, SameRequests, FlyingFinite
  <2> HIDE DEF F
  <2>3. BytesOf(F) = ByteSum(requests, F)
    BY DEF BytesOf, ByteSum, MapThenSumSet, MapThenFoldSet, Picked
  <2>4. ByteSum(requests, F) = Sum(Weights(requests), F)
    BY <2>2, SameRequests, BytesAreSum
  <2>5. counted = Sum(Weights(requests), Fetched(requests, ring))
    BY DEF LInv
  <2> QED BY <2>1, <2>3, <2>4, <2>5 DEF CountedOnce, F
<1> QED BY <1>1, LInvAlways, PTL

\* In every reachable state the variables have their types.
THEOREM TypeCorrect == Spec => []TypeOK
<1>1. LInv => TypeOK
  <2> SUFFICES ASSUME LInv PROVE TypeOK
    OBVIOUS
  <2>1. ring \in Seq(DOMAIN requests)
    <3>1. \A k \in 1..Len(ring) : ring[k] \in DOMAIN requests
      BY SameRequests DEF LInv, QueueOf
    <3>2. ring \in [1..Len(ring) -> Nat]
      BY SameRequests, LenProperties
    <3>3. ring \in [1..Len(ring) -> DOMAIN requests]
      BY <3>1, <3>2
    <3> QED BY <3>3, SameRequests, SeqDef
  <2>2. requests \in Seq([at : Nat, result : {Error, Pending} \cup 0..Block])
    BY SameRequests DEF Request
  <2> QED BY <2>1, <2>2 DEF LInv, Types, TypeOK
<1> QED BY <1>1, LInvAlways, PTL

-----------------------------------------------------------------------------
\* The first state keeps the contract.
LEMMA ContractInit == Init => Contract!Init
<1> SUFFICES ASSUME Init PROVE Contract!Init
  OBVIOUS
<1>1. pc = "loop" /\ Len(requests) = 0 /\ submitted = 0 /\ counted = 0
  BY EmptySeq DEF Init
<1> QED BY <1>1 DEF Contract!Init

\* Every step is one of the contract's, or changes nothing of it: a call that
\* waits answers what it fetches, complete answers in portions.
LEMMA ContractStep ==
  ASSUME LInv, [Next]_vars PROVE [Contract!Next]_(Contract!vars)
<1>0. /\ Len(requests) \in Nat /\ submitted \in Nat /\ submitted <= Depth /\ counted \in Nat
  BY SameRequests DEF LInv, Types
<1>1. CASE Kernel
  <2>1. UNCHANGED <<pc, submitted, counted>>
    BY <1>1 DEF Kernel, loopVars
  <2>2. Len(requests') = Len(requests)
    BY <1>1, KernelKept
  <2>3. UNCHANGED Contract!vars
    BY <2>1, <2>2 DEF Contract!vars
  <2> QED BY <2>3
<1>2. CASE Iterate
  <2>1. /\ LInv' /\ Len(requests') = Len(requests) + 1 /\ pc = "loop" /\ pc' = "loop"
        /\ \E n \in 0..submitted : /\ submitted' = submitted - n + 1
                                   /\ \E b \in 0..(n * Block) : counted' = counted + b
    BY <1>2, IterateKept
  <2>2. PICK n \in 0..submitted : /\ submitted' = submitted - n + 1
                                  /\ \E b \in 0..(n * Block) : counted' = counted + b
    BY <2>1
  <2>3. PICK b \in 0..(n * Block) : counted' = counted + b
    BY <2>2
  <2>4. submitted' <= Depth
    BY <2>1 DEF LInv
  <2>5. n * Block \in Nat /\ n \in Nat
    BY <1>0, LibAIOAssumption
  <2>6. counted' \in counted..(counted + n * Block)
    BY <1>0, <2>3, <2>5
  <2>7. /\ Len(requests') - submitted' = (Len(requests) - submitted) + n
        /\ n \in 0..(Len(requests') - (Len(requests) - submitted))
        /\ Len(requests') - (Len(requests') - submitted') <= Depth
    <3>1. /\ Len(requests') \in Nat /\ submitted' \in Nat /\ n <= submitted
          /\ Len(requests') = Len(requests) + 1 /\ submitted' = submitted - n + 1
      BY <1>0, <2>1, <2>2, <2>5
    <3>2. Len(requests') - submitted' = (Len(requests) - submitted) + n
      BY <1>0, <2>5, <3>1
    <3>3. n \in 0..(Len(requests') - (Len(requests) - submitted))
      BY <1>0, <2>5, <3>1
    <3>4. Len(requests') - (Len(requests') - submitted') = submitted'
      BY <3>1
    <3> QED BY <2>4, <3>2, <3>3, <3>4
  <2>8. Contract!Answer(n)
    BY <2>6, <2>7 DEF Contract!Answer
  <2>9. Contract!Call
    BY <2>1, <2>7, <2>8 DEF Contract!Call
  <2> QED BY <2>9 DEF Contract!Next
<1>3. CASE Drain
  <2>1. /\ UNCHANGED requests /\ pc = "complete" /\ pc' = "complete"
        /\ \E n \in 0..submitted : /\ submitted' = submitted - n
                                   /\ \E b \in 0..(n * Block) : counted' = counted + b
    BY <1>3, DrainKept
  <2>2. PICK n \in 0..submitted : /\ submitted' = submitted - n
                                  /\ \E b \in 0..(n * Block) : counted' = counted + b
    BY <2>1
  <2>3. PICK b \in 0..(n * Block) : counted' = counted + b
    BY <2>2
  <2>4. n * Block \in Nat /\ n \in Nat
    BY <1>0, LibAIOAssumption
  <2>5. counted' \in counted..(counted + n * Block)
    BY <1>0, <2>3, <2>4
  <2>6. /\ Len(requests') - submitted' = (Len(requests) - submitted) + n
        /\ n \in 0..(Len(requests) - (Len(requests) - submitted))
    BY <1>0, <2>1, <2>2, <2>4
  <2>7. Contract!Answer(n)
    BY <2>5, <2>6 DEF Contract!Answer
  <2>8. Contract!Complete
    BY <2>1, <2>6, <2>7 DEF Contract!Complete
  <2> QED BY <2>8 DEF Contract!Next
<1>4. CASE Complete
  <2>1. UNCHANGED <<submitted, requests, counted>> /\ pc = "loop" /\ pc' = "complete"
    BY <1>4 DEF Complete, loopVars
  <2>2. UNCHANGED Contract!vars
    BY <2>1 DEF Contract!vars
  <2> QED BY <2>2
<1>5. CASE Close
  <2>1. UNCHANGED <<submitted, requests, counted>> /\ pc = "complete" /\ pc' = "closed" /\ submitted = 0
    BY <1>5 DEF Close, Drained, loopVars
  <2>2. 0 \in 0..(Len(requests) - (Len(requests) - submitted)) /\ counted' \in counted..(counted + 0 * Block)
    BY <1>0, <2>1, LibAIOAssumption
  <2>3. Contract!Answer(0)
    BY <1>0, <2>1, <2>2 DEF Contract!Answer
  <2>4. Contract!Complete
    BY <1>0, <2>1, <2>2, <2>3 DEF Contract!Complete
  <2> QED BY <2>4 DEF Contract!Next
<1>6. CASE Fail
  <2>1. UNCHANGED <<submitted, requests, counted>> /\ pc \in {"loop", "complete"} /\ pc' = "failed"
    BY <1>6 DEF Fail, loopVars
  <2>2. Contract!Fail
    BY <2>1 DEF Contract!Fail
  <2> QED BY <2>2 DEF Contract!Next
<1>7. CASE UNCHANGED vars
  <2>1. UNCHANGED Contract!vars
    BY <1>7 DEF vars, loopVars, Contract!vars
  <2> QED BY <2>1
<1> QED BY <1>1, <1>2, <1>3, <1>4, <1>5, <1>6, <1>7 DEF Next, Caller

\* The libaio engine implements the contract of the engines, for every depth,
\* block size and file size.
THEOREM Implements == Spec => KeepsContract
<1>1. LInv /\ [Next]_vars => [Contract!Next]_(Contract!vars)
  BY ContractStep
<1> QED BY <1>1, ContractInit, LInvAlways, PTL DEF Spec, KeepsContract, Contract!Spec
=============================================================================
