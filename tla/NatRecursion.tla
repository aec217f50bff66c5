---------------------------- MODULE NatRecursion ----------------------------
(***************************************************************************)
(* Induction and recursion over the natural numbers, stated with sets and  *)
(* functions instead of operators: what has to be proved of every number   *)
(* is put into a set, and a recursion step is a function.                  *)
(***************************************************************************)
EXTENDS Integers, FiniteSetTheorems, TLAPS

\* A set of natural numbers has a least element: the intervals that end at its
\* elements are finite sets, on which inclusion is well-founded.
LEMMA Least ==
  ASSUME NEW S, S \subseteq Nat, S # {}
  PROVE  \E m \in S : \A k \in S : m <= k
<1> DEFINE Below == {0..k : k \in S}
<1>1. Below \subseteq FiniteSubsetsOf(Nat) /\ Below # {}
  <2>1. \A k \in S : 0..k \in SUBSET Nat /\ IsFiniteSet(0..k)
    BY FS_Interval
  <2> QED BY <2>1 DEF FiniteSubsetsOf
<1>2. PICK x \in Below : \A y \in Below : <<y, x>> \notin StrictSubsetOrdering(Nat)
  <2> HIDE DEF Below
  <2> QED BY <1>1, FS_StrictSubsetOrderingWellFounded, WFMin
<1>3. PICK m \in S : x = 0..m
  OBVIOUS
<1>4. ASSUME NEW k \in S, k < m PROVE FALSE
  <2>1. 0..k \subseteq 0..m /\ m \in 0..m /\ m \notin 0..k
    BY <1>4
  <2>2. <<0..k, 0..m>> \in StrictSubsetOrdering(Nat)
    BY <2>1 DEF StrictSubsetOrdering
  <2> QED BY <1>2, <1>3, <2>2
<1> QED BY <1>4

\* A set that holds 0 and the successor of every number in it holds them all.
LEMMA Induction ==
  ASSUME NEW S, 0 \in S, \A n \in Nat : n \in S => n + 1 \in S
  PROVE  Nat \subseteq S
<1>1. SUFFICES ASSUME Nat \ S # {} PROVE FALSE
  OBVIOUS
<1>2. PICK m \in Nat \ S : \A k \in Nat \ S : m <= k
  BY <1>1, Least
<1>3. m # 0 /\ m - 1 \in Nat
  BY <1>2
<1>4. m - 1 \in S
  BY <1>2, <1>3
<1>5. (m - 1) + 1 \in S
  BY <1>3, <1>4
<1> QED BY <1>2, <1>5

\* Among n numbers there is a greatest one.
LEMMA GreatestExists ==
  ASSUME NEW n \in Nat, NEW d \in [1..(n + 1) -> Int]
  PROVE  \E m \in 1..(n + 1) : \A k \in 1..(n + 1) : d[k] <= d[m]
<1> DEFINE Q(k) == \E m \in 1..(k + 1) : \A i \in 1..(k + 1) : d[i] <= d[m]
           S == {k \in Nat : k <= n => Q(k)}
<1>1. 0 \in S
  <2>1. d[1] \in Int /\ 1 \in 1..(0 + 1) /\ \A i \in 1..(0 + 1) : i = 1
    OBVIOUS
  <2>2. Q(0)
    BY <2>1
  <2> QED BY <2>2
<1>2. ASSUME NEW k \in Nat, k \in S PROVE k + 1 \in S
  <2> SUFFICES ASSUME k + 1 <= n PROVE Q(k + 1)
    OBVIOUS
  <2>1. PICK m \in 1..(k + 1) : \A i \in 1..(k + 1) : d[i] <= d[m]
    BY <1>2
  <2> DEFINE l == (k + 1) + 1
  <2>2. \A i \in 1..l : i = l \/ i \in 1..(k + 1)
    OBVIOUS
  <2>3. \A i \in 1..l : d[i] \in Int
    OBVIOUS
  <2>4. m \in 1..l /\ l \in 1..l
    OBVIOUS
  <2> HIDE DEF l
  <2>5. CASE d[l] <= d[m]
    <3>1. \A i \in 1..l : d[i] <= d[m]
      BY <2>1, <2>2, <2>5
    <3> QED BY <2>4, <3>1 DEF l
  <2>6. CASE ~ d[l] <= d[m]
    <3>1. d[m] <= d[l] /\ d[l] <= d[l]
      BY <2>3, <2>4, <2>6
    <3>2. \A i \in 1..l : d[i] <= d[l]
      BY <2>1, <2>2, <2>3, <2>4, <3>1
    <3> QED BY <2>4, <3>2 DEF l
  <2> QED BY <2>5, <2>6
<1>3. Nat \subseteq S
  <2> HIDE DEF S
  <2> QED BY <1>1, <1>2, Induction
<1>4. n \in S
  <2> HIDE DEF S
  <2> QED BY <1>3
<1> QED BY <1>4

\* A function on 0..n that starts with first and goes on by step.
Runs(V, first, step, n) ==
  {f \in [0..n -> V] : f[0] = first /\ \A i \in 0..(n - 1) : f[i + 1] = step[f[i]]}

\* There is one for every n.
LEMMA RunExists ==
  ASSUME NEW V, NEW first \in V, NEW step \in [V -> V], NEW n \in Nat
  PROVE  Runs(V, first, step, n) # {}
<1> DEFINE S == {k \in Nat : Runs(V, first, step, k) # {}}
<1>1. 0 \in S
  <2>1. [i \in 0..0 |-> first] \in Runs(V, first, step, 0)
    BY DEF Runs
  <2> QED BY <2>1
<1>2. ASSUME NEW k \in Nat, k \in S PROVE k + 1 \in S
  <2>1. PICK f \in [0..k -> V] : f[0] = first /\ \A i \in 0..(k - 1) : f[i + 1] = step[f[i]]
    BY <1>2 DEF Runs
  <2> DEFINE g == [i \in 0..(k + 1) |-> IF i = k + 1 THEN step[f[k]] ELSE f[i]]
  <2>2. g \in [0..(k + 1) -> V] /\ g[0] = first
    BY <2>1
  <2>3. ASSUME NEW i \in 0..k PROVE g[i + 1] = step[g[i]]
    <3>1. CASE i = k
      BY <3>1
    <3>2. CASE i \in 0..(k - 1)
      BY <2>1, <3>2
    <3> QED BY <3>1, <3>2
  <2>4. g \in Runs(V, first, step, k + 1)
    <3> HIDE DEF g
    <3>1. (k + 1) - 1 = k
      OBVIOUS
    <3> QED BY <2>2, <2>3, <3>1 DEF Runs
  <2> QED BY <2>4
<1>3. Nat \subseteq S
  <2> HIDE DEF S
  <2> QED BY <1>1, <1>2, Induction
<1> QED BY <1>3

\* Two of them agree wherever both are defined.
LEMMA RunsAgree ==
  ASSUME NEW V, NEW first \in V, NEW step \in [V -> V], NEW n \in Nat, NEW m \in Nat, n <= m,
         NEW f \in Runs(V, first, step, n), NEW g \in Runs(V, first, step, m)
  PROVE  f[n] = g[n]
<1> DEFINE S == {k \in Nat : k <= n => f[k] = g[k]}
<1>1. 0 \in S
  BY DEF Runs
<1>2. ASSUME NEW k \in Nat, k \in S PROVE k + 1 \in S
  <2>1. CASE k + 1 <= n
    <3>1. k \in 0..(n - 1) /\ k \in 0..(m - 1) /\ f[k] = g[k]
      BY <1>2, <2>1
    <3>2. f[k + 1] = step[f[k]] /\ g[k + 1] = step[g[k]]
      BY <3>1 DEF Runs
    <3> QED BY <3>1, <3>2
  <2> QED BY <2>1
<1>3. Nat \subseteq S
  <2> HIDE DEF S
  <2> QED BY <1>1, <1>2, Induction
<1> QED BY <1>3

\* A recursion over the natural numbers defines a function.
LEMMA RecursiveFunction ==
  ASSUME NEW V, NEW first \in V, NEW step \in [V -> V]
  PROVE  \E f \in [Nat -> V] : f[0] = first /\ \A n \in Nat : f[n + 1] = step[f[n]]
<1> DEFINE run == [n \in Nat |-> CHOOSE f \in Runs(V, first, step, n) : TRUE]
           f == [n \in Nat |-> run[n][n]]
<1>1. \A n \in Nat : run[n] \in Runs(V, first, step, n)
  BY RunExists
<1> HIDE DEF run
<1>2. ASSUME NEW n \in Nat PROVE run[n][n] \in V /\ run[n][0] = first
  BY <1>1 DEF Runs
<1>3. ASSUME NEW n \in Nat PROVE f[n + 1] = step[f[n]]
  <2>1. n \in 0..((n + 1) - 1)
    OBVIOUS
  <2>2. run[n + 1][n + 1] = step[run[n + 1][n]]
    BY <1>1, <2>1 DEF Runs
  <2>3. run[n][n] = run[n + 1][n]
    BY <1>1, RunsAgree
  <2> QED BY <2>2, <2>3
<1>4. f \in [Nat -> V] /\ f[0] = first
  BY <1>2
<1> QED BY <1>3, <1>4

\* The same as a formula, for a set V that is not a name.
LEMMA RecursiveFunctions ==
  \A V : \A first \in V : \A step \in [V -> V] :
    \E f \in [Nat -> V] : f[0] = first /\ \A n \in Nat : f[n + 1] = step[f[n]]
BY RecursiveFunction

\* The same for a step that also depends on how many there were before.
LEMMA IndexedRecursion ==
  \A V : \A first \in V : \A step \in [Nat \X V -> V] :
    \E f \in [Nat -> V] : f[0] = first /\ \A n \in Nat : f[n + 1] = step[<<n, f[n]>>]
<1> SUFFICES ASSUME NEW V, NEW first \in V, NEW step \in [Nat \X V -> V]
             PROVE  \E f \in [Nat -> V] :
                      f[0] = first /\ \A n \in Nat : f[n + 1] = step[<<n, f[n]>>]
  OBVIOUS
<1> DEFINE P(U, a, r) == \E g \in [Nat -> U] : g[0] = a /\ \A n \in Nat : g[n + 1] = r[g[n]]
<1>1. \A U : \A a \in U : \A r \in [U -> U] : P(U, a, r)
  BY RecursiveFunctions, Zenon
<1> HIDE DEF P
<1> DEFINE W == Nat \X V
           next == [w \in W |-> <<w[1] + 1, step[w]>>]
<1>2. <<0, first>> \in W /\ next \in [W -> W]
  OBVIOUS
<1>3. \A w \in W : /\ w[1] \in Nat /\ w[2] \in V /\ w = <<w[1], w[2]>>
                    /\ next[w] = <<w[1] + 1, step[w]>>
  OBVIOUS
<1> HIDE DEF W, next
<1>4. P(W, <<0, first>>, next)
  BY <1>1, <1>2, Zenon
<1>5. PICK g \in [Nat -> W] : g[0] = <<0, first>> /\ \A n \in Nat : g[n + 1] = next[g[n]]
  BY <1>4 DEF P
<1>6. \A n \in Nat : /\ g[n][1] \in Nat /\ g[n][2] \in V /\ g[n] = <<g[n][1], g[n][2]>>
                      /\ g[n + 1] = <<g[n][1] + 1, step[g[n]]>>
  BY <1>3, <1>5
<1>7. \A n \in Nat : g[n + 1][1] = g[n][1] + 1 /\ g[n + 1][2] = step[g[n]]
  BY <1>6
<1> DEFINE S == {n \in Nat : g[n][1] = n}
<1>8. Nat \subseteq S
  <2>1. 0 \in S  BY <1>5
  <2>2. \A n \in Nat : n \in S => n + 1 \in S  BY <1>7
  <2> HIDE DEF S
  <2> QED  BY <2>1, <2>2, Induction
<1> DEFINE f == [n \in Nat |-> g[n][2]]
<1>9. f \in [Nat -> V] /\ f[0] = first
  BY <1>5, <1>6
<1>10. ASSUME NEW n \in Nat  PROVE f[n + 1] = step[<<n, f[n]>>]
  <2>1. g[n] = <<n, g[n][2]>>  BY <1>6, <1>8
  <2>2. n + 1 \in Nat /\ f[n + 1] = g[n + 1][2] /\ f[n] = g[n][2]  OBVIOUS
  <2> HIDE DEF f
  <2> QED  BY <1>7, <2>1, <2>2
<1> QED  BY <1>9, <1>10

-----------------------------------------------------------------------------
\* A set of subsets of a finite set that holds the empty one, and with each one
\* those that are larger by an element, holds the whole set.
LEMMA FiniteInduction ==
  ASSUME NEW S, IsFiniteSet(S), NEW P, {} \in P,
         \A s \in SUBSET S, x \in S : s \in P /\ x \notin s => s \cup {x} \in P
  PROVE  S \in P
<1> DEFINE K == {n \in Nat : \A s \in SUBSET S : Cardinality(s) = n => s \in P}
<1>0. \A s \in SUBSET S : IsFiniteSet(s)
  BY FS_Subset
<1>1. 0 \in K
  <2>1. \A s \in SUBSET S : Cardinality(s) = 0 => s = {}
    BY <1>0, FS_EmptySet
  <2> QED BY <2>1
<1>2. ASSUME NEW n \in Nat, n \in K PROVE n + 1 \in K
  <2> SUFFICES ASSUME NEW s \in SUBSET S, Cardinality(s) = n + 1 PROVE s \in P
    OBVIOUS
  <2>1. s # {}
    BY FS_EmptySet
  <2>2. PICK x \in s : TRUE
    BY <2>1
  <2> DEFINE t == s \ {x}
  <2>3. t \in SUBSET S /\ Cardinality(t) = n
    <3>1. Cardinality(t) = Cardinality(s) - 1
      BY <1>0, <2>2, FS_RemoveElement
    <3> QED BY <3>1
  <2>4. t \in P
    BY <1>2, <2>3
  <2>5. t \cup {x} \in P
    BY <2>2, <2>3, <2>4
  <2>6. t \cup {x} = s
    BY <2>2
  <2> QED BY <2>5, <2>6
<1>3. Nat \subseteq K
  <2> HIDE DEF K
  <2> QED BY <1>1, <1>2, Induction
<1>4. Cardinality(S) \in Nat
  BY FS_CardinalityType
<1>5. Cardinality(S) \in K
  BY <1>3, <1>4
<1> QED BY <1>5

-----------------------------------------------------------------------------
\* The sum of the weights of the elements of a finite set, one after the other:
\* what MapThenSumSet of the community modules does.
Picked(s) == CHOOSE x \in s : TRUE

Sums(w, S, g) ==
  g = [s \in SUBSET S |-> IF s = {} THEN 0 ELSE w[Picked(s)] + g[s \ {Picked(s)}]]

Sum(w, S) == (CHOOSE g : Sums(w, S, g))[S]

\* The recursion over the subsets is well-founded.
LEMMA SumsExist ==
  ASSUME NEW S, IsFiniteSet(S), NEW w, \A x \in S : w[x] \in Int
  PROVE  \E g \in [SUBSET S -> Int] : Sums(w, S, g)
<1> DEFINE Small(n) == {s \in SUBSET S : Cardinality(s) <= n}
           Good(n, g) == \A s \in Small(n) : g[s] = IF s = {} THEN 0 ELSE w[Picked(s)] + g[s \ {Picked(s)}]
           K == {n \in Nat : \E g \in [Small(n) -> Int] : Good(n, g)}
<1>0. \A s \in SUBSET S : IsFiniteSet(s) /\ Cardinality(s) \in Nat
  BY FS_Subset, FS_CardinalityType
<1>a. \A s \in SUBSET S : s # {} => Picked(s) \in s
  BY DEF Picked
<1>1. 0 \in K
  <2>1. \A s \in Small(0) : s = {}
    BY <1>0, FS_EmptySet
  <2>2. Good(0, [s \in Small(0) |-> 0]) /\ [s \in Small(0) |-> 0] \in [Small(0) -> Int]
    BY <2>1
  <2> QED BY <2>2
<1>2. ASSUME NEW n \in Nat, n \in K PROVE n + 1 \in K
  <2>1. PICK g \in [Small(n) -> Int] : Good(n, g)
    BY <1>2
  <2> DEFINE h == [s \in Small(n + 1) |-> IF s = {} THEN 0 ELSE w[Picked(s)] + g[s \ {Picked(s)}]]
  <2>2. ASSUME NEW s \in Small(n + 1), s # {} PROVE s \ {Picked(s)} \in Small(n) /\ Picked(s) \in S
    <3>1. Picked(s) \in s
      BY <1>a, <2>2
    <3>2. Cardinality(s \ {Picked(s)}) = Cardinality(s) - 1
      BY <1>0, <3>1, FS_RemoveElement
    <3>3. Cardinality(s) \in Nat /\ Cardinality(s) <= n + 1
      BY <1>0
    <3> QED BY <3>1, <3>2, <3>3
  <2>3. \A s \in Small(n) : s \in Small(n + 1)
    <3>1. \A s \in SUBSET S : Cardinality(s) <= n => Cardinality(s) <= n + 1
      BY <1>0
    <3> QED BY <3>1
  <2>4. h \in [Small(n + 1) -> Int]
    <3> SUFFICES ASSUME NEW s \in Small(n + 1)
                 PROVE  (IF s = {} THEN 0 ELSE w[Picked(s)] + g[s \ {Picked(s)}]) \in Int
      BY Zenon
    <3>1. CASE s = {}
      BY <3>1
    <3>2. CASE s # {}
      <4> HIDE DEF Small
      <4>1. g[s \ {Picked(s)}] \in Int /\ w[Picked(s)] \in Int
        BY <2>2, <3>2
      <4> QED BY <3>2, <4>1
    <3> QED BY <3>1, <3>2
  <2>5. \A s \in Small(n) : h[s] = g[s]
    BY <2>1, <2>3
  <2>6. Good(n + 1, h)
    <3> SUFFICES ASSUME NEW s \in Small(n + 1)
                 PROVE  h[s] = IF s = {} THEN 0 ELSE w[Picked(s)] + h[s \ {Picked(s)}]
      OBVIOUS
    <3>1. h[s] = IF s = {} THEN 0 ELSE w[Picked(s)] + g[s \ {Picked(s)}]
      BY Zenon
    <3> HIDE DEF h, Small
    <3>2. CASE s # {}
      BY <2>2, <2>5, <3>1, <3>2
    <3> QED BY <3>1, <3>2
  <2> HIDE DEF h, Good, Small
  <2> QED BY <2>4, <2>6
<1>3. Nat \subseteq K
  <2> HIDE DEF K
  <2> QED BY <1>1, <1>2, Induction
<1>4. PICK g \in [Small(Cardinality(S)) -> Int] : Good(Cardinality(S), g)
  BY <1>0, <1>3
<1>5. Small(Cardinality(S)) = SUBSET S
  BY FS_Subset
<1>6. g \in [SUBSET S -> Int]
  BY <1>4, <1>5
<1>7. \A s \in SUBSET S : g[s] = IF s = {} THEN 0 ELSE w[Picked(s)] + g[s \ {Picked(s)}]
  BY <1>4, <1>5
<1> HIDE DEF Good, Small
<1>8. Sums(w, S, g)
  BY <1>6, <1>7 DEF Sums
<1> QED BY <1>6, <1>8

\* Element by element: the one chosen is added first; any one may be.
ChosenFirst(w, S, g) ==
  \A s \in SUBSET S : s # {} => Picked(s) \in s /\ g[s] = w[Picked(s)] + g[s \ {Picked(s)}]
AnyFirst(w, S, g) ==
  \A s \in SUBSET S : \A y \in s : g[s] = w[y] + g[s \ {y}]

\* What is known of the sums, element by element.
LEMMA SumsEquation ==
  ASSUME NEW S, NEW w, NEW g, Sums(w, S, g)
  PROVE  g[{}] = 0 /\ ChosenFirst(w, S, g)
<1>1. ASSUME NEW s \in SUBSET S PROVE g[s] = IF s = {} THEN 0 ELSE w[Picked(s)] + g[s \ {Picked(s)}]
  BY DEF Sums
<1>2. \A s \in SUBSET S : s # {} => Picked(s) \in s
  BY DEF Picked
<1> QED BY <1>1, <1>2 DEF ChosenFirst

\* The sums of the same weights are the same, in whatever larger set.
LEMMA SumsAgree ==
  ASSUME NEW S, IsFiniteSet(S), NEW T, S \subseteq T, NEW w, NEW v, \A x \in S : w[x] = v[x],
         NEW g, Sums(w, S, g), NEW h, Sums(v, T, h)
  PROVE  \A s \in SUBSET S : g[s] = h[s]
<1> DEFINE K == {n \in Nat : \A s \in SUBSET S : Cardinality(s) = n => g[s] = h[s]}
<1>0. \A s \in SUBSET S : IsFiniteSet(s) /\ Cardinality(s) \in Nat
  BY FS_Subset, FS_CardinalityType
<1>1. 0 \in K
  <2>1. \A s \in SUBSET S : Cardinality(s) = 0 => s = {}
    BY <1>0, FS_EmptySet
  <2> QED BY <2>1, SumsEquation
<1>2. ASSUME NEW n \in Nat, n \in K PROVE n + 1 \in K
  <2> SUFFICES ASSUME NEW s \in SUBSET S, Cardinality(s) = n + 1 PROVE g[s] = h[s]
    OBVIOUS
  <2>1. s # {} /\ s \in SUBSET T
    BY FS_EmptySet
  <2> DEFINE t == s \ {Picked(s)}
  <2>2. Picked(s) \in s /\ g[s] = w[Picked(s)] + g[t] /\ h[s] = v[Picked(s)] + h[t]
    <3>1. ChosenFirst(w, S, g) /\ ChosenFirst(v, T, h)
      BY SumsEquation
    <3> QED BY <2>1, <3>1 DEF ChosenFirst
  <2>3. t \in SUBSET S /\ Cardinality(t) = n
    <3>1. Cardinality(t) = Cardinality(s) - 1
      BY <1>0, <2>2, FS_RemoveElement
    <3> QED BY <3>1
  <2>4. g[t] = h[t]
    BY <1>2, <2>3
  <2>5. w[Picked(s)] = v[Picked(s)]
    BY <2>2
  <2> QED BY <2>2, <2>4, <2>5
<1>3. Nat \subseteq K
  <2> HIDE DEF K
  <2> QED BY <1>1, <1>2, Induction
<1> QED BY <1>0, <1>3

\* There is one sum.
LEMMA SumsUnique ==
  ASSUME NEW S, IsFiniteSet(S), NEW w, NEW g, Sums(w, S, g), NEW h, Sums(w, S, h)
  PROVE  g[S] = h[S]
<1>1. \A s \in SUBSET S : g[s] = h[s]
  BY SumsAgree
<1> QED BY <1>1

\* Any element may be the first that is added.
LEMMA SumsExchange ==
  ASSUME NEW S, IsFiniteSet(S), NEW w, \A x \in S : w[x] \in Int,
         NEW g \in [SUBSET S -> Int], Sums(w, S, g)
  PROVE  AnyFirst(w, S, g)
<1> DEFINE K == {n \in Nat : \A s \in SUBSET S : Cardinality(s) = n =>
                               \A y \in s : g[s] = w[y] + g[s \ {y}]}
<1>0. \A s \in SUBSET S : IsFiniteSet(s) /\ Cardinality(s) \in Nat
  BY FS_Subset, FS_CardinalityType
<1>1. 0 \in K
  <2>1. \A s \in SUBSET S : Cardinality(s) = 0 => s = {}
    BY <1>0, FS_EmptySet
  <2> QED BY <2>1
<1>2. ASSUME NEW n \in Nat, n \in K PROVE n + 1 \in K
  <2> SUFFICES ASSUME NEW s \in SUBSET S, Cardinality(s) = n + 1, NEW y \in s
               PROVE  g[s] = w[y] + g[s \ {y}]
    OBVIOUS
  <2> DEFINE x == Picked(s)
  <2>1. s # {}
    OBVIOUS
  <2>2. x \in s /\ g[s] = w[x] + g[s \ {x}]
    <3>1. ChosenFirst(w, S, g)
      BY SumsEquation
    <3> QED BY <2>1, <3>1 DEF ChosenFirst
  <2> HIDE DEF x
  <2>3. CASE x = y
    BY <2>2, <2>3
  <2>4. CASE x # y
    <3>1. s \ {x} \in SUBSET S /\ s \ {y} \in SUBSET S /\ (s \ {x}) \ {y} \in SUBSET S
          /\ (s \ {y}) \ {x} = (s \ {x}) \ {y} /\ y \in s \ {x} /\ x \in s \ {y}
      BY <2>2, <2>4
    <3>2. Cardinality(s \ {x}) = n /\ Cardinality(s \ {y}) = n
      <4>1. Cardinality(s \ {x}) = Cardinality(s) - 1 /\ Cardinality(s \ {y}) = Cardinality(s) - 1
        BY <1>0, <2>2, FS_RemoveElement
      <4> QED BY <4>1
    <3>3. g[s \ {x}] = w[y] + g[(s \ {x}) \ {y}]
      BY <1>2, <3>1, <3>2
    <3>4. g[s \ {y}] = w[x] + g[(s \ {x}) \ {y}]
      <4>1. g[s \ {y}] = w[x] + g[(s \ {y}) \ {x}]
        BY <1>2, <3>1, <3>2
      <4> QED BY <3>1, <4>1
    <3>5. w[x] \in Int /\ w[y] \in Int /\ g[(s \ {x}) \ {y}] \in Int
      BY <2>2, <3>1
    <3> QED BY <2>2, <3>3, <3>4, <3>5
  <2> QED BY <2>3, <2>4
<1>3. Nat \subseteq K
  <2> HIDE DEF K
  <2> QED BY <1>1, <1>2, Induction
<1> QED BY <1>0, <1>3 DEF AnyFirst

\* So a sum over a finite set is a number, that over no elements is 0, an
\* element adds its weight, and only the weights of the elements matter.
LEMMA SumFacts ==
  ASSUME NEW S, IsFiniteSet(S), NEW w, \A x \in S : w[x] \in Int
  PROVE  /\ Sum(w, S) \in Int
         /\ S = {} => Sum(w, S) = 0
         /\ \A x \in S : Sum(w, S) = w[x] + Sum(w, S \ {x})
         /\ \A v : (\A x \in S : v[x] = w[x]) => Sum(v, S) = Sum(w, S)
<1> DEFINE Chosen(v, s) == CHOOSE g : Sums(v, s, g)
<1>0. ASSUME NEW s \in SUBSET S, NEW v, \A x \in s : v[x] = w[x]
      PROVE  Sums(v, s, Chosen(v, s)) /\ Chosen(v, s) \in [SUBSET s -> Int] /\ IsFiniteSet(s)
  <2>1. IsFiniteSet(s) /\ \A x \in s : v[x] \in Int
    BY <1>0, FS_Subset
  <2>2. PICK g \in [SUBSET s -> Int] : Sums(v, s, g)
    BY <2>1, SumsExist
  <2>3. Sums(v, s, Chosen(v, s))
    BY <2>2, Zenon
  <2> HIDE DEF Chosen
  <2>4. \A t \in SUBSET s : Chosen(v, s)[t] = g[t]
    BY <2>1, <2>2, <2>3, SumsAgree
  <2>5. Chosen(v, s) = [t \in SUBSET s |-> Chosen(v, s)[t]]
    BY <2>3 DEF Sums
  <2>6. Chosen(v, s) \in [SUBSET s -> Int]
    BY <2>4, <2>5
  <2> QED BY <2>1, <2>3, <2>6
<1>1. \A v, s : Sum(v, s) = Chosen(v, s)[s]
  BY DEF Sum
<1> HIDE DEF Chosen
<1>2. Sums(w, S, Chosen(w, S)) /\ Chosen(w, S) \in [SUBSET S -> Int]
  BY <1>0
<1>3. Sum(w, S) \in Int
  BY <1>1, <1>2
<1>4. S = {} => Sum(w, S) = 0
  BY <1>1, <1>2, SumsEquation
<1>5. ASSUME NEW x \in S PROVE Sum(w, S) = w[x] + Sum(w, S \ {x})
  <2> DEFINE g == Chosen(w, S)
             r == S \ {x}
             h == Chosen(w, r)
  <2>1. g[S] = w[x] + g[r]
    <3>1. Sums(w, S, g) /\ g \in [SUBSET S -> Int]
      BY <1>2
    <3> HIDE DEF g
    <3>2. AnyFirst(w, S, g)
      BY <3>1, SumsExchange
    <3> QED BY <3>2 DEF AnyFirst
  <2>2. Sums(w, r, h) /\ IsFiniteSet(r) /\ r \subseteq S /\ Sums(w, S, g)
    BY <1>0, <1>2
  <2>3. h[r] = g[r]
    <3> HIDE DEF g, h, r
    <3>1. \A s \in SUBSET r : h[s] = g[s]
      BY <2>2, SumsAgree
    <3> QED BY <3>1
  <2> QED BY <1>1, <2>1, <2>3
<1>6. ASSUME NEW v, \A x \in S : v[x] = w[x] PROVE Sum(v, S) = Sum(w, S)
  <2>1. Sums(v, S, Chosen(v, S))
    BY <1>0, <1>6
  <2>2. Chosen(v, S)[S] = Chosen(w, S)[S]
    BY <1>2, <1>6, <2>1, SumsAgree
  <2> QED BY <1>1, <2>2
<1> QED BY <1>3, <1>4, <1>5, <1>6

\* The sum over two sets without a common element is the sum of both.
LEMMA SumOfUnion ==
  ASSUME NEW A, IsFiniteSet(A), NEW B, IsFiniteSet(B), A \cap B = {},
         NEW w, \A x \in A \cup B : w[x] \in Int
  PROVE  Sum(w, A \cup B) = Sum(w, A) + Sum(w, B)
<1> DEFINE P == {s \in SUBSET B : Sum(w, A \cup s) = Sum(w, A) + Sum(w, s)}
<1>1. {} \in P
  <2>1. Sum(w, A) \in Int /\ Sum(w, {}) = 0 /\ A \cup {} = A
    BY SumFacts, FS_EmptySet
  <2> QED BY <2>1
<1>2. ASSUME NEW s \in SUBSET B, NEW x \in B, s \in P, x \notin s PROVE s \cup {x} \in P
  <2> DEFINE t == s \cup {x}
  <2>1. IsFiniteSet(s) /\ IsFiniteSet(t) /\ IsFiniteSet(A \cup t) /\ t \subseteq B
    BY FS_Subset, FS_Union
  <2>2. x \notin A /\ (A \cup t) \ {x} = A \cup s /\ t \ {x} = s
    BY <1>2
  <2>3. Sum(w, A \cup t) = w[x] + Sum(w, A \cup s)
    <3>1. \A y \in A \cup t : Sum(w, A \cup t) = w[y] + Sum(w, (A \cup t) \ {y})
      BY <2>1, SumFacts
    <3> QED BY <2>2, <3>1
  <2>4. Sum(w, t) = w[x] + Sum(w, s)
    <3>1. \A y \in t : Sum(w, t) = w[y] + Sum(w, t \ {y})
      BY <2>1, SumFacts
    <3> QED BY <2>2, <3>1
  <2>5. w[x] \in Int /\ Sum(w, s) \in Int /\ Sum(w, A) \in Int
    BY <2>1, SumFacts
  <2>6. Sum(w, A \cup s) = Sum(w, A) + Sum(w, s)
    BY <1>2
  <2> HIDE DEF t
  <2>7. Sum(w, A \cup t) = Sum(w, A) + Sum(w, t)
    BY <2>3, <2>4, <2>5, <2>6
  <2> QED BY <2>1, <2>7 DEF t
<1>3. B \in P
  <2> HIDE DEF P
  <2> QED BY <1>1, <1>2, FiniteInduction
<1> QED BY <1>3

\* A sum of n weights of at most b is at most n times b.
LEMMA SumBound ==
  ASSUME NEW S, IsFiniteSet(S), NEW b \in Nat, NEW w, \A x \in S : w[x] \in 0..b
  PROVE  Sum(w, S) \in 0..(Cardinality(S) * b)
<1> DEFINE P == {s \in SUBSET S : Sum(w, s) \in 0..(Cardinality(s) * b)}
<1>1. {} \in P
  <2>1. Sum(w, {}) = 0 /\ Cardinality({}) = 0
    BY SumFacts, FS_EmptySet
  <2> QED BY <2>1
<1>2. ASSUME NEW s \in SUBSET S, NEW x \in S, s \in P, x \notin s PROVE s \cup {x} \in P
  <2> DEFINE t == s \cup {x}
             n == Cardinality(s)
  <2>1. IsFiniteSet(s) /\ IsFiniteSet(t) /\ t \subseteq S /\ t \ {x} = s
    BY <1>2, FS_Subset
  <2>2. Sum(w, t) = w[x] + Sum(w, s)
    BY <2>1, SumFacts
  <2>3. Cardinality(t) = n + 1 /\ n \in Nat
    BY <1>2, <2>1, FS_AddElement, FS_CardinalityType
  <2>4. Sum(w, s) \in 0..(n * b) /\ w[x] \in 0..b
    BY <1>2
  <2> HIDE DEF t, n
  <2>5. (n + 1) * b = n * b + b /\ n * b \in Nat
    BY <2>3
  <2>6. Sum(w, t) \in 0..(Cardinality(t) * b)
    <3>1. Sum(w, t) \in Nat /\ Sum(w, t) <= n * b + b
      BY <2>2, <2>4, <2>5
    <3> QED BY <2>3, <2>5, <3>1
  <2> QED BY <2>1, <2>6 DEF t
<1>3. S \in P
  <2> HIDE DEF P
  <2> QED BY <1>1, <1>2, FiniteInduction
<1> QED BY <1>3

\* A sum of n weights of at least b is at least n times b.
LEMMA SumAtLeast ==
  ASSUME NEW S, IsFiniteSet(S), NEW b \in Nat, NEW w, \A x \in S : w[x] \in Nat /\ b <= w[x]
  PROVE  Cardinality(S) * b <= Sum(w, S)
<1> DEFINE P == {s \in SUBSET S : Cardinality(s) * b <= Sum(w, s)}
<1>1. {} \in P
  <2>1. Sum(w, {}) = 0 /\ Cardinality({}) = 0
    BY SumFacts, FS_EmptySet
  <2> QED BY <2>1
<1>2. ASSUME NEW s \in SUBSET S, NEW x \in S, s \in P, x \notin s PROVE s \cup {x} \in P
  <2> DEFINE t == s \cup {x}
             n == Cardinality(s)
  <2>1. IsFiniteSet(s) /\ IsFiniteSet(t) /\ t \subseteq S /\ t \ {x} = s
    BY <1>2, FS_Subset
  <2>2. Sum(w, t) = w[x] + Sum(w, s) /\ Sum(w, s) \in Int
    BY <2>1, SumFacts
  <2>3. Cardinality(t) = n + 1 /\ n \in Nat
    BY <1>2, <2>1, FS_AddElement, FS_CardinalityType
  <2>4. n * b <= Sum(w, s) /\ w[x] \in Nat /\ b <= w[x]
    BY <1>2
  <2> HIDE DEF t, n
  <2>5. (n + 1) * b = n * b + b /\ n * b \in Nat
    BY <2>3
  <2>6. Cardinality(t) * b <= Sum(w, t)
    <3>1. n * b + b <= w[x] + Sum(w, s)
      BY <2>2, <2>4, <2>5
    <3> QED BY <2>2, <2>3, <2>5, <3>1
  <2> QED BY <2>1, <2>6 DEF t
<1>3. S \in P
  <2> HIDE DEF P
  <2> QED BY <1>1, <1>2, FiniteInduction
<1> QED BY <1>3
=============================================================================
