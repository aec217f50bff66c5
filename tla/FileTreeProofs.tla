--------------------------- MODULE FileTreeProofs ---------------------------
(***************************************************************************)
(* What holds of FileTree for all paths, depths and numbers of names.  The *)
(* first parts are about sequences and prefixes of paths; then the tree    *)
(* stays a tree and the lists and counters agree with it (Sound), every    *)
(* operation does what PathSet promises of it, and what the scenario makes *)
(* up, does to the disk and cleans up is as it should be (ScenarioInv).    *)
(***************************************************************************)
EXTENDS FileTree, NatRecursion, SequenceTheorems

\* The recursion of Erase may be unfolded: what it keeps, of all that it looks
\* at, is what is not in P.
LEMMA EraseFacts ==
  ASSUME NEW T, NEW s \in Seq(T), NEW P
  PROVE  /\ Erase(s, P) \in Seq(T)
         /\ ToSet(Erase(s, P)) = ToSet(s) \ P
         /\ IsInjective(s) => IsInjective(Erase(s, P))
<1> DEFINE U == T \cup {s[n] : n \in Nat}
           V == Seq(U)
           step == [w \in Nat \X V |-> IF s[w[1] + 1] \in P THEN w[2] ELSE Append(w[2], s[w[1] + 1])]
           Def(f) == [n \in Nat |-> IF n = 0 THEN <<>>
                                    ELSE IF s[n] \in P THEN f[n - 1] ELSE Append(f[n - 1], s[n])]
           kept == CHOOSE f : f = Def(f)
<1>1. step \in [Nat \X V -> V]
  <2>1. ASSUME NEW w \in Nat \X V  PROVE step[w] \in V
    <3>1. w[1] + 1 \in Nat /\ w[2] \in V  OBVIOUS
    <3>2. s[w[1] + 1] \in U  BY <3>1
    <3> HIDE DEF U
    <3> QED  BY <3>1, <3>2
  <2> HIDE DEF V
  <2> QED  BY <2>1
<1>2. \A n \in Nat : \A t \in V : step[<<n, t>>] = IF s[n + 1] \in P THEN t ELSE Append(t, s[n + 1])
  <2> HIDE DEF V
  <2> QED  OBVIOUS
<1>3. <<>> \in V
  <2> HIDE DEF U
  <2> QED  OBVIOUS
<1> HIDE DEF step
<1>4. PICK f \in [Nat -> V] : f[0] = <<>> /\ \A n \in Nat : f[n + 1] = step[<<n, f[n]>>]
  <2> DEFINE R(X, a, r) == \E g \in [Nat -> X] : g[0] = a /\ \A n \in Nat : g[n + 1] = r[<<n, g[n]>>]
  <2>1. \A X : \A a \in X : \A r \in [Nat \X X -> X] : R(X, a, r)
    BY IndexedRecursion
  <2> HIDE DEF R, V
  <2>2. R(V, <<>>, step)  BY <1>1, <1>3, <2>1, Zenon
  <2> QED  BY <2>2 DEF R
<1> HIDE DEF V
<1>5. f = Def(f)
  <2>1. ASSUME NEW n \in Nat
        PROVE  f[n] = IF n = 0 THEN <<>> ELSE IF s[n] \in P THEN f[n - 1] ELSE Append(f[n - 1], s[n])
    <3>1. CASE n = 0  BY <1>4, <3>1
    <3>2. CASE n # 0
      <4>1. n - 1 \in Nat /\ (n - 1) + 1 = n  BY <3>2
      <4>2. f[(n - 1) + 1] = step[<<n - 1, f[n - 1]>>] /\ f[n - 1] \in V  BY <1>4, <4>1
      <4> QED  BY <1>2, <3>2, <4>1, <4>2
    <3> QED  BY <3>1, <3>2
  <2> QED  BY <1>4, <2>1
<1>6. kept = Def(kept)
  <2>1. \E g : g = Def(g)  BY <1>5
  <2> QED  BY <2>1, Zenon
<1>7. Erase(s, P) = kept[Len(s)]  BY Zenon DEF Erase
<1> HIDE DEF kept
<1>8. \A n \in Nat : kept[n] = IF n = 0 THEN <<>> ELSE IF s[n] \in P THEN kept[n - 1]
                                                    ELSE Append(kept[n - 1], s[n])
  BY <1>6, Zenon
<1>9. kept[0] = <<>>  BY <1>8
<1>10. ASSUME NEW n \in Nat
       PROVE  kept[n + 1] = IF s[n + 1] \in P THEN kept[n] ELSE Append(kept[n], s[n + 1])
  <2>1. n + 1 \in Nat /\ n + 1 # 0 /\ (n + 1) - 1 = n  OBVIOUS
  <2> QED  BY <1>8, <2>1
<1> DEFINE Kept(t, n) == /\ t \in Seq(T)
                         /\ ToSet(t) = {s[i] : i \in 1..n} \ P
                         /\ IsInjective(s) => IsInjective(t)
           S == {n \in Nat : n <= Len(s) => Kept(kept[n], n)}
<1>11. 0 \in S
  <2>1. <<>> \in Seq(T) /\ ToSet(<<>>) = {} /\ IsInjective(<<>>)  BY DEF ToSet, IsInjective
  <2>2. {s[i] : i \in 1..0} = {}  OBVIOUS
  <2> QED  BY <1>9, <2>1, <2>2
<1>12. ASSUME NEW n \in Nat, n \in S  PROVE n + 1 \in S
  <2> SUFFICES ASSUME n + 1 <= Len(s)  PROVE Kept(kept[n + 1], n + 1)
    OBVIOUS
  <2> DEFINE t == kept[n]
             e == s[n + 1]
  <2>1. Kept(t, n)  BY <1>12
  <2>2. e \in T /\ {s[i] : i \in 1..(n + 1)} = {s[i] : i \in 1..n} \cup {e}  OBVIOUS
  <2> HIDE DEF t
  <2>3. CASE e \in P
    <3>1. kept[n + 1] = t  BY <1>10, <2>3 DEF t
    <3> QED  BY <2>1, <2>2, <2>3, <3>1
  <2>4. CASE e \notin P
    <3>1. kept[n + 1] = Append(t, e)  BY <1>10, <2>4 DEF t
    <3>2. /\ Append(t, e) \in Seq(T) /\ Len(t) \in Nat /\ Len(Append(t, e)) = Len(t) + 1
          /\ \A i \in 1..Len(t) : Append(t, e)[i] = t[i]
          /\ Append(t, e)[Len(t) + 1] = e
      BY <2>1, <2>2, AppendProperties
    <3>3. ToSet(Append(t, e)) = ToSet(t) \cup {e}
      <4> DEFINE u == Append(t, e)
      <4>1. DOMAIN u = 1..(Len(t) + 1) /\ DOMAIN t = 1..Len(t)  BY <2>1, <3>2
      <4> HIDE DEF u
      <4>2. ToSet(u) = {u[i] : i \in 1..Len(t)} \cup {u[Len(t) + 1]}
        <5>1. 1..(Len(t) + 1) = 1..Len(t) \cup {Len(t) + 1}  BY <3>2
        <5>2. ToSet(u) = {u[i] : i \in 1..Len(t) \cup {Len(t) + 1}}  BY <4>1, <5>1 DEF ToSet
        <5> QED  BY <5>2, Zenon
      <4>3. ToSet(t) = {t[i] : i \in 1..Len(t)}  BY <4>1 DEF ToSet
      <4> QED  BY <3>2, <4>2, <4>3 DEF u
    <3>4. ASSUME IsInjective(s)  PROVE IsInjective(Append(t, e))
      <4>1. e \notin {s[i] : i \in 1..n}  BY <3>4 DEF IsInjective
      <4>2. e \notin ToSet(t) /\ IsInjective(t)  BY <2>1, <3>4, <4>1
      <4> DEFINE u == Append(t, e)
      <4>3. DOMAIN u = 1..(Len(t) + 1) /\ DOMAIN t = 1..Len(t)  BY <2>1, <3>2
      <4>4. \A i \in 1..Len(t) : u[i] = t[i] /\ t[i] # e  BY <3>2, <4>2, <4>3 DEF ToSet
      <4>5. u[Len(t) + 1] = e  BY <3>2
      <4> HIDE DEF u
      <4>6. IsInjective(u)  BY <3>2, <4>2, <4>3, <4>4, <4>5 DEF IsInjective
      <4> QED  BY <4>6 DEF u
    <3> QED  BY <2>1, <2>2, <2>4, <3>1, <3>2, <3>3, <3>4
  <2> QED  BY <2>3, <2>4
<1>13. Nat \subseteq S
  <2> HIDE DEF S
  <2> QED  BY <1>11, <1>12, Induction
<1>14. Len(s) \in Nat /\ ToSet(s) = {s[i] : i \in 1..Len(s)}  BY DEF ToSet
<1>15. Kept(kept[Len(s)], Len(s))
  <2> HIDE DEF Kept
  <2> QED  BY <1>13, <1>14
<1> QED  BY <1>7, <1>14, <1>15

\* The elements of a sequence without repetition are as many as it is long.
LEMMA InjectiveLength ==
  ASSUME NEW T, NEW s \in Seq(T), IsInjective(s)
  PROVE  IsFiniteSet(ToSet(s)) /\ Cardinality(ToSet(s)) = Len(s)
<1>1. Len(s) \in Nat /\ DOMAIN s = 1..Len(s) /\ s \in [1..Len(s) -> ToSet(s)]
  BY DEF ToSet
<1>2. s \in Bijection(1..Len(s), ToSet(s))
  BY <1>1 DEF Bijection, Injection, Surjection, IsInjective, ToSet
<1>3. ExistsBijection(1..Len(s), ToSet(s))
  BY <1>2 DEF ExistsBijection
<1> QED  BY <1>1, <1>3, FS_CountingElements, FS_NatBijection

\* Two sequences without repetition and without a common element, one after the
\* other.
LEMMA ConcatInjective ==
  ASSUME NEW T, NEW s \in Seq(T), NEW t \in Seq(T), IsInjective(s), IsInjective(t),
         ToSet(s) \cap ToSet(t) = {}
  PROVE  /\ s \o t \in Seq(T) /\ Len(s \o t) = Len(s) + Len(t)
         /\ ToSet(s \o t) = ToSet(s) \cup ToSet(t) /\ IsInjective(s \o t)
<1> DEFINE u == s \o t
           m == Len(s)
           n == Len(t)
<1>1. /\ m \in Nat /\ n \in Nat /\ DOMAIN s = 1..m /\ DOMAIN t = 1..n
  OBVIOUS
<1>2. u \in Seq(T) /\ Len(u) = m + n /\ \A i \in 1..(m + n) : u[i] = IF i <= m THEN s[i] ELSE t[i - m]
  BY ConcatProperties
<1>3. DOMAIN u = 1..(m + n)  BY <1>2
<1> HIDE DEF u, m, n
<1>4. \A i \in 1..m : i \in 1..(m + n) /\ u[i] = s[i] /\ s[i] \in ToSet(s)
  <2> TAKE i \in 1..m
  <2>1. i \in 1..(m + n) /\ i <= m  BY <1>1
  <2>2. u[i] = s[i]  BY <1>2, <2>1
  <2>3. s[i] \in ToSet(s)  BY <1>1 DEF ToSet
  <2> QED  BY <2>1, <2>2, <2>3
<1>5. \A i \in 1..n : m + i \in 1..(m + n) /\ u[m + i] = t[i] /\ t[i] \in ToSet(t)
  <2> TAKE i \in 1..n
  <2>1. m + i \in 1..(m + n) /\ ~ m + i <= m /\ (m + i) - m = i  BY <1>1
  <2> QED  BY <1>1, <1>2, <2>1 DEF ToSet
<1>6. \A i \in 1..(m + n) : i \in 1..m \/ \E k \in 1..n : i = m + k
  <2> TAKE i \in 1..(m + n)
  <2>1. CASE i <= m  BY <1>1, <2>1
  <2>2. CASE ~ i <= m
    <3>1. i - m \in 1..n /\ i = m + (i - m)  BY <1>1, <2>2
    <3> QED  BY <3>1
  <2> QED  BY <2>1, <2>2
<1>7. ToSet(u) = ToSet(s) \cup ToSet(t)
  <2>1. ToSet(u) \subseteq ToSet(s) \cup ToSet(t)  BY <1>3, <1>4, <1>5, <1>6 DEF ToSet
  <2>2. ToSet(s) \subseteq ToSet(u)  BY <1>1, <1>3, <1>4 DEF ToSet
  <2>3. ToSet(t) \subseteq ToSet(u)
    <3> SUFFICES ASSUME NEW i \in 1..n  PROVE t[i] \in ToSet(u)
      BY <1>1 DEF ToSet
    <3>1. m + i \in DOMAIN u /\ u[m + i] = t[i]  BY <1>3, <1>5
    <3> QED  BY <3>1 DEF ToSet
  <2> QED  BY <2>1, <2>2, <2>3
<1>8. IsInjective(u)
  <2> SUFFICES ASSUME NEW i \in 1..(m + n), NEW j \in 1..(m + n), u[i] = u[j]  PROVE i = j
    BY <1>3 DEF IsInjective
  <2>1. CASE i \in 1..m /\ j \in 1..m  BY <1>1, <1>4, <2>1 DEF IsInjective
  <2>2. CASE i \in 1..m /\ \E k \in 1..n : j = m + k  BY <1>4, <1>5, <2>2
  <2>3. CASE j \in 1..m /\ \E k \in 1..n : i = m + k  BY <1>4, <1>5, <2>3
  <2>4. CASE (\E k \in 1..n : i = m + k) /\ (\E k \in 1..n : j = m + k)
    <3>1. PICK k \in 1..n, l \in 1..n : i = m + k /\ j = m + l  BY <2>4
    <3>2. t[k] = t[l]  BY <1>5, <3>1
    <3> QED  BY <1>1, <3>1, <3>2 DEF IsInjective
  <2> QED  BY <1>6, <2>1, <2>2, <2>3, <2>4
<1> QED  BY <1>2, <1>7, <1>8 DEF u, m, n

\* The same for one more element.
LEMMA AppendNew ==
  ASSUME NEW T, NEW s \in Seq(T), NEW e \in T, IsInjective(s), e \notin ToSet(s)
  PROVE  /\ Append(s, e) \in Seq(T) /\ Len(Append(s, e)) = Len(s) + 1
         /\ ToSet(Append(s, e)) = ToSet(s) \cup {e} /\ IsInjective(Append(s, e))
<1>1. <<e>> \in Seq(T) /\ Len(<<e>>) = 1 /\ DOMAIN <<e>> = {1} /\ <<e>>[1] = e  OBVIOUS
<1>2. IsInjective(<<e>>) /\ ToSet(<<e>>) = {e}  BY <1>1 DEF IsInjective, ToSet
<1>3. Append(s, e) = s \o <<e>>  BY AppendIsConcat
<1>4. ToSet(s) \cap ToSet(<<e>>) = {}  BY <1>2
<1> DEFINE t == <<e>>
<1> HIDE DEF t
<1>5. /\ s \o t \in Seq(T) /\ Len(s \o t) = Len(s) + Len(t)
      /\ ToSet(s \o t) = ToSet(s) \cup ToSet(t) /\ IsInjective(s \o t)
  BY <1>1, <1>2, <1>4, ConcatInjective DEF t
<1> QED  BY <1>1, <1>2, <1>3, <1>5 DEF t

-----------------------------------------------------------------------------
(***************************************************************************)
(* Prefixes of paths.                                                      *)
(***************************************************************************)
\* A prefix of a path is a path, and has the prefixes of the path itself.
LEMMA PrefixFacts ==
  ASSUME NEW T, NEW p \in Seq(T), NEW i \in 0..Len(p)
  PROVE  /\ Prefix(p, i) \in Seq(T) /\ Len(Prefix(p, i)) = i
         /\ \A k \in 1..i : Prefix(p, i)[k] = p[k]
         /\ \A j \in 0..i : Prefix(Prefix(p, i), j) = Prefix(p, j)
         /\ i = Len(p) => Prefix(p, i) = p
<1>1. Len(p) \in Nat /\ i \in Nat /\ i <= Len(p) /\ \A k \in 1..Len(p) : p[k] \in T
  OBVIOUS
<1>2. ASSUME NEW q \in Seq(T), NEW j \in 0..Len(q)
      PROVE  /\ Prefix(q, j) \in Seq(T) /\ Len(Prefix(q, j)) = j
             /\ \A k \in 1..j : Prefix(q, j)[k] = q[k]
  <2>1. j \in Nat /\ 1 \in Int /\ j \in Int /\ \A k \in 1..j : q[k] \in T  OBVIOUS
  <2>2. /\ SubSeq(q, 1, j) \in Seq(T)
        /\ Len(SubSeq(q, 1, j)) = IF 1 <= j THEN j - 1 + 1 ELSE 0
        /\ \A k \in 1..(j - 1 + 1) : SubSeq(q, 1, j)[k] = q[1 + k - 1]
    BY <2>1, SubSeqProperties
  <2> QED  BY <2>1, <2>2 DEF Prefix
<1>3. ASSUME NEW j \in 0..i  PROVE Prefix(Prefix(p, i), j) = Prefix(p, j)
  <2>1. j \in 0..Len(p) /\ j \in 0..Len(Prefix(p, i)) /\ Prefix(p, i) \in Seq(T)  BY <1>1, <1>2
  <2>2. /\ Prefix(Prefix(p, i), j) \in Seq(T) /\ Len(Prefix(Prefix(p, i), j)) = j
        /\ \A k \in 1..j : Prefix(Prefix(p, i), j)[k] = Prefix(p, i)[k]
    BY <1>2, <2>1
  <2>3. /\ Prefix(p, j) \in Seq(T) /\ Len(Prefix(p, j)) = j
        /\ \A k \in 1..j : Prefix(p, j)[k] = p[k]
    BY <1>2, <2>1
  <2>4. \A k \in 1..j : Prefix(p, i)[k] = p[k]  BY <1>1, <1>2
  <2> QED  BY <2>2, <2>3, <2>4, SeqEqual
<1>4. ASSUME i = Len(p)  PROVE Prefix(p, i) = p
  BY <1>1, <1>2, <1>4, SeqEqual
<1> QED  BY <1>2, <1>3, <1>4

\* IsPrefix and IsStrictPrefix in terms of Prefix.
LEMMA PrefixIs ==
  ASSUME NEW T, NEW p \in Seq(T), NEW q \in Seq(T)
  PROVE  /\ IsPrefix(p, q) <=> Len(p) <= Len(q) /\ Prefix(q, Len(p)) = p
         /\ IsStrictPrefix(p, q) <=> Len(p) < Len(q) /\ Prefix(q, Len(p)) = p
<1>1. Len(p) \in Nat /\ Len(q) \in Nat /\ Prefix(p, Len(p)) = p /\ Prefix(q, Len(q)) = q
  BY PrefixFacts
<1>2. IsPrefix(p, q) <=> Len(p) <= Len(q) /\ Prefix(q, Len(p)) = p
  BY <1>1 DEF IsPrefix, Prefix
<1> QED  BY <1>1, <1>2 DEF IsStrictPrefix

\* The first part that ends a walk.
LEMMA FirstHaltIs ==
  ASSUME NEW T, NEW p \in Seq(T), NEW H
  PROVE  /\ FirstHalt(p, H) \in 1..(Len(p) + 1)
         /\ FirstHalt(p, H) \in H \/ FirstHalt(p, H) = Len(p) + 1
         /\ \A j \in 1..(FirstHalt(p, H) - 1) : j \notin H
<1> DEFINE S == {i \in 1..(Len(p) + 1) : i \in H \/ i = Len(p) + 1}
           First(i) == (i \in H \/ i = Len(p) + 1) /\ \A j \in 1..(i - 1) : j \notin H
<1>1. S \subseteq Nat /\ S # {}
  <2>1. Len(p) + 1 \in S  OBVIOUS
  <2> QED  BY <2>1
<1>2. PICK i \in S : \A k \in S : i <= k
  <2> HIDE DEF S
  <2> QED  BY <1>1, Least
<1>3. First(i)
  <2>1. ASSUME NEW j \in 1..(i - 1)  PROVE j \notin H
    <3>1. j \in 1..(Len(p) + 1) /\ j < i  BY <1>2
    <3> QED  BY <1>2, <3>1
  <2> QED  BY <1>2, <2>1
<1>4. FirstHalt(p, H) = CHOOSE k \in 1..(Len(p) + 1) : First(k)
  BY DEF FirstHalt
<1>5. \E k \in 1..(Len(p) + 1) : First(k)  BY <1>2, <1>3
<1> HIDE DEF First
<1>6. FirstHalt(p, H) \in 1..(Len(p) + 1) /\ First(FirstHalt(p, H))
  BY <1>4, <1>5
<1> QED  BY <1>6 DEF First

-----------------------------------------------------------------------------
(***************************************************************************)
(* Trees.                                                                  *)
(***************************************************************************)
Parts  == (UNION {ToSet(p) : p \in Paths}) \cup ({"dir", "file"} \X Nat)
Routes == Seq(Parts) \ {<<>>}

\* Every path leads through directories.
Tree(n) ==
  /\ n \in [DOMAIN n -> {"FILE", "DIRECTORY"}] /\ DOMAIN n \subseteq Routes
  /\ \A p \in DOMAIN n : \A i \in 1..(Len(p) - 1) :
       Prefix(p, i) \in DOMAIN n /\ n[Prefix(p, i)] = "DIRECTORY"

\* A path has a part, and what it leads through are paths.
LEMMA RouteFacts ==
  ASSUME NEW p \in Routes
  PROVE  /\ Len(p) \in Nat \ {0} /\ p \in Seq(Parts) /\ Prefix(p, Len(p)) = p
         /\ \A i \in 1..Len(p) : Prefix(p, i) \in Routes /\ Len(Prefix(p, i)) = i /\ p[i] \in Parts
<1>1. p \in Seq(Parts) /\ Len(p) \in Nat \ {0}  BY EmptySeq DEF Routes
<1>2. ASSUME NEW i \in 1..Len(p)  PROVE Prefix(p, i) \in Routes /\ Len(Prefix(p, i)) = i
  <2>1. i \in 0..Len(p) /\ i # 0  BY <1>1
  <2>2. Prefix(p, i) \in Seq(Parts) /\ Len(Prefix(p, i)) = i  BY <1>1, <2>1, PrefixFacts
  <2> QED  BY <2>1, <2>2 DEF Routes
<1>3. Prefix(p, Len(p)) = p
  <2>1. Len(p) \in 0..Len(p)  BY <1>1
  <2> QED  BY <1>1, <2>1, PrefixFacts
<1> QED  BY <1>1, <1>2, <1>3

\* A tree grows by paths that lead through directories, the new ones included.
LEMMA TreeWith ==
  ASSUME NEW n, Tree(n), NEW type \in {"FILE", "DIRECTORY"}, NEW P, P \subseteq Routes \ DOMAIN n,
         \A p \in P : \A i \in 1..(Len(p) - 1) :
           \/ Prefix(p, i) \in DOMAIN n /\ n[Prefix(p, i)] = "DIRECTORY"
           \/ Prefix(p, i) \in P /\ type = "DIRECTORY"
  PROVE  Tree(With(n, P, type))
<1> DEFINE w == With(n, P, type)
<1>1. DOMAIN w = DOMAIN n \cup P /\ \A p \in DOMAIN w : w[p] = IF p \in P THEN type ELSE n[p]
  BY DEF With
<1>2. w = [p \in DOMAIN w |-> w[p]]  BY DEF With
<1> HIDE DEF w
<1>3. \A p \in DOMAIN w : w[p] \in {"FILE", "DIRECTORY"}  BY <1>1 DEF Tree
<1>4. \A p \in DOMAIN n : p \in DOMAIN w /\ w[p] = n[p]  BY <1>1
<1>5. ASSUME NEW p \in DOMAIN w, NEW i \in 1..(Len(p) - 1)
      PROVE  Prefix(p, i) \in DOMAIN w /\ w[Prefix(p, i)] = "DIRECTORY"
  <2>1. CASE p \in DOMAIN n  BY <1>4, <2>1 DEF Tree
  <2>2. CASE p \in P  BY <1>1, <1>4, <2>2
  <2> QED  BY <1>1, <2>1, <2>2
<1>6. w \in [DOMAIN w -> {"FILE", "DIRECTORY"}] /\ DOMAIN w \subseteq Routes
  BY <1>1, <1>2, <1>3 DEF Tree
<1> QED  BY <1>5, <1>6 DEF Tree, w

\* It stays a tree without one of its nodes and all below that.
LEMMA TreeWithout ==
  ASSUME NEW n, Tree(n), NEW q \in Routes
  PROVE  Tree(Without(n, {p \in DOMAIN n : IsPrefix(q, p)}))
<1> DEFINE w == Without(n, {p \in DOMAIN n : IsPrefix(q, p)})
<1>1. /\ DOMAIN w = {p \in DOMAIN n : ~ IsPrefix(q, p)} /\ \A p \in DOMAIN w : w[p] = n[p]
      /\ w = [p \in DOMAIN w |-> w[p]]
  BY DEF Without
<1> HIDE DEF w
<1>2. w \in [DOMAIN w -> {"FILE", "DIRECTORY"}] /\ DOMAIN w \subseteq Routes
  BY <1>1 DEF Tree
<1>3. ASSUME NEW p \in DOMAIN w, NEW i \in 1..(Len(p) - 1)
      PROVE  Prefix(p, i) \in DOMAIN w /\ w[Prefix(p, i)] = "DIRECTORY"
  <2>1. Prefix(p, i) \in DOMAIN n /\ n[Prefix(p, i)] = "DIRECTORY"  BY <1>1 DEF Tree
  <2>2. p \in Routes /\ q \in Seq(Parts) /\ p \in Seq(Parts)  BY <1>1 DEF Tree, Routes
  <2>3. i \in 1..Len(p) /\ i \in 0..Len(p) /\ Len(p) \in Nat  BY <2>2, RouteFacts
  <2>4. Prefix(p, i) \in Seq(Parts) /\ Len(Prefix(p, i)) = i  BY <2>2, <2>3, PrefixFacts
  <2>5. ASSUME IsPrefix(q, Prefix(p, i))  PROVE FALSE
    <3>1. Len(q) <= i /\ Prefix(Prefix(p, i), Len(q)) = q  BY <2>2, <2>4, <2>5, PrefixIs
    <3>2. Len(q) \in 0..i  BY <2>2, <3>1
    <3>3. Prefix(p, Len(q)) = q /\ Len(q) <= Len(p)  BY <2>2, <2>3, <3>1, <3>2, PrefixFacts
    <3>4. IsPrefix(q, p)  BY <2>2, <3>3, PrefixIs
    <3> QED  BY <1>1, <3>4
  <2> QED  BY <1>1, <2>1, <2>5
<1> QED  BY <1>2, <1>3 DEF Tree, w

-----------------------------------------------------------------------------
(***************************************************************************)
(* Lists and counters.                                                     *)
(***************************************************************************)
Lists ==
  /\ all_directories \in Seq(Routes) /\ all_files \in Seq(Routes)
  /\ files_for_fallocate \in Seq(Routes)
  /\ ListsMatchTree

\* Directories that were not there are listed and counted.
LEMMA DirectoriesListed ==
  ASSUME Lists, NEW new \in Seq(Routes), IsInjective(new), ToSet(new) \cap DOMAIN nodes = {},
         AddDirectories(new)
  PROVE  Lists'
<1> DEFINE dirs == {q \in DOMAIN nodes : nodes[q] = "DIRECTORY"}
           fls  == {q \in DOMAIN nodes : nodes[q] = "FILE"}
<1>1. /\ all_directories' = all_directories \o new
      /\ directory_count' = directory_count + Len(new)
      /\ UNCHANGED <<all_files, files_for_fallocate, file_count>>
  BY DEF AddDirectories
<1>2. DOMAIN nodes' = DOMAIN nodes \cup ToSet(new)
      /\ \A q \in DOMAIN nodes' : nodes'[q] = IF q \in ToSet(new) THEN "DIRECTORY" ELSE nodes[q]
  BY DEF AddDirectories, With
<1>3. {q \in DOMAIN nodes' : nodes'[q] = "DIRECTORY"} = dirs \cup ToSet(new)
  BY <1>2
<1>4. {q \in DOMAIN nodes' : nodes'[q] = "FILE"} = fls
  BY <1>2
<1>5. /\ ToSet(all_directories) = dirs /\ IsInjective(all_directories)
      /\ ToSet(all_files) = fls /\ directory_count = Len(all_directories)
  BY DEF Lists, ListsMatchTree, OfType
<1>6. ToSet(all_directories) \cap ToSet(new) = {}  BY <1>5
<1>7. /\ all_directories' \in Seq(Routes) /\ Len(all_directories') = Len(all_directories) + Len(new)
      /\ ToSet(all_directories') = ToSet(all_directories) \cup ToSet(new)
      /\ IsInjective(all_directories')
  BY <1>1, <1>5, <1>6, ConcatInjective DEF Lists
<1>8. ToSet(all_directories') = OfType(DOMAIN nodes, "DIRECTORY")'
      /\ ToSet(all_files) = OfType(DOMAIN nodes, "FILE")'
  BY <1>3, <1>4, <1>5, <1>7 DEF OfType
<1> QED  BY <1>1, <1>5, <1>7, <1>8 DEF Lists, ListsMatchTree

\* A file that was not there is listed twice and counted.
LEMMA FileListed ==
  ASSUME Lists, NEW p \in Routes \ DOMAIN nodes, AddFile(p)
  PROVE  Lists'
<1> DEFINE dirs == {q \in DOMAIN nodes : nodes[q] = "DIRECTORY"}
           fls  == {q \in DOMAIN nodes : nodes[q] = "FILE"}
<1>1. /\ all_files' = Append(all_files, p)
      /\ files_for_fallocate' = Append(files_for_fallocate, p)
      /\ file_count' = file_count + 1
      /\ UNCHANGED <<all_directories, directory_count>>
  BY DEF AddFile
<1>2. DOMAIN nodes' = DOMAIN nodes \cup {p}
      /\ \A q \in DOMAIN nodes' : nodes'[q] = IF q = p THEN "FILE" ELSE nodes[q]
  BY DEF AddFile, With
<1>3. {q \in DOMAIN nodes' : nodes'[q] = "DIRECTORY"} = dirs
  BY <1>2
<1>4. {q \in DOMAIN nodes' : nodes'[q] = "FILE"} = fls \cup {p}
  BY <1>2
<1>5. /\ ToSet(all_directories) = dirs /\ ToSet(all_files) = fls /\ IsInjective(all_files)
      /\ ToSet(files_for_fallocate) \subseteq fls /\ IsInjective(files_for_fallocate)
      /\ file_count = Len(all_files)
  BY DEF Lists, ListsMatchTree, OfType
<1>6. p \notin ToSet(all_files) /\ p \notin ToSet(files_for_fallocate) /\ p \in Routes  BY <1>5
<1>7. /\ all_files' \in Seq(Routes) /\ Len(all_files') = Len(all_files) + 1
      /\ ToSet(all_files') = ToSet(all_files) \cup {p} /\ IsInjective(all_files')
  BY <1>1, <1>5, <1>6, AppendNew DEF Lists
<1>8. /\ files_for_fallocate' \in Seq(Routes) /\ IsInjective(files_for_fallocate')
      /\ ToSet(files_for_fallocate') = ToSet(files_for_fallocate) \cup {p}
  BY <1>1, <1>5, <1>6, AppendNew DEF Lists
<1>9. ToSet(all_directories) = OfType(DOMAIN nodes, "DIRECTORY")'
      /\ ToSet(all_files') = OfType(DOMAIN nodes, "FILE")'
  BY <1>3, <1>4, <1>5, <1>7 DEF OfType
<1>10. ToSet(files_for_fallocate') \subseteq ToSet(all_files')  BY <1>5, <1>7, <1>8
<1> QED  BY <1>1, <1>5, <1>7, <1>8, <1>9, <1>10 DEF Lists, ListsMatchTree

\* What is taken out of a list is as much as the list gets shorter.
LEMMA EraseCounts ==
  ASSUME NEW s \in Seq(Routes), IsInjective(s), NEW P
  PROVE  Len(Erase(s, P)) = Len(s) - Cardinality(ToSet(s) \cap P)
<1>1. Erase(s, P) \in Seq(Routes) /\ IsInjective(Erase(s, P)) /\ ToSet(Erase(s, P)) = ToSet(s) \ P
  BY EraseFacts
<1>2. Cardinality(ToSet(s) \ P) = Len(Erase(s, P))  BY <1>1, InjectiveLength
<1>3. IsFiniteSet(ToSet(s)) /\ Cardinality(ToSet(s)) = Len(s)  BY InjectiveLength
<1> QED  BY <1>2, <1>3, FS_Difference

\* A node that is removed leaves the lists and the counters with all below it.
LEMMA NodeUnlisted ==
  ASSUME Lists, NEW p, RemoveNode(p)
  PROVE  Lists'
<1> DEFINE gone == Subtree(p)
           dirs == {q \in DOMAIN nodes : nodes[q] = "DIRECTORY"}
           fls  == {q \in DOMAIN nodes : nodes[q] = "FILE"}
<1>1. /\ all_directories' = Erase(all_directories, gone)
      /\ all_files' = Erase(all_files, gone)
      /\ files_for_fallocate' = Erase(files_for_fallocate, gone)
      /\ directory_count' = directory_count - Cardinality(OfType(gone, "DIRECTORY"))
      /\ file_count' = file_count - Cardinality(OfType(gone, "FILE"))
  BY DEF RemoveNode, Removed
<1>2. DOMAIN nodes' = DOMAIN nodes \ gone /\ \A q \in DOMAIN nodes' : nodes'[q] = nodes[q]
  BY DEF RemoveNode, Without
<1>3. gone \subseteq DOMAIN nodes  BY DEF Subtree
<1> HIDE DEF gone
<1>4. {q \in DOMAIN nodes' : nodes'[q] = "DIRECTORY"} = dirs \ gone
      /\ {q \in DOMAIN nodes' : nodes'[q] = "FILE"} = fls \ gone
  BY <1>2
<1>5. OfType(gone, "DIRECTORY") = dirs \cap gone /\ OfType(gone, "FILE") = fls \cap gone
  BY <1>3 DEF OfType
<1>6. /\ ToSet(all_directories) = dirs /\ IsInjective(all_directories)
      /\ ToSet(all_files) = fls /\ IsInjective(all_files)
      /\ ToSet(files_for_fallocate) \subseteq fls /\ IsInjective(files_for_fallocate)
      /\ directory_count = Len(all_directories) /\ file_count = Len(all_files)
  BY DEF Lists, ListsMatchTree, OfType
<1> HIDE DEF dirs, fls
<1>7. /\ all_directories' \in Seq(Routes) /\ IsInjective(all_directories')
      /\ ToSet(all_directories') = dirs \ gone
      /\ directory_count' = Len(all_directories')
  BY <1>1, <1>5, <1>6, EraseFacts, EraseCounts DEF Lists
<1>8. /\ all_files' \in Seq(Routes) /\ IsInjective(all_files')
      /\ ToSet(all_files') = fls \ gone
      /\ file_count' = Len(all_files')
  BY <1>1, <1>5, <1>6, EraseFacts, EraseCounts DEF Lists
<1>9. /\ files_for_fallocate' \in Seq(Routes) /\ IsInjective(files_for_fallocate')
      /\ ToSet(files_for_fallocate') \subseteq fls \ gone
  BY <1>1, <1>6, EraseFacts DEF Lists
<1>10. OfType(DOMAIN nodes, "DIRECTORY")' = dirs \ gone /\ OfType(DOMAIN nodes, "FILE")' = fls \ gone
  BY <1>4 DEF OfType
<1> QED  BY <1>7, <1>8, <1>9, <1>10 DEF Lists, ListsMatchTree

-----------------------------------------------------------------------------
(***************************************************************************)
(* Every operation keeps the tree a tree, and the lists and counters what  *)
(* the tree says.                                                          *)
(***************************************************************************)
Before(p, i) == [j \in 1..(i - 1) |-> Prefix(p, j)]

\* The directories mkdir creates: what it came through that was not there.
LEMMA CreatedDirectories ==
  ASSUME NEW p \in Routes, NEW i \in 1..(Len(p) + 1)
  PROVE  LET new == Erase(Before(p, i), DOMAIN nodes)
         IN  /\ new \in Seq(Routes) /\ IsInjective(new)
             /\ ToSet(new) = {Prefix(p, j) : j \in 1..(i - 1)} \ DOMAIN nodes
<1> DEFINE pre == Before(p, i)
<1>1. /\ Len(p) \in Nat \ {0}
      /\ \A j \in 1..(i - 1) : j \in 1..Len(p) /\ Prefix(p, j) \in Routes /\ Len(Prefix(p, j)) = j
  BY RouteFacts
<1>2. i - 1 \in Nat /\ DOMAIN pre = 1..(i - 1) /\ \A j \in 1..(i - 1) : pre[j] = Prefix(p, j)
  BY <1>1 DEF Before
<1>3. pre \in [1..(i - 1) -> Routes]  BY <1>1 DEF Before
<1>4. pre \in Seq(Routes)  BY <1>2, <1>3, SeqDef
<1> HIDE DEF pre
<1>5. IsInjective(pre)  BY <1>1, <1>2 DEF IsInjective
<1>6. ToSet(pre) = {Prefix(p, j) : j \in 1..(i - 1)}  BY <1>2 DEF ToSet
<1>7. Erase(pre, DOMAIN nodes) \in Seq(Routes) /\ IsInjective(Erase(pre, DOMAIN nodes))
      /\ ToSet(Erase(pre, DOMAIN nodes)) = ToSet(pre) \ DOMAIN nodes
  BY <1>4, <1>5, EraseFacts
<1> QED  BY <1>6, <1>7 DEF pre

Halts(p, recursively) == {j \in DOMAIN p : MkdirHalts(p, j, recursively)}

MkdirEnds(op, p, i) ==
  \/ i = Len(p) + 1 /\ UNCHANGED nulls /\ Reply(op, p, "ok")
  \/ i <= Len(p) /\ EntersNull(p, i) /\ nulls' = nulls \cup {Prefix(p, i)}
     /\ Reply(op, p, AfterNull(p, i))
  \/ i <= Len(p) /\ ~ EntersNull(p, i) /\ UNCHANGED nulls /\ Reply(op, p, "threw")

\* What mkdir does, in terms of the part that ends its walk.
LEMMA MkdirDoes ==
  ASSUME NEW p \in Routes, NEW recursively \in BOOLEAN, NEW op, Mkdir(op, p, recursively)
  PROVE  \E i \in 1..(Len(p) + 1), new \in Seq(Routes) :
           /\ i = FirstHalt(p, Halts(p, recursively))
           /\ i \in Halts(p, recursively) \/ i = Len(p) + 1
           /\ \A j \in 1..(i - 1) : j \notin Halts(p, recursively)
           /\ IsInjective(new)
           /\ ToSet(new) = {Prefix(p, j) : j \in 1..(i - 1)} \ DOMAIN nodes
           /\ AddDirectories(new)
           /\ MkdirEnds(op, p, i)
<1> DEFINE H == Halts(p, recursively)
           i == FirstHalt(p, H)
           new == Erase(Before(p, i), DOMAIN nodes)
<1>1. /\ AddDirectories(new)
      /\ MkdirEnds(op, p, i)
  BY DEF Mkdir, MkdirEnds, Halts, Before
<1>2. p \in Seq(Parts)  BY RouteFacts
<1> HIDE DEF H
<1>3. /\ i \in 1..(Len(p) + 1)
      /\ i \in H \/ i = Len(p) + 1
      /\ \A j \in 1..(i - 1) : j \notin H
  BY <1>2, FirstHaltIs
<1> HIDE DEF i
<1>4. /\ new \in Seq(Routes) /\ IsInjective(new)
      /\ ToSet(new) = {Prefix(p, j) : j \in 1..(i - 1)} \ DOMAIN nodes
  BY <1>3, CreatedDirectories
<1> HIDE DEF new
<1>5. i = FirstHalt(p, H) /\ H = Halts(p, recursively)  BY DEF i, H
<1> QED  BY <1>1, <1>3, <1>4, <1>5

\* mkdir.
LEMMA MkdirKeeps ==
  ASSUME Tree(nodes), Lists, NEW p \in Routes, NEW recursively \in BOOLEAN, NEW op,
         Mkdir(op, p, recursively)
  PROVE  Tree(nodes') /\ Lists'
<1>1. PICK i \in 1..(Len(p) + 1), new \in Seq(Routes) :
        /\ i = FirstHalt(p, Halts(p, recursively))
        /\ i \in Halts(p, recursively) \/ i = Len(p) + 1
        /\ \A j \in 1..(i - 1) : j \notin Halts(p, recursively)
        /\ IsInjective(new)
        /\ ToSet(new) = {Prefix(p, j) : j \in 1..(i - 1)} \ DOMAIN nodes
        /\ AddDirectories(new)
        /\ MkdirEnds(op, p, i)
  BY MkdirDoes
<1>2. ToSet(new) \cap DOMAIN nodes = {}  BY <1>1
<1>3. Lists'  BY <1>1, <1>2, DirectoriesListed
<1>4. Len(p) \in Nat \ {0} /\ p \in Seq(Parts) /\ DOMAIN p = 1..Len(p)  BY RouteFacts
<1>5. ASSUME NEW q \in ToSet(new), NEW k \in 1..(Len(q) - 1)
      PROVE  \/ Prefix(q, k) \in DOMAIN nodes /\ nodes[Prefix(q, k)] = "DIRECTORY"
             \/ Prefix(q, k) \in ToSet(new)
  <2>1. PICK j \in 1..(i - 1) : q = Prefix(p, j)  BY <1>1
  <2>2. j \in 1..Len(p) /\ j \in 0..Len(p)  BY <1>4
  <2>3. Len(q) = j  BY <2>1, <2>2, RouteFacts
  <2>4. k \in 1..(i - 1) /\ k \in 0..j /\ k \in 1..Len(p)  BY <1>4, <2>2, <2>3
  <2>5. Prefix(q, k) = Prefix(p, k)  BY <1>4, <2>1, <2>2, <2>4, PrefixFacts
  <2>6. ~ MkdirHalts(p, k, recursively)  BY <1>1, <1>4, <2>4 DEF Halts
  <2>7. CASE Prefix(p, k) \in DOMAIN nodes
    <3>1. nodes[Prefix(p, k)] # "FILE"  BY <2>6, <2>7 DEF MkdirHalts, Found, Exists, Is
    <3> QED  BY <2>5, <2>7, <3>1 DEF Tree
  <2>8. CASE Prefix(p, k) \notin DOMAIN nodes
    <3>1. Prefix(p, k) \in ToSet(new)  BY <1>1, <2>4, <2>8
    <3> QED  BY <2>5, <3>1
  <2> QED  BY <2>7, <2>8
<1>6. ToSet(new) \subseteq Routes \ DOMAIN nodes
  <2>1. ToSet(new) \subseteq Routes  BY DEF ToSet
  <2> QED  BY <1>2, <2>1
<1>7. Tree(With(nodes, ToSet(new), "DIRECTORY"))
  <2> DEFINE P == ToSet(new)
             d == "DIRECTORY"
  <2>1. /\ P \subseteq Routes \ DOMAIN nodes /\ d \in {"FILE", "DIRECTORY"}
        /\ \A q \in P : \A k \in 1..(Len(q) - 1) :
             \/ Prefix(q, k) \in DOMAIN nodes /\ nodes[Prefix(q, k)] = "DIRECTORY"
             \/ Prefix(q, k) \in P /\ d = "DIRECTORY"
    BY <1>5, <1>6
  <2> HIDE DEF P, d
  <2>2. Tree(With(nodes, P, d))  BY <2>1, TreeWith
  <2> QED  BY <2>2 DEF P, d
<1> QED  BY <1>1, <1>3, <1>7 DEF AddDirectories

NoFolder(p) == {i \in DOMAIN p : p[i] = Empty \/ ~ Is(Prefix(p, i), "DIRECTORY")}

\* Where the walk of mkfile and getNode ends.
LEMMA WalkEnds ==
  ASSUME NEW p \in Routes
  PROVE  LET i == FirstNoFolder(p)
         IN  /\ i \in 1..(Len(p) + 1) /\ Len(p) \in Nat \ {0}
             /\ i \in NoFolder(p) \/ i = Len(p) + 1
             /\ \A j \in 1..(i - 1) :
                  /\ j \in 1..Len(p) /\ p[j] # Empty
                  /\ Prefix(p, j) \in DOMAIN nodes /\ nodes[Prefix(p, j)] = "DIRECTORY"
<1> DEFINE i == FirstNoFolder(p)
<1>1. p \in Seq(Parts) /\ Len(p) \in Nat \ {0} /\ DOMAIN p = 1..Len(p)  BY RouteFacts
<1>2. i = FirstHalt(p, NoFolder(p))  BY DEF FirstNoFolder, NoFolder
<1> HIDE DEF i
<1>3. /\ i \in 1..(Len(p) + 1)
      /\ i \in NoFolder(p) \/ i = Len(p) + 1
      /\ \A j \in 1..(i - 1) : j \notin NoFolder(p)
  <2> DEFINE H == NoFolder(p)
  <2> HIDE DEF H
  <2>1. /\ FirstHalt(p, H) \in 1..(Len(p) + 1)
        /\ FirstHalt(p, H) \in H \/ FirstHalt(p, H) = Len(p) + 1
        /\ \A j \in 1..(FirstHalt(p, H) - 1) : j \notin H
    BY <1>1, FirstHaltIs
  <2>2. i = FirstHalt(p, H)  BY <1>2 DEF H
  <2> QED  BY <2>1, <2>2 DEF H
<1>4. \A j \in 1..(i - 1) : j \in DOMAIN p  BY <1>1, <1>3
<1>5. ASSUME NEW j \in 1..(i - 1)
      PROVE  /\ j \in 1..Len(p) /\ p[j] # Empty
             /\ Prefix(p, j) \in DOMAIN nodes /\ nodes[Prefix(p, j)] = "DIRECTORY"
  BY <1>1, <1>3, <1>4 DEF NoFolder, Is
<1> QED  BY <1>1, <1>3, <1>5 DEF i

\* mkfile.
LEMMA MkfileKeeps ==
  ASSUME Tree(nodes), Lists, NEW p \in Routes, Mkfile(p)
  PROVE  Tree(nodes') /\ Lists'
<1> DEFINE i == FirstNoFolder(p)
           q == Prefix(p, i)
<1>1. /\ i \in 1..(Len(p) + 1) /\ Len(p) \in Nat \ {0}
      /\ \A j \in 1..(i - 1) :
           Prefix(p, j) \in DOMAIN nodes /\ nodes[Prefix(p, j)] = "DIRECTORY"
  BY WalkEnds
<1>2. CASE EndsAt(p, i) /\ ~ Exists(q) /\ ~ NullAt(p, i)
  <2>1. AddFile(q)  BY <1>2 DEF Mkfile
  <2>2. i \in 1..Len(p) /\ i \in 0..Len(p) /\ p \in Seq(Parts)
    <3> HIDE DEF i
    <3> QED  BY <1>1, <1>2, RouteFacts DEF EndsAt
  <2>3. q \in Routes \ DOMAIN nodes /\ Len(q) = i
    <3> HIDE DEF i
    <3> QED  BY <1>2, <2>2, RouteFacts DEF Exists
  <2>4. \A k \in 1..(Len(q) - 1) : Prefix(q, k) = Prefix(p, k)
    <3> HIDE DEF i
    <3>1. \A k \in 1..(i - 1) : k \in 0..i  BY <1>1
    <3>2. \A k \in 0..i : Prefix(Prefix(p, i), k) = Prefix(p, k)  BY <2>2, PrefixFacts
    <3> QED  BY <2>3, <3>1, <3>2
  <2> HIDE DEF q, i
  <2>5. Lists'  BY <2>1, <2>3, FileListed
  <2>6. Tree(With(nodes, {q}, "FILE"))
    <3> DEFINE P == {q}
               t == "FILE"
    <3>1. /\ P \subseteq Routes \ DOMAIN nodes /\ t \in {"FILE", "DIRECTORY"}
          /\ \A r \in P : \A k \in 1..(Len(r) - 1) :
               \/ Prefix(r, k) \in DOMAIN nodes /\ nodes[Prefix(r, k)] = "DIRECTORY"
               \/ Prefix(r, k) \in P /\ t = "DIRECTORY"
      BY <1>1, <2>3, <2>4
    <3> HIDE DEF P, t
    <3>2. Tree(With(nodes, P, t))  BY <3>1, TreeWith
    <3> QED  BY <3>2 DEF P, t
  <2> QED  BY <2>1, <2>5, <2>6 DEF AddFile
<1>3. CASE ~ (EndsAt(p, i) /\ ~ Exists(q) /\ ~ NullAt(p, i))
  <2>1. UNCHANGED treeVars  BY <1>3 DEF Mkfile
  <2> QED  BY <2>1 DEF treeVars, listVars, Lists, ListsMatchTree, OfType
<1> QED  BY <1>2, <1>3

\* A node that is found is in the tree.
LEMMA NodesFound ==
  ASSUME Tree(nodes), NEW p \in Routes
  PROVE  NodesOf(p) \subseteq DOMAIN nodes
<1> DEFINE i == FirstNoFolder(p)
<1>1. /\ i \in 1..(Len(p) + 1) /\ Len(p) \in Nat \ {0}
      /\ \A j \in 1..(i - 1) :
           Prefix(p, j) \in DOMAIN nodes /\ nodes[Prefix(p, j)] = "DIRECTORY"
  BY WalkEnds
<1>2. NodesOf(p) = IF i > Len(p) THEN {p} ELSE {q \in {Prefix(p, i)} : EndsAt(p, i) /\ Is(q, "FILE")}
  BY DEF NodesOf
<1> HIDE DEF i
<1>3. CASE i > Len(p)
  <2>1. Len(p) \in 1..(i - 1) /\ Prefix(p, Len(p)) = p  BY <1>1, <1>3, RouteFacts
  <2> QED  BY <1>1, <1>2, <1>3, <2>1
<1>4. CASE ~ i > Len(p)  BY <1>2, <1>4 DEF Is
<1> QED  BY <1>3, <1>4

\* rm.
LEMMA RmKeeps ==
  ASSUME Tree(nodes), Lists, NEW p \in Routes, NEW recursively \in BOOLEAN, NEW op,
         Rm(op, p, recursively)
  PROVE  Tree(nodes') /\ Lists'
<1>1. ASSUME NEW q \in NodesOf(p), RemoveNode(q)  PROVE Tree(nodes') /\ Lists'
  <2>1. q \in Routes  BY NodesFound DEF Tree
  <2>2. Lists'  BY <1>1, NodeUnlisted
  <2>3. nodes' = Without(nodes, {r \in DOMAIN nodes : IsPrefix(q, r)})
    BY <1>1 DEF RemoveNode, Subtree
  <2> QED  BY <2>1, <2>2, <2>3, TreeWithout
<1>2. ASSUME UNCHANGED treeVars  PROVE Tree(nodes') /\ Lists'
  BY <1>2 DEF treeVars, listVars, Lists, ListsMatchTree, OfType
<1>3. (\E q \in NodesOf(p) : RemoveNode(q)) \/ UNCHANGED treeVars
  BY DEF Rm
<1> QED  BY <1>1, <1>2, <1>3

\* A file leaves the list of those to punch.
LEMMA PunchListKeeps ==
  ASSUME Tree(nodes), Lists, LeavePunchList
  PROVE  Tree(nodes') /\ Lists'
<1>1. PICK f \in ToSet(files_for_fallocate) :
        files_for_fallocate' = Erase(files_for_fallocate, {f})
  BY DEF LeavePunchList
<1>2. UNCHANGED <<nodes, all_directories, all_files, directory_count, file_count>>
  BY DEF LeavePunchList
<1>3. /\ files_for_fallocate' \in Seq(Routes)
      /\ ToSet(files_for_fallocate') \subseteq ToSet(files_for_fallocate)
      /\ IsInjective(files_for_fallocate')
  BY <1>1, EraseFacts DEF Lists, ListsMatchTree
<1> QED  BY <1>2, <1>3 DEF Lists, ListsMatchTree, OfType

-----------------------------------------------------------------------------
(***************************************************************************)
(* The two users only call operations of the tree, with paths.             *)
(***************************************************************************)
Operation(p) ==
  \/ Mkdir("mkdir", p, FALSE) \/ Mkdir("mkdir -p", p, TRUE)
  \/ Mkfile(p) \/ GetNode(p)
  \/ Rm("rm", p, FALSE) \/ Rm("rm -r", p, TRUE)

\* A null folder has a path, and no folder is there.
NullsApart == nulls \subseteq Routes /\ \A q \in nulls : ~ Is(q, "DIRECTORY")

Sound == Tree(nodes) /\ Lists /\ NullsApart /\ directory_id \in Nat /\ file_id \in Nat

\* What "api" calls with and what "scenario" makes up are paths.
LEMMA PathsAreRoutes ==
  /\ Paths \subseteq Routes
  /\ \A n \in Nat : <<"dir", n>> \in Parts /\ <<"file", n>> \in Parts
  /\ \A p \in Routes \cup {<<>>} : \A e \in Parts : Append(p, e) \in Routes
<1>1. ASSUME NEW p \in Paths  PROVE p \in Routes
  <2>1. p \in Seq(ToSet(p)) /\ p # <<>> /\ ToSet(p) \subseteq Parts  BY TreeAssumption DEF Parts
  <2> DEFINE S == ToSet(p)
  <2> HIDE DEF S
  <2>2. p \in Seq(S) /\ S \subseteq Parts  BY <2>1 DEF S
  <2>3. p \in Seq(Parts)  BY <2>2
  <2> QED  BY <2>1, <2>3 DEF Routes
<1>2. ASSUME NEW p \in Routes \cup {<<>>}, NEW e \in Parts  PROVE Append(p, e) \in Routes
  <2>1. p \in Seq(Parts)
    <3>1. CASE p \in Routes  BY <3>1 DEF Routes
    <3>2. CASE p = <<>>  BY <3>2, EmptySeq
    <3> QED  BY <3>1, <3>2
  <2>2. Append(p, e) \in Seq(Parts) /\ Len(Append(p, e)) = Len(p) + 1 /\ Len(p) \in Nat  BY <2>1
  <2>3. Append(p, e) # <<>>  BY <2>2
  <2> QED  BY <2>2, <2>3 DEF Routes
<1>3. \A n \in Nat : <<"dir", n>> \in Parts /\ <<"file", n>> \in Parts  BY DEF Parts
<1> QED  BY <1>1, <1>2, <1>3

\* What the scenario reaches is a path or the root.
LEMMA ReachedPaths ==
  ASSUME Tree(nodes)
  PROVE  Reached \subseteq Routes \cup {<<>>}
BY DEF Tree, Reached, OfType

\* Every step is an operation with a path, leaves the list of files to punch, or
\* leaves the tree alone.
LEMMA StepsOfTheTree ==
  ASSUME Sound, [Next]_vars
  PROVE  \/ \E p \in Routes : Operation(p)
         \/ LeavePunchList
         \/ UNCHANGED <<treeVars, call>>
<1>1. CASE Api
  <2>1. \E p \in Paths : Operation(p)  BY <1>1 DEF Api, Operation
  <2> QED  BY <2>1, PathsAreRoutes
<1>2. CASE CreateDir
  <2>1. PICK p \in Reached : Mkdir("mkdir", Append(p, DirName), FALSE)  BY <1>2 DEF CreateDir
  <2>2. Append(p, DirName) \in Routes  BY ReachedPaths, PathsAreRoutes DEF Sound, DirName
  <2> QED  BY <2>1, <2>2 DEF Operation
<1>3. CASE CreateFile
  <2>1. PICK p \in Reached : Mkfile(Append(p, FileName))  BY <1>3 DEF CreateFile
  <2>2. Append(p, FileName) \in Routes  BY ReachedPaths, PathsAreRoutes DEF Sound, FileName
  <2> QED  BY <2>1, <2>2 DEF Operation
<1>4. CASE DeleteFile
  <2>1. PICK f \in ToSet(all_files) : Rm("rm", f, FALSE)  BY <1>4 DEF DeleteFile
  <2>2. f \in Routes  BY DEF Sound, Lists, ToSet
  <2> QED  BY <2>1, <2>2 DEF Operation
<1>5. CASE LeavePunchList  BY <1>5
<1>6. CASE CleanUp \/ EnterDir \/ RemoveDir \/ CleanedUp
  BY <1>6 DEF CleanUp, EnterDir, RemoveDir, CleanedUp
<1>7. CASE UNCHANGED vars  BY <1>7 DEF vars
<1> QED  BY <1>1, <1>2, <1>3, <1>4, <1>5, <1>6, <1>7 DEF Next

\* The names are numbered.
LEMMA IdsCount ==
  ASSUME Sound, [Next]_vars
  PROVE  directory_id' \in Nat /\ file_id' \in Nat
<1>1. CASE CreateDir  BY <1>1 DEF CreateDir, Sound
<1>2. CASE CreateFile  BY <1>2 DEF CreateFile, Sound
<1>3. CASE Api \/ DeleteFile \/ LeavePunchList \/ CleanUp \/ EnterDir \/ RemoveDir \/ CleanedUp
  BY <1>3 DEF Sound, Api, DeleteFile, LeavePunchList, CleanUp, EnterDir, RemoveDir, CleanedUp, idVars
<1>4. CASE UNCHANGED vars  BY <1>4 DEF vars, idVars, Sound
<1> QED  BY <1>1, <1>2, <1>3, <1>4 DEF Next

\* At the beginning there is nothing to list.
LEMMA SoundInit == Init => Sound
<1> SUFFICES ASSUME Init  PROVE Sound
  OBVIOUS
<1>1. nodes = Nothing /\ DOMAIN nodes = {}  BY DEF Init, Nothing
<1>2. Tree(nodes)  BY <1>1 DEF Tree, Nothing
<1>3. /\ all_directories = <<>> /\ all_files = <<>> /\ files_for_fallocate = <<>>
      /\ directory_count = 0 /\ file_count = 0 /\ directory_id = 0 /\ file_id = 0
  BY DEF Init
<1>4. <<>> \in Seq(Routes) /\ ToSet(<<>>) = {} /\ IsInjective(<<>>) /\ Len(<<>>) = 0
  BY DEF ToSet, IsInjective
<1>5. OfType(DOMAIN nodes, "FILE") = {} /\ OfType(DOMAIN nodes, "DIRECTORY") = {}
  BY <1>1 DEF OfType
<1>6. NullsApart  BY DEF Init, NullsApart
<1> QED  BY <1>2, <1>3, <1>4, <1>5, <1>6 DEF Sound, Lists, ListsMatchTree

\* An operation leaves a null folder only where there is no other.
LEMMA NullsKept ==
  ASSUME Sound, NEW p \in Routes, Operation(p)
  PROVE  NullsApart'
<1>1. nulls \subseteq Routes /\ (\A q \in nulls : ~ Is(q, "DIRECTORY")) /\ Tree(nodes)
  BY DEF Sound, NullsApart
<1>2. ASSUME NEW op, NEW rec \in BOOLEAN, Mkdir(op, p, rec)  PROVE NullsApart'
  <2>1. PICK i \in 1..(Len(p) + 1), new \in Seq(Routes) :
          /\ \A j \in 1..(i - 1) : j \notin Halts(p, rec)
          /\ ToSet(new) = {Prefix(p, j) : j \in 1..(i - 1)} \ DOMAIN nodes
          /\ nodes' = With(nodes, ToSet(new), "DIRECTORY")
          /\ MkdirEnds(op, p, i)
    BY <1>2, MkdirDoes DEF AddDirectories
  <2>2. Len(p) \in Nat \ {0} /\ DOMAIN p = 1..Len(p)  BY RouteFacts
  <2>3. \A j \in 1..(i - 1) : j \in 1..Len(p) /\ Len(Prefix(p, j)) = j
    BY <2>2, RouteFacts
  <2>4. ToSet(new) \cap nulls = {}
    <3> SUFFICES ASSUME NEW j \in 1..(i - 1), Prefix(p, j) \notin DOMAIN nodes, Prefix(p, j) \in nulls
                 PROVE  FALSE
      BY <2>1
    <3>1. ~ MkdirHalts(p, j, rec)  BY <2>1, <2>2, <2>3 DEF Halts
    <3> QED  BY <3>1 DEF MkdirHalts, Found, Is
  <2>5. DOMAIN nodes' = DOMAIN nodes \cup ToSet(new)
        /\ \A q \in DOMAIN nodes' : nodes'[q] = IF q \in ToSet(new) THEN "DIRECTORY" ELSE nodes[q]
    BY <2>1 DEF With
  <2>6. \A q : Is(q, "DIRECTORY")' => Is(q, "DIRECTORY") \/ q \in ToSet(new)
    BY <2>5 DEF Is
  <2>7. \A q \in nulls : ~ Is(q, "DIRECTORY")'  BY <1>1, <2>4, <2>6
  <2>8. CASE UNCHANGED nulls  BY <1>1, <2>7, <2>8 DEF NullsApart
  <2>9. CASE i <= Len(p) /\ EntersNull(p, i) /\ nulls' = nulls \cup {Prefix(p, i)}
    <3>1. i \in 1..Len(p) /\ Prefix(p, i) \in Routes /\ Len(Prefix(p, i)) = i
      BY <2>2, <2>9, RouteFacts
    <3>2. Prefix(p, i) \notin ToSet(new)
      <4> SUFFICES ASSUME NEW j \in 1..(i - 1), Prefix(p, i) = Prefix(p, j)  PROVE FALSE
        BY <2>1
      <4> QED  BY <2>3, <3>1
    <3>3. ~ Is(Prefix(p, i), "DIRECTORY")'  BY <2>6, <2>9, <3>2 DEF EntersNull
    <3> QED  BY <1>1, <2>7, <2>9, <3>1, <3>3 DEF NullsApart
  <2> QED  BY <2>1, <2>8, <2>9 DEF MkdirEnds
<1>3. CASE UNCHANGED treeVars  BY <1>1, <1>3 DEF treeVars, NullsApart, Is
<1>4. ASSUME NEW q, AddFile(q)  PROVE NullsApart'
  <2>1. nulls' = nulls /\ nodes' = With(nodes, {q}, "FILE")  BY <1>4 DEF AddFile
  <2>2. \A r : Is(r, "DIRECTORY")' => Is(r, "DIRECTORY")  BY <2>1 DEF Is, With
  <2> QED  BY <1>1, <2>1, <2>2 DEF NullsApart
<1>5. ASSUME NEW q, RemoveNode(q)  PROVE NullsApart'
  <2>1. nulls' = nulls /\ nodes' = Without(nodes, Subtree(q))  BY <1>5 DEF RemoveNode
  <2>2. \A r : Is(r, "DIRECTORY")' => Is(r, "DIRECTORY")  BY <2>1 DEF Is, Without
  <2> QED  BY <1>1, <2>1, <2>2 DEF NullsApart
<1>6. CASE Mkfile(p)  BY <1>3, <1>4, <1>6 DEF Mkfile
<1>7. CASE GetNode(p)  BY <1>3, <1>7 DEF GetNode
<1>8. ASSUME NEW op, NEW rec, Rm(op, p, rec)  PROVE NullsApart'
  BY <1>3, <1>5, <1>8 DEF Rm
<1> QED  BY <1>2, <1>6, <1>7, <1>8 DEF Operation

\* Every step keeps the tree and what is listed of it.
LEMMA SoundStep == Sound /\ [Next]_vars => Sound'
<1> SUFFICES ASSUME Sound, [Next]_vars  PROVE Sound'
  OBVIOUS
<1>1. Tree(nodes) /\ Lists  BY DEF Sound
<1>2. Tree(nodes') /\ Lists'
  <2>1. CASE LeavePunchList  BY <1>1, <2>1, PunchListKeeps
  <2>2. CASE UNCHANGED <<treeVars, call>>
    BY <1>1, <2>2 DEF treeVars, listVars, Lists, ListsMatchTree, OfType
  <2>3. ASSUME NEW p \in Routes, Operation(p)  PROVE Tree(nodes') /\ Lists'
    <3>1. CASE Mkdir("mkdir", p, FALSE)  BY <1>1, <3>1, MkdirKeeps
    <3>2. CASE Mkdir("mkdir -p", p, TRUE)  BY <1>1, <3>2, MkdirKeeps
    <3>3. CASE Mkfile(p)  BY <1>1, <3>3, MkfileKeeps
    <3>4. CASE GetNode(p)
      BY <1>1, <3>4 DEF GetNode, treeVars, listVars, Lists, ListsMatchTree, OfType
    <3>5. CASE Rm("rm", p, FALSE)  BY <1>1, <3>5, RmKeeps
    <3>6. CASE Rm("rm -r", p, TRUE)  BY <1>1, <3>6, RmKeeps
    <3> QED  BY <2>3, <3>1, <3>2, <3>3, <3>4, <3>5, <3>6 DEF Operation
  <2> QED  BY <2>1, <2>2, <2>3, StepsOfTheTree
<1>3. NullsApart'
  <2>1. CASE LeavePunchList
    BY <2>1 DEF LeavePunchList, Sound, NullsApart, Is
  <2>2. CASE UNCHANGED <<treeVars, call>>
    BY <2>2 DEF treeVars, Sound, NullsApart, Is
  <2> QED  BY <2>1, <2>2, NullsKept, StepsOfTheTree
<1> QED  BY <1>2, <1>3, IdsCount DEF Sound

\* The tree is a tree, and what is listed of it is in it, in every state.
THEOREM TreeIsSound == Spec => []Sound
<1> QED  BY SoundInit, SoundStep, PTL DEF Spec

\* The lists and the counters of the tree say what the tree says, whatever is
\* called with whatever path, and no null folder that mkdir leaves is listed.
THEOREM ListsAlwaysAgree == Spec => []ListsAgree
<1>1. Sound => ListsAgree
  BY DEF Sound, Lists, ListsAgree, ListsMatchTree, NullsApart, OfType, Is
<1> QED  BY <1>1, TreeIsSound, PTL

-----------------------------------------------------------------------------
(***************************************************************************)
(* The tree keeps the promise PathSet makes.                               *)
(***************************************************************************)
\* The helpers of the promise are those of the tree.
LEMMA PromiseHelpers ==
  /\ \A p, i : Promise!Prefix(p, i) = Prefix(p, i)
  /\ \A p : Promise!Above(p) = {Prefix(p, i) : i \in 1..(Len(p) - 1)}
  /\ \A p : Promise!Parent(p) = Prefix(p, Len(p) - 1)
  /\ \A n, P, type : Promise!With(n, P, type) = With(n, P, type)
  /\ \A n, P : Promise!Without(n, P) = Without(n, P)
  /\ \A op, p, result : Promise!Replies(op, p, result) <=> Reply(op, p, result)
  /\ \A p : Promise!Exists(p) <=> Exists(p)
BY DEF Promise!Prefix, Prefix, Promise!Above, Promise!Parent, Promise!With, With, Promise!Without,
       Without, Promise!Replies, Reply, Promise!Exists, Exists

\* A tree is the tree of the promise.
LEMMA TreeIsTree == \A n : Tree(n) => Promise!IsTree(n)
<1> SUFFICES ASSUME NEW n, Tree(n), NEW p \in DOMAIN n
             PROVE  /\ Len(p) > 0
                    /\ \A q \in Promise!Above(p) : q \in DOMAIN n /\ n[q] = "DIRECTORY"
  BY DEF Promise!IsTree
<1>1. Len(p) \in Nat \ {0}  BY RouteFacts DEF Tree
<1>2. Promise!Above(p) = {Prefix(p, i) : i \in 1..(Len(p) - 1)}  BY PromiseHelpers
<1> QED  BY <1>1, <1>2 DEF Tree

\* What a plain path is like.
LEMMA PlainPath ==
  ASSUME Tree(nodes), NEW p \in Routes, Promise!Plain(p)
  PROVE  /\ Len(p) \in Nat \ {0} /\ Prefix(p, Len(p)) = p /\ IsBack(p, Len(p))
         /\ DOMAIN p = 1..Len(p) /\ \A j \in 1..Len(p) : p[j] # Empty
         /\ \A j \in 1..Len(p) : Prefix(p, j) \notin nulls
         /\ \A j \in 1..(Len(p) - 1) :
              /\ j \in 1..Len(p) /\ ~ IsBack(p, j)
              /\ Exists(Prefix(p, j)) => nodes[Prefix(p, j)] = "DIRECTORY"
         /\ Exists(p) => Promise!HasParent(p)
         /\ Promise!HasParent(p) <=> \A j \in 1..(Len(p) - 1) : Exists(Prefix(p, j))
<1>1. Len(p) \in Nat \ {0} /\ Prefix(p, Len(p)) = p /\ p \in Seq(Parts) /\ DOMAIN p = 1..Len(p)
  BY RouteFacts
<1>2. \A j \in 1..(Len(p) - 1) : j \in 1..Len(p)  BY <1>1
<1>3. /\ \A j \in 1..Len(p) : p[j] # Empty
      /\ \A j \in 1..(Len(p) - 1) : p[j] # p[Len(p)]
      /\ \A q \in {Prefix(p, j) : j \in 1..(Len(p) - 1)} : q \in DOMAIN nodes => nodes[q] = "DIRECTORY"
      /\ ({Prefix(p, j) : j \in 1..(Len(p) - 1)} \cup {p}) \cap nulls = {}
  BY <1>1, PromiseHelpers DEF Promise!Plain
<1>8. \A j \in 1..Len(p) : Prefix(p, j) \notin nulls
  <2> TAKE j \in 1..Len(p)
  <2>1. CASE j = Len(p)  BY <1>1, <1>3, <2>1
  <2>2. CASE j # Len(p)
    <3> DEFINE n == Len(p)
    <3>1. n \in Nat /\ j \in 1..n /\ j # n  BY <1>1, <2>2
    <3> HIDE DEF n
    <3>2. j \in 1..(n - 1)  BY <3>1
    <3> QED  BY <1>3, <3>2 DEF n
  <2> QED  BY <2>1, <2>2
<1>4. \A j \in 1..(Len(p) - 1) : /\ j \in 1..Len(p) /\ ~ IsBack(p, j)
                                 /\ Exists(Prefix(p, j)) => nodes[Prefix(p, j)] = "DIRECTORY"
  BY <1>2, <1>3 DEF IsBack, Exists
<1>5. Exists(p) => \A j \in 1..(Len(p) - 1) : Exists(Prefix(p, j))
  BY DEF Tree, Exists
<1>6. Promise!HasParent(p) <=> Len(p) = 1 \/ Exists(Prefix(p, Len(p) - 1))
  BY PromiseHelpers DEF Promise!HasParent
<1>7. Promise!HasParent(p) <=> \A j \in 1..(Len(p) - 1) : Exists(Prefix(p, j))
  <2>1. CASE Len(p) = 1  BY <1>6, <2>1
  <2>2. CASE Len(p) # 1
    <3> DEFINE q == Prefix(p, Len(p) - 1)
    <3>1. Len(p) - 1 \in 1..Len(p) /\ Len(p) - 1 \in 0..Len(p) /\ Len(p) - 1 \in 1..(Len(p) - 1)
      BY <1>1, <2>2
    <3>2. Len(q) = Len(p) - 1  BY <3>1, RouteFacts
    <3>3. \A j \in 0..(Len(p) - 1) : Prefix(q, j) = Prefix(p, j)  BY <1>1, <3>1, PrefixFacts
    <3> HIDE DEF q
    <3>4. ASSUME Exists(q), NEW j \in 1..(Len(p) - 1)  PROVE Exists(Prefix(p, j))
      <4>1. CASE j = Len(p) - 1  BY <3>4, <4>1 DEF q
      <4>2. CASE j # Len(p) - 1
        <5>1. j \in 1..(Len(q) - 1) /\ j \in 0..(Len(p) - 1)
          <6> DEFINE n == Len(p)
                     m == Len(q)
          <6>1. n \in Nat /\ m = n - 1 /\ j \in 1..(n - 1) /\ j # n - 1  BY <1>1, <3>2, <4>2
          <6> HIDE DEF n, m
          <6>2. j \in 1..(m - 1) /\ j \in 0..(n - 1)  BY <6>1
          <6> QED  BY <6>2 DEF n, m
        <5>2. Prefix(q, j) \in DOMAIN nodes  BY <3>4, <5>1 DEF Tree, Exists
        <5> QED  BY <3>3, <5>1, <5>2 DEF Exists
      <4> QED  BY <4>1, <4>2
    <3> QED  BY <1>6, <2>2, <3>1, <3>4 DEF q
  <2> QED  BY <2>1, <2>2
<1> QED  BY <1>1, <1>3, <1>4, <1>5, <1>7, <1>8 DEF IsBack

\* Nothing more, and nothing less.
LEMMA NothingMore ==
  ASSUME Tree(nodes)
  PROVE  /\ \A type : With(nodes, {}, type) = nodes
         /\ Without(nodes, {}) = nodes
<1>1. nodes = [q \in DOMAIN nodes |-> nodes[q]]  BY DEF Tree
<1>2. DOMAIN nodes \cup {} = DOMAIN nodes /\ DOMAIN nodes \ {} = DOMAIN nodes  OBVIOUS
<1> QED  BY <1>1, <1>2 DEF With, Without

\* mkdir and mkdir -p of a plain path create what they should.
LEMMA MkdirPromised ==
  ASSUME Tree(nodes), NEW p \in Routes, Promise!Plain(p)
  PROVE  /\ Mkdir("mkdir", p, FALSE) => Promise!Mkdir(p) /\ UNCHANGED nulls
         /\ Mkdir("mkdir -p", p, TRUE) => Promise!MkdirAll(p) /\ UNCHANGED nulls
<1> DEFINE n == Len(p)
<1>1. /\ n \in Nat \ {0} /\ Prefix(p, n) = p /\ IsBack(p, n) /\ DOMAIN p = 1..n
      /\ \A j \in 1..n : p[j] # Empty /\ (Found(Prefix(p, j)) <=> Exists(Prefix(p, j)))
      /\ \A j \in 1..(n - 1) : /\ j \in 1..n /\ ~ IsBack(p, j)
                               /\ Exists(Prefix(p, j)) => nodes[Prefix(p, j)] = "DIRECTORY"
      /\ Exists(p) => Promise!HasParent(p)
      /\ Promise!HasParent(p) <=> \A j \in 1..(n - 1) : Exists(Prefix(p, j))
  BY PlainPath DEF Found
<1> HIDE DEF n
<1>2. /\ \A j \in 1..(n - 1) :
           /\ j \in Halts(p, FALSE) <=> ~ Exists(Prefix(p, j))
           /\ j \notin Halts(p, TRUE)
      /\ n \in Halts(p, FALSE) <=> Exists(p)
      /\ n \in Halts(p, TRUE) <=> Exists(p)
  <2>1. ASSUME NEW j \in 1..(n - 1)
        PROVE  (j \in Halts(p, FALSE) <=> ~ Exists(Prefix(p, j))) /\ j \notin Halts(p, TRUE)
    <3>1. Exists(Prefix(p, j)) => Is(Prefix(p, j), "DIRECTORY")  BY <1>1 DEF Is, Exists
    <3> QED  BY <1>1, <3>1 DEF Halts, MkdirHalts
  <2>2. n \in 1..n  BY <1>1
  <2>3. (n \in Halts(p, FALSE) <=> Exists(p)) /\ (n \in Halts(p, TRUE) <=> Exists(p))
    BY <1>1, <2>2 DEF Halts, MkdirHalts
  <2> QED  BY <2>1, <2>3
<1> DEFINE Does(op, rec, i, new) ==
             /\ i \in Halts(p, rec) \/ i = n + 1
             /\ \A j \in 1..(i - 1) : j \notin Halts(p, rec)
             /\ ToSet(new) = {Prefix(p, j) : j \in 1..(i - 1)} \ DOMAIN nodes
             /\ nodes' = With(nodes, ToSet(new), "DIRECTORY")
             /\ \/ i = n + 1 /\ UNCHANGED nulls /\ Reply(op, p, "ok")
                \/ i <= n /\ UNCHANGED nulls /\ Reply(op, p, "threw")
<1>3. \A i \in 1..n : ~ EntersNull(p, i)
  <2> TAKE i \in 1..n
  <2>1. CASE i = n  BY <1>1, <2>1 DEF EntersNull
  <2>2. CASE i \in 1..(n - 1)  BY <1>1, <2>2 DEF EntersNull, Is, Exists
  <2> QED  BY <1>1, <2>1, <2>2
<1>4. ASSUME NEW op, NEW rec \in BOOLEAN, Mkdir(op, p, rec)
      PROVE  \E i \in 1..(n + 1), new \in Seq(Routes) : Does(op, rec, i, new)
  <2>1. PICK i \in 1..(n + 1), new \in Seq(Routes) :
          /\ i \in Halts(p, rec) \/ i = n + 1
          /\ \A j \in 1..(i - 1) : j \notin Halts(p, rec)
          /\ ToSet(new) = {Prefix(p, j) : j \in 1..(i - 1)} \ DOMAIN nodes
          /\ nodes' = With(nodes, ToSet(new), "DIRECTORY")
          /\ MkdirEnds(op, p, i)
    BY <1>4, MkdirDoes DEF AddDirectories, n
  <2>2. i <= n => ~ EntersNull(p, i)  BY <1>1, <1>3
  <2>3. \/ i = n + 1 /\ UNCHANGED nulls /\ Reply(op, p, "ok")
        \/ i <= n /\ UNCHANGED nulls /\ Reply(op, p, "threw")
    BY <2>1, <2>2 DEF MkdirEnds, n
  <2> QED  BY <2>1, <2>3
<1>6. 1..((n + 1) - 1) = 1..(n - 1) \cup {n}  BY <1>1
<1>7. ASSUME Mkdir("mkdir", p, FALSE)  PROVE Promise!Mkdir(p) /\ UNCHANGED nulls
  <2>1. PICK i \in 1..(n + 1), new \in Seq(Routes) : Does("mkdir", FALSE, i, new)
    BY <1>4, <1>7
  <2>2. CASE i = n + 1
    <3>1. ~ Exists(p) /\ Promise!HasParent(p)
      <4>1. \A j \in 1..(n - 1) : j \in 1..(i - 1) /\ n \in 1..(i - 1)  BY <1>1, <2>2
      <4>2. n \in 1..(i - 1)  BY <1>1, <2>2
      <4> QED  BY <1>1, <1>2, <2>1, <4>1, <4>2
    <3>2. ToSet(new) = {p}
      <4>1. {Prefix(p, j) : j \in 1..(i - 1)} = {Prefix(p, j) : j \in 1..(n - 1)} \cup {Prefix(p, n)}
        BY <1>6, <2>2, Zenon
      <4> QED  BY <1>1, <2>1, <3>1, <4>1 DEF Exists
    <3>3. Reply("mkdir", p, "ok")
      <4>1. ~ i <= n  BY <1>1, <2>2
      <4> QED  BY <2>1, <4>1
    <3>4. UNCHANGED nulls  BY <2>1
    <3> QED  BY <2>1, <3>1, <3>2, <3>3, <3>4, PromiseHelpers DEF Promise!Mkdir
  <2>3. CASE i <= n
    <3>1. i \in 1..n /\ i \in Halts(p, FALSE)
      <4>1. i \in 1..n /\ i # n + 1  BY <1>1, <2>3
      <4> QED  BY <2>1, <4>1
    <3>2. Reply("mkdir", p, "threw")
      <4>1. i # n + 1  BY <1>1, <2>3
      <4> QED  BY <2>1, <4>1
    <3>3. ~ (~ Exists(p) /\ Promise!HasParent(p))
      <4>1. CASE i = n  BY <1>1, <1>2, <3>1, <4>1
      <4>2. CASE i \in 1..(n - 1)  BY <1>1, <1>2, <3>1, <4>2
      <4> QED  BY <1>1, <3>1, <4>1, <4>2
    <3>4. ToSet(new) = {}
      <4>1. \A j \in 1..(i - 1) : j \in 1..(n - 1)  BY <1>1, <2>3
      <4>2. \A j \in 1..(i - 1) : Prefix(p, j) \in DOMAIN nodes  BY <1>2, <2>1, <4>1 DEF Exists
      <4> QED  BY <2>1, <4>2
    <3>5. nodes' = nodes  BY <2>1, <3>4, NothingMore
    <3>6. UNCHANGED nulls  BY <2>1
    <3> QED  BY <3>2, <3>3, <3>5, <3>6, PromiseHelpers DEF Promise!Mkdir, Promise!Refuses
  <2> QED  BY <1>1, <2>2, <2>3
<1>8. ASSUME Mkdir("mkdir -p", p, TRUE)  PROVE Promise!MkdirAll(p) /\ UNCHANGED nulls
  <2>1. PICK i \in 1..(n + 1), new \in Seq(Routes) : Does("mkdir -p", TRUE, i, new)
    BY <1>4, <1>8
  <2>2. CASE i = n + 1
    <3>1. ~ Exists(p)
      <4>1. n \in 1..(i - 1)  BY <1>1, <2>2
      <4> QED  BY <1>2, <2>1, <4>1
    <3>2. ToSet(new) = (Promise!Above(p) \cup {p}) \ DOMAIN nodes
      <4>1. {Prefix(p, j) : j \in 1..(i - 1)} = {Prefix(p, j) : j \in 1..(n - 1)} \cup {Prefix(p, n)}
        BY <1>6, <2>2, Zenon
      <4>2. Promise!Above(p) = {Prefix(p, j) : j \in 1..(n - 1)}  BY PromiseHelpers DEF n
      <4> QED  BY <1>1, <2>1, <4>1, <4>2
    <3>3. Reply("mkdir -p", p, "ok")
      <4>1. ~ i <= n  BY <1>1, <2>2
      <4> QED  BY <2>1, <4>1
    <3>4. nodes' = With(nodes, (Promise!Above(p) \cup {p}) \ DOMAIN nodes, "DIRECTORY")
      BY <2>1, <3>2
    <3>5. UNCHANGED nulls  BY <2>1
    <3> QED  BY <3>1, <3>3, <3>4, <3>5, PromiseHelpers DEF Promise!MkdirAll
  <2>3. CASE i <= n
    <3>1. i \in 1..n /\ i \in Halts(p, TRUE)
      <4>1. i \in 1..n /\ i # n + 1  BY <1>1, <2>3
      <4> QED  BY <2>1, <4>1
    <3>2. Reply("mkdir -p", p, "threw")
      <4>1. i # n + 1  BY <1>1, <2>3
      <4> QED  BY <2>1, <4>1
    <3>3. i = n
      <4>1. ~ i \in 1..(n - 1)  BY <1>2, <3>1
      <4> QED  BY <1>1, <3>1, <4>1
    <3>4. Exists(p)  BY <1>2, <3>1, <3>3
    <3>5. ToSet(new) = {}
      <4>1. \A j \in 1..(i - 1) : Prefix(p, j) \in DOMAIN nodes  BY <1>1, <3>3, <3>4 DEF Exists
      <4> QED  BY <2>1, <4>1
    <3>6. nodes' = nodes  BY <2>1, <3>5, NothingMore
    <3>7. UNCHANGED nulls  BY <2>1
    <3> QED  BY <3>2, <3>4, <3>6, <3>7, PromiseHelpers DEF Promise!MkdirAll, Promise!Refuses
  <2> QED  BY <1>1, <2>2, <2>3
<1> QED  BY <1>7, <1>8

\* Of a plain path, the node that is found is its own.
LEMMA PlainNode ==
  ASSUME Tree(nodes), NEW p \in Routes, Promise!Plain(p)
  PROVE  /\ NodesOf(p) = IF Exists(p) THEN {p} ELSE {}
         /\ LET i == FirstNoFolder(p)
            IN  EndsAt(p, i) /\ ~ Exists(Prefix(p, i)) <=> ~ Exists(p) /\ Promise!HasParent(p)
         /\ EndsAt(p, FirstNoFolder(p)) => Prefix(p, FirstNoFolder(p)) = p
         /\ ~ NullAt(p, FirstNoFolder(p)) /\ Missing(p) = "threw"
<1> DEFINE n == Len(p)
           i == FirstNoFolder(p)
<1>1. /\ n \in Nat \ {0} /\ Prefix(p, n) = p /\ IsBack(p, n) /\ DOMAIN p = 1..n
      /\ \A j \in 1..n : p[j] # Empty
      /\ \A j \in 1..(n - 1) : /\ j \in 1..n /\ ~ IsBack(p, j)
                               /\ Exists(Prefix(p, j)) => nodes[Prefix(p, j)] = "DIRECTORY"
      /\ Exists(p) => Promise!HasParent(p)
      /\ Promise!HasParent(p) <=> \A j \in 1..(n - 1) : Exists(Prefix(p, j))
  BY PlainPath
<1>2. /\ i \in 1..(n + 1)
      /\ i \in NoFolder(p) \/ i = n + 1
      /\ \A j \in 1..(i - 1) :
           /\ j \in 1..n /\ p[j] # Empty
           /\ Prefix(p, j) \in DOMAIN nodes /\ nodes[Prefix(p, j)] = "DIRECTORY"
  BY WalkEnds
<1>3. NodesOf(p) = IF i > n THEN {p} ELSE {q \in {Prefix(p, i)} : EndsAt(p, i) /\ Is(q, "FILE")}
  BY DEF NodesOf
<1>9. ~ NullAt(p, i) /\ Missing(p) = "threw"
  <2>1. \A j \in 1..n : Prefix(p, j) \notin nulls  BY PlainPath
  <2>2. i <= n => i \in 1..n
    <3> HIDE DEF i, n
    <3> QED  BY <1>1, <1>2
  <2> QED  BY <2>1, <2>2 DEF NullAt, Missing
<1>4. EndsAt(p, i) <=> i <= n /\ p[i] # Empty /\ IsBack(p, i)  BY DEF EndsAt
<1> HIDE DEF n, i
<1>5. i \in 1..(n - 1) \/ i = n \/ i = n + 1  BY <1>1, <1>2
<1>6. CASE i \in 1..(n - 1)
  <2>1. ~ EndsAt(p, i) /\ ~ i > n  BY <1>1, <1>4, <1>6
  <2>2. i \in NoFolder(p)
    <3>1. i # n + 1  BY <1>1, <1>6
    <3> QED  BY <1>2, <3>1
  <2>3. ~ Exists(Prefix(p, i))  BY <1>1, <1>6, <2>2 DEF NoFolder, Is, Exists
  <2>4. ~ Promise!HasParent(p) /\ ~ Exists(p)  BY <1>1, <1>6, <2>3
  <2>5. NodesOf(p) = {}  BY <1>3, <2>1
  <2> QED  BY <1>9, <2>1, <2>4, <2>5 DEF i
<1>7. CASE i = n
  <2>1. EndsAt(p, i) /\ ~ i > n /\ Prefix(p, i) = p  BY <1>1, <1>4, <1>7
  <2>2. Promise!HasParent(p)  BY <1>1, <1>2, <1>7 DEF Exists
  <2>3. i \in NoFolder(p) /\ p[i] # Empty  BY <1>1, <1>2, <1>7
  <2>4. ~ Is(p, "DIRECTORY")  BY <2>1, <2>3 DEF NoFolder
  <2>5. Exists(p) => Is(p, "FILE")  BY <2>4 DEF Is, Exists, Tree
  <2>6. NodesOf(p) = IF Exists(p) THEN {p} ELSE {}
    <3>1. NodesOf(p) = {q \in {p} : Is(q, "FILE")}  BY <1>3, <2>1
    <3>2. Is(p, "FILE") <=> Exists(p)  BY <2>5 DEF Is, Exists
    <3> QED  BY <3>1, <3>2
  <2> QED  BY <1>9, <2>1, <2>2, <2>6 DEF i
<1>8. CASE i = n + 1
  <2>1. i > n /\ ~ i <= n  BY <1>1, <1>8
  <2>2. ~ EndsAt(p, i)  BY <1>4, <2>1
  <2>3. n \in 1..(i - 1)  BY <1>1, <1>8
  <2>4. Exists(p)  BY <1>1, <1>2, <2>3 DEF Exists
  <2>5. NodesOf(p) = {p}  BY <1>3, <2>1
  <2> QED  BY <1>9, <2>2, <2>4, <2>5 DEF i
<1> QED  BY <1>5, <1>6, <1>7, <1>8, <1>9 DEF i

\* mkfile.
LEMMA MkfilePromised ==
  ASSUME Tree(nodes), NEW p \in Routes, Promise!Plain(p)
  PROVE  Mkfile(p) => Promise!Mkfile(p) /\ UNCHANGED nulls
<1> DEFINE i == FirstNoFolder(p)
<1> SUFFICES ASSUME Mkfile(p)  PROVE Promise!Mkfile(p) /\ UNCHANGED nulls
  OBVIOUS
<1>1. /\ EndsAt(p, i) /\ ~ Exists(Prefix(p, i)) <=> ~ Exists(p) /\ Promise!HasParent(p)
      /\ EndsAt(p, i) => Prefix(p, i) = p
      /\ ~ NullAt(p, i)
  BY PlainNode
<1>2. IF EndsAt(p, i) /\ ~ Exists(Prefix(p, i))
      THEN nodes' = With(nodes, {Prefix(p, i)}, "FILE") /\ Reply("mkfile", p, "ok")
      ELSE nodes' = nodes /\ Reply("mkfile", p, "threw")
  BY <1>1 DEF Mkfile, AddFile, treeVars
<1>4. UNCHANGED nulls  BY DEF Mkfile, AddFile, treeVars
<1> HIDE DEF i
<1>3. IF ~ Exists(p) /\ Promise!HasParent(p)
      THEN nodes' = With(nodes, {p}, "FILE") /\ Reply("mkfile", p, "ok")
      ELSE nodes' = nodes /\ Reply("mkfile", p, "threw")
  BY <1>1, <1>2
<1> QED  BY <1>3, <1>4, PromiseHelpers DEF Promise!Mkfile, Promise!Refuses

\* getNode.
LEMMA GetNodePromised ==
  ASSUME Tree(nodes), NEW p \in Routes, Promise!Plain(p)
  PROVE  GetNode(p) => Promise!GetNode(p) /\ UNCHANGED nulls
<1> SUFFICES ASSUME GetNode(p)  PROVE Promise!GetNode(p) /\ UNCHANGED nulls
  OBVIOUS
<1>1. NodesOf(p) = (IF Exists(p) THEN {p} ELSE {}) /\ Missing(p) = "threw"  BY PlainNode
<1>2. nodes' = nodes /\ nulls' = nulls  BY DEF GetNode, treeVars
<1>3. Reply("getNode", p, IF Exists(p) THEN nodes[p] ELSE "threw")
  BY <1>1 DEF GetNode
<1> QED  BY <1>2, <1>3, PromiseHelpers DEF Promise!GetNode

\* rm and rm -r.
LEMMA RmPromised ==
  ASSUME Tree(nodes), nulls \subseteq Routes, NEW p \in Routes, Promise!Plain(p),
         \A q \in nulls : p \notin Promise!Above(q)
  PROVE  /\ Rm("rm", p, FALSE) => Promise!Rm(p) /\ UNCHANGED nulls
         /\ Rm("rm -r", p, TRUE) => Promise!RmAll(p) /\ UNCHANGED nulls
<1>1. NodesOf(p) = (IF Exists(p) THEN {p} ELSE {}) /\ Missing(p) = "threw"  BY PlainNode
<1>6. NullsIn(p) = {}
  <2> SUFFICES ASSUME NEW q \in nulls, IsStrictPrefix(p, q)  PROVE FALSE
    BY DEF NullsIn
  <2>1. /\ Len(p) \in Nat \ {0} /\ p \in Seq(Parts)
        /\ Len(q) \in Nat \ {0} /\ q \in Seq(Parts)
    BY RouteFacts
  <2>2. Len(p) < Len(q) /\ Prefix(q, Len(p)) = p  BY <2>1, PrefixIs
  <2>3. Len(p) \in 1..(Len(q) - 1)  BY <2>1, <2>2
  <2> QED  BY <2>2, <2>3, PromiseHelpers
<1>2. Promise!Within(nodes, p) = Subtree(p)
  <2>1. ASSUME NEW q \in DOMAIN nodes
        PROVE  p \in Promise!Above(q) \cup {q} <=> IsPrefix(p, q)
    <3>1. q \in Routes  BY DEF Tree
    <3>2. /\ Len(p) \in Nat \ {0} /\ p \in Seq(Parts)
          /\ Len(q) \in Nat \ {0} /\ q \in Seq(Parts) /\ Prefix(q, Len(q)) = q
          /\ \A j \in 1..Len(q) : Len(Prefix(q, j)) = j
      BY <3>1, RouteFacts
    <3>3. IsPrefix(p, q) <=> Len(p) <= Len(q) /\ Prefix(q, Len(p)) = p  BY <3>2, PrefixIs
    <3>4. Promise!Above(q) = {Prefix(q, j) : j \in 1..(Len(q) - 1)}  BY PromiseHelpers
    <3>5. ASSUME p \in Promise!Above(q)  PROVE IsPrefix(p, q)
      <4>1. PICK j \in 1..(Len(q) - 1) : p = Prefix(q, j)  BY <3>4, <3>5
      <4>2. j \in 1..Len(q) /\ j <= Len(q)  BY <3>2
      <4>3. Len(p) = j  BY <3>2, <4>1, <4>2
      <4> QED  BY <3>3, <4>1, <4>2, <4>3
    <3>6. ASSUME p = q  PROVE IsPrefix(p, q)  BY <3>2, <3>3, <3>6
    <3>7. ASSUME IsPrefix(p, q), p # q  PROVE p \in Promise!Above(q)
      <4>1. Len(p) # Len(q)  BY <3>2, <3>3, <3>7
      <4>2. Len(p) \in 1..(Len(q) - 1)  BY <3>2, <3>3, <3>7, <4>1
      <4> QED  BY <3>3, <3>4, <3>7, <4>2
    <3> QED  BY <3>5, <3>6, <3>7
  <2> QED  BY <2>1 DEF Promise!Within, Subtree
<1>3. ASSUME NEW op, NEW rec \in BOOLEAN, Rm(op, p, rec)
      PROVE  IF Exists(p) /\ (rec \/ Subtree(p) = {p})
             THEN nodes' = Without(nodes, Subtree(p)) /\ Reply(op, p, "ok")
             ELSE nodes' = nodes /\ Reply(op, p, IF rec THEN "ok" ELSE "threw")
  BY <1>1, <1>3, <1>6 DEF Rm, IsEmpty, RemoveNode, treeVars
<1>7. ASSUME NEW op, NEW rec, Rm(op, p, rec)  PROVE UNCHANGED nulls
  BY <1>7 DEF Rm, RemoveNode, treeVars
<1>4. ASSUME Rm("rm", p, FALSE)  PROVE Promise!Rm(p) /\ UNCHANGED nulls
  <2>1. IF Exists(p) /\ Subtree(p) = {p}
        THEN nodes' = Without(nodes, {p}) /\ Reply("rm", p, "ok")
        ELSE nodes' = nodes /\ Reply("rm", p, "threw")
    BY <1>3, <1>4
  <2> QED  BY <1>2, <1>4, <1>7, <2>1, PromiseHelpers DEF Promise!Rm, Promise!Refuses
<1>5. ASSUME Rm("rm -r", p, TRUE)  PROVE Promise!RmAll(p) /\ UNCHANGED nulls
  <2>1. IF Exists(p) THEN nodes' = Without(nodes, Subtree(p)) ELSE nodes' = nodes
    BY <1>3, <1>5
  <2>2. Reply("rm -r", p, "ok")  BY <1>3, <1>5
  <2>3. ASSUME ~ Exists(p)  PROVE Subtree(p) = {}
    <3> SUFFICES ASSUME NEW q \in DOMAIN nodes, IsPrefix(p, q)  PROVE FALSE
      BY DEF Subtree
    <3>1. q \in Routes  BY DEF Tree
    <3>2. /\ Len(p) \in Nat \ {0} /\ p \in Seq(Parts)
          /\ Len(q) \in Nat \ {0} /\ q \in Seq(Parts) /\ Prefix(q, Len(q)) = q
      BY <3>1, RouteFacts
    <3>3. Len(p) <= Len(q) /\ Prefix(q, Len(p)) = p  BY <3>2, PrefixIs
    <3>4. CASE Len(p) = Len(q)  BY <2>3, <3>2, <3>3, <3>4 DEF Exists
    <3>5. CASE Len(p) # Len(q)
      <4>1. Len(p) \in 1..(Len(q) - 1)  BY <3>2, <3>3, <3>5
      <4>2. Prefix(q, Len(p)) \in DOMAIN nodes  BY <4>1 DEF Tree
      <4> QED  BY <2>3, <3>3, <4>2 DEF Exists
    <3> QED  BY <3>4, <3>5
  <2>4. nodes' = Without(nodes, Subtree(p))  BY <2>1, <2>3, NothingMore
  <2> QED  BY <1>2, <1>5, <1>7, <2>2, <2>4, PromiseHelpers DEF Promise!RmAll
<1> QED  BY <1>4, <1>5

\* A part that is neither past the end nor the last one has a part after it.
LEMMA NotTheLast ==
  ASSUME NEW n \in Nat, NEW k \in 1..(n + 1), k <= n, k # n
  PROVE  k \in 1..(n - 1)
OBVIOUS

\* An operation spoils no path but that of a file mkdir comes through.
LEMMA Spoiling ==
  ASSUME Sound, NEW p \in Routes, Operation(p)
  PROVE  nulls \subseteq nulls' /\ \A q \in nulls' \ nulls : Promise!Spoils(p, q)
<1>1. ASSUME NEW op \in {"mkdir", "mkdir -p"}, NEW rec \in BOOLEAN, Mkdir(op, p, rec)
      PROVE  nulls \subseteq nulls' /\ \A q \in nulls' \ nulls : Promise!Spoils(p, q)
  <2>1. PICK i \in 1..(Len(p) + 1) : MkdirEnds(op, p, i)  BY <1>1, MkdirDoes
  <2>2. CASE UNCHANGED nulls  BY <2>2
  <2>3. CASE /\ i <= Len(p) /\ EntersNull(p, i) /\ nulls' = nulls \cup {Prefix(p, i)}
             /\ Reply(op, p, AfterNull(p, i))
    <3> DEFINE q == Prefix(p, i)
    <3>1. Len(p) \in Nat \ {0}  BY RouteFacts
    <3>2. i # Len(p)  BY <2>3 DEF EntersNull, IsBack
    <3>3. i \in 1..(Len(p) - 1)
      BY <2>3, <3>1, <3>2, NotTheLast, Zenon
    <3>4. q \in Promise!Above(p)  BY <3>3, PromiseHelpers
    <3>5. q \notin nulls => q \in DOMAIN nodes /\ nodes[q] = "FILE"
      BY <2>3 DEF EntersNull, Found, Exists, Is, Sound, Tree
    <3>6. call'.op = op  BY <2>3 DEF Reply
    <3> HIDE DEF q
    <3>7. q \notin nulls => Promise!Spoils(p, q)  BY <3>4, <3>5, <3>6 DEF Promise!Spoils
    <3>8. nulls' = nulls \cup {q}  BY <2>3 DEF q
    <3> QED  BY <3>7, <3>8
  <2> QED  BY <2>1, <2>2, <2>3 DEF MkdirEnds
<1>2. CASE Mkfile(p) \/ GetNode(p) \/ Rm("rm", p, FALSE) \/ Rm("rm -r", p, TRUE)
  <2>1. UNCHANGED nulls  BY <1>2 DEF Mkfile, GetNode, Rm, AddFile, RemoveNode, treeVars
  <2> QED  BY <2>1
<1> QED  BY <1>1, <1>2 DEF Operation

\* Every operation keeps the promise.
LEMMA OperationPromised ==
  ASSUME Sound, Sound', NEW p \in Routes, Operation(p)
  PROVE  Promise!Next
<1>1. \A op, result : Reply(op, p, result) => call'.path = p /\ call'.op = op  BY DEF Reply
<1>2. /\ \A op, rec : Mkdir(op, p, rec) => call'.path = p /\ call'.op = op
      /\ \A op, rec : Rm(op, p, rec) => call'.path = p /\ call'.op = op
      /\ Mkfile(p) \/ GetNode(p) => call'.path = p
  BY <1>1 DEF Mkdir, Rm, Mkfile, GetNode
<1>3. call'.path = p  BY <1>2 DEF Operation
<1>4. CASE Promise!Covered(call'.op, p)
  <2>1. Tree(nodes) /\ nulls \subseteq Routes /\ Promise!Plain(p)
    BY <1>4 DEF Sound, NullsApart, Promise!Covered
  <2>2. Rm("rm", p, FALSE) \/ Rm("rm -r", p, TRUE) => \A q \in nulls : p \notin Promise!Above(q)
    BY <1>2, <1>4 DEF Promise!Covered
  <2>3. /\ \/ Promise!Mkdir(p) \/ Promise!MkdirAll(p) \/ Promise!Mkfile(p) \/ Promise!GetNode(p)
           \/ Promise!Rm(p) \/ Promise!RmAll(p)
        /\ UNCHANGED nulls
    BY <2>1, <2>2, MkdirPromised, MkfilePromised, GetNodePromised, RmPromised DEF Operation
  <2> QED  BY <1>3, <1>4, <2>3 DEF Promise!Next, Promise!Promised
<1>5. CASE ~ Promise!Covered(call'.op, p)
  <2>1. Promise!IsTree(nodes')  BY TreeIsTree DEF Sound
  <2> QED  BY <1>3, <1>5, <2>1, Spoiling DEF Promise!Next, Promise!Unpromised
<1> QED  BY <1>4, <1>5

\* The initial states map to initial states, and every step to one of the promise
\* or to none: for plain paths, as long as no mkdir through a file has spoilt them,
\* the tree is a set of directories and files named by their paths, with the errors
\* one expects; for all others it stays a tree, and no operation but such a mkdir
\* spoils a path, and only that of the file.
THEOREM TreeKeepsItsPromise == Spec => ImplementsPathSet
<1>1. Init => Promise!Init  BY DEF Init, Nothing, Promise!Init
<1>2. Sound /\ Sound' /\ [Next]_vars => [Promise!Next]_(Promise!vars)
  <2> SUFFICES ASSUME Sound, Sound', [Next]_vars  PROVE [Promise!Next]_(Promise!vars)
    OBVIOUS
  <2>1. CASE \E p \in Routes : Operation(p)  BY <2>1, OperationPromised
  <2>2. CASE LeavePunchList  BY <2>2 DEF LeavePunchList, Promise!vars
  <2>3. CASE UNCHANGED <<treeVars, call>>  BY <2>3 DEF treeVars, Promise!vars
  <2> QED  BY <2>1, <2>2, <2>3, StepsOfTheTree
<1> QED  BY <1>1, <1>2, TreeIsSound, PTL DEF Spec, ImplementsPathSet, Promise!Spec

-----------------------------------------------------------------------------
(***************************************************************************)
(* The scenario: the paths it makes up, the disk, the clean-up.            *)
(***************************************************************************)
DirNames  == {<<"dir", n>> : n \in 0..(directory_id - 1)}
FileNames == {<<"file", n>> : n \in 0..(file_id - 1)}

\* The directories have numbers given out before, each at most once on a path; a
\* file's is that of a file.
Named(p) ==
  /\ Len(p) <= MaxDepth
  /\ \A i \in 1..(Len(p) - 1) : p[i] \in DirNames /\ p[i] # p[Len(p)]
  /\ p[Len(p)] \in IF nodes[p] = "DIRECTORY" THEN DirNames ELSE FileNames

NamesInv ==
  /\ directory_id \in 0..MaxIds /\ file_id \in 0..MaxIds
  /\ \A p \in DOMAIN nodes : Named(p)

\* What is left to remove are directories of the tree, with all they are in, and
\* they are all there is on the disk.
Cleaning ==
  /\ walk.left \subseteq OfType(DOMAIN nodes, "DIRECTORY")
  /\ \A q \in walk.left : \A i \in 1..(Len(q) - 1) : Prefix(q, i) \in walk.left
  /\ disk = [q \in walk.left |-> "DIRECTORY"]
  /\ walk.at = <<>> \/ walk.at \in walk.left

ScenarioInv ==
  /\ user \in {"api", "scenario"}
  /\ outcome \in IF user = "api" THEN {"running", "crash"} ELSE {"running", "cleaning", "finished"}
  /\ walk \in [at : Seq(Parts), left : SUBSET Routes]
  /\ user = "scenario" => NamesInv /\ nulls = {}
  /\ user = "scenario" /\ outcome = "running" => disk = nodes
  /\ outcome = "cleaning" => Cleaning
  /\ outcome = "finished" => disk = Nothing

\* A new name in a directory the scenario reaches makes a plain path that leads
\* nowhere yet.
LEMMA NewPath ==
  ASSUME Sound, NamesInv, nulls = {}, NEW p \in Reached, NEW e \in Parts, e # Empty,
         e \notin DirNames \cup FileNames
  PROVE  LET r == Append(p, e)
         IN  /\ r \in Routes /\ Len(r) = Len(p) + 1 /\ Len(p) \in Nat /\ Len(r) <= MaxDepth
             /\ r[Len(r)] = e /\ \A i \in 1..(Len(r) - 1) : r[i] \in DirNames
             /\ Promise!Plain(r) /\ ~ Exists(r) /\ Promise!HasParent(r)
<1> DEFINE r == Append(p, e)
<1>1. p \in Routes \cup {<<>>} /\ Tree(nodes)  BY ReachedPaths DEF Sound
<1>2. r \in Routes  BY <1>1, PathsAreRoutes
<1>3. p \in Seq(Parts)
  <2>1. CASE p \in Routes  BY <2>1 DEF Routes
  <2>2. CASE p = <<>>  BY <2>2, EmptySeq
  <2> QED  BY <1>1, <2>1, <2>2
<1>4. /\ Len(p) \in Nat /\ Len(r) = Len(p) + 1 /\ r[Len(p) + 1] = e
      /\ \A i \in 1..Len(p) : r[i] = p[i]
  BY <1>3, AppendProperties
<1>5. Len(p) <= MaxDepth - 1
  <2>1. Len(p) \in 0..(MaxDepth - 1) \/ \E d \in 0..(MaxDepth - 1) : Len(p) < d
    BY DEF Reached, DrawnDepths
  <2> QED  BY <1>4, <2>1, TreeAssumption
<1>6. p = <<>> \/ (p \in DOMAIN nodes /\ nodes[p] = "DIRECTORY")
  BY DEF Reached, OfType
<1>7. \A i \in 1..Len(p) : p[i] \in DirNames
  <2>1. CASE p = <<>>  BY <2>1, <1>4
  <2>2. CASE p \in DOMAIN nodes /\ nodes[p] = "DIRECTORY"
    <3>1. \A i \in 1..(Len(p) - 1) : p[i] \in DirNames  BY <2>2 DEF NamesInv, Named
    <3>2. p[Len(p)] \in DirNames  BY <2>2 DEF NamesInv, Named
    <3> QED  BY <1>4, <3>1, <3>2
  <2> QED  BY <1>6, <2>1, <2>2
<1>8. \A i \in 1..Len(p) : Prefix(r, i) = Prefix(p, i)
  <2> SUFFICES ASSUME NEW i \in 1..Len(p)  PROVE Prefix(r, i) = Prefix(p, i)
    OBVIOUS
  <2>1. i \in 0..Len(p) /\ i \in 0..Len(r) /\ r \in Seq(Parts)  BY <1>2, <1>4 DEF Routes
  <2>2. /\ Prefix(r, i) \in Seq(Parts) /\ Len(Prefix(r, i)) = i
        /\ \A k \in 1..i : Prefix(r, i)[k] = r[k]
    BY <2>1, PrefixFacts
  <2>3. /\ Prefix(p, i) \in Seq(Parts) /\ Len(Prefix(p, i)) = i
        /\ \A k \in 1..i : Prefix(p, i)[k] = p[k]
    BY <1>3, <2>1, PrefixFacts
  <2>4. \A k \in 1..i : r[k] = p[k]  BY <1>4
  <2> QED  BY <2>2, <2>3, <2>4, SeqEqual
<1> HIDE DEF r
<1>9. \A i \in 1..Len(p) : Prefix(r, i) \in DOMAIN nodes /\ nodes[Prefix(r, i)] = "DIRECTORY"
  <2>1. CASE p = <<>>  BY <2>1, <1>4
  <2>2. CASE p \in DOMAIN nodes /\ nodes[p] = "DIRECTORY"
    <3>1. p \in Routes /\ Prefix(p, Len(p)) = p  BY <1>1, <2>2, RouteFacts DEF Tree
    <3>2. \A i \in 1..(Len(p) - 1) : Prefix(p, i) \in DOMAIN nodes /\ nodes[Prefix(p, i)] = "DIRECTORY"
      BY <1>1, <2>2 DEF Tree
    <3> QED  BY <1>4, <1>8, <2>2, <3>1, <3>2
  <2> QED  BY <1>6, <2>1, <2>2
<1>10. Empty \notin DirNames
  BY TreeAssumption DEF DirNames, NamesInv
<1>11. DOMAIN r = 1..Len(r) /\ 1..(Len(r) - 1) = 1..Len(p) /\ 1..Len(r) = 1..Len(p) \cup {Len(p) + 1}
  <2>1. DOMAIN r = 1..Len(r)  BY <1>2, RouteFacts DEF Routes
  <2> QED  BY <1>4, <2>1
<1>12. Promise!Plain(r)
  <2>1. \A i \in DOMAIN r : r[i] # Empty  BY <1>4, <1>7, <1>10, <1>11
  <2>2. \A i \in 1..(Len(r) - 1) : r[i] # r[Len(r)]  BY <1>4, <1>7, <1>11
  <2>3. \A q \in Promise!Above(r) : q \in DOMAIN nodes => nodes[q] = "DIRECTORY"
    <3>1. Promise!Above(r) = {Prefix(r, i) : i \in 1..Len(p)}  BY <1>11, PromiseHelpers
    <3> QED  BY <1>9, <3>1
  <2> QED  BY <2>1, <2>2, <2>3 DEF Promise!Plain
<1>13. ~ Exists(r)  BY <1>4 DEF Exists, NamesInv, Named
<1>14. Promise!HasParent(r)  BY <1>1, <1>2, <1>9, <1>11, <1>12, PlainPath DEF Exists
<1> QED  BY <1>2, <1>4, <1>5, <1>7, <1>11, <1>12, <1>13, <1>14, TreeAssumption DEF r

\* With a new node of such a path the names are as before.
LEMMA NamesGrow ==
  ASSUME Sound, NamesInv, NEW r \in Routes, ~ Exists(r), NEW type \in {"FILE", "DIRECTORY"},
         nodes' = With(nodes, {r}, type), directory_id' \in 0..MaxIds, file_id' \in 0..MaxIds,
         directory_id <= directory_id', file_id <= file_id',
         Len(r) <= MaxDepth,
         \A i \in 1..(Len(r) - 1) : r[i] \in DirNames /\ r[i] # r[Len(r)],
         r[Len(r)] = IF type = "DIRECTORY" THEN <<"dir", directory_id' - 1>> ELSE <<"file", file_id' - 1>>,
         IF type = "DIRECTORY" THEN directory_id' > 0 ELSE file_id' > 0
  PROVE  NamesInv'
<1> DEFINE dirs == {<<"dir", n>> : n \in 0..(directory_id' - 1)}
           fls  == {<<"file", n>> : n \in 0..(file_id' - 1)}
<1>1. DirNames \subseteq dirs /\ FileNames \subseteq fls
  <2>0. directory_id \in Int /\ directory_id' \in Int /\ file_id \in Int /\ file_id' \in Int
    BY TreeAssumption DEF NamesInv
  <2>1. \A k, l \in Int : k <= l => \A n \in 0..(k - 1) : n \in 0..(l - 1)  OBVIOUS
  <2>2. \A n \in 0..(directory_id - 1) : n \in 0..(directory_id' - 1)  BY <2>0, <2>1, Zenon
  <2>3. \A n \in 0..(file_id - 1) : n \in 0..(file_id' - 1)  BY <2>0, <2>1, Zenon
  <2>4. DirNames \subseteq dirs  BY <2>2, Zenon DEF DirNames
  <2>5. FileNames \subseteq fls  BY <2>3, Zenon DEF FileNames
  <2> QED  BY <2>4, <2>5
<1>2. /\ type = "DIRECTORY" => r[Len(r)] \in dirs
      /\ type # "DIRECTORY" => r[Len(r)] \in fls
  <2>1. directory_id' \in Int /\ file_id' \in Int
    BY TreeAssumption
  <2>2. \A k \in Int : k > 0 => k - 1 \in 0..(k - 1)  OBVIOUS
  <2>3. CASE type = "DIRECTORY"
    <3>1. directory_id' - 1 \in 0..(directory_id' - 1)  BY <2>1, <2>2, <2>3
    <3>2. r[Len(r)] = <<"dir", directory_id' - 1>>  BY <2>3
    <3>3. r[Len(r)] \in dirs  BY <3>1, <3>2, Zenon
    <3> QED  BY <2>3, <3>3
  <2>4. CASE type # "DIRECTORY"
    <3>1. file_id' - 1 \in 0..(file_id' - 1)  BY <2>1, <2>2, <2>4
    <3>2. r[Len(r)] = <<"file", file_id' - 1>>  BY <2>4
    <3>3. r[Len(r)] \in fls  BY <3>1, <3>2, Zenon
    <3> QED  BY <2>4, <3>3
  <2> QED  BY <2>3, <2>4
<1> HIDE DEF dirs, fls
<1>3. /\ DOMAIN nodes' = DOMAIN nodes \cup {r} /\ nodes'[r] = type
      /\ \A p \in DOMAIN nodes : p # r /\ nodes'[p] = nodes[p]
  BY DEF With, Exists
<1>4. ASSUME NEW p \in DOMAIN nodes'
      PROVE  /\ Len(p) <= MaxDepth
             /\ \A i \in 1..(Len(p) - 1) : p[i] \in dirs /\ p[i] # p[Len(p)]
             /\ p[Len(p)] \in IF nodes'[p] = "DIRECTORY" THEN dirs ELSE fls
  <2>1. CASE p = r  BY <1>1, <1>2, <1>3, <2>1
  <2>2. CASE p \in DOMAIN nodes
    <3>1. /\ Len(p) <= MaxDepth
          /\ \A i \in 1..(Len(p) - 1) : p[i] \in DirNames /\ p[i] # p[Len(p)]
          /\ p[Len(p)] \in IF nodes[p] = "DIRECTORY" THEN DirNames ELSE FileNames
      BY <2>2 DEF NamesInv, Named
    <3> QED  BY <1>1, <1>3, <2>2, <3>1
  <2> QED  BY <1>3, <2>1, <2>2
<1> QED  BY <1>4 DEF NamesInv, Named, DirNames, FileNames, dirs, fls

\* The scenario makes a directory, here and on the disk.
LEMMA CreateDirWorks ==
  ASSUME Sound, ScenarioInv, CreateDir
  PROVE  NamesInv' /\ disk' = nodes' /\ UNCHANGED <<nulls, user, outcome, walk>>
<1>1. /\ user = "scenario" /\ outcome = "running" /\ NamesInv /\ nulls = {} /\ disk = nodes
      /\ directory_id < MaxIds /\ directory_id' = directory_id + 1
      /\ UNCHANGED <<user, file_id, walk>>
  BY DEF CreateDir, Running, ScenarioInv
<1>2. PICK p \in Reached :
        /\ Mkdir("mkdir", Append(p, DirName), FALSE)
        /\ ThenDisk(With(disk, {Append(p, DirName)}, "DIRECTORY"))
  BY DEF CreateDir
<1> DEFINE r == Append(p, DirName)
<1>3. /\ DirName \in Parts /\ DirName # Empty /\ DirName \notin DirNames \cup FileNames
  <2>1. directory_id \in Nat /\ directory_id \in 0..MaxIds  BY <1>1 DEF NamesInv
  <2>2. DirName \in Parts  BY <2>1, PathsAreRoutes DEF DirName
  <2>3. DirName # Empty  BY <2>1, TreeAssumption DEF DirName
  <2>4. \A n \in 0..(directory_id - 1) : <<"dir", n>> # DirName  BY <2>1 DEF DirName
  <2>5. \A n \in 0..(file_id - 1) : <<"file", n>> # DirName  BY <2>1 DEF DirName
  <2>6. DirName \notin DirNames \cup FileNames  BY <2>4, <2>5, Zenon DEF DirNames, FileNames
  <2> QED  BY <2>2, <2>3, <2>6
<1>4. /\ r \in Routes /\ Len(r) = Len(p) + 1 /\ Len(p) \in Nat /\ Len(r) <= MaxDepth
      /\ r[Len(r)] = DirName /\ \A i \in 1..(Len(r) - 1) : r[i] \in DirNames
      /\ Promise!Plain(r) /\ ~ Exists(r) /\ Promise!HasParent(r)
  BY <1>1, <1>3, NewPath
<1> HIDE DEF r
<1>5. nodes' = With(nodes, {r}, "DIRECTORY") /\ UNCHANGED nulls /\ call'.result = "ok"
  <2>1. Mkdir("mkdir", r, FALSE)  BY <1>2 DEF r
  <2>2. Promise!Mkdir(r) /\ UNCHANGED nulls  BY <1>4, <2>1, MkdirPromised DEF Sound
  <2>3. nodes' = With(nodes, {r}, "DIRECTORY") /\ Reply("mkdir", r, "ok")
    BY <1>4, <2>2, PromiseHelpers DEF Promise!Mkdir
  <2> QED  BY <2>2, <2>3 DEF Reply
<1>6. disk' = With(nodes, {r}, "DIRECTORY") /\ UNCHANGED outcome
  BY <1>1, <1>2, <1>5 DEF ThenDisk, r
<1>7. NamesInv'
  <2>1. /\ directory_id' \in 0..MaxIds /\ file_id' \in 0..MaxIds /\ directory_id' > 0
        /\ directory_id <= directory_id' /\ file_id <= file_id' /\ directory_id' - 1 = directory_id
    BY <1>1, TreeAssumption DEF NamesInv
  <2>2. r[Len(r)] = <<"dir", directory_id' - 1>>  BY <1>4, <2>1 DEF DirName
  <2>3. \A i \in 1..(Len(r) - 1) : r[i] \in DirNames /\ r[i] # r[Len(r)]  BY <1>3, <1>4
  <2> DEFINE t == "DIRECTORY"
  <2>4. /\ t \in {"FILE", "DIRECTORY"} /\ nodes' = With(nodes, {r}, t)
        /\ r[Len(r)] = IF t = "DIRECTORY" THEN <<"dir", directory_id' - 1>> ELSE <<"file", file_id' - 1>>
        /\ IF t = "DIRECTORY" THEN directory_id' > 0 ELSE file_id' > 0
    BY <1>5, <2>1, <2>2
  <2> HIDE DEF t
  <2> QED  BY <1>1, <1>4, <2>1, <2>3, <2>4, NamesGrow
<1> QED  BY <1>1, <1>5, <1>6, <1>7

\* And a file.
LEMMA CreateFileWorks ==
  ASSUME Sound, ScenarioInv, CreateFile
  PROVE  NamesInv' /\ disk' = nodes' /\ UNCHANGED <<nulls, user, outcome, walk>>
<1>1. /\ user = "scenario" /\ outcome = "running" /\ NamesInv /\ nulls = {} /\ disk = nodes
      /\ file_id < MaxIds /\ file_id' = file_id + 1
      /\ UNCHANGED <<user, directory_id, walk>>
  BY DEF CreateFile, Running, ScenarioInv
<1>2. PICK p \in Reached :
        /\ Mkfile(Append(p, FileName))
        /\ ThenDisk(With(disk, {Append(p, FileName)}, "FILE"))
  BY DEF CreateFile
<1> DEFINE r == Append(p, FileName)
<1>3. /\ FileName \in Parts /\ FileName # Empty /\ FileName \notin DirNames \cup FileNames
  <2>1. file_id \in Nat /\ file_id \in 0..MaxIds  BY <1>1 DEF NamesInv
  <2>2. FileName \in Parts  BY <2>1, PathsAreRoutes DEF FileName
  <2>3. FileName # Empty  BY <2>1, TreeAssumption DEF FileName
  <2>4. \A n \in 0..(directory_id - 1) : <<"dir", n>> # FileName  BY <2>1 DEF FileName
  <2>5. \A n \in 0..(file_id - 1) : <<"file", n>> # FileName  BY <2>1 DEF FileName
  <2>6. FileName \notin DirNames \cup FileNames  BY <2>4, <2>5, Zenon DEF DirNames, FileNames
  <2> QED  BY <2>2, <2>3, <2>6
<1>4. /\ r \in Routes /\ Len(r) = Len(p) + 1 /\ Len(p) \in Nat /\ Len(r) <= MaxDepth
      /\ r[Len(r)] = FileName /\ \A i \in 1..(Len(r) - 1) : r[i] \in DirNames
      /\ Promise!Plain(r) /\ ~ Exists(r) /\ Promise!HasParent(r)
  BY <1>1, <1>3, NewPath
<1> HIDE DEF r
<1>5. nodes' = With(nodes, {r}, "FILE") /\ UNCHANGED nulls /\ call'.result = "ok"
  <2>1. Mkfile(r)  BY <1>2 DEF r
  <2>2. Promise!Mkfile(r) /\ UNCHANGED nulls  BY <1>4, <2>1, MkfilePromised DEF Sound
  <2>3. nodes' = With(nodes, {r}, "FILE") /\ Reply("mkfile", r, "ok")
    BY <1>4, <2>2, PromiseHelpers DEF Promise!Mkfile
  <2> QED  BY <2>2, <2>3 DEF Reply
<1>6. disk' = With(nodes, {r}, "FILE") /\ UNCHANGED outcome
  BY <1>1, <1>2, <1>5 DEF ThenDisk, r
<1>7. NamesInv'
  <2>1. /\ directory_id' \in 0..MaxIds /\ file_id' \in 0..MaxIds /\ file_id' > 0
        /\ directory_id <= directory_id' /\ file_id <= file_id' /\ file_id' - 1 = file_id
    BY <1>1, TreeAssumption DEF NamesInv
  <2>2. r[Len(r)] = <<"file", file_id' - 1>>  BY <1>4, <2>1 DEF FileName
  <2>3. \A i \in 1..(Len(r) - 1) : r[i] \in DirNames /\ r[i] # r[Len(r)]  BY <1>3, <1>4
  <2> DEFINE t == "FILE"
  <2>4. /\ t \in {"FILE", "DIRECTORY"} /\ nodes' = With(nodes, {r}, t)
        /\ r[Len(r)] = IF t = "DIRECTORY" THEN <<"dir", directory_id' - 1>> ELSE <<"file", file_id' - 1>>
        /\ IF t = "DIRECTORY" THEN directory_id' > 0 ELSE file_id' > 0
    BY <1>5, <2>1, <2>2
  <2> HIDE DEF t
  <2> QED  BY <1>1, <1>4, <2>1, <2>3, <2>4, NamesGrow
<1> QED  BY <1>1, <1>5, <1>6, <1>7

\* It deletes a file, here and on the disk.
LEMMA DeleteFileWorks ==
  ASSUME Sound, ScenarioInv, DeleteFile
  PROVE  NamesInv' /\ disk' = nodes' /\ UNCHANGED <<nulls, user, outcome, walk>>
<1>1. /\ user = "scenario" /\ outcome = "running" /\ NamesInv /\ nulls = {} /\ disk = nodes
      /\ UNCHANGED <<user, directory_id, file_id, walk>>
  BY DEF DeleteFile, Running, ScenarioInv, idVars
<1>2. PICK f \in ToSet(all_files) : Rm("rm", f, FALSE) /\ ThenDisk(Without(disk, {f}))
  BY DEF DeleteFile
<1>3. f \in DOMAIN nodes /\ nodes[f] = "FILE" /\ Tree(nodes)
  BY DEF Sound, Lists, ListsMatchTree, OfType
<1>4. /\ f \in Routes /\ f \in Seq(Parts) /\ Len(f) \in Nat \ {0} /\ DOMAIN f = 1..Len(f)
  BY <1>3, RouteFacts DEF Tree
<1>5. Promise!Plain(f)
  <2>1. /\ \A i \in 1..(Len(f) - 1) : f[i] \in DirNames /\ f[i] # f[Len(f)]
        /\ f[Len(f)] \in FileNames
    BY <1>1, <1>3 DEF NamesInv, Named
  <2>2. Empty \notin DirNames \cup FileNames
    <3>1. {directory_id, file_id} \subseteq 0..MaxIds /\ MaxIds \in Nat
      BY <1>1, TreeAssumption DEF NamesInv
    <3>2. \A n \in 0..(directory_id - 1) : <<"dir", n>> # Empty  BY <3>1, TreeAssumption
    <3>3. \A n \in 0..(file_id - 1) : <<"file", n>> # Empty  BY <3>1, TreeAssumption
    <3> QED  BY <3>2, <3>3, Zenon DEF DirNames, FileNames
  <2>3. \A i \in DOMAIN f : i \in 1..(Len(f) - 1) \/ i = Len(f)  BY <1>4
  <2>4. \A i \in DOMAIN f : f[i] # Empty  BY <2>1, <2>2, <2>3
  <2>5. \A q \in Promise!Above(f) : q \in DOMAIN nodes => nodes[q] = "DIRECTORY"
    <3>1. Promise!Above(f) = {Prefix(f, i) : i \in 1..(Len(f) - 1)}  BY PromiseHelpers
    <3> QED  BY <1>3, <3>1 DEF Tree
  <2> QED  BY <1>1, <2>1, <2>4, <2>5 DEF Promise!Plain
<1>6. NodesOf(f) = {f}  BY <1>3, <1>4, <1>5, PlainNode DEF Exists
<1>7. Subtree(f) = {f}
  <2>1. IsPrefix(f, f)  BY <1>4, PrefixIs, RouteFacts
  <2>2. ASSUME NEW q \in DOMAIN nodes, IsPrefix(f, q)  PROVE q = f
    <3>1. q \in Routes  BY <1>3 DEF Tree
    <3>2. Len(q) \in Nat \ {0} /\ q \in Seq(Parts) /\ Prefix(q, Len(q)) = q  BY <3>1, RouteFacts
    <3>3. Len(f) <= Len(q) /\ Prefix(q, Len(f)) = f  BY <1>4, <2>2, <3>2, PrefixIs
    <3>4. CASE Len(f) = Len(q)  BY <3>2, <3>3, <3>4
    <3>5. CASE Len(f) # Len(q)
      <4>1. Len(f) \in 1..(Len(q) - 1)  BY <1>4, <3>2, <3>3, <3>5
      <4>2. nodes[Prefix(q, Len(f))] = "DIRECTORY"  BY <1>3, <4>1 DEF Tree
      <4> QED  BY <1>3, <3>3, <4>2
    <3> QED  BY <3>4, <3>5
  <2> QED  BY <1>3, <2>1, <2>2 DEF Subtree
<1>8. nodes' = Without(nodes, {f}) /\ UNCHANGED nulls /\ call'.result = "ok"
  <2>1. RemoveNode(f) /\ Reply("rm", f, "ok")
    BY <1>1, <1>2, <1>6, <1>7 DEF Rm, IsEmpty, NullsIn
  <2> QED  BY <1>7, <2>1 DEF RemoveNode, Reply
<1>9. disk' = nodes' /\ UNCHANGED outcome  BY <1>1, <1>2, <1>8 DEF ThenDisk
<1>10. DOMAIN nodes' \subseteq DOMAIN nodes /\ \A p \in DOMAIN nodes' : nodes'[p] = nodes[p]
  BY <1>8 DEF Without
<1>11. NamesInv'  BY <1>1, <1>10 DEF NamesInv, Named, DirNames, FileNames
<1> QED  BY <1>1, <1>8, <1>9, <1>11

\* The clean-up begins with the directories.
LEMMA CleanUpBegins ==
  ASSUME Sound, ScenarioInv, CleanUp
  PROVE  Cleaning' /\ walk' \in [at : Seq(Parts), left : SUBSET Routes]
<1> DEFINE dirs == {q \in DOMAIN nodes : nodes[q] = "DIRECTORY"}
<1>1. /\ disk = nodes /\ disk' = Without(disk, ToSet(all_files)) /\ nodes' = nodes
      /\ walk' = [at |-> <<>>, left |-> dirs]
  BY DEF CleanUp, Running, ScenarioInv, OfType, treeVars
<1>2. /\ ToSet(all_files) = {q \in DOMAIN nodes : nodes[q] = "FILE"}
      /\ \A q \in DOMAIN nodes : nodes[q] \in {"FILE", "DIRECTORY"}
      /\ dirs \subseteq Routes
      /\ \A q \in dirs : \A i \in 1..(Len(q) - 1) : Prefix(q, i) \in dirs
  BY DEF Sound, Lists, ListsMatchTree, Tree, OfType
<1>3. disk' = [q \in dirs |-> "DIRECTORY"]
  <2>1. DOMAIN nodes \ ToSet(all_files) = dirs  BY <1>2
  <2> QED  BY <1>1, <2>1 DEF Without
<1>4. OfType(DOMAIN nodes, "DIRECTORY")' = dirs  BY <1>1 DEF OfType
<1> HIDE DEF dirs
<1>5. walk'.at = <<>> /\ walk'.left = dirs  BY <1>1
<1>6. <<>> \in Seq(Parts)  BY EmptySeq
<1> QED  BY <1>1, <1>2, <1>3, <1>4, <1>5, <1>6 DEF Cleaning

\* What is left in a directory is left through a folder of it.
LEMMA LeftInFolder ==
  ASSUME Sound, Cleaning, NEW q \in walk.left, NEW p \in Seq(Parts), IsStrictPrefix(p, q)
  PROVE  ~ FoldersDone(p)
<1>1. q \in Routes /\ walk.left \subseteq Routes  BY DEF Sound, Tree, Cleaning, OfType
<1>2. Len(q) \in Nat \ {0} /\ q \in Seq(Parts) /\ Prefix(q, Len(q)) = q /\ Len(p) \in Nat
  BY <1>1, RouteFacts
<1>3. Len(p) < Len(q) /\ Prefix(q, Len(p)) = p  BY <1>2, PrefixIs
<1> DEFINE k == Len(p) + 1
           f == Prefix(q, k)
<1>4. k \in 1..Len(q) /\ k \in 0..Len(q) /\ Len(p) \in 0..k  BY <1>2, <1>3
<1>5. Len(f) = k /\ f \in Seq(Parts) /\ Prefix(f, Len(p)) = p  BY <1>2, <1>3, <1>4, PrefixFacts
<1>6. f \in walk.left
  <2>1. CASE k = Len(q)  BY <1>2, <2>1
  <2>2. CASE k # Len(q)
    <3>1. k \in 1..(Len(q) - 1)  BY <1>2, <1>4, <2>2
    <3> QED  BY <3>1 DEF Cleaning
  <2> QED  BY <2>1, <2>2
<1> HIDE DEF f
<1>7. IsPrefix(p, f)
  <2>1. Len(p) <= Len(f)  BY <1>2, <1>5
  <2> QED  BY <1>5, <2>1, PrefixIs
<1>8. f \in Folders(p)  BY <1>5, <1>6, <1>7 DEF Folders, Cleaning, OfType
<1> QED  BY <1>6, <1>8 DEF FoldersDone

\* A directory is empty when it is removed.
LEMMA RemoveDirWorks ==
  ASSUME Sound, ScenarioInv, RemoveDir
  PROVE  Cleaning' /\ walk' \in [at : Seq(Parts), left : SUBSET Routes] /\ UNCHANGED outcome
<1> DEFINE p == walk.at
<1>1. /\ outcome = "cleaning" /\ Cleaning /\ p # <<>> /\ FoldersDone(p) /\ nodes' = nodes
      /\ walk \in [at : Seq(Parts), left : SUBSET Routes]
      /\ walk' = [at |-> Parent(p), left |-> walk.left \ {p}]
  BY DEF RemoveDir, ScenarioInv, treeVars
<1>2. p \in walk.left /\ p \in Seq(Parts) /\ p \in Routes /\ walk.left \subseteq Routes
      /\ disk = [q \in walk.left |-> "DIRECTORY"]
      /\ \A q \in walk.left : \A i \in 1..(Len(q) - 1) : Prefix(q, i) \in walk.left
  BY <1>1 DEF Cleaning, Routes
<1>3. Len(p) \in Nat \ {0} /\ Prefix(p, Len(p)) = p  BY <1>2, RouteFacts
<1>4. ASSUME NEW q \in walk.left  PROVE ~ IsStrictPrefix(p, q)
  BY <1>1, <1>2, LeftInFolder
<1>5. disk' = Without(disk, {p}) /\ UNCHANGED outcome
  BY <1>2, <1>4 DEF RemoveDir
<1>6. walk'.at = Parent(p) /\ walk'.left = walk.left \ {p}  BY <1>1
<1>7. disk' = [q \in walk.left \ {p} |-> "DIRECTORY"]  BY <1>2, <1>5 DEF Without
<1>8. ASSUME NEW q \in walk.left \ {p}, NEW i \in 1..(Len(q) - 1)
      PROVE  Prefix(q, i) \in walk.left \ {p}
  <2>1. /\ q \in Routes /\ q \in Seq(Parts) /\ Len(q) \in Nat \ {0} /\ i \in 1..Len(q)
    BY <1>2, RouteFacts
  <2>2. ASSUME Prefix(q, i) = p  PROVE FALSE
    <3>1. Len(p) = i  BY <2>1, <2>2, RouteFacts
    <3>2. IsStrictPrefix(p, q)  BY <1>2, <2>1, <2>2, <3>1, PrefixIs
    <3> QED  BY <1>4, <3>2
  <2> QED  BY <1>2, <2>2
<1>9. /\ Parent(p) \in Seq(Parts)
      /\ Parent(p) = <<>> \/ Parent(p) \in walk.left \ {p}
  <2>1. Len(p) - 1 \in 0..Len(p)  BY <1>3
  <2>2. Parent(p) \in Seq(Parts) /\ Len(Parent(p)) = Len(p) - 1
    BY <1>2, <2>1, PrefixFacts DEF Parent
  <2>3. CASE Len(p) = 1
    <3>1. Parent(p) = <<>>  BY <2>2, <2>3, EmptySeq
    <3> QED  BY <2>2, <3>1
  <2>4. CASE Len(p) # 1
    <3>1. Len(p) - 1 \in 1..(Len(p) - 1)
      <4> DEFINE n == Len(p)
      <4>1. n \in Nat \ {0} /\ n # 1  BY <1>3, <2>4
      <4> HIDE DEF n
      <4>2. n - 1 \in 1..(n - 1)  BY <4>1
      <4> QED  BY <4>2 DEF n
    <3>2. Parent(p) \in walk.left  BY <1>2, <3>1 DEF Parent
    <3>3. Parent(p) # p  BY <1>3, <2>2
    <3> QED  BY <2>2, <3>2, <3>3
  <2> QED  BY <2>3, <2>4
<1> HIDE DEF p
<1>10. Cleaning'
  <2>1. walk'.left \subseteq OfType(DOMAIN nodes, "DIRECTORY")'
    BY <1>1, <1>6 DEF Cleaning, OfType
  <2> QED  BY <1>6, <1>7, <1>8, <1>9, <2>1 DEF Cleaning
<1>11. walk' \in [at : Seq(Parts), left : SUBSET Routes]
  <2>1. walk.left \ {p} \in SUBSET Routes  BY <1>2
  <2> QED  BY <1>1, <1>9, <2>1
<1> QED  BY <1>5, <1>10, <1>11

\* What the scenario keeps at the beginning.
LEMMA ScenarioInit == Init => ScenarioInv
<1> SUFFICES ASSUME Init  PROVE ScenarioInv
  OBVIOUS
<1>1. DOMAIN nodes = {} /\ disk = nodes  BY DEF Init, Nothing
<1>2. user \in {"api", "scenario"} /\ outcome = "running" /\ directory_id = 0 /\ file_id = 0
      /\ walk = [at |-> <<>>, left |-> {}]
  BY DEF Init
<1>3. walk \in [at : Seq(Parts), left : SUBSET Routes]  BY <1>2, EmptySeq
<1>4. NamesInv  BY <1>1, <1>2, TreeAssumption DEF NamesInv
<1>5. nulls = {}  BY DEF Init
<1> QED  BY <1>1, <1>2, <1>3, <1>4, <1>5 DEF ScenarioInv

\* And in every step.
LEMMA ScenarioStep ==
  ASSUME Sound, ScenarioInv, [Next]_vars
  PROVE  ScenarioInv'
<1>1. /\ user \in {"api", "scenario"}
      /\ user = "api" => outcome \in {"running", "crash"}
      /\ user # "api" => outcome \in {"running", "cleaning", "finished"}
      /\ walk \in [at : Seq(Parts), left : SUBSET Routes]
      /\ user = "scenario" => NamesInv /\ nulls = {}
      /\ user = "scenario" /\ outcome = "running" => disk = nodes
      /\ outcome = "cleaning" => Cleaning /\ user = "scenario"
      /\ outcome = "finished" => disk = Nothing
  BY DEF ScenarioInv
<1>2. CASE Api
  <2>1. user = "api" /\ outcome = "running" /\ outcome' \in {"running", "crash"} /\ UNCHANGED <<user, walk>>
    BY <1>2 DEF Api, diskVars
  <2> QED  BY <1>1, <2>1 DEF ScenarioInv
<1>3. CASE CreateDir \/ CreateFile \/ DeleteFile
  <2>1. NamesInv' /\ disk' = nodes' /\ UNCHANGED <<nulls, user, outcome, walk>>
    BY <1>3, CreateDirWorks, CreateFileWorks, DeleteFileWorks
  <2>2. user = "scenario" /\ outcome = "running"
    BY <1>3 DEF CreateDir, CreateFile, DeleteFile, Running
  <2> QED  BY <1>1, <2>1, <2>2 DEF ScenarioInv
<1>4. CASE LeavePunchList
  <2>1. user = "scenario" /\ outcome = "running"
        /\ UNCHANGED <<user, outcome, nodes, nulls, directory_id, file_id, disk, walk>>
    BY <1>4 DEF LeavePunchList, Running, idVars, diskVars
  <2>2. NamesInv'  BY <1>1, <2>1 DEF NamesInv, Named, DirNames, FileNames
  <2> QED  BY <1>1, <2>1, <2>2 DEF ScenarioInv
<1>5. CASE CleanUp
  <2>1. user = "scenario" /\ outcome' = "cleaning" /\ UNCHANGED <<user, nodes, nulls, directory_id, file_id>>
    BY <1>5 DEF CleanUp, Running, treeVars, idVars
  <2>2. NamesInv'  BY <1>1, <2>1 DEF NamesInv, Named, DirNames, FileNames
  <2>3. Cleaning' /\ walk' \in [at : Seq(Parts), left : SUBSET Routes]  BY <1>5, CleanUpBegins
  <2> QED  BY <1>1, <2>1, <2>2, <2>3 DEF ScenarioInv
<1>6. CASE EnterDir
  <2>1. /\ outcome = "cleaning" /\ Cleaning /\ user = "scenario"
        /\ UNCHANGED <<user, outcome, nodes, nulls, directory_id, file_id, disk>>
    BY <1>1, <1>6 DEF EnterDir, treeVars, idVars
  <2>2. PICK p \in Folders(walk.at) \cap walk.left : walk' = [walk EXCEPT !.at = p]
    BY <1>6 DEF EnterDir
  <2>3. walk'.at \in walk'.left /\ walk'.left = walk.left  BY <1>1, <2>2
  <2>4. p \in Seq(Parts)  BY <1>1, <2>2 DEF Routes
  <2>5. walk' \in [at : Seq(Parts), left : SUBSET Routes]  BY <1>1, <2>2, <2>4
  <2>6. Cleaning'  BY <2>1, <2>3 DEF Cleaning, OfType
  <2>7. NamesInv'  BY <1>1, <2>1 DEF NamesInv, Named, DirNames, FileNames
  <2> QED  BY <1>1, <2>1, <2>5, <2>6, <2>7 DEF ScenarioInv
<1>7. CASE RemoveDir
  <2>1. outcome = "cleaning" /\ user = "scenario" /\ UNCHANGED <<user, nodes, nulls, directory_id, file_id>>
    BY <1>1, <1>7 DEF RemoveDir, treeVars, idVars
  <2>2. Cleaning' /\ walk' \in [at : Seq(Parts), left : SUBSET Routes] /\ UNCHANGED outcome
    BY <1>7, RemoveDirWorks
  <2>3. NamesInv'  BY <1>1, <2>1 DEF NamesInv, Named, DirNames, FileNames
  <2> QED  BY <1>1, <2>1, <2>2, <2>3 DEF ScenarioInv
<1>8. CASE CleanedUp
  <2>1. /\ outcome = "cleaning" /\ Cleaning /\ user = "scenario" /\ outcome' = "finished"
        /\ walk.at = <<>> /\ FoldersDone(walk.at)
        /\ UNCHANGED <<user, nodes, nulls, directory_id, file_id, disk, walk>>
    BY <1>1, <1>8 DEF CleanedUp, treeVars, idVars, diskVars
  <2>2. walk.left = {}
    <3> SUFFICES ASSUME NEW q \in walk.left  PROVE FALSE
      OBVIOUS
    <3>1. q \in Routes /\ q \in Seq(Parts) /\ Len(q) \in Nat \ {0}  BY <1>1, RouteFacts
    <3>2. <<>> \in Seq(Parts) /\ Len(<<>>) = 0  BY EmptySeq
    <3>3. IsStrictPrefix(<<>>, q)
      <4>1. 0 \in 0..Len(q)  BY <3>1
      <4>2. Prefix(q, 0) \in Seq(Parts) /\ Len(Prefix(q, 0)) = 0  BY <3>1, <4>1, PrefixFacts
      <4>3. Prefix(q, 0) = <<>>  BY <4>2, EmptySeq
      <4> DEFINE e == <<>>
      <4>4. e \in Seq(Parts) /\ Len(e) = 0 /\ Prefix(q, 0) = e  BY <3>2, <4>3
      <4> HIDE DEF e
      <4>5. Len(e) < Len(q) /\ Prefix(q, Len(e)) = e  BY <3>1, <4>4
      <4>6. IsStrictPrefix(e, q)  BY <3>1, <4>4, <4>5, PrefixIs
      <4> QED  BY <4>6 DEF e
    <3>4. ~ FoldersDone(<<>>)  BY <2>1, <3>2, <3>3, LeftInFolder
    <3> QED  BY <2>1, <3>4
  <2>3. disk = Nothing  BY <2>1, <2>2 DEF Cleaning, Nothing
  <2>4. Nothing' = Nothing  BY DEF Nothing
  <2>5. NamesInv'  BY <1>1, <2>1 DEF NamesInv, Named, DirNames, FileNames
  <2> QED  BY <1>1, <2>1, <2>3, <2>4, <2>5 DEF ScenarioInv
<1>9. CASE UNCHANGED vars
  <2>1. UNCHANGED <<user, outcome, nodes, nulls, directory_id, file_id, disk, walk>>
    BY <1>9 DEF vars, treeVars, idVars, diskVars
  <2>2. NamesInv' <=> NamesInv  BY <2>1 DEF NamesInv, Named, DirNames, FileNames
  <2>3. Cleaning' <=> Cleaning  BY <2>1 DEF Cleaning, OfType
  <2> QED  BY <2>1, <2>2, <2>3 DEF ScenarioInv, Nothing
<1> QED  BY <1>2, <1>3, <1>4, <1>5, <1>6, <1>7, <1>8, <1>9 DEF Next

\* The inductive invariant of the scenario, in every state.
THEOREM ScenarioIsSound == Spec => []ScenarioInv
<1> QED  BY ScenarioInit, ScenarioStep, TreeIsSound, PTL DEF Spec

\* No path the scenario makes up is refused or misunderstood, tree and disk stay
\* the same, and none is longer than the depth asked for.
THEOREM ScenarioPathsAlwaysWork == Spec => []ScenarioPathsWork
<1>1. ScenarioInv => ScenarioPathsWork
  BY DEF ScenarioInv, ScenarioPathsWork, NamesInv, Named
<1> QED  BY <1>1, ScenarioIsSound, PTL

\* The clean-up comes to a directory only after those in it are gone, so that none
\* of its removals fails and nothing is left at its end.
THEOREM CleanUpEmptiesTheDisk == Spec => []CleanedUpEmpties
<1>1. ScenarioInv => CleanedUpEmpties
  BY DEF ScenarioInv, CleanedUpEmpties
<1> QED  BY <1>1, ScenarioIsSound, PTL
=============================================================================
