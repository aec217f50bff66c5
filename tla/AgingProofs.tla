----------------------------- MODULE AgingProofs -----------------------------
(***************************************************************************)
(* Proofs about the aging scenario, for every value of its constants.      *)
(*                                                                         *)
(* First the transition table: which edge leads into which state, and what *)
(* its probability says about the tree when it is taken.  Then the         *)
(* inductive invariant Typed, which gives type correctness.                *)
(*                                                                         *)
(* The other properties TLC checks are not inductive on their own: that a  *)
(* handler never draws from an empty list depends on what was true when    *)
(* the state before it was entered.  Lists says what every such state may  *)
(* count on, and Inv collects the parts that need each other.  The extent  *)
(* accounting, the mirror of the directory and the growing of a file       *)
(* follow from the types and Inv, with counting lemmas for the first; the  *)
(* safe margin needs one more invariant, Room, and that the handlers reach *)
(* their end rests on Room, EndInv and the walk lemma of HoleProofs.       *)
(***************************************************************************)
EXTENDS Aging, NatRecursion, TLAPS

-----------------------------------------------------------------------------
(***************************************************************************)
(* The transition table.                                                   *)
(***************************************************************************)

\* The states with a single edge to END.
Leaves == {"CREATE_FILE_FALLOCATE", "CREATE_FILE_OVERWRITE", "CREATE_FILE_READ", "CREATE_DIR",
           "ALTER_SMALLER_TRUNCATE", "ALTER_SMALLER_FALLOCATE", "ALTER_BIGGER_WRITE",
           "ALTER_BIGGER_FALLOCATE", "ALTER_METADATA", "DELETE_FILE", "DELETE_DIR"}

Branches == {"S", "CREATE", "ALTER", "DELETE", "CREATE_FILE", "ALTER_SMALLER", "ALTER_BIGGER"}

\* The table has the states of the enumeration in aging.h.
LEMMA StateNames == States = Leaves \cup Branches \cup {"END"}
  BY DEF States, Transitions, Leaves, Branches

\* A leaf has the edge to END and no other.
LEMMA LeafEdges ==
  ASSUME NEW s \in Leaves
  PROVE  Transitions[s] = <<Edge("END", "p1")>>
  BY DEF Leaves, Transitions

\* The edge a state is entered by: its source, its place among the edges of
\* that source, and its probability.
EnteredBy(to, s, i, key) ==
  /\ to = "S" => s = "END"
  /\ to = "ALTER" => s = "S" /\ i = 1 /\ key = "pA"
  /\ to = "CREATE" => s = "S" /\ i = 2
  /\ to = "DELETE" => s = "S" /\ i = 3
  /\ to = "CREATE_DIR" => s = "CREATE" /\ i = 1 /\ key = "pCD"
  /\ to = "CREATE_FILE" => s = "CREATE" /\ i = 2
  /\ to = "CREATE_FILE_FALLOCATE" => s = "CREATE" /\ i = 3
  /\ to \in {"CREATE_FILE_OVERWRITE", "CREATE_FILE_READ"} => s = "CREATE_FILE"
  /\ to \in {"ALTER_SMALLER", "ALTER_BIGGER", "ALTER_METADATA"} => s = "ALTER"
  /\ to = "ALTER_SMALLER_FALLOCATE" => s = "ALTER_SMALLER" /\ key = "pASF"
  /\ to = "ALTER_SMALLER_TRUNCATE" => s = "ALTER_SMALLER"
  /\ to \in {"ALTER_BIGGER_FALLOCATE", "ALTER_BIGGER_WRITE"} => s = "ALTER_BIGGER"
  /\ to \in {"DELETE_FILE", "DELETE_DIR"} => s = "DELETE"

\* Where an edge into a state comes from, and under which key.
LEMMA EdgeInto ==
  ASSUME NEW s \in States, NEW i \in DOMAIN Transitions[s]
  PROVE  /\ Transitions[s][i].to \in States
         /\ EnteredBy(Transitions[s][i].to, s, i, Transitions[s][i].key)
<1>1. CASE s \in Leaves
  <2>1. Transitions[s] = <<Edge("END", "p1")>>  BY <1>1, LeafEdges
  <2>2. i = 1  BY <2>1
  <2> QED  BY <2>1, <2>2, StateNames DEF Edge, EnteredBy
<1>2. CASE s = "S"
  <2>1. Transitions[s] = <<Edge("ALTER", "pA"), Edge("CREATE", "pC"), Edge("DELETE", "pD")>>
    BY <1>2 DEF Transitions
  <2>2. i \in 1..3  BY <2>1
  <2> QED  BY <1>2, <2>1, <2>2, StateNames DEF Edge, EnteredBy, Branches
<1>3. CASE s = "CREATE"
  <2>1. Transitions[s] = <<Edge("CREATE_DIR", "pCD"), Edge("CREATE_FILE", "pCF"),
                           Edge("CREATE_FILE_FALLOCATE", "pCFF")>>
    BY <1>3 DEF Transitions
  <2>2. i \in 1..3  BY <2>1
  <2> QED  BY <1>3, <2>1, <2>2, StateNames DEF Edge, EnteredBy, Branches, Leaves
<1>4. CASE s = "ALTER"
  <2>1. Transitions[s] = <<Edge("ALTER_BIGGER", "pAB"), Edge("ALTER_METADATA", "pAM"),
                           Edge("ALTER_SMALLER", "pAS")>>
    BY <1>4 DEF Transitions
  <2>2. i \in 1..3  BY <2>1
  <2> QED  BY <1>4, <2>1, <2>2, StateNames DEF Edge, EnteredBy, Branches, Leaves
<1>5. CASE s = "DELETE"
  <2>1. Transitions[s] = <<Edge("DELETE_DIR", "pDD"), Edge("DELETE_FILE", "pDF")>>
    BY <1>5 DEF Transitions
  <2>2. i \in 1..2  BY <2>1
  <2> QED  BY <1>5, <2>1, <2>2, StateNames DEF Edge, EnteredBy, Leaves
<1>6. CASE s = "CREATE_FILE"
  <2>1. Transitions[s] = <<Edge("CREATE_FILE_OVERWRITE", "pCFO"), Edge("CREATE_FILE_READ", "pCFR"),
                           Edge("END", "pCFE")>>
    BY <1>6 DEF Transitions
  <2>2. i \in 1..3  BY <2>1
  <2> QED  BY <1>6, <2>1, <2>2, StateNames DEF Edge, EnteredBy, Leaves
<1>7. CASE s = "ALTER_SMALLER"
  <2>1. Transitions[s] = <<Edge("ALTER_SMALLER_FALLOCATE", "pASF"),
                           Edge("ALTER_SMALLER_TRUNCATE", "pAST")>>
    BY <1>7 DEF Transitions
  <2>2. i \in 1..2  BY <2>1
  <2> QED  BY <1>7, <2>1, <2>2, StateNames DEF Edge, EnteredBy, Leaves
<1>8. CASE s = "ALTER_BIGGER"
  <2>1. Transitions[s] = <<Edge("ALTER_BIGGER_FALLOCATE", "pABF"), Edge("ALTER_BIGGER_WRITE", "pABW")>>
    BY <1>8 DEF Transitions
  <2>2. i \in 1..2  BY <2>1
  <2> QED  BY <1>8, <2>1, <2>2, StateNames DEF Edge, EnteredBy, Leaves
<1>9. CASE s = "END"
  <2>1. Transitions[s] = <<Edge("S", "p1")>>  BY <1>9 DEF Transitions
  <2>2. i = 1  BY <2>1
  <2> QED  BY <1>9, <2>1, <2>2, StateNames DEF Edge, EnteredBy, Branches
<1> QED  BY <1>1, <1>2, <1>3, <1>4, <1>5, <1>6, <1>7, <1>8, <1>9, StateNames DEF Branches

-----------------------------------------------------------------------------
(***************************************************************************)
(* What a transition says about the tree.                                  *)
(***************************************************************************)

\* What Move says when all that matters is where it leads.
LEMMA MoveEffect ==
  ASSUME NEW to, Move(to), state \in States, zeroDraw \in BOOLEAN
  PROVE  /\ outcome = "running" /\ state' = to /\ to \in States
         /\ rapid' \in BOOLEAN /\ zeroDraw' \in BOOLEAN
         /\ zeroDraw => zeroDraw'
         /\ \E i, key : EnteredBy(to, state, i, key)
<1>1. PICK rap \in RapidNext, i \in DOMAIN Transitions[state] :
        /\ Transitions[state][i].to = to
        /\ rapid' = rap
        /\ zeroDraw' = (zeroDraw \/ Probability(Transitions[state][i].key, Env(rap)) <= 0)
  BY DEF Move
<1>2. rapid' \in BOOLEAN  BY <1>1 DEF RapidNext
<1>3. zeroDraw' \in BOOLEAN /\ (zeroDraw => zeroDraw')  BY <1>1
<1>4. to \in States /\ EnteredBy(to, state, i, Transitions[state][i].key)
  BY <1>1, EdgeInto
<1> QED  BY <1>2, <1>3, <1>4 DEF Move

\* The random value is at most One, so an edge behind a cumulative probability
\* of One is never taken.
LEMMA RandomAtMostOne ==
  ASSUME NEW s, NEW env, NEW r \in RandomValues(s, env)
  PROVE  r \in Int /\ r <= One
  BY DEF RandomValues, One

\* The capacity awareness factor of an empty tree is 1, however full the disk.
LEMMA CafRange ==
  ASSUME NEW rap
  PROVE  files = {} => Caf(Env(rap)) = 1000
  BY DEF Caf, Env

\* On an empty tree ALTER has probability zero, and DELETE lies behind the
\* whole probability mass.
LEMMA EmptyTree ==
  ASSUME NEW rap, files = {}
  PROVE  /\ Probability("pA", Env(rap)) = 0
         /\ Cumulative("S", 2, Env(rap)) = One
<1>1. Probability("pA", Env(rap)) = pA(Env(rap))  BY DEF Probability
<1>2. Probability("pC", Env(rap)) = pC(Env(rap))  BY DEF Probability
<1>3. pC(Env(rap)) = One /\ pA(Env(rap)) = 0  BY CafRange DEF pA, pC, pD, One
<1>4. Transitions["S"] = <<Edge("ALTER", "pA"), Edge("CREATE", "pC"), Edge("DELETE", "pD")>>
  BY DEF Transitions
<1>5. /\ Transitions["S"][1].key = "pA" 
      /\ Transitions["S"][2].key = "pC"
  BY <1>4 DEF Edge
<1> QED  BY <1>1, <1>2, <1>3, <1>5 DEF Cumulative, One

\* Without punchable files ALTER_SMALLER_FALLOCATE has probability zero.
LEMMA NothingPunchable ==
  ASSUME NEW rap, punchable = {}
  PROVE  Probability("pASF", Env(rap)) = 0
<1>1. Probability("pASF", Env(rap)) = One - pAST(Env(rap))  BY DEF Probability
<1> QED  BY <1>1 DEF pAST, Env, One

\* CREATE_DIR has the whole probability mass until there are NDirs
\* directories, and none from then on.
LEMMA DirectoryMass ==
  ASSUME NEW rap \in BOOLEAN, dirs \in Nat
  PROVE  /\ dirs < NDirs => Probability("pCD", Env(rap)) = One
         /\ dirs >= NDirs => Probability("pCD", Env(rap)) <= 0
<1>1. Probability("pCD", Env(rap)) = One - pCF(Env(rap)) - pCFF(Env(rap))
  BY DEF Probability
<1>2. pCF(Env(rap)) + pCFF(Env(rap)) = One * (dirs \div NDirs)
  BY ProbabilitiesAssumption DEF pCF, pCFF, DirsFull, Env, One
<1>3. dirs < NDirs => dirs \div NDirs = 0  BY ProbabilitiesAssumption
<1>4. dirs >= NDirs => dirs \div NDirs >= 1  BY ProbabilitiesAssumption
<1>5. /\ dirs \div NDirs \in Int /\ pCF(Env(rap)) \in Int /\ pCFF(Env(rap)) \in Int
  BY ProbabilitiesAssumption DEF pCF, pCFF, DirsFull, Env, One
<1> QED  BY <1>1, <1>2, <1>3, <1>4, <1>5 DEF One

\* What the handlers may rely on when they are entered.
LEMMA MoveDraws ==
  ASSUME NEW to, Move(to), state \in States, zeroDraw \in BOOLEAN, dirs \in Nat
  PROVE  /\ to = "ALTER" /\ files = {} => zeroDraw'
         /\ to = "DELETE" => files # {}
         /\ to = "ALTER_SMALLER_FALLOCATE" /\ punchable = {} => zeroDraw'
         /\ to \in {"CREATE_FILE", "CREATE_FILE_FALLOCATE"} => dirs >= NDirs
         /\ to = "CREATE_DIR" /\ dirs >= NDirs => zeroDraw'
<1>1. PICK rap \in RapidNext, i \in DOMAIN Transitions[state] :
        /\ Transitions[state][i].to = to
        /\ \E r \in RandomValues(state, Env(rap)) : Takes(state, i, r, Env(rap))
        /\ zeroDraw' = (zeroDraw \/ Probability(Transitions[state][i].key, Env(rap)) <= 0)
  BY DEF Move
<1>2. PICK r \in RandomValues(state, Env(rap)) : Takes(state, i, r, Env(rap))
  BY <1>1
<1>3. r \in Int /\ r <= One  BY RandomAtMostOne
<1>4. EnteredBy(to, state, i, Transitions[state][i].key)  BY <1>1, EdgeInto
<1>5. rap \in BOOLEAN  BY DEF RapidNext
<1>6. Probability(Transitions[state][i].key, Env(rap)) <= 0 => zeroDraw'
  BY <1>1
<1>7. \A j \in 1..(i - 1) : Cumulative(state, j, Env(rap)) < r  BY <1>2 DEF Takes
<1>8. to = "ALTER" /\ files = {} => zeroDraw'
  BY <1>4, <1>6, EmptyTree DEF EnteredBy
<1>9. ASSUME to = "DELETE", files = {}  PROVE FALSE
  <2>1. state = "S" /\ i = 3  BY <1>4, <1>9 DEF EnteredBy
  <2>2. Cumulative("S", 2, Env(rap)) < r  BY <1>7, <2>1
  <2> QED  BY <1>3, <1>9, <2>2, EmptyTree DEF One
<1>10. to = "ALTER_SMALLER_FALLOCATE" /\ punchable = {} => zeroDraw'
  BY <1>4, <1>6, NothingPunchable DEF EnteredBy
<1>11. ASSUME to \in {"CREATE_FILE", "CREATE_FILE_FALLOCATE"}, dirs < NDirs  PROVE FALSE
  <2>1. state = "CREATE" /\ i \in {2, 3}  BY <1>4, <1>11 DEF EnteredBy
  <2>2. Cumulative("CREATE", 1, Env(rap)) < r  BY <1>7, <2>1
  <2>3. Transitions["CREATE"][1].key = "pCD"  BY DEF Transitions, Edge
  <2>4. Cumulative("CREATE", 1, Env(rap)) = One
    BY <1>5, <1>11, <2>3, DirectoryMass DEF Cumulative
  <2> QED  BY <1>3, <2>2, <2>4 DEF One
<1>12. to = "CREATE_DIR" /\ dirs >= NDirs => zeroDraw'
  BY <1>4, <1>5, <1>6, DirectoryMass DEF EnteredBy
<1> QED  BY <1>8, <1>9, <1>10, <1>11, <1>12, ProbabilitiesAssumption

-----------------------------------------------------------------------------
(***************************************************************************)
(* The space arithmetic of get_file_size and of the write loops.           *)
(***************************************************************************)

\* Rounding down to blocks.
LEMMA BlockDownNat ==
  ASSUME NEW x \in Nat
  PROVE  BlockDown(x) \in Nat /\ BlockDown(x) <= x
  BY BlockAssumption DEF BlockDown

\* Rounding down to the write alignment.
LEMMA AlignDownNat ==
  ASSUME NEW x \in Nat
  PROVE  AlignDown(x) \in Nat /\ AlignDown(x) <= x
  BY AgingAssumption DEF AlignDown

\* Finitely many files with finitely many pages each use finitely many pages.
LEMMA TaggedFinite ==
  ASSUME NEW F, IsFiniteSet(F), NEW pages, \A f \in F : IsFiniteSet(pages[f])
  PROVE  IsFiniteSet(Tagged(F, pages)) /\ CountIn(F, pages) \in Nat
<1> DEFINE column == [f \in F |-> {f} \X pages[f]]
           columns == {{f} \X pages[f] : f \in F}
<1>1. column \in Surjection(F, columns)  BY DEF Surjection
<1>2. IsFiniteSet(columns)  BY <1>1, FS_Surjection
<1>3. ASSUME NEW c \in columns  PROVE IsFiniteSet(c)
  <2>1. PICK f \in F : c = {f} \X pages[f]  BY <1>3
  <2>2. IsFiniteSet({f})  BY FS_Singleton
  <2> QED  BY <2>1, <2>2, FS_Product
<1>4. IsFiniteSet(UNION columns)  BY <1>2, <1>3, FS_UNION
<1> QED  BY <1>4, FS_CardinalityType DEF Tagged, CountIn

\* A size held against the available space is a natural number.
LEMMA SafeSizeNat ==
  ASSUME NEW d \in Nat, Available \in Int
  PROVE  SafeSize(d) \in Nat
<1>1. SafeAvailable \in Nat  BY AgingAssumption DEF SafeAvailable
<1> QED  BY <1>1, BlockDownNat DEF SafeSize

\* A drawn size is a natural number, also from an inverted range.
LEMMA DrawNat ==
  ASSUME NEW from \in Nat, NEW to \in Nat
  PROVE  Draw(from, to) \subseteq Nat
  BY AgingAssumption DEF Draw

\* get_file_size returns a natural number.
LEMMA FileSizesNat ==
  ASSUME NEW from \in Nat, NEW to \in Nat, Available \in Int
  PROVE  FileSizes(from, to) \subseteq Nat
  BY DrawNat, SafeSizeNat DEF FileSizes

\* A range of pages is a finite set of pages.
LEMMA SpanFinite ==
  ASSUME NEW from \in Nat, NEW to \in Int
  PROVE  Span(from, to) \subseteq Nat /\ IsFiniteSet(Span(from, to))
<1>1. IsFiniteSet(from..(to - 1))  BY FS_Interval
<1> QED  BY <1>1 DEF Span

\* A finite set of pages has finitely many extents.
LEMMA ExtentsFinite ==
  ASSUME NEW pages \in SUBSET Nat, IsFiniteSet(pages)
  PROVE  Extents(pages) \subseteq Nat /\ IsFiniteSet(Extents(pages))
<1>1. Extents(pages) \in SUBSET pages  BY DEF Extents
<1> QED  BY <1>1, FS_Subset

\* The walk of Node::truncate either throws or gives a new hole count.
LEMMA TruncatedCountNat ==
  ASSUME NEW old, NEW new, NEW c \in Nat, TruncatedCount(old, new, c) # Threw
  PROVE  TruncatedCount(old, new, c) \in Nat
<1> DEFINE P(i) == IsTruncatedCount(old, new, i)
           first == CHOOSE i \in 1..MaxWalk : P(i)
<1>1. ASSUME \E i \in 1..MaxWalk : P(i)  PROVE first \in Nat
  <2> HIDE DEF P
  <2>1. first \in 1..MaxWalk  BY <1>1
  <2>2. 1..MaxWalk \subseteq Nat  BY DEF MaxWalk
  <2> QED  BY <2>1, <2>2, Zenon
<1> QED  BY <1>1 DEF TruncatedCount

-----------------------------------------------------------------------------
(***************************************************************************)
(* Type correctness.  The totals are numbers only because every file has   *)
(* finitely many pages, and touched only names live files because nothing  *)
(* is touched yet when a file is deleted.                                  *)
(***************************************************************************)

FinitePages == \A f \in Files : IsFiniteSet(mapped[f]) /\ IsFiniteSet(cached[f])

\* The states between END and the handler of a cycle.
Quiet == {"END", "S", "CREATE", "ALTER", "DELETE", "ALTER_SMALLER", "ALTER_BIGGER"}

NothingTouched == state \in Quiet => touched = <<>>

Typed == TypeOK /\ FinitePages /\ NothingTouched

\* A run starts with the types right.
LEMMA TypedInit == Init => Typed
<1> SUFFICES ASSUME Init  PROVE Typed
  OBVIOUS
<1>1. TypeOK
  <2>1. rapid \in BOOLEAN /\ zeroDraw \in BOOLEAN  BY AgingAssumption, Zenon DEF Init
  <2>2. state \in States /\ outcome \in Outcomes
    BY StateNames DEF Init, Outcomes, Branches
  <2>3. dirs \in 0..MaxDirs /\ total \in Int /\ iteration \in Nat
    BY AgingAssumption DEF Init
  <2>4. /\ count \in [Files -> Nat] /\ size \in [Files -> Nat]
        /\ cached \in [Files -> SUBSET Nat] /\ mapped \in [Files -> SUBSET Nat]
    BY DEF Init
  <2>5. touched \in Seq(files)  BY DEF Init
  <2>6. /\ result.action \in States \cup {FirstResult.action}
        /\ result.path \in Files \cup {NoFile}
    BY DEF Init, FirstResult
  <2> QED  BY <2>1, <2>2, <2>3, <2>4, <2>5, <2>6 DEF Init, TypeOK
<1>2. FinitePages  BY FS_EmptySet DEF Init, FinitePages
<1> QED  BY <1>1, <1>2 DEF Init, Typed, NothingTouched

\* The available space is a number, since every file has finitely many pages.
LEMMA AvailableInt ==
  ASSUME TypeOK, FinitePages
  PROVE  Available \in Int
<1>1. CountIn(Files, mapped) \in Nat
  BY TaggedFinite, AgingAssumption DEF FinitePages
<1> QED  BY <1>1, ProbabilitiesAssumption, AgingAssumption DEF Available

\* A handler that dies, a handler that makes a file and one that makes a file
\* grow keep the types.
LEMMA AbortTyped ==
  ASSUME Typed, NEW to \in States \ Quiet, Move(to), NEW reason \in Outcomes, Abort(reason)
  PROVE  Typed'
<1>1. state' = to /\ rapid' \in BOOLEAN /\ zeroDraw' \in BOOLEAN
  BY MoveEffect DEF Typed, TypeOK
<1>2. TypeOK'
  BY <1>1 DEF Typed, TypeOK, Abort, treeVars, diskVars, cycleVars
<1>3. FinitePages'
  BY DEF Typed, FinitePages, Abort, treeVars, diskVars
<1> QED  BY <1>1, <1>2, <1>3 DEF Typed, NothingTouched

\* A handler that adds a file keeps the types.
LEMMA NewFileTyped ==
  ASSUME Typed, NEW to \in States \ Quiet, Move(to),
         NEW f \in Files \ files, NEW bytes \in Nat,
         NEW pages \in SUBSET Nat, IsFiniteSet(pages), NewFile(f, bytes, pages),
         NEW want, Record(to, f, want), UNCHANGED <<outcome, iteration>>
  PROVE  Typed'
<1>1. state' = to /\ rapid' \in BOOLEAN /\ zeroDraw' \in BOOLEAN
  BY MoveEffect DEF Typed, TypeOK
<1>2. touched' \in Seq(files')
  BY DEF Typed, TypeOK, NewFile, Touch
<1>3. /\ count' \in [Files -> Nat] /\ size' \in [Files -> Nat]
      /\ cached' \in [Files -> SUBSET Nat] /\ mapped' \in [Files -> SUBSET Nat]
  BY DEF Typed, TypeOK, NewFile
<1>4. TypeOK'
  BY <1>1, <1>2, <1>3 DEF Typed, TypeOK, NewFile, Record
<1>5. FinitePages'
  BY FS_EmptySet DEF Typed, TypeOK, FinitePages, NewFile
<1> QED  BY <1>1, <1>4, <1>5 DEF Typed, NothingTouched

\* A handler that expands a file keeps the types.
LEMMA GrownTyped ==
  ASSUME Typed, NEW to \in States \ Quiet, Move(to),
         NEW f \in files, NEW new, NEW bytes \in Nat,
         NEW pages \in SUBSET Nat, IsFiniteSet(pages), Grown(to, f, new, bytes, pages)
  PROVE  Typed'
<1>1. state' = to /\ rapid' \in BOOLEAN /\ zeroDraw' \in BOOLEAN
  BY MoveEffect DEF Typed, TypeOK
<1>2. touched' \in Seq(files')
  BY DEF Typed, TypeOK, Grown, Touch, treeVars
<1>3. size' \in [Files -> Nat] /\ mapped' \in [Files -> SUBSET Nat]
  BY DEF Typed, TypeOK, Grown
<1>4. TypeOK'
  BY <1>1, <1>2, <1>3 DEF Typed, TypeOK, Grown, Record, treeVars
<1>5. FinitePages'
  BY FS_Union DEF Typed, TypeOK, FinitePages, Grown, treeVars
<1> QED  BY <1>1, <1>4, <1>5 DEF Typed, NothingTouched

\* Every step keeps the types.
LEMMA TypedNext ==
  ASSUME Typed, [Next]_vars
  PROVE  Typed'
<1> USE DEF Typed
<1>1. /\ state \in States /\ zeroDraw \in BOOLEAN /\ dirs \in 0..MaxDirs
      /\ files \subseteq Files /\ punchable \subseteq files
      /\ size \in [Files -> Nat] /\ mapped \in [Files -> SUBSET Nat]
      /\ count \in [Files -> Nat] /\ cached \in [Files -> SUBSET Nat]
      /\ touched \in Seq(files)
  BY DEF TypeOK
<1>2. Available \in Int  BY AvailableInt
<1>3. ASSUME NEW to \in {"S", "CREATE", "ALTER", "DELETE", "ALTER_SMALLER", "ALTER_BIGGER",
                         "ALTER_METADATA"}, Enter(to)
      PROVE  Typed'
  <2>1. /\ state' = to /\ to \in States /\ rapid' \in BOOLEAN /\ zeroDraw' \in BOOLEAN
        /\ \E i, key : EnteredBy(to, state, i, key)
    BY <1>1, <1>3, MoveEffect DEF Enter
  <2>2. TypeOK'
    BY <1>3, <2>1 DEF TypeOK, Enter, treeVars, diskVars, cycleVars
  <2>3. FinitePages'  BY <1>3 DEF FinitePages, Enter, treeVars, diskVars
  <2>4. to \in Quiet => state \in Quiet  BY <2>1 DEF EnteredBy, Quiet
  <2>5. NothingTouched'  BY <1>3, <2>1, <2>4 DEF NothingTouched, Enter, cycleVars
  <2> QED  BY <2>2, <2>3, <2>5
<1>4. CASE CreateFile
  <2>1. PICK f \in Files \ files, want \in FileSizes(MinSize, MaxSize) :
          \E end \in 0..BlockUp(want) :
            \/ /\ NewFile(f, end, Span(0, end)) /\ Record("CREATE_FILE", f, want)
               /\ UNCHANGED <<outcome, iteration>>
            \/ Abort("no_space")
    BY <1>4 DEF CreateFile
  <2>2. PICK end \in 0..BlockUp(want) :
            \/ /\ NewFile(f, end, Span(0, end)) /\ Record("CREATE_FILE", f, want)
               /\ UNCHANGED <<outcome, iteration>>
            \/ Abort("no_space")
    BY <2>1
  <2>3. "CREATE_FILE" \in States \ Quiet  BY StateNames DEF Branches, Quiet
  <2>4. Move("CREATE_FILE")  BY <1>4 DEF CreateFile
  <2>5. end \in Nat
    OBVIOUS
  <2>6. CASE Abort("no_space")  BY <2>3, <2>4, <2>6, AbortTyped DEF Outcomes
  <2>7. CASE /\ NewFile(f, end, Span(0, end)) /\ Record("CREATE_FILE", f, want)
             /\ UNCHANGED <<outcome, iteration>>
    BY <2>3, <2>4, <2>5, <2>7, SpanFinite, NewFileTyped
  <2> QED  BY <2>2, <2>6, <2>7
<1>5. CASE CreateFileFallocate
  <2>1. PICK f \in Files \ files, want \in FileSizes(MinSize, MaxSize) :
            \/ /\ NewFile(f, want, Span(0, want)) /\ Record("CREATE_FILE_FALLOCATE", f, want)
               /\ UNCHANGED <<outcome, iteration>>
            \/ Abort("no_space")
    BY <1>5 DEF CreateFileFallocate
  <2>2. "CREATE_FILE_FALLOCATE" \in States \ Quiet  BY StateNames DEF Leaves, Quiet
  <2>3. Move("CREATE_FILE_FALLOCATE")  BY <1>5 DEF CreateFileFallocate
  <2>4. want \in Nat  BY <1>2, FileSizesNat, AgingAssumption
  <2>5. CASE Abort("no_space")  BY <2>2, <2>3, <2>5, AbortTyped DEF Outcomes
  <2>6. CASE /\ NewFile(f, want, Span(0, want)) /\ Record("CREATE_FILE_FALLOCATE", f, want)
             /\ UNCHANGED <<outcome, iteration>>
    BY <2>2, <2>3, <2>4, <2>6, SpanFinite, NewFileTyped
  <2> QED  BY <2>1, <2>5, <2>6
<1>6. CASE CreateFileOverwrite
  <2>1. "CREATE_FILE_OVERWRITE" \in States \ Quiet  BY StateNames DEF Leaves, Quiet
  <2>2. Move("CREATE_FILE_OVERWRITE")  BY <1>6 DEF CreateFileOverwrite
  <2>3. CASE Abort("no_space") \/ Abort("assertion")
    BY <2>1, <2>2, <2>3, AbortTyped DEF Outcomes
  <2>4. CASE ~ (Abort("no_space") \/ Abort("assertion"))
    <3>1. /\ PreviousIsFresh
          /\ \E end \in 0..BlockUp(size[Previous]) :
               /\ size' = [size EXCEPT ![Previous] = Larger(@, end)]
               /\ mapped' = [mapped EXCEPT ![Previous] = @ \cup Span(0, end)]
               /\ Record("CREATE_FILE_OVERWRITE", Previous, size[Previous])
               /\ UNCHANGED <<outcome, treeVars, onDisk, touched, iteration>>
      BY <1>6, <2>4 DEF CreateFileOverwrite
    <3>2. Previous \in files  BY <1>1, <3>1 DEF Previous, PreviousIsFresh
    <3> DEFINE f == Previous
    <3>3. PICK end \in 0..BlockUp(size[f]) :
            /\ size' = [size EXCEPT ![f] = Larger(@, end)]
            /\ mapped' = [mapped EXCEPT ![f] = @ \cup Span(0, end)]
            /\ Record("CREATE_FILE_OVERWRITE", f, size[f])
            /\ UNCHANGED <<outcome, treeVars, onDisk, touched, iteration>>
      BY <3>1
    <3>4. f \in files  BY <3>2
    <3> HIDE DEF f
    <3>5. end \in Nat
      OBVIOUS
    <3>6. Span(0, end) \subseteq Nat /\ IsFiniteSet(Span(0, end))  BY <3>5, SpanFinite
    <3>7. Larger(size[f], end) \in Nat  BY <1>1, <3>4, <3>5 DEF Larger
    <3>8. size' \in [Files -> Nat] /\ mapped' \in [Files -> SUBSET Nat]
      BY <1>1, <3>3, <3>4, <3>6, <3>7
    <3>9. /\ state' = "CREATE_FILE_OVERWRITE" /\ rapid' \in BOOLEAN /\ zeroDraw' \in BOOLEAN
      BY <1>1, <2>2, MoveEffect
    <3>10. TypeOK'
      BY <2>1, <3>3, <3>4, <3>8, <3>9 DEF TypeOK, Record, treeVars
    <3>11. FinitePages'
      BY <1>1, <3>3, <3>4, <3>6, FS_Union DEF FinitePages, treeVars
    <3> QED  BY <2>1, <3>9, <3>10, <3>11 DEF NothingTouched
  <2> QED  BY <2>3, <2>4
<1>7. CASE CreateFileRead
  <2>1. "CREATE_FILE_READ" \in States \ Quiet  BY StateNames DEF Leaves, Quiet
  <2>2. Move("CREATE_FILE_READ")  BY <1>7 DEF CreateFileRead
  <2>3. CASE Abort("assertion")  BY <2>1, <2>2, <2>3, AbortTyped DEF Outcomes
  <2>4. CASE ~ Abort("assertion")
    <3>1. /\ PreviousIsFresh
          /\ Record("CREATE_FILE_READ", Previous, size[Previous])
          /\ UNCHANGED <<outcome, treeVars, diskVars, touched, iteration>>
      BY <1>7, <2>4 DEF CreateFileRead
    <3>2. Previous \in files  BY <1>1, <3>1 DEF Previous, PreviousIsFresh
    <3>3. state' = "CREATE_FILE_READ" /\ rapid' \in BOOLEAN /\ zeroDraw' \in BOOLEAN
      BY <1>1, <2>2, MoveEffect
    <3>4. TypeOK'
      BY <2>1, <3>1, <3>2, <3>3 DEF TypeOK, Record, treeVars, diskVars
    <3>5. FinitePages'  BY <3>1 DEF FinitePages, treeVars, diskVars
    <3> QED  BY <2>1, <3>3, <3>4, <3>5 DEF NothingTouched
  <2> QED  BY <2>3, <2>4
<1>8. CASE CreateDir
  <2>1. /\ state' = "CREATE_DIR" /\ "CREATE_DIR" \in States \ Quiet
        /\ rapid' \in BOOLEAN /\ zeroDraw' \in BOOLEAN
    BY <1>1, <1>8, MoveEffect, StateNames DEF CreateDir, Leaves, Quiet
  <2>2. dirs' \in 0..MaxDirs  BY <1>1, <1>8, AgingAssumption DEF CreateDir
  <2>3. TypeOK'
    BY <1>8, <2>1, <2>2 DEF TypeOK, CreateDir, Record, diskVars
  <2>4. FinitePages'  BY <1>8 DEF FinitePages, CreateDir, diskVars
  <2> QED  BY <2>1, <2>3, <2>4 DEF NothingTouched
<1>9. CASE AlterSmallerTruncate
  <2>1. "ALTER_SMALLER_TRUNCATE" \in States \ Quiet  BY StateNames DEF Leaves, Quiet
  <2>2. Move("ALTER_SMALLER_TRUNCATE")  BY <1>9 DEF AlterSmallerTruncate
  <2>3. CASE Abort("no_files") \/ Abort("walk")
    BY <2>1, <2>2, <2>3, AbortTyped DEF Outcomes
  <2>4. CASE ~ (Abort("no_files") \/ Abort("walk"))
    <3>1. PICK f \in files : \E new \in Draw(Larger(size[f] \div 2, Block), size[f]) :
            /\ TruncatedCount(size[f], new, count[f]) # Threw
            /\ count' = [count EXCEPT ![f] = TruncatedCount(size[f], new, count[f])]
            /\ \E bytes \in {new, size[f]} :
                 /\ size' = [size EXCEPT ![f] = bytes]
                 /\ mapped' = [mapped EXCEPT ![f] = {p \in @ : p < bytes}]
            /\ punchable' \in {punchable, punchable \ {f}}
            /\ Touch(f)
            /\ Record("ALTER_SMALLER_TRUNCATE", f, new)
            /\ UNCHANGED <<outcome, dirs, files, cached, total, onDisk, iteration>>
      BY <1>9, <2>4 DEF AlterSmallerTruncate, NeedsFile
    <3>2. PICK new \in Draw(Larger(size[f] \div 2, Block), size[f]) :
            /\ TruncatedCount(size[f], new, count[f]) # Threw
            /\ count' = [count EXCEPT ![f] = TruncatedCount(size[f], new, count[f])]
            /\ \E bytes \in {new, size[f]} :
                 /\ size' = [size EXCEPT ![f] = bytes]
                 /\ mapped' = [mapped EXCEPT ![f] = {p \in @ : p < bytes}]
            /\ punchable' \in {punchable, punchable \ {f}}
            /\ Touch(f)
            /\ Record("ALTER_SMALLER_TRUNCATE", f, new)
            /\ UNCHANGED <<outcome, dirs, files, cached, total, onDisk, iteration>>
      BY <3>1
    <3>3. PICK bytes \in {new, size[f]} :
            /\ size' = [size EXCEPT ![f] = bytes]
            /\ mapped' = [mapped EXCEPT ![f] = {p \in @ : p < bytes}]
      BY <3>2
    <3>4. f \in Files /\ size[f] \in Nat /\ count[f] \in Nat /\ mapped[f] \in SUBSET Nat
      BY <1>1
    <3>5. Larger(size[f] \div 2, Block) \in Nat  BY <3>4, BlockAssumption DEF Larger
    <3>6. bytes \in Nat  BY <3>4, <3>5, DrawNat
    <3>7. TruncatedCount(size[f], new, count[f]) \in Nat
      BY <3>2, <3>4, TruncatedCountNat
    <3>8. count' \in [Files -> Nat] /\ size' \in [Files -> Nat]
      BY <1>1, <3>2, <3>3, <3>6, <3>7
    <3>9. mapped' \in [Files -> SUBSET Nat]  BY <1>1, <3>3, <3>4
    <3>10. touched' \in Seq(files')  BY <1>1, <3>2 DEF Touch
    <3>11. state' = "ALTER_SMALLER_TRUNCATE" /\ rapid' \in BOOLEAN /\ zeroDraw' \in BOOLEAN
      BY <1>1, <2>2, MoveEffect
    <3>12. TypeOK'
      BY <2>1, <3>2, <3>4, <3>8, <3>9, <3>10, <3>11 DEF TypeOK, Record
    <3>13. {p \in mapped[f] : p < bytes} \in SUBSET mapped[f]
      OBVIOUS
    <3>14. FinitePages'
      BY <1>1, <3>2, <3>3, <3>4, <3>13, FS_Subset DEF FinitePages
    <3> QED  BY <2>1, <3>11, <3>12, <3>14 DEF NothingTouched
  <2> QED  BY <2>3, <2>4
<1>10. CASE AlterSmallerFallocate
  <2>1. "ALTER_SMALLER_FALLOCATE" \in States \ Quiet  BY StateNames DEF Leaves, Quiet
  <2>2. Move("ALTER_SMALLER_FALLOCATE")  BY <1>10 DEF AlterSmallerFallocate
  <2>3. CASE Abort("no_punchable") \/ Abort("no_hole")
    BY <2>1, <2>2, <2>3, AbortTyped DEF Outcomes
  <2>4. CASE ~ (Abort("no_punchable") \/ Abort("no_hole"))
    <3> DEFINE hole(f) == HoleAddress(size[f], count[f])
    <3>1. PICK f \in punchable :
            /\ count' = [count EXCEPT ![f] = @ + 1]
            /\ mapped' \in {[mapped EXCEPT ![f] = @ \ Span(hole(f).from, hole(f).to)], mapped}
            /\ Touch(f)
            /\ punchable' \in {punchable, punchable \ {f}}
            /\ Record("ALTER_SMALLER_FALLOCATE", f, hole(f).to - hole(f).from)
            /\ UNCHANGED <<outcome, dirs, files, cached, total, onDisk, size, iteration>>
      BY <1>10, <2>4 DEF AlterSmallerFallocate, NeedsFile
    <3> DEFINE left == mapped[f] \ Span(hole(f).from, hole(f).to)
    <3>2. f \in files /\ f \in Files /\ left \in SUBSET mapped[f] /\ count[f] \in Nat
      BY <1>1
    <3>3. mapped' \in {[mapped EXCEPT ![f] = left], mapped}  BY <3>1
    <3> HIDE DEF left
    <3>4. count' \in [Files -> Nat]  BY <1>1, <3>1, <3>2
    <3>5. left \in SUBSET Nat  BY <1>1, <3>2
    <3>6. mapped' \in [Files -> SUBSET Nat]  BY <1>1, <3>2, <3>3, <3>5
    <3>7. touched' \in Seq(files')  BY <1>1, <3>1, <3>2 DEF Touch
    <3>8. state' = "ALTER_SMALLER_FALLOCATE" /\ rapid' \in BOOLEAN /\ zeroDraw' \in BOOLEAN
      BY <1>1, <2>2, MoveEffect
    <3>9. TypeOK'
      BY <2>1, <3>1, <3>2, <3>4, <3>6, <3>7, <3>8 DEF TypeOK, Record
    <3>10. IsFiniteSet(left)  BY <3>2, FS_Subset DEF FinitePages
    <3>11. FinitePages'  BY <1>1, <3>1, <3>2, <3>3, <3>10 DEF FinitePages
    <3> QED  BY <2>1, <3>8, <3>9, <3>11 DEF NothingTouched
  <2> QED  BY <2>3, <2>4
<1>11. CASE AlterBiggerFallocate
  <2>1. "ALTER_BIGGER_FALLOCATE" \in States \ Quiet  BY StateNames DEF Leaves, Quiet
  <2>2. Move("ALTER_BIGGER_FALLOCATE")  BY <1>11 DEF AlterBiggerFallocate
  <2>3. CASE Abort("no_files") \/ Abort("no_space")
    BY <2>1, <2>2, <2>3, AbortTyped DEF Outcomes
  <2>4. CASE ~ (Abort("no_files") \/ Abort("no_space"))
    <3>1. PICK f \in files : \E new \in FileSizes(size[f], MaxSize) :
            \/ Grown("ALTER_BIGGER_FALLOCATE", f, new, new, Span(size[f], new))
            \/ Grown("ALTER_BIGGER_FALLOCATE", f, new, size[f], {})
      BY <1>11, <2>4 DEF AlterBiggerFallocate, NeedsFile
    <3>2. PICK new \in FileSizes(size[f], MaxSize) :
            \/ Grown("ALTER_BIGGER_FALLOCATE", f, new, new, Span(size[f], new))
            \/ Grown("ALTER_BIGGER_FALLOCATE", f, new, size[f], {})
      BY <3>1
    <3>3. size[f] \in Nat  BY <1>1
    <3>4. new \in Nat  BY <1>2, <3>3, FileSizesNat, AgingAssumption
    <3>5. CASE Grown("ALTER_BIGGER_FALLOCATE", f, new, new, Span(size[f], new))
      BY <2>1, <2>2, <3>3, <3>4, <3>5, SpanFinite, GrownTyped
    <3>6. CASE Grown("ALTER_BIGGER_FALLOCATE", f, new, size[f], {})
      BY <2>1, <2>2, <3>3, <3>6, FS_EmptySet, GrownTyped
    <3> QED  BY <3>2, <3>5, <3>6
  <2> QED  BY <2>3, <2>4
<1>12. CASE AlterBiggerWrite
  <2>1. "ALTER_BIGGER_WRITE" \in States \ Quiet  BY StateNames DEF Leaves, Quiet
  <2>2. Move("ALTER_BIGGER_WRITE")  BY <1>12 DEF AlterBiggerWrite
  <2>3. CASE Abort("no_files") \/ Abort("no_space") \/ Abort("spins")
    BY <2>1, <2>2, <2>3, AbortTyped DEF Outcomes
  <2>4. CASE ~ (Abort("no_files") \/ Abort("no_space") \/ Abort("spins"))
    <3> DEFINE start(f) == AlignDown(size[f])
    <3>1. PICK f \in files : \E new \in FileSizes(size[f], MaxSize) :
            \/ Grown("ALTER_BIGGER_WRITE", f, new, size[f], {})
            \/ \E goal : \E end \in start(f)..goal :
                 Grown("ALTER_BIGGER_WRITE", f, new, Larger(size[f], end), Span(start(f), end))
      BY <1>12, <2>4 DEF AlterBiggerWrite, NeedsFile
    <3>2. size[f] \in Nat /\ start(f) \in Nat  BY <1>1, AlignDownNat
    <3>3. CASE \E new : Grown("ALTER_BIGGER_WRITE", f, new, size[f], {})
      BY <2>1, <2>2, <3>2, <3>3, FS_EmptySet, GrownTyped
    <3>4. CASE \E new, goal : \E end \in start(f)..goal :
                 Grown("ALTER_BIGGER_WRITE", f, new, Larger(size[f], end), Span(start(f), end))
      <4> HIDE DEF start
      <4>1. PICK new, goal : \E end \in start(f)..goal :
                 Grown("ALTER_BIGGER_WRITE", f, new, Larger(size[f], end), Span(start(f), end))
        BY <3>4
      <4>2. PICK end \in start(f)..goal :
                 Grown("ALTER_BIGGER_WRITE", f, new, Larger(size[f], end), Span(start(f), end))
        BY <4>1
      <4>3. end \in Int /\ end >= start(f)
        OBVIOUS
      <4>4. Larger(size[f], end) \in Nat  BY <3>2, <4>3 DEF Larger
      <4>5. Span(start(f), end) \subseteq Nat /\ IsFiniteSet(Span(start(f), end))
        BY <3>2, <4>3, SpanFinite
      <4> QED  BY <2>1, <2>2, <4>2, <4>4, <4>5, GrownTyped
    <3> QED  BY <3>1, <3>3, <3>4
  <2> QED  BY <2>3, <2>4
<1>13. CASE DeleteFile
  <2>1. "DELETE_FILE" \in States \ Quiet  BY StateNames DEF Leaves, Quiet
  <2>2. Move("DELETE_FILE")  BY <1>13 DEF DeleteFile
  <2>3. CASE Abort("no_files")  BY <2>1, <2>2, <2>3, AbortTyped DEF Outcomes
  <2>4. CASE ~ Abort("no_files")
    <3>1. PICK f \in files :
            /\ Unlist(f)
            /\ total' = total - ExtentsLost(f)
            /\ onDisk' = onDisk \ {f}
            /\ count' = [count EXCEPT ![f] = 0]
            /\ cached' = [cached EXCEPT ![f] = {}]
            /\ size' = [size EXCEPT ![f] = 0]
            /\ mapped' = [mapped EXCEPT ![f] = {}]
            /\ Record("DELETE_FILE", f, result.size)
            /\ UNCHANGED <<outcome, dirs, touched, iteration>>
      BY <1>13, <2>4 DEF DeleteFile, NeedsFile
    <3>2. f \in Files /\ mapped[f] \in SUBSET Nat /\ IsFiniteSet(mapped[f])
      BY <1>1 DEF FinitePages
    <3>3. ExtentsLost(f) \in Nat
      BY <3>2, ExtentsFinite, FS_CardinalityType DEF ExtentsLost
    <3>4. total' \in Int  BY <3>1, <3>3 DEF TypeOK
    <3>5. /\ state' = "DELETE_FILE" /\ rapid' \in BOOLEAN /\ zeroDraw' \in BOOLEAN
          /\ state = "DELETE"
      BY <1>1, <2>2, MoveEffect DEF EnteredBy
    <3>6. touched' \in Seq(files')
      <4>1. touched = <<>>  BY <3>5 DEF NothingTouched, Quiet
      <4> QED  BY <3>1, <4>1
    <3>7. /\ count' \in [Files -> Nat] /\ size' \in [Files -> Nat]
          /\ cached' \in [Files -> SUBSET Nat] /\ mapped' \in [Files -> SUBSET Nat]
      BY <1>1, <3>1
    <3>8. TypeOK'
      BY <1>1, <2>1, <3>1, <3>2, <3>4, <3>5, <3>6, <3>7 DEF TypeOK, Record, Unlist
    <3>9. FinitePages'  BY <1>1, <3>1, FS_EmptySet DEF FinitePages
    <3> QED  BY <2>1, <3>5, <3>8, <3>9 DEF NothingTouched
  <2> QED  BY <2>3, <2>4
<1>14. CASE DeleteDir
  <2>1. "DELETE_DIR" \in States \ Quiet  BY StateNames DEF Leaves, Quiet
  <2>2. Move("DELETE_DIR")  BY <1>14 DEF DeleteDir
  <2>3. CASE Abort("no_dirs")  BY <2>1, <2>2, <2>3, AbortTyped DEF Outcomes
  <2>4. CASE UNCHANGED <<outcome, treeVars, diskVars, cycleVars>>
    <3>1. state' = "DELETE_DIR" /\ rapid' \in BOOLEAN /\ zeroDraw' \in BOOLEAN
      BY <1>1, <2>2, MoveEffect
    <3>2. TypeOK'  BY <2>1, <2>4, <3>1 DEF TypeOK, treeVars, diskVars, cycleVars
    <3>3. FinitePages'  BY <2>4 DEF FinitePages, treeVars, diskVars
    <3> QED  BY <2>1, <3>1, <3>2, <3>3 DEF NothingTouched
  <2> QED  BY <1>14, <2>3, <2>4 DEF DeleteDir
<1>15. CASE EndCycle
  <2>1. state' = "END" /\ "END" \in States /\ rapid' \in BOOLEAN /\ zeroDraw' \in BOOLEAN
    BY <1>1, <1>15, MoveEffect, StateNames DEF EndCycle
  <2>2. TouchedFiles \subseteq Files  BY <1>1 DEF TouchedFiles
  <2> DEFINE scan == Scan(TouchedFiles)
  <2>3. \A f \in Files : scan[f] \in SUBSET Nat /\ IsFiniteSet(scan[f])
    BY <1>1, ExtentsFinite DEF Scan, FinitePages
  <2>4. scan \in [Files -> SUBSET Nat]  BY <2>3 DEF Scan
  <2>5. cached' = scan  BY <1>15 DEF EndCycle
  <2>6. IsFiniteSet(TouchedFiles)  BY <2>2, AgingAssumption, FS_Subset
  <2>7. CountIn(TouchedFiles, scan) \in Nat /\ CountIn(TouchedFiles, cached) \in Nat
    <3> HIDE DEF scan
    <3>1. \A f \in TouchedFiles : IsFiniteSet(scan[f]) /\ IsFiniteSet(cached[f])
      BY <2>2, <2>3 DEF FinitePages
    <3> QED  BY <2>6, <3>1, TaggedFinite
  <2>8. total' \in Int  BY <1>15, <2>7 DEF EndCycle, TypeOK
  <2>9. iteration' \in Nat  BY <1>15 DEF EndCycle, NextIteration, TypeOK
  <2>10. punchable' \subseteq files'  BY <1>1, <1>15 DEF EndCycle, Recheck
  <2>11. "DELETE_FILE" \in States  BY StateNames DEF Leaves
  <2>12. TypeOK'
    <3> HIDE DEF scan
    <3> QED  BY <1>15, <2>1, <2>4, <2>5, <2>8, <2>9, <2>10, <2>11
             DEF TypeOK, EndCycle, ZeroResult, diskVars
  <2>13. FinitePages'
    <3> HIDE DEF scan
    <3> QED  BY <1>15, <2>3, <2>5 DEF FinitePages, EndCycle, diskVars
  <2> QED  BY <1>15, <2>12, <2>13 DEF NothingTouched, EndCycle
<1>16. CASE Finish
  <2>1. /\ outcome' \in Outcomes /\ state' = state
        /\ UNCHANGED <<rapid, zeroDraw, dirs, files, punchable, count, total, cycleVars>>
    BY <1>16 DEF Finish, Outcomes
  <2>2. \A f \in Files : Scan(files)[f] \in SUBSET Nat /\ IsFiniteSet(Scan(files)[f])
    BY <1>1, ExtentsFinite DEF Scan, FinitePages
  <2>3. cached' = Scan(files) /\ cached' \in [Files -> SUBSET Nat]
    BY <1>16, <2>2 DEF Finish, Scan
  <2>4. /\ onDisk' \subseteq Files /\ size' \in [Files -> Nat] /\ mapped' \in [Files -> SUBSET Nat]
        /\ \A f \in Files : mapped'[f] \in {mapped[f], {}}
    <3>1. CASE Cleanup
      <4>1. /\ onDisk' = onDisk \ Cleaned
            /\ size' = [f \in Files |-> IF f \in Cleaned THEN 0 ELSE size[f]]
            /\ mapped' = [f \in Files |-> IF f \in Cleaned THEN {} ELSE mapped[f]]
        BY <1>16, <3>1, Zenon DEF Finish
      <4> QED  BY <1>1, <4>1 DEF TypeOK
    <3>2. CASE ~ Cleanup
      <4>1. UNCHANGED diskVars  BY <1>16, <3>2, Zenon DEF Finish
      <4> QED  BY <1>1, <4>1 DEF TypeOK, diskVars
    <3> QED  BY <3>1, <3>2
  <2>5. rapid' \in BOOLEAN /\ zeroDraw' \in BOOLEAN  BY <2>1 DEF TypeOK
  <2>6. TypeOK'  BY <2>1, <2>3, <2>4, <2>5 DEF TypeOK, cycleVars
  <2>7. FinitePages'  BY <2>2, <2>3, <2>4, FS_EmptySet DEF FinitePages
  <2> QED  BY <2>1, <2>6, <2>7 DEF NothingTouched, cycleVars
<1>17. CASE UNCHANGED vars
  <2>1. TypeOK'  BY <1>17 DEF TypeOK, vars, treeVars, diskVars, cycleVars
  <2>2. FinitePages' /\ NothingTouched'
    BY <1>17 DEF FinitePages, NothingTouched, vars, treeVars, diskVars, cycleVars
  <2> QED  BY <2>1, <2>2
<1> QED
  BY <1>3, <1>4, <1>5, <1>6, <1>7, <1>8, <1>9, <1>10, <1>11, <1>12, <1>13, <1>14, <1>15,
     <1>16, <1>17 DEF Next, Iterate, Ended

\* Every variable keeps its type: the punch list names live files, the files
\* touched in a cycle are alive, and the extent total is a number.
THEOREM TypeCorrect == Spec => []TypeOK
<1>1. Init => Typed  BY TypedInit
<1>2. Typed /\ [Next]_vars => Typed'  BY TypedNext
<1>3. Typed => TypeOK  BY DEF Typed
<1> QED  BY <1>1, <1>2, <1>3, PTL DEF Spec

-----------------------------------------------------------------------------
(***************************************************************************)
(* The lists of the tree.                                                  *)
(***************************************************************************)
\* What a state on the way to a handler may count on.
Lists ==
  outcome = "running" =>
    /\ state = "CREATE_FILE" => PreviousIsFresh
    /\ state = "DELETE" => files # {}
    /\ state \in {"ALTER", "ALTER_SMALLER", "ALTER_BIGGER"} => files # {} \/ zeroDraw

Inv == Typed /\ PunchListSound /\ DirectoryPhase /\ DrawsSucceed /\ Lists

-----------------------------------------------------------------------------
\* Touch(f) adds f to the touched files.
LEMMA TouchAdds ==
  ASSUME NEW S, touched \in Seq(S), NEW f, Touch(f)
  PROVE  TouchedFiles' = TouchedFiles \cup {f}
<1>1. touched' = Append(touched, f)  BY DEF Touch
<1>2. DOMAIN touched' = DOMAIN touched \cup {Len(touched) + 1}  BY <1>1
<1>3. touched'[Len(touched) + 1] = f /\ \A i \in DOMAIN touched : touched'[i] = touched[i]
  BY <1>1
<1> QED  BY <1>2, <1>3 DEF TouchedFiles

\* A run starts with empty lists in S.
LEMMA InvInit == Init => Inv
<1>1. ASSUME Init  PROVE PunchListSound /\ DirectoryPhase /\ DrawsSucceed /\ Lists
  <2>1. punchable = {} /\ files = {} /\ dirs = 0 /\ outcome = "running" /\ state = "S"
    BY <1>1 DEF Init
  <2> QED  BY <2>1, ProbabilitiesAssumption DEF PunchListSound, DirectoryPhase, DrawsSucceed, Lists
<1> QED  BY <1>1, TypedInit DEF Inv

\* A step that does not end the run is a transition of a running machine, or
\* it changes nothing.
LEMMA RunningStep ==
  ASSUME Typed, [Next]_vars
  PROVE  \/ UNCHANGED vars
         \/ outcome = "running" /\ Finish
         \/ outcome = "running" /\ Iterate
<1> USE DEF Typed
<1>1. state \in States /\ zeroDraw \in BOOLEAN  BY DEF TypeOK
<1>2. ASSUME Iterate  PROVE outcome = "running"
  BY <1>1, <1>2, MoveEffect
     DEF Iterate, Enter, CreateFile, CreateFileFallocate, CreateFileOverwrite, CreateFileRead,
         CreateDir, AlterSmallerTruncate, AlterSmallerFallocate, AlterBiggerFallocate,
         AlterBiggerWrite, DeleteFile, DeleteDir, EndCycle
<1>3. Finish => outcome = "running"  BY DEF Finish
<1> QED  BY <1>2, <1>3 DEF Next, Ended

-----------------------------------------------------------------------------
(***************************************************************************)
(* The punch list.  Every handler that changes a file's size or counter    *)
(* touches the file; END checks the touched files and forgets them.        *)
(***************************************************************************)
\* A handler that leaves a file without room takes it off the list or touches
\* it, and END rechecks what was touched.
LEMMA PunchListNext ==
  ASSUME Typed, PunchListSound, [Next]_vars
  PROVE  PunchListSound'
<1> SUFFICES ASSUME outcome' = "running", NEW f \in punchable'
             PROVE  f \in TouchedFiles' \/ IsPunchable(size[f], count[f])'
  BY DEF PunchListSound
<1>1. /\ files \subseteq Files /\ punchable \subseteq files
      /\ size \in [Files -> Nat] /\ count \in [Files -> Nat]
      /\ touched \in Seq(files) /\ state \in States /\ zeroDraw \in BOOLEAN
  BY DEF Typed, TypeOK
<1>2. ASSUME outcome = "running", f \in punchable
      PROVE  f \in TouchedFiles \/ IsPunchable(size[f], count[f])
  BY <1>2 DEF PunchListSound
<1>3. ASSUME UNCHANGED <<punchable, touched, size, count>>, outcome = "running"
      PROVE  f \in TouchedFiles' \/ IsPunchable(size[f], count[f])'
  <2>1. f \in punchable /\ size' = size /\ count' = count /\ touched' = touched  BY <1>3
  <2> QED  BY <1>2, <1>3, <2>1 DEF TouchedFiles
\* A handler that changes, of size and counter, at most those of a file it
\* touches, and adds at most that file to the list.
<1>4. ASSUME NEW g, Touch(g), outcome = "running", f # g => f \in punchable,
             f # g => size'[f] = size[f] /\ count'[f] = count[f]
      PROVE  f \in TouchedFiles' \/ IsPunchable(size[f], count[f])'
  <2>1. TouchedFiles' = TouchedFiles \cup {g}  BY <1>1, <1>4, TouchAdds
  <2> QED  BY <1>2, <1>4, <2>1
<1>5. CASE UNCHANGED vars
  <2>1. outcome = "running" /\ UNCHANGED <<punchable, touched, size, count>>
    BY <1>5 DEF vars, treeVars, diskVars, cycleVars
  <2> QED  BY <1>3, <2>1
<1>6. CASE Finish
  BY <1>6 DEF Finish
<1>7. ASSUME outcome = "running", NEW to, Enter(to)
      PROVE  f \in TouchedFiles' \/ IsPunchable(size[f], count[f])'
  BY <1>3, <1>7 DEF Enter, treeVars, diskVars, cycleVars
<1>8. ASSUME outcome = "running", NEW g \in Files, NEW bytes, NEW pages, NewFile(g, bytes, pages)
      PROVE  f \in TouchedFiles' \/ IsPunchable(size[f], count[f])'
  <2>1. Touch(g) /\ punchable' = punchable \cup {g}  BY <1>8 DEF NewFile
  <2>2. f # g => f \in punchable  BY <2>1
  <2>3. f # g => size'[f] = size[f] /\ count'[f] = count[f]  BY <1>1, <1>8, <2>2 DEF NewFile
  <2> QED  BY <1>4, <1>8, <2>1, <2>2, <2>3
<1>9. ASSUME outcome = "running", NEW a, NEW g \in files, NEW new, NEW bytes, NEW pages,
             Grown(a, g, new, bytes, pages)
      PROVE  f \in TouchedFiles' \/ IsPunchable(size[f], count[f])'
  <2>1. Touch(g) /\ punchable' = punchable /\ count' = count
    BY <1>9 DEF Grown, treeVars
  <2>2. f # g => size'[f] = size[f]  BY <1>1, <1>9, <2>1 DEF Grown
  <2> QED  BY <1>4, <1>9, <2>1, <2>2
<1>10. ASSUME outcome = "running", Iterate
       PROVE  f \in TouchedFiles' \/ IsPunchable(size[f], count[f])'
  <2>1. \A reason \in Outcomes \ {"running"} : ~ Abort(reason)  BY DEF Abort
  <2>2. ~ Abort("no_space") /\ ~ Abort("assertion") /\ ~ Abort("walk") /\ ~ Abort("no_hole")
        /\ ~ Abort("no_files") /\ ~ Abort("no_punchable") /\ ~ Abort("no_dirs") /\ ~ Abort("spins")
    BY <2>1 DEF Outcomes
  <2>3. CASE CreateFile
    <3>1. \E g \in Files \ files : \E end : NewFile(g, end, Span(0, end))
      BY <2>2, <2>3 DEF CreateFile
    <3> QED  BY <1>8, <1>10, <3>1
  <2>4. CASE CreateFileFallocate
    <3>1. \E g \in Files \ files : \E want : NewFile(g, want, Span(0, want))
      BY <2>2, <2>4 DEF CreateFileFallocate
    <3> QED  BY <1>8, <1>10, <3>1
  <2>5. CASE CreateFileOverwrite
    <3>1. /\ PreviousIsFresh
          /\ \E end : size' = [size EXCEPT ![Previous] = Larger(@, end)]
          /\ UNCHANGED <<treeVars, touched>>
      BY <2>2, <2>5 DEF CreateFileOverwrite
    <3>2. Previous \in TouchedFiles
      BY <1>1, <3>1 DEF Previous, PreviousIsFresh, TouchedFiles
    <3>3. f \in punchable /\ count' = count /\ TouchedFiles' = TouchedFiles
      BY <3>1 DEF treeVars, TouchedFiles
    <3>4. f # Previous => size'[f] = size[f]  BY <1>1, <3>1, <3>3
    <3> QED  BY <1>2, <1>10, <3>2, <3>3, <3>4
  <2>6. CASE CreateFileRead
    BY <1>3, <1>10, <2>2, <2>6 DEF CreateFileRead, treeVars, diskVars
  <2>7. CASE CreateDir
    BY <1>3, <1>10, <2>7 DEF CreateDir, diskVars
  <2>8. CASE AlterSmallerTruncate
    <3>1. PICK g \in files :
            /\ \E bytes : size' = [size EXCEPT ![g] = bytes]
            /\ \E walked : count' = [count EXCEPT ![g] = walked]
            /\ punchable' \in {punchable, punchable \ {g}}
            /\ Touch(g)
      BY <2>2, <2>8 DEF AlterSmallerTruncate, NeedsFile
    <3>2. f # g => f \in punchable /\ size'[f] = size[f] /\ count'[f] = count[f]
      BY <1>1, <3>1
    <3> QED  BY <1>4, <1>10, <3>1, <3>2
  <2>9. CASE AlterSmallerFallocate
    <3>1. PICK g \in punchable :
            /\ size' = size
            /\ count' = [count EXCEPT ![g] = @ + 1]
            /\ punchable' \in {punchable, punchable \ {g}}
            /\ Touch(g)
      BY <2>2, <2>9 DEF AlterSmallerFallocate, NeedsFile
    <3>2. f # g => f \in punchable /\ size'[f] = size[f] /\ count'[f] = count[f]
      BY <1>1, <3>1
    <3> QED  BY <1>4, <1>10, <3>1, <3>2
  <2>10. CASE AlterBiggerFallocate
    <3>1. \E g \in files : \E new, bytes, pages :
            Grown("ALTER_BIGGER_FALLOCATE", g, new, bytes, pages)
      BY <2>2, <2>10 DEF AlterBiggerFallocate, NeedsFile
    <3> QED  BY <1>9, <1>10, <3>1
  <2>11. CASE AlterBiggerWrite
    <3>1. \E g \in files : \E new, bytes, pages : Grown("ALTER_BIGGER_WRITE", g, new, bytes, pages)
      BY <2>2, <2>11 DEF AlterBiggerWrite, NeedsFile
    <3> QED  BY <1>9, <1>10, <3>1
  <2>12. CASE DeleteFile
    <3>1. PICK g \in files :
            /\ Unlist(g)
            /\ count' = [count EXCEPT ![g] = 0] /\ size' = [size EXCEPT ![g] = 0]
            /\ touched' = touched
      BY <2>2, <2>12 DEF DeleteFile, NeedsFile
    <3>2. f # g /\ f \in punchable /\ TouchedFiles' = TouchedFiles
      BY <3>1 DEF Unlist, TouchedFiles
    <3>3. size'[f] = size[f] /\ count'[f] = count[f]  BY <1>1, <3>1, <3>2
    <3> QED  BY <1>2, <1>10, <3>2, <3>3
  <2>13. CASE DeleteDir
    BY <1>3, <1>10, <2>2, <2>13 DEF DeleteDir, treeVars, diskVars, cycleVars
  <2>14. CASE EndCycle
    <3>1. f \in punchable /\ (f \in TouchedFiles => IsPunchable(size[f], count[f]))
      BY <2>14 DEF EndCycle, Recheck
    <3>2. size' = size /\ count' = count  BY <2>14 DEF EndCycle, diskVars
    <3> QED  BY <1>2, <1>10, <3>1, <3>2
  <2> QED
    BY <1>7, <1>10, <2>3, <2>4, <2>5, <2>6, <2>7, <2>8, <2>9, <2>10, <2>11, <2>12, <2>13,
       <2>14 DEF Iterate
<1> QED  BY <1>5, <1>6, <1>10, RunningStep

-----------------------------------------------------------------------------
(***************************************************************************)
(* The directory phase.                                                    *)
(***************************************************************************)
\* Only CREATE_DIR adds a directory and only the CREATE handlers add a file;
\* the edges into them have a probability above zero in one phase only.
LEMMA DirectoryNext ==
  ASSUME Typed, DirectoryPhase, [Next]_vars
  PROVE  DirectoryPhase'
<1>1. /\ dirs \in Nat /\ state \in States /\ zeroDraw \in BOOLEAN
  BY AgingAssumption DEF Typed, TypeOK
\* Only a handler that makes a file adds one, and only CREATE_DIR a directory.
<1>2. ASSUME dirs' = dirs, files' \subseteq files, zeroDraw => zeroDraw'
      PROVE  DirectoryPhase'
  BY <1>2 DEF DirectoryPhase
<1>3. ASSUME NEW to \in {"CREATE_FILE", "CREATE_FILE_FALLOCATE"}, Move(to), dirs' = dirs
      PROVE  DirectoryPhase'
  BY <1>1, <1>3, MoveEffect, MoveDraws DEF DirectoryPhase
<1>4. CASE CreateFile
  <2>1. Move("CREATE_FILE") /\ dirs' = dirs
    BY <1>4 DEF CreateFile, NewFile, Abort, treeVars
  <2> QED  BY <1>3, <2>1
<1>5. CASE CreateFileFallocate
  <2>1. Move("CREATE_FILE_FALLOCATE") /\ dirs' = dirs
    BY <1>5 DEF CreateFileFallocate, NewFile, Abort, treeVars
  <2> QED  BY <1>3, <2>1
<1>6. CASE CreateDir
  <2>1. Move("CREATE_DIR") /\ dirs' = dirs + 1 /\ files' = files  BY <1>6 DEF CreateDir
  <2>2. dirs >= NDirs => zeroDraw'  BY <1>1, <2>1, MoveDraws
  <2> QED  BY <1>1, <2>1, <2>2, ProbabilitiesAssumption DEF DirectoryPhase
<1>7. CASE Finish \/ UNCHANGED vars
  BY <1>2, <1>7 DEF Finish, vars, treeVars
<1>8. CASE Iterate /\ ~ CreateFile /\ ~ CreateFileFallocate /\ ~ CreateDir
  <2>1. dirs' = dirs /\ files' \subseteq files
    BY <1>8 DEF Iterate, Enter, CreateFileOverwrite, CreateFileRead, AlterSmallerTruncate,
       AlterSmallerFallocate, AlterBiggerFallocate, AlterBiggerWrite, DeleteFile, DeleteDir,
       EndCycle, Grown, Unlist, Abort, NeedsFile, treeVars
  <2>2. \E to : Move(to)
    BY <1>8 DEF Iterate, Enter, CreateFileOverwrite, CreateFileRead, AlterSmallerTruncate,
       AlterSmallerFallocate, AlterBiggerFallocate, AlterBiggerWrite, DeleteFile, DeleteDir,
       EndCycle
  <2>3. zeroDraw => zeroDraw'  BY <1>1, <2>2, MoveEffect
  <2> QED  BY <1>2, <2>1, <2>3
<1> QED  BY <1>4, <1>5, <1>6, <1>7, <1>8, RunningStep

-----------------------------------------------------------------------------
(***************************************************************************)
(* The lists the handlers draw from.                                       *)
(***************************************************************************)

\* What one transition hands on to the next.
LEMMA ListsNext ==
  ASSUME Inv, [Next]_vars
  PROVE  Lists'
<1>1. /\ files \subseteq Files /\ touched \in Seq(files) /\ count \in [Files -> Nat]
      /\ dirs \in Nat /\ state \in States /\ zeroDraw \in BOOLEAN
  BY AgingAssumption DEF Inv, Typed, TypeOK
<1>2. ASSUME state' \notin {"CREATE_FILE", "DELETE", "ALTER", "ALTER_SMALLER", "ALTER_BIGGER"}
      PROVE  Lists'
  BY <1>2 DEF Lists
<1>3. ASSUME NEW to \in {"S", "CREATE", "ALTER", "DELETE", "ALTER_SMALLER", "ALTER_BIGGER",
                         "ALTER_METADATA"}, Enter(to)
      PROVE  Lists'
  <2>1. Move(to) /\ files' = files  BY <1>3 DEF Enter, treeVars
  <2>2. state' = to /\ outcome = "running" /\ (zeroDraw => zeroDraw')
    BY <1>1, <2>1, MoveEffect
  <2>3. CASE to \in {"ALTER", "DELETE"}
    BY <1>1, <2>1, <2>2, <2>3, MoveDraws DEF Lists
  <2>4. CASE to \in {"ALTER_SMALLER", "ALTER_BIGGER"}
    <3>1. state = "ALTER"  BY <1>1, <2>1, <2>4, MoveEffect DEF EnteredBy
    <3> QED  BY <2>1, <2>2, <2>4, <3>1 DEF Inv, Lists
  <2> QED  BY <1>2, <2>2, <2>3, <2>4
<1>4. CASE CreateFile
  <2>1. CASE Abort("no_space")  BY <2>1 DEF Lists, Abort
  <2>2. CASE ~ Abort("no_space")
    <3>1. PICK f \in Files \ files : \E end : NewFile(f, end, Span(0, end))
      BY <1>4, <2>2 DEF CreateFile
    <3>2. touched' = Append(touched, f) /\ count' = [count EXCEPT ![f] = 0]
      BY <3>1 DEF NewFile, Touch
    <3>3. touched' # <<>> /\ touched'[Len(touched')] = f  BY <1>1, <3>2
    <3>4. count'[f] = 0  BY <1>1, <3>2
    <3>5. PreviousIsFresh'  BY <3>3, <3>4 DEF PreviousIsFresh, Previous
    <3>6. state' = "CREATE_FILE"  BY <1>1, <1>4, MoveEffect DEF CreateFile
    <3> QED  BY <3>5, <3>6 DEF Lists
  <2> QED  BY <2>1, <2>2
<1>5. CASE Finish
  BY <1>5 DEF Finish, Lists
<1>6. CASE UNCHANGED vars
  BY <1>6 DEF Inv, Lists, PreviousIsFresh, Previous, vars, treeVars, diskVars, cycleVars
<1>7. CASE Iterate /\ ~ CreateFile /\ ~ \E to \in {"S", "CREATE", "ALTER", "DELETE",
             "ALTER_SMALLER", "ALTER_BIGGER", "ALTER_METADATA"} : Enter(to)
  <2>1. \E to \in {"CREATE_FILE_FALLOCATE", "CREATE_FILE_OVERWRITE", "CREATE_FILE_READ",
                   "CREATE_DIR", "ALTER_SMALLER_TRUNCATE", "ALTER_SMALLER_FALLOCATE",
                   "ALTER_BIGGER_FALLOCATE", "ALTER_BIGGER_WRITE", "DELETE_FILE", "DELETE_DIR",
                   "END"} : Move(to)
    BY <1>7 DEF Iterate, CreateFileFallocate, CreateFileOverwrite, CreateFileRead, CreateDir,
       AlterSmallerTruncate, AlterSmallerFallocate, AlterBiggerFallocate, AlterBiggerWrite,
       DeleteFile, DeleteDir, EndCycle
  <2> QED  BY <1>1, <1>2, <2>1, MoveEffect
<1> QED  BY <1>3, <1>4, <1>5, <1>6, <1>7, RunningStep DEF Inv

\* A handler dies for the reasons DrawsSucceed leaves it.
LEMMA DrawsNext ==
  ASSUME Inv, [Next]_vars
  PROVE  DrawsSucceed'
<1>1. /\ files \subseteq Files /\ punchable \subseteq files /\ dirs \in Nat
      /\ state \in States /\ zeroDraw \in BOOLEAN
  BY AgingAssumption DEF Inv, Typed, TypeOK
<1>2. ASSUME outcome' = outcome, outcome = "running"  PROVE DrawsSucceed'
  BY <1>2 DEF DrawsSucceed
<1>3. ASSUME outcome' \in {"no_space", "walk", "spins", "finished"}  PROVE DrawsSucceed'
  BY <1>3 DEF DrawsSucceed
<1>4. ASSUME outcome' \in {"no_files", "no_punchable"}, zeroDraw'  PROVE DrawsSucceed'
  BY <1>4 DEF DrawsSucceed
<1>5. ASSUME NEW to, Move(to)
      PROVE  /\ outcome = "running" /\ (zeroDraw => zeroDraw')
             /\ \E i, key : EnteredBy(to, state, i, key)
             /\ to = "ALTER_SMALLER_FALLOCATE" /\ punchable = {} => zeroDraw'
  BY <1>1, <1>5, MoveEffect, MoveDraws
<1>6. ASSUME NEW to \in {"ALTER_SMALLER_TRUNCATE", "ALTER_BIGGER_FALLOCATE", "ALTER_BIGGER_WRITE",
                         "DELETE_FILE"},
             Move(to), NeedsFile("no_files", files)
      PROVE  DrawsSucceed'
  <2>1. state \in {"ALTER_SMALLER", "ALTER_BIGGER", "DELETE"}  BY <1>5, <1>6 DEF EnteredBy
  <2>2. files = {} /\ outcome' = "no_files"  BY <1>6 DEF NeedsFile, Abort
  <2>3. zeroDraw  BY <1>5, <1>6, <2>1, <2>2 DEF Inv, Lists
  <2> QED  BY <1>4, <1>5, <1>6, <2>2, <2>3
<1>7. ASSUME NEW to \in {"CREATE_FILE_OVERWRITE", "CREATE_FILE_READ"}, Move(to)
      PROVE  PreviousIsFresh
  BY <1>5, <1>7 DEF EnteredBy, Inv, Lists
<1>8. CASE \E to : Enter(to)
  <2>1. PICK to : Enter(to)  BY <1>8
  <2> QED  BY <1>2, <1>5, <2>1 DEF Enter
<1>9. CASE CreateFile
  <2>1. outcome' \in {outcome, "no_space"}  BY <1>9 DEF CreateFile, Abort
  <2> QED  BY <1>2, <1>3, <1>5, <1>9, <2>1 DEF CreateFile
<1>10. CASE CreateFileFallocate
  <2>1. outcome' \in {outcome, "no_space"}  BY <1>10 DEF CreateFileFallocate, Abort
  <2> QED  BY <1>2, <1>3, <1>5, <1>10, <2>1 DEF CreateFileFallocate
<1>11. CASE CreateFileOverwrite
  <2>1. PreviousIsFresh  BY <1>7, <1>11 DEF CreateFileOverwrite
  <2>2. outcome' \in {outcome, "no_space"}  BY <1>11, <2>1 DEF CreateFileOverwrite, Abort
  <2> QED  BY <1>2, <1>3, <1>5, <1>11, <2>2 DEF CreateFileOverwrite
<1>12. CASE CreateFileRead
  <2>1. PreviousIsFresh  BY <1>7, <1>12 DEF CreateFileRead
  <2> QED  BY <1>2, <1>5, <1>12, <2>1 DEF CreateFileRead
<1>13. CASE CreateDir
  BY <1>2, <1>5, <1>13 DEF CreateDir
<1>14. CASE AlterSmallerTruncate
  <2>1. Move("ALTER_SMALLER_TRUNCATE")  BY <1>14 DEF AlterSmallerTruncate
  <2>2. CASE NeedsFile("no_files", files)  BY <1>6, <2>1, <2>2
  <2>3. CASE ~ NeedsFile("no_files", files)
    <3>1. outcome' \in {outcome, "walk"}  BY <1>14, <2>3 DEF AlterSmallerTruncate, Abort
    <3> QED  BY <1>2, <1>3, <1>5, <2>1, <3>1
  <2> QED  BY <2>2, <2>3
<1>15. CASE AlterSmallerFallocate
  <2>1. Move("ALTER_SMALLER_FALLOCATE")  BY <1>15 DEF AlterSmallerFallocate
  <2>2. CASE NeedsFile("no_punchable", punchable)
    <3>1. punchable = {} /\ outcome' = "no_punchable"  BY <2>2 DEF NeedsFile, Abort
    <3> QED  BY <1>4, <1>5, <2>1, <3>1
  <2>3. CASE ~ NeedsFile("no_punchable", punchable)
    <3>1. state = "ALTER_SMALLER" /\ outcome = "running"  BY <1>5, <2>1 DEF EnteredBy
    <3>2. TouchedFiles = {}
      BY <3>1 DEF Inv, Typed, NothingTouched, Quiet, TouchedFiles
    <3>3. \A f \in punchable : IsPunchable(size[f], count[f])
      BY <3>1, <3>2 DEF Inv, PunchListSound
    <3>4. outcome' = outcome  BY <1>15, <2>3, <3>3 DEF AlterSmallerFallocate
    <3> QED  BY <1>2, <3>1, <3>4
  <2> QED  BY <2>2, <2>3
<1>16. CASE AlterBiggerFallocate
  <2>1. Move("ALTER_BIGGER_FALLOCATE")  BY <1>16 DEF AlterBiggerFallocate
  <2>2. CASE NeedsFile("no_files", files)  BY <1>6, <2>1, <2>2
  <2>3. CASE ~ NeedsFile("no_files", files)
    <3>1. outcome' \in {outcome, "no_space"}
      BY <1>16, <2>3 DEF AlterBiggerFallocate, Abort, Grown
    <3> QED  BY <1>2, <1>3, <1>5, <2>1, <3>1
  <2> QED  BY <2>2, <2>3
<1>17. CASE AlterBiggerWrite
  <2>1. Move("ALTER_BIGGER_WRITE")  BY <1>17 DEF AlterBiggerWrite
  <2>2. CASE NeedsFile("no_files", files)  BY <1>6, <2>1, <2>2
  <2>3. CASE ~ NeedsFile("no_files", files)
    <3>1. outcome' \in {outcome, "no_space", "spins"}
      BY <1>17, <2>3 DEF AlterBiggerWrite, Abort, Grown
    <3> QED  BY <1>2, <1>3, <1>5, <2>1, <3>1
  <2> QED  BY <2>2, <2>3
<1>18. CASE DeleteFile
  <2>1. Move("DELETE_FILE")  BY <1>18 DEF DeleteFile
  <2>2. CASE NeedsFile("no_files", files)  BY <1>6, <2>1, <2>2
  <2>3. CASE ~ NeedsFile("no_files", files)
    BY <1>2, <1>5, <1>18, <2>1, <2>3 DEF DeleteFile
  <2> QED  BY <2>2, <2>3
<1>19. CASE DeleteDir
  <2>1. Move("DELETE_DIR")  BY <1>19 DEF DeleteDir
  <2>2. state = "DELETE" /\ outcome = "running"  BY <1>5, <2>1 DEF EnteredBy
  <2>3. dirs > 0
    BY <1>1, <2>2, ProbabilitiesAssumption DEF Inv, Lists, DirectoryPhase
  <2> QED  BY <1>2, <1>19, <2>2, <2>3 DEF DeleteDir
<1>20. CASE EndCycle
  BY <1>2, <1>5, <1>20 DEF EndCycle
<1>21. CASE Finish
  BY <1>3, <1>21 DEF Finish
<1>22. CASE UNCHANGED vars
  BY <1>22 DEF Inv, DrawsSucceed, vars
<1> QED
  BY <1>8, <1>9, <1>10, <1>11, <1>12, <1>13, <1>14, <1>15, <1>16, <1>17, <1>18, <1>19, <1>20,
     <1>21, <1>22, RunningStep DEF Inv, Iterate

\* Inv is inductive: what the properties of the lists of the tree need of each
\* other, the sources of the edges and the touched files included.
THEOREM InvInvariant == Spec => []Inv
<1>1. Init => Inv  BY InvInit
<1>2. Inv /\ [Next]_vars => Inv'
  BY TypedNext, PunchListNext, DirectoryNext, ListsNext, DrawsNext DEF Inv
<1> QED  BY <1>1, <1>2, PTL DEF Spec

\* Between two cycles every file on the punch list has room for a hole, so
\* getHoleAddress does not throw for the file randomPunchableFile picked.
THEOREM PunchListIsSound == Spec => []PunchListSound
<1>1. Inv => PunchListSound  BY DEF Inv
<1> QED  BY <1>1, InvInvariant, PTL

\* Files only exist once the ndirs directories do, and more directories only
\* after an edge of probability zero was taken.
THEOREM DirectoriesFirst == Spec => []DirectoryPhase
<1>1. Inv => DirectoryPhase  BY DEF Inv
<1> QED  BY <1>1, InvInvariant, PTL

\* No handler draws from an empty list, trips over an assertion or asks for a
\* hole that does not exist, unless an edge of probability zero was taken.
THEOREM DrawsAlwaysSucceed == Spec => []DrawsSucceed
<1>1. Inv => DrawsSucceed  BY DEF Inv
<1> QED  BY <1>1, InvInvariant, PTL

-----------------------------------------------------------------------------
(***************************************************************************)
(* The extent total.  Lemmas on counting the extents of a set of files,    *)
(* then the invariant.                                                     *)
(***************************************************************************)
AllFinite(F, pages) == IsFiniteSet(F) /\ \A f \in F : IsFiniteSet(pages[f])

\* Counting the tagged pages of files whose pages have not changed.
LEMMA CountSame ==
  ASSUME NEW F, NEW p, NEW q, \A f \in F : p[f] = q[f]
  PROVE  CountIn(F, p) = CountIn(F, q)
<1>1. Tagged(F, p) = Tagged(F, q)  BY DEF Tagged
<1> QED  BY <1>1 DEF CountIn

\* Counting over a set of files and one more file.
LEMMA CountSplit ==
  ASSUME NEW F, NEW p, AllFinite(F, p), NEW T \in SUBSET F
  PROVE  /\ CountIn(F, p) = CountIn(T, p) + CountIn(F \ T, p)
         /\ CountIn(T, p) \in Nat /\ CountIn(F \ T, p) \in Nat
<1>1. AllFinite(T, p) /\ AllFinite(F \ T, p)  BY FS_Subset DEF AllFinite
<1>2. /\ IsFiniteSet(Tagged(T, p)) /\ IsFiniteSet(Tagged(F \ T, p))
      /\ CountIn(T, p) \in Nat /\ CountIn(F \ T, p) \in Nat
  BY <1>1, TaggedFinite DEF AllFinite
<1>3. Tagged(F, p) = Tagged(T, p) \cup Tagged(F \ T, p)  BY DEF Tagged
<1>4. Tagged(T, p) \cap Tagged(F \ T, p) = {}  BY DEF Tagged
<1>5. ASSUME NEW A, NEW B, IsFiniteSet(A), IsFiniteSet(B), A \cap B = {}
      PROVE  Cardinality(A \cup B) = Cardinality(A) + Cardinality(B)
  <2>1. Cardinality(A \cup B) = Cardinality(A) + Cardinality(B) - Cardinality(A \cap B)
    BY <1>5, FS_Union
  <2>2. Cardinality(A \cap B) = 0  BY <1>5, FS_EmptySet
  <2>3. Cardinality(A) \in Nat /\ Cardinality(B) \in Nat  BY <1>5, FS_CardinalityType
  <2> QED  BY <2>1, <2>2, <2>3
<1>6. Cardinality(Tagged(F, p)) = Cardinality(Tagged(T, p)) + Cardinality(Tagged(F \ T, p))
  BY <1>2, <1>3, <1>4, <1>5
<1> QED  BY <1>2, <1>6 DEF CountIn

\* Counting over a single file.
LEMMA CountOne ==
  ASSUME NEW f, NEW p, IsFiniteSet(p[f])
  PROVE  CountIn({f}, p) = Cardinality(p[f])
<1>1. Tagged({f}, p) = {f} \X p[f]  BY DEF Tagged
<1>2. IsFiniteSet({f}) /\ Cardinality({f}) = 1  BY FS_Singleton
<1>3. Cardinality(p[f]) \in Nat  BY FS_CardinalityType
<1>4. Cardinality({f} \X p[f]) = Cardinality({f}) * Cardinality(p[f])  BY <1>2, FS_Product
<1>5. Cardinality({f} \X p[f]) = Cardinality(p[f])  BY <1>2, <1>3, <1>4
<1> QED  BY <1>1, <1>5 DEF CountIn

\* No file, no extent.
LEMMA AccountingInit == Init => ExtentAccounting
<1>1. Tagged({}, cached) = {}  BY DEF Tagged
<1>2. CountIn({}, cached) = 0  BY <1>1, FS_EmptySet DEF CountIn
<1> QED  BY <1>2 DEF Init, ExtentAccounting

\* Every handler that changes the pages of a file touches it, DELETE_FILE takes
\* the last scan of a file off the total, and END adds what changed.
LEMMA AccountingNext ==
  ASSUME Typed, ExtentAccounting, [Next]_vars
  PROVE  ExtentAccounting'
<1>1. /\ files \subseteq Files /\ touched \in Seq(files) /\ state \in States
      /\ zeroDraw \in BOOLEAN /\ total \in Int
      /\ mapped \in [Files -> SUBSET Nat] /\ cached \in [Files -> SUBSET Nat]
      /\ \A f \in Files : IsFiniteSet(mapped[f]) /\ IsFiniteSet(cached[f])
  BY DEF Typed, TypeOK, FinitePages
<1>2. IsFiniteSet(files) /\ AllFinite(files, cached)
  BY <1>1, AgingAssumption, FS_Subset DEF AllFinite
<1>3. TouchedFiles \subseteq files  BY <1>1 DEF TouchedFiles
\* Steps that leave the account alone and only change pages of touched files.
<1>4. ASSUME outcome # "finished", UNCHANGED <<files, total, cached>>,
             TouchedFiles \subseteq TouchedFiles',
             \A f \in files \ TouchedFiles' : mapped'[f] = mapped[f]
      PROVE  ExtentAccounting'
  BY <1>4 DEF ExtentAccounting
<1>5. ASSUME UNCHANGED <<files, total, cached, mapped, touched>>, outcome # "finished"
      PROVE  ExtentAccounting'
  BY <1>4, <1>5 DEF TouchedFiles
<1>6. ASSUME NEW f, outcome # "finished", UNCHANGED <<files, total, cached>>, Touch(f),
             NEW pages, mapped' \in {mapped, [mapped EXCEPT ![f] = pages]}
      PROVE  ExtentAccounting'
  <2>1. TouchedFiles' = TouchedFiles \cup {f}  BY <1>1, <1>6, TouchAdds
  <2>2. \A g \in files \ {f} : mapped'[g] = mapped[g]  BY <1>1, <1>6
  <2> QED  BY <1>4, <1>6, <2>1, <2>2
<1>7. ASSUME outcome # "finished", NEW reason, Abort(reason)
      PROVE  ExtentAccounting'
  BY <1>5, <1>7 DEF Abort, treeVars, diskVars, cycleVars
<1>8. ASSUME outcome # "finished", NEW f \in Files \ files, NEW bytes, NEW pages,
             NewFile(f, bytes, pages)
      PROVE  ExtentAccounting'
  <2>1. /\ files' = files \cup {f} /\ cached' = [cached EXCEPT ![f] = {}] /\ total' = total
        /\ mapped' = [mapped EXCEPT ![f] = pages] /\ Touch(f)
    BY <1>8 DEF NewFile
  <2>2. TouchedFiles' = TouchedFiles \cup {f}  BY <1>1, <2>1, TouchAdds
  <2>3. cached'[f] = {} /\ \A g \in files : cached'[g] = cached[g] /\ mapped'[g] = mapped[g]
    BY <1>1, <1>8, <2>1
  <2>4. IsFiniteSet({f})  BY FS_Singleton
  <2>5. IsFiniteSet(cached'[f])  BY <2>3, FS_EmptySet
  <2>6. AllFinite(files', cached')
    BY <1>2, <2>1, <2>3, <2>4, <2>5, FS_Union DEF AllFinite
  <2>7. files' \ {f} = files  BY <1>8, <2>1
  <2>8. CountIn(files', cached') = CountIn({f}, cached') + CountIn(files, cached')
    BY <2>1, <2>6, <2>7, CountSplit
  <2>9. CountIn({f}, cached') = 0  BY <2>3, <2>5, CountOne, FS_EmptySet
  <2>10. CountIn(files, cached') = CountIn(files, cached)  BY <2>3, CountSame
  <2>11. total = CountIn(files, cached)
         /\ \A g \in files \ TouchedFiles : cached[g] = Extents(mapped[g])
    BY <1>8 DEF ExtentAccounting
  <2>12. total' = CountIn(files', cached')  BY <1>1, <2>1, <2>8, <2>9, <2>10, <2>11
  <2>13. \A g \in files' \ TouchedFiles' : cached'[g] = Extents(mapped'[g])
    BY <2>1, <2>2, <2>3, <2>11
  <2> QED  BY <2>12, <2>13 DEF ExtentAccounting
<1>9. CASE UNCHANGED vars
  BY <1>9 DEF ExtentAccounting, TouchedFiles, vars, treeVars, diskVars, cycleVars
<1>10. CASE Finish
  BY <1>10 DEF Finish, ExtentAccounting
<1>11. CASE outcome = "running" /\ Iterate
  <2>1. CASE \E to : Enter(to)
    BY <1>5, <1>11, <2>1 DEF Enter, treeVars, diskVars, cycleVars
  <2>2. CASE CreateFile
    <3>1. Abort("no_space") \/ \E f \in Files \ files : \E end : NewFile(f, end, Span(0, end))
      BY <2>2 DEF CreateFile
    <3> QED  BY <1>7, <1>8, <1>11, <3>1
  <2>3. CASE CreateFileFallocate
    <3>1. Abort("no_space") \/ \E f \in Files \ files : \E want : NewFile(f, want, Span(0, want))
      BY <2>3 DEF CreateFileFallocate
    <3> QED  BY <1>7, <1>8, <1>11, <3>1
  <2>4. CASE CreateFileOverwrite
    <3>1. CASE Abort("no_space") \/ Abort("assertion")  BY <1>7, <1>11, <3>1
    <3>2. CASE ~ (Abort("no_space") \/ Abort("assertion"))
      <4>1. /\ PreviousIsFresh
            /\ \E pages : mapped' = [mapped EXCEPT ![Previous] = pages]
            /\ UNCHANGED <<treeVars, touched>>
        BY <2>4, <3>2 DEF CreateFileOverwrite
      <4>2. Previous \in TouchedFiles
        BY <1>1, <4>1 DEF Previous, PreviousIsFresh, TouchedFiles
      <4>3. UNCHANGED <<files, total, cached>> /\ TouchedFiles' = TouchedFiles
        BY <4>1 DEF treeVars, TouchedFiles
      <4>4. \A g \in files \ TouchedFiles : mapped'[g] = mapped[g]  BY <1>1, <4>1, <4>2
      <4> QED  BY <1>4, <1>11, <4>3, <4>4
    <3> QED  BY <3>1, <3>2
  <2>5. CASE CreateFileRead
    BY <1>5, <1>7, <1>11, <2>5 DEF CreateFileRead, treeVars, diskVars
  <2>6. CASE CreateDir
    BY <1>5, <1>11, <2>6 DEF CreateDir, diskVars
  <2>7. CASE AlterSmallerTruncate
    <3>1. \/ Abort("no_files") \/ Abort("walk")
          \/ \E f, pages : /\ mapped' = [mapped EXCEPT ![f] = pages]
                           /\ Touch(f)
                           /\ UNCHANGED <<files, total, cached>>
      BY <2>7 DEF AlterSmallerTruncate, NeedsFile
    <3> QED  BY <1>6, <1>7, <1>11, <3>1
  <2>8. CASE AlterSmallerFallocate
    <3>1. \/ Abort("no_punchable") \/ Abort("no_hole")
          \/ \E f, pages : /\ mapped' \in {mapped, [mapped EXCEPT ![f] = pages]}
                           /\ Touch(f)
                           /\ UNCHANGED <<files, total, cached>>
      BY <2>8 DEF AlterSmallerFallocate, NeedsFile
    <3> QED  BY <1>6, <1>7, <1>11, <3>1
  <2>9. ASSUME NEW a, NEW f, NEW new, NEW bytes, NEW pages, Grown(a, f, new, bytes, pages)
        PROVE  ExtentAccounting'
    <3>1. \E grown : mapped' \in {mapped, [mapped EXCEPT ![f] = grown]}  BY <2>9 DEF Grown
    <3>2. Touch(f) /\ UNCHANGED <<files, total, cached>>  BY <2>9 DEF Grown, treeVars
    <3> QED  BY <1>6, <1>11, <3>1, <3>2
  <2>10. CASE AlterBiggerFallocate
    <3>1. \/ Abort("no_files") \/ Abort("no_space")
          \/ \E a, f, new, bytes, pages : Grown(a, f, new, bytes, pages)
      BY <2>10 DEF AlterBiggerFallocate, NeedsFile
    <3> QED  BY <1>7, <1>11, <2>9, <3>1
  <2>11. CASE AlterBiggerWrite
    <3>1. \/ Abort("no_files") \/ Abort("no_space") \/ Abort("spins")
          \/ \E a, f, new, bytes, pages : Grown(a, f, new, bytes, pages)
      BY <2>11 DEF AlterBiggerWrite, NeedsFile
    <3> QED  BY <1>7, <1>11, <2>9, <3>1
  <2>12. CASE DeleteDir
    BY <1>5, <1>7, <1>11, <2>12 DEF DeleteDir, treeVars, diskVars, cycleVars
  <2>13. CASE DeleteFile
    <3>1. CASE Abort("no_files")  BY <1>7, <1>11, <3>1
    <3>2. CASE ~ Abort("no_files")
      <4>1. PICK f \in files :
              /\ Unlist(f)
              /\ total' = total - ExtentsLost(f)
              /\ cached' = [cached EXCEPT ![f] = {}]
              /\ mapped' = [mapped EXCEPT ![f] = {}]
              /\ touched' = touched
        BY <2>13, <3>2 DEF DeleteFile, NeedsFile
      <4>2. state = "DELETE"  BY <1>1, <2>13, MoveEffect DEF DeleteFile, EnteredBy
      <4>3. TouchedFiles = {} /\ TouchedFiles' = {}
        BY <4>1, <4>2 DEF Typed, NothingTouched, Quiet, TouchedFiles
      <4>4. /\ total = CountIn(files, cached)
            /\ \A g \in files : cached[g] = Extents(mapped[g])
        BY <1>11, <4>3 DEF ExtentAccounting
      <4>5. files' = files \ {f} /\ \A g \in files' : cached'[g] = cached[g] /\ mapped'[g] = mapped[g]
        BY <1>1, <4>1 DEF Unlist
      <4>6. /\ CountIn(files, cached) = CountIn({f}, cached) + CountIn(files', cached)
            /\ CountIn({f}, cached) \in Nat /\ CountIn(files', cached) \in Nat
        BY <1>2, <4>5, CountSplit
      <4>7. CountIn({f}, cached) = Cardinality(cached[f])  BY <1>1, CountOne
      <4>8. ExtentsLost(f) = CountIn({f}, cached)  BY <4>4, <4>7 DEF ExtentsLost
      <4>9. CountIn(files', cached') = CountIn(files', cached)  BY <4>5, CountSame
      <4>10. total' = CountIn(files', cached')  BY <4>1, <4>4, <4>6, <4>8, <4>9
      <4>11. \A g \in files' : cached'[g] = Extents(mapped'[g])  BY <4>4, <4>5
      <4> QED  BY <4>10, <4>11 DEF ExtentAccounting
    <3> QED  BY <3>1, <3>2
  <2>14. CASE EndCycle
    <3> DEFINE scan == Scan(TouchedFiles)
    <3>1. /\ cached' = scan /\ UNCHANGED <<files, mapped>> /\ touched' = <<>>
          /\ total' = total + CountIn(TouchedFiles, scan) - CountIn(TouchedFiles, cached)
      BY <2>14 DEF EndCycle, diskVars
    <3>2. \A f \in Files : scan[f] = IF f \in TouchedFiles THEN Extents(mapped[f]) ELSE cached[f]
      BY DEF Scan
    <3>3. \A f \in Files : IsFiniteSet(scan[f])  BY <1>1, <3>2, ExtentsFinite
    <3> HIDE DEF scan
    <3>4. AllFinite(files, scan)  BY <1>1, <1>2, <3>3 DEF AllFinite
    <3>5. /\ CountIn(files, scan) = CountIn(TouchedFiles, scan) + CountIn(files \ TouchedFiles, scan)
          /\ CountIn(TouchedFiles, scan) \in Nat /\ CountIn(files \ TouchedFiles, scan) \in Nat
      BY <1>3, <3>4, CountSplit
    <3>6. /\ CountIn(files, cached)
               = CountIn(TouchedFiles, cached) + CountIn(files \ TouchedFiles, cached)
          /\ CountIn(TouchedFiles, cached) \in Nat /\ CountIn(files \ TouchedFiles, cached) \in Nat
      BY <1>2, <1>3, CountSplit
    <3>7. \A f \in files \ TouchedFiles : scan[f] = cached[f]  BY <1>1, <3>2
    <3>8. CountIn(files \ TouchedFiles, scan) = CountIn(files \ TouchedFiles, cached)
      BY <3>7, CountSame
    <3>9. /\ total = CountIn(files, cached)
          /\ \A f \in files \ TouchedFiles : cached[f] = Extents(mapped[f])
      BY <1>11 DEF ExtentAccounting
    <3>10. total' = CountIn(files', cached')
      <4>1. total' = CountIn(files, scan)  BY <3>1, <3>5, <3>6, <3>8, <3>9
      <4> QED  BY <3>1, <4>1
    <3>11. \A f \in files : scan[f] = Extents(mapped[f])  BY <1>1, <3>2, <3>9
    <3>12. \A f \in files' \ TouchedFiles' : cached'[f] = Extents(mapped'[f])  BY <3>1, <3>11
    <3> QED  BY <3>10, <3>12 DEF ExtentAccounting
  <2> QED
    BY <1>11, <2>1, <2>2, <2>3, <2>4, <2>5, <2>6, <2>7, <2>8, <2>10, <2>11, <2>12, <2>13,
       <2>14 DEF Iterate
<1> QED  BY <1>9, <1>10, <1>11, RunningStep

\* The running total is the number of extents found by the scans, and the scan
\* of a file nobody touched in this cycle is what is on disk.
THEOREM ExtentsAccounted == Spec => []ExtentAccounting
<1>1. Init => Typed /\ ExtentAccounting  BY TypedInit, AccountingInit
<1>2. Typed /\ ExtentAccounting /\ [Next]_vars => Typed' /\ ExtentAccounting'
  BY TypedNext, AccountingNext
<1> QED  BY <1>1, <1>2, PTL DEF Spec

-----------------------------------------------------------------------------
(***************************************************************************)
(* The tree and the directory.                                             *)
(***************************************************************************)
\* A file enters and leaves the tree in the step that makes or removes it on
\* disk.
LEMMA MirrorNext ==
  ASSUME Typed, TreeMirrorsDisk, [Next]_vars
  PROVE  TreeMirrorsDisk'
<1>1. CASE UNCHANGED vars
  BY <1>1 DEF TreeMirrorsDisk, vars, treeVars, diskVars
<1>2. CASE outcome = "running" /\ Finish
  <2>1. onDisk = files /\ outcome' = "finished"  BY <1>2 DEF TreeMirrorsDisk, Finish
  <2>2. Cleanup => onDisk' = {}  BY <1>2, <2>1, Zenon DEF Finish, Cleaned
  <2> QED  BY <2>1, <2>2 DEF TreeMirrorsDisk
<1>3. CASE outcome = "running" /\ Iterate
  <2>1. onDisk = files  BY <1>3 DEF TreeMirrorsDisk
  <2>2. ASSUME NEW reason \in Outcomes \ {"running", "finished"}, Abort(reason)
        PROVE  TreeMirrorsDisk'
    BY <2>2 DEF TreeMirrorsDisk, Abort
  <2>3. ASSUME outcome' = outcome, onDisk' = files'  PROVE TreeMirrorsDisk'
    BY <1>3, <2>3 DEF TreeMirrorsDisk
  <2>4. CASE \E to : Enter(to)
    BY <2>1, <2>3, <2>4 DEF Enter, treeVars, diskVars
  <2>5. CASE CreateFile
    BY <2>1, <2>2, <2>3, <2>5 DEF CreateFile, NewFile, Outcomes
  <2>6. CASE CreateFileFallocate
    BY <2>1, <2>2, <2>3, <2>6 DEF CreateFileFallocate, NewFile, Outcomes
  <2>7. CASE CreateFileOverwrite
    BY <2>1, <2>2, <2>3, <2>7 DEF CreateFileOverwrite, treeVars, Outcomes
  <2>8. CASE CreateFileRead
    BY <2>1, <2>2, <2>3, <2>8 DEF CreateFileRead, treeVars, diskVars, Outcomes
  <2>9. CASE CreateDir
    BY <2>1, <2>3, <2>9 DEF CreateDir, diskVars
  <2>10. CASE AlterSmallerTruncate
    BY <2>1, <2>2, <2>3, <2>10 DEF AlterSmallerTruncate, NeedsFile, Outcomes
  <2>11. CASE AlterSmallerFallocate
    BY <2>1, <2>2, <2>3, <2>11 DEF AlterSmallerFallocate, NeedsFile, Outcomes
  <2>12. CASE AlterBiggerFallocate
    BY <2>1, <2>2, <2>3, <2>12 DEF AlterBiggerFallocate, NeedsFile, Grown, treeVars, Outcomes
  <2>13. CASE AlterBiggerWrite
    BY <2>1, <2>2, <2>3, <2>13 DEF AlterBiggerWrite, NeedsFile, Grown, treeVars, Outcomes
  <2>14. CASE DeleteFile
    BY <2>1, <2>2, <2>3, <2>14 DEF DeleteFile, NeedsFile, Unlist, Outcomes
  <2>15. CASE DeleteDir
    BY <2>1, <2>2, <2>3, <2>15 DEF DeleteDir, treeVars, diskVars, Outcomes
  <2>16. CASE EndCycle
    BY <2>1, <2>3, <2>16 DEF EndCycle, diskVars
  <2> QED
    BY <1>3, <2>4, <2>5, <2>6, <2>7, <2>8, <2>9, <2>10, <2>11, <2>12, <2>13, <2>14, <2>15,
       <2>16 DEF Iterate
<1> QED  BY <1>1, <1>2, <1>3, RunningStep

\* The tree holds the files of the directory for as long as the run goes on,
\* and the clean-up removes them all.
THEOREM TreeIsMirror == Spec => []TreeMirrorsDisk
<1>1. Init => TreeMirrorsDisk  BY DEF Init, TreeMirrorsDisk
<1>2. Typed /\ TreeMirrorsDisk /\ [Next]_vars => TreeMirrorsDisk'  BY MirrorNext
<1>3. Init => Typed  BY TypedInit
<1>4. Typed /\ [Next]_vars => Typed'  BY TypedNext
<1> QED  BY <1>1, <1>2, <1>3, <1>4, PTL DEF Spec

-----------------------------------------------------------------------------
(***************************************************************************)
(* Growing.                                                                *)
(***************************************************************************)
\* The handlers of ALTER_BIGGER reach the old size at least.
LEMMA GrowingStep ==
  ASSUME Typed, [Next]_vars, ~ UNCHANGED vars, outcome' = "running",
         state' \in {"ALTER_BIGGER_WRITE", "ALTER_BIGGER_FALLOCATE"}, NEW g \in Files
  PROVE  size[g] <= size'[g]
<1>1. size \in [Files -> Nat] /\ files \subseteq Files /\ state \in States /\ zeroDraw \in BOOLEAN
  BY DEF Typed, TypeOK
<1>2. \A to : Move(to) => state' = to  BY <1>1, MoveEffect
<1>3. Iterate
  BY RunningStep DEF Finish
<1>4. AlterBiggerWrite \/ AlterBiggerFallocate
  BY <1>2, <1>3 DEF Iterate, Enter, CreateFile, CreateFileFallocate, CreateFileOverwrite,
     CreateFileRead, CreateDir, AlterSmallerTruncate, AlterSmallerFallocate, DeleteFile,
     DeleteDir, EndCycle
<1>5. \A reason \in Outcomes \ {"running"} : ~ Abort(reason)  BY DEF Abort
<1>6. ASSUME NEW f \in files, NEW bytes \in Int, size[f] <= bytes,
             size' = [size EXCEPT ![f] = bytes]
      PROVE  size[g] <= size'[g]
  BY <1>1, <1>6
<1>7. CASE AlterBiggerFallocate
  <2>1. ~ Abort("no_files") /\ ~ Abort("no_space")  BY <1>5 DEF Outcomes
  <2>2. PICK f \in files : \E new \in FileSizes(size[f], MaxSize) :
          \/ new > size[f] /\ size' = [size EXCEPT ![f] = new]
          \/ size' = [size EXCEPT ![f] = size[f]]
    BY <1>7, <2>1 DEF AlterBiggerFallocate, NeedsFile, Grown
  <2>3. size[f] \in Nat  BY <1>1
  <2>4. FileSizes(size[f], MaxSize) \subseteq Nat
    BY <2>3, FileSizesNat, AvailableInt, AgingAssumption DEF Typed
  <2>5. \E bytes \in Int : size[f] <= bytes /\ size' = [size EXCEPT ![f] = bytes]
    BY <2>2, <2>3, <2>4
  <2> QED  BY <1>6, <2>5
<1>8. CASE AlterBiggerWrite
  <2>1. ~ Abort("no_files") /\ ~ Abort("no_space") /\ ~ Abort("spins")  BY <1>5 DEF Outcomes
  <2> DEFINE start(f) == AlignDown(size[f])
  <2>2. PICK f \in files :
          \/ size' = [size EXCEPT ![f] = size[f]]
          \/ \E goal : \E end \in start(f)..goal : size' = [size EXCEPT ![f] = Larger(size[f], end)]
    BY <1>8, <2>1 DEF AlterBiggerWrite, NeedsFile, Grown
  <2>3. size[f] \in Nat  BY <1>1
  <2>4. CASE size' = [size EXCEPT ![f] = size[f]]
    <3>1. size[f] \in Int /\ size[f] <= size[f]  BY <2>3
    <3> QED  BY <1>6, <2>4, <3>1
  <2>5. CASE \E goal : \E end \in start(f)..goal : size' = [size EXCEPT ![f] = Larger(size[f], end)]
    <3> HIDE DEF start
    <3>1. PICK goal : \E end \in start(f)..goal : size' = [size EXCEPT ![f] = Larger(size[f], end)]
      BY <2>5
    <3>2. PICK end \in start(f)..goal : size' = [size EXCEPT ![f] = Larger(size[f], end)]
      BY <3>1
    <3>3. end \in Int
      OBVIOUS
    <3>4. Larger(size[f], end) \in Int /\ size[f] <= Larger(size[f], end)
      BY <2>3, <3>3 DEF Larger
    <3> QED  BY <1>6, <3>2, <3>4
  <2> QED  BY <2>2, <2>4, <2>5
<1> QED  BY <1>4, <1>7, <1>8

\* An ALTER_BIGGER handler never makes a file smaller, whatever size was drawn.
THEOREM GrowingOnly == Spec => NeverShrinks
<1> DEFINE Expands == state' \in {"ALTER_BIGGER_WRITE", "ALTER_BIGGER_FALLOCATE"}
                        /\ outcome' = "running" => \A f \in Files : size[f] <= size'[f]
<1>1. Typed /\ [Next]_vars => [Expands]_vars  BY GrowingStep
<1>2. Init => Typed  BY TypedInit
<1>3. Typed /\ [Next]_vars => Typed'  BY TypedNext
<1> QED  BY <1>1, <1>2, <1>3, PTL DEF Spec, NeverShrinks

-----------------------------------------------------------------------------
(***************************************************************************)
(* The safe margin.  get_file_size leaves it out of what an operation may  *)
(* take, and rounding up to whole blocks takes less than a block more.     *)
(* CREATE_FILE_OVERWRITE draws no size of its own: it fills the last block *)
(* of a file that CREATE_FILE left short, and Room says that CREATE_FILE   *)
(* has left that much.                                                     *)
(***************************************************************************)

\* What the file of CREATE_FILE lacks of its last block is to spare.
Room ==
  outcome = "running" /\ state = "CREATE_FILE" =>
    LET bytes == size[Previous]
        gap   == BlockUp(bytes) - bytes
    IN  /\ mapped[Previous] = Span(0, bytes)
        /\ gap > 0 => Margin < Available - gap + Block

\* Rounding up to whole blocks adds less than a block.
LEMMA RoundingUp ==
  ASSUME NEW x \in Nat
  PROVE  /\ BlockUp(x) \in Nat /\ x <= BlockUp(x) /\ BlockUp(x) < x + Block
         /\ x = 0 => BlockUp(x) = 0
<1> DEFINE y == x + Block - 1
           r == y % Block
<1>1. Block \in Nat \ {0}  BY BlockAssumption
<1>2. y \in Nat /\ r \in 0..(Block - 1)  BY <1>1
<1>3. BlockUp(x) = y - r  BY DEF BlockUp, BlockDown
<1>4. x = 0 => y = r
  <2>1. ASSUME NEW b \in Nat \ {0}  PROVE (b - 1) % b = b - 1  OBVIOUS
  <2>2. (Block - 1) % Block = Block - 1  BY <1>1, <2>1
  <2>3. x = 0 => y = Block - 1  BY <1>1
  <2> QED  BY <2>2, <2>3
<1>5. r <= y  BY <1>1, <1>2
<1> QED  BY <1>1, <1>2, <1>3, <1>4, <1>5

\* What lies below a rounded size is not rounded beyond it.
LEMMA RoundedBelow ==
  ASSUME NEW x \in Nat, NEW y \in Nat, x <= BlockUp(y)
  PROVE  BlockUp(x) <= BlockUp(y)
<1> DEFINE u == x + Block - 1
           v == y + Block - 1
           p == u \div Block
           q == v \div Block
           r == u % Block
           s == v % Block
<1>1. Block \in Nat \ {0}  BY BlockAssumption
<1>2. /\ u = Block * p + r /\ p \in Nat /\ r \in 0..(Block - 1)
      /\ v = Block * q + s /\ q \in Nat /\ s \in 0..(Block - 1)
  BY <1>1
<1>3. BlockUp(x) = u - r /\ BlockUp(y) = v - s  BY DEF BlockUp, BlockDown
<1>4. u = x + Block - 1  OBVIOUS
<1> HIDE DEF u, v, p, q, r, s
<1>5. Block * p \in Nat /\ Block * q \in Nat  BY <1>1, <1>2
<1>6. BlockUp(x) = Block * p /\ BlockUp(y) = Block * q  BY <1>1, <1>2, <1>3, <1>5
<1>7. Block * p < Block * q + Block  BY <1>1, <1>2, <1>4, <1>5, <1>6
<1>8. CASE p <= q
  <2>1. \A b, m, n \in Nat : m <= n => b * m <= b * n  OBVIOUS
  <2> QED  BY <1>1, <1>2, <1>6, <1>8, <2>1
<1>9. CASE q + 1 <= p
  <2>1. \A b, m, n \in Nat : m <= n => b * m <= b * n  OBVIOUS
  <2>2. Block * (q + 1) <= Block * p  BY <1>1, <1>2, <1>9, <2>1
  <2>3. Block * (q + 1) = Block * q + Block  BY <1>1, <1>2
  <2> QED  BY <1>1, <1>5, <1>7, <2>2, <2>3
<1> QED  BY <1>2, <1>8, <1>9

\* get_file_size stays clear of the margin, and returns 0 when there is
\* nothing to spare.
LEMMA SizeSpares ==
  ASSUME Available \in Int, NEW from \in Nat, NEW to \in Nat, NEW want \in FileSizes(from, to)
  PROVE  /\ want \in Nat
         /\ Margin < Available => want <= Available - Margin
         /\ Available <= Margin => want = 0
<1>1. PICK d \in Draw(from, to) : want = SafeSize(d)  BY DEF FileSizes
<1>2. d \in Nat  BY DrawNat
<1>3. SafeAvailable \in Nat  BY AgingAssumption DEF SafeAvailable
<1>4. BlockDown(SafeAvailable) \in Nat /\ BlockDown(SafeAvailable) <= SafeAvailable
  BY <1>3, BlockDownNat
<1>5. want \in Nat /\ want <= SafeAvailable  BY <1>1, <1>2, <1>3, <1>4 DEF SafeSize
<1> QED  BY <1>5, AgingAssumption DEF SafeAvailable

\* The pages of a range.
LEMMA SpanSize ==
  ASSUME NEW from \in Nat, NEW to \in Nat, from <= to
  PROVE  IsFiniteSet(Span(from, to)) /\ Cardinality(Span(from, to)) = to - from
<1>1. to - 1 \in Int  OBVIOUS
<1>2. /\ IsFiniteSet(from..(to - 1))
      /\ Cardinality(from..(to - 1)) = IF from > to - 1 THEN 0 ELSE (to - 1) - from + 1
  BY <1>1, FS_Interval
<1> QED  BY <1>2 DEF Span

\* What a step maps beyond the pages already mapped is all it takes.
LEMMA TakesAtMost ==
  ASSUME Typed, Typed', NEW f, NEW Q, IsFiniteSet(Q),
         \A g \in Files : mapped'[g] \subseteq mapped[g] \cup (IF g = f THEN Q ELSE {})
  PROVE  Available \in Int /\ Available' \in Int /\ Available' >= Available - Cardinality(Q)
<1> DEFINE before == Tagged(Files, mapped)
           after  == Tagged(Files, mapped')
           more   == {f} \X Q
<1>1. /\ IsFiniteSet(Files)
      /\ \A g \in Files : IsFiniteSet(mapped[g]) /\ IsFiniteSet(mapped'[g])
  BY AgingAssumption DEF Typed, FinitePages
<1>2. IsFiniteSet(before) /\ CountIn(Files, mapped) \in Nat  BY <1>1, TaggedFinite
<1>3. IsFiniteSet(after) /\ CountIn(Files, mapped') \in Nat  BY <1>1, TaggedFinite
<1>4. IsFiniteSet({f}) /\ Cardinality({f}) = 1  BY FS_Singleton
<1>5. IsFiniteSet(more) /\ Cardinality(more) = Cardinality({f}) * Cardinality(Q)
  BY <1>4, FS_Product
<1>6. Cardinality(Q) \in Nat /\ Cardinality(more) = Cardinality(Q)
  <2>1. Cardinality(Q) \in Nat  BY FS_CardinalityType
  <2> QED  BY <1>4, <1>5, <2>1
<1>7. after \subseteq before \cup more  BY DEF Tagged
<1> HIDE DEF before, after, more
<1>8. /\ IsFiniteSet(before \cup more)
      /\ Cardinality(before \cup more)
           = Cardinality(before) + Cardinality(more) - Cardinality(before \cap more)
  BY <1>2, <1>5, FS_Union
<1>9. Cardinality(after) <= Cardinality(before \cup more)  BY <1>7, <1>8, FS_Subset
<1>10. Cardinality(before \cap more) \in Nat
  BY <1>2, FS_Intersection, FS_CardinalityType
<1>11. CountIn(Files, mapped) = Cardinality(before) /\ CountIn(Files, mapped') = Cardinality(after)
  BY DEF CountIn, before, after
<1>12. CountIn(Files, mapped') <= CountIn(Files, mapped) + Cardinality(Q)
  BY <1>2, <1>3, <1>6, <1>8, <1>9, <1>10, <1>11
<1>13. Capacity \in Int /\ OtherData \in Int  BY ProbabilitiesAssumption, AgingAssumption
<1> QED  BY <1>2, <1>3, <1>6, <1>12, <1>13 DEF Available

\* A step that takes n pages keeps the margin if n pages are to spare.
LEMMA TakesSpare ==
  ASSUME Typed, Typed', NEW f, NEW Q, NEW n \in Nat, IsFiniteSet(Q), Cardinality(Q) = n,
         \A g \in Files : mapped'[g] \subseteq mapped[g] \cup (IF g = f THEN Q ELSE {}),
         n > 0 => Margin < Available - n + Block
  PROVE  Available' < Available => Margin < Available' + Block
<1> DEFINE before == Available
           after  == Available'
<1>1. before \in Int /\ after \in Int /\ after >= before - n  BY TakesAtMost
<1>2. n > 0 => Margin < before - n + Block  OBVIOUS
<1>3. SUFFICES after < before => Margin < after + Block  OBVIOUS
<1> HIDE DEF before, after
<1> QED  BY <1>1, <1>2, BlockAssumption, AgingAssumption

\* A step that maps nothing takes nothing.
LEMMA TakesNothing ==
  ASSUME Typed, Typed', \A g \in Files : mapped'[g] \subseteq mapped[g]
  PROVE  Available' < Available => Margin < Available' + Block
<1> DEFINE Q == {}
           n == 0
<1>1. IsFiniteSet(Q) /\ Cardinality(Q) = n  BY FS_EmptySet
<1>2. n \in Nat /\ ~ n > 0  OBVIOUS
<1> HIDE DEF Q, n
<1>3. \A g \in Files : mapped'[g] \subseteq mapped[g] \cup (IF g = NoFile THEN Q ELSE {})
  OBVIOUS
<1> QED  BY <1>1, <1>2, <1>3, TakesSpare

\* Less than a block more than the size drawn is to spare.
LEMMA DrawnSpares ==
  ASSUME Available \in Int, NEW from \in Nat, NEW to \in Nat, NEW want \in FileSizes(from, to),
         NEW n \in Nat, n < want + Block, want = 0 => n = 0
  PROVE  n > 0 => Margin < Available - n + Block
<1>1. /\ want \in Nat
      /\ Margin < Available => want <= Available - Margin
      /\ Available <= Margin => want = 0
  BY SizeSpares
<1> QED  BY <1>1, BlockAssumption, AgingAssumption

\* CREATE_FILE leaves room to fill the last block of the file it makes.
LEMMA CreateFileSpares ==
  ASSUME Typed, Typed', CreateFile
  PROVE  /\ Available' < Available => Margin < Available' + Block
         /\ Room'
<1>1. state \in States /\ zeroDraw \in BOOLEAN /\ touched \in Seq(files)
      /\ size \in [Files -> Nat] /\ mapped \in [Files -> SUBSET Nat] /\ Available \in Int
  BY AvailableInt DEF Typed, TypeOK
<1>2. CASE Abort("no_space")
  <2>1. outcome' # "running" /\ mapped' = mapped  BY <1>2 DEF Abort, diskVars
  <2> QED  BY <1>1, <2>1 DEF Room, Available
<1>3. CASE ~ Abort("no_space")
  <2>1. PICK f \in Files \ files, want \in FileSizes(MinSize, MaxSize) :
          \E end \in 0..BlockUp(want) : NewFile(f, end, Span(0, end))
    BY <1>3 DEF CreateFile
  <2> PICK end \in 0..BlockUp(want) : NewFile(f, end, Span(0, end))
    BY <2>1
  <2>2. /\ want \in Nat
        /\ Margin < Available => want <= Available - Margin
        /\ Available <= Margin => want = 0
    BY <1>1, AgingAssumption, SizeSpares
  <2>3. /\ BlockUp(want) \in Nat /\ BlockUp(want) < want + Block
        /\ want = 0 => BlockUp(want) = 0
        /\ end \in Nat /\ end <= BlockUp(want)
    BY <2>2, RoundingUp
  <2>4. /\ BlockUp(end) \in Nat /\ end <= BlockUp(end) /\ BlockUp(end) <= BlockUp(want)
    BY <2>2, <2>3, RoundingUp, RoundedBelow
  <2>5. IsFiniteSet(Span(0, end)) /\ Cardinality(Span(0, end)) = end
    BY <2>3, SpanSize
  <2>6. /\ touched' = Append(touched, f) /\ size' = [size EXCEPT ![f] = end]
        /\ mapped' = [mapped EXCEPT ![f] = Span(0, end)]
    BY <2>1 DEF NewFile, Touch
  <2>7. \A g \in Files : mapped'[g] \subseteq mapped[g] \cup (IF g = f THEN Span(0, end) ELSE {})
    BY <1>1, <2>6
  <2>8. Available' \in Int /\ Available' >= Available - end  BY <2>5, <2>7, TakesAtMost
  <2>9. Previous' = f /\ size'[f] = end /\ mapped'[f] = Span(0, end)
    BY <1>1, <2>6 DEF Previous
  <2>10. Available' < Available => Margin < Available' + Block
    <3>1. end > 0 => Margin < Available - end + Block
      BY <1>1, <2>2, <2>3, BlockAssumption, AgingAssumption
    <3> QED  BY <2>3, <2>5, <2>7, <3>1, TakesSpare
  <2>11. BlockUp(end) - end > 0 => Margin < Available' - (BlockUp(end) - end) + Block
    <3> DEFINE before == Available
               after  == Available'
               top    == BlockUp(want)
               up     == BlockUp(end)
    <3>1. before \in Int /\ after \in Int /\ after >= before - end  BY <1>1, <2>8
    <3>2. top \in Nat /\ top < want + Block /\ (want = 0 => top = 0)  BY <2>3
    <3>3. end \in Nat /\ up \in Nat /\ end <= up /\ up <= top  BY <2>3, <2>4
    <3>4. (Margin < before => want <= before - Margin) /\ (before <= Margin => want = 0)
      BY <2>2
    <3> SUFFICES up - end > 0 => Margin < after - (up - end) + Block
      OBVIOUS
    <3> HIDE DEF before, after, top, up
    <3>5. up - end > 0 => Margin < before  BY <2>2, <3>1, <3>2, <3>3, <3>4, AgingAssumption
    <3>6. Margin < before => Margin + up - Block < before
      BY <2>2, <3>1, <3>2, <3>3, <3>4, BlockAssumption, AgingAssumption
    <3> QED  BY <3>1, <3>3, <3>5, <3>6, BlockAssumption, AgingAssumption
  <2>12. Room'
    <3>1. BlockUp(size[Previous])' = BlockUp(end) /\ size[Previous]' = end
          /\ mapped[Previous]' = Span(0, end) /\ Span(0, size[Previous])' = Span(0, end)
      BY <2>9 DEF BlockUp, BlockDown, Span
    <3> QED  BY <2>11, <3>1 DEF Room, BlockUp, BlockDown, Span
  <2> QED  BY <2>10, <2>12
<1> QED  BY <1>2, <1>3

\* CREATE_FILE_OVERWRITE fills the last block and takes no more.
LEMMA OverwriteSpares ==
  ASSUME Typed, Typed', Lists, Room, CreateFileOverwrite
  PROVE  Available' < Available => Margin < Available' + Block
<1>1. /\ files \subseteq Files /\ touched \in Seq(files) /\ state \in States
      /\ zeroDraw \in BOOLEAN /\ size \in [Files -> Nat] /\ mapped \in [Files -> SUBSET Nat]
      /\ Available \in Int
  BY AvailableInt DEF Typed, TypeOK
<1>2. outcome = "running" /\ state = "CREATE_FILE"
  BY <1>1, MoveEffect DEF CreateFileOverwrite, EnteredBy
<1>3. Previous \in Files
  BY <1>1, <1>2 DEF Lists, Previous, PreviousIsFresh
<1> DEFINE bytes == size[Previous]
<1>4. bytes \in Nat /\ BlockUp(bytes) \in Nat /\ bytes <= BlockUp(bytes)
  BY <1>1, <1>3, RoundingUp
<1>5. /\ mapped[Previous] = Span(0, bytes)
      /\ BlockUp(bytes) - bytes > 0 => Margin < Available - (BlockUp(bytes) - bytes) + Block
  BY <1>2, Zenon DEF Room
<1>6. CASE mapped' = mapped
  BY <1>1, <1>6 DEF Available
<1>7. CASE mapped' # mapped
  <2>1. PICK end \in 0..BlockUp(bytes) : mapped' = [mapped EXCEPT ![Previous] = @ \cup Span(0, end)]
    BY <1>7 DEF CreateFileOverwrite, Abort, diskVars
  <2> HIDE DEF bytes
  <2>2. end \in Nat /\ end <= BlockUp(bytes)  BY <1>4, <2>1
  <2> DEFINE top == IF end <= bytes THEN bytes ELSE end
             more == Span(bytes, top)
  <2>3. top \in Nat /\ bytes <= top /\ top <= BlockUp(bytes)  BY <1>4, <2>2
  <2>4. IsFiniteSet(more) /\ Cardinality(more) = top - bytes  BY <1>4, <2>3, SpanSize
  <2>5. Span(0, end) \subseteq Span(0, bytes) \cup more
    BY <1>4, <2>2 DEF Span
  <2> HIDE DEF top, more
  <2>6. ASSUME NEW g \in Files
        PROVE  mapped'[g] \subseteq mapped[g] \cup (IF g = Previous THEN more ELSE {})
    BY <1>1, <1>3, <1>5, <2>1, <2>5
  <2> DEFINE n == top - bytes
  <2>7. n \in Nat /\ (n > 0 => Margin < Available - n + Block)
    BY <1>1, <1>4, <1>5, <2>3, BlockAssumption, AgingAssumption
  <2> HIDE DEF n
  <2>8. IsFiniteSet(more) /\ Cardinality(more) = n  BY <2>4 DEF n
  <2> QED  BY <2>6, <2>7, <2>8, TakesSpare
<1> QED  BY <1>6, <1>7

\* CREATE_FILE_FALLOCATE takes the size it has drawn.
LEMMA CreateFallocateSpares ==
  ASSUME Typed, Typed', CreateFileFallocate
  PROVE  Available' < Available => Margin < Available' + Block
<1>1. mapped \in [Files -> SUBSET Nat] /\ Available \in Int
  BY AvailableInt DEF Typed, TypeOK
<1>2. CASE mapped' = mapped
  BY <1>1, <1>2 DEF Available
<1>3. CASE mapped' # mapped
  <2>1. PICK f \in Files, want \in FileSizes(MinSize, MaxSize) :
          mapped' = [mapped EXCEPT ![f] = Span(0, want)]
    BY <1>3 DEF CreateFileFallocate, NewFile, Abort, diskVars
  <2>2. /\ want \in Nat
        /\ Margin < Available => want <= Available - Margin
        /\ Available <= Margin => want = 0
    BY <1>1, AgingAssumption, SizeSpares
  <2>3. IsFiniteSet(Span(0, want)) /\ Cardinality(Span(0, want)) = want  BY <2>2, SpanSize
  <2>4. \A g \in Files : mapped'[g] \subseteq mapped[g] \cup (IF g = f THEN Span(0, want) ELSE {})
    BY <1>1, <2>1
  <2>5. want > 0 => Margin < Available - want + Block
    BY <1>1, <2>2, BlockAssumption, AgingAssumption
  <2> QED  BY <2>2, <2>3, <2>4, <2>5, TakesSpare
<1> QED  BY <1>2, <1>3

\* An ALTER_BIGGER handler takes the pages from where it starts to where it
\* ends, less than a block more than the size drawn.
LEMMA BiggerSpares ==
  ASSUME Typed, Typed', AlterBiggerFallocate \/ AlterBiggerWrite
  PROVE  Available' < Available => Margin < Available' + Block
<1>1. size \in [Files -> Nat] /\ files \subseteq Files /\ mapped \in [Files -> SUBSET Nat]
      /\ Available \in Int
  BY AvailableInt DEF Typed, TypeOK
<1>2. \A f \in files : size[f] \in Nat /\ FileSizes(size[f], MaxSize) \subseteq Nat
  BY <1>1, FileSizesNat, AgingAssumption
<1>3. CASE \A f \in Files : mapped'[f] \subseteq mapped[f]
  BY <1>3, TakesNothing
<1>4. ASSUME NEW f \in files, NEW a, NEW new, NEW bytes, Grown(a, f, new, bytes, {})
      PROVE  \A g \in Files : mapped'[g] \subseteq mapped[g]
  BY <1>1, <1>4 DEF Grown
<1>5. ASSUME NEW reason, Abort(reason)  PROVE \A g \in Files : mapped'[g] \subseteq mapped[g]
  BY <1>5 DEF Abort, diskVars
<1>6. ASSUME NEW f \in files, NEW new \in FileSizes(size[f], MaxSize), NEW from \in Nat,
             NEW to \in Nat, from <= to, to - from \in Nat, to - from < new + Block, new # 0,
             mapped' = [mapped EXCEPT ![f] = @ \cup Span(from, to)]
      PROVE  Available' < Available => Margin < Available' + Block
  <2> DEFINE Q == Span(from, to)
             n == to - from
  <2>1. n \in Nat /\ (n > 0 => Margin < Available - n + Block)
    <3>1. n \in Nat /\ n < new + Block /\ (new = 0 => n = 0)  BY <1>6
    <3>2. size[f] \in Nat /\ MaxSize \in Nat  BY <1>2, AgingAssumption
    <3> HIDE DEF n
    <3> QED  BY <1>1, <3>1, <3>2, DrawnSpares
  <2>2. IsFiniteSet(Q) /\ Cardinality(Q) = n  BY <1>6, SpanSize
  <2>3. \A g \in Files : mapped'[g] \subseteq mapped[g] \cup (IF g = f THEN Q ELSE {})
    BY <1>1, <1>6
  <2> HIDE DEF n, Q
  <2> QED  BY <2>1, <2>2, <2>3, TakesSpare
<1>7. CASE AlterBiggerFallocate /\ ~ \A f \in Files : mapped'[f] \subseteq mapped[f]
  <2>1. \E f \in files : \E new \in FileSizes(size[f], MaxSize) :
          new > size[f] /\ Grown("ALTER_BIGGER_FALLOCATE", f, new, new, Span(size[f], new))
    BY <1>4, <1>5, <1>7 DEF AlterBiggerFallocate, NeedsFile
  <2> PICK f \in files : \E new \in FileSizes(size[f], MaxSize) :
          new > size[f] /\ Grown("ALTER_BIGGER_FALLOCATE", f, new, new, Span(size[f], new))
    BY <2>1
  <2> PICK new \in FileSizes(size[f], MaxSize) :
          new > size[f] /\ Grown("ALTER_BIGGER_FALLOCATE", f, new, new, Span(size[f], new))
    OBVIOUS
  <2>2. size[f] \in Nat /\ new \in Nat  BY <1>2
  <2>3. mapped' = [mapped EXCEPT ![f] = @ \cup Span(size[f], new)]
    BY DEF Grown
  <2>4. size[f] <= new /\ new - size[f] \in Nat /\ new - size[f] < new + Block /\ new # 0
    BY <2>2, BlockAssumption
  <2> QED  BY <1>6, <2>2, <2>3, <2>4
<1>8. CASE AlterBiggerWrite /\ ~ \A f \in Files : mapped'[f] \subseteq mapped[f]
  <2> DEFINE step == AlignDown(Block)
             start(f) == AlignDown(size[f])
             steps(f, new) == (new - start(f) + step - 1) \div step
             Writes(f, new) ==
               /\ start(f) < new /\ step > 0
               /\ \E end \in start(f)..(start(f) + step * steps(f, new)) :
                    Grown("ALTER_BIGGER_WRITE", f, new, Larger(size[f], end), Span(start(f), end))
  <2>1. PICK f \in files : \E new \in FileSizes(size[f], MaxSize) : Writes(f, new)
    BY <1>4, <1>5, <1>8 DEF AlterBiggerWrite, NeedsFile
  <2>2. PICK new \in FileSizes(size[f], MaxSize) : Writes(f, new)
    BY <2>1
  <2>3. size[f] \in Nat /\ new \in Nat /\ start(f) \in Nat
    BY <1>2, AlignDownNat
  <2>4. step \in Nat /\ step <= Block  BY BlockAssumption, AlignDownNat
  <2> HIDE DEF step, start
  <2> DEFINE from == start(f)
             goal == from + step * steps(f, new)
  <2>5. steps(f, new) \in Int /\ step * steps(f, new) <= new - from + step - 1
    <3>1. ASSUME NEW n \in Nat, NEW d \in Nat \ {0}
          PROVE  n \div d \in Int /\ d * (n \div d) <= n
      OBVIOUS
    <3> DEFINE n == new - from + step - 1
    <3>2. from < new /\ step > 0  BY <2>2
    <3>3. n \in Nat /\ step \in Nat \ {0}  BY <2>3, <2>4, <3>2
    <3> HIDE DEF n
    <3>4. n \div step \in Int /\ step * (n \div step) <= n  BY <3>1, <3>3
    <3> QED  BY <3>4 DEF n
  <2>6. PICK end \in from..goal :
          Grown("ALTER_BIGGER_WRITE", f, new, Larger(size[f], end), Span(from, end))
    BY <2>2
  <2> HIDE DEF steps
  <2>7. step * steps(f, new) \in Int  BY <2>4, <2>5
  <2>8. /\ end \in Nat /\ from <= end /\ from \in Nat
        /\ end - from \in Nat /\ end - from < new + Block /\ new # 0
    BY <2>2, <2>3, <2>4, <2>5, <2>6, <2>7, BlockAssumption
  <2>9. mapped' = [mapped EXCEPT ![f] = @ \cup Span(from, end)]  BY <2>6 DEF Grown
  <2> HIDE DEF from, goal
  <2> QED  BY <1>6, <2>8, <2>9
<1> QED  BY <1>3, <1>7, <1>8

\* Every other step gives pages back or leaves them as they are.
LEMMA MarginNext ==
  ASSUME Typed, Typed', Lists, Room, [Next]_vars
  PROVE  Available' < Available => Margin < Available' + Block
<1>1. /\ files \subseteq Files /\ punchable \subseteq files /\ state \in States
      /\ zeroDraw \in BOOLEAN /\ mapped \in [Files -> SUBSET Nat] /\ Available \in Int
  BY AvailableInt DEF Typed, TypeOK
<1>2. ASSUME \A g \in Files : mapped'[g] \subseteq mapped[g]
      PROVE  Available' < Available => Margin < Available' + Block
  BY <1>2, TakesNothing
<1>3. CASE UNCHANGED vars
  BY <1>2, <1>3 DEF vars, diskVars
<1>4. CASE Finish
  BY <1>1, <1>2, <1>4 DEF Finish, diskVars
<1>5. CASE Iterate
  <2>1. ASSUME NEW reason, Abort(reason)  PROVE \A g \in Files : mapped'[g] \subseteq mapped[g]
    BY <2>1 DEF Abort, diskVars
  <2>2. CASE CreateFile \/ CreateFileFallocate \/ CreateFileOverwrite
    BY <2>2, CreateFileSpares, CreateFallocateSpares, OverwriteSpares
  <2>3. CASE AlterBiggerFallocate \/ AlterBiggerWrite
    BY <2>3, BiggerSpares
  <2>4. CASE AlterSmallerTruncate
    <3>1. CASE \E reason : Abort(reason)
      BY <1>2, <2>1, <3>1
    <3>2. CASE ~ \E reason : Abort(reason)
      <4>1. PICK f \in files : \E bytes : mapped' = [mapped EXCEPT ![f] = {p \in @ : p < bytes}]
        BY <2>4, <3>2 DEF AlterSmallerTruncate, NeedsFile
      <4> QED  BY <1>1, <1>2, <4>1
    <3> QED  BY <3>1, <3>2
  <2>5. CASE AlterSmallerFallocate
    <3>1. CASE \E f \in Files : \E Q : mapped' \in {[mapped EXCEPT ![f] = @ \ Q], mapped}
      BY <1>1, <1>2, <3>1
    <3> QED  BY <1>1, <1>2, <2>1, <2>5, <3>1 DEF AlterSmallerFallocate, NeedsFile
  <2>6. CASE DeleteFile
    <3>1. CASE \E f \in files : mapped' = [mapped EXCEPT ![f] = {}]
      BY <1>1, <1>2, <3>1
    <3> QED  BY <1>2, <2>1, <2>6, <3>1 DEF DeleteFile, NeedsFile
  <2>7. CASE (\E to : Enter(to)) \/ CreateFileRead \/ CreateDir \/ DeleteDir \/ EndCycle
    BY <1>2, <2>1, <2>7
       DEF Enter, CreateFileRead, CreateDir, DeleteDir, EndCycle, diskVars
  <2> QED  BY <1>5, <2>2, <2>3, <2>4, <2>5, <2>6, <2>7 DEF Iterate
<1> QED  BY <1>3, <1>4, <1>5 DEF Next, Ended

\* CREATE_FILE is left again by the next transition.
LEMMA RoomNext ==
  ASSUME Typed, Typed', Room, [Next]_vars
  PROVE  Room'
<1>1. state \in States /\ zeroDraw \in BOOLEAN  BY DEF Typed, TypeOK
<1>2. CASE UNCHANGED vars
  <2>1. UNCHANGED <<outcome, state, touched, size, mapped>>
    BY <1>2 DEF vars, cycleVars, diskVars
  <2> QED  BY <2>1 DEF Room, Previous, Available, Tagged, CountIn, BlockUp, BlockDown, Span
<1>3. CASE Finish
  BY <1>3 DEF Finish, Room
<1>4. CASE CreateFile
  BY <1>4, CreateFileSpares
<1>5. CASE Iterate /\ ~ CreateFile
  <2>1. \E to \in {"S", "CREATE", "ALTER", "DELETE", "ALTER_SMALLER", "ALTER_BIGGER",
                   "ALTER_METADATA", "CREATE_FILE_FALLOCATE", "CREATE_FILE_OVERWRITE",
                   "CREATE_FILE_READ", "CREATE_DIR", "ALTER_SMALLER_TRUNCATE",
                   "ALTER_SMALLER_FALLOCATE", "ALTER_BIGGER_FALLOCATE", "ALTER_BIGGER_WRITE",
                   "DELETE_FILE", "DELETE_DIR", "END"} : Move(to)
    BY <1>5 DEF Iterate, Enter, CreateFileFallocate, CreateFileOverwrite, CreateFileRead,
       CreateDir, AlterSmallerTruncate, AlterSmallerFallocate, AlterBiggerFallocate,
       AlterBiggerWrite, DeleteFile, DeleteDir, EndCycle
  <2>2. state' # "CREATE_FILE"  BY <1>1, <2>1, MoveEffect
  <2> QED  BY <2>2 DEF Room
<1> QED  BY <1>2, <1>3, <1>4, <1>5 DEF Next, Ended

\* No operation that takes space leaves a block less than the margin, neither a
\* write, nor an allocation, nor an overwrite.
THEOREM MarginIsKept == Spec => MarginKept
<1> DEFINE Spares == Available' < Available => Margin < Available' + Block
<1>1. Init => Room  BY DEF Init, Room
<1>2. Inv /\ Room /\ [Next]_vars => Room' /\ [Spares]_vars
  <2>1. Inv /\ [Next]_vars => Typed /\ Typed' /\ Lists  BY TypedNext DEF Inv
  <2> QED  BY <2>1, MarginNext, RoomNext
<1> QED  BY <1>1, <1>2, InvInvariant, PTL DEF Spec, MarginKept

-----------------------------------------------------------------------------
(***************************************************************************)
(* Reaching the end of a handler.  An operation that may take no more than *)
(* is to spare finds the room it asks for, whatever part of the margin     *)
(* metadata holds back, and a file is never so large that the hole walk    *)
(* of a truncation gives up.                                               *)
(***************************************************************************)
\* The lemmas of HoleProofs on slots and on the walk of a truncation mention
\* none of its variables.
LargestFile == Larger(SizeTop, Capacity + Block)
Holes == INSTANCE HoleProofs WITH Sizes <- 0..LargestFile,
                                  size <- 0, count <- 0, holes <- {}, cut <- FALSE

\* A filesystem and a block more fit into 64 bits.
Addressable ==
  /\ SizeTop < 65536 * 65536 * 65536 * 65536
  /\ Capacity + Block < 65536 * 65536 * 65536 * 65536

\* A file that is not in the tree has no pages.
AbsentEmpty == \A f \in Files \ files : mapped[f] = {}

\* CREATE is entered only with a block to spare beyond the margin.
RoomToCreate ==
  outcome = "running" /\ state = "CREATE" /\ ~ MayDrawNothing => Margin + Block <= Available

\* No file outgrows the largest size drawn, or the filesystem by a block.
FilesFit ==
  /\ \A f \in Files : size[f] <= LargestFile
  /\ outcome = "running" /\ state = "CREATE_FILE" => BlockUp(size[Previous]) <= Capacity + Block

\* The inductive invariant: HandlersEnd and what it needs of the state before a
\* step.
EndInv ==
  /\ rapid => RapidAging
  /\ AbsentEmpty /\ RoomToCreate /\ FilesFit /\ HandlersEnd

-----------------------------------------------------------------------------
\* On a full disk the capacity awareness factor is 0.
LEMMA CafFull == CafTable[Capacity] = 0
<1> DEFINE Below(x) == x * x * Capacity * Capacity
                         <= 1000 * 1000 * (Capacity * Capacity - Capacity * Capacity)
<1>1. ASSUME NEW n \in Nat \ {0}  PROVE n * n \in Nat \ {0} /\ n * n - n * n = 0  OBVIOUS
<1>2. ASSUME NEW x \in Nat \ {0}, NEW n \in Nat \ {0}  PROVE x * x * n * n \in Nat \ {0}
  <2>1. \A a, b \in Nat \ {0} : a * b \in Nat \ {0}  OBVIOUS
  <2> QED  BY <2>1
<1>3. Capacity \in Nat \ {0}  BY ProbabilitiesAssumption
<1>4. Below(0)
  <2>1. 0 * 0 * Capacity * Capacity = 0  BY <1>3
  <2>2. Capacity * Capacity - Capacity * Capacity = 0  BY <1>1, <1>3
  <2> QED  BY <2>1, <2>2
<1>5. \A x \in Nat \ {0} : ~ Below(x)
  <2>2. Capacity * Capacity - Capacity * Capacity = 0  BY <1>1, <1>3
  <2> TAKE x \in Nat \ {0}
  <2>3. x * x * Capacity * Capacity \in Nat \ {0}  BY <1>2, <1>3
  <2> QED  BY <2>2, <2>3
<1>6. CafTable[Capacity] = CHOOSE c \in 0..1000 : Below(c) /\ ~ Below(c + 1)
  <2>1. Capacity \in 0..Capacity  BY <1>3
  <2> QED  BY <2>1, Zenon DEF CafTable
<1> HIDE DEF Below
<1>7. \A c \in 0..1000 : Below(c) /\ ~ Below(c + 1) <=> c = 0
  <2>1. 0 + 1 \in Nat \ {0}  OBVIOUS
  <2>2. \A c \in 0..1000 : c # 0 => c \in Nat \ {0}  OBVIOUS
  <2> QED  BY <1>4, <1>5, <2>1, <2>2
<1> QED  BY <1>6, <1>7

\* S leads to CREATE only when the tree is empty or there is a block to spare.
LEMMA CreateHasRoom ==
  ASSUME Typed, AbsentEmpty, Move("CREATE"), ~ MayDrawNothing
  PROVE  Margin + Block <= Available
<1>0. /\ state \in States /\ Available \in Int /\ Margin \in Nat /\ Block \in Nat
      /\ Capacity \in Nat /\ OtherData \in Nat /\ files \subseteq Files
  BY AvailableInt, AgingAssumption, ProbabilitiesAssumption, BlockAssumption DEF Typed, TypeOK
<1>1. PICK rap \in RapidNext, i \in DOMAIN Transitions[state] :
        /\ Transitions[state][i].to = "CREATE"
        /\ \E r \in RandomValues(state, Env(rap)) : Takes(state, i, r, Env(rap))
  BY DEF Move
<1>2. state = "S" /\ i = 2  BY <1>0, <1>1, EdgeInto DEF EnteredBy
<1>3. PICK r \in RandomValues("S", Env(rap)) : Takes("S", 2, r, Env(rap))
  BY <1>1, <1>2
<1>4. CASE files = {}
  <2>1. Tagged(Files, mapped) = {}  BY <1>4 DEF AbsentEmpty, Tagged
  <2>2. CountIn(Files, mapped) = 0  BY <2>1, FS_EmptySet DEF CountIn
  <2> QED  BY <1>0, <2>2 DEF Available, MayDrawNothing
<1>5. CASE files # {} /\ Available <= Margin + Block
  <2>1. Env(rap).used = Capacity /\ Env(rap).files # {}  BY <1>5 DEF Env
  <2>2. Caf(Env(rap)) = 0  BY <2>1, CafFull DEF Caf
  <2>3. pC(Env(rap)) = 0  BY <2>2 DEF pC
  <2>4. Transitions["S"] = <<Edge("ALTER", "pA"), Edge("CREATE", "pC"), Edge("DELETE", "pD")>>
    BY DEF Transitions
  <2>5. Transitions["S"][1].key = "pA" /\ Transitions["S"][2].key = "pC"  BY <2>4 DEF Edge
  <2>6. pA(Env(rap)) \in Int  BY <2>2, <2>3 DEF pA, pD, One
  <2>7. Cumulative("S", 1, Env(rap)) = pA(Env(rap))
    BY <2>5 DEF Cumulative, Probability
  <2>8. Cumulative("S", 2, Env(rap)) = pA(Env(rap))
    BY <2>3, <2>5, <2>6 DEF Cumulative, Probability
  <2>9. r <= Cumulative("S", 2, Env(rap)) /\ Cumulative("S", 1, Env(rap)) < r
    BY <1>3 DEF Takes
  <2>10. r \in Int  BY RandomAtMostOne
  <2> QED  BY <2>6, <2>7, <2>8, <2>9, <2>10
<1> QED  BY <1>0, <1>4, <1>5

\* CREATE_FILE_FALLOCATE is entered in rapid aging only, from CREATE.
LEMMA FallocateIsRapid ==
  ASSUME Typed, Move("CREATE_FILE_FALLOCATE")
  PROVE  rapid /\ state = "CREATE" /\ outcome = "running"
<1>0. state \in States /\ rapid \in BOOLEAN  BY DEF Typed, TypeOK
<1>1. PICK rap \in RapidNext, i \in DOMAIN Transitions[state] :
        /\ Transitions[state][i].to = "CREATE_FILE_FALLOCATE"
        /\ \E r \in RandomValues(state, Env(rap)) : Takes(state, i, r, Env(rap))
  BY DEF Move
<1>2. state = "CREATE" /\ i = 3  BY <1>0, <1>1, EdgeInto DEF EnteredBy
<1>3. PICK r \in RandomValues("CREATE", Env(rap)) : Takes("CREATE", 3, r, Env(rap))
  BY <1>1, <1>2
<1>4. ASSUME ~ rap  PROVE FALSE
  <2> DEFINE env == Env(rap)
             P(key) == Probability(key, env)
  <2>1. Transitions["CREATE"] = <<Edge("CREATE_DIR", "pCD"), Edge("CREATE_FILE", "pCF"),
                                  Edge("CREATE_FILE_FALLOCATE", "pCFF")>>
    BY DEF Transitions
  <2>2. /\ Transitions["CREATE"][1].key = "pCD" /\ Transitions["CREATE"][2].key = "pCF"
        /\ Transitions["CREATE"][3].key = "pCFF"
    BY <2>1 DEF Edge
  <2>3. P("pCFF") = 0  BY <1>4 DEF Probability, pCFF, Env
  <2>4. P("pCF") \in Int
    BY <1>4, ProbabilitiesAssumption DEF Typed, TypeOK, Probability, pCF, DirsFull, Env, One
  <2>5. P("pCD") \in Int
    BY <2>3, <2>4 DEF Probability, One
  <2> HIDE DEF P
  <2>6. Cumulative("CREATE", 2, env) = P("pCD") + P("pCF")
    BY <2>2 DEF Cumulative, P
  <2>7. Cumulative("CREATE", 3, env) = P("pCD") + P("pCF") + P("pCFF")
    BY <2>2 DEF Cumulative, P
  <2>8. r <= Cumulative("CREATE", 3, env) /\ Cumulative("CREATE", 2, env) < r
    BY <1>3 DEF Takes
  <2>9. r \in Int  BY RandomAtMostOne
  <2> QED  BY <2>3, <2>4, <2>5, <2>6, <2>7, <2>8, <2>9
<1> QED  BY <1>0, <1>1, <1>2, <1>4 DEF Move, RapidNext

-----------------------------------------------------------------------------
\* What metadata holds back is within the margin.
LEMMA RoomSpares ==
  ASSUME Available \in Int, Overhead <= Margin, NEW room \in Rooms
  PROVE  room \in Nat /\ Available - Margin <= room
<1>1. PICK held \in 0..Overhead : room = Larger(Available - held, 0)  BY DEF Rooms
<1> QED  BY <1>1, AgingAssumption DEF Larger

\* Writing goes on while as many pages as it has written, and one more, are free.
LEMMA WritesOn ==
  ASSUME NEW f, NEW from \in Nat, NEW to, NEW end \in Nat, from <= end,
         GetsTo(f, from, to, end), \A room \in Rooms : room \in Nat /\ end + 1 - from <= room
  PROVE  end = to
<1> DEFINE Q == Span(from, end + 1)
<1>1. PICK room \in Rooms : end = to \/ Cardinality(Q \ mapped[f]) > room
  BY DEF GetsTo
<1>2. IsFiniteSet(Q) /\ Cardinality(Q) = end + 1 - from  BY SpanSize
<1> HIDE DEF Q
<1>3. /\ IsFiniteSet(Q \ mapped[f]) /\ Cardinality(Q \ mapped[f]) <= Cardinality(Q)
      /\ Cardinality(Q \ mapped[f]) \in Nat
  BY <1>2, FS_Subset, FS_CardinalityType
<1> QED  BY <1>1, <1>2, <1>3

\* The write loop of CREATE_FILE reaches the size drawn.
LEMMA CreateFileEnds ==
  ASSUME Typed, Overhead <= Margin, NEW f, NEW want \in FileSizes(MinSize, MaxSize),
         NEW end \in 0..BlockUp(want), BlocksReach(f, want, end)
  PROVE  ~ WriteFails(want, end)
<1> SUFFICES ASSUME WriteFails(want, end)  PROVE FALSE
  OBVIOUS
<1>1. Available \in Int  BY AvailableInt DEF Typed
<1>2. /\ want \in Nat
      /\ Margin < Available => want <= Available - Margin
      /\ Available <= Margin => want = 0
  BY <1>1, SizeSpares, AgingAssumption
<1>3. BlockUp(want) \in Nat /\ BlockUp(want) < want + Block /\ (want = 0 => BlockUp(want) = 0)
  BY <1>2, RoundingUp
<1>4. end \in Nat /\ end + Block <= BlockUp(want) /\ Block \in Nat \ {0}
  BY <1>3, BlockAssumption DEF WriteFails
<1>5. \A room \in Rooms : room \in Nat /\ end + 1 - 0 <= room
  <2> TAKE room \in Rooms
  <2>1. room \in Nat /\ Available - Margin <= room  BY <1>1, RoomSpares
  <2>2. want # 0 /\ end + 1 <= want  BY <1>2, <1>3, <1>4
  <2> QED  BY <1>1, <1>2, <1>4, <2>1, <2>2, AgingAssumption
<1>6. end = BlockUp(want)
  <2>1. 0 \in Nat /\ 0 <= end  BY <1>4
  <2> QED  BY <1>4, <1>5, <2>1, WritesOn DEF BlocksReach
<1> QED  BY <1>3, <1>4, <1>6

\* The write loop of CREATE_FILE_OVERWRITE fills the last block of the file.
LEMMA OverwriteEnds ==
  ASSUME Typed, Room, outcome = "running", state = "CREATE_FILE", PreviousIsFresh,
         NEW end \in 0..BlockUp(size[Previous]), BlocksReach(Previous, size[Previous], end)
  PROVE  ~ WriteFails(size[Previous], end)
<1> SUFFICES ASSUME WriteFails(size[Previous], end)  PROVE FALSE
  OBVIOUS
<1> DEFINE bytes == size[Previous]
<1>1. bytes \in Nat /\ mapped[Previous] = Span(0, bytes)
  BY DEF Typed, TypeOK, Room, Previous, PreviousIsFresh
<1>2. Available \in Int  BY AvailableInt DEF Typed
<1>3. BlockUp(bytes) \in Nat /\ BlockUp(bytes) < bytes + Block  BY <1>1, RoundingUp
<1>4. end \in Nat /\ end + Block <= BlockUp(bytes) /\ Block \in Nat \ {0}
  BY <1>3, BlockAssumption DEF WriteFails
<1>5. PICK room \in Rooms : \/ end = BlockUp(bytes)
                            \/ Cardinality(Span(0, end + 1) \ mapped[Previous]) > room
  BY DEF BlocksReach, GetsTo
<1>6. room \in Nat
  <2>1. PICK held \in 0..Overhead : room = Larger(Available - held, 0)  BY DEF Rooms
  <2> QED  BY <1>2, <2>1, AgingAssumption DEF Larger
<1> HIDE DEF bytes
<1>7. Span(0, end + 1) \ Span(0, bytes) = {}
  <2>1. end + 1 <= bytes  BY <1>1, <1>3, <1>4
  <2> QED  BY <1>1, <1>4, <2>1 DEF Span
<1>8. Cardinality(Span(0, end + 1) \ mapped[Previous]) = 0  BY <1>1, <1>7, FS_EmptySet
<1> QED  BY <1>3, <1>4, <1>5, <1>6, <1>8

\* CREATE_FILE_FALLOCATE draws a size that is neither 0 nor too large.
LEMMA CreateFallocateEnds ==
  ASSUME Typed, Overhead <= Margin, ~ MayDrawNothing, Margin + Block <= Available,
         NEW want \in FileSizes(MinSize, MaxSize), NEW room \in Rooms
  PROVE  0 < want /\ want <= room
<1>1. Available \in Int /\ Block \in Nat \ {0} /\ Margin \in Nat
  BY AvailableInt, BlockAssumption, AgingAssumption DEF Typed
<1>2. want \in Nat /\ want <= Available - Margin
  BY <1>1, SizeSpares, AgingAssumption
<1>3. want # 0
  <2>1. PICK d \in Draw(MinSize, MaxSize) : want = SafeSize(d)  BY DEF FileSizes
  <2>2. d \in Nat \ {0}  BY <2>1, AgingAssumption DEF Draw, MayDrawNothing
  <2>3. SafeAvailable \in Nat /\ Block <= SafeAvailable  BY <1>1 DEF SafeAvailable
  <2>4. BlockDown(SafeAvailable) # 0
    <3>1. \A x, b \in Nat : b # 0 /\ b <= x => x - (x % b) # 0
      <4> TAKE x, b \in Nat
      <4> HAVE b # 0 /\ b <= x
      <4>1. x % b < b  OBVIOUS
      <4> QED  BY <4>1
    <3> QED  BY <1>1, <2>3, <3>1 DEF BlockDown
  <2> QED  BY <2>1, <2>2, <2>4 DEF SafeSize
<1>4. room \in Nat /\ Available - Margin <= room  BY <1>1, RoomSpares
<1> QED  BY <1>1, <1>2, <1>3, <1>4

\* Where the write loop of ALTER_BIGGER_WRITE ends: at or behind the size
\* drawn, by less than the block it writes.
LEMMA GoalReached ==
  ASSUME NEW from \in Nat, NEW new \in Nat, NEW step \in Nat \ {0}, from < new
  PROVE  LET goal == from + step * ((new - from + step - 1) \div step)
         IN  goal \in Nat /\ new <= goal /\ goal < new + step
<1> DEFINE n == new - from + step - 1
           q == n \div step
           goal == from + step * q
<1>1. \A m \in Nat, d \in Nat \ {0} : /\ m \div d \in Nat /\ d * (m \div d) \in Nat
                                      /\ d * (m \div d) <= m /\ m < d * (m \div d) + d
  OBVIOUS
<1>2. n \in Nat /\ n = new - from + step - 1  OBVIOUS
<1> HIDE DEF n
<1>3. step * q \in Nat /\ step * q <= n /\ n < step * q + step  BY <1>1, <1>2
<1> HIDE DEF q
<1>4. goal \in Nat /\ new <= goal /\ goal < new + step  BY <1>2, <1>3
<1> QED  BY <1>4 DEF q, n

\* An expansion stays within what is to spare.
LEMMA BiggerEnds ==
  ASSUME Typed, Overhead <= Margin, NEW f \in Files, NEW new \in FileSizes(size[f], MaxSize)
  PROVE  /\ \A room \in Rooms : new > size[f] => new - size[f] <= room
         /\ \A from, to, end \in Nat :
              /\ from < new /\ new <= to /\ from <= end /\ end <= to
              /\ GetsTo(f, from, to, end)
              => end >= new
<1>1. Available \in Int /\ size[f] \in Nat  BY AvailableInt DEF Typed, TypeOK
<1>2. /\ new \in Nat
      /\ Margin < Available => new <= Available - Margin
      /\ Available <= Margin => new = 0
  BY <1>1, SizeSpares, AgingAssumption
<1>3. \A room \in Rooms : room \in Nat /\ Available - Margin <= room  BY <1>1, RoomSpares
<1>4. ASSUME NEW room \in Rooms, new > size[f]  PROVE new - size[f] <= room
  BY <1>1, <1>2, <1>3, <1>4, AgingAssumption
<1>5. ASSUME NEW from \in Nat, NEW to \in Nat, NEW end \in Nat, from <= end, end <= to,
             from < new, new <= to, GetsTo(f, from, to, end), end < new
      PROVE  FALSE
  <2>1. end \in Nat /\ from <= end  BY <1>5
  <2>2. \A room \in Rooms : room \in Nat /\ end + 1 - from <= room
    <3> TAKE room \in Rooms
    <3>1. room \in Nat /\ Available - Margin <= room  BY <1>3
    <3>2. new # 0 /\ end + 1 - from <= new  BY <1>2, <1>5, <2>1
    <3> QED  BY <1>1, <1>2, <2>1, <3>1, <3>2, AgingAssumption
  <2>3. end = to  BY <1>5, <2>1, <2>2, WritesOn
  <2> QED  BY <1>2, <1>5, <2>1, <2>3
<1> QED  BY <1>2, <1>4, <1>5

\* The hole walk of a file within 64 bits does not give up.
LEMMA WalkSucceeds ==
  ASSUME Addressable, NEW z \in 0..LargestFile, NEW new \in Nat, NEW c \in Nat
  PROVE  TruncatedCount(z, new, c) # Threw
<1>1. LargestFile \in Nat /\ LargestFile < 65536 * 65536 * 65536 * 65536
  BY AgingAssumption, ProbabilitiesAssumption, BlockAssumption DEF Addressable, LargestFile, Larger
<1>2. Holes!Addressable /\ Holes!BlockAssumption /\ Holes!SizesAssumption
  <2>1. Holes!Addressable  BY <1>1 DEF Holes!Addressable
  <2>2. Holes!BlockAssumption  BY BlockAssumption DEF Holes!BlockAssumption
  <2>3. Holes!SizesAssumption  BY <1>1 DEF Holes!SizesAssumption
  <2> QED  BY <2>1, <2>2, <2>3
<1>3. \E i \in 1..Holes!MaxWalk : Holes!IsTruncatedCount(z, new, i)
  BY <1>1, <1>2, Holes!WalkEnds
<1>4. \A i : Holes!IsTruncatedCount(z, new, i) <=> IsTruncatedCount(z, new, i)
  BY DEF Holes!IsTruncatedCount, IsTruncatedCount, Holes!WalkStops, WalkStops,
         Holes!Slot, Slot, Holes!NextSlot, NextSlot
<1>5. \E i \in 1..MaxWalk : IsTruncatedCount(z, new, i)
  BY <1>3, <1>4 DEF Holes!MaxWalk, MaxWalk
<1> DEFINE P(i) == IsTruncatedCount(z, new, i)
           first == CHOOSE i \in 1..MaxWalk : P(i)
<1>6. first # -1
  <2> HIDE DEF P
  <2>1. first \in 1..MaxWalk  BY <1>5 DEF P
  <2> HIDE DEF first
  <2> QED  BY <2>1 DEF MaxWalk
<1>7. CASE new >= z  BY <1>7 DEF TruncatedCount, Threw
<1>8. CASE ~ new >= z
  <2>1. TruncatedCount(z, new, c) = first  BY <1>5, <1>8 DEF TruncatedCount
  <2> QED  BY <1>6, <2>1 DEF Threw
<1> QED  BY <1>7, <1>8

-----------------------------------------------------------------------------
\* A file keeps its size within bounds whatever is done to it.
LEMMA FitsNext ==
  ASSUME Typed, Typed', Lists, FilesFit, [Next]_vars
  PROVE  FilesFit'
<1>1. /\ state \in States /\ zeroDraw \in BOOLEAN /\ touched \in Seq(files)
      /\ files \subseteq Files /\ punchable \subseteq files
      /\ size \in [Files -> Nat] /\ size' \in [Files -> Nat] /\ Available \in Int
  BY AvailableInt DEF Typed, TypeOK
<1>2. /\ Block \in Nat \ {0} /\ Capacity \in Nat /\ OtherData \in Nat /\ Margin \in Nat
      /\ SizeTop \in Nat /\ MaxSize \in Nat /\ MinSize \in Nat
  BY BlockAssumption, AgingAssumption, ProbabilitiesAssumption
<1>3. LargestFile \in Nat /\ Capacity + Block <= LargestFile /\ SizeTop <= LargestFile
  BY <1>2 DEF LargestFile, Larger
<1>4. Available <= Capacity
  <2>1. CountIn(Files, mapped) \in Nat
    BY TaggedFinite, AgingAssumption DEF Typed, FinitePages
  <2> QED  BY <1>2, <2>1 DEF Available
<1>5. ASSUME NEW from \in Nat, NEW to \in Nat, NEW want \in FileSizes(from, to)
      PROVE  want \in Nat /\ want <= Capacity
  BY <1>1, <1>2, <1>4, SizeSpares
<1>6. CASE UNCHANGED vars
  <2>1. UNCHANGED <<outcome, state, touched, size>>  BY <1>6 DEF vars, cycleVars, diskVars
  <2> QED  BY <2>1 DEF FilesFit, Previous, BlockUp, BlockDown
<1>7. CASE Finish
  <2>1. \A f \in Files : size'[f] <= size[f]
    <3> TAKE f \in Files
    <3>1. size' = size \/ size' = [g \in Files |-> IF g \in Cleaned THEN 0 ELSE size[g]]
      BY <1>7 DEF Finish, diskVars
    <3>2. size'[f] = size[f] \/ size'[f] = 0  BY <3>1
    <3> QED  BY <1>1, <3>2
  <2>2. outcome' # "running"  BY <1>7 DEF Finish
  <2>3. \A f \in Files : size[f] <= LargestFile  BY DEF FilesFit
  <2>4. \A f \in Files : size'[f] <= LargestFile
    <3> TAKE f \in Files
    <3> QED  BY <1>1, <1>3, <2>1, <2>3
  <2> QED  BY <2>2, <2>4 DEF FilesFit
<1>8. ASSUME NEW to, Move(to), to # "CREATE_FILE", \A f \in Files : size'[f] <= LargestFile
      PROVE  FilesFit'
  <2>1. state' # "CREATE_FILE"  BY <1>1, <1>8, MoveEffect
  <2>2. LargestFile' = LargestFile  OBVIOUS
  <2> QED  BY <1>8, <2>1 DEF FilesFit, LargestFile
<1>9. \A f \in Files : size[f] <= LargestFile  BY DEF FilesFit
<1>10. ASSUME NEW f \in Files, NEW bytes \in Nat, bytes <= LargestFile,
              size' = [size EXCEPT ![f] = bytes]
       PROVE  \A g \in Files : size'[g] <= LargestFile
  BY <1>1, <1>9, <1>10
<1>11. ASSUME size' = size  PROVE \A g \in Files : size'[g] <= LargestFile
  BY <1>9, <1>11
<1>12. CASE CreateFile
  <2>1. CASE size' = size /\ outcome' # "running"
    BY <1>11, <2>1 DEF FilesFit, LargestFile
  <2>2. CASE ~ (size' = size /\ outcome' # "running")
    <3>1. PICK f \in Files \ files, want \in FileSizes(MinSize, MaxSize) :
            \E end \in 0..BlockUp(want) : NewFile(f, end, Span(0, end))
      BY <1>12, <2>2 DEF CreateFile, Abort, diskVars
    <3> PICK end \in 0..BlockUp(want) : NewFile(f, end, Span(0, end))
      BY <3>1
    <3>2. want \in Nat /\ want <= Capacity  BY <1>2, <1>5
    <3>3. BlockUp(want) \in Nat /\ BlockUp(want) < want + Block  BY <3>2, RoundingUp
    <3>4. end \in Nat /\ BlockUp(end) \in Nat /\ end <= BlockUp(end) /\ BlockUp(end) <= BlockUp(want)
      BY <3>2, <3>3, RoundingUp, RoundedBelow
    <3>5. touched' = Append(touched, f) /\ size' = [size EXCEPT ![f] = end]
      BY DEF NewFile, Touch
    <3>6. Previous' = f /\ size'[f] = end  BY <1>1, <3>5 DEF Previous
    <3>7. BlockUp(size[Previous])' = BlockUp(end)  BY <3>6 DEF BlockUp, BlockDown
    <3>8. BlockUp(end) <= Capacity + Block  BY <1>2, <3>2, <3>3, <3>4
    <3>9. end <= LargestFile  BY <1>2, <1>3, <3>4, <3>8
    <3>10. \A g \in Files : size'[g] <= LargestFile  BY <1>10, <3>4, <3>5, <3>9
    <3> QED  BY <3>7, <3>8, <3>10 DEF FilesFit, LargestFile, BlockUp, BlockDown
  <2> QED  BY <2>1, <2>2
<1>13. CASE CreateFileFallocate
  <2>1. Move("CREATE_FILE_FALLOCATE")  BY <1>13 DEF CreateFileFallocate
  <2>2. CASE size' = size  BY <1>8, <1>11, <2>1, <2>2
  <2>3. CASE size' # size
    <3>1. PICK f \in Files, want \in FileSizes(MinSize, MaxSize) :
            size' = [size EXCEPT ![f] = want]
      BY <1>13, <2>3 DEF CreateFileFallocate, NewFile, Abort, diskVars
    <3>2. want \in Nat /\ want <= LargestFile  BY <1>2, <1>3, <1>5
    <3> QED  BY <1>8, <1>10, <2>1, <3>1, <3>2
  <2> QED  BY <2>2, <2>3
<1>14. CASE CreateFileOverwrite
  <2>1. Move("CREATE_FILE_OVERWRITE")  BY <1>14 DEF CreateFileOverwrite
  <2>2. CASE size' = size  BY <1>8, <1>11, <2>1, <2>2
  <2>3. CASE size' # size
    <3>1. PreviousIsFresh /\ \E end \in 0..BlockUp(size[Previous]) :
            size' = [size EXCEPT ![Previous] = Larger(@, end)]
      BY <1>14, <2>3 DEF CreateFileOverwrite, Abort, diskVars
    <3>2. outcome = "running" /\ state = "CREATE_FILE"
      BY <1>1, <2>1, MoveEffect DEF EnteredBy
    <3>3. Previous \in Files  BY <1>1, <3>1 DEF PreviousIsFresh, Previous
    <3>4. /\ size[Previous] \in Nat /\ BlockUp(size[Previous]) \in Nat
          /\ BlockUp(size[Previous]) <= Capacity + Block
      BY <1>1, <3>2, <3>3, RoundingUp DEF FilesFit
    <3> PICK end \in 0..BlockUp(size[Previous]) :
            size' = [size EXCEPT ![Previous] = Larger(size[Previous], end)]
      BY <3>1
    <3>5. Larger(size[Previous], end) \in Nat /\ Larger(size[Previous], end) <= LargestFile
      BY <1>2, <1>3, <1>9, <3>3, <3>4 DEF Larger
    <3> QED  BY <1>8, <1>10, <2>1, <3>3, <3>5
  <2> QED  BY <2>2, <2>3
<1>15. CASE AlterSmallerTruncate
  <2>1. Move("ALTER_SMALLER_TRUNCATE")  BY <1>15 DEF AlterSmallerTruncate
  <2>2. CASE size' = size  BY <1>8, <1>11, <2>1, <2>2
  <2>3. CASE size' # size
    <3>1. \E f \in files : \E new \in Draw(Larger(size[f] \div 2, Block), size[f]) :
            \E bytes \in {new, size[f]} : size' = [size EXCEPT ![f] = bytes]
      <4>1. ~ NeedsFile("no_files", files)  BY <2>3 DEF NeedsFile, Abort, diskVars
      <4>2. ~ Abort("walk")  BY <2>3 DEF Abort, diskVars
      <4> QED  BY <1>15, <4>1, <4>2 DEF AlterSmallerTruncate
    <3> PICK f \in files : \E new \in Draw(Larger(size[f] \div 2, Block), size[f]) :
            \E bytes \in {new, size[f]} : size' = [size EXCEPT ![f] = bytes]
      BY <3>1
    <3> PICK new \in Draw(Larger(size[f] \div 2, Block), size[f]) :
            \E bytes \in {new, size[f]} : size' = [size EXCEPT ![f] = bytes]
      OBVIOUS
    <3>2. f \in Files /\ size[f] \in Nat /\ size[f] <= LargestFile  BY <1>1, <1>9
    <3>3. Larger(size[f] \div 2, Block) \in Nat  BY <1>2, <3>2 DEF Larger
    <3>4. new \in Nat /\ new <= LargestFile  BY <1>2, <1>3, <3>2, <3>3 DEF Draw
    <3> QED  BY <1>8, <1>10, <2>1, <3>2, <3>4
  <2> QED  BY <2>2, <2>3
<1>16. CASE AlterBiggerFallocate
  <2>1. Move("ALTER_BIGGER_FALLOCATE")  BY <1>16 DEF AlterBiggerFallocate
  <2>2. CASE size' = size  BY <1>8, <1>11, <2>1, <2>2
  <2>3. CASE size' # size
    <3>1. \E f \in files : \E new \in FileSizes(size[f], MaxSize) :
            size' = [size EXCEPT ![f] = new] \/ size' = [size EXCEPT ![f] = size[f]]
      BY <1>16, <2>3 DEF AlterBiggerFallocate, NeedsFile, Abort, diskVars, Grown
    <3> PICK f \in files : \E new \in FileSizes(size[f], MaxSize) :
            size' = [size EXCEPT ![f] = new] \/ size' = [size EXCEPT ![f] = size[f]]
      BY <3>1
    <3> PICK new \in FileSizes(size[f], MaxSize) :
            size' = [size EXCEPT ![f] = new] \/ size' = [size EXCEPT ![f] = size[f]]
      OBVIOUS
    <3>2. f \in Files /\ size[f] \in Nat /\ size[f] <= LargestFile  BY <1>1, <1>9
    <3>3. new \in Nat /\ new <= LargestFile  BY <1>2, <1>3, <1>5, <3>2
    <3> QED  BY <1>8, <1>10, <2>1, <3>2, <3>3
  <2> QED  BY <2>2, <2>3
<1>17. CASE AlterBiggerWrite
  <2>1. Move("ALTER_BIGGER_WRITE")  BY <1>17 DEF AlterBiggerWrite
  <2>2. CASE size' = size  BY <1>8, <1>11, <2>1, <2>2
  <2>3. CASE size' # size
    <3> DEFINE step == AlignDown(Block)
               start(f) == AlignDown(size[f])
               goal(f, new) == start(f) + step * ((new - start(f) + step - 1) \div step)
               Writes(f, new) ==
                 \/ size' = [size EXCEPT ![f] = size[f]]
                 \/ /\ start(f) < new /\ step > 0
                    /\ \E end \in start(f)..goal(f, new) :
                         size' = [size EXCEPT ![f] = Larger(size[f], end)]
    <3>1. PICK f \in files : \E new \in FileSizes(size[f], MaxSize) : Writes(f, new)
      BY <1>17, <2>3 DEF AlterBiggerWrite, NeedsFile, Abort, diskVars, Grown
    <3>2. PICK new \in FileSizes(size[f], MaxSize) : Writes(f, new)
      BY <3>1
    <3>3. f \in Files /\ size[f] \in Nat /\ size[f] <= LargestFile  BY <1>1, <1>9
    <3>4. new \in Nat /\ new <= Capacity  BY <1>2, <1>5, <3>3
    <3>5. start(f) \in Nat /\ step \in Nat /\ step <= Block
      BY <1>2, <3>3, AlignDownNat
    <3> HIDE DEF step, start
    <3>6. CASE size' = [size EXCEPT ![f] = size[f]]
      BY <1>8, <1>10, <2>1, <3>3, <3>6
    <3>7. CASE size' # [size EXCEPT ![f] = size[f]]
      <4>1. start(f) < new /\ step \in Nat \ {0}  BY <3>2, <3>5, <3>7
      <4>2. goal(f, new) \in Nat /\ goal(f, new) < new + step
        BY <3>4, <3>5, <4>1, GoalReached
      <4>3. PICK end \in start(f)..goal(f, new) : size' = [size EXCEPT ![f] = Larger(size[f], end)]
        BY <3>2, <3>7
      <4> HIDE DEF goal
      <4>4. end \in Nat /\ end <= Capacity + Block  BY <1>2, <3>4, <3>5, <4>2, <4>3
      <4>5. Larger(size[f], end) \in Nat /\ Larger(size[f], end) <= LargestFile
        BY <1>2, <1>3, <3>3, <4>4 DEF Larger
      <4> QED  BY <1>8, <1>10, <2>1, <3>3, <4>3, <4>5
    <3> QED  BY <3>6, <3>7
  <2> QED  BY <2>2, <2>3
<1>18. CASE DeleteFile
  <2>1. Move("DELETE_FILE")  BY <1>18 DEF DeleteFile
  <2>2. CASE size' = size  BY <1>8, <1>11, <2>1, <2>2
  <2>3. CASE size' # size
    <3>1. PICK f \in files : size' = [size EXCEPT ![f] = 0]
      BY <1>18, <2>3 DEF DeleteFile, NeedsFile, Abort, diskVars
    <3>2. \A g \in Files : size'[g] <= LargestFile
      <4>1. f \in Files /\ 0 \in Nat /\ 0 <= LargestFile  BY <1>1, <1>3
      <4> QED  BY <1>10, <3>1, <4>1
    <3> QED  BY <1>8, <2>1, <3>2
  <2> QED  BY <2>2, <2>3
<1>19. CASE (\E to \in {"S", "CREATE", "ALTER", "DELETE", "ALTER_SMALLER", "ALTER_BIGGER",
                       "ALTER_METADATA"} : Enter(to))
            \/ CreateFileRead \/ CreateDir \/ AlterSmallerFallocate \/ DeleteDir \/ EndCycle
  <2>1. \E to : to # "CREATE_FILE" /\ Move(to)
    BY <1>19 DEF Enter, CreateFileRead, CreateDir, AlterSmallerFallocate, DeleteDir, EndCycle
  <2>2. size' = size
    BY <1>19 DEF Enter, CreateFileRead, CreateDir, AlterSmallerFallocate, DeleteDir, EndCycle,
       NeedsFile, Abort, diskVars
  <2> QED  BY <1>8, <1>11, <2>1, <2>2
<1> QED
  BY <1>6, <1>7, <1>12, <1>13, <1>14, <1>15, <1>16, <1>17, <1>18, <1>19, RunningStep
     DEF Iterate

\* Only a file of the tree is given pages, and it loses them when it leaves.
LEMMA AbsentNext ==
  ASSUME Typed, AbsentEmpty, Lists, [Next]_vars
  PROVE  AbsentEmpty'
<1>1. /\ state \in States /\ zeroDraw \in BOOLEAN /\ touched \in Seq(files)
      /\ files \subseteq Files /\ punchable \subseteq files /\ mapped \in [Files -> SUBSET Nat]
  BY DEF Typed, TypeOK
<1>2. ASSUME NEW f \in files, files' = files, NEW Q, mapped' = [mapped EXCEPT ![f] = Q]
      PROVE  AbsentEmpty'
  BY <1>1, <1>2 DEF AbsentEmpty
<1>3. ASSUME files' = files, mapped' = mapped  PROVE AbsentEmpty'
  BY <1>3 DEF AbsentEmpty
<1>4. CASE UNCHANGED vars  BY <1>3, <1>4 DEF vars, treeVars, diskVars
<1>5. CASE Finish
  <2>1. files' = files /\ \A f \in Files : mapped'[f] = mapped[f] \/ mapped'[f] = {}
    BY <1>5 DEF Finish, diskVars
  <2> QED  BY <2>1 DEF AbsentEmpty
<1>6. ASSUME NEW f \in Files, NEW bytes, NEW pages, NewFile(f, bytes, pages)  PROVE AbsentEmpty'
  <2>1. files' = files \cup {f} /\ mapped' = [mapped EXCEPT ![f] = pages]
    BY <1>6 DEF NewFile
  <2> QED  BY <1>1, <2>1 DEF AbsentEmpty
<1>7. ASSUME NEW reason, Abort(reason)  PROVE AbsentEmpty'
  BY <1>3, <1>7 DEF Abort, treeVars, diskVars
<1>8. CASE CreateFile
  BY <1>6, <1>7, <1>8 DEF CreateFile
<1>9. CASE CreateFileFallocate
  BY <1>6, <1>7, <1>9 DEF CreateFileFallocate
<1>10. CASE CreateFileOverwrite
  <2>1. CASE \E reason : Abort(reason)  BY <1>7, <2>1
  <2>2. CASE ~ \E reason : Abort(reason)
    <3>1. PreviousIsFresh /\ files' = files /\ \E Q : mapped' = [mapped EXCEPT ![Previous] = Q]
      BY <1>10, <2>2 DEF CreateFileOverwrite, treeVars
    <3>2. Previous \in files  BY <1>1, <3>1 DEF PreviousIsFresh, Previous
    <3> QED  BY <1>2, <3>1, <3>2
  <2> QED  BY <2>1, <2>2
<1>11. CASE AlterSmallerTruncate \/ AlterSmallerFallocate \/ AlterBiggerFallocate \/ AlterBiggerWrite
  <2>1. CASE \E reason : Abort(reason)  BY <1>7, <2>1
  <2>2. CASE ~ \E reason : Abort(reason)
    <3>1. files' = files
      BY <1>11, <2>2 DEF AlterSmallerTruncate, AlterSmallerFallocate, AlterBiggerFallocate,
         AlterBiggerWrite, Grown, NeedsFile, treeVars
    <3>2. mapped' = mapped \/ \E f \in files : \E Q : mapped' = [mapped EXCEPT ![f] = Q]
      <4>1. CASE AlterSmallerTruncate
        BY <2>2, <4>1 DEF AlterSmallerTruncate, NeedsFile
      <4>2. CASE AlterSmallerFallocate
        BY <1>1, <2>2, <4>2 DEF AlterSmallerFallocate, NeedsFile
      <4>3. CASE AlterBiggerFallocate
        BY <2>2, <4>3 DEF AlterBiggerFallocate, NeedsFile, Grown
      <4>4. CASE AlterBiggerWrite
        BY <2>2, <4>4 DEF AlterBiggerWrite, NeedsFile, Grown
      <4> QED  BY <1>11, <4>1, <4>2, <4>3, <4>4
    <3> QED  BY <1>2, <1>3, <3>1, <3>2
  <2> QED  BY <2>1, <2>2
<1>12. CASE DeleteFile
  <2>1. CASE \E reason : Abort(reason)  BY <1>7, <2>1
  <2>2. CASE ~ \E reason : Abort(reason)
    <3>1. PICK f \in files : files' = files \ {f} /\ mapped' = [mapped EXCEPT ![f] = {}]
      BY <1>12, <2>2 DEF DeleteFile, NeedsFile, Unlist
    <3> QED  BY <1>1, <3>1 DEF AbsentEmpty
  <2> QED  BY <2>1, <2>2
<1>13. CASE (\E to : Enter(to)) \/ CreateFileRead \/ CreateDir \/ DeleteDir \/ EndCycle
  BY <1>3, <1>7, <1>13
     DEF Enter, CreateFileRead, CreateDir, DeleteDir, EndCycle, treeVars, diskVars
<1> QED
  BY <1>4, <1>5, <1>8, <1>9, <1>10, <1>11, <1>12, <1>13 DEF Next, Iterate, Ended

\* Every way into CREATE finds the space the probabilities have looked at.
LEMMA RoomToCreateNext ==
  ASSUME Typed, AbsentEmpty, RoomToCreate, [Next]_vars
  PROVE  RoomToCreate'
<1>1. state \in States /\ zeroDraw \in BOOLEAN  BY DEF Typed, TypeOK
<1>2. CASE UNCHANGED vars
  <2>1. UNCHANGED <<outcome, state, mapped>>  BY <1>2 DEF vars, diskVars
  <2> QED  BY <2>1 DEF RoomToCreate, MayDrawNothing, Available, CountIn, Tagged
<1>3. CASE Finish
  BY <1>3 DEF Finish, RoomToCreate
<1>4. CASE Enter("CREATE")
  <2>1. Move("CREATE") /\ mapped' = mapped  BY <1>4 DEF Enter, diskVars
  <2>2. Available' = Available  BY <2>1 DEF Available, CountIn, Tagged
  <2> QED  BY <2>1, <2>2, CreateHasRoom DEF RoomToCreate, MayDrawNothing
<1>5. CASE Iterate /\ ~ Enter("CREATE")
  <2>1. \E to : to # "CREATE" /\ Move(to)
    BY <1>5 DEF Iterate, Enter, CreateFile, CreateFileFallocate, CreateFileOverwrite,
       CreateFileRead, CreateDir, AlterSmallerTruncate, AlterSmallerFallocate,
       AlterBiggerFallocate, AlterBiggerWrite, DeleteFile, DeleteDir, EndCycle
  <2>2. state' # "CREATE"  BY <1>1, <2>1, MoveEffect
  <2> QED  BY <2>2 DEF RoomToCreate
<1> QED  BY <1>2, <1>3, <1>4, <1>5 DEF Next, Ended

\* Rapid aging is never switched on again.
LEMMA RapidStaysOff ==
  ASSUME Typed, [Next]_vars
  PROVE  rapid' => rapid
<1>1. rapid \in BOOLEAN  BY DEF Typed, TypeOK
<1>2. ASSUME NEW to, Move(to)  PROVE rapid' => rapid
  BY <1>1, <1>2 DEF Move, RapidNext
<1>3. CASE Iterate
  BY <1>2, <1>3 DEF Iterate, Enter, CreateFile, CreateFileFallocate, CreateFileOverwrite,
     CreateFileRead, CreateDir, AlterSmallerTruncate, AlterSmallerFallocate,
     AlterBiggerFallocate, AlterBiggerWrite, DeleteFile, DeleteDir, EndCycle
<1> QED  BY <1>3 DEF Next, Finish, Ended, vars

\* No handler gives up where the margin covers what metadata needs.
LEMMA HandlersEndNext ==
  ASSUME Addressable, Typed, Lists, Room, EndInv, [Next]_vars
  PROVE  HandlersEnd'
<1>1. /\ state \in States /\ zeroDraw \in BOOLEAN /\ touched \in Seq(files)
      /\ files \subseteq Files /\ size \in [Files -> Nat] /\ count \in [Files -> Nat]
      /\ Available \in Int
  BY AvailableInt DEF Typed, TypeOK
<1>2. Margin \in Nat /\ Overhead \in Nat /\ Block \in Nat \ {0}
  BY AgingAssumption, BlockAssumption
<1> DEFINE Excused == Margin < Overhead \/ (RapidAging /\ MayDrawNothing)
<1>3. SUFFICES (outcome' = "no_space" => Excused) /\ outcome' # "walk"
  BY DEF HandlersEnd, MayDrawNothing
<1>4. (outcome = "no_space" => Excused) /\ outcome # "walk"  BY DEF EndInv, HandlersEnd
<1> HIDE DEF Excused
<1>5. ASSUME outcome' = outcome  PROVE (outcome' = "no_space" => Excused) /\ outcome' # "walk"
  BY <1>4, <1>5
<1>6. ASSUME NEW reason, reason \notin {"no_space", "walk"}, Abort(reason)
      PROVE  (outcome' = "no_space" => Excused) /\ outcome' # "walk"
  BY <1>6 DEF Abort
<1>7. CASE CreateFile
  <2>1. CASE outcome' = outcome  BY <1>5, <2>1
  <2>2. CASE outcome' # outcome
    <3>1. Abort("no_space") /\ \E f \in Files \ files, want \in FileSizes(MinSize, MaxSize) :
            \E end \in 0..BlockUp(want) : BlocksReach(f, want, end) /\ WriteFails(want, end)
      BY <1>7, <2>2 DEF CreateFile
    <3>2. Margin < Overhead
      BY <1>2, <3>1, CreateFileEnds
    <3> QED  BY <3>1, <3>2 DEF Abort, Excused
  <2> QED  BY <2>1, <2>2
<1>8. CASE CreateFileFallocate
  <2>1. CASE outcome' = outcome  BY <1>5, <2>1
  <2>2. CASE outcome' # outcome
    <3>1. /\ Abort("no_space") /\ Move("CREATE_FILE_FALLOCATE")
          /\ \E want \in FileSizes(MinSize, MaxSize), room \in Rooms : want = 0 \/ want > room
      BY <1>8, <2>2 DEF CreateFileFallocate
    <3>2. rapid /\ state = "CREATE" /\ outcome = "running"  BY <3>1, FallocateIsRapid
    <3>3. RapidAging /\ (~ MayDrawNothing => Margin + Block <= Available)
      BY <3>2 DEF EndInv, RoomToCreate
    <3>4. PICK want \in FileSizes(MinSize, MaxSize) : \E room \in Rooms : want = 0 \/ want > room
      BY <3>1
    <3>5. PICK room \in Rooms : want = 0 \/ want > room
      BY <3>4
    <3>6. want \in Nat  BY <1>1, SizeSpares, AgingAssumption
    <3>7. room \in Int
      <4>1. PICK held \in 0..Overhead : room = Larger(Available - held, 0)  BY DEF Rooms
      <4> QED  BY <1>1, <1>2, <4>1 DEF Larger
    <3>8. Excused
      <4> SUFFICES ASSUME Overhead <= Margin, ~ MayDrawNothing  PROVE FALSE
        BY <1>2, <3>3 DEF Excused
      <4>1. 0 < want /\ want <= room  BY <3>3, CreateFallocateEnds
      <4> QED  BY <3>5, <3>6, <3>7, <4>1
    <3> QED  BY <3>1, <3>8 DEF Abort
  <2> QED  BY <2>1, <2>2
<1>9. CASE CreateFileOverwrite
  <2>1. CASE outcome' = outcome  BY <1>5, <2>1
  <2>2. CASE outcome' # outcome /\ ~ Abort("assertion")
    <3>1. /\ PreviousIsFresh /\ Move("CREATE_FILE_OVERWRITE")
          /\ \E end \in 0..BlockUp(size[Previous]) :
               BlocksReach(Previous, size[Previous], end) /\ WriteFails(size[Previous], end)
      BY <1>9, <2>2 DEF CreateFileOverwrite
    <3>2. outcome = "running" /\ state = "CREATE_FILE"
      BY <1>1, <3>1, MoveEffect DEF EnteredBy
    <3> QED  BY <3>1, <3>2, OverwriteEnds
  <2>3. CASE Abort("assertion")  BY <1>6, <2>3
  <2> QED  BY <2>1, <2>2, <2>3
<1>10. CASE AlterSmallerTruncate
  <2>1. CASE outcome' = outcome  BY <1>5, <2>1
  <2>2. CASE outcome' # outcome /\ ~ Abort("no_files")
    <3>1. \E f \in files : \E new \in Draw(Larger(size[f] \div 2, Block), size[f]) :
            TruncatedCount(size[f], new, count[f]) = Threw
      BY <1>10, <2>2 DEF AlterSmallerTruncate, NeedsFile
    <3> PICK f \in files : \E new \in Draw(Larger(size[f] \div 2, Block), size[f]) :
            TruncatedCount(size[f], new, count[f]) = Threw
      BY <3>1
    <3> PICK new \in Draw(Larger(size[f] \div 2, Block), size[f]) :
            TruncatedCount(size[f], new, count[f]) = Threw
      OBVIOUS
    <3>2. size[f] \in Nat /\ count[f] \in Nat /\ size[f] <= LargestFile
      BY <1>1 DEF EndInv, FilesFit
    <3>3. LargestFile \in Nat
      BY <1>2, AgingAssumption, ProbabilitiesAssumption DEF LargestFile, Larger
    <3>4. Larger(size[f] \div 2, Block) \in Nat  BY <1>2, <3>2 DEF Larger
    <3>5. new \in Nat  BY <3>2, <3>4, DrawNat
    <3>6. size[f] \in 0..LargestFile  BY <3>2, <3>3
    <3> QED  BY <3>2, <3>5, <3>6, WalkSucceeds
  <2>3. CASE Abort("no_files")  BY <1>6, <2>3
  <2> QED  BY <2>1, <2>2, <2>3
<1>11. CASE AlterBiggerFallocate
  <2>1. CASE outcome' = outcome  BY <1>5, <2>1
  <2>2. CASE outcome' # outcome /\ ~ Abort("no_files")
    <3>1. Abort("no_space") /\ \E f \in files : \E new \in FileSizes(size[f], MaxSize), room \in Rooms :
            new > size[f] /\ new - size[f] > room
      BY <1>11, <2>2 DEF AlterBiggerFallocate, NeedsFile, Grown
    <3>2. Margin < Overhead
      <4> SUFFICES ASSUME Overhead <= Margin  PROVE FALSE
        BY <1>2
      <4>1. PICK f \in files : \E new \in FileSizes(size[f], MaxSize), room \in Rooms :
              new > size[f] /\ new - size[f] > room
        BY <3>1
      <4>2. PICK new \in FileSizes(size[f], MaxSize) : \E room \in Rooms :
              new > size[f] /\ new - size[f] > room
        BY <4>1
      <4>3. PICK room \in Rooms : new > size[f] /\ new - size[f] > room
        BY <4>2
      <4>4. f \in Files /\ size[f] \in Nat /\ new \in Nat
        BY <1>1, SizeSpares, AgingAssumption
      <4>5. room \in Nat  BY <1>1, RoomSpares
      <4> QED  BY <4>3, <4>4, <4>5, BiggerEnds
    <3> QED  BY <3>1, <3>2 DEF Abort, Excused
  <2>3. CASE Abort("no_files")  BY <1>6, <2>3
  <2> QED  BY <2>1, <2>2, <2>3
<1>12. CASE AlterBiggerWrite
  <2>1. CASE outcome' = outcome  BY <1>5, <2>1
  <2>2. CASE outcome' # outcome /\ ~ Abort("no_files") /\ ~ Abort("spins")
    <3> DEFINE step == AlignDown(Block)
               start(f) == AlignDown(size[f])
               goal(f, new) == start(f) + step * ((new - start(f) + step - 1) \div step)
               Stuck(f, new) ==
                 /\ start(f) < new /\ step > 0
                 /\ \E end \in start(f)..goal(f, new) : GetsTo(f, start(f), goal(f, new), end) /\ end < new
    <3>1. Abort("no_space") /\ \E f \in files : \E new \in FileSizes(size[f], MaxSize) : Stuck(f, new)
      BY <1>12, <2>2 DEF AlterBiggerWrite, NeedsFile, Grown
    <3>2. Margin < Overhead
      <4> SUFFICES ASSUME Overhead <= Margin  PROVE FALSE
        BY <1>2
      <4>1. PICK f \in files : \E new \in FileSizes(size[f], MaxSize) : Stuck(f, new)
        BY <3>1
      <4>2. PICK new \in FileSizes(size[f], MaxSize) : Stuck(f, new)
        BY <4>1
      <4>3. f \in Files /\ size[f] \in Nat /\ new \in Nat
        BY <1>1, SizeSpares, AgingAssumption
      <4>4. start(f) \in Nat /\ step \in Nat  BY <1>2, <4>3, AlignDownNat
      <4> HIDE DEF step, start
      <4>5. step \in Nat \ {0} /\ start(f) < new  BY <4>2, <4>4
      <4>6. goal(f, new) \in Nat /\ new <= goal(f, new)  BY <4>3, <4>4, <4>5, GoalReached
      <4>7. PICK end \in start(f)..goal(f, new) :
              GetsTo(f, start(f), goal(f, new), end) /\ end < new
        BY <4>2
      <4> HIDE DEF goal
      <4>8. end \in Nat /\ start(f) <= end /\ end <= goal(f, new)  BY <4>4, <4>6, <4>7
      <4>9. end >= new  BY <4>3, <4>4, <4>5, <4>6, <4>7, <4>8, BiggerEnds
      <4> QED  BY <4>3, <4>7, <4>8, <4>9
    <3> QED  BY <3>1, <3>2 DEF Abort, Excused
  <2>3. CASE Abort("no_files") \/ Abort("spins")  BY <1>6, <2>3
  <2> QED  BY <2>1, <2>2, <2>3
<1>13. CASE (\E to : Enter(to)) \/ CreateFileRead \/ CreateDir \/ AlterSmallerFallocate
            \/ DeleteFile \/ DeleteDir \/ EndCycle
  BY <1>5, <1>6, <1>13
     DEF Enter, CreateFileRead, CreateDir, AlterSmallerFallocate, DeleteFile, DeleteDir,
         EndCycle, NeedsFile
<1>14. CASE Finish \/ UNCHANGED vars
  BY <1>5, <1>14 DEF Finish, vars
<1> QED
  BY <1>7, <1>8, <1>9, <1>10, <1>11, <1>12, <1>13, <1>14 DEF Next, Iterate, Ended

\* Nothing has been written when a run starts.
LEMMA EndInit == Init => EndInv
<1> SUFFICES ASSUME Init  PROVE EndInv
  OBVIOUS
<1>1. /\ state = "S" /\ outcome = "running" /\ rapid = RapidAging
      /\ size = [f \in Files |-> 0] /\ mapped = [f \in Files |-> {}]
  BY DEF Init
<1>2. 0 <= LargestFile
  BY AgingAssumption, ProbabilitiesAssumption, BlockAssumption DEF LargestFile, Larger
<1> QED  BY <1>1, <1>2 DEF EndInv, AbsentEmpty, RoomToCreate, FilesFit, HandlersEnd

\* No handler gives up for want of space that the safe margin should have kept,
\* and no truncation gives up its hole walk (HandlersEnd).
THEOREM HandlersReachTheirEnd ==
  ASSUME Addressable PROVE Spec => []HandlersEnd
<1>1. Init => Room /\ EndInv  BY EndInit DEF Init, Room
<1>2. Inv /\ Room /\ EndInv /\ [Next]_vars => Room' /\ EndInv'
  <2> SUFFICES ASSUME Inv, Room, EndInv, [Next]_vars  PROVE Room' /\ EndInv'
    OBVIOUS
  <2>1. Typed /\ Typed' /\ Lists  BY TypedNext DEF Inv
  <2>2. AbsentEmpty /\ RoomToCreate /\ FilesFit  BY DEF EndInv
  <2>3. AbsentEmpty' /\ RoomToCreate' /\ FilesFit'
    BY <2>1, <2>2, AbsentNext, RoomToCreateNext, FitsNext
  <2>4. rapid' => RapidAging  BY <2>1, RapidStaysOff DEF EndInv
  <2>5. HandlersEnd' /\ Room'  BY <2>1, HandlersEndNext, RoomNext
  <2> QED  BY <2>3, <2>4, <2>5 DEF EndInv
<1>3. EndInv => HandlersEnd  BY DEF EndInv
<1> QED  BY <1>1, <1>2, <1>3, InvInvariant, PTL DEF Spec

-----------------------------------------------------------------------------
(***************************************************************************)
(* The table has an edge for every random value.                           *)
(***************************************************************************)

\* The capacity awareness factor is defined for every fill of the disk.
LEMMA CafDefined == \A used \in 0..Capacity : CafTable[used] \in Int
<1> TAKE used \in 0..Capacity
<1> DEFINE rest == Capacity * Capacity - used * used
           Below(x) == x * x * Capacity * Capacity <= 1000 * 1000 * rest
           S == {x \in Nat : ~ Below(x)}
           Thousandths == 0..1000
<1>1. Capacity \in Nat \ {0} /\ used \in Nat /\ used <= Capacity
  BY ProbabilitiesAssumption
<1>2. used * used \in Nat /\ Capacity * Capacity \in Nat /\ used * used <= Capacity * Capacity
  BY <1>1
<1>3. rest \in Nat /\ rest <= Capacity * Capacity
  BY <1>2
<1>4. Below(0)
  <2>1. 0 * 0 * Capacity * Capacity = 0
    BY <1>1
  <2> HIDE DEF rest
  <2> QED BY <1>3, <2>1
<1>5. ~ Below(1001)
  <2> DEFINE q == Capacity * Capacity
  <2>1. 1001 * 1001 * Capacity * Capacity = 1002001 * q
    BY <1>1
  <2>2. q \in Nat /\ q > 0
    BY <1>1
  <2>3. rest <= q
    BY <1>3
  <2> HIDE DEF q, rest
  <2> QED BY <1>3, <2>1, <2>2, <2>3
<1> HIDE DEF Below
<1>6. PICK m \in S : \A x \in S : m <= x
  <2>1. S \subseteq Nat /\ S # {}
    BY <1>5
  <2> HIDE DEF S
  <2> QED BY <2>1, Least, Zenon
<1>7. m \in 1..1001
  BY <1>4, <1>5, <1>6
<1>8. m - 1 \in 0..1000 /\ (m - 1) + 1 = m /\ m - 1 \in Nat /\ ~ m <= m - 1
  BY <1>7
<1>9. Below(m - 1) /\ ~ Below((m - 1) + 1)
  BY <1>6, <1>8
<1>10. CafTable[used] = CHOOSE c \in Thousandths : Below(c) /\ ~ Below(c + 1)
  BY ZenonT(40) DEF CafTable, Below
<1>11. m - 1 \in Thousandths /\ Below(m - 1) /\ ~ Below((m - 1) + 1)
  BY <1>8, <1>9
<1>12. \A c \in Thousandths : c \in Int
  OBVIOUS
<1> HIDE DEF rest, S, Thousandths
<1>13. \E c \in Thousandths : Below(c) /\ ~ Below(c + 1)
  BY <1>11, Zenon
<1>14. CafTable[used] \in Thousandths
  BY <1>10, <1>13, Zenon
<1> QED BY <1>12, <1>14, Zenon

\* What compute_probabilities may find.
Environments ==
  [files : SUBSET Files, punchable : SUBSET Files, dirs : Nat, rapid : BOOLEAN, used : 0..Capacity]

\* The probabilities are numbers.
LEMMA ProbabilityTypes ==
  ASSUME NEW env \in Environments
  PROVE  /\ pC(env) \in Int /\ pD(env) \in Int /\ pAST(env) \in Int
         /\ pCF(env) \in Int /\ pCFF(env) \in Int /\ pABF(env) \in Int
<1>1. Caf(env) \in Int
  <2>1. env.used \in 0..Capacity
    BY DEF Environments
  <2>2. CafTable[env.used] \in Int
    BY <2>1, CafDefined, Zenon
  <2>3. CASE env.files = {}
    <3>1. Caf(env) = 1000
      BY <2>3 DEF Caf
    <3> QED BY <3>1
  <2>4. CASE env.files # {}
    <3>1. Caf(env) = CafTable[env.used]
      BY <2>4 DEF Caf
    <3> QED BY <2>2, <3>1, Zenon
  <2> QED BY <2>3, <2>4, Zenon
<1>2. env.dirs \div NDirs \in Int
  BY ProbabilitiesAssumption DEF Environments
<1>3. DirsFull(env) \in Int
  BY <1>2 DEF DirsFull, One
<1> QED BY <1>1, <1>3 DEF pC, pD, pAST, pCF, pCFF, pABF, One

\* The probabilities of the edges out of a state add up to 1, whatever the tree
\* and the disk are like.
LEMMA MassIsOne ==
  ASSUME NEW s \in States, NEW env \in Environments
  PROVE  \E n \in 1..3 :
           /\ DOMAIN Transitions[s] = 1..n
           /\ \A i \in 1..n : Cumulative(s, i, env) \in Int
           /\ Cumulative(s, n, env) = One
<1> DEFINE P(key) == Probability(key, env)
           Key(i) == Transitions[s][i].key
           Out(k1, k2, k3) == P(k1) + P(k2) + P(k3)
<1>1. /\ P("p1") = One
      /\ P("pA") \in Int /\ P("pC") \in Int /\ P("pD") \in Int /\ P("pA") + P("pC") + P("pD") = One
      /\ P("pCD") \in Int /\ P("pCF") \in Int /\ P("pCFF") \in Int /\ P("pCD") + P("pCF") + P("pCFF") = One
      /\ P("pAB") \in Int /\ P("pAM") \in Int /\ P("pAS") \in Int /\ P("pAB") + P("pAM") + P("pAS") = One
  BY ProbabilityTypes DEF Probability, pA, pAB, pAS, pAM, One
<1>2. /\ P("pDD") \in Int /\ P("pDF") \in Int /\ P("pDD") + P("pDF") = One
      /\ P("pCFO") \in Int /\ P("pCFR") \in Int /\ P("pCFE") \in Int
      /\ P("pCFO") + P("pCFR") + P("pCFE") = One
      /\ P("pASF") \in Int /\ P("pAST") \in Int /\ P("pASF") + P("pAST") = One
      /\ P("pABF") \in Int /\ P("pABW") \in Int /\ P("pABF") + P("pABW") = One
  BY ProbabilityTypes DEF Probability, One
<1> HIDE DEF P
<1>3. /\ Cumulative(s, 1, env) = P(Key(1))
      /\ Cumulative(s, 2, env) = P(Key(1)) + P(Key(2))
      /\ Cumulative(s, 3, env) = P(Key(1)) + P(Key(2)) + P(Key(3))
  BY DEF Cumulative, P
<1>4. CASE s \in Leaves \cup {"END"}
  <2>1. DOMAIN Transitions[s] = 1..1 /\ Key(1) = "p1"
    <3>1. s \in Leaves => Transitions[s] = <<Edge("END", "p1")>>
      BY LeafEdges
    <3>2. s = "END" => Transitions[s] = <<Edge("S", "p1")>>
      BY DEF Transitions
    <3>3. \E to \in {"END", "S"} : Transitions[s] = <<Edge(to, "p1")>>
      BY <1>4, <3>1, <3>2
    <3> QED BY <3>3 DEF Edge
  <2>2. 1 \in 1..3 /\ \A i \in 1..1 : i = 1
    OBVIOUS
  <2>3. One \in Int
    BY DEF One
  <2> HIDE DEF Key
  <2> QED BY <1>1, <1>3, <2>1, <2>2, <2>3
<1>5. CASE s = "S"
  <2>1. Transitions[s] = <<Edge("ALTER", "pA"), Edge("CREATE", "pC"), Edge("DELETE", "pD")>>
    BY <1>5 DEF Transitions
  <2>2. DOMAIN Transitions[s] = 1..3 /\ Key(1) = "pA" /\ Key(2) = "pC" /\ Key(3) = "pD"
    BY <2>1 DEF Edge
  <2>3. \A i \in 1..3 : Cumulative(s, i, env) \in Int
    BY <1>1, <1>3, <2>2
  <2> QED BY <1>1, <1>3, <2>2, <2>3
<1>6. CASE s = "CREATE"
  <2>1. Transitions[s] = <<Edge("CREATE_DIR", "pCD"), Edge("CREATE_FILE", "pCF"),
                           Edge("CREATE_FILE_FALLOCATE", "pCFF")>>
    BY <1>6 DEF Transitions
  <2>2. DOMAIN Transitions[s] = 1..3 /\ Key(1) = "pCD" /\ Key(2) = "pCF" /\ Key(3) = "pCFF"
    BY <2>1 DEF Edge
  <2>3. \A i \in 1..3 : Cumulative(s, i, env) \in Int
    BY <1>1, <1>3, <2>2
  <2> QED BY <1>1, <1>3, <2>2, <2>3
<1>7. CASE s = "ALTER"
  <2>1. Transitions[s] = <<Edge("ALTER_BIGGER", "pAB"), Edge("ALTER_METADATA", "pAM"),
                           Edge("ALTER_SMALLER", "pAS")>>
    BY <1>7 DEF Transitions
  <2>2. DOMAIN Transitions[s] = 1..3 /\ Key(1) = "pAB" /\ Key(2) = "pAM" /\ Key(3) = "pAS"
    BY <2>1 DEF Edge
  <2>3. \A i \in 1..3 : Cumulative(s, i, env) \in Int
    BY <1>1, <1>3, <2>2
  <2> QED BY <1>1, <1>3, <2>2, <2>3
<1>8. CASE s = "DELETE"
  <2>1. Transitions[s] = <<Edge("DELETE_DIR", "pDD"), Edge("DELETE_FILE", "pDF")>>
    BY <1>8 DEF Transitions
  <2>2. DOMAIN Transitions[s] = 1..2 /\ Key(1) = "pDD" /\ Key(2) = "pDF"
    BY <2>1 DEF Edge
  <2>3. 2 \in 1..3 /\ \A i \in 1..2 : Cumulative(s, i, env) \in Int
    BY <1>2, <1>3, <2>2
  <2> QED BY <1>2, <1>3, <2>2, <2>3
<1>9. CASE s = "CREATE_FILE"
  <2>1. Transitions[s] = <<Edge("CREATE_FILE_OVERWRITE", "pCFO"), Edge("CREATE_FILE_READ", "pCFR"),
                           Edge("END", "pCFE")>>
    BY <1>9 DEF Transitions
  <2>2. DOMAIN Transitions[s] = 1..3 /\ Key(1) = "pCFO" /\ Key(2) = "pCFR" /\ Key(3) = "pCFE"
    BY <2>1 DEF Edge
  <2>3. \A i \in 1..3 : Cumulative(s, i, env) \in Int
    BY <1>2, <1>3, <2>2
  <2> QED BY <1>2, <1>3, <2>2, <2>3
<1>10. CASE s = "ALTER_SMALLER"
  <2>1. Transitions[s] = <<Edge("ALTER_SMALLER_FALLOCATE", "pASF"),
                           Edge("ALTER_SMALLER_TRUNCATE", "pAST")>>
    BY <1>10 DEF Transitions
  <2>2. DOMAIN Transitions[s] = 1..2 /\ Key(1) = "pASF" /\ Key(2) = "pAST"
    BY <2>1 DEF Edge
  <2>3. 2 \in 1..3 /\ \A i \in 1..2 : Cumulative(s, i, env) \in Int
    BY <1>2, <1>3, <2>2
  <2> QED BY <1>2, <1>3, <2>2, <2>3
<1>11. CASE s = "ALTER_BIGGER"
  <2>1. Transitions[s] = <<Edge("ALTER_BIGGER_FALLOCATE", "pABF"), Edge("ALTER_BIGGER_WRITE", "pABW")>>
    BY <1>11 DEF Transitions
  <2>2. DOMAIN Transitions[s] = 1..2 /\ Key(1) = "pABF" /\ Key(2) = "pABW"
    BY <2>1 DEF Edge
  <2>3. 2 \in 1..3 /\ \A i \in 1..2 : Cumulative(s, i, env) \in Int
    BY <1>2, <1>3, <2>2
  <2> QED BY <1>2, <1>3, <2>2, <2>3
<1> QED BY <1>4, <1>5, <1>6, <1>7, <1>8, <1>9, <1>10, <1>11, StateNames DEF Branches

\* One edge takes a random value, and no other.
TakesOne(s, r, env) ==
  \E i \in DOMAIN Transitions[s] : \A j \in DOMAIN Transitions[s] : Takes(s, j, r, env) <=> j = i

\* Whatever the tree and the disk are like.
LEMMA OneEdgeTaken ==
  ASSUME NEW s \in States, NEW env \in Environments, NEW r \in 0..One
  PROVE  TakesOne(s, r, env)
<1>1. PICK n \in 1..3 :
        /\ DOMAIN Transitions[s] = 1..n
        /\ \A i \in 1..n : Cumulative(s, i, env) \in Int
        /\ Cumulative(s, n, env) = One
  BY MassIsOne
<1> DEFINE C(i) == Cumulative(s, i, env)
           S == {i \in 1..n : r <= C(i)}
<1>2. r \in Int /\ r <= One /\ One \in Int
  BY DEF One
<1>3. PICK m \in S : \A i \in S : m <= i
  <2>1. S \subseteq Nat /\ n \in S
    BY <1>1, <1>2
  <2> HIDE DEF S
  <2> QED BY <2>1, Least
<1> HIDE DEF C
<1>4. \A j \in 1..n : C(j) \in Int
  BY <1>1 DEF C
<1>5. \A j \in 1..n : (r <= C(j) /\ \A k \in 1..(j - 1) : C(k) < r) <=> j = m
  <2> TAKE j \in 1..n
  <2>1. m \in 1..n /\ r <= C(m)
    BY <1>3
  <2>2. ASSUME NEW k \in 1..n, k < m PROVE C(k) < r
    <3>1. k \notin S
      BY <1>3, <2>1, <2>2
    <3> QED BY <1>2, <1>4, <3>1
  <2>3. CASE j < m
    <3>1. C(j) < r
      BY <2>2, <2>3
    <3> QED BY <1>2, <1>4, <2>1, <2>3, <3>1
  <2>4. CASE j = m
    BY <2>1, <2>2, <2>4
  <2>5. CASE m < j
    <3>1. m \in 1..(j - 1) /\ ~ C(m) < r
      BY <1>2, <1>4, <2>1, <2>5
    <3> QED BY <2>5, <3>1
  <2> QED BY <2>1, <2>3, <2>4, <2>5
<1>6. \A j \in 1..n : Takes(s, j, r, env) <=> j = m
  BY <1>5 DEF Takes, C
<1>7. m \in 1..n
  BY <1>3
<1>8. DOMAIN Transitions[s] = 1..n
  BY <1>1
<1>9. m \in DOMAIN Transitions[s] /\ \A j \in DOMAIN Transitions[s] : Takes(s, j, r, env) <=> j = m
  BY <1>6, <1>7, <1>8
<1> QED BY <1>9 DEF TakesOne

\* compute_probabilities and performTransition find an edge for every value that
\* rand may return: the exception "No transitions from current state" is left to
\* binary rounding (psm.h:35-53).
AnEdgeForEveryValue == \A rap \in BOOLEAN, r \in 0..One : TakesOne(state, r, Env(rap))

THEOREM TransitionsAreTotal == Spec => []AnEdgeForEveryValue
<1>1. Typed => AnEdgeForEveryValue
  <2> SUFFICES ASSUME Typed, NEW rap \in BOOLEAN PROVE Env(rap) \in Environments
    BY OneEdgeTaken DEF AnEdgeForEveryValue, Typed, TypeOK
  <2>1. files \subseteq Files /\ punchable \subseteq Files /\ dirs \in Nat
    BY AgingAssumption DEF Typed, TypeOK
  <2>2. CountIn(Files, mapped) \in Nat
    BY TaggedFinite, AgingAssumption DEF FinitePages, Typed
  <2>3. Available \in Int /\ Available <= Capacity /\ Capacity \in Nat /\ Margin + Block \in Nat
    BY <2>2, ProbabilitiesAssumption, AgingAssumption, BlockAssumption DEF Available
  <2> DEFINE used == IF Available <= Margin + Block THEN Capacity ELSE Capacity - Available
  <2>4. used \in 0..Capacity
    BY <2>3
  <2> HIDE DEF used
  <2>5. Env(rap) = [files |-> files, punchable |-> punchable, dirs |-> dirs, rapid |-> rap, used |-> used]
    BY DEF Env, used
  <2> QED BY <2>1, <2>4, <2>5 DEF Environments
<1>2. Init => Typed
  BY TypedInit
<1>3. Typed /\ [Next]_vars => Typed'
  BY TypedNext
<1> QED BY <1>1, <1>2, <1>3, PTL DEF Spec

\* The random values the model draws are all there are: an edge that some value
\* takes is taken by one of them.
THEOREM RandomValuesSuffice ==
  ASSUME NEW s \in States, NEW env \in Environments, NEW r \in 0..One,
         NEW i \in DOMAIN Transitions[s], Takes(s, i, r, env)
  PROVE  \E x \in RandomValues(s, env) : Takes(s, i, x, env)
<1>1. PICK n \in 1..3 : DOMAIN Transitions[s] = 1..n /\ \A j \in 1..n : Cumulative(s, j, env) \in Int
  BY MassIsOne
<1> DEFINE C(j) == Cumulative(s, j, env)
<1>2. r <= C(i) /\ (\A j \in 1..(i - 1) : C(j) < r) /\ C(i) \in Int /\ \A j \in 1..(i - 1) : C(j) \in Int
  BY <1>1 DEF Takes
<1>3. r \in Int /\ 0 <= r /\ r <= One /\ One \in Int
  BY DEF One
<1> HIDE DEF C
<1>4. CASE C(i) <= One
  <2>1. C(i) \in 0..One
    BY <1>2, <1>3, <1>4
  <2>2. C(i) \in RandomValues(s, env)
    BY <2>1 DEF RandomValues, C
  <2>3. \A j \in 1..(i - 1) : C(j) < C(i)
    BY <1>2, <1>3
  <2>4. C(i) <= C(i)
    BY <1>2
  <2>5. Takes(s, i, C(i), env)
    BY <2>3, <2>4 DEF Takes, C
  <2> QED BY <2>2, <2>5
<1>5. CASE ~ C(i) <= One
  <2>1. One \in RandomValues(s, env)
    BY DEF RandomValues
  <2>2. \A j \in 1..(i - 1) : C(j) < One
    BY <1>2, <1>3
  <2>3. One <= C(i)
    BY <1>2, <1>3, <1>5
  <2>4. Takes(s, i, One, env)
    BY <2>2, <2>3 DEF Takes, C
  <2> QED BY <2>1, <2>4
<1> QED BY <1>4, <1>5
==============================================================================
