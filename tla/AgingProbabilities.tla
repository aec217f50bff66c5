------------------------- MODULE AgingProbabilities -------------------------
(***************************************************************************)
(* The probabilistic state machine of the aging scenario: its transition   *)
(* table (source/scenarios/aging.cpp, lines 85-115), the probabilities     *)
(* compute_probabilities gives to the table's keys (lines 694-766) and the *)
(* choice ProbabilisticStateMachine::performTransition makes               *)
(* (include/filestorm/utils/psm.h, lines 29-47).  Probabilities are exact  *)
(* multiples of 1/One: the program floors the capacity awareness factor    *)
(* to three decimals, and every other probability is a tenth or a          *)
(* complement of it.  Operators marked "Fault:" are not part of the model; *)
(* the mutation runs put them in place of the operator that follows.       *)
(***************************************************************************)
EXTENDS Integers, Sequences

CONSTANTS Capacity,    \* size of the filesystem
          NDirs,       \* the "ndirs" parameter
          PunchHole    \* the "features-punch-hole" parameter

ASSUME ProbabilitiesAssumption ==
  /\ Capacity \in Nat \ {0}
  /\ NDirs \in Nat \ {0}
  /\ PunchHole \in BOOLEAN

One == 10000

\* The edges out of every state, in the order in which performTransition
\* meets them: std::map iterates over its keys ("S->ALTER") alphabetically.
Edge(to, key) == [to |-> to, key |-> key]

Transitions == [
  S                      |-> <<Edge("ALTER", "pA"), Edge("CREATE", "pC"), Edge("DELETE", "pD")>>,
  CREATE                 |-> <<Edge("CREATE_DIR", "pCD"), Edge("CREATE_FILE", "pCF"),
                               Edge("CREATE_FILE_FALLOCATE", "pCFF")>>,
  ALTER                  |-> <<Edge("ALTER_BIGGER", "pAB"), Edge("ALTER_METADATA", "pAM"),
                               Edge("ALTER_SMALLER", "pAS")>>,
  DELETE                 |-> <<Edge("DELETE_DIR", "pDD"), Edge("DELETE_FILE", "pDF")>>,
  CREATE_FILE            |-> <<Edge("CREATE_FILE_OVERWRITE", "pCFO"), Edge("CREATE_FILE_READ", "pCFR"),
                               Edge("END", "pCFE")>>,
  ALTER_SMALLER          |-> <<Edge("ALTER_SMALLER_FALLOCATE", "pASF"),
                               Edge("ALTER_SMALLER_TRUNCATE", "pAST")>>,
  ALTER_BIGGER           |-> <<Edge("ALTER_BIGGER_FALLOCATE", "pABF"), Edge("ALTER_BIGGER_WRITE", "pABW")>>,
  CREATE_FILE_FALLOCATE  |-> <<Edge("END", "p1")>>,
  CREATE_FILE_OVERWRITE  |-> <<Edge("END", "p1")>>,
  CREATE_FILE_READ       |-> <<Edge("END", "p1")>>,
  CREATE_DIR             |-> <<Edge("END", "p1")>>,
  ALTER_SMALLER_TRUNCATE |-> <<Edge("END", "p1")>>,
  ALTER_SMALLER_FALLOCATE |-> <<Edge("END", "p1")>>,
  ALTER_BIGGER_WRITE     |-> <<Edge("END", "p1")>>,
  ALTER_BIGGER_FALLOCATE |-> <<Edge("END", "p1")>>,
  ALTER_METADATA         |-> <<Edge("END", "p1")>>,
  DELETE_FILE            |-> <<Edge("END", "p1")>>,
  DELETE_DIR             |-> <<Edge("END", "p1")>>,
  END                    |-> <<Edge("S", "p1")>>]

States == DOMAIN Transitions

\* floorTo(CAF(used / capacity), 3), in thousandths: the largest c with
\* c / 1000 <= sqrt(1 - (used / capacity)^2).  Tabulated once for every fill.
CafTable ==
  [used \in 0..Capacity |->
     CHOOSE c \in 0..1000 :
       LET Below(x) == x * x * Capacity * Capacity
                         <= 1000 * 1000 * (Capacity * Capacity - used * used)
       IN  Below(c) /\ ~ Below(c + 1)]

\* What compute_probabilities looks at: the used space (all of it when no
\* more than the safe margin and a block is available), whether the tree has
\* files and punchable files, its directory count and the rapid-aging flag.
\* Fault: the empty tree is no special case.
CafOfDisk(env) == CafTable[env.used]
Caf(env) == IF env.files = {} THEN 1000 ELSE CafTable[env.used]

pC(env) == 10 * Caf(env)
pD(env) == 1000 - Caf(env)
pA(env) == One - pC(env) - pD(env)
pAM     == 1000
pAB(env) == pC(env) - pAM
pAS(env) == One - pAM - pAB(env)
pAST(env) == IF PunchHole /\ env.punchable # {} THEN 1000 ELSE One
\* Fault: files are created one directory too early.
DirsFullEarly(env) == One * ((env.dirs + 1) \div NDirs)
\* Fault: files are never created.
DirsNeverFull(env) == 0
DirsFull(env) == One * (env.dirs \div NDirs)
pCF(env)  == IF env.rapid THEN 0 ELSE DirsFull(env)
pCFF(env) == IF env.rapid THEN DirsFull(env) ELSE 0
pABF(env) == IF env.rapid THEN One ELSE 0

Probability(key, env) ==
  CASE key = "pC"   -> pC(env)
    [] key = "pA"   -> pA(env)
    [] key = "pD"   -> pD(env)
    [] key = "pAM"  -> pAM
    [] key = "pAB"  -> pAB(env)
    [] key = "pAS"  -> pAS(env)
    [] key = "pABF" -> pABF(env)
    [] key = "pABW" -> One - pABF(env)
    [] key = "pAST" -> pAST(env)
    [] key = "pASF" -> One - pAST(env)
    [] key = "pDD"  -> 100
    [] key = "pDF"  -> One - 100
    [] key = "pCF"  -> pCF(env)
    [] key = "pCFF" -> pCFF(env)
    [] key = "pCD"  -> One - pCF(env) - pCFF(env)
    [] key = "pCFO" -> 3000
    [] key = "pCFR" -> 3000
    [] key = "pCFE" -> One - 3000 - 3000
    [] key = "p1"   -> One

\* performTransition: the first edge whose cumulative probability is not
\* below the random value r is taken.
Cumulative(from, i, env) ==
  LET P(j) == Probability(Transitions[from][j].key, env)
  IN  IF i = 1 THEN P(1) ELSE IF i = 2 THEN P(1) + P(2) ELSE P(1) + P(2) + P(3)

Takes(from, i, r, env) ==
  /\ r <= Cumulative(from, i, env)
  /\ \A j \in 1..(i - 1) : Cumulative(from, j, env) < r

\* rand() / RAND_MAX is any value of the closed interval from 0 to One.  Its
\* two ends and the cumulative values tell all the choices apart.
RandomValues(from, env) ==
  {0, One} \cup ({Cumulative(from, i, env) : i \in DOMAIN Transitions[from]} \cap (0..One))
=============================================================================
