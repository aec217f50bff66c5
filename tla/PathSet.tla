------------------------------ MODULE PathSet -------------------------------
(***************************************************************************)
(* What FileTree promises to a caller (include/filestorm/filetree.h): a    *)
(* set of directories and files named by paths, with the errors of the     *)
(* operations on it.  Nothing but the shape of the tree is promised for a  *)
(* path that has an empty part, repeats its last part, or leads through a  *)
(* file.  A mkdir through a file may spoil the path of that file for good: *)
(* nothing is promised of it or below it any more, even when the file is   *)
(* gone, nor of removing what it is in.  Nothing else spoils a path.       *)
(***************************************************************************)
EXTENDS Naturals, Sequences

CONSTANT Empty    \* the empty part of a path

VARIABLES nodes,  \* the type of every path of the tree
          spoilt, \* the paths of which nothing is promised any more
          call    \* the last call and its reply

vars == <<nodes, spoilt, call>>

Prefix(p, i) == SubSeq(p, 1, i)
Parent(p) == Prefix(p, Len(p) - 1)
Above(p) == {Prefix(p, i) : i \in 1..(Len(p) - 1)}
Within(n, p) == {q \in DOMAIN n : p \in Above(q) \cup {q}}
With(n, P, type) == [q \in DOMAIN n \cup P |-> IF q \in P THEN type ELSE n[q]]
Without(n, P) == [q \in DOMAIN n \ P |-> n[q]]

IsTree(n) == \A p \in DOMAIN n : Len(p) > 0 /\ \A q \in Above(p) : q \in DOMAIN n /\ n[q] = "DIRECTORY"

Plain(p) ==
  /\ \A i \in DOMAIN p : p[i] # Empty
  /\ \A i \in 1..(Len(p) - 1) : p[i] # p[Len(p)]
  /\ \A q \in Above(p) : q \in DOMAIN nodes => nodes[q] = "DIRECTORY"
  /\ (Above(p) \cup {p}) \cap spoilt = {}

\* What is promised: operations on plain paths, removals only of what has no
\* spoilt path in it.
Covered(op, p) ==
  Plain(p) /\ (op \in {"rm", "rm -r"} => \A q \in spoilt : p \notin Above(q))

Exists(p) == p \in DOMAIN nodes
HasParent(p) == Len(p) = 1 \/ Exists(Parent(p))

Init ==
  /\ nodes = [p \in {} |-> "FILE"] /\ spoilt = {}
  /\ call = [op |-> "none", path |-> <<>>, result |-> "ok"]

Replies(op, p, result) == call' = [op |-> op, path |-> p, result |-> result]
Refuses(op, p) == Replies(op, p, "threw") /\ UNCHANGED nodes

\* mkdir, alone or with the directories above.
Mkdir(p) ==
  IF ~ Exists(p) /\ HasParent(p)
  THEN nodes' = With(nodes, {p}, "DIRECTORY") /\ Replies("mkdir", p, "ok")
  ELSE Refuses("mkdir", p)

MkdirAll(p) ==
  IF ~ Exists(p)
  THEN /\ nodes' = With(nodes, (Above(p) \cup {p}) \ DOMAIN nodes, "DIRECTORY")
       /\ Replies("mkdir -p", p, "ok")
  ELSE Refuses("mkdir -p", p)

Mkfile(p) ==
  IF ~ Exists(p) /\ HasParent(p)
  THEN nodes' = With(nodes, {p}, "FILE") /\ Replies("mkfile", p, "ok")
  ELSE Refuses("mkfile", p)

\* getNode finds the node of the path and no other.
GetNode(p) ==
  UNCHANGED nodes /\ Replies("getNode", p, IF Exists(p) THEN nodes[p] ELSE "threw")

\* rm of a file or an empty directory, and of whatever there is.
Rm(p) ==
  IF Exists(p) /\ Within(nodes, p) = {p}
  THEN nodes' = Without(nodes, {p}) /\ Replies("rm", p, "ok")
  ELSE Refuses("rm", p)

RmAll(p) == nodes' = Without(nodes, Within(nodes, p)) /\ Replies("rm -r", p, "ok")

Promised(p) ==
  /\ Covered(call'.op, p) /\ UNCHANGED spoilt
  /\ Mkdir(p) \/ MkdirAll(p) \/ Mkfile(p) \/ GetNode(p) \/ Rm(p) \/ RmAll(p)

\* A path that becomes spoilt is that of a file on the way of a mkdir.
Spoils(p, q) ==
  call'.op \in {"mkdir", "mkdir -p"} /\ q \in Above(p) /\ q \in DOMAIN nodes /\ nodes[q] = "FILE"

Unpromised(p) ==
  /\ ~ Covered(call'.op, p) /\ IsTree(nodes')
  /\ spoilt \subseteq spoilt' /\ \A q \in spoilt' \ spoilt : Spoils(p, q)

\* A caller may use any path.
Next == Promised(call'.path) \/ Unpromised(call'.path)

Spec == Init /\ [][Next]_vars
=============================================================================
