------------------------------ MODULE FileTree ------------------------------
(***************************************************************************)
(* FileTree (source/filetree.cpp): the nodes and the lists and counters    *)
(* kept beside them, for two kinds of users.  "api" calls any operation    *)
(* with any path, as the tests do.  "scenario" is the aging scenario:      *)
(* paths it makes up itself, each operation repeated on the disk, and at   *)
(* the end the clean-up (source/scenarios/aging.cpp, lines 684-688).       *)
(*                                                                         *)
(* A path is the sequence of its parts after strip and split; a node is    *)
(* named by its path from the root, <<>>.  Operators marked "Fault:" are   *)
(* not part of the model; the mutation runs put them in place of the       *)
(* operator that follows.                                                  *)
(***************************************************************************)
EXTENDS Integers, SequencesExt

CONSTANTS Paths,    \* the paths "api" uses
          Empty,    \* the empty part that split finds between two slashes
          MaxDepth, \* the "depth" parameter
          MaxIds    \* bound: names "scenario" makes up, of each kind

ASSUME TreeAssumption ==
  /\ MaxDepth \in Nat \ {0} /\ MaxIds \in Nat
  /\ \A p \in Paths : p \in Seq(ToSet(p)) /\ p # <<>>
  /\ \A n \in 0..MaxIds : <<"dir", n>> # Empty /\ <<"file", n>> # Empty

VARIABLES
  user,                \* who uses the tree
  outcome,             \* "running", "cleaning", "finished", "crash" or "threw"
  nodes,               \* the type of every node but the root
  nulls,               \* the paths at which a folder is a null pointer
  all_directories, all_files, files_for_fallocate,
  directory_count, file_count, directory_id, file_id,
  call,                \* the last call of "api", and its reply
  disk,                \* the type of every entry of the test directory
  walk                 \* the clean-up: the directory whose call of bottomUpDirWalk
                       \* runs, and those whose call has not returned

listVars == <<all_directories, all_files, files_for_fallocate, directory_count, file_count>>
treeVars == <<nodes, nulls, listVars>>
idVars   == <<directory_id, file_id>>
diskVars == <<disk, walk>>
vars == <<user, outcome, treeVars, idVars, call, diskVars>>

Nothing == [p \in {} |-> "FILE"]

Init ==
  /\ user \in {"api", "scenario"} /\ outcome = "running"
  /\ nodes = Nothing /\ nulls = {} /\ disk = Nothing /\ walk = [at |-> <<>>, left |-> {}]
  /\ all_directories = <<>> /\ all_files = <<>> /\ files_for_fallocate = <<>>
  /\ directory_count = 0 /\ file_count = 0 /\ directory_id = 0 /\ file_id = 0
  /\ call = [op |-> "none", path |-> <<>>, result |-> "ok"]

-----------------------------------------------------------------------------
Prefix(p, i) == SubSeq(p, 1, i)
Parent(p) == Prefix(p, Len(p) - 1)
With(n, P, type) == [q \in DOMAIN n \cup P |-> IF q \in P THEN type ELSE n[q]]
Without(n, P) == [q \in DOMAIN n \ P |-> n[q]]

Is(p, type) == p \in DOMAIN nodes /\ nodes[p] = type
Exists(p) == p \in DOMAIN nodes
Found(p)  == Exists(p) \/ p \in nulls
Folders(p) == {q \in DOMAIN nodes : nodes[q] = "DIRECTORY" /\ Len(q) = Len(p) + 1 /\ IsPrefix(p, q)}
Subtree(p) == {q \in DOMAIN nodes : IsPrefix(p, q)}
NullsIn(p) == {q \in nulls : IsStrictPrefix(p, q)}

\* The parts of a path are walked one by one until one of those in H ends the
\* walk; Len(p) + 1 when none does.
FirstHalt(p, H) ==
  CHOOSE i \in 1..(Len(p) + 1) : (i \in H \/ i = Len(p) + 1) /\ \A j \in 1..(i - 1) : j \notin H

\* part == pathParts.back(), a comparison of values.
IsBack(p, i) == p[i] = p[Len(p)]

\* addDirectory for every path of the sequence new, and addFile.
AddDirectories(new) ==
  /\ nodes' = With(nodes, ToSet(new), "DIRECTORY")
  /\ all_directories' = all_directories \o new
  /\ directory_count' = directory_count + Len(new)
  /\ UNCHANGED <<all_files, files_for_fallocate, file_count>>

AddFile(p) ==
  /\ nodes' = With(nodes, {p}, "FILE")
  /\ all_files' = Append(all_files, p)
  /\ files_for_fallocate' = Append(files_for_fallocate, p)
  /\ file_count' = file_count + 1
  /\ UNCHANGED <<nulls, all_directories, directory_count>>

\* s without the elements in P, in their order.
Erase(s, P) ==
  LET kept[n \in Nat] == IF n = 0 THEN <<>>
                         ELSE IF s[n] \in P THEN kept[n - 1] ELSE Append(kept[n - 1], s[n])
  IN  kept[Len(s)]

\* remove: the node and all below it leave the tree and every list.
\* Fault: only the node itself leaves the lists.
NodeAlone(p) == {p}
Removed(p) == Subtree(p)

OfType(P, type) == {q \in P : nodes[q] = type}

RemoveNode(p) ==
  /\ nodes' = Without(nodes, Subtree(p))
  /\ all_directories' = Erase(all_directories, Removed(p))
  /\ all_files' = Erase(all_files, Removed(p))
  /\ files_for_fallocate' = Erase(files_for_fallocate, Removed(p))
  /\ directory_count' = directory_count - Cardinality(OfType(Removed(p), "DIRECTORY"))
  /\ file_count' = file_count - Cardinality(OfType(Removed(p), "FILE"))
  /\ UNCHANGED nulls

-----------------------------------------------------------------------------
\* How a call ends: well (getNode with the type of what it found, or "null"), with
\* an exception, or by using a null pointer, which ends the program.
Reply(op, p, result) == call' = [op |-> op, path |-> p, result |-> result]

\* Once a null pointer has been entered, the next part is looked at first: an
\* empty one is an exception, any other is looked up in what is not there.
AfterNull(p, i) == IF i < Len(p) /\ p[i + 1] # Empty THEN "crash" ELSE "threw"

\* mkdir: what exists is entered, what does not is created if it is the last
\* part or the call is recursive.
MkdirHalts(p, i, recursively) ==
  \/ p[i] = Empty
  \/ ~ Found(Prefix(p, i)) /\ ~ recursively /\ ~ IsBack(p, i)
  \/ Found(Prefix(p, i)) /\ (IsBack(p, i) \/ ~ Is(Prefix(p, i), "DIRECTORY"))

\* Entering a file finds no folder of that name; folders[part] makes one that is
\* a null pointer, beside the file.  It is found the next time.
EntersNull(p, i) ==
  /\ p[i] # Empty /\ ~ IsBack(p, i)
  /\ Found(Prefix(p, i)) /\ ~ Is(Prefix(p, i), "DIRECTORY")

Mkdir(op, p, recursively) ==
  LET i == FirstHalt(p, {j \in DOMAIN p : MkdirHalts(p, j, recursively)})
  IN /\ AddDirectories(Erase([j \in 1..(i - 1) |-> Prefix(p, j)], DOMAIN nodes))
     /\ \/ i = Len(p) + 1 /\ UNCHANGED nulls /\ Reply(op, p, "ok")
        \/ i <= Len(p) /\ EntersNull(p, i) /\ nulls' = nulls \cup {Prefix(p, i)}
           /\ Reply(op, p, AfterNull(p, i))
        \/ i <= Len(p) /\ ~ EntersNull(p, i) /\ UNCHANGED nulls /\ Reply(op, p, "threw")

\* mkfile and getNode enter folders; the part that is none ends the walk.
FirstNoFolder(p) == FirstHalt(p, {i \in DOMAIN p : p[i] = Empty \/ ~ Is(Prefix(p, i), "DIRECTORY")})

\* Fault: any part will do.
AnyPart(p, i) == i <= Len(p) /\ p[i] # Empty
EndsAt(p, i) == i <= Len(p) /\ p[i] # Empty /\ IsBack(p, i)

NullAt(p, i) == i <= Len(p) /\ p[i] # Empty /\ Prefix(p, i) \in nulls

\* mkfile creates a file where the walk ends if that is the last part; it enters
\* a null folder even there.
Mkfile(p) ==
  LET i == FirstNoFolder(p) IN
  \/ NullAt(p, i) /\ UNCHANGED treeVars /\ Reply("mkfile", p, AfterNull(p, i))
  \/ /\ ~ NullAt(p, i) /\ EndsAt(p, i) /\ ~ Exists(Prefix(p, i))
     /\ AddFile(Prefix(p, i)) /\ Reply("mkfile", p, "ok")
  \/ /\ ~ NullAt(p, i) /\ ~ (EndsAt(p, i) /\ ~ Exists(Prefix(p, i)))
     /\ UNCHANGED treeVars /\ Reply("mkfile", p, "threw")

\* getNode: no node, or the one that was found.  A file is looked for before a
\* folder; a null folder that is the last part is returned.
NodesOf(p) ==
  LET i == FirstNoFolder(p) IN
  IF i > Len(p) THEN {p}
  ELSE {q \in {Prefix(p, i)} : EndsAt(p, i) /\ Is(q, "FILE")}

Missing(p) ==
  LET i == FirstNoFolder(p) IN
  IF ~ NullAt(p, i) \/ Is(Prefix(p, i), "FILE") THEN "threw"
  ELSE IF i = Len(p) THEN "null" ELSE AfterNull(p, i)

GetNode(p) ==
  /\ UNCHANGED treeVars
  /\ \/ \E q \in NodesOf(p) : Reply("getNode", p, nodes[q])
     \/ NodesOf(p) = {} /\ Reply("getNode", p, Missing(p))

\* rm of a file or an empty directory; recursively of anything, and then a path
\* that leads nowhere is no error.  A null pointer is used, here or when remove
\* comes to it.
IsEmpty(q) == Subtree(q) = {q} /\ NullsIn(q) = {}

Rm(op, p, recursively) ==
  \/ \E q \in NodesOf(p) :
       /\ IF recursively THEN NullsIn(q) = {} ELSE IsEmpty(q)
       /\ RemoveNode(q) /\ Reply(op, p, "ok")
  \/ /\ \E q \in NodesOf(p) : IF recursively THEN NullsIn(q) # {} ELSE ~ IsEmpty(q)
     /\ UNCHANGED treeVars /\ Reply(op, p, IF recursively THEN "crash" ELSE "threw")
  \/ /\ NodesOf(p) = {} /\ UNCHANGED treeVars
     /\ Reply(op, p, IF Missing(p) # "threw" THEN "crash"
                     ELSE IF recursively THEN "ok" ELSE "threw")

\* A call of "api", which catches exceptions.
Api ==
  /\ user = "api" /\ outcome = "running"
  /\ \E p \in Paths :
       \/ Mkdir("mkdir", p, FALSE) \/ Mkdir("mkdir -p", p, TRUE)
       \/ Mkfile(p) \/ GetNode(p)
       \/ Rm("rm", p, FALSE) \/ Rm("rm -r", p, TRUE)
  /\ outcome' = IF call'.result = "crash" THEN "crash" ELSE outcome
  /\ UNCHANGED <<user, idVars, diskVars>>

-----------------------------------------------------------------------------
\* newDirectoryPath and newFilePath walk down from the root as many folders as
\* was drawn, or until there is none.
DrawnDepths == 0..(MaxDepth - 1)
Reached ==
  {p \in OfType(DOMAIN nodes, "DIRECTORY") \cup {<<>>} :
     Len(p) \in DrawnDepths \/ (Folders(p) = {} /\ \E d \in DrawnDepths : Len(p) < d)}

\* Names are numbered.  Fault: with the number of files there are.
CountedName == <<"file", file_count>>
FileName == <<"file", file_id>>
DirName  == <<"dir", directory_id>>

\* An exception ends the scenario; after a call that succeeded the same is done
\* to the disk.
ThenDisk(next) ==
  \/ call'.result = "ok" /\ disk' = next /\ UNCHANGED outcome
  \/ call'.result # "ok" /\ outcome' = call'.result /\ UNCHANGED disk

Running == user = "scenario" /\ outcome = "running"

CreateDir ==
  /\ Running /\ directory_id < MaxIds
  /\ directory_id' = directory_id + 1
  /\ \E p \in Reached :
       /\ Mkdir("mkdir", Append(p, DirName), FALSE)
       /\ ThenDisk(With(disk, {Append(p, DirName)}, "DIRECTORY"))
  /\ UNCHANGED <<user, file_id, walk>>

CreateFile ==
  /\ Running /\ file_id < MaxIds
  /\ file_id' = file_id + 1
  /\ \E p \in Reached :
       /\ Mkfile(Append(p, FileName))
       /\ ThenDisk(With(disk, {Append(p, FileName)}, "FILE"))
  /\ UNCHANGED <<user, directory_id, walk>>

\* DELETE_FILE: from the disk, then from the tree by its path.
DeleteFile ==
  /\ Running
  /\ \E f \in ToSet(all_files) :
       Rm("rm", f, FALSE) /\ ThenDisk(Without(disk, {f}))
  /\ UNCHANGED <<user, idVars, walk>>

\* removeFromPunchableFiles.
LeavePunchList ==
  /\ Running
  /\ \E f \in ToSet(files_for_fallocate) :
       files_for_fallocate' = Erase(files_for_fallocate, {f})
  /\ UNCHANGED <<user, outcome, nodes, nulls, all_directories, all_files, directory_count,
                 file_count, idVars, call, diskVars>>

\* bottomUpDirWalk calls itself for each folder of the directory it is at, in
\* the order of their names (here any), then removes the directory it is at,
\* but for the root, and returns to the parent.
\* Fault: a directory is removed before the folders in it.
TopDown(p) == TRUE
FoldersDone(p) == Folders(p) \cap walk.left = {}

\* The scenario is over: the files of the tree are removed from the disk, then
\* its directories by a walk that starts at the root.
CleanUp ==
  /\ Running /\ outcome' = "cleaning"
  /\ disk' = Without(disk, ToSet(all_files))
  /\ walk' = [at |-> <<>>, left |-> OfType(DOMAIN nodes, "DIRECTORY")]
  /\ UNCHANGED <<user, treeVars, idVars, call>>

EnterDir ==
  /\ outcome = "cleaning"
  /\ \E p \in Folders(walk.at) \cap walk.left : walk' = [walk EXCEPT !.at = p]
  /\ UNCHANGED <<user, outcome, treeVars, idVars, call, disk>>

\* A directory that is not empty is an exception.
RemoveDir ==
  /\ outcome = "cleaning" /\ walk.at # <<>> /\ FoldersDone(walk.at)
  /\ walk' = [at |-> Parent(walk.at), left |-> walk.left \ {walk.at}]
  /\ IF \E q \in DOMAIN disk : IsStrictPrefix(walk.at, q)
     THEN outcome' = "threw" /\ UNCHANGED disk
     ELSE disk' = Without(disk, {walk.at}) /\ UNCHANGED outcome
  /\ UNCHANGED <<user, treeVars, idVars, call>>

CleanedUp ==
  /\ outcome = "cleaning" /\ walk.at = <<>> /\ FoldersDone(walk.at) /\ outcome' = "finished"
  /\ UNCHANGED <<user, treeVars, idVars, call, diskVars>>

Next ==
  \/ Api
  \/ CreateDir \/ CreateFile \/ DeleteFile \/ LeavePunchList
  \/ CleanUp \/ EnterDir \/ RemoveDir \/ CleanedUp

Spec == Init /\ [][Next]_vars

-----------------------------------------------------------------------------
\* Every directory and every file is listed once, and only files that are there
\* can be punched.
ListsMatchTree ==
  /\ ToSet(all_directories) = OfType(DOMAIN nodes, "DIRECTORY") /\ IsInjective(all_directories)
  /\ ToSet(all_files) = OfType(DOMAIN nodes, "FILE") /\ IsInjective(all_files)
  /\ ToSet(files_for_fallocate) \subseteq ToSet(all_files) /\ IsInjective(files_for_fallocate)
  /\ directory_count = Len(all_directories) /\ file_count = Len(all_files)

\* The lists and counters say what the tree says, and a null folder, which mkdir
\* leaves when it throws behind a file, is in no list of directories
\* (filetree.cpp:22-24, 35-38, 65-80, 106).
ListsAgree == ListsMatchTree /\ nulls \cap ToSet(all_directories) = {}

\* No path the scenario makes up is refused or misunderstood, whatever was
\* deleted before; it leaves no null pointer; tree and disk stay the same, and no
\* path is longer than the "Max directory depth" (a file in a directory of that
\* depth included).
ScenarioPathsWork ==
  user = "scenario" =>
    /\ outcome \notin {"threw", "crash"} /\ nulls = {}
    /\ outcome = "running" => disk = nodes
    /\ \A p \in DOMAIN nodes : Len(p) <= MaxDepth

\* The clean-up leaves nothing behind, because it comes to a directory only
\* after those in it are gone.
CleanedUpEmpties ==
  /\ outcome = "finished" => disk = Nothing
  /\ user = "scenario" => outcome # "threw"

\* The tree keeps the promise PathSet makes for plain paths, as long as no mkdir
\* through a file has spoilt them, and stays a tree for all others.
Promise == INSTANCE PathSet WITH spoilt <- nulls
ImplementsPathSet == Promise!Spec
=============================================================================
