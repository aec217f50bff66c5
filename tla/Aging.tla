------------------------------- MODULE Aging --------------------------------
(***************************************************************************)
(* The aging scenario (source/scenarios/aging.cpp, AgingScenario::run): a  *)
(* probabilistic state machine drives file operations on one directory,    *)
(* and the in-memory FileTree (filetree.h, filetree.cpp) keeps for every   *)
(* file its hole counter, its last extent scan and whether it may be       *)
(* punched.  One action is one iteration of the while loop of run: the     *)
(* rapid-aging update, compute_probabilities, performTransition and the    *)
(* whole handler of the state that was entered.                            *)
(*                                                                         *)
(* Sizes and addresses are in filesystem blocks ("pages").  The filesystem *)
(* is external: a file has a size and a set of mapped pages, and a maximal *)
(* run of mapped pages is one extent.  Writes go through the sync engine.  *)
(* Operators marked "Fault:" are not part of the model; the mutation runs  *)
(* put them in place of the operator that follows.                         *)
(***************************************************************************)
EXTENDS AgingProbabilities, HoleGeometry, FiniteSets

CONSTANTS Files,          \* the names newFilePath can make up (bounds the live files)
          NoFile,         \* the path of a result that names no file
          MaxDirs,        \* bound: directories ever created
          MinSize, MaxSize, \* the "minfsize" and "maxfsize" parameters
          Align,          \* alignment of ALTER_BIGGER_WRITE (4096 bytes)
          OtherData,      \* pages of the filesystem that do not belong to the run
          Margin,         \* the "settings-safe-margin" parameter
          Overhead,       \* pages of metadata an operation may need besides its data
          SizeTop,        \* the largest uint64_t
          RapidAging,     \* the "rapid-aging" parameter
          RapidMaxExtents, \* the "rapid-aging-max-extents" parameter
          Iterations,     \* the "iterations" parameter; Timed when it is -1
          Cleanup         \* the "cleanup" parameter

ASSUME AgingAssumption ==
  /\ IsFiniteSet(Files) /\ NoFile \notin Files
  /\ OtherData \in 0..Capacity
  /\ MaxDirs \in Nat /\ Margin \in Nat /\ Overhead \in Nat
  /\ MinSize \in Nat /\ MaxSize \in Nat /\ MinSize <= MaxSize
  /\ Align \in Nat \ {0}
  /\ SizeTop \in Nat /\ MaxSize <= SizeTop
  /\ Iterations \in Int
  /\ RapidMaxExtents \in Nat
  /\ {RapidAging, Cleanup} \subseteq BOOLEAN

VARIABLES
  state,     \* the state machine's current state
  outcome,   \* "running", "finished", or why the run died
  iteration, \* finished cycles (not counted in timed runs, where it decides nothing)
  rapid,     \* AgingScenario::rapid_aging
  dirs,      \* FileTree::directory_count
  files,     \* FileTree::all_files
  punchable, \* FileTree::files_for_fallocate
  count,     \* per file: Node::fallocated_count
  cached,    \* per file: Node::_extents, the extents found by the last scan
  total,     \* FileTree::total_extents_count
  touched,   \* touched_files of this cycle
  result,    \* the Result that END will commit
  onDisk,    \* the files of the test directory
  size,      \* per file: its size on disk
  mapped,    \* per file: its mapped pages
  zeroDraw   \* ghost: an edge of probability zero (or less) has been taken

treeVars  == <<dirs, files, punchable, count, cached, total>>
diskVars  == <<onDisk, size, mapped>>
cycleVars == <<touched, result, iteration>>
vars == <<state, outcome, rapid, zeroDraw, treeVars, diskVars, cycleVars>>

Timed == Iterations = -1

\* What Result() leaves: the first action of the enumeration.  The first
\* result of a run is declared without an initializer, and its action is
\* whatever its memory held.
ZeroResult  == [action |-> "DELETE_FILE", path |-> NoFile, size |-> 0]
FirstResult == [action |-> "uninitialized", path |-> NoFile, size |-> 0]

Init ==
  /\ state = "S" /\ outcome = "running" /\ iteration = 0
  /\ rapid = RapidAging
  /\ dirs = 0 /\ files = {} /\ punchable = {} /\ total = 0
  /\ count = [f \in Files |-> 0]
  /\ cached = [f \in Files |-> {}]
  /\ touched = <<>> /\ result = FirstResult
  /\ onDisk = {}
  /\ size = [f \in Files |-> 0]
  /\ mapped = [f \in Files |-> {}]
  /\ zeroDraw = FALSE

-----------------------------------------------------------------------------
\* The filesystem: pages in use, extents of a file.
Tagged(F, pages) == UNION {{f} \X pages[f] : f \in F}
CountIn(F, pages) == Cardinality(Tagged(F, pages))

Available == Capacity - OtherData - CountIn(Files, mapped)

Extents(pages) == {p \in pages : p + 1 \notin pages}
Scan(F) == [f \in Files |-> IF f \in F THEN Extents(mapped[f]) ELSE cached[f]]

Span(from, to) == from..(to - 1)

Larger(x, y) == IF x >= y THEN x ELSE y

\* The free pages an operation finds: metadata may hold some of them back.
Rooms == {Larger(Available - held, 0) : held \in 0..Overhead}

\* A sequence of writes from page from on gets as far as page r when it wants
\* to reach page to: the free pages may run out before.
GetsTo(f, from, to, r) ==
  LET Missing(end) == Cardinality(Span(from, end) \ mapped[f])
  IN  \E room \in Rooms : /\ Missing(r) <= room
                          /\ r = to \/ Missing(r + 1) > room

-----------------------------------------------------------------------------
\* get_file_size.  uniform_int_distribution wants from <= to; otherwise the
\* 64-bit range wraps around and the value is from one of its two ends.
Draw(from, to) == IF from <= to THEN from..to ELSE (0..to) \cup (from..SizeTop)

\* Fault: the margin is not subtracted.
NoMargin == Available
SafeAvailable == IF Available > Margin THEN Available - Margin ELSE 0
SafeSize(d) == IF d > SafeAvailable THEN BlockDown(SafeAvailable) ELSE d
FileSizes(from, to) == {SafeSize(d) : d \in Draw(from, to)}

BlockUp(x) == BlockDown(x + Block - 1)
AlignDown(x) == x - (x % Align)
Wrap(x) == x % (SizeTop + 1)   \* uint64_t arithmetic of DataSize

-----------------------------------------------------------------------------
\* The head of an iteration: the loop condition, the rapid-aging update (the
\* clock and the fitted extent curve may switch it off at any time), the
\* probabilities and the transition to state to.
Env(rap) ==
  [files |-> files, punchable |-> punchable, dirs |-> dirs, rapid |-> rap,
   used |-> IF Available <= Margin + Block THEN Capacity ELSE Capacity - Available]

RapidNext == IF rapid /\ total <= RapidMaxExtents THEN BOOLEAN ELSE {FALSE}

Move(to) ==
  /\ outcome = "running"
  /\ Timed \/ iteration < Iterations
  /\ \E rap \in RapidNext : \E i \in DOMAIN Transitions[state] :
       LET edge == Transitions[state][i] IN
       /\ edge.to = to
       /\ \E r \in RandomValues(state, Env(rap)) : Takes(state, i, r, Env(rap))
       /\ rapid' = rap
       /\ zeroDraw' = (zeroDraw \/ Probability(edge.key, Env(rap)) <= 0)
  /\ state' = to

\* An exception (or a failed assertion) ends the program.
Abort(reason) ==
  outcome' = reason /\ UNCHANGED <<treeVars, diskVars, cycleVars>>

Record(action, f, bytes) == result' = [action |-> action, path |-> f, size |-> bytes]

\* Fault: no touched_files.push_back.
TouchForgotten(f) == touched' = touched
Touch(f) == touched' = Append(touched, f)

-----------------------------------------------------------------------------
\* S, CREATE, ALTER, DELETE, ALTER_SMALLER, ALTER_BIGGER and ALTER_METADATA
\* have handlers that change nothing.  A file is created only while a name is
\* left (bound: Files).
Enter(to) ==
  /\ to = "CREATE" => files # Files
  /\ Move(to)
  /\ UNCHANGED <<outcome, treeVars, diskVars, cycleVars>>

\* addFile, and the file's first bytes on disk.
NewFile(f, bytes, pages) ==
  /\ files' = files \cup {f}
  /\ punchable' = punchable \cup {f}
  /\ count' = [count EXCEPT ![f] = 0]
  /\ cached' = [cached EXCEPT ![f] = {}]
  /\ onDisk' = onDisk \cup {f}
  /\ size' = [size EXCEPT ![f] = bytes]
  /\ mapped' = [mapped EXCEPT ![f] = pages]
  /\ Touch(f)
  /\ UNCHANGED <<dirs, total>>

\* The write loop of CREATE_FILE and CREATE_FILE_OVERWRITE: whole blocks until
\* the wanted size is reached, a short write counting as a block; only a write
\* that finds no room at all is an error.
BlocksReach(f, want, end) == GetsTo(f, 0, BlockUp(want), end)
WriteFails(want, end) == end + Block <= BlockUp(want)

CreateFile ==
  /\ Move("CREATE_FILE")
  /\ \E f \in Files \ files, want \in FileSizes(MinSize, MaxSize) :
       \E end \in 0..BlockUp(want) :
         /\ BlocksReach(f, want, end)
         /\ \/ /\ ~ WriteFails(want, end)
               /\ NewFile(f, end, Span(0, end))
               /\ Record("CREATE_FILE", f, want)
               /\ UNCHANGED <<outcome, iteration>>
            \/ WriteFails(want, end) /\ Abort("no_space")

CreateFileFallocate ==
  /\ Move("CREATE_FILE_FALLOCATE")
  /\ \E f \in Files \ files, want \in FileSizes(MinSize, MaxSize) :
       \E room \in Rooms :
         \/ /\ 0 < want /\ want <= room
            /\ NewFile(f, want, Span(0, want))
            /\ Record("CREATE_FILE_FALLOCATE", f, want)
            /\ UNCHANGED <<outcome, iteration>>
         \/ (want = 0 \/ want > room) /\ Abort("no_space")

\* The file CREATE_FILE has just made: touched_files.back(), and the two
\* assertions on it.
Previous == touched[Len(touched)]
PreviousIsFresh == touched # <<>> /\ count[Previous] = 0

CreateFileOverwrite ==
  /\ Move("CREATE_FILE_OVERWRITE")
  /\ \/ /\ PreviousIsFresh
        /\ \E end \in 0..BlockUp(size[Previous]) :
             /\ BlocksReach(Previous, size[Previous], end)
             /\ \/ /\ ~ WriteFails(size[Previous], end)
                   /\ size' = [size EXCEPT ![Previous] = Larger(@, end)]
                   /\ mapped' = [mapped EXCEPT ![Previous] = @ \cup Span(0, end)]
                   /\ Record("CREATE_FILE_OVERWRITE", Previous, size[Previous])
                   /\ UNCHANGED <<outcome, treeVars, onDisk, touched, iteration>>
                \/ WriteFails(size[Previous], end) /\ Abort("no_space")
     \/ ~ PreviousIsFresh /\ Abort("assertion")

CreateFileRead ==
  /\ Move("CREATE_FILE_READ")
  /\ \/ /\ PreviousIsFresh
        /\ Record("CREATE_FILE_READ", Previous, size[Previous])
        /\ UNCHANGED <<outcome, treeVars, diskVars, touched, iteration>>
     \/ ~ PreviousIsFresh /\ Abort("assertion")

\* CREATE_DIR: mkdir of a new path, then create_directory.  It sets action
\* and path of the result but no size.
CreateDir ==
  /\ dirs < MaxDirs
  /\ Move("CREATE_DIR")
  /\ dirs' = dirs + 1
  /\ Record("CREATE_DIR", NoFile, result.size)
  /\ UNCHANGED <<outcome, files, punchable, count, cached, total, diskVars, touched, iteration>>

-----------------------------------------------------------------------------
\* randomFile, randomPunchableFile and randomDirectory throw on an empty list.
NeedsFile(reason, list) == list = {} /\ Abort(reason)

\* ALTER_SMALLER_TRUNCATE: the counter is re-computed first, then the file is
\* truncated, then the file may leave the list.  The result of truncate is not
\* looked at, and a call that fails changes nothing.
AlterSmallerTruncate ==
  /\ Move("ALTER_SMALLER_TRUNCATE")
  /\ \/ NeedsFile("no_files", files)
     \/ \E f \in files : \E new \in Draw(Larger(size[f] \div 2, Block), size[f]) :
          LET walked == TruncatedCount(size[f], new, count[f]) IN
          \/ walked = Threw /\ Abort("walk")
          \/ /\ walked # Threw
             /\ count' = [count EXCEPT ![f] = walked]
             /\ \E bytes \in {new, size[f]} :
                  /\ size' = [size EXCEPT ![f] = bytes]
                  /\ mapped' = [mapped EXCEPT ![f] = {p \in @ : p < bytes}]
                  /\ punchable' = IF IsPunchable(size[f], count[f]) /\ ~ IsPunchable(bytes, walked)
                                  THEN punchable \ {f} ELSE punchable
             /\ Touch(f)
             /\ Record("ALTER_SMALLER_TRUNCATE", f, new)
             /\ UNCHANGED <<outcome, dirs, files, cached, total, onDisk, iteration>>

\* ALTER_SMALLER_FALLOCATE: the counter is advanced by getHoleAddress, the
\* result of the fallocate call that punches the hole is not looked at (a
\* filesystem without hole punching refuses it).
AlterSmallerFallocate ==
  /\ Move("ALTER_SMALLER_FALLOCATE")
  /\ \/ NeedsFile("no_punchable", punchable)
     \/ \E f \in punchable :
          LET hole == HoleAddress(size[f], count[f]) IN
          \/ ~ IsPunchable(size[f], count[f]) /\ Abort("no_hole")
          \/ /\ IsPunchable(size[f], count[f])
             /\ count' = [count EXCEPT ![f] = @ + 1]
             /\ mapped' \in {[mapped EXCEPT ![f] = @ \ Span(hole.from, hole.to)], mapped}
             /\ Touch(f)
             /\ punchable' = IF IsPunchable(size[f], count[f] + 1)
                             THEN punchable ELSE punchable \ {f}
             /\ Record("ALTER_SMALLER_FALLOCATE", f, hole.to - hole.from)
             /\ UNCHANGED <<outcome, dirs, files, cached, total, onDisk, size, iteration>>

\* The part both ALTER_BIGGER handlers share once the data is on disk.
\* Fault: the file is cut to the drawn size.
GrownToDraw(action, f, new, bytes, pages) ==
  /\ size' = [size EXCEPT ![f] = new]
  /\ mapped' = [mapped EXCEPT ![f] = @ \cup pages]
  /\ Touch(f)
  /\ Record(action, f, Wrap(new - size[f]))
  /\ UNCHANGED <<outcome, treeVars, onDisk, iteration>>

Grown(action, f, new, bytes, pages) ==
  /\ size' = [size EXCEPT ![f] = bytes]
  /\ mapped' = [mapped EXCEPT ![f] = @ \cup pages]
  /\ Touch(f)
  /\ Record(action, f, Wrap(new - size[f]))
  /\ UNCHANGED <<outcome, treeVars, onDisk, iteration>>

AlterBiggerFallocate ==
  /\ Move("ALTER_BIGGER_FALLOCATE")
  /\ \/ NeedsFile("no_files", files)
     \/ \E f \in files : \E new \in FileSizes(size[f], MaxSize), room \in Rooms :
          \/ /\ new > size[f] /\ new - size[f] <= room
             /\ Grown("ALTER_BIGGER_FALLOCATE", f, new, new, Span(size[f], new))
          \/ new > size[f] /\ new - size[f] > room /\ Abort("no_space")
          \/ /\ new <= size[f]
             /\ Grown("ALTER_BIGGER_FALLOCATE", f, new, size[f], {})

\* ALTER_BIGGER_WRITE writes aligned blocks from the aligned end of file on
\* until the new size is reached.  A block size below the alignment is
\* rounded down to zero bytes, and the loop never ends.
AlterBiggerWrite ==
  /\ Move("ALTER_BIGGER_WRITE")
  /\ \/ NeedsFile("no_files", files)
     \/ \E f \in files : \E new \in FileSizes(size[f], MaxSize) :
          LET step  == AlignDown(Block)
              start == AlignDown(size[f])
          IN
          \/ /\ new <= start
             /\ Grown("ALTER_BIGGER_WRITE", f, new, size[f], {})
          \/ start < new /\ step = 0 /\ Abort("spins")
          \/ /\ start < new /\ step > 0
             /\ LET goal == start + step * ((new - start + step - 1) \div step) IN
                \E end \in start..goal :
                  /\ GetsTo(f, start, goal, end)
                  /\ \/ /\ end >= new
                        /\ Grown("ALTER_BIGGER_WRITE", f, new, Larger(size[f], end), Span(start, end))
                     \/ end < new /\ Abort("no_space")

-----------------------------------------------------------------------------
\* FileTree::remove takes a file off both of the tree's lists.
\* Fault: files_for_fallocate keeps the removed node.
StaysListed(f) == files' = files \ {f} /\ punchable' = punchable
Unlist(f) == files' = files \ {f} /\ punchable' = punchable \ {f}

\* What a deleted file takes off the total.  Fault: nothing.
NothingLost(f) == 0
ExtentsLost(f) == Cardinality(Extents(mapped[f]))

\* DELETE_FILE scans the file's extents once more, removes it from disk and
\* from the tree and takes the extents just found off the total.
DeleteFile ==
  /\ Move("DELETE_FILE")
  /\ \/ NeedsFile("no_files", files)
     \/ \E f \in files :
          /\ Unlist(f)
          /\ total' = total - ExtentsLost(f)
          /\ onDisk' = onDisk \ {f}
          /\ count' = [count EXCEPT ![f] = 0]
          /\ cached' = [cached EXCEPT ![f] = {}]
          /\ size' = [size EXCEPT ![f] = 0]
          /\ mapped' = [mapped EXCEPT ![f] = {}]
          /\ Record("DELETE_FILE", f, result.size)
          /\ UNCHANGED <<outcome, dirs, touched, iteration>>

\* DELETE_DIR picks a directory and leaves it alone.
DeleteDir ==
  /\ Move("DELETE_DIR")
  /\ \/ dirs = 0 /\ Abort("no_dirs")
     \/ dirs > 0 /\ UNCHANGED <<outcome, treeVars, diskVars, cycleVars>>

TouchedFiles == {touched[i] : i \in DOMAIN touched}

\* END checks the touched files' punchability again.
\* Fault: END does not look at punchability.
NoRecheck == punchable
Recheck == {f \in punchable : f \in TouchedFiles => IsPunchable(size[f], count[f])}

\* Fault: the cycle is not counted.
NeverCounts == iteration
NextIteration == IF Timed THEN iteration ELSE iteration + 1

\* END scans the touched files, corrects the total by what changed, drops
\* files that cannot be punched any more, commits the result and starts a
\* new one.
EndCycle ==
  /\ Move("END")
  /\ cached' = Scan(TouchedFiles)
  /\ total' = total + CountIn(TouchedFiles, Scan(TouchedFiles)) - CountIn(TouchedFiles, cached)
  /\ punchable' = Recheck
  /\ result' = ZeroResult
  /\ iteration' = NextIteration
  /\ touched' = <<>>
  /\ UNCHANGED <<outcome, dirs, files, count, diskVars>>

\* The files the clean-up removes.
\* Fault: the clean-up walks the wrong list.
CleanedPunchable == punchable
Cleaned == files

\* The loop is over: the final scan of all files, and the clean-up.
Finish ==
  /\ outcome = "running"
  /\ Timed \/ iteration >= Iterations
  /\ outcome' = "finished"
  /\ cached' = Scan(files)
  /\ IF Cleanup
     THEN /\ onDisk' = onDisk \ Cleaned
          /\ size' = [f \in Files |-> IF f \in Cleaned THEN 0 ELSE size[f]]
          /\ mapped' = [f \in Files |-> IF f \in Cleaned THEN {} ELSE mapped[f]]
     ELSE UNCHANGED diskVars
  /\ UNCHANGED <<state, rapid, zeroDraw, dirs, files, punchable, count, total, cycleVars>>

Ended == outcome # "running" /\ UNCHANGED vars

\* One iteration of the loop.
Iterate ==
  \/ \E to \in {"S", "CREATE", "ALTER", "DELETE", "ALTER_SMALLER", "ALTER_BIGGER",
                "ALTER_METADATA"} : Enter(to)
  \/ CreateFile \/ CreateFileFallocate \/ CreateFileOverwrite \/ CreateFileRead \/ CreateDir
  \/ AlterSmallerTruncate \/ AlterSmallerFallocate
  \/ AlterBiggerFallocate \/ AlterBiggerWrite
  \/ DeleteFile \/ DeleteDir \/ EndCycle

Next == Iterate \/ Finish \/ Ended

Spec == Init /\ [][Next]_vars

\* The loop keeps running; nothing is assumed of the clock of a timed run.
FairSpec == Spec /\ WF_vars(Iterate) /\ (~ Timed => WF_vars(Finish))

-----------------------------------------------------------------------------
Outcomes == {"running", "finished", "no_files", "no_punchable", "no_dirs", "no_hole",
             "no_space", "assertion", "walk", "spins"}

TypeOK ==
  /\ state \in States /\ outcome \in Outcomes
  /\ iteration \in Nat /\ rapid \in BOOLEAN /\ zeroDraw \in BOOLEAN
  /\ dirs \in 0..MaxDirs
  /\ punchable \subseteq files /\ files \subseteq Files /\ onDisk \subseteq Files
  /\ count \in [Files -> Nat]
  /\ cached \in [Files -> SUBSET Nat]
  /\ total \in Int
  /\ touched \in Seq(files)
  /\ result.action \in States \cup {FirstResult.action} /\ result.path \in Files \cup {NoFile}
  /\ size \in [Files -> Nat]
  /\ mapped \in [Files -> SUBSET Nat]

\* Only a file touched in the current cycle may be on the punch list without
\* having room for a hole: randomPunchableFile picks from that list at the
\* start of a cycle, and getHoleAddress throws when there is no room.
PunchListSound ==
  outcome = "running" =>
    \A f \in punchable : f \in TouchedFiles \/ IsPunchable(size[f], count[f])

\* The running total is the sum of what was last scanned, and the scan of a
\* file nobody touched in this cycle is still what is on disk.
ExtentAccounting ==
  outcome # "finished" =>
    /\ total = CountIn(files, cached)
    /\ \A f \in files \ TouchedFiles : cached[f] = Extents(mapped[f])

\* Files are created only once all ndirs directories exist; a directory beyond
\* them is created only by taking an edge of probability zero.
DirectoryPhase ==
  /\ files # {} => dirs >= NDirs
  /\ dirs > NDirs => zeroDraw

\* The lists the handlers draw from.  An empty file or punch list is drawn from
\* only after an edge of probability zero was taken; there always is a
\* directory to draw, a file drawn from the punch list always has room for a
\* hole, and the file CREATE_FILE made is there, unpunched, for its successor.
DrawsSucceed ==
  /\ outcome \in {"no_files", "no_punchable"} => zeroDraw
  /\ outcome \notin {"no_dirs", "no_hole", "assertion"}

\* No handler dies for want of space, unless metadata needs more than the safe
\* margin or rapid aging allocates a file of no bytes, which fallocate refuses:
\* one of size 0 may be drawn, or is all that a disk without a block to spare
\* leaves to an empty tree.  The hole walk of Node::truncate never gives up.
MayDrawNothing == MinSize = 0 \/ Capacity - OtherData < Margin + Block

HandlersEnd ==
  /\ outcome = "no_space" => Margin < Overhead \/ (RapidAging /\ MayDrawNothing)
  /\ outcome # "walk"

\* The tree and the directory hold the same files as long as the run goes on,
\* and after it has cleaned up nothing of the run is left.
TreeMirrorsDisk ==
  /\ outcome = "running" => onDisk = files
  /\ outcome = "finished" /\ Cleanup => onDisk = {}

\* "Only expand, never shrink": the ALTER_BIGGER handlers never make a file
\* smaller, whatever size was drawn.
NeverShrinks ==
  [][state' \in {"ALTER_BIGGER_WRITE", "ALTER_BIGGER_FALLOCATE"} /\ outcome' = "running" =>
       \A f \in Files : size[f] <= size'[f]]_vars

\* Rounding a drawn size up to whole blocks takes less than a block of the safe
\* margin (aging.cpp:208, 767-800): no operation takes space and leaves a block
\* less than the margin available.
MarginKept == [][Available' < Available => Margin < Available' + Block]_vars

\* Every cycle commits a result that names the operation it performed.
ResultNamesOperation ==
  [][state # "END" /\ state' = "END" => result.action = state]_vars

\* A run bounded by iterations comes to an end; it hangs in the write loop of
\* ALTER_BIGGER_WRITE only when blocks are smaller than the alignment.
Terminates ==
  <>(outcome \notin {"running", "spins"} \/ (outcome = "spins" /\ Block < Align))

\* A run of more than NDirs iterations creates the directories and then a file,
\* unless an edge of probability zero is taken or the run dies.
FirstFile == <>(files # {} \/ zeroDraw \/ outcome \notin {"running", "finished"})
=============================================================================
