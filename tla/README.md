# Filestorm: a verification project

Filestorm ages a filesystem. Its **aging** scenario drives one test directory through
a probabilistic state machine (create, alter, punch, truncate, delete) and times each
operation; its **basic** scenario reads or writes one file and samples the throughput.
This directory holds TLA+ models of that code, the TLC runs that check them, and
proofs that TLAPS checks. Paths below are relative to `src/`; `aging.cpp`,
`libaio.cpp` and so on stand for the files of that name in `source/`.

- [Inventory](#inventory)
- [Modules and how they correspond to the code](#modules-and-how-they-correspond-to-the-code)
- [Runs, bounds, fairness](#runs-bounds-fairness)
- [What the code does not do](#what-the-code-does-not-do)
- [Proofs](#proofs)
- [What is not modelled](#what-is-not-modelled)
- [Plan](#plan)

## Inventory

| Component | State | Operations | Hard parts | Modelled in |
|---|---|---|---|---|
| Aging scenario, `source/scenarios/aging.cpp` | `touched_files`, `result`, `iteration`, `rapid_aging`, the CAF constant | `run` (the loop and one handler per state), `compute_probabilities`, `get_file_size`, clean-up | what a handler relies on was true several states earlier; a full disk; a run that stops mid-cycle | `Aging` |
| State machine, `include/filestorm/utils/psm.h` | `_currentState` | `performTransition` | a random value of exactly 0; rounded sums | `AgingProbabilities` |
| File tree, `source/filetree.cpp`, `include/filestorm/filetree.h` | the nodes; `all_files`, `all_directories`, `files_for_fallocate`, `directory_count`, `file_count`, the two name counters | `mkfile`, `mkdir`, `rm`, `remove`, `getNode`, `newDirectoryPath`, `newFilePath`, `random*`, `bottomUpDirWalk` | three lists and two counters that must agree; paths that repeat a name; a folder that is a null pointer | `FileTree`, `PathSet`, and in `Aging` the lists |
| Node of the file tree, `include/filestorm/filetree.h` | `fallocated_count`, `_extents` | `getHoleAddress`, `isPunchable`, `truncate`, `getExtents` | unsigned arithmetic; hole slots after a truncation | `HoleGeometry`, `PunchedFile` |
| Extent scan, `source/filefrag.cpp` | none | `get_extents` (FIEMAP in batches of 32) | continuing a batch where the last one ended while the filesystem moves extents | `ExtentScan` |
| Extent curve, `source/polycurve.cpp` | the points of the run, a group being averaged | `addPoint`, fit, slope | the scale of the x axis; a degenerate fit | `ExtentCurve`, `ExtentTrend` |
| Filesystem status, `source/utils/fs.cpp` | none | `get_fs_status`, `file_size` | - | `Aging` |
| I/O engines, `include/filestorm/ioengines/`, `source/ioengines/engines/{sync,libaio}.cpp` | libaio: context, `submitted_cbs` | `read`, `write`, `complete` | requests in flight, completions in any order, results for other requests | `IOEngine`, `LibAIO`; sync in `Aging` |
| Monitored actions, `source/actions/` | `m_running`, `m_thread`, `m_monitoredData`, a byte counter, `offset`, `ended` | `exec`, `work`, `start_monitor`, `stop_monitor`, `log_values` | three threads and a stack variable shared without a lock | `MonitoredAction` |
| Basic scenario, `source/scenarios/basic.cpp` | `BasicResult::results` | `run`, `save` | deletes the action its threads use; parameters that throw | `MonitoredAction`, `Session` |
| Result log, `source/result.cpp`, `include/filestorm/result.h` | `Result::results`, two maps of totals | `commit`, `save`, `print` | a signal in the middle of `commit`; an action that was never set | `ResultLog` |
| Command line and SIGINT handler, `standalone/source/{main.cpp,interupts.h}` | whether the handler is installed | `main`, `sigint_handler` | a signal at any statement | `Session` |
| Data sizes, time strings, `include/filestorm/data_sizes.h`, `source/utils.cpp` | none | conversion, addition, parsing, subtraction | refused conversions, unsigned wrap | `DataSizes`; the subtraction in `Aging` |
| Parameters and factories | registered engines and scenarios | set-up | - | only how set-up can end, in `Session` |
| Logger and progress bar | - | output | - | not modelled |

How they interact: `AgingScenario::run` owns a `FileTree` and calls the state machine,
then exactly one handler. A handler calls the tree (draw a file, re-count its holes),
the I/O engine or a system call (through a `MeasuredCBAction`, which takes the time of
a callback), and pushes changed files on `touched_files`. END scans the touched files
with `get_extents`, corrects the running extent total, adds it to the extent curve,
drops files that cannot be punched any more, and commits the result. The curve decides
when rapid aging is over. `main` installs the SIGINT handler around the scenario, then
saves and prints the log; the handler does the same with whatever it finds. The basic
scenario creates a monitored action, runs it and deletes it; nothing but the log is
shared between the two scenarios.

What makes each component correct, in one line each: every draw of the aging scenario
finds something to draw; the tree's lists, counters and totals agree with the tree and
the tree with the disk; holes of a file stay inside it and apart; a transition of
probability zero is not taken; no operation takes a whole block of the
safe margin; a scan returns each extent
once; rapid aging stops when fragmentation has settled, not while it gathers pace; a
result names its operation; the saved and printed log accounts for what was
performed, signal or not; an I/O engine reports each request once and none is outstanding
when its buffer is freed; no thread outlives what it uses. `PROJECT.json` lists the hazards behind
these, each at its line.

## Modules and how they correspond to the code

### File tree and holes

`HoleGeometry` is the arithmetic of `FileTree::Node`: slots, holes, `isPunchable`, and
the walk that re-counts holes after a truncation. It has no variables and no RECURSIVE
operator (the halving is a recursive function), so proofs can use it.

`PunchedFile` is one file under any sequence of punches, truncations and expansions,
with the set of its holes. It answers what the geometry does over a file's life, at
sizes `Aging` cannot afford. It reaches those sizes by leaving out everything else.

`PathSet` is what a file tree promises to a caller: a set of directories and files
named by paths, and which operation is refused when. It promises results only for
*plain* paths (no empty part, last part not repeated, not through a file), and for all
others that a tree stays a tree. A `mkdir` through a file may *spoil* the path of that
file: nothing is promised of it from then on, even when the file is gone.

`FileTree` is the class as written: paths walked part by part, the last part
recognised by its *value*, three lists and two counters. `nulls` are the paths at which
`folders[part]` has put a null pointer: a `mkdir` that enters a file makes one, and if
the next part is empty it throws before using it, so that it stays. Every operation
that comes to one later finds it, or crashes (`Found`, `NullAt`, `Missing`); they are
the spoilt paths of `PathSet`. The class has two users. `api` calls
`mkdir`, `mkfile`, `getNode` and `rm` with any of the given paths, as the tests do;
its behaviours implement `PathSet`. `scenario` is the aging scenario's use of it:
numbered names below a random walk through the folders, each operation repeated on the
disk, and the clean-up. That removes the files and then walks the directories
bottom-up: `walk.at` is the directory it is in, `walk.left` what it has not removed
yet, `EnterDir` goes down to a folder and `RemoveDir` comes back up through one
whose folders are done. `TreeAssumption` says that a path has a part and that a
numbered name is not the empty part.

### Aging

`AgingProbabilities` has the transition table, `compute_probabilities` and
`performTransition`. All probabilities are multiples of 1/10000 because the program
floors its capacity awareness factor to three decimals, so the model is exact; the
factor is tabulated for every fill of the small disk. The random value is both ends of
the interval and the cumulative values in between, which are all the cases
`performTransition` can tell apart.

`Aging` is `AgingScenario::run`. One action is one iteration of the loop: rapid-aging
update, probabilities, transition, and the whole handler of the state entered (`Move`
is the head all actions share). `files`, `punchable`, `count`, `cached`, `total` are
the tree; `onDisk`, `size`, `mapped` the filesystem, which is external: a file is a
size and a set of mapped pages, an extent is a maximal run of mapped pages, and
metadata may hold back up to `Overhead` pages from an operation. `outcome` says
whether the run goes on, has finished, or which exception or assertion ended it.
`zeroDraw` is a ghost: an edge of probability zero has been taken. A write may be cut
short by a full disk; results of `truncate` and hole punching are ignored as in the
code, so these calls may also have failed.

`ExtentScan` is `get_extents` ioctl by ioctl, over a layout (a sequence of extents)
that the filesystem may split, merge and move between two ioctls as long as the same
pages stay mapped; `moved` is a ghost that says it did. `ExtentCurve` is
`PolyCurve` with degree 1, its normal equations solved in integers: an average is kept
as the sum of its group, and slope and threshold are compared as fractions. Because the
x axis is scaled with the largest point, the verdict is one on the *growth* from group
to group relative to the mean a group has added so far. `TrendJudged` says so: `Steady`
growth (every group adds at least the threshold's part of that mean) goes on,
`Slowed` growth (every group adds less) and `Settled` totals stop rapid aging at the
next iteration. A single late jump is neither: over n points it weighs about 6/n, so
the fit of a long curve does not see it, and the property does not claim that it does.
`ExtentTrend` composes the two with the cycles of the scenario for one file: handler,
scan, total, curve, verdict. What `Aging` takes as one step (the scan) or leaves free
(the verdict of the curve) is the code's there, and what `Aging` has in detail (the
handlers) is any change of the layout.

### Engines and actions

`IOEngine` is the promise of the engine interface, and `LibAIO` the libaio engine
under the three loops that call it. `LibAIO` implements `IOEngine` by the mapping
`asked <- Len(requests)`, `answered <- Len(requests) - submitted`, `bytes <- counted`.
One action of `LibAIO` is one iteration of a loop, one wait of `complete`, or one
completion by the kernel. A wait and the submission that follows it are one step:
nothing in between is visible to the kernel but the fetched events.

`MonitoredAction` has the main, monitor and timer threads of one action of the basic
scenario. `main` follows `exec`, `work` and the `delete` of `BasicScenario::run`.
`get_offset` is not virtual, so `randread` and `randwrite` are the sequential `read`
and `write`, and the model has only those two.

### The whole program

`DataSizes` has sizes with a unit, their conversion (which may be refused), addition,
and which texts `DataSize::fromString` and the time parser refuse. `ResultLog` adds
`Result`: `commit` statement by statement (the vector growing, an entry of each map
created, an addition to each), because a signal may fall between any two; and `print`
with its table and statistics. An action is one of the enumeration or, in the result a
run starts with, any value an uninitialized variable may have; `Unknown` stands for
those that name no action, at which `print` and `save` throw (`Unnamed`). `Session` is one run
of the program on top of both: `stage` is the statement `main`, the scenario, `save` or the handler is at. In the aging
scenario `Operate` is a handler that fills the result, `EndCycle` and `CommitStep` are
END committing it, and `NewResult` resets it: a cycle may do no operation, or create a
file and then overwrite or read it, which fills the same result again. `performed` is a
history variable, the operations in the order they were done; a result's path is its
place there (`Filled`). SIGINT is
the action `Interrupt`; where the program may hold the allocator or the logger at that
moment (`Risky`), the handler may also hang or crash, because it uses both.

### Proofs and model values

`AgingProofs` is about `Aging`; `FileTreeProofs` about `FileTree`; `ExtentProofs`
about `ExtentScan`, `ExtentCurve` and `ExtentTrend`; `SessionProofs`,
`MonitoredActionProofs` and `LibAIOProofs` about the modules of those names (and
`ResultLog`); `HoleProofs` about `PunchedFile`. `NatRecursion` holds
induction and recursion over the natural numbers, and sums over finite sets. `MCAging`,
`MCFileTree` and `MCSession` only name constants that a configuration file cannot
write.

Operators whose comment says "Fault:" are not used by the model. Each is a plausible
mistake in the operator that follows it; put in its place, a run must fail. That is
how every property is shown to depend on the code.

## Runs, bounds, fairness

| Run | Shows | Bounds |
|---|---|---|
| `punched_file` | holes apart until the first truncation, one hole per punch, holes inside the file, number of punches bounded by the size | nine sizes from 7 to 63 with blocks of 2: odd and even, below, at and above the smallest size for one, two and three holes |
| `deep` | types, punch list, tree and disk agree and the clean-up leaves nothing, expansions never shrink, safe margin | one file of up to 28 pages on a disk of 30, blocks of 2 pages, a timed run that may stop at any step: room for two punches, truncation to the point where the punch list must give the file up, and expansion back; metadata needing more (4) than the safe margin (3), so that operations die of a full disk. 83 thousand states |
| `two` | every draw succeeds, no handler dies of a full disk, directories before files, extent accounting; the run ends and has created a file | two files on a disk of 14 pages, blocks smaller than the write alignment (the loop of `ALTER_BIGGER_WRITE` that cannot advance), deletion of one of two files, full list; seven iterations, six more than the one directory needs. 49 thousand states |
| `file_tree` | `FileTree` implements `PathSet`; lists and counters agree; the scenario's paths always work; the clean-up empties the disk | eight paths of up to four parts, among them two with an empty part behind what may be a file, in the root and in a directory, and two that repeat their last part; depth 3; three names of each kind, so that a folder, one below it and a file in that meet deletions and the clean-up. 209 thousand states |
| `extent_trend` | a scan is exact while nothing moves, covers everything when something does, and always goes forward; the total is exact; the curve's verdict | a file of 3 pages (up to three extents), batches of one extent, so that every scan continues and one may find nothing more; one change by the filesystem; groups of two, three points, judged at the third; totals of 0 to 3, so that a curve may grow steadily, slow down or settle. 2.5 million states |
| `session` | files account for what was performed, one file only, totals, where printing throws, statistics | units of 2 instead of 1024; operations of 3 bytes, of which only four make whole MB (4 bytes each); a deletion, a creation and a reading, so that a cycle may do none, one or two operations; four operations and four results: the vector grows three times, and the quartiles of one to four values are different elements. 606 thousand states |
| `libaio` | queue bookkeeping, byte counts, buffer release, refinement of `IOEngine`, end | depth 3, five requests of 2 bytes for 9: the queue fills, is waited for, is drained; short results and errors |
| `monitored_action` | threads end before their data, samples grow, offsets follow the counter, end | eight calls; files of one block, three blocks, and two and a third |
| `result_name`, `libaio_size`, `read_ends`, `up_to_now` | see the next section | as the runs above, smaller |

The named bounds in the modules are `Files` (names available, so also live files),
`MaxDirs`, `MaxCalls`, `MaxIds`, `MaxPoints`, `MaxDrifts` and `MaxResults`. Sizes are
drawn from the whole range the code draws from; nothing else is restricted. `Wrap` and
`SizeTop` stand for 2^64: the only effect of unsigned width in the models is the wrap
of a negative difference, which a small modulus shows just as well.

A step of `Aging` is deterministic but for the draws, the disk and the random value,
so two files are enough for the properties that relate a file to the lists: each is
about one file and the rest, or about an empty list. Where a property has a theorem
(below), the bounds are only those of the first look. No symmetry is used.

Fairness:

- `Aging`, `FairSpec` (run `two`): the loop thread keeps running (`WF(Iterate)`), and
  an untimed run that has done its iterations leaves the loop. Nothing is assumed of
  the clock or of `rand()`. The liveness properties therefore hold whatever is drawn.
- `LibAIO`, `FairSpec`: the kernel finishes submitted requests, the calling thread
  runs. `io_getevents` with a minimum of one event and no time-out relies on just that.
- `MonitoredAction`, `Spec`: each of the three threads runs when it can; a sleeping
  thread wakes.

The other modules state no liveness: a session may be killed at any moment. That a scan
ends needs no fairness towards the filesystem: however often it moves the extents,
`ScanAdvances` bounds the list of a scan by the pages of the file.

`CHECK_DEADLOCK FALSE` appears where a run ends and the program has nothing left to
do: the end of a loop or of the program, the deletion of an action, a file no
operation applies to. `Aging` has the action `Ended` instead.

## What the code does not do

Each of these is a run that TLC finds violated, for a property quoted from the
documentation or a comment.

| Run | Where | What happens |
|---|---|---|
| `result_name` | `aging.cpp:600` | a cycle of `ALTER_METADATA` or `DELETE_DIR` commits a result that names another operation |
| `libaio_size` | `libaio.cpp:83` | with libaio the first `iodepth` writes all go to offset 0 and the file ends short, without a warning |
| `read_ends` | `rw_actions.cpp:59` | a `read` or `randread` of the basic scenario ends in `std::terminate`: the timer thread is neither joined nor detached |
| `up_to_now` | `interupts.h:13` | the handler announces "the results up to now" and saves the aging log only: an interrupted basic run loses all its samples |

Also seen, and stated by properties that hold or by the shape of the model:

- A random value of exactly 0 takes the first edge even if its probability is 0
  (`psm.h:39`), from which a draw from an empty list follows. `DrawsSucceed` and
  `DirectoryPhase` are stated up to such a draw (`zeroDraw`).
- After a truncation the hole counter is that of another geometry, and later holes
  meet earlier ones (`filetree.h:123`); the README of the program promises holes that
  never intersect. `HolesDisjointUntilCut` is stated up to the first truncation.
- Whole-block writing passes `maxfsize` (`aging.cpp:570`), and the next expansion draws
  from an inverted range; `NeverShrinks` holds nevertheless.
- A run whose block size is below 4096 hangs in `ALTER_BIGGER_WRITE` (`outcome =
  "spins"`, excluded by `Terminates`).
- When a layout is moved by the filesystem and the file then deleted, what is taken off
  the total (a fresh scan, `aging.cpp:607`) is not what was added; `TotalExact` is
  stated for a filesystem that moves nothing.
- A failed `pread` adds -1 to the counter, which ends the wrap-around of the offset
  (`EveryReadIsWhole` is stated for runs without a failure, and for files of whole
  blocks); `write` keeps extending its file past `filesize` (`WrittenInOrder`).
- `mkdir` through a file uses a null pointer (`filetree.cpp:106`), unless the next part
  is empty: then it throws and leaves that pointer in the tree. After `mkfile a`,
  `mkdir a//b` and `rm a`, `mkdir a` is refused as registered, `getNode a` is null and
  `mkfile a` throws; `findNullPointer`, which END calls to catch such a pointer, looks at
  the punch list only (`filetree.h:167`). `PathSet` calls such a path spoilt. A path that
  repeats its last part is taken to end at the first of them. `PathSet` promises nothing for either. The
  aging scenario makes up neither (`ScenarioPathsWork`).
- The results are not "a list of performed operations" (README.md:112): the handlers of
  a cycle fill one result, which END commits (`aging.cpp:647`). When CREATE_FILE_OVERWRITE
  or CREATE_FILE_READ follows CREATE_FILE (`aging.cpp:331,392`), the creation is in no
  results file, and neither is an operation that a timed run does not bring to END or
  that SIGINT interrupts before it; `Accounts` names exactly these.
- If the first cycle does nothing, the action committed is uninitialized
  (`aging.cpp:126`). For most values `actionToString` throws (`result.h:129`): `save`
  leaves an empty results file, or the handler cannot print, and the program aborts
  with all results lost. `PrintThrowsAtFirstOnly` says that nothing else makes printing
  throw.
- The safe margin is not "a minimal space amount that should be left available"
  (`aging.cpp:57-60`): the drawn size leaves it, but is written in whole blocks
  (`aging.cpp:208`), which takes up to a block of it. `MarginKept` says that no operation
  takes a whole block.
- A results file that cannot be opened or written fails silently (`result.h:154`), an
  exception in a scenario loses all its results, and SIGINT between `SIG_DFL` and the
  end of `save` loses or cuts short the file; `FilesHoldTheLog` is about files written
  whole. SIGINT while `push_back` moves the elements saves moved-from ones.
- The handler prints, allocates and logs, which a signal handler may not do.
- The converting constructor of `DataSize` ignores the `allow_rounding` it is given
  (`data_sizes.h:27`); printing works only because the totals themselves allow it
  (`PrintThrowsAtFirstOnly`).
- "100ms" is read as 100 seconds (`utils.cpp:75`). The defaults "4096" and "10" of the
  basic scenario have no unit, so that parsing them throws (`basic.cpp:13,17`); the
  usage in the program's README (lines 87 and 101) leaves out the name of the engine,
  and such a command line prints the help and exits with 1.
- A depth or `ndirs` of 0 divides by zero (`filetree.cpp:206`). For 74 of the 1001
  values of the capacity awareness factor the probabilities out of S add up to less
  than 1 in double precision, and the largest random value finds no edge
  (`psm.h:46`).

## Proofs

TLAPS proves for every value of the constants that satisfies the assumptions (any
number of files, any disk, any block size, any depth, timed or not):

| Theorem | States |
|---|---|
| `AgingProofs!TypeCorrect` | `Spec => []TypeOK` |
| `AgingProofs!InvInvariant` | `Spec => []Inv` |
| `AgingProofs!PunchListIsSound` | `Spec => []PunchListSound` |
| `AgingProofs!DirectoriesFirst` | `Spec => []DirectoryPhase` |
| `AgingProofs!DrawsAlwaysSucceed` | `Spec => []DrawsSucceed` |
| `AgingProofs!ExtentsAccounted` | `Spec => []ExtentAccounting` |
| `AgingProofs!TreeIsMirror` | `Spec => []TreeMirrorsDisk` |
| `AgingProofs!GrowingOnly` | `Spec => NeverShrinks` |
| `AgingProofs!MarginIsKept` | `Spec => MarginKept` |
| `AgingProofs!HandlersReachTheirEnd` | `Spec => []HandlersEnd`, assuming `Addressable` |
| `AgingProofs!TransitionsAreTotal`, `!RandomValuesSuffice` | every value `rand` may return is taken by exactly one edge; the values the model draws lose no edge |
| `FileTreeProofs!TreeIsSound`, `!ListsAlwaysAgree` | `Spec => []Sound` (the tree is a tree, the lists are its nodes), `Spec => []ListsAgree` |
| `FileTreeProofs!TreeKeepsItsPromise` | `Spec => ImplementsPathSet`: the file tree implements the set of paths |
| `FileTreeProofs!ScenarioIsSound`, `!ScenarioPathsAlwaysWork`, `!CleanUpEmptiesTheDisk` | `Spec => []ScenarioInv`, `[]ScenarioPathsWork`, `[]CleanedUpEmpties` |
| `ExtentProofs!ScanReturnsAll` | `ScanSpec => [](ScanExact /\ ScanCovers)` |
| `ExtentProofs!ScansAreExact`, `!ScansCover` | the same of every scan in the cycles of `ExtentTrend` |
| `ExtentProofs!ScansAdvance` | `Spec => []ScanAdvances` |
| `ExtentProofs!TotalIsExact` | `Spec => []TotalExact` |
| `ExtentProofs!TrendIsJudged` | `Spec => TrendJudged` |
| `SessionProofs!FilesAreTheLog` | `Spec => []FilesHoldTheLog` |
| `SessionProofs!OneFileOnly` | `Spec => []OneFile` |
| `SessionProofs!PrintEnds` | `Spec => []PrintThrowsAtFirstOnly` |
| `SessionProofs!PrintedTotalsMatch`, `!PrintedStatisticsOrdered` | `Spec => []TotalsMatchLog`, `Spec => []StatisticsOrdered` |
| `MonitoredActionProofs!TypeCorrect`, `!ThreadsEnd` | `Spec => []TypeOK`, `Spec => []ThreadsEndInTime` |
| `MonitoredActionProofs!OneRange`, `!SamplesNeverFall`, `!WholeReads` | `WrittenInOrder`, `SamplesGrow`, `EveryReadIsWhole`, assuming `NoWrap` |
| `LibAIOProofs!OutstandingIsRight`, `!BufferIsReleased`, `!EachCountedOnce`, `!TypeCorrect` | `Outstanding`, `BufferReleased`, `CountedOnce`, `TypeOK` |
| `LibAIOProofs!Implements` | `Spec => KeepsContract`: libaio implements the engine interface |
| `HoleProofs!DisjointUntilCut` | `Spec => []HolesDisjointUntilCut` |
| `HoleProofs!PunchesAreBounded` | `Spec => []PunchBudget`, assuming `Addressable` |
| `HoleProofs!TypeCorrect`, `!InsideFile` | `TypeOK`, `HoleInsideFile`, assuming `Addressable` |

The assumptions on constants are those of the modules (`ProbabilitiesAssumption`,
`BlockAssumption`, `AgingAssumption` and so on). They say what set-up guarantees or the
code silently needs: positive block size, capacity and `ndirs`, `minfsize <= maxfsize`,
a finite set of file names. The width of an integer is assumed explicitly where it matters:
`NoWrap`, that the bytes of a run stay below the 64-bit counter, and `Addressable`,
that file sizes are below 2^64, which is what ends the walk of `truncate` over the slots.

**Types of `Aging`** are not inductive as they stand. `Typed` adds that the mapped and
the scanned pages of every file are finite sets (a total is a cardinality), and that
nothing is touched between END and the next handler. That a drawn size is a natural
number needs the lemmas on `BlockDown`, `Draw`, `SafeSize` and on the walk of
`truncate`.

**Draws.** That `ALTER` finds a file is decided when S is left: the edge to `ALTER` has
a probability above zero only if the capacity awareness factor is below 1, and that is
so only if the tree has files. By the time a leaf handler draws, two or three
transitions have passed. `Lists` therefore says what each state on the way may count
on (files exist, the file of `CREATE_FILE` is last in `touched`, unpunched), and `Inv`
conjoins `Typed`, `PunchListSound`, `DirectoryPhase`, `DrawsSucceed` and `Lists`. The
proof that a step preserves it goes action by action; `EdgeInto` says from which
states an action's state can be entered, `EmptyTree` and its neighbours which
probabilities are zero. `PunchListSound` needs `touched`: between a handler and END a
file on the list may have lost its room.

**Transitions.** `CafDefined` shows that the capacity awareness factor, which the table
chooses with CHOOSE, exists for every fill of the disk: the first number whose square is
too large has a predecessor. With that every probability is a number, and `MassIsOne`
adds up the edges of each state. An edge is the first whose cumulative probability is
not below the random value (`Least`); the last one is 1. What this leaves open is binary
rounding: `psm.h` adds doubles, and the sum may stay below 1.

**Accounting.** `total = CountIn(files, cached)` compares cardinalities of unions;
`CountSame`, `CountSplit` and `CountOne` take one file out of the sum. Preservation
also needs that an untouched file's scan is what is on disk, the second conjunct.

**Mirror and growth** follow from `Typed` and the shape of the handlers; growth needs
the arithmetic of the aligned write: the aligned start is at most the old size, and a
file ends at the larger of the two.

**Margin.** A step that maps `n` pages keeps the margin if `n` pages were to spare
(`TakesSpare`, from the cardinality of unions), and less than a block more than a drawn
size always is (`DrawnSpares`). `CREATE_FILE_OVERWRITE` draws no size: it writes the
file of `CREATE_FILE` again in whole blocks, which fills the last block of a file a
short write has left. The invariant `Room` says that `CREATE_FILE` leaves that much.

**Handlers' end.** `HandlersEnd` says that no handler dies of a full disk unless
metadata needs more than the safe margin or rapid aging draws a file of no bytes
(`MayDrawNothing`), and that the walk of `truncate` never gives up. `EndInv` carries what
the handlers of `CREATE` and after need from the state before: that `CREATE` was
entered with a block more than the margin to spare (`RoomToCreate`), that files are at
most as large as the largest size drawn and fit the disk (`FilesFit`), that absent
files have no pages (`AbsentEmpty`), and `Room`. The walk ends because the sixteenth
slot after another is 2^16 times shorter, so that below 2^64 they run out (the walk
lemma of `HoleProofs`).

**Scan.** Exactness is not inductive: the invariant says that while the layout has not
moved the list is a prefix of it, and that the next batch starts at the end of that
prefix, or at 0. Coverage, which also holds when the layout moves, says that every
mapped page below the start of the next batch is in the list. `CyclesScan` shows that
each step of a cycle is a step of the scan or leaves it alone, so both carry over.
That a scan goes forward is an invariant of its own, `ForwardInv`: no extent of the list
ends behind the start of the next batch, and FIEMAP returns only extents that end behind
that start (`BatchForward`). The ends are then different pages, so there are at most as
many extents as pages (`ForwardIsShort`).

**Trend.** The slope over n points is a weighted mean of the growth from point to point:
`FlatIff` clears the sums over the indices from the normal equations (`IndexSums` has
their closed forms), which leaves the sum of the points weighted with their distance
from the middle. `GrowingTendency`, by induction over the points, is summation by
parts: if no growth is below a bound, the weighted sum is not below that of a straight
line with that growth; it serves for `Steady` and, with the signs turned, for `Slowed`.
`BoundedTendency` is for `Settled`: in a band the worst case is a step in the middle.
`VerdictOfTheFit` puts the three together. The invariant `TrendInv` adds that an
iteration that has left rapid aging on saw a curve that is not saturated, and that the
curve stays as it is until the scan at its end. Types come from `TotalInv`.

**File tree.** `Sound` says that the nodes are a tree (`Tree`: what is above a node is a
directory), and that the lists hold each node of their type once and the counters
count them (`Lists`). `EraseFacts` unfolds what `remove` on a list keeps and
`EraseCounts` how much shorter it gets; `PrefixFacts` and `PrefixIs` are the facts about
prefixes the walks need, `FirstHaltIs` where a walk ends, and `TreeWith` and
`TreeWithout` that what an operation adds or removes leaves a tree. For `PathSet`,
`PlainPath` says that on a plain path the last part recognised by its value is the last
part, so that each operation does what its promise says (`MkdirPromised` and its
neighbours, one for each); for other paths only `Sound` is left. `nulls` is mapped to
the spoilt paths: a plain path meets no null folder, because none of it is spoilt, and
only the path of a file becomes spoilt. The scenario's own
invariant, `ScenarioInv`, says that its names are numbered below its counters, so that
a new one is nowhere in the tree (`NewPath`), and during the clean-up that what is left
is what is on the disk and lies on the way back (`Cleaning`).

**Session.** `FilesHoldTheLog` says nothing before a file is written. What carries it
is `LogIsRight`: at every statement the log accounts for what was performed. Its entries
are operations as they were done, in their order, or cycles that did nothing
(`Entries`), and an operation that is not in it is the one in `result` or was superseded
(`Complete`). `Filling` ties `result` to this: it holds the last operation performed, or
none, and once `push_back` has taken it (`Taken`) the log ends in it. One lemma per
kind of statement shows that this is kept: a handler fills the result
(`OperateKeepsLog`), `push_back` appends it (`PushedKeepsLog`), END resets it
(`ResetKeepsLog`), everything else leaves it (`LogStays`); `FilesStay` says that a
whole file stays right while the program goes on. `OneFile` rests on the handler being
gone before the results are opened. `PrintThrowsAtFirstOnly` rests on `FirstOnly`, that
no result but the first lacks an action, because a reset one names `DELETE_FILE`, and on
every total allowing rounding, which `+=` preserves.

**Printed results.** The log meant is the one printed beside the totals, which the
history `printed` keeps. `TotalsMatchLog` and `StatisticsOrdered` are about two ways to the
same number: the maps `commit` adds to one statement at a time, and the walk over the
log in `print`. `TotalsKept` gives, for every statement a run may be at, the part of
the log each of the two maps has counted (`Counted` and `Listed`: the last result is
missing until its statement is over). `SizesAddUp` shows that the recursion of `print`
over a log and one more result is one more addition; `TotalsInBytes`, that the additions
with their units are additions of bytes. The statistics need a sorted sequence: that
one exists (`OrderExists`) goes by induction over the length, taking out the greatest
element. Then minimum, quartiles and maximum are elements at places in order.

**Monitored action.** `Threads` says where timer and monitor are, by the statement of
the main thread. `EveryReadIsWhole` needs a number-theoretic invariant, `Position`: the
counter and the end of the last read leave the same remainder by the file size, so that
the wrap-around test, which divides the counter, meets the end of the file exactly.

**Libaio.** The invariant counts: `submitted` is the number of pending requests plus
the length of the completion queue, whose entries are distinct finished requests, and
`counted` is the sum of the results of the requests fetched. That one completion, one
fetch of a batch and one submission keep this is `Finished`, `Taken` and `Submitted`.
Refinement is step by step: a completion stutters, a submission with a wait is `Call`,
a wait of `complete` answers part of what is outstanding.

**Holes and recursion.** The slots of a file, the walk of `truncate` and the sums of
the libaio proof are defined by recursion, and induction stated with operators is
beyond the installed provers. `NatRecursion` states it with sets and functions
instead: `Least` (a nonempty set of numbers has a least element) from the
well-foundedness of finite sets under inclusion, from it induction over sets of
numbers, the existence and uniqueness of recursive functions, and of sums over finite
sets. `HoleProofs` unfolds `Slot` with it, and shows that slots follow one another,
each half as long as the one before, that a walk over a size below 2^64 ends, and that
a hole is inside its slot. `SlotBudget` bounds the punches: slot k times
2^(k + 1) is at most the file, and a slot with room for a hole is longer than two blocks;
`TwoTo`, a recursive function, is there to say so.

Only model-checked: liveness (`Terminates`, `FirstFile`, `Ends`), because it needs
fairness and ENABLED, which are out of the prover's reach. Every invariant and every
other action property of a passing run is stated by a theorem, and so are both
refinements.

## What is not modelled

- In `Aging`: the normal distribution of sizes (any value of the uniform range covers
  it in kind, not in extent), I/O errors other than a full disk, durations, progress
  output, the extent curve (a free choice in `RapidNext`; `ExtentTrend` has it), the
  path of files and directories (`FileTree` has them).
- Binary rounding in `performTransition` and in the fit of the curve: both are exact.
- `FileTree`: `print`, `leafDirWalk` and `findNullPointer`, which only read.
- `PolyCurve`: `popOldestPoint`, `clearPoints`, `evaluate`, degrees other than 1;
  nothing calls them.
- `LibAIO`: setup and destructor. An error throws and ends the program, so what would
  follow an error is not modelled. `open_file` and its flags.
- `MonitoredAction`: the branches that are not time-based (nothing in the program takes
  them), the `float` the counter is converted to when sampled.
- `Session`: which options there are, help texts, the factories that look up a name,
  the meta data of a results file, the standard deviation; the wording of the table.
- `DataSizes`: multiplication, division, comparison and formatting.
- The logger and the progress bar: output only. That the logger may be interrupted by
  the SIGINT handler is in `Session` (`Risky`).

## Plan

1. Done: every module and proof above.
2. The composition of `FileTree` and `Aging`: `Aging`'s files as nodes of the tree, so
   that drawing a path and drawing a size are one model.
3. A bound on the steps of `complete`, as an invariant with a decreasing measure, the way
   `ScanAdvances` bounds a scan: what safety can say of the liveness properties.
