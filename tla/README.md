# A verification of PETOSPA's optimistic tuner

PETOSPA finds out how much performance static annotations could give a
program. A pass of a modified LLVM (the *annotator*) identifies *opportunities*
for annotations and adds those it is told to; a driver script (the *tuner*)
explores which of them a program tolerates, by building and verifying it again
and again. The annotations are optimistic, nothing proves them: whatever the
result is worth rests on the search, on the bookkeeping of builds and
verifications, and on the agreement of tuner and annotator on which character
of the *control string* speaks of which opportunity. That is what these modules
are about. The reference is the code; `src/ISC19.pdf` is the paper on it.

Short names: **tuner** is `src/optimistic_llvm/optimistic_tuner/optimistic_tuner.py`,
**Annotator.cpp** is `src/optimistic_llvm/lib/Transforms/Unsound/Annotator.cpp`.
Line numbers without a file are the tuner's.

## 1. Inventory

| Part | State | Operations | What makes it correct |
|---|---|---|---|
| Search: `ChoiceExplorer`, `OptimisticChoice` (76-339) | the choices with level and `fixed`; the control string; `first_pos`; the present block; a stack of failing blocks; tries, deadline | `generator` (a coroutine: yields a string, is sent TRUE or FALSE), `advance`, `fix`, `findAndLimitNextOptimisticChoice`, the cut at a limit | no assertion fails, it ends, decided choices are final and were in an accepted build, string and objects agree |
| Driver of one search: `optimizeAndRun` (568-626) | the generator, the answer | send each answer to the generator; on its end validate the final string by force and assert | the final string is valid; the assertion holds |
| Experiment on a benchmark (443-626) | source file, round, version counter, control string and choices of each file | `runBenchmark`, `optimizeAndRun` | what is written was verified; it ends whatever fails |
| Builds: `compileSourceOptimistically`, `determineOptimisticChoices`, `makeAndVerify` (628-897) | object files and executable on disk, stored versions in the temporary directory | compile, compare with the last valid version, link, verify, store; compile to ask for opportunities | TRUE means that the program on disk is verified, although an unchanged object file is not verified again |
| Verification: `makeAndVerify`, `runAndVerify` (865-986) | `output.txt` in the directory | verify command; for each input/output pair run, compare exit code and output, time-out | the answer is about the build, whatever was run before |
| Sources: `Sourcefile.writeControl` (369-427) | the source file | replace the strings in it by merged ones | the source stands for the choices found; the user's code survives |
| Annotator: lookups (Annotator.cpp 260-571) | per process: `NameCache`, `ChoiceMaps`, `ChoiceIndices`, numbering of functions; per pass: `Instance` | `initializeChoiceMaps`, `getOptimisticChoice`, `runOnModule` | an entry reaches the opportunity that it was written for |
| Annotator: annotations (Annotator.cpp 574-1381) | the IR | `annotate*`: parameters, functions, overflow flags, branches, memory accesses, calls, loops | the module verifies; what was known stays known; levels are ordered by strength; exactly the chosen loops become parallel |
| Pass pipeline (`PassManagerBuilder.cpp`) | | inserts the annotator between the optimizations | instances in a fixed order |
| First tuner: `try_and_check` of `old_tuner.py` (120-185) | decided string, intervals | a recursive function: try the first interval, halve, lower | as the search; bounded recursion |
| `utils.py`, `Overloads.cpp` | | JSON; empty | |
| LLVM, clang; CoMD, PENNANT, PathFinder, RSBench, XSBench, miniGMG | | third-party compiler and benchmarks | external |

**How they interact.** `run` takes the benchmarks one by one. `runBenchmark`
builds and verifies the program without optimism, then tunes the source files
one after the other, each in up to 14 rounds. A round compiles the file with
one annotator pass more than the last (`-optimistic-annotation-runs`), reads the
opportunities this pass reports, and runs a search over them. The search yields
control strings; for each the file is compiled with all passes, linked with the
object files of the other source files that are on disk, and verified; the
answer goes back to the search. What the search ends with is validated by force
and is the control string from which the next round starts. After the rounds
the choices are written into the source. The compiler is a new process each
time: the control string is the only thing the annotator remembers.

**What is hard.** One thread runs, so nothing interleaves; the difficulty is in
long sequences of legal steps. The bisection keeps a stack of blocks, pops it at
three places, and tests one choice more than it decides. A limit may end it
anywhere. Levels are kept in two places. Files of rejected builds, scans and
other source files stay on disk and are linked later. Builds are skipped when a
file has not changed. Errors end a file, a benchmark or nothing at all. The
annotator counts lookups to find its entry, with a cache by name beside it.
The final choices are merged into the source by comparing text, and an
experiment may start from a source that was annotated before. Annotations are
added to an IR that has some already, by up to eight instances in turn.
The hazards in `PROJECT.json` list these at their lines.

## 2. Modules

| Module | Models | Remarks |
|---|---|---|
| `OptimisticSearch` | what a search promises | abstract: choices are decided from the left by confirmed builds or lowered |
| `ChoiceExplorer` | the search | one action per path of the generator's loop; implements `OptimisticSearch` |
| `MCChoiceExplorer` | | instances for TLC |
| `VerifiedSearch`, `MCVerifiedSearch` | the search driven by a verification, and the forced validation | extends `ChoiceExplorer` and constrains its answers |
| `SearchProofs` | | invariants, finality, refinement and the number of builds of the search; when the assertion of line 620 holds and what a search finds, proved |
| `Tuner`, `MCTuner` | the experiment on one benchmark with the files on disk | a search is represented by the builds it asks for and what it ends with |
| `TunerProofs` | | what is written and what is left on disk was verified, proved |
| `ChoiceMaps`, `MCChoiceMaps` | the annotator's lookups over the rounds of a file | |
| `ChoiceMapsProofs` | | which entry of the string reaches which value, proved |
| `SourceControl`, `MCSourceControl` | `writeControl` over several experiments, with crashes, and what the next compilation finds | |
| `SourceControlProofs` | | which code and which choices survive in a source, proved |
| `Verification`, `MCVerification` | `makeAndVerify` and `runAndVerify` for one build after the other | what `valid` of `VerifiedSearch` and `Verify` of `Tuner` stand for |
| `VerificationProofs` | | the answer is about the build, proved |
| `FirstTuner`, `MCFirstTuner` | `try_and_check` of `old_tuner.py` | a second implementation of `OptimisticSearch` |
| `FirstTunerProofs` | | invariant, refinement and the number of builds, proved |
| `Annotations` | what the levels add to the IR | run directly |
| `AnnotationsProofs` | | all properties of `Annotations`, proved |
| `NumberLemmas` | | induction over the natural numbers and the solution of a recursive definition, for the proof modules |

**ChoiceExplorer.** The variables are the fields and locals of the generator.
Choices are indices, the dummy choice is index `N`. The control string of the
round is a function from the choices it mentions to levels; the headers (`#f`,
`#c`) and the strings of earlier rounds have no part in the search, the latter
but for being lost (`carried`). `Propose` is the head of the loop up to the `yield`,
`Resolve` the return when nothing is left, `CutOff` the end at a limit;
`Accept`, `Bisect`, `LimitChoice` are the three ways to go on with an answer.
An assertion or an index that fails leads to `pc = "failed"`. `accepted` is a
history variable, the last assignment answered TRUE. The pop loops appear as
`IsOpenDepth`, the depth of the stack that remains. `HasDeadline` lets the
deadline pass at any head of the loop.

**VerifiedSearch.** `valid`, the set of assignments the verification accepts,
is chosen once and always has the assignment without optimism, since
`runBenchmark` verified that build before. `ForcedValidation` is the handler of
`StopIteration`, up to the assertion.

**Tuner.** An object file is what matters of it for equality: the set of tokens of
its control string that change the code, and the number of passes that ran. A token
stands for what one search adds to the string. An executable is the tuple of
object files it is linked from; `Verify` gives each executable one answer for
good. `CompileSourceOptimistically` is the code's function, with its three
outcomes; a source and string that compiled once compile again, and a
compiler that fails may or may not remove its output file. `Scan` leaves the
object file of a compiler with few passes behind, as the code does. `Try` is a
string yielded by a search, `Conclude` and `ConcludeEmpty` its end with forced
validation. Exceptions: `InitialRaise` ends the benchmark in its first build (an
executable that cannot be deleted, a copy that fails after some files);
`ScanRaise` gives up the file after a scan, whose object file stays; `Raise` is an
I/O error in a build of a search, while the old executable is deleted, in the
comparison or in a copy, and gives up the file (`except Exception`) or, in the
handler of `StopIteration`, the benchmark. `passed`, `failed`, `compiled`, `answer` and `raised` are history
variables.

**ChoiceMaps.** All tables of the annotator are per kind, so one kind is
modelled. A value has a function, a name and a number, since several values of a
function may share a name (stores through one pointer, Annotator.cpp 305-309).
`meets` is the program: the passes that meet a value, any set of them (an
optimization may create or remove it; parameters and functions are met by the
first instance alone, loops by the last). `enough` is the level from which a kind
asks no more for a value: 1 for attributes (904-936), the greatest for alignments
(1138, 1224), none for control flow (1052). `Order` is
the order in which a pass visits the values, function by function. `Ask` is
`getOptimisticChoice` with the three sources of a level: an entry of the string,
the name cache, the default. `Visits` is one pass (a function of the number of
values visited), `Pipeline` the compiler process (a function of the number of
passes). `Scan` and `Search` are the tuner's round; a limit cuts the new entries
at any place of the report, which goes function by function (`CutAt`, `Before`,
`Entries`, `Appended`).

**SourceControl.** The file is a sequence of lines: code of the user, the
definition of a function's string, the reference that keeps it alive, or (after
a last line without newline) code with a definition. That the lines are found by
text matters only through which names contain which, so `EndsWith` and
`StartsWith` are relations between names. A control string is, for each kind, the
sequence of its levels (the headers `#k` only say which kind follows). `Only` is
the loop that filters, of lines (`Kept`) and of choices (`NewLevels`); `Functions` are
the keys of the dictionary, in the order in which they were added. `Experiment` is an experiment on the file up to the point where
`open(..., 'w')` has truncated it; what its builds saw (`InBuild`: the strings in
the source, then those of the command line unless `initializeChoiceMaps` returned
early) is remembered in `tuned`. `FinishWriting` and `Crash` end the write. In the
C code after a write, `Compiles` is what clang asks for.

**Verification.** `build` is what a build's verify command and runs do: late or
not, exit code, output, and whether it goes to `output.txt`. Each `NextBuild` is
an arbitrary one; only `output.txt` remains from the build before. `habit` says
whether the programs of the benchmark always use the file, never do, or either.
`Same` is Python's `is`.

**FirstTuner.** The recursion is a loop since each call is the last thing its
caller does. `intervals` is the set of its ends (`cuts`); `fixed` the number of
`decided` choices. `DepthBound` is stated with `OptionsBefore[N]`, the options of the
choices that are searched, and `Halvings[n]`, how often an interval of `n` choices
is halved until it is shorter than `MergeLength`. `Trim` is the head of the call (the zeros), `TryAndCheck` a
build with its three outcomes.

**Annotations.** One action per kind or group of kinds, in the order in which
`runOnModule` goes through them, and `NextInstance`. A flag or size of a
parameter, function or instruction is a `Slot`: all of them are asked for if they
are not there, and never taken back. Memory effects, memory behaviour, returned
parameters and parallel loops have state of their own. A function that is
speculatable accesses no memory (`Speculated`). What excludes each other is
checked of functions only (`Compatible`), as in `Verifier.cpp`. Loops are a forest;
`marks` is what `llvm.mem.parallel_loop_access` lists at the accesses of a loop's
own blocks. Levels are arbitrary: `ChoiceMaps` and the search say where they come
from.

**`Slip...` definitions.** Beside an operator there may be one named `Slip...`:
a mistake the code could have made in its place (a bound that is off by one, a
forgotten reset, a wrong comparison). They are used by no specification. Each
property of a passing run is violated when one of them replaces the operator it
stands beside, so no property here holds whatever the code does.

## 3. Runs

| Run | Instance | Shows |
|---|---|---|
| `search` | 7 choices of 2 or 3 options, any answers, deadline any time | the inductive invariant, `NoAssertionFails`, `NothingUnconfirmed`, `StringMatchesChoices` at every cut, `DecidedIsFinal`, the refinement `ImplementsPromise`, termination (`Returns`), fewer tries than all choices have options together (`EffortBound`) |
| `verified` | 5 choices of 2 or 3 options, at most 8 tries, deadline any time; verifications below one of two limits, with one optimistic assignment that passes, with one that fails | the forced validation fails only after one choice was dropped (`AssertionMeansDropped`), never for a monotone verification (`MonotoneSucceeds`), and exactly where each choice ends for an independent one (`ExactResult`) |
| `any_verifier` | every verification of 3 choices | finding: the assertion of line 620 can fail |
| `local_optimum` | 4 choices of 2 or 3 options, no limit, every independent verification | finding: the result is not a local optimum |
| `experiment` | 2 files, 3 rounds, 2 passes, errors anywhere | `WrittenWasValidated`, `LeftBehindIsVerified`, `TrueMeansVerified`, `Completes` |
| `lookups` | 4 values with 2 names in 2 functions (one name for two values of a function and one of the other), of 2 and 3 options; each met by any of 3 passes, asked for again up to any level; every outcome of 3 rounds | unless the name cache answers: entries reach their values (`AlignedUnlessReused`), levels are in range (`InRangeUnlessReused`), and what the searches chose is what is compiled (`EntriesTakeEffect`) |
| `source` | 4 functions, two of whose names contain a third; 2 kinds; 2 experiments of up to 2 choices, a crash in any of them; last line with and without newline | a function whose name is apart keeps its choices (`ApartKeepsChoices`); the user's code stays whole and in order, on disk or while it is written in memory, and a crash loses nothing but its end, which may be all of it (`CodeSurvives`) |
| `clash` | the same, last line with newline | finding: names that contain one another |
| `verification` | 2 pairs, 2 outputs, exit codes 1 and -6, all builds | an accepted build is correct, a rejected one is not (`AcceptedIsCorrect`, `RejectedIsWrong`), for programs that use `output.txt` always or never |
| `first_tuner` | 14 choices of 1 to 3 options, intervals joined from length 6 on | `DecidedIsAccepted`, the refinement `ImplementsPromise`, termination, the depth of the recursion (`DepthBound`) |
| `annotations` | all memory attributes, 2 parameters, all nests of 4 loops with any LoopIDs, 2 instances | `ModuleVerifies`, `KnownIsKept`, `StrongestFirst`, `ChosenIsParallel`, `ParallelIsChosen` |
| `present` | 1 parameter and 1 loop, 2 instances | finding: an attribute that is present is removed |

**Bounds.** *search*: 7 choices are bisected three times (7, 3, 1), with odd and even
remainders, and with the regrowth of a block after a lowered choice within two
open problems; options of 2 and 3 are the smallest numbers that are fixed at once
and in two steps. The number of tries is not bounded: the search ends by itself.
*verified*: every set of assignments of the kind is an initial state, which limits
N; 8 tries are fewer than some behaviours need. *any_verifier*: 3 choices are what
the dropped choice needs (a block, the one after it, another). *local_optimum*: a
choice and a limited one after it are enough. *experiment*: two
files are needed for one to be linked with what another left; the third round has
no pass to scan, as the rounds beyond the last pass of the pipeline in the code;
`MaxVersions` bounds how many accepted builds a file's searches may store before
`Conclude`, and is named in the guard of `Try`. Two picks, one that changes the code
and one that does not, are what the comparison of object files can tell apart.
*lookups*: three passes let a shift made in the second be read in the third; two
names and two functions, with three values of one name, let the cache answer for
another value of the same and of another function; two numbers of options let a
level be out of range and let `enough` be every bound that can matter.
*source*: `MaxExperiments` 2 is one experiment on a fresh and one on an annotated file; `MaxChoices` 2 allows two functions, two kinds or two choices of one
kind; the names cover a clash at either end, and one without; two lines of code
are one that may be lost and one before it. *verification*: two pairs and two outputs let a pair be judged by the output of the other; 1 and -6
are an exit code on either side of the numbers of which Python has one object
only. *first_tuner*: `MergeLength` is 16 in the code; 6 of 14 lets intervals be
joined twice; the second and the last choice have no levels, so that zeros are
met at the start, inside and at the end of an interval. *annotations*: four loops
are an outer one with a nest of two and a sibling, or a nest of four; `LoopInstance`
is 7 in the code, but the instances between the first and the last do what the last
does except for the loops. *present*: one function is enough.

`CHECK_DEADLOCK FALSE` is set where the program ends (everywhere but in
*verification*, whose builds go on for ever).

**Fairness.** The tuner is one thread that waits only for compilers, make and the
runs of the benchmark, and those runs have a time-out: after each answer it
continues. So `ChoiceExplorer` and `VerifiedSearch` have weak fairness of the whole
next-state relation. In `Tuner` the number of builds in a search is not part of
the model; that a search comes to an end (`Returns` of `ChoiceExplorer`) is assumed there
as weak fairness of `Conclude`. There is none for errors, for `ConcludeEmpty` or
for `Try`. `FirstTuner` is one thread as well: weak fairness of its next-state
relation. The other modules state no liveness and need no fairness.

## 4. Findings

1. **The assertion of line 620 can fail** (`any_verifier`). The string yielded at
   line 259 ends with one choice that is not decided by the answer. Later that
   choice can be lowered to 0 or cut off, so the final string was never built.
   `AssertionMeansDropped` shows this is the only cause, and
   `MonotoneSucceeds` that a monotone verification is safe from it. The
   exception is not caught by the `except` clauses of the same `try`: it ends the
   benchmark, without a choice written for this file.
2. **Names that contain one another** (`clash`). `writeControl` finds the lines of a
   function as substrings (lines 395, 398). On a file annotated before it deletes or
   takes over the lines of a function whose name contains that of a tuned one:
   `grid_search_nuclide` for `grid_search` (XSBench), `residual_and_restriction` for
   `residual` (miniGMG). `ApartKeepsChoices` shows that names that are apart are safe.
3. **The result is not a local optimum** (`local_optimum`). The paper says it is,
   and that an opportunity is lowered when it was tested in isolation (ISC19.pdf,
   page 11). The code tests a choice together with the one after it (line 259) and
   lowers it when the two fail, so that a choice ends at 0 because the next one is
   limited, although choices do not influence each other. `ExactResult` says
   where each choice ends instead.
4. **A present annotation is removed** (`present`). By the paper nothing is added
   where one of the possible choices is already present (ISC19.pdf, page 10). A
   function that only reads or only writes is asked for its memory effects all the
   same, and any level above 0 first removes `readonly` and `writeonly`
   (Annotator.cpp 728). `KnownIsKept` shows that nothing else is forgotten.

Four more disagreements have no run of their own. Each is the exception that a
property of a passing run makes.

* *Earlier rounds are lost.* The paper accumulates annotations (ISC19.pdf, page 2). A
  limit that hits before a search decided anything empties the string (line 318),
  with the strings of all earlier rounds, and nothing is written for the file.
  `CarriedUnlessNothingDecided`, a part of `IInv`, says that nothing else does.
* *Levels out of range.* The name cache gives a value the level of another one of its
  name, which may have more options; `createSpeculativeAssumptions` asserts that it
  cannot (Annotator.cpp 1062). `InRangeUnlessReused` says that only the cache does.
* *The last line of the code is lost.* The lines are joined as they are (line 409): if the
  source does not end with a newline, the first definition continues its last line,
  and the next experiment deletes this line with the definition. What "remains
  valid" by the paper does not compile any more. `CodeSurvives` says that no other line
  is lost without a crash.
* *A second returned parameter.* The annotator adds the attribute to the parameter that
  was chosen whether or not another one has it (Annotator.cpp 896), the verifier
  rejects the module, and the `llvm_unreachable("Verification failed")` of line 568 is
  reached. `ModuleVerifies` says that there is no other way to it.

Other behaviour worth knowing, which contradicts no document. A lookup that the
cache answers takes a position and gets no entry in the string, so that later
entries are shifted (the condition of `AlignedUnlessReused`). A crash while the
source is written leaves a beginning of the file, possibly nothing, and no other
copy of the code; where definitions without reference are left, the next
experiment appends to them although its builds did not see them (which is why
`StandsForTuned` and `ApartKeepsChoices` end at the first crash). A program that
writes `output.txt` in some runs only is judged by an output that is not its own
(the condition `Separate`). An expected exit code of a signal from 6 on is never met
(the condition of `RejectedIsWrong`). A loop that had a LoopID of its own can become
parallel with level 0 (the condition of `ParallelIsChosen`).

## 5. Proofs

All proofs hold for every value of the constants under the named assumptions:
`N > 0`, every choice has at least two options (`OptionsAssumption`: each
call of `getOptimisticChoice` that is compiled passes a constant of 2 or more,
or one more than the size of a list that is not empty; `ChoicesAssumption` in
`ChoiceMaps`; one option is enough for the first tuner), a limit is a number or `None`, a verification accepts the program
without optimism (`VerifiersAssumption`), values have a function, a name and a number
(`ValueAssumption`), a pass visits each value once and one
function after the other (`OrderAssumption`), and there is a file, a function, a
name, a pass (`FilesAssumption`, `SizeAssumption`). In particular, no number of choices,
options, files, rounds, passes, functions, names, values, parameters, loops,
pairs, lines of code or experiments is bounded in a theorem; `MaxVersions` may be
any number. `SourceControl` assumes that a name does not contain itself in the
relations (`NamesAssumption`), that a source has a line (`SourceAssumption`) and that
the bounds are numbers (`BoundAssumption`); nothing is assumed of which names contain
which. `MergeAssumption` says that an interval that is joined has two
choices or more; the code's 16 does.

*SearchProofs, the search.* The properties are not inductive: that no assertion fails
depends on where the open problems end. `IInv` adds, while the search runs,
`LoopInv`: the block starts at `firstPos`, exactly the choices before it are fixed,
all others have optimism left, string and objects agree, and the block and the
outermost problem end at `N`. It adds `AcceptedUpTo(p)` for some decided `p`: before
`p` the last accepted assignment is the decided one, after `p` it has nothing,
and what was decided after `p` was decided against. There is a lemma per action
(`ProposeIInv` ... `LimitChoiceIInv`); `Invariance` puts them together, and
`TypeCorrect`, `AssertionsHold`, `StringAgrees`, `OnlyConfirmedOptimism`
follow. `Finality` and `Implementation` are step proofs from the same invariant:
`Accept` maps to `Confirm`, `LimitChoice` to `Lower`, `Resolve` and `CutOff` to
`Return`, and the other steps to stutters. `Effort` bounds the builds by
the number of options (`EffortBound`), and so, with `Returns`, says what a search
costs. Its invariant `EffortInv` is an account:
the builds so far are paid for by the options of the choices before the current
one, the levels taken off it, and the places where open problems end. Bisecting a
block costs a build and opens an end; an accepted build closes the ends it passes,
and passes at least as many choices; a lowered choice pays with a level.

*SearchProofs, its verification.* `VInv` adds that the last accepted assignment is in `valid`
and that a verdict "assertion" means `value` is not. By `NothingUnconfirmed` the
returned assignment is the accepted one except for one choice at 0
(`ReturnedIsAccepted`). If they are equal the verdict is success, which gives
`AssertionOnlyAfterDrop`; if the verification is monotone the smaller assignment is
valid too, which gives `MonotoneVerifies`: `MonotoneSucceeds` for every number of
choices, options and verification, with any limit. `Exactness` (`ExactResult`) is about
an independent verification, one that accepts what lies below a limit for
each choice. `ExactInv` says that each decided choice is exactly at its limit,
or at 0 if the choice after it is limited, and that the current choice is not
below its own: all before it was accepted, so a rejected build of one
choice means that this choice, or the one built along with it, is above its limit.

*TunerProofs, what is written.* `WrittenWasValidated` speaks of the files already
written. `WrittenInv` adds what is known of the present file between rounds: its string, unless
empty, was validated with some executable; its choices are those of its string,
unless a limit emptied the string, and then no search starts any more; nothing is
written into it or a later file. `BuildFacts` says what a build answered TRUE by
force establishes. The invariant holds with exceptions and compile errors
anywhere.

*TunerProofs, what is left on disk.* `LeftInv` relates the stored versions, the disk
and `passed`. As long as no exception was raised: the object files of the other source files are
those of their strings; with them, the last valid version of the present file makes
an executable that passed; between searches the executable of the present strings
is on disk. A rejected build or a scan replaces the present object file and
neither the last valid version nor the other files (`BuildKeeps`), so a build
that equals the last valid version needs no verification (`TrueBuild`,
`AnswersAreVerified`: `TrueMeansVerified`). After the last round the object file on disk is
that of the string, because a scan in that round runs all passes
(`LastScanIsFull`); if the compiler failed in it, it would fail on what it has compiled
before (`ScanErrorLeft`). `ResultsOnDisk` (`LeftBehindIsVerified`) follows. After an
exception the invariant says nothing of the disk, as the properties do.
`TunerTypeCorrect` needs `TypeInv`: strings hold at most one token of a round, in
the order of the rounds, executables are linked from an object file of each source
file, and a version is stored whenever a build is compared with one.

*FirstTunerProofs.* `Inv` is `TypeOK` and `DecidedIsAccepted`, and is inductive
(`FirstTunerInvariance`): a build mentions the decided choices and the first
interval and decides exactly that interval, choices at level 0 are decided without
one, and a choice is lowered only before it is decided. `FirstTunerTypeCorrect` and
`StringsPassed` are its parts. `FirstTunerImplementsPromise` maps an accepted build, and zeros
that are decided without one, to `Confirm`, a choice that is lowered to `Lower`,
and halving to a stutter.

*FirstTunerProofs, the number of builds.* `FirstTunerDepth` (`DepthBound`) needs an
account, as `Effort` does, but a half that is joined with the next interval leaves
nothing that pays for its build. `Spent` is what options of decided choices,
levels of the next choice and ends of intervals pay for. `EffortInv` says that
the other builds are at most `Halvings[N]` for each of `r` intervals of at least
`HalfLength` choices, which lie before what is decided (`Settled`), before the end of
the short interval that comes next (`Short`), or are followed by an interval in the
middle of its halvings (`Long`). Accepting and lowering pay for themselves and settle
what was open (`AccountStays`); so does halving a short or the last interval, which
adds an end. Halving a long one uses one of the halvings it has left
(`JoinEffort`) and ends, when the half is short, with the next interval of
`HalfLength` choices (`LengthFacts`). There are no more than `N \div HalfLength` of
these (`Quotients`), and no more is spent than there are options (`SpentBound`), since
each end follows a choice that is searched (`EndsPaid`).

*VerificationProofs.* The invariant says that the pairs before `next` were right, and
that a verdict agrees with `Correct`. What `output.txt` holds is known only as far
as `Separate` goes: either no run writes it, or each run that gets as far as the
comparison has just written it.

*SourceControlProofs.* What a filter leaves is described by an increasing map of
positions (`Picks`, `OnlyFacts`); the lines written, by where each comes from: a kept
line, one of the two lines of a function, or the line that was continued
(`WrittenFacts`, `Places`). `CodeSurvives` (`OnlyCrashesLoseCode`) is not
inductive alone: a line of code stays only if nothing was appended to it, which
`CodeIsApart` adds, and the lines about to be written have the code in its order
(`InOrder(pending)`), because kept lines stay in the order of the file. What a
crash leaves is a prefix of these lines, so that after a line of code that is missing
there is no other (`OnlyEndIsLost`). `WrittenIsWellFormed`
gives the types: no function is defined twice, although its lines may be taken for
another's. For a function whose name is apart (`ApartMatches`: its lines
are taken for it and nothing else) either its string is written, from the
one it had and the new levels (`WrittenHasNew`, with `EarlierIsInSource`), or its
lines are kept (`WrittenHasOld`); `Complete` says that its definition has its
reference and is what the builds saw. That the builds saw the string of the
command line at all (`ReturnsEarly`) follows from no string being empty
(`NoEarlyReturn`). A crash leaves a prefix (`PrefixFacts`), in which a string has its
reference or is not found.

*AnnotationsProofs.* `IInv` adds to the types that the memory attributes of a
function never contradict each other, that a function that may be speculated accesses
no memory, that at most one parameter has
the attribute *returned* (unless one had it before), that only chosen loops got a LoopID, and
that chosen loops are parallel. What the thirteen levels of the memory effects permit is
worked out level by level (`LevelPermits`), from which follows that no lower level
says strictly more than a higher one (`LevelsOrdered`, `NoneOrdered`, for
`LevelsGoDown`). The loops around a loop are a recursive function of the
nest: that it exists (`AroundExists`), and that a loop is around itself, is what
`ChosenLoopsAreParallel` and `OnlyChosenAreParallel` need for forests of any depth.

*ChoiceMapsProofs.* The string is written by one process and read by others, with
another length and other passes enabled, so the proof compares processes. (1) The
tables only grow: indices, cache, levels, lookups (`VisitGrows`, `PipelineGrows`).
(2) As long as a string serves, a longer one that begins with it answers the same
(`Follow`): what is appended for a new pass does not disturb the earlier ones.
(3) A pass that starts where the string ends finds no entry, and if the cache is
silent too, reports exactly the values it asks for, once each and in its order
(`Exhausted`, `Found`, `Report`). (4) If entries for that report are appended, the
same pass, run again, reads for each of these values its entry
(`NextEntry`, `NextVisit`, `NextPass`, `NextInstance`), and uses all of them unless a limit cut the
report. (5) A value with an entry is in the cache under its name, so a report
without reuse never has a value that has an entry (`EntriesRemembered`): the string
keeps one entry for each (`StillOnce`). (6) Levels are those of
entries, and aligned entries are in the range of their values (`LevelsInRange`).
(7) An entry that was read is in effect, its name in the cache (`ReadInEffect`). It
stays so (`VisitInEffect`): a later lookup of its value can find no second entry for
it, since there is none, and with no entry left the cache would answer. As every
process reads the string to its end (`Used`), all entries are in effect
(`AllInEffect`, for `EntriesTakeEffect`).
`IInv` says between searches that the string serves the passes of all rounds so far
exactly, and before a search what the last scan reported; `ScanIInv` and
`SearchIInv` are the two steps. `AlignedInFirstInstance` holds with reuse: the cache is
empty when the first scan runs, and from then on an entry answers before it.

*NumberLemmas.* A set of numbers that holds 0 and every successor holds all of
them, from the well-foundedness of their order; and a recursive definition over
`0 .. k` has a solution (`Iteration`). Induction is stated for sets, not for operators,
so that the provers can instantiate it: the proofs above that follow a
recursive function (`Visits`, `Pipeline`, `Around`, `OptionsBefore`, `Halvings`, `Only`)
cite it with the
set of steps for which the claim holds.

## 6. Only model-checked

* `Returns` (of both searches) and `Completes`: liveness under fairness.

  `tlapm` has no rules for ENABLED and so none for fairness. What can be said without is
  proved: the builds are bounded (`Effort`, `FirstTunerDepth`), and before its end a
  search always has a step to take, with any answer (`AnswersAreTaken`,
  `FirstTunerGoesOn`). What `Returns` adds is that the steps are taken, and that only so
  many of them are no builds.

Every other property of a passing run is the statement of a theorem.

## 7. Not modelled

* What annotations mean for the optimizations that follow, and what these do to
  the IR between two instances of the annotator: the models say which
  instances meet a value (`ChoiceMaps`) and nothing else of them.
* Which assumptions `createSpeculativeAssumptions` inserts where; `annotateCalls`
  does nothing.
* The command-line filters (black- and whitelist, only-functions) and
  `-optimistic-annotations-default`.
* The exit code of make, the `.broken` copies, statistics and logs; reading
  benchmark files.
* File names (part of the `KeepAlive_` identifiers) and characters of a control
  string beyond one byte.
* `utils.py` (no state), `Overloads.cpp` (empty), LLVM and the benchmarks
  (third-party). They make up nearly all of the repository: the parts modelled
  are the ones written for this system, two scripts and one pass.

## 8. Plan

Done, in this order: `OptimisticSearch`, `ChoiceExplorer` and its proofs,
`VerifiedSearch` and its proofs, `Tuner` and its proofs, `ChoiceMaps`,
`SourceControl`, `Verification` and its proofs, `FirstTuner` and its proofs,
`Annotations` and its proofs, the proofs of `ChoiceMaps` and of `SourceControl`, the bound
on the builds of the first tuner.

Left to model: the insertion points of speculative
assumptions.
