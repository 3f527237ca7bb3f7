--------------------------------- MODULE Tuner ---------------------------------
(***************************************************************************)
(* One benchmark of the experiment: runBenchmark, optimizeAndRun and the    *)
(* builds of compileSourceOptimistically, determineOptimisticChoices and    *)
(* makeAndVerify, with the files they leave in the benchmark's directory.   *)
(*                                                                         *)
(* The source files are tuned one after the other.  For each, up to Rounds  *)
(* times, the compiler is asked for the opportunities of one more annotator *)
(* pass (a scan) and a search (ChoiceExplorer) tries control strings for    *)
(* them.  What one search adds to a control string is a token: its round,   *)
(* and which of the possible outcomes of the search it is (a pick).         *)
(*                                                                         *)
(* An object file is known by the tokens that have an effect on the code    *)
(* and by the number of annotator passes that ran (depth).  An executable   *)
(* is the object files it was linked from; what the verification says of    *)
(* one executable never changes.                                           *)
(***************************************************************************)
EXTENDS Integers, SequencesExt

CONSTANTS
    NumFiles,     \* len(benchmark.source_files)
    Rounds,       \* 14 in the code
    Instances,    \* annotator passes in the pipeline of the compiler
    Picks,        \* outcomes of a search
    Idle,         \* the picks that leave the code unchanged
    MaxVersions,  \* bound: verified versions of a file in its searches
    None

ASSUME FilesAssumption == NumFiles \in Nat \ {0}
ASSUME RoundsAssumption == Rounds \in Nat /\ Instances \in 1 .. Rounds
ASSUME PicksAssumption == Idle \subseteq Picks /\ Picks # {}
ASSUME BoundAssumption == MaxVersions \in Nat

File == 1 .. NumFiles

VARIABLES
    pc,        \* "initial", "scan", "search", "done", "aborted"
    file,      \* the source file being tuned
    round,     \* self.annotation_run
    stop,      \* stop of optimizeAndRun: a limit ended the last search
    text,      \* current_control_string of each file
    choices,   \* source_file.optimistic_choices
    written,   \* what writeControl put into the source, or None
    obj,       \* the object file of each source file on disk
    exe,       \* the executable on disk, or None
    version,   \* benchmark._num_out_versions
    stored,    \* object files kept in temp_directory, number 0 first
    answer,    \* history: what the last compileSourceOptimistically returned
    passed,    \* history: executables that passed the verification
    failed,    \* history: executables that failed it
    raised,    \* history: has an exception left a file half done
    compiled   \* history: <<file, object>> that compiled without an error

progress == <<file, round, stop>>
results == <<text, choices, written>>
disk == <<obj, exe, version, stored>>
history == <<answer, passed, failed, raised, compiled>>
vars == <<pc, progress, results, disk, history>>

-------------------------------------------------------------------------------

Token == [round : 1 .. Rounds, pick : Picks]
Effective(token) == token.pick \notin Idle

\* The object file for a control string when depth annotator passes run; a
\* string has one token of a round at most, in the order of the rounds.
Object(string, depth) ==
    [code |-> {token \in ToSet(string) : Effective(token)},
     depth |-> IF depth < Instances THEN depth ELSE Instances]

\* -optimistic-annotation-runs is not given: all passes run.
Full(string) == Object(string, Instances)

ObjectFile == [code : SUBSET Token, depth : 1 .. Instances]

\* Each round adds its token behind those of earlier rounds.
InOrder(s) == \A i, j \in DOMAIN s : i < j => s[i].round < s[j].round

TypeOK ==
    /\ pc \in {"initial", "scan", "search", "done", "aborted"}
    /\ file \in File
    /\ round \in 0 .. Rounds
    /\ stop \in BOOLEAN
    /\ text \in [File -> Seq(Token)]
    /\ choices \in [File -> Seq(Token)]
    /\ \A f \in File : InOrder(text[f]) /\ InOrder(choices[f])
    /\ written \in [File -> {None} \cup Seq(Token)]
    /\ obj \in [File -> {None} \cup ObjectFile]
    /\ exe \in {None} \cup [File -> ObjectFile]
    /\ version \in 0 .. MaxVersions + Rounds
    /\ stored \in [File -> Seq(ObjectFile)]
    /\ answer \in BOOLEAN
    /\ passed \cap failed = {}
    /\ raised \in BOOLEAN

Init ==
    /\ pc = "initial"
    /\ file = 1
    /\ round = 0
    /\ stop = FALSE
    /\ text = [f \in File |-> <<>>]
    /\ choices = [f \in File |-> <<>>]
    /\ written = [f \in File |-> None]
    /\ obj = [f \in File |-> None]
    /\ exe = None
    /\ version = 0
    /\ stored = [f \in File |-> <<>>]
    /\ answer = FALSE
    /\ passed = {}
    /\ failed = {}
    /\ raised = FALSE
    /\ compiled = {}

-------------------------------------------------------------------------------
(* Builds *)

\* The verify command and the input/output pairs are run on the executable e.
Verify(e, ok) ==
    /\ e \in passed => ok
    /\ e \in failed => ~ok
    /\ passed' = IF ok THEN passed \cup {e} ELSE passed
    /\ failed' = IF ok THEN failed ELSE failed \cup {e}

\* The compiler treats the same source and control string alike.
Compiles(object) == <<file, object>> \in compiled

\* (The definitions named Slip... are mistakes the code could have made in
\* the operator that follows: the properties below tell them apart.)

\* The copy of the last valid object file that a new one is compared with.
SlipOnDisk == obj[file]
LastValid == stored[file][version + 1]

\* A build that changes nothing needs no verification, unless it is forced.
SlipForced(string, forced) == Full(string) = LastValid
Unchanged(string, forced) == ~forced /\ Full(string) = LastValid

\* compileSourceOptimistically: the executable is deleted first.

\* A compiler that fails may have removed the object file of the last build.
KeepOrLose == obj' \in {obj, [obj EXCEPT ![file] = None]}

\* The compiler fails.
CompileError(string) ==
    /\ ~Compiles(Full(string))
    /\ KeepOrLose
    /\ exe' = None
    /\ answer' = FALSE
    /\ UNCHANGED <<version, stored, passed, failed, raised, compiled>>

\* The object file is the last valid version byte for byte.
SameAsLastValid(string, forced) ==
    /\ Unchanged(string, forced)
    /\ obj' = [obj EXCEPT ![file] = Full(string)]
    /\ exe' = None
    /\ answer' = TRUE
    /\ compiled' = compiled \cup {<<file, Full(string)>>}
    /\ UNCHANGED <<version, stored, passed, failed, raised>>

\* make links the executable from the object files on disk and it is
\* verified; an object file that passes is kept as the last valid version.
LinkAndVerify(string, forced) ==
    /\ ~Unchanged(string, forced)
    /\ obj' = [obj EXCEPT ![file] = Full(string)]
    /\ exe' = obj'
    /\ compiled' = compiled \cup {<<file, Full(string)>>}
    /\ \E ok \in BOOLEAN :
          /\ Verify(exe', ok)
          /\ answer' = ok
          /\ IF ok
             THEN /\ version' = version + 1
                  /\ stored' = [stored EXCEPT ![file] =
                         Append(SubSeq(@, 1, version + 1), Full(string))]
             ELSE UNCHANGED <<version, stored>>
    /\ UNCHANGED raised

CompileSourceOptimistically(string, forced) ==
    \/ CompileError(string)
    \/ SameAsLastValid(string, forced)
    \/ LinkAndVerify(string, forced)

-------------------------------------------------------------------------------
(* runBenchmark *)

\* makeAndVerify(initial=True): all files are compiled without optimism and
\* the object files kept as version 0 before the executable is verified.
InitialBuild ==
    /\ pc = "initial"
    /\ obj' = [f \in File |-> Full(<<>>)]
    /\ exe' = obj'
    /\ stored' = [f \in File |-> <<Full(<<>>)>>]
    /\ compiled' = {<<f, Full(<<>>)>> : f \in File}
    /\ \E ok \in BOOLEAN :
          /\ Verify(exe', ok)
          /\ pc' = IF ok THEN "scan" ELSE "done"
    /\ UNCHANGED <<progress, results, version, answer, raised>>

\* A file f does not compile without optimism: the benchmark is given up.
InitialError ==
    /\ pc = "initial"
    /\ pc' = "done"
    /\ \E f \in File :
          /\ obj' = [g \in File |-> IF g < f THEN Full(<<>>) ELSE None]
          /\ compiled' = {<<g, Full(<<>>)>> : g \in 1 .. f - 1}
    /\ UNCHANGED <<progress, results, exe, version, stored>>
    /\ UNCHANGED <<answer, passed, failed, raised>>

\* An exception in makeAndVerify(initial=True) ends the benchmark: an old
\* executable cannot be deleted, or the first n object files are kept when a
\* copy fails.
InitialRaise ==
    /\ pc = "initial"
    /\ pc' = "aborted"
    /\ raised' = TRUE
    /\ \/ UNCHANGED <<obj, exe, stored, compiled>>
       \/ /\ obj' = [f \in File |-> Full(<<>>)]
          /\ exe' = obj'
          /\ compiled' = {<<f, Full(<<>>)>> : f \in File}
          /\ \E n \in 0 .. NumFiles :
                stored' = [f \in File |-> IF f <= n THEN <<Full(<<>>)>> ELSE <<>>]
    /\ UNCHANGED <<progress, results, version, answer, passed, failed>>

\* The loop over the source files goes on: the version counter restarts.
SlipSameFile ==
    /\ pc' = "scan"
    /\ round' = 0
    /\ stop' = FALSE
    /\ version' = 0
    /\ UNCHANGED file
NextFile ==
    IF file = NumFiles
    THEN pc' = "done" /\ UNCHANGED <<progress, version>>
    ELSE /\ pc' = "scan"
         /\ file' = file + 1
         /\ round' = 0
         /\ stop' = FALSE
         /\ version' = 0

\* The condition of optimizeAndRun's loop over the rounds.
SlipRound == round <= Rounds /\ ~stop
RoundsLeft == round < Rounds /\ ~stop

\* optimizeAndRun returned True: the choices are written into the source if
\* a control string is left.
FileDone ==
    /\ pc = "scan"
    /\ ~RoundsLeft
    /\ written' = IF text[file] # <<>>
                  THEN [written EXCEPT ![file] = choices[file]]
                  ELSE written
    /\ NextFile
    /\ UNCHANGED <<text, choices, obj, exe, stored, history>>

-------------------------------------------------------------------------------
(* optimizeAndRun *)

\* determineOptimisticChoices compiles the file with one more annotator pass
\* than before and reads the opportunities that pass reports, if there is
\* such a pass.  The object file is replaced, the executable stays.
Scan ==
    /\ pc = "scan"
    /\ RoundsLeft
    /\ round' = round + 1
    /\ obj' = [obj EXCEPT ![file] = Object(text[file], round')]
    /\ compiled' = compiled \cup {<<file, obj'[file]>>}
    /\ pc' \in IF round' <= Instances THEN {"scan", "search"} ELSE {"scan"}
    /\ UNCHANGED <<file, stop, results, exe, version, stored>>
    /\ UNCHANGED <<answer, passed, failed, raised>>

\* The compiler fails in the scan: (0, []), and the next round begins.
ScanError ==
    /\ pc = "scan"
    /\ RoundsLeft
    /\ round' = round + 1
    /\ ~Compiles(Object(text[file], round'))
    /\ KeepOrLose
    /\ UNCHANGED <<pc, file, stop, results, exe, version, stored, history>>

\* An exception in the scan once the compiler is done, its report cannot be
\* decoded say: optimizeAndRun returns False and the object file stays.
ScanRaise ==
    /\ pc = "scan"
    /\ RoundsLeft
    /\ raised' = TRUE
    /\ obj' = [obj EXCEPT ![file] = Object(text[file], round + 1)]
    /\ compiled' = compiled \cup {<<file, obj'[file]>>}
    /\ NextFile
    /\ UNCHANGED <<results, exe, stored, answer, passed, failed>>

\* The control strings of a search: the present string and one more token.
Extended(pick) == Append(text[file], [round |-> round, pick |-> pick])

\* The search yields a control string and is sent the answer.
Try ==
    /\ pc = "search"
    /\ version < MaxVersions
    /\ \E pick \in Picks : CompileSourceOptimistically(Extended(pick), FALSE)
    /\ UNCHANGED <<pc, progress, results>>

\* The assertion on the forced validation ends the benchmark when it fails.
SlipAssert == "scan"
AfterValidation == IF answer' THEN "scan" ELSE "aborted"

\* The search returns a string in which choices are decided, (tries, limit),
\* which is validated by force and becomes the file's string either way.
Conclude ==
    /\ pc = "search"
    /\ \E pick \in Picks :
          /\ CompileSourceOptimistically(Extended(pick), TRUE)
          /\ text' = [text EXCEPT ![file] = Extended(pick)]
          /\ choices' = [choices EXCEPT ![file] =
                            Append(@, [round |-> round, pick |-> pick])]
    /\ stop' \in BOOLEAN
    /\ pc' = AfterValidation
    /\ UNCHANGED <<file, round, written>>

\* A limit ends the search before a choice is decided: its string is empty,
\* without the strings of earlier rounds.
ConcludeEmpty ==
    /\ pc = "search"
    /\ CompileSourceOptimistically(<<>>, TRUE)
    /\ text' = [text EXCEPT ![file] = <<>>]
    /\ stop' = TRUE
    /\ pc' = AfterValidation
    /\ UNCHANGED <<file, round, choices, written>>

\* An I/O error while the executable of the last build is deleted, or while the
\* new object file is compared to the last valid version or, after the
\* verification, is copied; then it stays.  optimizeAndRun returns False, and
\* runBenchmark goes on with the next file; in the forced validation the
\* exception ends the benchmark.
Raise ==
    /\ pc = "search"
    /\ raised' = TRUE
    /\ \/ exe # None /\ UNCHANGED <<obj, exe, passed, failed, compiled>>
       \/ /\ \E pick \in Picks :
                obj' = [obj EXCEPT ![file] = Full(Extended(pick))]
          /\ compiled' = compiled \cup {<<file, obj'[file]>>}
          /\ \/ exe' = None /\ UNCHANGED <<passed, failed>>
             \/ exe' = obj' /\ \E ok \in BOOLEAN : Verify(exe', ok)
    /\ \/ NextFile
       \/ pc' = "aborted" /\ UNCHANGED <<progress, version>>
    /\ UNCHANGED <<results, stored, answer>>

-------------------------------------------------------------------------------

Next ==
    \/ InitialBuild \/ InitialError \/ InitialRaise \/ FileDone
    \/ Scan \/ ScanError \/ ScanRaise
    \/ Try \/ Conclude \/ ConcludeEmpty
    \/ Raise

\* Nothing here waits for anything, and every search returns: the promise of
\* ChoiceExplorer stands for its builds (Try) coming to an end.
Spec ==
    /\ Init
    /\ [][Next]_vars
    /\ WF_vars(InitialBuild \/ FileDone \/ Scan)
    /\ WF_vars(Conclude)

-------------------------------------------------------------------------------
(* Properties *)

\* The choices runBenchmark writes into a source file are those of the
\* control string the file ended with, and an executable with the object
\* file they produce was verified as a whole (lines 548-561, 616-620).
WrittenWasValidated ==
    \A f \in File : written[f] # None =>
        /\ written[f] = text[f]
        /\ \E e \in passed : e[f] = Full(text[f])

\* A build is answered TRUE only if the executable of the object files that
\* are on disk now passed: no verification is needed when the new object
\* file is the last valid version (lines 668-679), although that version
\* may have been verified long before, and scans have replaced the file on
\* disk since.  After an exception it is not so: the object file of another
\* source file, left by a rejected build, may be on disk.
TrueMeansVerified ==
    [][/\ Try \/ Conclude \/ ConcludeEmpty
       /\ answer'
       /\ ~raised
       => obj' \in passed']_vars

\* What the experiment leaves in the directory is what it reports: the
\* object files of the final control strings, although the last compilation
\* of a file is a scan, and a verified executable linked from them.
LeftBehindIsVerified ==
    pc = "done" /\ passed # {} /\ ~raised =>
        /\ \A f \in File : obj[f] = Full(text[f])
        /\ exe = obj
        /\ exe \in passed

\* The benchmark comes to an end whatever fails.
Completes == <>(pc \in {"done", "aborted"})

-------------------------------------------------------------------------------
(* The inductive invariant of WrittenWasValidated *)

Validated(f) == \E e \in passed : e[f] = Full(text[f])

\* While the experiment runs, nothing is written yet into the present file
\* and those behind it, which have no string either; the string of the
\* present file, unless a limit emptied it, was validated and agrees with
\* its choices.
RunningInv ==
    /\ \A f \in File : f >= file => written[f] = None
    /\ \A f \in File : f > file => text[f] = <<>> /\ choices[f] = <<>>
    /\ text[file] # <<>> => Validated(file)
    /\ (stop /\ text[file] = <<>>) \/ choices[file] = text[file]
    /\ pc = "search" => ~stop

WrittenInv ==
    /\ file \in File
    /\ DOMAIN text = File /\ DOMAIN choices = File
    /\ DOMAIN written = File /\ DOMAIN obj = File
    /\ pc \in {"initial", "scan", "search"} => RunningInv
    /\ WrittenWasValidated

-------------------------------------------------------------------------------
(* The inductive invariant of TypeOK *)

\* The rounds that have added to the strings of the present file.
Finished == IF pc = "search" THEN round - 1 ELSE round

\* While the experiment runs, no token is newer than the last finished round,
\* each of which has kept one version beyond the bound at most; the versions
\* of the present file are there up to the last valid one, and an object
\* file is missing only while it is still scanned or searched for, in a search
\* with the executable.
RunningTypes ==
    /\ pc = "search" => round > 0
    /\ \A i \in DOMAIN text[file] : text[file][i].round <= Finished
    /\ \A i \in DOMAIN choices[file] : choices[file][i].round <= Finished
    /\ version <= MaxVersions + Finished
    /\ version < Len(stored[file])
    /\ <<file, Full(text[file])>> \in compiled
    /\ \A f \in File \ {file} : obj[f] \in ObjectFile
    /\ pc = "search" /\ exe # None => obj[file] \in ObjectFile
    /\ pc = "search" \/ RoundsLeft \/ obj[file] \in ObjectFile
    /\ \A f \in File : f > file =>
          /\ text[f] = <<>> /\ choices[f] = <<>>
          /\ Len(stored[f]) > 0
          /\ <<f, Full(<<>>)>> \in compiled

TypeInv ==
    /\ TypeOK
    /\ pc = "initial" =>
          /\ file = 1 /\ round = 0 /\ version = 0 /\ ~stop
          /\ \A f \in File : text[f] = <<>> /\ choices[f] = <<>>
    /\ pc \in {"scan", "search"} => RunningTypes

===============================================================================
