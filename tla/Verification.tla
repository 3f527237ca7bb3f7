------------------------------ MODULE Verification ------------------------------
(***************************************************************************)
(* The verification of one build after the other, makeAndVerify and        *)
(* runAndVerify of optimistic_tuner.py: the verify command of the          *)
(* benchmark, then a run of the program for each input/output pair.        *)
(*                                                                         *)
(* All builds run in one directory.  A program gives its output in the     *)
(* file output.txt or on its streams; the file is compared if it exists,   *)
(* and nothing deletes it.                                                 *)
(*                                                                         *)
(* Of a text only that matters which pairs' patterns it matches.  A run    *)
(* that raises an exception (an output that is not UTF-8, a program that   *)
(* cannot be started) is rejected like a run that exceeds its time.        *)
(***************************************************************************)
EXTENDS Integers

CONSTANTS
    NumPairs,  \* input/output pairs of the benchmark
    Text,      \* outputs of a program
    Matches,   \* the outputs that match the pattern of a pair
    Code,      \* exit codes; negative after a signal
    None

Pair == 1 .. NumPairs

ASSUME PairsAssumption == NumPairs \in Nat /\ Matches \in [Pair -> SUBSET Text]
ASSUME CodeAssumption == \A c \in Code : c \in Int /\ c <= 255
ASSUME NoneAssumption == None \notin Text

\* What a run of the program does.
Run == [late : BOOLEAN, code : Code, text : Text, toFile : BOOLEAN]
Build == [command : BOOLEAN, run : [Pair -> Run]]

VARIABLES
    expectedCode,  \* returncode of the pairs
    habit,         \* how the programs give their output: "file" and "stream"
                   \* are those of one mind, "either" the others
    outputTxt,     \* output.txt, None if there is no such file
    build,         \* the build that is verified
    next,          \* the next pair, 0 before the verify command
    verdict        \* "running", "accepted" or "rejected"

vars == <<expectedCode, habit, outputTxt, build, next, verdict>>

\* (The definitions named Slip... are mistakes the code could have made in
\* the operator that follows: the properties below tell them apart.)

\* run_result.returncode is not io_pair.returncode: Python has one object for
\* each number from -5 to 256, and makes a new one for any other.
SlipSame(code, expected) == code = 0
Same(code, expected) == code = expected /\ code \in -5 .. 256

\* Programs of a benchmark: those that write output.txt do so in every run
\* that ends as expected.
Behaves(run, p) ==
    /\ habit = "stream" => ~run.toFile
    /\ habit = "file" /\ ~run.late /\ run.code = expectedCode[p] => run.toFile

-------------------------------------------------------------------------------

TypeOK ==
    /\ expectedCode \in [Pair -> Code]
    /\ habit \in {"file", "stream", "either"}
    /\ outputTxt \in Text \cup {None}
    /\ build \in Build
    /\ next \in 0 .. NumPairs + 1
    /\ verdict \in {"running", "accepted", "rejected"}
    /\ verdict = "running" => next <= NumPairs

Builds == {b \in Build : \A p \in Pair : Behaves(b.run[p], p)}

Init ==
    /\ expectedCode \in [Pair -> Code]
    /\ habit \in {"file", "stream", "either"}
    /\ outputTxt \in Text \cup {None}
    /\ build \in Builds
    /\ next = 0
    /\ verdict = "running"

\* The search sends the next control string to the compiler.
NextBuild ==
    /\ verdict # "running"
    /\ build' \in Builds
    /\ next' = 0
    /\ verdict' = "running"
    /\ UNCHANGED <<expectedCode, habit, outputTxt>>

\* A verify command that fails, or does not end in time, rejects the build.
\* (A benchmark without one is a benchmark whose command always succeeds.)
VerifyCommand ==
    /\ verdict = "running"
    /\ next = 0
    /\ next' = 1
    /\ verdict' = IF ~build.command THEN "rejected"
                  ELSE IF NumPairs = 0 THEN "accepted" ELSE "running"
    /\ UNCHANGED <<expectedCode, habit, outputTxt, build>>

\* The output that is compared; file is what output.txt is after the run.
SlipCollected(run, file) == IF outputTxt # None THEN outputTxt ELSE run.text
Collected(run, file) == IF file # None THEN file ELSE run.text

Matched(run, file) ==
    /\ ~run.late
    /\ Same(run.code, expectedCode[next])
    /\ Collected(run, file) \in Matches[next]

SlipAnswer(run, file) == IF Matched(run, file) THEN "running" ELSE "rejected"
Answer(run, file) ==
    IF ~Matched(run, file) THEN "rejected"
    ELSE IF next = NumPairs THEN "accepted" ELSE "running"

RunAndVerify ==
    /\ verdict = "running"
    /\ next \in Pair
    /\ LET run == build.run[next]
       IN  /\ outputTxt' = IF run.toFile THEN run.text ELSE outputTxt
           /\ verdict' = Answer(run, outputTxt')
    /\ next' = next + 1
    /\ UNCHANGED <<expectedCode, habit, build>>

Next == NextBuild \/ VerifyCommand \/ RunAndVerify

Spec == Init /\ [][Next]_vars

-------------------------------------------------------------------------------
(* Properties *)

\* What the user asks of a build.
Right(run, p) ==
    ~run.late /\ run.code = expectedCode[p] /\ run.text \in Matches[p]
Correct(b) == b.command /\ \A p \in Pair : Right(b.run[p], p)

\* Programs that never write output.txt, in a directory without one, and
\* programs that always write it.
Separate == habit = "file" \/ (habit = "stream" /\ outputTxt = None)

\* The answer is about the build, whatever was run before: all the search
\* relies on (VerifiedSearch).  A program that writes the file in some runs
\* only is judged by an output that is not its own.
AcceptedIsCorrect == verdict = "accepted" /\ Separate => Correct(build)

\* A correct build is not rejected, unless a pair expects the exit code of a
\* signal from 6 on: no program fulfils that.
RejectedIsWrong ==
    verdict = "rejected" /\ Separate /\ (\A p \in Pair : expectedCode[p] >= -5)
        => ~Correct(build)

===============================================================================
