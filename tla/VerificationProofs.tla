--------------------------- MODULE VerificationProofs ---------------------------
(***************************************************************************)
(* The answer of makeAndVerify is about the build it is asked about, for   *)
(* every number of input/output pairs, outputs and exit codes.             *)
(***************************************************************************)
EXTENDS Verification, TLAPS

Plain == \A p \in Pair : expectedCode[p] >= -5

\* What is known of the build after the pairs before next.
Judged ==
    /\ verdict = "running" =>
          /\ next > 0 => build.command
          /\ \A p \in Pair : p < next => Right(build.run[p], p)
    /\ verdict = "accepted" => Correct(build)
    /\ verdict = "rejected" /\ Plain => ~Correct(build)

Inv == TypeOK /\ build \in Builds /\ (Separate => Judged)

LEMMA InitInv == Init => Inv
<1> SUFFICES ASSUME Init PROVE Inv  OBVIOUS
<1>1. build \in Builds /\ build \in Build
  BY DEF Init, Builds
<1> QED
  BY <1>1, PairsAssumption DEF Init, Inv, TypeOK, Judged, Pair

LEMMA NextBuildInv == ASSUME Inv, NextBuild PROVE Inv'
<1>1. /\ build' \in Builds /\ next' = 0 /\ verdict' = "running"
      /\ UNCHANGED <<expectedCode, habit, outputTxt>>
  BY DEF NextBuild
<1>2. build' \in Builds' /\ build' \in Build
  BY <1>1 DEF Builds, Behaves
<1> QED
  BY <1>1, <1>2, PairsAssumption DEF Inv, TypeOK, Judged, Pair

LEMMA VerifyCommandInv == ASSUME Inv, VerifyCommand PROVE Inv'
<1>1. /\ verdict = "running" /\ next = 0 /\ next' = 1
      /\ UNCHANGED <<expectedCode, habit, outputTxt, build>>
      /\ verdict' = IF ~build.command THEN "rejected"
                    ELSE IF NumPairs = 0 THEN "accepted" ELSE "running"
  BY DEF VerifyCommand
<1>2. TypeOK'
  BY <1>1, PairsAssumption DEF Inv, TypeOK
<1>3. build' \in Builds'
  BY <1>1 DEF Inv, Builds, Behaves
<1>4. Judged'
  BY <1>1, PairsAssumption DEF Judged, Correct, Pair
<1> QED  BY <1>2, <1>3, <1>4 DEF Inv

LEMMA RunAndVerifyInv == ASSUME Inv, RunAndVerify PROVE Inv'
<1> DEFINE run == build.run[next]
<1>1. /\ verdict = "running" /\ next \in Pair /\ next' = next + 1
      /\ UNCHANGED <<expectedCode, habit, build>>
      /\ outputTxt' = IF run.toFile THEN run.text ELSE outputTxt
      /\ verdict' = Answer(run, outputTxt')
  BY DEF RunAndVerify
<1>2. /\ build \in Build /\ run \in Run /\ Behaves(run, next)
      /\ run.text \in Text /\ run.text # None
  BY <1>1, NoneAssumption DEF Inv, Builds, Build, Run
<1>3. TypeOK'
  BY <1>1, <1>2, PairsAssumption DEF Inv, TypeOK, Answer, Pair
<1>4. build' \in Builds'
  BY <1>1 DEF Inv, Builds, Behaves
<1>5. ASSUME Separate' PROVE Judged'
  <2>1. Separate /\ Judged
    BY <1>1, <1>2, <1>5 DEF Inv, Separate, Behaves
  <2>2. ASSUME ~run.late, run.code = expectedCode[next]
        PROVE  Collected(run, outputTxt') = run.text
    BY <1>1, <1>2, <2>1, <2>2 DEF Separate, Behaves, Collected
  <2>3. CASE Matched(run, outputTxt')
    <3>1. Right(run, next)
      BY <2>2, <2>3 DEF Matched, Same, Right
    <3>2. \A p \in Pair : p < next + 1 => Right(build.run[p], p)
      BY <1>1, <2>1, <3>1, PairsAssumption DEF Judged, Pair
    <3>3. build.command
      BY <1>1, <2>1 DEF Judged, Pair
    <3>4. verdict' = IF next = NumPairs THEN "accepted" ELSE "running"
      BY <1>1, <2>3 DEF Answer
    <3>5. next = NumPairs => Correct(build)
      BY <3>2, <3>3, PairsAssumption DEF Correct, Pair
    <3> QED
      BY <1>1, <3>2, <3>3, <3>4, <3>5 DEF Judged, Right, Correct
  <2>4. CASE ~Matched(run, outputTxt')
    <3>1. verdict' = "rejected"
      BY <1>1, <2>4 DEF Answer
    <3>2. ASSUME Plain, Right(run, next) PROVE FALSE
      <4>1. ~run.late /\ run.code = expectedCode[next] /\ run.text \in Matches[next]
        BY <3>2 DEF Right
      <4>2. expectedCode[next] \in Code /\ expectedCode[next] >= -5
        BY <1>1, <3>2 DEF Plain, Inv, TypeOK
      <4>3. expectedCode[next] \in -5 .. 256 
        BY <4>2, CodeAssumption
      <4> QED  BY <2>2, <2>4, <4>1, <4>3 DEF Matched, Same
    <3>3. Plain => ~Correct(build)
      BY <1>1, <3>2 DEF Correct
    <3> QED  BY <1>1, <3>1, <3>3 DEF Judged, Plain, Correct, Right
  <2> QED  BY <2>3, <2>4
<1> QED  BY <1>3, <1>4, <1>5 DEF Inv

\* For every build the answer, once given, agrees with Correct.
THEOREM VerificationInvariance == Spec => []Inv
<1>1. Inv /\ [Next]_vars => Inv'
  <2> SUFFICES ASSUME Inv, [Next]_vars PROVE Inv'  OBVIOUS
  <2>1. CASE UNCHANGED vars
    BY <2>1 DEF Inv, TypeOK, Builds, Behaves, Separate, Judged, Plain, Correct,
                Right, vars
  <2> QED  BY <2>1, NextBuildInv, VerifyCommandInv, RunAndVerifyInv DEF Next
<1> QED  BY <1>1, InitInv, PTL DEF Spec

\* The runs, the texts and the answers keep their types.
THEOREM VerificationTypeCorrect == Spec => []TypeOK
BY VerificationInvariance, PTL DEF Inv

\* Whatever ran in the directory before: a build that is accepted is correct,
\* if programs give their output always in output.txt or never.
THEOREM AcceptedBuildsAreCorrect == Spec => []AcceptedIsCorrect
<1>1. Inv => AcceptedIsCorrect
  BY DEF Inv, Judged, AcceptedIsCorrect
<1> QED  BY <1>1, VerificationInvariance, PTL

\* And a build that is rejected is wrong, if no exit code of a signal from 6
\* on is expected.
THEOREM RejectedBuildsAreWrong == Spec => []RejectedIsWrong
<1>1. Inv => RejectedIsWrong
  BY DEF Inv, Judged, RejectedIsWrong, Plain
<1> QED  BY <1>1, VerificationInvariance, PTL

===============================================================================
