------------------------------ MODULE TunerProofs ------------------------------
(***************************************************************************)
(* What runBenchmark writes into the source files was validated, what the   *)
(* experiment leaves on disk is what it reports, its builds answer as they  *)
(* should and its state keeps its types: for any number of files, rounds    *)
(* and annotator passes and any outcomes of the searches.                   *)
(***************************************************************************)
EXTENDS Tuner, TLAPS

-------------------------------------------------------------------------------
(* What is written into the sources: builds *)

\* A build never forgets an executable that passed, leaves the list of files
\* alone, and if it is forced and answered TRUE, an executable with the new
\* object file passed.
LEMMA BuildFacts ==
    ASSUME NEW string, NEW forced \in BOOLEAN,
           file \in File, DOMAIN obj = File,
           CompileSourceOptimistically(string, forced)
    PROVE  /\ passed \subseteq passed'
           /\ DOMAIN obj' = File
           /\ forced /\ answer' => \E e \in passed' : e[file] = Full(string)
<1>1. CASE CompileError(string)
  BY <1>1 DEF CompileError, KeepOrLose
<1>2. CASE SameAsLastValid(string, forced)
  BY <1>2 DEF SameAsLastValid, Unchanged
<1>3. CASE LinkAndVerify(string, forced)
  <2>1. obj'[file] = Full(string) /\ DOMAIN obj' = File
    BY <1>3 DEF LinkAndVerify
  <2>2. PICK ok \in BOOLEAN : Verify(exe', ok) /\ answer' = ok
    BY <1>3 DEF LinkAndVerify
  <2>3. passed \subseteq passed' /\ (ok => exe' \in passed')
    BY <2>2 DEF Verify
  <2>4. exe' = obj'
    BY <1>3 DEF LinkAndVerify
  <2> QED  BY <2>1, <2>2, <2>3, <2>4
<1> QED  BY <1>1, <1>2, <1>3 DEF CompileSourceOptimistically

\* What was validated stays validated while the strings do not change.
LEMMA ValidatedStays ==
    ASSUME NEW f, passed \subseteq passed', text'[f] = text[f], Validated(f)
    PROVE  Validated(f)'
BY DEF Validated, Full, Object

-------------------------------------------------------------------------------
(* What is written into the sources: steps *)

\* At the start nothing is written.
LEMMA InitWrittenInv == Init => WrittenInv
BY FilesAssumption DEF Init, WrittenInv, RunningInv, WrittenWasValidated, File

\* The step leaves the strings, the choices and what is written alone and
\* stays with the file.
LEMMA SameFileStep ==
    ASSUME WrittenInv, pc \in {"initial", "scan", "search"},
           UNCHANGED <<results, file>>, DOMAIN obj' = File,
           passed \subseteq passed',
           pc' \in {"scan", "search"} => stop' = stop /\ (pc' = "search" => ~stop),
           pc' # "initial"
    PROVE  WrittenInv'
<1>1. RunningInv
  BY DEF WrittenInv
<1>2. text' = text /\ choices' = choices /\ written' = written /\ file' = file
  BY DEF results
<1>3. \A f : Validated(f) => Validated(f)'
  BY <1>2, ValidatedStays
<1>4. WrittenWasValidated'
  <2> SUFFICES ASSUME NEW f \in File, written[f] # None
               PROVE  written[f] = text[f] /\ Validated(f)'
    BY <1>2 DEF WrittenWasValidated, Validated
  <2> QED  BY <1>3 DEF WrittenInv, WrittenWasValidated, Validated
<1>5. pc' \in {"scan", "search"} => RunningInv'
  BY <1>1, <1>2, <1>3 DEF RunningInv
<1> QED  BY <1>2, <1>4, <1>5 DEF WrittenInv

\* Going on with the next file: it has no string yet, and nothing is written
\* into it.
LEMMA NextFileStep ==
    ASSUME WrittenInv, pc \in {"scan", "search"}, NextFile,
           text' = text, choices' = choices, DOMAIN obj' = File,
           DOMAIN written' = File,
           \A f \in File : f # file => written'[f] = written[f],
           WrittenWasValidated'
    PROVE  WrittenInv'
<1>1. RunningInv
  BY DEF WrittenInv
<1>2. CASE file = NumFiles
  BY <1>2 DEF NextFile, progress, WrittenInv
<1>3. CASE file # NumFiles
  <2>1. file' = file + 1 /\ stop' = FALSE /\ pc' = "scan"
    BY <1>3 DEF NextFile
  <2>2. file' \in File /\ file' > file
    BY <1>3, <2>1, FilesAssumption DEF WrittenInv, File
  <2>3. text[file'] = <<>> /\ choices[file'] = <<>>
    BY <1>1, <2>2 DEF RunningInv
  <2>4. \A f \in File : f >= file' => f > file /\ f # file
    BY <2>1 DEF WrittenInv, File
  <2>5. \A f \in File : f > file' => f > file
    BY <2>1 DEF WrittenInv, File
  <2>6. \A f \in File : f > file => f >= file
    BY DEF WrittenInv, File
  <2>7. RunningInv'
    BY <1>1, <2>1, <2>2, <2>3, <2>4, <2>5, <2>6 DEF RunningInv
  <2> QED  BY <2>2, <2>7 DEF WrittenInv
<1> QED  BY <1>2, <1>3

\* A search ends with some string, which is validated by force.
LEMMA ConcludeStep ==
    ASSUME WrittenInv, pc = "search", NEW string,
           CompileSourceOptimistically(string, TRUE),
           text' = [text EXCEPT ![file] = string],
           pc' = AfterValidation,
           DOMAIN choices' = File,
           \A f \in File : f # file => choices'[f] = choices[f],
           (stop' /\ string = <<>>) \/ choices'[file] = string,
           UNCHANGED <<file, written>>
    PROVE  WrittenInv'
<1>1. RunningInv /\ file \in File /\ DOMAIN obj = File /\ DOMAIN text = File
  BY DEF WrittenInv
<1>2. /\ passed \subseteq passed'
      /\ DOMAIN obj' = File
      /\ answer' => \E e \in passed' : e[file] = Full(string)
  BY <1>1, BuildFacts
<1>3. text'[file] = string /\ \A f \in File : f # file => text'[f] = text[f]
  BY <1>1
<1>4. WrittenWasValidated'
  <2> SUFFICES ASSUME NEW f \in File, written[f] # None
               PROVE  written[f] = text'[f] /\ Validated(f)'
    BY DEF WrittenWasValidated, Validated
  <2>1. f # file
    BY <1>1 DEF RunningInv, File
  <2>2. written[f] = text[f] /\ Validated(f)
    BY DEF WrittenInv, WrittenWasValidated, Validated
  <2> QED  BY <1>2, <1>3, <2>1, <2>2, ValidatedStays
<1>5. pc' = "scan" => RunningInv'
  <2> SUFFICES ASSUME pc' = "scan" PROVE RunningInv'  OBVIOUS
  <2>1. answer'
    BY DEF AfterValidation
  <2>2. Validated(file)'
    BY <1>2, <1>3, <2>1 DEF Validated, Full, Object
  <2>3. \A f \in File : f > file => f # file
    BY DEF File
  <2> QED  BY <1>1, <1>3, <2>2, <2>3 DEF RunningInv
<1> QED  BY <1>2, <1>4, <1>5 DEF WrittenInv, AfterValidation

\* The choices are written when all rounds of a file are done.
LEMMA FileDoneStep ==
    ASSUME WrittenInv, FileDone
    PROVE  WrittenInv'
<1>1. RunningInv /\ file \in File /\ DOMAIN written = File
  BY DEF WrittenInv, FileDone
<1>2. /\ text' = text /\ choices' = choices /\ obj' = obj /\ passed' = passed
      /\ DOMAIN written' = File
      /\ \A f \in File : f # file => written'[f] = written[f]
      /\ written'[file] = IF text[file] # <<>> THEN choices[file] ELSE written[file]
  BY <1>1 DEF FileDone, history
<1>3. \A f : Validated(f) => Validated(f)'
  BY <1>2, ValidatedStays
<1>4. WrittenWasValidated'
  <2> SUFFICES ASSUME NEW f \in File, written'[f] # None
               PROVE  written'[f] = text[f] /\ Validated(f)'
    BY <1>2 DEF WrittenWasValidated, Validated
  <2>1. CASE f # file
    BY <1>2, <1>3, <2>1 DEF WrittenInv, WrittenWasValidated, Validated
  <2>2. CASE f = file
    <3>1. written[file] = None
      BY <1>1 DEF RunningInv, File
    <3>2. text[file] # <<>>
      BY <1>2, <2>2, <3>1
    <3> QED  BY <1>1, <1>2, <1>3, <2>2, <3>2 DEF RunningInv
  <2> QED  BY <2>1, <2>2
<1> QED  BY <1>2, <1>4, NextFileStep DEF FileDone, WrittenInv

-------------------------------------------------------------------------------
(* What is written into the sources: all steps *)

LEMMA StepWrittenInv ==
    ASSUME WrittenInv, [Next]_vars
    PROVE  WrittenInv'
<1> USE DEF progress, results, disk, history
<1>1. CASE InitialBuild
  <2>1. passed \subseteq passed' /\ DOMAIN obj' = File
    BY <1>1 DEF InitialBuild, Verify
  <2> QED  BY <1>1, <2>1, SameFileStep DEF InitialBuild
<1>2. CASE InitialError
  <2>1. passed = passed' /\ DOMAIN obj' = File
    BY <1>2 DEF InitialError
  <2> QED  BY <1>2, <2>1, SameFileStep DEF InitialError
<1>3. CASE FileDone
  BY <1>3, FileDoneStep
<1>4. CASE Scan
  <2>1. passed = passed' /\ DOMAIN obj' = File
    BY <1>4 DEF Scan, WrittenInv
  <2>2. ~stop /\ pc' \in {"scan", "search"}
    BY <1>4 DEF Scan, RoundsLeft
  <2> QED  BY <1>4, <2>1, <2>2, SameFileStep DEF Scan
<1>5. CASE ScanError
  <2>1. DOMAIN obj' = File
    BY <1>5 DEF ScanError, KeepOrLose, WrittenInv
  <2>2. ~stop
    BY <1>5 DEF ScanError, RoundsLeft
  <2> QED  BY <1>5, <2>1, <2>2, SameFileStep DEF ScanError
<1>6. CASE Try
  <2>1. passed \subseteq passed' /\ DOMAIN obj' = File
    BY <1>6, BuildFacts DEF Try, WrittenInv
  <2>2. ~stop
    BY <1>6 DEF Try, WrittenInv, RunningInv
  <2> QED  BY <1>6, <2>1, <2>2, SameFileStep DEF Try
<1>7. CASE Conclude
  <2>1. PICK pick \in Picks :
          /\ CompileSourceOptimistically(Extended(pick), TRUE)
          /\ text' = [text EXCEPT ![file] = Extended(pick)]
          /\ choices' = [choices EXCEPT ![file] =
                            Append(@, [round |-> round, pick |-> pick])]
    BY <1>7 DEF Conclude
  <2>2. choices[file] = text[file] /\ file \in File /\ DOMAIN choices = File
    BY <1>7 DEF Conclude, WrittenInv, RunningInv
  <2>3. choices'[file] = Extended(pick)
    BY <2>1, <2>2 DEF Extended
  <2> QED  BY <1>7, <2>1, <2>2, <2>3, ConcludeStep DEF Conclude
<1>8. CASE ConcludeEmpty
  BY <1>8, ConcludeStep DEF ConcludeEmpty, WrittenInv
<1>9. CASE Raise
  <2>1. passed \subseteq passed' /\ DOMAIN obj' = File
    BY <1>9 DEF Raise, Verify, WrittenInv
  <2>2. CASE NextFile
    <3>1. WrittenWasValidated'
      <4> SUFFICES ASSUME NEW f \in File, written[f] # None
                   PROVE  written[f] = text[f] /\ Validated(f)'
        BY <1>9 DEF Raise, WrittenWasValidated, Validated
      <4>1. written[f] = text[f] /\ Validated(f)
        BY DEF WrittenInv, WrittenWasValidated, Validated
      <4> QED  BY <1>9, <2>1, <4>1, ValidatedStays DEF Raise
    <3> QED  BY <1>9, <2>1, <2>2, <3>1, NextFileStep DEF Raise, WrittenInv
  <2>3. CASE pc' = "aborted" /\ UNCHANGED <<progress, version>>
    BY <1>9, <2>1, <2>3, SameFileStep DEF Raise
  <2> QED  BY <1>9, <2>2, <2>3 DEF Raise
<1>10. CASE UNCHANGED vars
  BY <1>10 DEF vars, WrittenInv, RunningInv, WrittenWasValidated, Validated,
     Full, Object
<1>11. CASE InitialRaise
  <2>1. passed = passed' /\ DOMAIN obj' = File
    BY <1>11 DEF InitialRaise, WrittenInv
  <2> QED  BY <1>11, <2>1, SameFileStep DEF InitialRaise
<1>12. CASE ScanRaise
  <2>1. /\ DOMAIN obj' = File /\ passed' = passed
        /\ text' = text /\ choices' = choices /\ written' = written
    BY <1>12 DEF ScanRaise, WrittenInv
  <2>2. WrittenWasValidated'
    BY <2>1 DEF WrittenInv, WrittenWasValidated, Full, Object
  <2> QED  BY <1>12, <2>1, <2>2, NextFileStep DEF ScanRaise, WrittenInv
<1> QED
  BY <1>1, <1>2, <1>3, <1>4, <1>5, <1>6, <1>7, <1>8, <1>9, <1>10, <1>11, <1>12
  DEF Next

\* The invariant holds in every reachable state of the experiment.
THEOREM WrittenInvariance == Spec => []WrittenInv
<1> QED  BY InitWrittenInv, StepWrittenInv, PTL DEF Spec

\* The choices written into a source file are those of its final control
\* string, and were verified as a whole.
THEOREM ValidatedBeforeWritten == Spec => []WrittenWasValidated
<1>1. WrittenInv => WrittenWasValidated
  BY DEF WrittenInv
<1> QED  BY <1>1, WrittenInvariance, PTL

-------------------------------------------------------------------------------
(* What is left on disk: the inductive invariant *)

\* The executable with another object file for the present source file.
WithObject(o) == [f \in File |-> IF f = file THEN o ELSE obj[f]]

Objects == {Full(s) : s \in Seq(Token)}

\* The object files kept of a source file.
Kept(f) == stored[f] \in Seq(Objects)

\* Files behind the present one are as the initial build left them.
Untouched(f) ==
    /\ text[f] = <<>>
    /\ Kept(f) /\ Len(stored[f]) > 0 /\ stored[f][1] = Full(<<>>)
    /\ <<f, Full(<<>>)>> \in compiled

\* While the experiment runs without exceptions: the last valid version of the
\* present file makes a verified executable with the object files of the
\* others, which are those of their strings; outside of a search so does the
\* string of the present file, and that executable is on disk; after the
\* last round the present object file is that of the string, too.
LeftRunning ==
    /\ file \in File /\ round \in 0 .. Rounds
    /\ DOMAIN text = File /\ DOMAIN stored = File
    /\ obj = [f \in File |-> obj[f]]
    /\ text[file] \in Seq(Token)
    /\ <<file, Full(text[file])>> \in compiled
    /\ Kept(file) /\ version \in Nat /\ version < Len(stored[file])
    /\ WithObject(LastValid) \in passed
    /\ \A f \in File : f # file => obj[f] = Full(text[f])
    /\ \A f \in File : f > file => Untouched(f)
    /\ pc = "search" => round > 0 /\ ~stop
    /\ pc = "scan" => exe = WithObject(Full(text[file])) /\ exe \in passed
    /\ pc = "scan" /\ ~RoundsLeft => obj[file] = Full(text[file])

AtStart ==
    /\ file = 1 /\ round = 0 /\ ~stop /\ version = 0 /\ passed = {}
    /\ text = [f \in File |-> <<>>]

LeftInv ==
    /\ pc \in {"initial", "scan", "search", "done", "aborted"}
    /\ pc = "initial" => AtStart
    /\ ~raised /\ pc \in {"scan", "search"} => LeftRunning
    /\ LeftBehindIsVerified

\* The empty string is a control string.
LEMMA EmptyString == <<>> \in Seq(Token) /\ Full(<<>>) \in Objects
<1>1. <<>> \in Seq(Token)
  OBVIOUS
<1> QED  BY <1>1 DEF Objects

\* Before the initial build nothing has been done.
LEMMA InitLeftInv == Init => LeftInv
BY DEF Init, LeftInv, AtStart, LeftBehindIsVerified

-------------------------------------------------------------------------------
(* What is left on disk: builds *)

\* With all annotator passes an object is that of the last round.
LEMMA LastScanIsFull ==
    ASSUME NEW s, NEW r \in 0 .. Rounds, ~(r < Rounds)
    PROVE  Object(s, r) = Full(s)
BY RoundsAssumption DEF Object, Full

\* A build in a search that is answered TRUE: the object files on disk make a
\* verified executable.
LEMMA TrueBuild ==
    ASSUME LeftRunning, NEW s, NEW forced \in BOOLEAN,
           CompileSourceOptimistically(s, forced), answer'
    PROVE  /\ obj' \in passed'
           /\ obj' = WithObject(Full(s))
           /\ <<file, Full(s)>> \in compiled'
           /\ forced => exe' = obj'
<1>1. CASE CompileError(s)
  BY <1>1 DEF CompileError
<1>2. CASE SameAsLastValid(s, forced)
  BY <1>2 DEF SameAsLastValid, Unchanged, LeftRunning, WithObject
<1>3. CASE LinkAndVerify(s, forced)
  <2>1. /\ obj' = [obj EXCEPT ![file] = Full(s)] /\ exe' = obj'
        /\ <<file, Full(s)>> \in compiled'
    BY <1>3 DEF LinkAndVerify
  <2>2. exe' \in passed'
    BY <1>3 DEF LinkAndVerify, Verify
  <2>3. obj' = WithObject(Full(s))
    BY <2>1 DEF WithObject, LeftRunning
  <2> QED  BY <2>1, <2>2, <2>3
<1> QED  BY <1>1, <1>2, <1>3 DEF CompileSourceOptimistically

\* Any build keeps what is known of the last valid version.
LEMMA BuildKeeps ==
    ASSUME LeftRunning, NEW s \in Seq(Token), NEW forced \in BOOLEAN,
           CompileSourceOptimistically(s, forced), UNCHANGED file
    PROVE  /\ obj' = [f \in File |-> obj'[f]] /\ DOMAIN stored' = File
           /\ passed \subseteq passed' /\ compiled \subseteq compiled'
           /\ raised' = raised
           /\ \A f \in File :
                 f # file => obj'[f] = obj[f] /\ stored'[f] = stored[f]
           /\ Kept(file)' /\ version' \in Nat /\ version' < Len(stored'[file])
           /\ (WithObject(LastValid) \in passed)'
<1>1. CASE CompileError(s)
  <2>1. /\ obj' = [f \in File |-> obj'[f]]
        /\ \A f \in File : f # file => obj'[f] = obj[f]
    BY <1>1 DEF CompileError, KeepOrLose, LeftRunning
  <2>2. WithObject(LastValid)' = WithObject(LastValid)
    BY <1>1, <2>1 DEF CompileError, WithObject, LastValid, LeftRunning
  <2> QED  BY <1>1, <2>1, <2>2 DEF CompileError, LeftRunning, Kept
<1>2. CASE SameAsLastValid(s, forced)
  <2>1. obj' = [obj EXCEPT ![file] = Full(s)]
    BY <1>2 DEF SameAsLastValid
  <2>2. WithObject(LastValid)' = WithObject(LastValid)
    BY <1>2, <2>1 DEF SameAsLastValid, WithObject, LastValid, LeftRunning
  <2> QED  BY <1>2, <2>1, <2>2 DEF SameAsLastValid, LeftRunning, Kept
<1>3. CASE LinkAndVerify(s, forced)
  <2>1. obj' = [obj EXCEPT ![file] = Full(s)] /\ exe' = obj'
        /\ compiled' = compiled \cup {<<file, Full(s)>>} /\ raised' = raised
    BY <1>3 DEF LinkAndVerify
  <2>2. PICK ok \in BOOLEAN :
          /\ Verify(exe', ok)
          /\ IF ok
             THEN /\ version' = version + 1
                  /\ stored' = [stored EXCEPT ![file] =
                         Append(SubSeq(@, 1, version + 1), Full(s))]
             ELSE UNCHANGED <<version, stored>>
    BY <1>3 DEF LinkAndVerify
  <2>3. passed \subseteq passed' /\ (ok => exe' \in passed')
    BY <2>2 DEF Verify
  <2>4. CASE ~ok
    <3>1. WithObject(LastValid)' = WithObject(LastValid)
      BY <2>1, <2>2, <2>4 DEF WithObject, LastValid, LeftRunning
    <3> QED  BY <2>1, <2>2, <2>3, <2>4, <3>1 DEF LeftRunning, Kept
  <2>5. CASE ok
    <3> DEFINE old == SubSeq(stored[file], 1, version + 1)
    <3>1. /\ stored[file] \in Seq(Objects) /\ version \in Nat
          /\ version + 1 <= Len(stored[file]) /\ file \in File
          /\ Full(s) \in Objects
      BY DEF LeftRunning, Kept, Objects
    <3>2. old \in Seq(Objects) /\ Len(old) = version + 1
      BY <3>1
    <3>3. /\ Append(old, Full(s)) \in Seq(Objects)
          /\ Len(Append(old, Full(s))) = version + 2
          /\ Append(old, Full(s))[version + 2] = Full(s)
      BY <3>1, <3>2
    <3>4. stored'[file] = Append(old, Full(s)) /\ version' = version + 1
      BY <2>2, <2>5, <3>1 DEF LeftRunning
    <3>5. LastValid' = Full(s)
      BY <3>1, <3>3, <3>4 DEF LastValid
    <3>6. WithObject(LastValid)' = obj'
      BY <2>1, <3>1, <3>5 DEF WithObject, LeftRunning
    <3>7. /\ DOMAIN stored' = File
          /\ \A f \in File : f # file => stored'[f] = stored[f]
      BY <2>2, <2>5 DEF LeftRunning
    <3>8. /\ obj' = [f \in File |-> obj'[f]]
          /\ \A f \in File : f # file => obj'[f] = obj[f]
      BY <2>1 DEF LeftRunning
    <3>9. Kept(file)' /\ version' \in Nat /\ version' < Len(stored'[file])
      BY <3>1, <3>3, <3>4 DEF Kept, Objects
    <3>10. (WithObject(LastValid) \in passed)'
      BY <2>1, <2>3, <2>5, <3>6
    <3> QED  BY <2>1, <2>3, <3>7, <3>8, <3>9, <3>10
  <2> QED  BY <2>4, <2>5
<1> QED  BY <1>1, <1>2, <1>3 DEF CompileSourceOptimistically

-------------------------------------------------------------------------------
(* What is left on disk: steps *)

\* What is known of the other files stays while only the present one changes.
LEMMA OthersStay ==
    ASSUME LeftRunning, file' = file, compiled \subseteq compiled',
           \A f \in File : f # file =>
              obj'[f] = obj[f] /\ stored'[f] = stored[f] /\ text'[f] = text[f]
    PROVE  /\ \A f \in File : f # file => obj'[f] = Full(text'[f])
           /\ \A f \in File : f > file => Untouched(f)'
<1>1. \A f \in File : f # file => obj'[f] = Full(text'[f])
  BY DEF LeftRunning
<1>2. ASSUME NEW f \in File, f > file
      PROVE  Untouched(f)'
  <2>1. f # file
    BY <1>2 DEF LeftRunning, File
  <2>2. Untouched(f)
    BY <1>2 DEF LeftRunning
  <2> QED  BY <2>1, <2>2 DEF Untouched, Kept
<1> QED  BY <1>1, <1>2

\* The initial build: every file compiled and kept, the executable verified.
LEMMA InitialBuildLeft ==
    ASSUME LeftInv, InitialBuild
    PROVE  LeftInv'
<1>1. AtStart /\ 1 \in File
  BY FilesAssumption DEF LeftInv, InitialBuild, File
<1>2. /\ obj' = [f \in File |-> Full(<<>>)] /\ exe' = obj'
      /\ stored' = [f \in File |-> <<Full(<<>>)>>]
      /\ compiled' = {<<f, Full(<<>>)>> : f \in File}
      /\ file' = file /\ round' = round /\ stop' = stop
      /\ text' = text /\ version' = version /\ raised' = raised
  BY DEF InitialBuild, progress, results
<1>3. PICK ok \in BOOLEAN :
         Verify(exe', ok) /\ pc' = IF ok THEN "scan" ELSE "done"
  BY DEF InitialBuild
<1>4. CASE ~ok
  <2>1. passed' = {} /\ pc' = "done"
    BY <1>1, <1>3, <1>4 DEF Verify, AtStart
  <2> QED  BY <2>1 DEF LeftInv, LeftBehindIsVerified
<1>5. CASE ok
  <2>1. pc' = "scan" /\ exe' \in passed'
    BY <1>3, <1>5 DEF Verify
  <2>2. \A f \in File : text'[f] = <<>> /\ stored'[f] = <<Full(<<>>)>>
                        /\ obj'[f] = Full(<<>>)
    BY <1>1, <1>2 DEF AtStart
  <2>3. \A f \in File : Kept(f)' /\ Untouched(f)'
    BY <1>2, <2>2, EmptyString DEF Kept, Untouched, Objects
  <2>4. file' = 1 /\ round' = 0 /\ version' = 0 /\ file' \in File
    BY <1>1, <1>2 DEF AtStart
  <2>5. LastValid' = Full(<<>>)
    BY <2>2, <2>4 DEF LastValid
  <2>6. exe' = [f \in File |-> IF f = file' THEN Full(<<>>) ELSE obj'[f]]
    BY <1>2
  <2>7. WithObject(LastValid)' = exe' /\ exe' = WithObject(Full(text[file]))'
    BY <2>2, <2>4, <2>5, <2>6 DEF WithObject
  <2>8. /\ DOMAIN text' = File /\ DOMAIN stored' = File
        /\ obj' = [f \in File |-> obj'[f]]
    BY <1>1, <1>2 DEF AtStart
  <2>9. <<file', Full(text'[file'])>> \in compiled' /\ text'[file'] \in Seq(Token)
    BY <1>2, <2>2, <2>4, EmptyString
  <2>10. round' \in 0 .. Rounds /\ version' \in Nat /\ version' < Len(stored'[file'])
    BY <2>2, <2>4, RoundsAssumption
  <2>11. LeftRunning'
    BY <2>1, <2>2, <2>3, <2>4, <2>7, <2>8, <2>9, <2>10 DEF LeftRunning
  <2> QED  BY <2>1, <2>11 DEF LeftInv, LeftBehindIsVerified
<1> QED  BY <1>4, <1>5

\* A file is done: nothing of it is missing, and the next one is untouched.
LEMMA FileDoneLeft ==
    ASSUME LeftInv, FileDone
    PROVE  LeftInv'
<1>1. /\ text' = text /\ obj' = obj /\ exe' = exe /\ stored' = stored
      /\ passed' = passed /\ compiled' = compiled /\ raised' = raised
      /\ NextFile /\ pc = "scan" /\ ~RoundsLeft
  BY DEF FileDone, history
<1>2. pc' \in {"scan", "done"}
  BY <1>1 DEF NextFile
<1>3. SUFFICES ASSUME ~raised
               PROVE  (pc' = "scan" => LeftRunning') /\ LeftBehindIsVerified'
  BY <1>1, <1>2 DEF LeftInv, LeftBehindIsVerified
<1>4. LeftRunning
  BY <1>1, <1>3 DEF LeftInv
<1>5. obj[file] = Full(text[file]) /\ exe = obj /\ exe \in passed
  BY <1>1, <1>4 DEF LeftRunning, WithObject
<1>6. \A f \in File : obj[f] = Full(text[f])
  BY <1>4, <1>5 DEF LeftRunning
<1>7. LeftBehindIsVerified'
  BY <1>1, <1>5, <1>6 DEF LeftBehindIsVerified
<1>8. ASSUME pc' = "scan" PROVE LeftRunning'
  <2>1. file' = file + 1 /\ round' = 0 /\ version' = 0 /\ file # NumFiles
    BY <1>1, <1>8 DEF NextFile
  <2>2. file' \in File /\ file' > file
    BY <1>4, <2>1, FilesAssumption DEF LeftRunning, File
  <2>3. Untouched(file')
    BY <1>4, <2>2 DEF LeftRunning
  <2>4. LastValid' = Full(<<>>) /\ text'[file'] = <<>>
    BY <1>1, <2>1, <2>3 DEF LastValid, Untouched
  <2>5. obj'[file'] = Full(<<>>)
    BY <1>1, <1>6, <2>2, <2>4
  <2>6. WithObject(Full(<<>>))' = obj'
    BY <1>1, <1>4, <2>2, <2>5 DEF WithObject, LeftRunning
  <2>7. \A f \in File : f > file' => Untouched(f)'
    <3>1. \A f \in File : f > file' => f > file
      BY <1>4, <2>1 DEF LeftRunning, File
    <3> QED  BY <1>1, <1>4, <3>1 DEF LeftRunning, Untouched, Kept
  <2>8. Kept(file)' /\ version' \in Nat /\ version' < Len(stored'[file'])
    BY <1>1, <2>1, <2>3 DEF Untouched, Kept
  <2>9. (WithObject(LastValid) \in passed)'
        /\ exe' = WithObject(Full(text[file]))' /\ exe' \in passed'
    BY <1>1, <1>5, <2>4, <2>6 DEF WithObject
  <2>10. <<file', Full(text'[file'])>> \in compiled' /\ text'[file'] \in Seq(Token)
    BY <1>1, <2>3, <2>4, EmptyString DEF Untouched
  <2>11. round' \in 0 .. Rounds
    BY <2>1, RoundsAssumption
  <2>12. /\ DOMAIN text' = File /\ DOMAIN stored' = File
         /\ obj' = [f \in File |-> obj'[f]]
    BY <1>1, <1>4 DEF LeftRunning
  <2>13. \A f \in File : f # file' => obj'[f] = Full(text'[f])
    BY <1>1, <1>6
  <2> QED
    BY <1>8, <2>2, <2>4, <2>5, <2>7, <2>8, <2>9, <2>10, <2>11, <2>12, <2>13
    DEF LeftRunning
<1> QED  BY <1>7, <1>8

\* A scan replaces the object file; the last one replaces it by that of the
\* string with all passes.
LEMMA ScanLeft ==
    ASSUME LeftInv, Scan
    PROVE  LeftInv'
<1>1. /\ file' = file /\ stop' = stop /\ text' = text /\ exe' = exe
      /\ version' = version /\ stored' = stored
      /\ passed' = passed /\ raised' = raised
      /\ round' = round + 1 /\ round < Rounds /\ ~stop /\ pc = "scan"
      /\ obj' = [obj EXCEPT ![file] = Object(text[file], round')]
      /\ compiled \subseteq compiled' /\ pc' \in {"scan", "search"}
  BY DEF Scan, RoundsLeft, results
<1>2. SUFFICES ASSUME ~raised
               PROVE  LeftRunning'
  BY <1>1 DEF LeftInv, LeftBehindIsVerified
<1>3. LeftRunning
  BY <1>1, <1>2 DEF LeftInv
<1>4. round' \in 0 .. Rounds /\ round' > 0
  BY <1>1, <1>3, RoundsAssumption DEF LeftRunning
<1>5. obj'[file] = Object(text[file], round')
      /\ obj' = [f \in File |-> obj'[f]]
      /\ \A f \in File : f # file => obj'[f] = obj[f]
  BY <1>1, <1>3 DEF LeftRunning
<1>6. \A o : WithObject(o)' = WithObject(o)
  BY <1>1, <1>5 DEF WithObject
<1>7. /\ \A f \in File : f # file => obj'[f] = Full(text'[f])
      /\ \A f \in File : f > file => Untouched(f)'
  BY <1>1, <1>3, <1>5, OthersStay
<1>8. (WithObject(LastValid) \in passed)' /\ Kept(file)'
  BY <1>1, <1>3, <1>5 DEF LeftRunning, WithObject, LastValid, Kept
<1>9. exe' = WithObject(Full(text[file]))' /\ exe' \in passed'
  BY <1>1, <1>3, <1>5 DEF LeftRunning, WithObject
<1>10. ~RoundsLeft' => obj'[file'] = Full(text'[file'])
  BY <1>1, <1>4, <1>5, LastScanIsFull DEF RoundsLeft
<1> QED
  BY <1>1, <1>3, <1>4, <1>5, <1>7, <1>8, <1>9, <1>10 DEF LeftRunning

\* A scan can only fail before the last round: with all passes the string
\* has been compiled before.
LEMMA ScanErrorLeft ==
    ASSUME LeftInv, ScanError
    PROVE  LeftInv'
<1>1. /\ file' = file /\ stop' = stop /\ text' = text /\ exe' = exe
      /\ version' = version /\ stored' = stored
      /\ passed' = passed /\ raised' = raised /\ compiled' = compiled
      /\ round' = round + 1 /\ round < Rounds /\ ~stop
      /\ pc = "scan" /\ pc' = pc
      /\ obj' \in {obj, [obj EXCEPT ![file] = None]}
      /\ <<file, Object(text[file], round')>> \notin compiled
  BY DEF ScanError, RoundsLeft, results, history, KeepOrLose, Compiles
<1>2. SUFFICES ASSUME ~raised
               PROVE  LeftRunning'
  BY <1>1 DEF LeftInv, LeftBehindIsVerified
<1>3. LeftRunning
  BY <1>1, <1>2 DEF LeftInv
<1>4. round' \in 0 .. Rounds
  BY <1>1, <1>3, RoundsAssumption DEF LeftRunning
<1>5. obj' = [f \in File |-> obj'[f]]
      /\ \A f \in File : f # file => obj'[f] = obj[f]
  BY <1>1, <1>3 DEF LeftRunning
<1>6. /\ \A f \in File : f # file => obj'[f] = Full(text'[f])
      /\ \A f \in File : f > file => Untouched(f)'
  BY <1>1, <1>3, <1>5, OthersStay
<1>7. (WithObject(LastValid) \in passed)' /\ Kept(file)'
  BY <1>1, <1>3, <1>5 DEF LeftRunning, WithObject, LastValid, Kept
<1>8. exe' = WithObject(Full(text[file]))' /\ exe' \in passed'
  BY <1>1, <1>3, <1>5 DEF LeftRunning, WithObject
<1>9. round' < Rounds
  BY <1>1, <1>3, <1>4, LastScanIsFull DEF LeftRunning
<1> QED
  BY <1>1, <1>3, <1>4, <1>5, <1>6, <1>7, <1>8, <1>9
  DEF LeftRunning, RoundsLeft

\* What a search adds to a string is a token.
LEMMA ExtendedIsString ==
    ASSUME LeftRunning, pc = "search", NEW pick \in Picks
    PROVE  Extended(pick) \in Seq(Token)
<1>1. [round |-> round, pick |-> pick] \in Token
  BY RoundsAssumption DEF LeftRunning, Token
<1> QED  BY <1>1 DEF LeftRunning, Extended

\* A build of a search leaves the last valid version and the other files alone.
LEMMA TryLeft ==
    ASSUME LeftInv, Try
    PROVE  LeftInv'
<1>1. /\ pc = "search" /\ pc' = pc /\ file' = file /\ round' = round
      /\ stop' = stop /\ text' = text
  BY DEF Try, progress, results
<1>2. PICK pick \in Picks : CompileSourceOptimistically(Extended(pick), FALSE)
  BY DEF Try
<1>3. raised' = raised
  BY <1>2 DEF CompileSourceOptimistically, CompileError, SameAsLastValid,
     LinkAndVerify
<1>4. SUFFICES ASSUME ~raised
               PROVE  LeftRunning'
  BY <1>1, <1>3 DEF LeftInv, LeftBehindIsVerified
<1>5. LeftRunning
  BY <1>1, <1>4 DEF LeftInv
<1>6. /\ obj' = [f \in File |-> obj'[f]] /\ DOMAIN stored' = File
      /\ passed \subseteq passed' /\ compiled \subseteq compiled'
      /\ \A f \in File : f # file => obj'[f] = obj[f] /\ stored'[f] = stored[f]
      /\ Kept(file)' /\ version' \in Nat /\ version' < Len(stored'[file])
      /\ (WithObject(LastValid) \in passed)'
  BY <1>1, <1>2, <1>5, ExtendedIsString, BuildKeeps
<1>7. /\ \A f \in File : f # file => obj'[f] = Full(text'[f])
      /\ \A f \in File : f > file => Untouched(f)'
  BY <1>1, <1>5, <1>6, OthersStay
<1> QED  BY <1>1, <1>5, <1>6, <1>7 DEF LeftRunning

\* A search ends: the string becomes that of the file, and the forced
\* validation left its object file and the executable on disk.
LEMMA EndOfSearchLeft ==
    ASSUME LeftInv, pc = "search", NEW s, LeftRunning => s \in Seq(Token),
           CompileSourceOptimistically(s, TRUE),
           text' = [text EXCEPT ![file] = s], pc' = AfterValidation,
           UNCHANGED <<file, round>>
    PROVE  LeftInv'
<1>1. raised' = raised /\ pc' = IF answer' THEN "scan" ELSE "aborted"
  BY DEF CompileSourceOptimistically, CompileError, SameAsLastValid,
     LinkAndVerify, AfterValidation
<1>2. SUFFICES ASSUME ~raised, pc' = "scan"
               PROVE  LeftRunning'
  BY <1>1 DEF LeftInv, LeftBehindIsVerified
<1>3. LeftRunning /\ s \in Seq(Token) /\ answer'
  BY <1>1, <1>2 DEF LeftInv
<1>4. /\ obj' = [f \in File |-> obj'[f]] /\ DOMAIN stored' = File
      /\ passed \subseteq passed' /\ compiled \subseteq compiled'
      /\ \A f \in File : f # file => obj'[f] = obj[f] /\ stored'[f] = stored[f]
      /\ Kept(file)' /\ version' \in Nat /\ version' < Len(stored'[file])
      /\ (WithObject(LastValid) \in passed)'
  BY <1>3, BuildKeeps
<1>5. /\ obj' \in passed' /\ obj' = WithObject(Full(s))
      /\ <<file, Full(s)>> \in compiled' /\ exe' = obj'
  BY <1>3, TrueBuild
<1>6. /\ text'[file] = s /\ DOMAIN text' = File
      /\ \A f \in File : f # file => text'[f] = text[f]
  BY <1>3 DEF LeftRunning
<1>7. /\ \A f \in File : f # file => obj'[f] = Full(text'[f])
      /\ \A f \in File : f > file => Untouched(f)'
  BY <1>3, <1>4, <1>6, OthersStay
<1>8. obj'[file] = Full(text'[file])
  BY <1>3, <1>5, <1>6 DEF WithObject, LeftRunning
<1>9. exe' = WithObject(Full(text[file]))'
  BY <1>3, <1>4, <1>5, <1>6, <1>8 DEF WithObject
<1> QED
  BY <1>2, <1>3, <1>4, <1>5, <1>6, <1>7, <1>8, <1>9 DEF LeftRunning

-------------------------------------------------------------------------------
(* What is left on disk: all steps *)

\* Every step of the experiment keeps the invariant; after an exception
\* it says nothing of the disk.
LEMMA StepLeftInv ==
    ASSUME LeftInv, [Next]_vars
    PROVE  LeftInv'
<1>1. CASE InitialBuild
  BY <1>1, InitialBuildLeft
<1>2. CASE InitialError
  <2>1. AtStart /\ pc' = "done" /\ passed' = passed
    BY <1>2 DEF InitialError, LeftInv
  <2> QED  BY <2>1 DEF AtStart, LeftInv, LeftBehindIsVerified
<1>3. CASE FileDone
  BY <1>3, FileDoneLeft
<1>4. CASE Scan
  BY <1>4, ScanLeft
<1>5. CASE ScanError
  BY <1>5, ScanErrorLeft
<1>6. CASE Try
  BY <1>6, TryLeft
<1>7. CASE Conclude
  <2>1. PICK pick \in Picks :
          /\ CompileSourceOptimistically(Extended(pick), TRUE)
          /\ text' = [text EXCEPT ![file] = Extended(pick)]
    BY <1>7 DEF Conclude
  <2> QED  BY <1>7, <2>1, ExtendedIsString, EndOfSearchLeft DEF Conclude
<1>8. CASE ConcludeEmpty
  BY <1>8, EmptyString, EndOfSearchLeft DEF ConcludeEmpty
<1>9. CASE Raise
  <2>1. raised' /\ pc' \in {"scan", "done", "aborted"}
    BY <1>9 DEF Raise, NextFile
  <2> QED  BY <2>1 DEF LeftInv, LeftBehindIsVerified
<1>10. CASE UNCHANGED vars
  BY <1>10 DEF vars, progress, results, disk, history, LeftInv, AtStart,
     LeftRunning, LeftBehindIsVerified, RoundsLeft, Kept, Untouched,
     WithObject, LastValid
<1>11. CASE InitialRaise
  BY <1>11 DEF InitialRaise, LeftInv, LeftBehindIsVerified
<1>12. CASE ScanRaise
  <2>1. raised' /\ pc' \in {"scan", "done"}
    BY <1>12 DEF ScanRaise, NextFile
  <2> QED  BY <2>1 DEF LeftInv, LeftBehindIsVerified
<1> QED
  BY <1>1, <1>2, <1>3, <1>4, <1>5, <1>6, <1>7, <1>8, <1>9, <1>10, <1>11, <1>12
  DEF Next

\* The invariant holds in every reachable state of the experiment.
THEOREM LeftInvariance == Spec => []LeftInv
<1> QED  BY InitLeftInv, StepLeftInv, PTL DEF Spec

\* An experiment that ends after a successful initial verification and
\* without exceptions leaves a verified executable and the object files it
\* was linked from, which are those of the final control strings.
THEOREM ResultsOnDisk == Spec => []LeftBehindIsVerified
<1>1. LeftInv => LeftBehindIsVerified
  BY DEF LeftInv
<1> QED  BY <1>1, LeftInvariance, PTL

\* Unless an exception was raised before, a build of a search is answered
\* TRUE only if the executable of the object files now on disk passed, also
\* where nothing is linked because the object file is the last valid one.
THEOREM AnswersAreVerified == Spec => TrueMeansVerified
<1>1. ASSUME LeftInv, [Next]_vars
      PROVE  [/\ Try \/ Conclude \/ ConcludeEmpty
              /\ answer'
              /\ ~raised
              => obj' \in passed']_vars
  <2> SUFFICES ASSUME Try \/ Conclude \/ ConcludeEmpty, answer', ~raised
               PROVE  obj' \in passed'
    OBVIOUS
  <2>1. LeftRunning
    BY <1>1 DEF LeftInv, Try, Conclude, ConcludeEmpty
  <2>2. CASE Try
    BY <2>1, <2>2, TrueBuild DEF Try
  <2>3. CASE Conclude
    BY <2>1, <2>3, TrueBuild DEF Conclude
  <2>4. CASE ConcludeEmpty
    BY <2>1, <2>4, TrueBuild DEF ConcludeEmpty
  <2> QED  BY <2>2, <2>3, <2>4
<1> QED  BY <1>1, LeftInvariance, PTL DEF Spec, TrueMeansVerified

-------------------------------------------------------------------------------
(* The types of the state: builds *)

\* A control string makes an object file, whatever number of passes runs.
LEMMA ObjectIsFile ==
    ASSUME NEW s \in Seq(Token), NEW depth \in Nat \ {0}
    PROVE  Object(s, depth) \in ObjectFile
<1>1. {token \in ToSet(s) : Effective(token)} \subseteq Token
  BY DEF ToSet
<1>2. (IF depth < Instances THEN depth ELSE Instances) \in 1 .. Instances
  BY RoundsAssumption
<1> QED  BY <1>1, <1>2 DEF ObjectFile, Object

LEMMA FullIsFile ==
    ASSUME NEW s \in Seq(Token)
    PROVE  Full(s) \in ObjectFile
<1>1. Instances \in Nat \ {0}
  BY RoundsAssumption
<1> QED  BY <1>1, ObjectIsFile DEF Full

\* A verification gives one executable one answer.
LEMMA VerifyOnce ==
    ASSUME NEW e, NEW ok \in BOOLEAN, passed \cap failed = {}, Verify(e, ok)
    PROVE  passed' \cap failed' = {}
BY DEF Verify

\* A build of a search keeps the types; it keeps one version more at most, and
\* leaves the files apart from the present one alone.
LEMMA BuildTypes ==
    ASSUME TypeOK, NEW s \in Seq(Token), NEW forced \in BOOLEAN,
           version < Len(stored[file]),
           \A f \in File \ {file} : obj[f] \in ObjectFile,
           CompileSourceOptimistically(s, forced)
    PROVE  /\ obj' \in [File -> {None} \cup ObjectFile]
           /\ exe' \in {None} \cup [File -> ObjectFile]
           /\ stored' \in [File -> Seq(ObjectFile)]
           /\ version' \in {version, version + 1}
           /\ version' < Len(stored'[file])
           /\ \A f \in File :
                 f # file => obj'[f] = obj[f] /\ stored'[f] = stored[f]
           /\ answer' \in BOOLEAN /\ raised' = raised
           /\ passed' \cap failed' = {} /\ compiled \subseteq compiled'
           /\ answer' => /\ obj'[file] = Full(s)
                         /\ <<file, Full(s)>> \in compiled'
           /\ exe' # None => obj'[file] \in ObjectFile
<1>1. /\ file \in File /\ version \in Nat
      /\ obj \in [File -> {None} \cup ObjectFile]
      /\ stored \in [File -> Seq(ObjectFile)] /\ passed \cap failed = {}
  BY RoundsAssumption, BoundAssumption DEF TypeOK
<1>2. Full(s) \in ObjectFile
  BY FullIsFile
<1>3. CASE CompileError(s)
  BY <1>1, <1>3 DEF CompileError, KeepOrLose
<1>4. CASE SameAsLastValid(s, forced)
  BY <1>1, <1>2, <1>4 DEF SameAsLastValid
<1>5. CASE LinkAndVerify(s, forced)
  <2>1. /\ obj' = [obj EXCEPT ![file] = Full(s)] /\ exe' = obj'
        /\ compiled' = compiled \cup {<<file, Full(s)>>} /\ raised' = raised
    BY <1>5 DEF LinkAndVerify
  <2>2. PICK ok \in BOOLEAN :
          /\ Verify(exe', ok)
          /\ answer' = ok
          /\ IF ok
             THEN /\ version' = version + 1
                  /\ stored' = [stored EXCEPT ![file] =
                         Append(SubSeq(@, 1, version + 1), Full(s))]
             ELSE UNCHANGED <<version, stored>>
    BY <1>5 DEF LinkAndVerify
  <2>3. /\ obj' \in [File -> {None} \cup ObjectFile]
        /\ obj'[file] = Full(s) /\ \A f \in File : f # file => obj'[f] = obj[f]
    BY <1>1, <1>2, <2>1
  <2>4. exe' \in [File -> ObjectFile]
    BY <1>1, <1>2, <2>1
  <2>5. passed' \cap failed' = {}
    BY <1>1, <2>2, VerifyOnce
  <2>6. /\ stored' \in [File -> Seq(ObjectFile)]
        /\ version' \in {version, version + 1}
        /\ version' < Len(stored'[file])
        /\ \A f \in File : f # file => stored'[f] = stored[f]
    <3>1. CASE ok
      <4> DEFINE kept == SubSeq(stored[file], 1, version + 1)
      <4>1. stored[file] \in Seq(ObjectFile) /\ version + 1 \in 1 .. Len(stored[file])
        BY <1>1
      <4>2. kept \in Seq(ObjectFile) /\ Len(kept) = version + 1
        BY <1>1, <4>1
      <4>3. /\ Append(kept, Full(s)) \in Seq(ObjectFile)
            /\ Len(Append(kept, Full(s))) = version + 2
        BY <1>1, <1>2, <4>2
      <4>4. version' = version + 1
            /\ stored' = [stored EXCEPT ![file] = Append(kept, Full(s))]
        BY <2>2, <3>1
      <4> HIDE DEF kept
      <4> QED  BY <1>1, <4>3, <4>4
    <3>2. CASE ~ok
      BY <1>1, <2>2, <3>2
    <3> QED  BY <3>1, <3>2
  <2> QED  BY <2>1, <2>2, <2>3, <2>4, <2>5, <2>6
<1> QED  BY <1>3, <1>4, <1>5 DEF CompileSourceOptimistically

\* The tokens of a string stay older than a later round.
LEMMA OlderTokens ==
    ASSUME NEW s \in Seq(Token), NEW m \in Int, NEW n \in Int, m <= n,
           \A i \in DOMAIN s : s[i].round <= m
    PROVE  \A i \in DOMAIN s : s[i].round <= n
<1> SUFFICES ASSUME NEW i \in DOMAIN s PROVE s[i].round <= n
  OBVIOUS
<1>1. s[i] \in Token
  OBVIOUS
<1>2. s[i].round \in Int
  BY <1>1, RoundsAssumption DEF Token
<1> QED  BY <1>2

\* What a search adds to a string is newer than the tokens in it.
LEMMA ExtendedInOrder ==
    ASSUME TypeOK, NEW s \in Seq(Token), InOrder(s), round > 0,
           \A i \in DOMAIN s : s[i].round <= round - 1, NEW pick \in Picks
    PROVE  LET longer == Append(s, [round |-> round, pick |-> pick])
           IN  /\ longer \in Seq(Token)
               /\ InOrder(longer)
               /\ \A i \in DOMAIN longer : longer[i].round <= round
<1> DEFINE token == [round |-> round, pick |-> pick]
           longer == Append(s, token)
<1>1. token \in Token /\ token.round = round /\ round \in Nat
  BY RoundsAssumption DEF TypeOK, Token
<1>2. /\ longer \in Seq(Token) /\ DOMAIN longer = 1 .. Len(s) + 1
      /\ longer[Len(s) + 1] = token /\ \A i \in 1 .. Len(s) : longer[i] = s[i]
      /\ DOMAIN s = 1 .. Len(s) /\ Len(s) \in Nat
      /\ \A i \in 1 .. Len(s) : s[i] \in Token
  BY <1>1
<1>3. ASSUME NEW i \in 1 .. Len(s)
      PROVE  s[i].round \in Nat /\ s[i].round < round
  <2>1. s[i] \in Token /\ s[i].round <= round - 1
    BY <1>2
  <2>2. s[i].round \in Nat
    BY <2>1, RoundsAssumption DEF Token
  <2> HIDE DEF token, longer
  <2> QED  BY <1>1, <2>1, <2>2
<1> HIDE DEF longer, token
<1>4. \A i \in DOMAIN longer : longer[i].round <= round
  BY <1>1, <1>2, <1>3
<1>5. InOrder(longer)
  <2> SUFFICES ASSUME NEW i \in DOMAIN longer, NEW j \in DOMAIN longer, i < j
               PROVE  longer[i].round < longer[j].round
    BY DEF InOrder
  <2>1. i \in 1 .. Len(s)
    BY <1>2
  <2>2. CASE j \in 1 .. Len(s)
    BY <1>2, <2>1, <2>2 DEF InOrder
  <2>3. CASE j = Len(s) + 1
    BY <1>1, <1>2, <1>3, <2>1, <2>3
  <2> QED  BY <1>2, <2>2, <2>3
<1> QED  BY <1>2, <1>4, <1>5 DEF longer, token

-------------------------------------------------------------------------------
(* The types of the state: steps *)

LEMMA InitTypeInv == Init => TypeInv
<1> SUFFICES ASSUME Init PROVE TypeInv  OBVIOUS
<1>1. <<>> \in Seq(Token) /\ InOrder(<<>>) /\ <<>> \in Seq(ObjectFile)
  BY DEF InOrder
<1>2. /\ text \in [File -> Seq(Token)] /\ choices \in [File -> Seq(Token)]
      /\ \A f \in File : InOrder(text[f]) /\ InOrder(choices[f])
      /\ stored \in [File -> Seq(ObjectFile)]
  BY <1>1 DEF Init
<1>3. /\ written \in [File -> {None} \cup Seq(Token)]
      /\ obj \in [File -> {None} \cup ObjectFile]
  BY DEF Init
<1>4. file \in File /\ round \in 0 .. Rounds /\ version \in 0 .. MaxVersions + Rounds
  BY FilesAssumption, RoundsAssumption, BoundAssumption DEF Init, File
<1>5. TypeOK
  BY <1>2, <1>3, <1>4 DEF Init, TypeOK
<1> QED  BY <1>5 DEF Init, TypeInv

\* The object files of the initial build.
LEMMA InitialBuildTypes == ASSUME TypeInv, InitialBuild PROVE TypeInv'
<1>1. /\ obj' = [f \in File |-> Full(<<>>)] /\ exe' = obj'
      /\ stored' = [f \in File |-> <<Full(<<>>)>>]
      /\ compiled' = {<<f, Full(<<>>)>> : f \in File}
      /\ UNCHANGED <<file, round, stop, text, choices, written, version,
                     answer, raised>>
  BY DEF InitialBuild, progress, results
<1>2. PICK ok \in BOOLEAN : Verify(exe', ok) /\ pc' = IF ok THEN "scan" ELSE "done"
  BY DEF InitialBuild
<1>3. TypeOK /\ file = 1 /\ round = 0 /\ version = 0 /\ ~stop
      /\ \A f \in File : text[f] = <<>> /\ choices[f] = <<>>
  BY DEF TypeInv, InitialBuild
<1>4. <<>> \in Seq(Token)
  OBVIOUS
<1>5. Full(<<>>) \in ObjectFile
  BY <1>4, FullIsFile
<1>6. passed' \cap failed' = {}
  BY <1>2, <1>3, VerifyOnce DEF TypeOK
<1>7. TypeOK'
  <2>1. /\ obj' \in [File -> {None} \cup ObjectFile]
        /\ exe' \in [File -> ObjectFile] /\ stored' \in [File -> Seq(ObjectFile)]
    BY <1>1, <1>5
  <2> QED  BY <1>1, <1>2, <1>3, <1>6, <2>1 DEF TypeOK, InOrder
<1>8. Finished' = 0 /\ RoundsLeft'
  BY <1>1, <1>2, <1>3, RoundsAssumption DEF Finished, RoundsLeft
<1>9. pc' = "scan" => RunningTypes'
  <2>1. file \in File /\ version = 0 /\ MaxVersions \in Nat
    BY <1>3, BoundAssumption DEF TypeOK
  <2>2. \A f \in File : Len(stored'[f]) = 1 /\ <<f, Full(<<>>)>> \in compiled'
    BY <1>1
  <2>3. \A f \in File : obj'[f] \in ObjectFile
    BY <1>1, <1>5
  <2> QED  BY <1>1, <1>3, <1>8, <2>1, <2>2, <2>3 DEF RunningTypes
<1> QED  BY <1>2, <1>7, <1>9 DEF TypeInv

\* Going on with the next file, when no object file is missing.
LEMMA NextFileTypes ==
    ASSUME TypeInv, pc \in {"scan", "search"}, NextFile,
           UNCHANGED <<text, choices, stored, answer>>,
           compiled \subseteq compiled',
           written' \in [File -> {None} \cup Seq(Token)],
           obj' \in [File -> ObjectFile],
           exe' \in {None} \cup [File -> ObjectFile],
           passed' \cap failed' = {}, raised' \in BOOLEAN
    PROVE  TypeInv'
<1>1. TypeOK /\ RunningTypes
  BY DEF TypeInv
<1>2. CASE file = NumFiles
  <2>1. pc' = "done" /\ UNCHANGED <<file, round, stop, version>>
    BY <1>2 DEF NextFile, progress
  <2>2. TypeOK'
    BY <1>1, <2>1 DEF TypeOK, InOrder
  <2> QED  BY <2>1, <2>2 DEF TypeInv
<1>3. CASE file # NumFiles
  <2>1. pc' = "scan" /\ file' = file + 1 /\ round' = 0 /\ ~stop' /\ stop' \in BOOLEAN
        /\ version' = 0
    BY <1>3 DEF NextFile
  <2>2. file' \in File /\ file' > file /\ \A f \in File : f > file' => f > file
    BY <1>1, <1>3, <2>1, FilesAssumption DEF TypeOK, File
  <2>3. TypeOK'
    BY <1>1, <2>1, <2>2, RoundsAssumption, BoundAssumption DEF TypeOK, InOrder
  <2>4. Finished' = 0 /\ MaxVersions \in Nat
    BY <2>1, BoundAssumption DEF Finished
  <2>5. /\ text'[file'] = <<>> /\ choices'[file'] = <<>> /\ Len(stored'[file']) > 0
        /\ <<file', Full(<<>>)>> \in compiled'
    BY <1>1, <2>2 DEF RunningTypes
  <2>6. \A f \in File : f > file' =>
          /\ text'[f] = <<>> /\ choices'[f] = <<>>
          /\ Len(stored'[f]) > 0
          /\ <<f, Full(<<>>)>> \in compiled'
    BY <1>1, <2>2 DEF RunningTypes
  <2>7. \A f \in File : obj'[f] \in ObjectFile
    OBVIOUS
  <2>8. RunningTypes'
    BY <2>1, <2>2, <2>4, <2>5, <2>6, <2>7 DEF RunningTypes
  <2> QED  BY <2>1, <2>3, <2>8 DEF TypeInv
<1> QED  BY <1>2, <1>3

\* The choices are written when all rounds of a file are done.
LEMMA FileDoneTypes == ASSUME TypeInv, FileDone PROVE TypeInv'
<1>1. TypeOK /\ RunningTypes
  BY DEF TypeInv, FileDone
<1>2. written' \in [File -> {None} \cup Seq(Token)]
  BY <1>1 DEF TypeOK, FileDone
<1>3. obj \in [File -> ObjectFile]
  BY <1>1 DEF TypeOK, RunningTypes, FileDone
<1> QED  BY <1>1, <1>2, <1>3, NextFileTypes DEF FileDone, history, TypeOK

\* A scan replaces the object file, and begins a round.
LEMMA ScanTypes == ASSUME TypeInv, Scan PROVE TypeInv'
<1>1. TypeOK /\ RunningTypes
  BY DEF TypeInv, Scan
<1>2. /\ pc = "scan" /\ round' = round + 1 /\ round < Rounds /\ ~stop
      /\ obj' = [obj EXCEPT ![file] = Object(text[file], round')]
      /\ compiled \subseteq compiled' /\ pc' \in {"scan", "search"}
      /\ UNCHANGED <<file, stop, text, choices, written, exe, version, stored,
                     answer, passed, failed, raised>>
  BY DEF Scan, RoundsLeft, results
<1>3. round \in 0 .. Rounds /\ round' \in 0 .. Rounds /\ round' \in Nat \ {0}
  BY <1>1, <1>2, RoundsAssumption DEF TypeOK
<1>4. Object(text[file], round') \in ObjectFile
  BY <1>1, <1>3, ObjectIsFile DEF TypeOK
<1>5. /\ obj' \in [File -> {None} \cup ObjectFile] /\ obj'[file] \in ObjectFile
      /\ \A f \in File \ {file} : obj'[f] = obj[f]
  BY <1>1, <1>2, <1>4 DEF TypeOK
<1>6. TypeOK'
  BY <1>1, <1>2, <1>3, <1>5 DEF TypeOK, InOrder
<1>7. Finished = round /\ Finished' \in {round, round + 1} /\ round' > 0
  BY <1>2, <1>3 DEF Finished
<1>8. RunningTypes'
  <2>1. /\ \A i \in DOMAIN text[file] : text[file][i].round <= Finished'
        /\ \A i \in DOMAIN choices[file] : choices[file][i].round <= Finished'
    <3>1. /\ text[file] \in Seq(Token) /\ choices[file] \in Seq(Token)
      BY <1>1 DEF TypeOK
    <3>2. Finished \in Int /\ Finished' \in Int /\ Finished <= Finished'
      BY <1>3, <1>7
    <3> QED  BY <1>1, <3>1, <3>2, OlderTokens DEF RunningTypes
  <2>2. version <= MaxVersions + Finished'
    BY <1>1, <1>3, <1>7, BoundAssumption DEF RunningTypes, TypeOK
  <2> QED  BY <1>1, <1>2, <1>5, <1>7, <2>1, <2>2 DEF RunningTypes
<1> QED  BY <1>2, <1>6, <1>8 DEF TypeInv

\* A scan that fails may lose the object file; in the last round it cannot,
\* for with all passes the string has been compiled before.
LEMMA ScanErrorTypes == ASSUME TypeInv, ScanError PROVE TypeInv'
<1>1. TypeOK /\ RunningTypes
  BY DEF TypeInv, ScanError
<1>2. /\ pc = "scan" /\ pc' = pc /\ round' = round + 1 /\ round < Rounds /\ ~stop
      /\ obj' \in {obj, [obj EXCEPT ![file] = None]}
      /\ <<file, Object(text[file], round')>> \notin compiled
      /\ UNCHANGED <<file, stop, text, choices, written, exe, version, stored,
                     answer, passed, failed, raised, compiled>>
  BY DEF ScanError, RoundsLeft, results, history, KeepOrLose, Compiles
<1>3. round \in 0 .. Rounds /\ round' \in 0 .. Rounds
  BY <1>1, <1>2, RoundsAssumption DEF TypeOK
<1>4. /\ obj' \in [File -> {None} \cup ObjectFile]
      /\ \A f \in File \ {file} : obj'[f] = obj[f]
  BY <1>1, <1>2 DEF TypeOK
<1>5. TypeOK'
  BY <1>1, <1>2, <1>3, <1>4 DEF TypeOK, InOrder
<1>6. round' < Rounds
  BY <1>1, <1>2, <1>3, LastScanIsFull DEF RunningTypes
<1>7. Finished = round /\ Finished' = round + 1
  BY <1>2 DEF Finished
<1>8. RunningTypes'
  <2>1. /\ \A i \in DOMAIN text[file] : text[file][i].round <= Finished'
        /\ \A i \in DOMAIN choices[file] : choices[file][i].round <= Finished'
    <3>1. /\ text[file] \in Seq(Token) /\ choices[file] \in Seq(Token)
      BY <1>1 DEF TypeOK
    <3>2. Finished \in Int /\ Finished' \in Int /\ Finished <= Finished'
      BY <1>3, <1>7
    <3> QED  BY <1>1, <3>1, <3>2, OlderTokens DEF RunningTypes
  <2>2. version <= MaxVersions + Finished'
    BY <1>1, <1>3, <1>7, BoundAssumption DEF RunningTypes, TypeOK
  <2> QED  BY <1>1, <1>2, <1>4, <1>6, <2>1, <2>2 DEF RunningTypes, RoundsLeft
<1> QED  BY <1>2, <1>5, <1>8 DEF TypeInv

\* What the searches of the present file compile, and what they may become.
LEMMA SearchedStrings ==
    ASSUME TypeInv, pc = "search", NEW pick \in Picks
    PROVE  /\ Extended(pick) \in Seq(Token) /\ InOrder(Extended(pick))
           /\ \A i \in DOMAIN Extended(pick) : Extended(pick)[i].round <= round
           /\ LET chosen == Append(choices[file], [round |-> round, pick |-> pick])
              IN  /\ chosen \in Seq(Token) /\ InOrder(chosen)
                  /\ \A i \in DOMAIN chosen : chosen[i].round <= round
<1>1. TypeOK /\ RunningTypes /\ Finished = round - 1 /\ round > 0
  BY DEF TypeInv, RunningTypes, Finished
<1>2. /\ text[file] \in Seq(Token) /\ InOrder(text[file])
      /\ choices[file] \in Seq(Token) /\ InOrder(choices[file])
  BY <1>1 DEF TypeOK
<1>3. /\ \A i \in DOMAIN text[file] : text[file][i].round <= round - 1
      /\ \A i \in DOMAIN choices[file] : choices[file][i].round <= round - 1
  BY <1>1 DEF RunningTypes
<1> QED  BY <1>1, <1>2, <1>3, ExtendedInOrder DEF Extended

\* A build of a search, within the bound of the versions.
LEMMA TryTypes == ASSUME TypeInv, Try PROVE TypeInv'
<1>1. /\ pc = "search" /\ version < MaxVersions
      /\ UNCHANGED <<pc, file, round, stop, text, choices, written>>
  BY DEF Try, progress, results
<1>2. TypeOK /\ RunningTypes /\ round > 0
  BY <1>1 DEF TypeInv, RunningTypes
<1>3. PICK pick \in Picks : CompileSourceOptimistically(Extended(pick), FALSE)
  BY DEF Try
<1>4. Extended(pick) \in Seq(Token)
  BY <1>1, SearchedStrings
<1>5. /\ obj' \in [File -> {None} \cup ObjectFile]
      /\ exe' \in {None} \cup [File -> ObjectFile]
      /\ stored' \in [File -> Seq(ObjectFile)]
      /\ version' \in {version, version + 1}
      /\ version' < Len(stored'[file])
      /\ \A f \in File : f # file => obj'[f] = obj[f] /\ stored'[f] = stored[f]
      /\ answer' \in BOOLEAN /\ raised' = raised
      /\ passed' \cap failed' = {} /\ compiled \subseteq compiled'
      /\ exe' # None => obj'[file] \in ObjectFile
  BY <1>2, <1>3, <1>4, BuildTypes DEF RunningTypes
<1>6. /\ Finished' = Finished /\ Finished \in Nat
      /\ version' \in Nat /\ version' <= MaxVersions
  BY <1>1, <1>2, <1>5, RoundsAssumption, BoundAssumption DEF Finished, TypeOK
<1>7. version' \in 0 .. MaxVersions + Rounds /\ version' <= MaxVersions + Finished'
  BY <1>6, RoundsAssumption, BoundAssumption
<1>8. TypeOK'
  BY <1>1, <1>2, <1>5, <1>7 DEF TypeOK, InOrder
<1>9. \A f \in File : f > file => f # file
  BY DEF File
<1>10. RunningTypes'
  BY <1>1, <1>2, <1>5, <1>6, <1>7, <1>9 DEF RunningTypes
<1> QED  BY <1>1, <1>8, <1>10 DEF TypeInv

\* A search ends with a string and choices of its round at most.
LEMMA EndOfSearchTypes ==
    ASSUME TypeInv, pc = "search",
           NEW string \in Seq(Token), InOrder(string),
           \A i \in DOMAIN string : string[i].round <= round,
           NEW chosen \in Seq(Token), InOrder(chosen),
           \A i \in DOMAIN chosen : chosen[i].round <= round,
           CompileSourceOptimistically(string, TRUE),
           text' = [text EXCEPT ![file] = string],
           choices' = [choices EXCEPT ![file] = chosen],
           pc' = AfterValidation, stop' \in BOOLEAN,
           UNCHANGED <<file, round, written>>
    PROVE  TypeInv'
<1>1. TypeOK /\ RunningTypes /\ round > 0 /\ pc' \in {"scan", "aborted"}
  BY DEF TypeInv, RunningTypes, AfterValidation
<1>2. /\ obj' \in [File -> {None} \cup ObjectFile]
      /\ exe' \in {None} \cup [File -> ObjectFile]
      /\ stored' \in [File -> Seq(ObjectFile)]
      /\ version' \in {version, version + 1}
      /\ version' < Len(stored'[file])
      /\ \A f \in File : f # file => obj'[f] = obj[f] /\ stored'[f] = stored[f]
      /\ answer' \in BOOLEAN /\ raised' = raised
      /\ passed' \cap failed' = {} /\ compiled \subseteq compiled'
      /\ answer' => /\ obj'[file] = Full(string)
                    /\ <<file, Full(string)>> \in compiled'
  BY <1>1, BuildTypes DEF RunningTypes
<1>3. /\ text' \in [File -> Seq(Token)] /\ choices' \in [File -> Seq(Token)]
      /\ text'[file] = string /\ choices'[file] = chosen
      /\ \A f \in File : f # file => text'[f] = text[f] /\ choices'[f] = choices[f]
  BY <1>1 DEF TypeOK
<1>4. \A f \in File : InOrder(text'[f]) /\ InOrder(choices'[f])
  BY <1>1, <1>3 DEF TypeOK
<1>5. version <= MaxVersions + (round - 1) /\ version \in Nat /\ round \in 0 .. Rounds
  BY <1>1, RoundsAssumption, BoundAssumption DEF RunningTypes, Finished, TypeOK
<1>6. version' \in 0 .. MaxVersions + Rounds /\ version' <= MaxVersions + round
  BY <1>2, <1>5, RoundsAssumption, BoundAssumption
<1>7. TypeOK'
  BY <1>1, <1>2, <1>3, <1>4, <1>6 DEF TypeOK, InOrder
<1>8. ASSUME pc' = "scan" PROVE RunningTypes'
  <2>1. answer' /\ Finished' = round
    BY <1>8 DEF AfterValidation, Finished
  <2>2. obj'[file] \in ObjectFile
    BY <1>2, <2>1, FullIsFile
  <2>3. file' = file /\ file \in File /\ \A f \in File : f > file => f # file
    BY <1>1 DEF TypeOK, File
  <2>4. <<file', Full(text'[file'])>> \in compiled'
    BY <1>2, <1>3, <2>1, <2>3
  <2>5. /\ \A i \in DOMAIN text'[file'] : text'[file'][i].round <= Finished'
        /\ \A i \in DOMAIN choices'[file'] : choices'[file'][i].round <= Finished'
    BY <1>3, <2>1, <2>3
  <2>6. \A f \in File : f > file' =>
          /\ text'[f] = <<>> /\ choices'[f] = <<>>
          /\ Len(stored'[f]) > 0
          /\ <<f, Full(<<>>)>> \in compiled'
    BY <1>1, <1>2, <1>3, <2>3 DEF RunningTypes
  <2>7. \A f \in File \ {file'} : obj'[f] \in ObjectFile
    BY <1>1, <1>2, <2>3 DEF RunningTypes
  <2>8. version' <= MaxVersions + Finished' /\ version' < Len(stored'[file'])
    BY <1>2, <1>6, <2>1, <2>3
  <2> QED
    BY <1>8, <2>2, <2>3, <2>4, <2>5, <2>6, <2>7, <2>8 DEF RunningTypes
<1> QED  BY <1>1, <1>7, <1>8 DEF TypeInv

\* An exception: the new object file stays, whether it was linked or not.
LEMMA RaiseTypes == ASSUME TypeInv, Raise PROVE TypeInv'
<1>1. TypeOK /\ RunningTypes /\ pc = "search"
  BY DEF TypeInv, Raise
<1>2. /\ raised' = TRUE /\ UNCHANGED <<text, choices, written, stored, answer>>
  BY DEF Raise, results
<1>3. /\ obj' \in [File -> ObjectFile] /\ compiled \subseteq compiled'
      /\ exe' \in {None} \cup [File -> ObjectFile]
      /\ passed' \cap failed' = {}
  <2>1. CASE exe # None /\ UNCHANGED <<obj, exe, passed, failed, compiled>>
    BY <1>1, <2>1 DEF TypeOK, RunningTypes
  <2>2. CASE ~(exe # None /\ UNCHANGED <<obj, exe, passed, failed, compiled>>)
    <3>1. PICK pick \in Picks : obj' = [obj EXCEPT ![file] = Full(Extended(pick))]
      BY <2>2 DEF Raise
    <3>2. Full(Extended(pick)) \in ObjectFile
      BY <1>1, SearchedStrings, FullIsFile
    <3>3. obj' \in [File -> ObjectFile]
      BY <1>1, <3>1, <3>2 DEF TypeOK, RunningTypes
    <3>4. CASE exe' = None /\ UNCHANGED <<passed, failed>>
      BY <1>1, <2>2, <3>3, <3>4 DEF TypeOK, Raise
    <3>5. CASE exe' = obj' /\ \E ok \in BOOLEAN : Verify(exe', ok)
      BY <1>1, <2>2, <3>3, <3>5, VerifyOnce DEF TypeOK, Raise
    <3> QED  BY <2>2, <3>4, <3>5 DEF Raise
  <2> QED  BY <2>1, <2>2
<1>4. CASE NextFile
  BY <1>1, <1>2, <1>3, <1>4, NextFileTypes DEF TypeOK
<1>5. CASE pc' = "aborted" /\ UNCHANGED <<progress, version>>
  <2>1. TypeOK'
    BY <1>1, <1>2, <1>3, <1>5 DEF TypeOK, InOrder, progress
  <2> QED  BY <1>5, <2>1 DEF TypeInv
<1> QED  BY <1>4, <1>5 DEF Raise

\* An exception in a scan leaves the object file of the scan.
LEMMA ScanRaiseTypes == ASSUME TypeInv, ScanRaise PROVE TypeInv'
<1>1. TypeOK /\ RunningTypes /\ pc = "scan"
  BY DEF TypeInv, ScanRaise
<1>2. /\ raised' = TRUE /\ compiled \subseteq compiled'
      /\ obj' = [obj EXCEPT ![file] = Object(text[file], round + 1)]
      /\ UNCHANGED <<text, choices, written, stored, answer, exe, passed, failed>>
  BY DEF ScanRaise, results
<1>3. Object(text[file], round + 1) \in ObjectFile
  BY <1>1, RoundsAssumption, ObjectIsFile DEF TypeOK
<1>4. obj' \in [File -> ObjectFile]
  BY <1>1, <1>2, <1>3 DEF TypeOK, RunningTypes
<1> QED  BY <1>1, <1>2, <1>4, NextFileTypes DEF TypeOK, ScanRaise

\* An exception in the initial build.
LEMMA InitialRaiseTypes == ASSUME TypeInv, InitialRaise PROVE TypeInv'
<1>1. TypeOK /\ pc' = "aborted" /\ raised' = TRUE
  BY DEF TypeInv, InitialRaise
<1>2. UNCHANGED <<file, round, stop, text, choices, written, version, answer,
                  passed, failed>>
  BY DEF InitialRaise, progress, results
<1>3. /\ obj' \in [File -> {None} \cup ObjectFile]
      /\ exe' \in {None} \cup [File -> ObjectFile]
      /\ stored' \in [File -> Seq(ObjectFile)]
  <2>1. CASE UNCHANGED <<obj, exe, stored, compiled>>
    BY <1>1, <2>1 DEF TypeOK
  <2>2. CASE ~UNCHANGED <<obj, exe, stored, compiled>>
    <3>1. <<>> \in Seq(Token) /\ <<>> \in Seq(ObjectFile)
      OBVIOUS
    <3>2. Full(<<>>) \in ObjectFile /\ <<Full(<<>>)>> \in Seq(ObjectFile)
      <4>1. Full(<<>>) \in ObjectFile
        BY <3>1, FullIsFile
      <4> QED  BY <4>1
    <3>3. obj' = [f \in File |-> Full(<<>>)] /\ exe' = obj'
      BY <2>2 DEF InitialRaise
    <3>4. PICK n \in 0 .. NumFiles :
             stored' = [f \in File |-> IF f <= n THEN <<Full(<<>>)>> ELSE <<>>]
      BY <2>2 DEF InitialRaise
    <3>5. obj' \in [File -> ObjectFile]
      BY <3>2, <3>3
    <3>6. stored' \in [File -> Seq(ObjectFile)]
      BY <3>1, <3>2, <3>4
    <3> QED  BY <3>3, <3>5, <3>6
  <2> QED  BY <2>1, <2>2
<1>4. TypeOK'
  BY <1>1, <1>2, <1>3 DEF TypeOK, InOrder
<1> QED  BY <1>1, <1>4 DEF TypeInv

-------------------------------------------------------------------------------
(* The types of the state: all steps *)

LEMMA StepTypeInv == ASSUME TypeInv, [Next]_vars PROVE TypeInv'
<1>1. CASE InitialBuild
  BY <1>1, InitialBuildTypes
<1>2. CASE InitialError
  <2>1. TypeOK /\ pc' = "done"
    BY <1>2 DEF TypeInv, InitialError
  <2>2. obj' \in [File -> {None} \cup ObjectFile]
    <3>1. <<>> \in Seq(Token)
      OBVIOUS
    <3>2. Full(<<>>) \in ObjectFile
      BY <3>1, FullIsFile
    <3> QED  BY <1>2, <3>2 DEF InitialError
  <2>3. TypeOK'
    BY <1>2, <2>1, <2>2 DEF TypeOK, InOrder, InitialError, progress, results
  <2> QED  BY <2>1, <2>3 DEF TypeInv
<1>3. CASE FileDone
  BY <1>3, FileDoneTypes
<1>4. CASE Scan
  BY <1>4, ScanTypes
<1>5. CASE ScanError
  BY <1>5, ScanErrorTypes
<1>6. CASE Try
  BY <1>6, TryTypes
<1>7. CASE Conclude
  <2>1. PICK pick \in Picks :
          /\ CompileSourceOptimistically(Extended(pick), TRUE)
          /\ text' = [text EXCEPT ![file] = Extended(pick)]
          /\ choices' = [choices EXCEPT ![file] =
                            Append(@, [round |-> round, pick |-> pick])]
    BY <1>7 DEF Conclude
  <2> DEFINE chosen == Append(choices[file], [round |-> round, pick |-> pick])
  <2>2. /\ Extended(pick) \in Seq(Token) /\ InOrder(Extended(pick))
        /\ \A i \in DOMAIN Extended(pick) : Extended(pick)[i].round <= round
        /\ chosen \in Seq(Token) /\ InOrder(chosen)
        /\ \A i \in DOMAIN chosen : chosen[i].round <= round
    BY <1>7, SearchedStrings DEF Conclude
  <2>3. choices' = [choices EXCEPT ![file] = chosen]
    BY <2>1
  <2> HIDE DEF chosen
  <2> QED  BY <1>7, <2>1, <2>2, <2>3, EndOfSearchTypes DEF Conclude
<1>8. CASE ConcludeEmpty
  <2>1. TypeOK /\ RunningTypes /\ pc = "search" /\ Finished = round - 1
        /\ round \in Int
    BY <1>8 DEF TypeInv, ConcludeEmpty, Finished, TypeOK
  <2>2. /\ choices[file] \in Seq(Token) /\ InOrder(choices[file])
        /\ choices' = [choices EXCEPT ![file] = choices[file]]
    BY <1>8, <2>1 DEF TypeOK, ConcludeEmpty
  <2>3. \A i \in DOMAIN choices[file] : choices[file][i].round <= round
    <3>1. \A i \in DOMAIN choices[file] : choices[file][i].round <= round - 1
      BY <2>1 DEF RunningTypes
    <3>2. round - 1 \in Int /\ round - 1 <= round
      BY <2>1
    <3> QED  BY <2>1, <2>2, <3>1, <3>2, OlderTokens
  <2>4. <<>> \in Seq(Token) /\ InOrder(<<>>) /\ DOMAIN (<<>>) = {}
    BY DEF InOrder
  <2> QED  BY <1>8, <2>2, <2>3, <2>4, EndOfSearchTypes DEF ConcludeEmpty
<1>9. CASE Raise
  BY <1>9, RaiseTypes
<1>10. CASE UNCHANGED vars
  BY <1>10 DEF vars, progress, results, disk, history, TypeInv, TypeOK,
     RunningTypes, InOrder, Finished, RoundsLeft
<1>11. CASE InitialRaise
  BY <1>11, InitialRaiseTypes
<1>12. CASE ScanRaise
  BY <1>12, ScanRaiseTypes
<1> QED
  BY <1>1, <1>2, <1>3, <1>4, <1>5, <1>6, <1>7, <1>8, <1>9, <1>10, <1>11, <1>12
  DEF Next

\* The invariant behind the types holds in every reachable state.
THEOREM TypeInvariance == Spec => []TypeInv
<1> QED  BY InitTypeInv, StepTypeInv, PTL DEF Spec

\* The state of the experiment keeps its types: strings and choices have one
\* token of a round at most, in order, every executable is linked from an
\* object file of each source file, and the last valid version of the file
\* that is tuned is there when a build is compared with it.
THEOREM TunerTypeCorrect == Spec => []TypeOK
<1>1. TypeInv => TypeOK
  BY DEF TypeInv
<1> QED  BY <1>1, TypeInvariance, PTL

===============================================================================
