----------------------------- MODULE SearchProofs -----------------------------
(***************************************************************************)
(* What is proved of the search for every number of choices, every number  *)
(* of options, every limit and every sequence of answers; then, when the   *)
(* assertion of optimizeAndRun on the forced validation holds, for every   *)
(* verification that answers.                                              *)
(***************************************************************************)
EXTENDS VerifiedSearch, NumberLemmas, FiniteSetTheorems, SequenceTheorems, TLAPS

-------------------------------------------------------------------------------
(* The operators of the search *)

\* Cutting the stack of problems keeps its type, and what is left of it.
LEMMA CutProblems ==
    ASSUME NEW S, NEW stack \in Seq(S), NEW depth \in 0 .. Len(stack)
    PROVE  /\ SubSeq(stack, 1, depth) \in Seq(S)
           /\ Len(SubSeq(stack, 1, depth)) = depth
           /\ \A k \in 1 .. depth : SubSeq(stack, 1, depth)[k] = stack[k]
           /\ SubSeq(stack, 1, depth) = <<>> <=> depth = 0
<1>1. \A k \in 1 .. depth : stack[k] \in S
  BY LenProperties, ElementOfSeq
<1>2. /\ SubSeq(stack, 1, depth) \in Seq(S)
      /\ Len(SubSeq(stack, 1, depth)) = depth
      /\ \A k \in 1 .. depth : SubSeq(stack, 1, depth)[k] = stack[k]
  BY <1>1, SubSeqProperties
<1> QED  BY <1>2, EmptySeq

\* While the string agrees with the objects, the build that is tried has the
\* levels of the choices up to the one at LastPos.
LEMMA ProbeIsPrefix ==
    ASSUME TypeOK, control = value
    PROVE  Probe = [i \in Choice |-> IF i <= LastPos THEN value[i] ELSE 0]
<1>1. DOMAIN control = Choice
  BY DEF TypeOK, Assignment
<1>2. DOMAIN Prefix(LastPos + 1) = {i \in Choice : i <= LastPos}
  BY <1>1, NAssumption DEF Prefix, Choice, LastPos, TypeOK
<1> QED
  BY <1>1, <1>2, NAssumption DEF Probe, Levels, Prefix, Choice, LastPos, TypeOK

-------------------------------------------------------------------------------
(* The inductive invariant *)

LEMMA InitIInv == Init => IInv
<1> SUFFICES ASSUME Init PROVE IInv  OBVIOUS
<1> USE NAssumption, OptionsAssumption
<1>1. value \in Assignment
  BY DEF Init, Choice, Assignment
<1>2. TypeOK
  <2>1. control \in [0 .. N - 1 -> Nat]
    BY <1>1 DEF Init, Choice, Assignment
  <2>2. problems \in Seq(Choice \X (1 .. N))
    BY EmptySeq DEF Init
  <2>3. /\ fixed \in [Choice -> BOOLEAN]
        /\ accepted \in Assignment
    BY DEF Init, Assignment
  <2>4. 0 \in 0 .. N /\ N \in 1 .. N /\ N \in 0 .. N
    OBVIOUS
  <2>5. IsString(control)
    BY <2>1, <2>4, Zenon DEF IsString
  <2> QED  BY <1>1, <2>2, <2>3, <2>4, <2>5 DEF Init, TypeOK
<1>3. LoopInv
  <2>1. \A i \in Choice : value[i] > 0
    BY DEF Init, Choice
  <2> QED  BY <2>1 DEF Init, LoopInv, Choice
<1>4. AcceptedUpTo(0)
  BY DEF Init, AcceptedUpTo, Choice
<1> QED
  BY <1>2, <1>3, <1>4
  DEF Init, IInv, NoAssertionFails, StringMatchesChoices,
      CarriedUnlessNothingDecided

LEMMA ProposeIInv == IInv /\ Propose => IInv'
<1> SUFFICES ASSUME IInv, Propose PROVE IInv'  OBVIOUS
<1> USE NAssumption
<1>1. TypeOK /\ LoopInv /\ Len(problems) \in Nat
  BY LenProperties DEF IInv, Searching, Propose, TypeOK
<1>2. PICK depth \in 0 .. Len(problems) :
         IsOpenDepth(cur, depth) /\ problems' = SubSeq(problems, 1, depth)
  BY DEF Propose
<1>3. /\ problems' \in Seq(Choice \X (1 .. N))
      /\ Len(problems') = depth
      /\ \A k \in 1 .. depth : problems'[k] = problems[k]
      /\ problems' = <<>> <=> depth = 0
  BY <1>1, <1>2, CutProblems DEF TypeOK
<1>4. /\ pc = "head" /\ pc' = "verify" /\ tries' = tries + 1 /\ firstPos < N
      /\ UNCHANGED <<value, fixed, control, carried, firstPos>>
      /\ UNCHANGED <<cur, dist, changed, accepted>>
  BY DEF Propose, searchVars
<1>5. TypeOK'
  BY <1>1, <1>3, <1>4 DEF TypeOK
<1>6. LoopInv'
  <2>1. \A k \in 1 .. Len(problems') : End(problems'[k]) <= N
    BY <1>1, <1>2, <1>3 DEF LoopInv
  <2>2. IF problems' = <<>> THEN cur + dist = N ELSE End(problems'[1]) = N
    \* the outermost problem ends at N, after cur: it stays
    <3>1. CASE problems = <<>>
      BY <1>1, <1>2, <1>3, <1>4, <3>1, EmptySeq DEF LoopInv
    <3>2. CASE problems # <<>>
      <4>1. Len(problems) > 0
        BY <1>1, <3>2, EmptySeq DEF TypeOK
      <4>2. End(problems[1]) = N /\ cur < N /\ cur \in Int
        BY <1>1, <1>4, <3>2 DEF LoopInv, TypeOK
      <4>3. depth # 0
        BY <1>1, <1>2, <4>1, <4>2 DEF IsOpenDepth
      <4> QED  BY <1>1, <1>2, <1>3, <4>2, <4>3
    <3> QED  BY <3>1, <3>2
  <2> QED  BY <1>1, <1>4, <2>1, <2>2 DEF LoopInv
<1>7. \E p \in 0 .. firstPos' : AcceptedUpTo(p)'
  BY <1>4 DEF IInv, AcceptedUpTo
<1> QED
  BY <1>1, <1>4, <1>5, <1>6, <1>7
  DEF IInv, NoAssertionFails, StringMatchesChoices,
      CarriedUnlessNothingDecided, LoopInv

LEMMA ResolveIInv == IInv /\ Resolve => IInv'
<1> SUFFICES ASSUME IInv, Resolve PROVE IInv'  OBVIOUS
<1> USE NAssumption
<1>1. TypeOK /\ LoopInv
  BY DEF IInv, Searching, Resolve
<1>2. /\ pc = "head" /\ pc' = "resolved" /\ firstPos >= N
      /\ UNCHANGED <<value, fixed, control, carried, firstPos>>
      /\ UNCHANGED <<cur, dist, problems, changed, tries, accepted>>
  BY DEF Resolve, searchVars, blockVars
<1>3. TypeOK'
  BY <1>1, <1>2 DEF TypeOK
<1>4. \E p \in 0 .. firstPos' : AcceptedUpTo(p)'
  BY <1>2 DEF IInv, AcceptedUpTo
<1>5. StringMatchesChoices'
  <2>1. firstPos = N
    BY <1>1, <1>2 DEF TypeOK
  <2>2. DOMAIN value = Choice /\ value = [i \in Choice |-> value[i]]
    BY <1>1 DEF TypeOK, Assignment
  <2> QED
    BY <1>1, <1>2, <2>1, <2>2
    DEF StringMatchesChoices, LoopInv, Levels, Choice
<1> QED
  BY <1>1, <1>2, <1>3, <1>4, <1>5
  DEF IInv, NoAssertionFails, CarriedUnlessNothingDecided, LoopInv, Searching

LEMMA CutOffIInv == IInv /\ CutOff => IInv'
<1> SUFFICES ASSUME IInv, CutOff PROVE IInv'  OBVIOUS
<1> USE NAssumption
<1>1. TypeOK /\ LoopInv
  BY DEF IInv, Searching, CutOff
<1>2. /\ pc' = "limited"
      /\ fixed' = [i \in Choice |-> TRUE]
      /\ value' = [i \in Choice |-> IF i < firstPos THEN value[i] ELSE 0]
      /\ control' = Prefix(firstPos)
      /\ carried' = (carried /\ firstPos > 0)
      /\ UNCHANGED <<firstPos, cur, dist, problems, changed, tries, accepted>>
  BY <1>1 DEF CutOff, LoopInv, blockVars
<1>3. DOMAIN value = Choice /\ firstPos \in 0 .. N
  BY <1>1 DEF TypeOK, Assignment
<1>4. control' = [i \in 0 .. firstPos - 1 |-> value[i]]
  <2>1. DOMAIN control \cap 0 .. firstPos - 1 = 0 .. firstPos - 1
    BY <1>1, <1>3 DEF LoopInv, Choice
  <2> QED  BY <1>1, <1>2, <2>1 DEF Prefix, LoopInv
<1>5. TypeOK'
  <2>1. value' \in Assignment
    BY <1>1, <1>2 DEF TypeOK, Assignment
  <2>2. control' \in [0 .. firstPos - 1 -> Nat]
    BY <1>1, <1>3, <1>4 DEF TypeOK, Assignment, Choice
  <2>3. IsString(control')
    BY <1>3, <2>2 DEF IsString
  <2>4. fixed' \in [Choice -> BOOLEAN] /\ carried' \in BOOLEAN
    BY <1>1, <1>2 DEF TypeOK
  <2> QED  BY <1>1, <1>2, <2>1, <2>3, <2>4 DEF TypeOK
<1>6. \E p \in 0 .. firstPos' : AcceptedUpTo(p)'
  <2>1. PICK p \in 0 .. firstPos : AcceptedUpTo(p)
    BY DEF IInv
  <2>2. AcceptedUpTo(p)'
    BY <1>2, <1>3, <2>1 DEF AcceptedUpTo, Choice
  <2> QED  BY <1>2, <2>1, <2>2
<1>7. StringMatchesChoices'
  <2>1. Levels(control)' = value'
    BY <1>2, <1>3, <1>4 DEF Levels, Choice
  <2> QED  BY <1>2, <1>3, <1>4, <2>1 DEF StringMatchesChoices, Choice
<1>8. CarriedUnlessNothingDecided'
  <2>1. ~(firstPos > 0) => firstPos = 0
    BY <1>3
  <2>2. carried' <=> firstPos > 0
    BY <1>1, <1>2, Zenon DEF LoopInv
  <2> QED
    BY <1>2, <2>1, <2>2, Zenon DEF CarriedUnlessNothingDecided
<1> QED
  BY <1>2, <1>5, <1>6, <1>7, <1>8 DEF IInv, NoAssertionFails, Searching

LEMMA BisectIInv == IInv /\ Bisect => IInv'
<1> SUFFICES ASSUME IInv, Bisect PROVE IInv'  OBVIOUS
<1> USE NAssumption
<1>1. TypeOK /\ LoopInv /\ Len(problems) \in Nat
  BY LenProperties DEF IInv, Searching, Bisect, TypeOK
<1>2. /\ pc = "verify" /\ pc' = "head" /\ dist > 1 /\ dist' = dist \div 2
      /\ problems' = Append(problems, <<cur, dist>>) /\ changed' = FALSE
      /\ UNCHANGED <<value, fixed, control, carried, firstPos>>
      /\ UNCHANGED <<cur, tries, accepted>>
  BY DEF Bisect, Half, searchVars
<1>3. firstPos < N /\ cur \in Choice /\ cur + dist <= N
  BY <1>1, <1>2 DEF LoopInv, TypeOK, Choice
<1>4. dist \in 1 .. N /\ dist' \in 1 .. N /\ dist' <= dist
  BY <1>1, <1>2 DEF TypeOK
<1>5. /\ problems' \in Seq(Choice \X (1 .. N))
      /\ Len(problems') = Len(problems) + 1
      /\ \A k \in 1 .. Len(problems) : problems'[k] = problems[k]
      /\ problems'[Len(problems) + 1] = <<cur, dist>>
      /\ problems' # <<>>
  <2>1. <<cur, dist>> \in Choice \X (1 .. N)
    BY <1>3, <1>4
  <2>2. problems \in Seq(Choice \X (1 .. N))
    BY <1>1 DEF TypeOK
  <2> QED  BY <1>2, <2>1, <2>2, AppendProperties, SMTT(30)
<1>6. TypeOK'
  BY <1>1, <1>2, <1>4, <1>5 DEF TypeOK
<1>7. LoopInv'
  <2>1. End(<<cur, dist>>) = cur + dist
    BY DEF End
  <2>2. \A k \in 1 .. Len(problems') : End(problems'[k]) <= N
    <3> SUFFICES ASSUME NEW k \in 1 .. Len(problems')
                 PROVE  End(problems'[k]) <= N
      OBVIOUS
    <3>1. CASE k = Len(problems) + 1
      BY <1>3, <1>5, <2>1, <3>1
    <3>2. CASE k # Len(problems) + 1
      <4>1. k \in 1 .. Len(problems)
        BY <1>1, <1>5, <3>2
      <4> QED  BY <1>1, <1>5, <4>1 DEF LoopInv
    <3> QED  BY <3>1, <3>2
  <2>3. End(problems'[1]) = N
    <3>1. CASE problems = <<>>
      BY <1>1, <1>3, <1>5, <2>1, <3>1, EmptySeq DEF LoopInv
    <3>2. CASE problems # <<>>
      <4>1. Len(problems) > 0
        BY <1>1, <3>2, EmptySeq DEF TypeOK
      <4> QED  BY <1>1, <1>3, <1>5, <3>2, <4>1 DEF LoopInv
    <3> QED  BY <3>1, <3>2
  <2>4. cur' + dist' <= N
    BY <1>1, <1>2, <1>3, <1>4 DEF TypeOK
  <2> QED  BY <1>1, <1>2, <1>5, <2>2, <2>3, <2>4 DEF LoopInv
<1>8. \E p \in 0 .. firstPos' : AcceptedUpTo(p)'
  BY <1>2 DEF IInv, AcceptedUpTo
<1> QED
  BY <1>1, <1>2, <1>6, <1>7, <1>8
  DEF IInv, NoAssertionFails, StringMatchesChoices,
      CarriedUnlessNothingDecided, LoopInv

LEMMA LimitChoiceIInv == IInv /\ LimitChoice => IInv'
<1> SUFFICES ASSUME IInv, LimitChoice PROVE IInv'  OBVIOUS
<1> USE NAssumption
<1>1. TypeOK /\ LoopInv /\ firstPos < N
  BY DEF IInv, Searching, LimitChoice, LoopInv
<1> DEFINE level == value[cur] - 1
<1>2. /\ cur = firstPos /\ cur \in Choice /\ control = value
      /\ value \in Assignment /\ value[cur] > 0 /\ ~fixed[cur]
      /\ level \in Nat
  <2>1. cur = firstPos /\ cur \in Choice /\ value \in Assignment
    BY <1>1 DEF LoopInv, TypeOK, Choice
  <2>2. value[cur] > 0 /\ ~fixed[cur] /\ control = value
    BY <1>1, <2>1 DEF LoopInv, Choice
  <2> QED  BY <2>1, <2>2 DEF Assignment
<1>3. CanAdvance(1)
  BY <1>1, <1>2 DEF CanAdvance, TypeOK
<1>4. /\ pc = "verify" /\ dist = 1 /\ pc' = "head"
      /\ value' = [value EXCEPT ![cur] = level]
      /\ control' = value'
      /\ IF level = 0 THEN Advance(1) ELSE UNCHANGED <<firstPos, fixed>>
      /\ cur' = IF cur >= firstPos' THEN cur ELSE firstPos'
      /\ changed' = TRUE
      /\ UNCHANGED <<carried, dist, problems, tries, accepted>>
  BY <1>2, <1>3 DEF LimitChoice
<1>5. /\ firstPos' = IF level = 0 THEN firstPos + 1 ELSE firstPos
      /\ fixed' \in [Choice -> BOOLEAN]
      /\ \A i \in Choice : fixed'[i] <=> i < firstPos'
  <2>1. CASE level = 0
    <3>1. \A i \in Choice :
             i < firstPos + 1
               <=> (i < firstPos \/ i \in firstPos .. firstPos + 1 - 1)
      BY <1>2 DEF Choice
    <3>2. /\ firstPos' = firstPos + 1
          /\ fixed' = [i \in Choice |->
                          fixed[i] \/ i \in firstPos .. firstPos + 1 - 1]
      BY <1>4, <2>1 DEF Advance
    <3>3. \A i \in Choice : fixed'[i] <=> i < firstPos'
      BY <1>1, <3>1, <3>2, Zenon DEF LoopInv
    <3> QED  BY <2>1, <3>2, <3>3, Zenon
  <2>2. CASE level # 0
    BY <1>1, <1>4, <2>2 DEF TypeOK, LoopInv
  <2> QED  BY <2>1, <2>2
<1>6. /\ cur' = firstPos' /\ firstPos' \in 0 .. N
      /\ firstPos <= firstPos'
  BY <1>1, <1>2, <1>4, <1>5 DEF TypeOK, Choice
<1>7. /\ value' \in Assignment
      /\ \A i \in Choice : i # cur => value'[i] = value[i]
      /\ value'[cur] = level
  BY <1>2, <1>4 DEF Assignment
<1>8. TypeOK'
  <2>1. IsString(control')
    BY <1>4, <1>7 DEF IsString, Assignment, Choice
  <2>2. fixed' \in [Choice -> BOOLEAN]
    BY <1>5
  <2> QED  BY <1>1, <1>4, <1>6, <1>7, <2>1, <2>2 DEF TypeOK
<1>9. LoopInv'
  <2>1. \A i \in Choice : fixed'[i] <=> i < firstPos'
    BY <1>5
  <2>2. \A i \in Choice : i >= firstPos' => value'[i] > 0
    BY <1>1, <1>2, <1>5, <1>7 DEF LoopInv, Choice, Assignment
  <2>3. \A k \in 1 .. Len(problems) : End(problems[k]) <= N
    BY <1>1 DEF LoopInv
  <2>4. firstPos' < N =>
           /\ cur' + dist <= N
           /\ IF problems = <<>> THEN cur' + dist = N
                                 ELSE End(problems[1]) = N
    BY <1>1, <1>2, <1>4, <1>5, <1>6 DEF LoopInv, Choice
  <2> QED  BY <1>1, <1>4, <1>6, <2>1, <2>2, <2>3, <2>4 DEF LoopInv
<1>10. \E p \in 0 .. firstPos' : AcceptedUpTo(p)'
  <2>1. PICK p \in 0 .. firstPos : AcceptedUpTo(p)
    BY DEF IInv
  <2>2. AcceptedUpTo(p)'
    BY <1>1, <1>2, <1>4, <1>5, <1>7, <2>1 DEF AcceptedUpTo, Choice
  <2>3. p \in 0 .. firstPos'
    BY <1>2, <1>6, <2>1 DEF Choice
  <2> QED  BY <2>2, <2>3
<1> QED
  BY <1>1, <1>4, <1>8, <1>9, <1>10
  DEF IInv, NoAssertionFails, StringMatchesChoices,
      CarriedUnlessNothingDecided, LoopInv

LEMMA AcceptIInv == IInv /\ Accept => IInv'
<1> SUFFICES ASSUME IInv, Accept PROVE IInv'  OBVIOUS
<1> USE NAssumption
<1>1. TypeOK /\ LoopInv /\ firstPos < N /\ Len(problems) \in Nat
  BY LenProperties DEF IInv, Searching, Accept, LoopInv, TypeOK
<1>2. /\ cur = firstPos /\ cur \in Choice /\ dist \in 1 .. N
      /\ LastPos = firstPos + dist /\ LastPos \in 1 .. N
  BY <1>1 DEF LoopInv, TypeOK, Choice, LastPos
<1>3. CanAdvance(dist)
  BY <1>1, <1>2 DEF CanAdvance, LoopInv, Choice
<1>4. /\ firstPos' = LastPos /\ cur' = LastPos
      /\ fixed' = [i \in Choice |-> i < LastPos]
  <2>1. \A i \in Choice : (i < firstPos \/ i \in firstPos .. firstPos + dist - 1)
                             = (i < LastPos)
    BY <1>2 DEF Choice
  <2>2. \A i \in Choice : (fixed[i] \/ i \in firstPos .. firstPos + dist - 1)
                             = (i < LastPos)
    BY <1>1, <2>1, Zenon DEF LoopInv
  <2> QED  BY <1>2, <2>2, Zenon DEF Accept, Advance
<1>5. PICK depth \in 0 .. Len(problems) :
         IsOpenDepth(LastPos, depth) /\ problems' = SubSeq(problems, 1, depth)
  BY <1>4 DEF Accept
<1>6. /\ problems' \in Seq(Choice \X (1 .. N))
      /\ Len(problems') = depth
      /\ \A k \in 1 .. depth : problems'[k] = problems[k]
      /\ problems' = <<>> <=> depth = 0
  BY <1>1, <1>5, CutProblems DEF TypeOK
<1>7. \A k \in 1 .. depth :
         End(problems'[k]) = End(problems[k]) /\ End(problems[k]) \in 1 .. N
  <2> SUFFICES ASSUME NEW k \in 1 .. depth
               PROVE  End(problems[k]) \in 1 .. N
    BY <1>6
  <2>1. k \in 1 .. Len(problems)
    BY <1>1, <1>5
  <2>2. problems[k] \in Choice \X (1 .. N)
    BY <1>1, <2>1, ElementOfSeq DEF TypeOK
  <2>3. End(problems[k]) \in Nat \ {0}
    BY <2>2 DEF End, Choice
  <2> QED  BY <1>1, <2>1, <2>3 DEF LoopInv
<1>8. /\ problems' # <<>> => End(problems'[Len(problems')]) > LastPos
      /\ problems' = <<>> => LastPos >= N
  <2>1. CASE problems' # <<>>
    <3>1. depth \in 1 .. depth /\ depth > 0
      BY <1>1, <1>5, <1>6, <2>1
    <3> QED  BY <1>5, <1>6, <2>1, <3>1 DEF IsOpenDepth
  <2>2. CASE problems' = <<>> /\ problems = <<>>
    BY <1>1, <1>2, <2>2 DEF LoopInv
  <2>3. CASE problems' = <<>> /\ problems # <<>>
    \* the outermost problem, which ends at N, was solved
    <3>1. Len(problems) > 0
      BY <1>1, <2>3, EmptySeq DEF TypeOK
    <3>2. End(problems[1]) <= LastPos
      BY <1>1, <1>5, <1>6, <2>3, <3>1 DEF IsOpenDepth
    <3> QED  BY <1>1, <2>3, <3>2 DEF LoopInv
  <2> QED  BY <2>1, <2>2, <2>3
<1>9. problems' # <<>> =>
         /\ NextDist(problems') \in 1 .. N
         /\ LastPos + NextDist(problems') <= N
  <2> SUFFICES ASSUME problems' # <<>>
               PROVE  /\ NextDist(problems') \in 1 .. N
                      /\ LastPos + NextDist(problems') <= N
    OBVIOUS
  <2>1. End(problems'[Len(problems')]) \in 1 .. N
    BY <1>1, <1>5, <1>6, <1>7
  <2> DEFINE gap == End(problems'[Len(problems')]) - LastPos
  <2>2. gap \in 1 .. N /\ LastPos + gap <= N
    BY <1>2, <1>8, <2>1
  <2>3. NextDist(problems') \in 1 .. gap
    BY <2>2 DEF NextDist, Half
  <2> HIDE DEF gap
  <2> QED  BY <1>2, <2>2, <2>3
<1>10. /\ pc' = "head"
       /\ dist' = IF problems' = <<>> THEN dist ELSE NextDist(problems')
       /\ dist' \in 1 .. N
       /\ accepted' = [i \in Choice |-> IF i <= LastPos THEN value[i] ELSE 0]
       /\ UNCHANGED <<value, control, carried, changed, tries>>
  <2>1. dist' = IF problems' = <<>> THEN dist ELSE NextDist(problems')
    BY DEF Accept
  <2>2. dist' \in 1 .. N
    BY <1>2, <1>9, <2>1
  <2>3. pc' = "head"
    <3>1. /\ CanAdvance(dist)
          /\ IF problems' = <<>>
             THEN firstPos' >= N
             ELSE End(problems'[Len(problems')]) > LastPos /\ dist' > 0
      BY <1>3, <1>4, <1>8, <2>2
    <3> QED  BY <3>1, Zenon DEF Accept
  <2>4. accepted' = [i \in Choice |-> IF i <= LastPos THEN value[i] ELSE 0]
    BY <1>1, ProbeIsPrefix DEF LoopInv, Accept
  <2> QED  BY <2>1, <2>2, <2>3, <2>4 DEF Accept
<1>11. TypeOK'
  <2>1. accepted' \in Assignment
    BY <1>1, <1>10 DEF TypeOK, Assignment
  <2>2. fixed' \in [Choice -> BOOLEAN] /\ LastPos \in 0 .. N
    BY <1>2, <1>4
  <2> QED  BY <1>1, <1>4, <1>6, <1>10, <2>1, <2>2 DEF TypeOK
<1>12. LoopInv'
  <2>1. \A i \in Choice : fixed'[i] <=> i < LastPos
    BY <1>4
  <2>2. \A i \in Choice : i >= LastPos => value[i] > 0
    BY <1>1, <1>2 DEF LoopInv, Choice
  <2>3. \A k \in 1 .. Len(problems') : End(problems'[k]) <= N
    BY <1>1, <1>5, <1>6, <1>7
  <2>4. LastPos < N =>
           /\ LastPos + dist' <= N
           /\ problems' # <<>>
           /\ End(problems'[1]) = N
    <3> SUFFICES ASSUME LastPos < N
                 PROVE  /\ LastPos + dist' <= N
                        /\ problems' # <<>>
                        /\ End(problems'[1]) = N
      OBVIOUS
    <3>1. problems' # <<>>
      BY <1>2, <1>8
    <3>2. 1 \in 1 .. depth /\ problems # <<>>
      BY <1>1, <1>5, <1>6, <3>1, EmptySeq DEF TypeOK
    <3> QED  BY <1>1, <1>7, <1>9, <1>10, <3>1, <3>2 DEF LoopInv
  <2> QED  BY <1>1, <1>4, <1>10, <2>1, <2>2, <2>3, <2>4 DEF LoopInv
<1>13. \E p \in 0 .. firstPos' : AcceptedUpTo(p)'
  \* the string reaches up to the choice at LastPos, the new firstPos
  <2>1. LastPos \in 0 .. firstPos'
    BY <1>2, <1>4
  <2>2. AcceptedUpTo(firstPos)'
    BY <1>2, <1>4, <1>10 DEF AcceptedUpTo, Choice
  <2> QED  BY <1>4, <2>1, <2>2
<1> QED
  BY <1>1, <1>10, <1>11, <1>12, <1>13
  DEF IInv, NoAssertionFails, StringMatchesChoices,
      CarriedUnlessNothingDecided, LoopInv

LEMMA StutterIInv == IInv /\ UNCHANGED vars => IInv'
<1> SUFFICES ASSUME IInv, UNCHANGED vars PROVE IInv'  OBVIOUS
<1>1. /\ UNCHANGED <<value, fixed, control, carried, firstPos>>
      /\ UNCHANGED <<cur, dist, problems, changed, tries, pc, accepted>>
  BY DEF vars, searchVars, blockVars
<1>2. TypeOK'
  BY <1>1 DEF IInv, TypeOK
<1>3. Searching' => LoopInv'
  BY <1>1 DEF IInv, Searching, LoopInv
<1>4. \E p \in 0 .. firstPos' : AcceptedUpTo(p)'
  BY <1>1 DEF IInv, AcceptedUpTo
<1>5. StringMatchesChoices'
  BY <1>1 DEF IInv, StringMatchesChoices, Levels
<1> QED
  BY <1>1, <1>2, <1>3, <1>4, <1>5
  DEF IInv, NoAssertionFails, CarriedUnlessNothingDecided

\* The inductive invariant holds in every reachable state of the search.
THEOREM Invariance == Spec => []IInv
<1>1. Init => IInv
  BY InitIInv
<1>2. IInv /\ [Next]_vars => IInv'
  BY ProposeIInv, ResolveIInv, CutOffIInv, AcceptIInv, BisectIInv,
     LimitChoiceIInv, StutterIInv
  DEF Next
<1> QED  BY <1>1, <1>2, PTL DEF Spec

-------------------------------------------------------------------------------
(* The safety properties *)

\* Every variable of the search keeps its type: positions stay within the
\* list of choices, the distance of a block is never 0.
THEOREM TypeCorrect == Spec => []TypeOK
<1>1. IInv => TypeOK
  BY DEF IInv
<1> QED  BY <1>1, Invariance, PTL

\* No assertion of the search fails, whatever the verification answers.
THEOREM AssertionsHold == Spec => []NoAssertionFails
<1>1. IInv => NoAssertionFails
  BY DEF IInv
<1> QED  BY <1>1, Invariance, PTL

\* Both pop loops stop somewhere: before a string is yielded, and after it was
\* accepted.  (Accept and Propose ask for the depth that remains; were there
\* none, the model would not see a positive answer.)  So a search can always go
\* on, with every answer, until it returns; EffortBound says for how long.
THEOREM AnswersAreTaken ==
    Spec => [](/\ pc = "head" => \E depth \in 0 .. Len(problems) : IsOpenDepth(cur, depth)
               /\ pc = "verify" =>
                     \E depth \in 0 .. Len(problems) : IsOpenDepth(firstPos + dist, depth))
<1>1. ASSUME TypeOK, NEW p \in Nat
      PROVE  \E depth \in 0 .. Len(problems) : IsOpenDepth(p, depth)
  <2> DEFINE n == Len(problems)
             D == {d \in 0 .. n : \A k \in d + 1 .. n : End(problems[k]) <= p}
  <2>1. n \in Nat /\ \A k \in 1 .. n : End(problems[k]) \in Nat
    <3>1. problems \in Seq(Choice \X (1 .. N))
      BY <1>1 DEF TypeOK
    <3>2. \A k \in 1 .. Len(problems) : problems[k] \in Choice \X (1 .. N)
      BY <3>1
    <3> QED  BY <3>1, <3>2, NAssumption DEF End, Choice
  <2> HIDE DEF n
  <2>2. D \subseteq Nat /\ n \in D
    BY <2>1
  <2>3. PICK d \in D : \A c \in D : d <= c
    BY <2>2, LeastNumber
  <2>4. ASSUME d > 0 PROVE End(problems[d]) > p
    <3>1. d - 1 \in 0 .. n /\ d \in 1 .. n /\ ~ (d <= d - 1) /\ (d - 1) + 1 = d
      BY <2>1, <2>4
    <3>2. d - 1 \notin D
      BY <2>3, <3>1
    <3>3. PICK k \in d .. n : ~ (End(problems[k]) <= p)
      BY <3>1, <3>2
    <3>4. k = d
      BY <2>1, <3>1, <3>3
    <3> QED  BY <1>1, <2>1, <3>1, <3>3, <3>4
  <2> QED  BY <2>3, <2>4 DEF IsOpenDepth, n
<1>2. TypeOK => cur \in Nat /\ firstPos + dist \in Nat
  BY NAssumption DEF TypeOK
<1>3. TypeOK => /\ pc = "head" => \E depth \in 0 .. Len(problems) : IsOpenDepth(cur, depth)
                /\ pc = "verify" =>
                      \E depth \in 0 .. Len(problems) : IsOpenDepth(firstPos + dist, depth)
  BY <1>1, <1>2
<1> QED  BY <1>3, TypeCorrect, PTL

\* What a returned search hands to the compiler and to writeControl agree.
THEOREM StringAgrees == Spec => []StringMatchesChoices
<1>1. IInv => StringMatchesChoices
  BY DEF IInv
<1> QED  BY <1>1, Invariance, PTL

\* The search never returns optimism that no accepted build contained.
THEOREM OnlyConfirmedOptimism == Spec => []NothingUnconfirmed
<1>1. IInv => NothingUnconfirmed
  <2> SUFFICES ASSUME IInv PROVE NothingUnconfirmed  OBVIOUS
  <2>1. PICK p \in 0 .. firstPos : AcceptedUpTo(p)
    BY DEF IInv
  <2>2. p \in 0 .. N /\ firstPos \in 0 .. N
    BY NAssumption DEF IInv, TypeOK
  <2>3. \A i \in Choice :
           (IF i < firstPos THEN value[i] ELSE 0)
              = (IF i = p THEN 0 ELSE accepted[i])
    BY <2>1, <2>2, NAssumption DEF AcceptedUpTo, Choice
  <2> QED
    BY <2>2, <2>3
    DEF NothingUnconfirmed, Promise!NothingUnconfirmed, Promise!Decided,
        Promise!Choice, Choice
<1> QED  BY <1>1, Invariance, PTL

\* A decided choice is final.
THEOREM Finality == Spec => DecidedIsFinal
<1> DEFINE Final ==
      /\ firstPos' >= firstPos
      /\ \A i \in 0 .. firstPos - 1 : fixed'[i] /\ value'[i] = value[i]
<1>1. IInv /\ [Next]_vars => [Final]_vars
  <2> SUFFICES ASSUME IInv, Next PROVE Final
    OBVIOUS
  <2> USE NAssumption
  <2>1. TypeOK /\ LoopInv
    BY DEF IInv, Searching, Next, Propose, Resolve, CutOff, Accept, Bisect,
           LimitChoice
  <2>2. /\ firstPos \in 0 .. N /\ dist \in 1 .. N
        /\ \A i \in 0 .. firstPos - 1 : i \in Choice /\ fixed[i]
    BY <2>1 DEF TypeOK, LoopInv, Choice
  <2>3. CASE Propose \/ Resolve \/ Bisect
    BY <2>2, <2>3 DEF Propose, Resolve, Bisect, searchVars
  <2>4. CASE CutOff
    BY <2>2, <2>4 DEF CutOff
  <2>5. CASE Accept
    <3>1. /\ firstPos' = firstPos + dist /\ value' = value
          /\ fixed' = [i \in Choice |->
                          fixed[i] \/ i \in firstPos .. firstPos + dist - 1]
      BY <2>5 DEF Accept, Advance
    <3>2. \A i \in 0 .. firstPos - 1 : fixed'[i]
      BY <2>2, <3>1, Zenon
    <3> QED  BY <2>2, <3>1, <3>2
  <2>6. CASE LimitChoice
    <3>1. cur = firstPos /\ value \in Assignment
      BY <2>1 DEF LoopInv, TypeOK
    <3>2. \A i \in 0 .. firstPos - 1 : value'[i] = value[i]
      BY <2>2, <2>6, <3>1 DEF LimitChoice, Assignment
    <3>3. \/ firstPos' = firstPos /\ fixed' = fixed
          \/ /\ firstPos' = firstPos + 1
             /\ fixed' = [i \in Choice |->
                             fixed[i] \/ i \in firstPos .. firstPos + 1 - 1]
      BY <2>6 DEF LimitChoice, Advance
    <3>4. firstPos' >= firstPos
      BY <2>2, <3>3
    <3>5. \A i \in 0 .. firstPos - 1 : fixed'[i]
      BY <2>2, <3>3, Zenon
    <3> QED  BY <3>2, <3>4, <3>5
  <2> QED  BY <2>3, <2>4, <2>5, <2>6 DEF Next
<1> QED  BY <1>1, Invariance, PTL DEF Spec, DecidedIsFinal

-------------------------------------------------------------------------------
(* The refinement *)

\* The search of the code implements the promise of OptimisticSearch: blocks,
\* bisection and the stack of problems only choose which prefix to confirm.
THEOREM Implementation == Spec => ImplementsPromise
<1> USE NAssumption
<1>1. Init => Promise!Init
  BY DEF Init, Promise!Init, Promise!Choice, Choice
<1>2. IInv /\ [Next]_vars => [Promise!Next]_(Promise!vars)
  <2> SUFFICES ASSUME IInv, [Next]_vars
               PROVE  [Promise!Next]_(Promise!vars)
    OBVIOUS
  <2>1. CASE UNCHANGED vars
    BY <2>1 DEF vars, searchVars, Promise!vars
  <2>2. CASE Propose \/ Bisect
    BY <2>2 DEF Propose, Bisect, searchVars, Promise!vars
  <2>3. CASE Resolve
    <3>1. TypeOK /\ firstPos >= N
      BY <2>3 DEF IInv, Resolve
    <3>2. value = [i \in Choice |-> IF i < firstPos THEN value[i] ELSE 0]
      BY <3>1 DEF TypeOK, Assignment, Choice
    <3>3. Promise!Return
      BY <2>3, <3>2
      DEF Resolve, searchVars, Promise!Return, Promise!Decided,
          Promise!Choice, Choice
    <3> QED  BY <3>3 DEF Promise!Next
  <2>4. CASE CutOff
    <3>1. Promise!Return
      BY <2>4
      DEF CutOff, Promise!Return, Promise!Decided, Promise!Choice, Choice
    <3> QED  BY <3>1 DEF Promise!Next
  <2>5. CASE Accept
    <3>1. TypeOK /\ LoopInv /\ firstPos < N /\ IInv'
      BY <2>5, AcceptIInv DEF IInv, Searching, Accept, LoopInv
    <3>2. /\ LastPos = firstPos + dist /\ firstPos' = LastPos
          /\ LastPos \in firstPos + 1 .. N
      BY <2>5, <3>1 DEF Accept, Advance, LoopInv, TypeOK, LastPos
    <3>3. accepted' = [i \in Choice |-> IF i < LastPos + 1 THEN value[i] ELSE 0]
      <4>1. \A i \in Choice : i <= LastPos <=> i < LastPos + 1
        BY <3>1, <3>2 DEF Choice, TypeOK
      <4>2. accepted' = [i \in Choice |-> IF i <= LastPos THEN value[i] ELSE 0]
        BY <2>5, <3>1, ProbeIsPrefix DEF Accept, LoopInv
      <4> QED  BY <4>1, <4>2, Zenon
    <3>4. Promise!Confirm
      <4>1. pc = "verify" /\ pc' = "head" /\ value' = value
        BY <2>5, <3>1, AcceptIInv DEF Accept, IInv, NoAssertionFails
      <4>2. accepted' = Promise!Decided(value, LastPos + 1)
        BY <3>3 DEF Promise!Decided, Promise!Choice, Choice
      <4>3. \E d \in firstPos + 1 .. N :
               /\ firstPos' = d
               /\ \E ahead \in {d, d + 1} :
                     accepted' = Promise!Decided(value, ahead)
        BY <3>2, <4>2, Zenon
      <4> QED  BY <4>1, <4>3 DEF Promise!Confirm
    <3> QED  BY <3>4 DEF Promise!Next
  <2>6. CASE LimitChoice
    <3>1. TypeOK /\ LoopInv /\ firstPos < N /\ IInv'
      BY <2>6, LimitChoiceIInv DEF IInv, Searching, LimitChoice, LoopInv
    <3>2. /\ cur = firstPos /\ cur \in Choice /\ control = value
          /\ value[cur] > 0 /\ value \in Assignment
      BY <3>1 DEF LoopInv, TypeOK, Choice
    <3>3. /\ pc = "verify" /\ pc' = "head" /\ accepted' = accepted
          /\ value' = [value EXCEPT ![firstPos] = @ - 1]
      BY <2>6, <3>1, <3>2 DEF LimitChoice, IInv, NoAssertionFails
    <3>4. value'[firstPos] = value[firstPos] - 1
      BY <3>2, <3>3 DEF Assignment
    <3>5. firstPos' = IF value'[firstPos] = 0 THEN firstPos + 1 ELSE firstPos
      BY <2>6, <3>2, <3>4 DEF LimitChoice, Advance
    <3>6. Promise!Lower
      BY <3>1, <3>2, <3>3, <3>5 DEF Promise!Lower
    <3> QED  BY <3>6 DEF Promise!Next
  <2> QED  BY <2>1, <2>2, <2>3, <2>4, <2>5, <2>6 DEF Next
<1> QED  BY <1>1, <1>2, Invariance, PTL DEF Spec, ImplementsPromise

-------------------------------------------------------------------------------
(* The number of tries *)

\* What the recursive definition of OptionsBefore computes.
LEMMA OptionsBeforeDef ==
    /\ OptionsBefore \in [0 .. N -> Nat]
    /\ OptionsBefore[0] = 0
    /\ \A n \in 1 .. N :
          OptionsBefore[n] = OptionsBefore[n - 1] + MaxOptions[n - 1]
<1> USE NAssumption, OptionsAssumption
<1> DEFINE step == [p \in Nat \X (1 .. N) |-> p[1] + MaxOptions[p[2] - 1]]
           Sum(f) == f = [n \in 0 .. N |->
                             IF n = 0 THEN 0 ELSE f[n - 1] + MaxOptions[n - 1]]
<1>1. step \in [Nat \X (1 .. N) -> Nat]
  <2>1. ASSUME NEW p \in Nat \X (1 .. N)
        PROVE  p[1] + MaxOptions[p[2] - 1] \in Nat
    <3>1. p[2] - 1 \in Choice /\ p[1] \in Nat
      BY DEF Choice
    <3> QED  BY <3>1
  <2> QED  BY <2>1
<1>2. \A s \in Nat, n \in 1 .. N : step[<<s, n>>] = s + MaxOptions[n - 1]
  OBVIOUS
<1> HIDE DEF step
<1>3. PICK f \in [0 .. N -> Nat] : Iterates(f, N, 0, step)
  BY <1>1, Iteration
<1>4. \A n \in 1 .. N : f[n] = f[n - 1] + MaxOptions[n - 1]
  <2> SUFFICES ASSUME NEW n \in 1 .. N
               PROVE  f[n] = f[n - 1] + MaxOptions[n - 1]
    OBVIOUS
  <2>1. f[n - 1] \in Nat  OBVIOUS
  <2> QED  BY <1>2, <1>3, <2>1 DEF Iterates
<1>5. Sum(f)
  <2>1. \A n \in 0 .. N :
           f[n] = IF n = 0 THEN 0 ELSE f[n - 1] + MaxOptions[n - 1]
    BY <1>3, <1>4 DEF Iterates
  <2> QED  BY <2>1
<1>6. Sum(OptionsBefore)
  <2>1. OptionsBefore = CHOOSE g : Sum(g)
    BY DEF OptionsBefore
  <2> HIDE DEF Sum
  <2> QED  BY <1>5, <2>1
<1>7. /\ DOMAIN OptionsBefore = 0 .. N
      /\ OptionsBefore[0] = 0
      /\ \A n \in 1 .. N :
            OptionsBefore[n] = OptionsBefore[n - 1] + MaxOptions[n - 1]
      /\ OptionsBefore = [n \in 0 .. N |-> OptionsBefore[n]]
  <2> DEFINE g == OptionsBefore
  <2>1. g = [n \in 0 .. N |->
               IF n = 0 THEN 0 ELSE g[n - 1] + MaxOptions[n - 1]]
    BY <1>6
  <2> HIDE DEF g
  <2>2. DOMAIN g = 0 .. N /\ g = [n \in 0 .. N |-> g[n]]
    BY <2>1
  <2>3. \A n \in 0 .. N :
           g[n] = IF n = 0 THEN 0 ELSE g[n - 1] + MaxOptions[n - 1]
    BY <2>1, Zenon
  <2>4. g[0] = 0 /\ \A n \in 1 .. N : g[n] = g[n - 1] + MaxOptions[n - 1]
    BY <2>3
  <2> QED  BY <2>2, <2>4 DEF g
<1>8. \A n \in 0 .. N : OptionsBefore[n] \in Nat
  <2> DEFINE S == {n \in Nat : n <= N => OptionsBefore[n] \in Nat}
  <2>1. 0 \in S
    BY <1>7
  <2>2. ASSUME NEW n \in Nat, n \in S PROVE n + 1 \in S
    <3> SUFFICES ASSUME n + 1 <= N PROVE OptionsBefore[n + 1] \in Nat
      OBVIOUS
    <3>1. n + 1 \in 1 .. N /\ n \in Choice /\ (n + 1) - 1 = n
      BY DEF Choice
    <3>2. OptionsBefore[n + 1] = OptionsBefore[n] + MaxOptions[n]
      BY <1>7, <3>1
    <3>3. MaxOptions[n] \in Nat
      BY <3>1
    <3>4. OptionsBefore[n] \in Nat
      BY <2>2
    <3> QED  BY <3>2, <3>3, <3>4
  <2> HIDE DEF S
  <2>3. \A n \in Nat : n \in S
    BY <2>1, <2>2, Induct
  <2> QED  BY <2>3 DEF S
<1> QED  BY <1>7, <1>8

\* Every choice has two options at least.
LEMMA OptionsBeforeGrows ==
    \A m, n \in 0 .. N :
        m <= n => OptionsBefore[n] >= OptionsBefore[m] + 2 * (n - m)
<1> USE NAssumption, OptionsAssumption
<1> DEFINE S == {d \in Nat : \A m \in 0 .. N :
                    m + d <= N =>
                        OptionsBefore[m + d] >= OptionsBefore[m] + 2 * d}
<1>1. 0 \in S
  BY OptionsBeforeDef
<1>2. ASSUME NEW d \in Nat, d \in S PROVE d + 1 \in S
  <2> SUFFICES ASSUME NEW m \in 0 .. N, m + (d + 1) <= N
               PROVE  OptionsBefore[m + (d + 1)]
                         >= OptionsBefore[m] + 2 * (d + 1)
    OBVIOUS
  <2> DEFINE q == m + d
  <2>1. q + 1 \in 1 .. N /\ q \in 0 .. N /\ q \in Choice /\ (q + 1) - 1 = q
        /\ m + (d + 1) = q + 1
    BY DEF Choice
  <2>2. OptionsBefore[q] >= OptionsBefore[m] + 2 * d
    BY <1>2, <2>1
  <2> HIDE DEF q
  <2>3. OptionsBefore[q + 1] = OptionsBefore[q] + MaxOptions[q]
    BY <2>1, OptionsBeforeDef
  <2>4. /\ MaxOptions[q] \in Nat /\ MaxOptions[q] >= 2
        /\ OptionsBefore[q] \in Nat /\ OptionsBefore[m] \in Nat
    BY <2>1, OptionsBeforeDef
  <2> QED  BY <2>1, <2>2, <2>3, <2>4
<1> HIDE DEF S
<1>3. \A d \in Nat : d \in S
  BY <1>1, <1>2, Induct
<1> SUFFICES ASSUME NEW m \in 0 .. N, NEW n \in 0 .. N, m <= n
             PROVE  OptionsBefore[n] >= OptionsBefore[m] + 2 * (n - m)
  OBVIOUS
<1>4. n - m \in Nat /\ m + (n - m) = n
  OBVIOUS
<1>5. n - m \in S
  BY <1>3, <1>4
<1> QED  BY <1>4, <1>5 DEF S

\* What has been paid for so far leaves enough for the rest.
LEMMA TriesPaid ==
    ASSUME NEW t \in Nat, NEW c \in Choice, NEW level \in Nat, level > 0,
           NEW ends \in Nat, ends <= N - c,
           t + level + 1 <= OptionsBefore[c + 1] + ends
    PROVE  t < OptionsBefore[N]
<1> USE NAssumption
<1>1. c + 1 \in 0 .. N /\ N \in 0 .. N /\ c + 1 <= N
  BY DEF Choice
<1>2. OptionsBefore[N] >= OptionsBefore[c + 1] + 2 * (N - (c + 1))
  BY <1>1, OptionsBeforeGrows
<1>3. OptionsBefore[N] \in Nat /\ OptionsBefore[c + 1] \in Nat
  BY <1>1, OptionsBeforeDef
<1> QED  BY <1>2, <1>3 DEF Choice

\* The ends of the problems are positions, and so are the open ends, of which
\* there is at most one at each position after the current one.
LEMMA EndsInRange ==
    ASSUME TypeOK, LoopInv, cur < N
    PROVE  /\ \A k \in 1 .. Len(problems) : End(problems[k]) \in 1 .. N
           /\ Len(problems) \in Nat
           /\ cur \in Choice
           /\ OpenEnds \subseteq cur + 1 .. N
           /\ IsFiniteSet(OpenEnds)
           /\ Cardinality(OpenEnds) \in Nat
           /\ Cardinality(OpenEnds) <= N - cur
<1> USE NAssumption
<1>1. Len(problems) \in Nat
  BY LenProperties DEF TypeOK
<1>2. ASSUME NEW k \in 1 .. Len(problems)
      PROVE  End(problems[k]) \in 1 .. N
  <2>1. problems[k] \in Choice \X (1 .. N)
    BY <1>1, ElementOfSeq DEF TypeOK
  <2>2. End(problems[k]) \in Nat \ {0}
    BY <2>1 DEF End, Choice
  <2> QED  BY <2>2 DEF LoopInv
<1>3. cur \in Choice /\ cur + dist \in cur + 1 .. N
  BY DEF TypeOK, LoopInv, Choice
<1>4. OpenEnds \subseteq cur + 1 .. N
  BY <1>2, <1>3 DEF OpenEnds, Choice
<1>5. /\ IsFiniteSet(cur + 1 .. N)
      /\ Cardinality(cur + 1 .. N) = N - cur
  <2>1. cur + 1 \in Int /\ N \in Int /\ ~(cur + 1 > N)
        /\ N - (cur + 1) + 1 = N - cur
    BY <1>3 DEF Choice
  <2> QED  BY <2>1, FS_Interval
<1>6. /\ IsFiniteSet(OpenEnds)
      /\ Cardinality(OpenEnds) <= N - cur
  BY <1>4, <1>5, FS_Subset
<1> QED  BY <1>1, <1>2, <1>3, <1>4, <1>6, FS_CardinalityType

\* A set of which at most one member is given up loses at most one.
LEMMA OneEndLess ==
    ASSUME NEW S, NEW T, NEW x, IsFiniteSet(S), IsFiniteSet(T),
           S \ {x} \subseteq T
    PROVE  Cardinality(T) >= Cardinality(S) - 1
<1>0. Cardinality(S) \in Nat
  BY FS_CardinalityType
<1>1. /\ IsFiniteSet(S \ {x})
      /\ Cardinality(S \ {x})
            = IF x \in S THEN Cardinality(S) - 1 ELSE Cardinality(S)
  BY FS_RemoveElement, Zenon
<1>2. Cardinality(S \ {x}) <= Cardinality(T)
  BY FS_Subset
<1>3. Cardinality(T) \in Nat /\ Cardinality(S \ {x}) \in Nat
  BY <1>1, FS_CardinalityType
<1> QED  BY <1>0, <1>1, <1>2, <1>3

LEMMA InitEffort == Init => EffortInv
<1> SUFFICES ASSUME Init PROVE EffortInv  OBVIOUS
<1> USE NAssumption, OptionsAssumption
<1>1. IInv /\ Searching
  BY InitIInv DEF Init, Searching
<1>2. TypeOK /\ LoopInv /\ cur = 0 /\ cur < N /\ dist = N /\ problems = <<>>
      /\ tries = 0 /\ pc = "head" /\ value = [i \in Choice |-> MaxOptions[i] - 1]
  BY <1>1 DEF IInv, Init
<1>3. 0 \in Choice /\ 1 \in 0 .. N
  BY DEF Choice
<1>4. OptionsBefore[cur + 1] = MaxOptions[0] /\ value[cur] = MaxOptions[0] - 1
      /\ MaxOptions[0] \in Nat /\ MaxOptions[0] >= 2
  BY <1>2, <1>3, OptionsBeforeDef
<1>5. Cardinality(OpenEnds) >= 1
  <2>1. cur + dist \in OpenEnds
    BY DEF OpenEnds
  <2>2. Cardinality(OpenEnds) # 0
    BY <1>2, <2>1, EndsInRange, FS_EmptySet
  <2> QED  BY <1>2, <2>2, EndsInRange
<1>6. tries + value[cur] + 2 <= OptionsBefore[cur + 1] + Cardinality(OpenEnds)
  BY <1>2, <1>4, <1>5, EndsInRange
<1>7. EffortBound
  <2>1. OptionsBefore[N] \in Nat /\ OptionsBefore[1] \in Nat
    BY <1>3, OptionsBeforeDef
  <2>2. OptionsBefore[N] >= OptionsBefore[1] + 2 * (N - 1)
    BY <1>3, OptionsBeforeGrows
  <2> QED  BY <1>2, <1>4, <2>1, <2>2 DEF EffortBound
<1>8. Len(problems) = 0
  BY <1>2, EmptySeq
<1> QED  BY <1>2, <1>6, <1>7, <1>8 DEF EffortInv

LEMMA ProposeEffort == IInv /\ EffortInv /\ Propose => EffortInv'
<1> SUFFICES ASSUME IInv, EffortInv, Propose PROVE EffortInv'  OBVIOUS
<1> USE NAssumption
<1>1. TypeOK /\ LoopInv /\ Searching /\ cur < N /\ pc = "head"
  BY DEF IInv, Searching, Propose, LoopInv
<1>2. PICK depth \in 0 .. Len(problems) :
         IsOpenDepth(cur, depth) /\ problems' = SubSeq(problems, 1, depth)
  BY DEF Propose
<1>3. /\ Len(problems) \in Nat
      /\ Len(problems') = depth
      /\ \A k \in 1 .. depth : problems'[k] = problems[k]
      /\ problems' = <<>> <=> depth = 0
  BY <1>1, <1>2, CutProblems, EndsInRange DEF TypeOK
<1>4. /\ pc' = "verify" /\ tries' = tries + 1 /\ tries \in Nat
      /\ UNCHANGED <<value, cur, dist>>
  BY <1>1 DEF Propose, searchVars, TypeOK
<1>5. OpenEnds' = OpenEnds
  <2>1. \A k \in 1 .. Len(problems) :
           End(problems[k]) > cur =>
              k \in 1 .. depth /\ End(problems'[k]) = End(problems[k])
    BY <1>1, <1>2, <1>3, EndsInRange DEF IsOpenDepth, TypeOK
  <2>2. \A k \in 1 .. Len(problems') :
           k \in 1 .. Len(problems) /\ End(problems'[k]) = End(problems[k])
    BY <1>3
  <2>3. \A e : e \in OpenEnds <=>
                 \/ e = cur + dist
                 \/ \E k \in 1 .. Len(problems) :
                       End(problems[k]) > cur /\ e = End(problems[k])
    BY DEF OpenEnds
  <2>4. \A e : e \in OpenEnds' <=>
                 \/ e = cur + dist
                 \/ \E k \in 1 .. Len(problems') :
                       End(problems'[k]) > cur /\ e = End(problems'[k])
    BY <1>4 DEF OpenEnds
  <2>5. \A e : e \in OpenEnds' <=> e \in OpenEnds
    BY <1>3, <2>1, <2>2, <2>3, <2>4
  <2> QED  BY <2>5
<1>6. tries' + value[cur] + 1 <= OptionsBefore[cur + 1] + Cardinality(OpenEnds)
  <2>1. tries + value[cur] + 2
           <= OptionsBefore[cur + 1] + Cardinality(OpenEnds)
    BY <1>1 DEF EffortInv
  <2>2. value[cur] \in Nat /\ OptionsBefore[cur + 1] \in Nat
        /\ Cardinality(OpenEnds) \in Nat
    <3>1. cur \in Choice /\ cur + 1 \in 0 .. N
      BY <1>1, EndsInRange DEF Choice
    <3> QED  BY <1>1, <3>1, EndsInRange, OptionsBeforeDef DEF TypeOK, Assignment
  <2> QED  BY <1>4, <2>1, <2>2
<1>7. EffortBound'
  <2>1. /\ tries' \in Nat /\ value[cur] \in Nat /\ value[cur] > 0
        /\ cur \in Choice
    BY <1>1, <1>4, EndsInRange DEF LoopInv, TypeOK, Assignment
  <2>2. tries' < OptionsBefore[N]
    BY <1>1, <1>6, <2>1, EndsInRange, TriesPaid
  <2> QED  BY <2>2 DEF EffortBound
<1>8. \A j, k \in 1 .. Len(problems') :
         j <= k => End(problems'[k]) <= End(problems'[j])
  BY <1>1, <1>3 DEF EffortInv
<1>9. \A k \in 1 .. Len(problems') :
         End(problems'[k]) > cur => End(problems'[k]) >= cur + dist
  BY <1>1, <1>3 DEF EffortInv
<1>10. problems' # <<>> => End(problems'[Len(problems')]) > cur
  BY <1>2, <1>3 DEF IsOpenDepth
<1>11. \A i \in Choice : i > cur => value[i] = MaxOptions[i] - 1
  BY <1>1 DEF EffortInv
<1> QED
  BY <1>4, <1>5, <1>6, <1>7, <1>8, <1>9, <1>10, <1>11 DEF EffortInv

LEMMA BisectEffort == IInv /\ EffortInv /\ Bisect => EffortInv'
<1> SUFFICES ASSUME IInv, EffortInv, Bisect PROVE EffortInv'  OBVIOUS
<1> USE NAssumption
<1>1. TypeOK /\ LoopInv /\ Searching /\ cur < N /\ pc = "verify"
  BY DEF IInv, Searching, Bisect, LoopInv
<1>2. /\ pc' = "head" /\ dist > 1 /\ dist' = dist \div 2
      /\ dist' < dist /\ dist' \in 1 .. N /\ dist \in 1 .. N
      /\ problems' = Append(problems, <<cur, dist>>)
      /\ UNCHANGED <<value, cur, tries>>
  BY <1>1 DEF Bisect, Half, searchVars, TypeOK
<1>3. /\ Len(problems) \in Nat
      /\ Len(problems') = Len(problems) + 1
      /\ \A k \in 1 .. Len(problems) :
            End(problems'[k]) = End(problems[k]) /\ End(problems[k]) \in 1 .. N
      /\ End(problems'[Len(problems) + 1]) = cur + dist
      /\ cur \in Choice
  <2>1. problems \in Seq(Choice \X (1 .. N)) /\ cur \in Choice
    BY <1>1, EndsInRange DEF TypeOK
  <2>2. /\ Len(problems') = Len(problems) + 1
        /\ \A k \in 1 .. Len(problems) : problems'[k] = problems[k]
        /\ problems'[Len(problems) + 1] = <<cur, dist>>
    <3>1. <<cur, dist>> \in Choice \X (1 .. N)
      BY <1>2, <2>1
    <3> QED  BY <1>2, <2>1, <3>1, AppendProperties, SMTT(30)
  <2>3. End(<<cur, dist>>) = cur + dist
    BY DEF End
  <2> QED  BY <1>1, <2>1, <2>2, <2>3, EndsInRange
<1>4. \A k \in 1 .. Len(problems) : End(problems[k]) >= cur + dist
  \* the innermost problem is open, and the others end where it does or later
  <2> SUFFICES ASSUME NEW k \in 1 .. Len(problems)
               PROVE  End(problems[k]) >= cur + dist
    OBVIOUS
  <2>1. problems # <<>> /\ Len(problems) \in 1 .. Len(problems)
        /\ k <= Len(problems)
    BY <1>1, <1>3, EmptySeq DEF TypeOK
  <2>2. /\ End(problems[Len(problems)]) > cur
        /\ End(problems[Len(problems)]) <= End(problems[k])
    BY <1>1, <2>1 DEF EffortInv
  <2>3. End(problems[k]) > cur
    BY <1>3, <2>1, <2>2 DEF Choice
  <2> QED  BY <1>1, <2>3 DEF EffortInv
<1>5. OpenEnds' = OpenEnds \cup {cur + dist'} /\ cur + dist' \notin OpenEnds
  <2>1. \A e : e \in OpenEnds <=>
                 \/ e = cur + dist
                 \/ \E k \in 1 .. Len(problems) :
                       End(problems[k]) > cur /\ e = End(problems[k])
    BY DEF OpenEnds
  <2>2. \A e : e \in OpenEnds' <=>
                 \/ e = cur + dist'
                 \/ \E k \in 1 .. Len(problems') :
                       End(problems'[k]) > cur /\ e = End(problems'[k])
    BY <1>2 DEF OpenEnds
  <2>3. cur + dist > cur
    BY <1>2, <1>3 DEF Choice
  <2>4. \A e : e \in OpenEnds' <=> e = cur + dist' \/ e \in OpenEnds
    <3> SUFFICES ASSUME NEW e
                 PROVE  e \in OpenEnds' <=> e = cur + dist' \/ e \in OpenEnds
      OBVIOUS
    <3>1. (\E k \in 1 .. Len(problems') :
              End(problems'[k]) > cur /\ e = End(problems'[k]))
            <=> \/ e = cur + dist
                \/ \E k \in 1 .. Len(problems) :
                      End(problems[k]) > cur /\ e = End(problems[k])
      BY <1>3, <2>3
    <3> QED  BY <2>1, <2>2, <3>1
  <2>5. cur + dist' \notin OpenEnds
    BY <1>2, <1>3, <1>4, <2>1 DEF Choice
  <2> QED  BY <2>4, <2>5
<1>6. Cardinality(OpenEnds') = Cardinality(OpenEnds) + 1
  BY <1>1, <1>5, EndsInRange, FS_AddElement
<1>7. tries + value[cur] + 2 <= OptionsBefore[cur + 1] + Cardinality(OpenEnds')
  <2>1. tries + value[cur] + 1
           <= OptionsBefore[cur + 1] + Cardinality(OpenEnds)
    BY <1>1 DEF EffortInv
  <2>2. value[cur] \in Nat /\ OptionsBefore[cur + 1] \in Nat /\ tries \in Nat
        /\ Cardinality(OpenEnds) \in Nat
    <3>1. cur + 1 \in 0 .. N
      BY <1>3 DEF Choice
    <3> QED  BY <1>1, <1>3, <3>1, EndsInRange, OptionsBeforeDef
             DEF TypeOK, Assignment
  <2> QED  BY <1>6, <2>1, <2>2
<1>8. EffortBound'
  BY <1>2 DEF EffortInv, EffortBound
<1>9. \A j, k \in 1 .. Len(problems') :
         j <= k => End(problems'[k]) <= End(problems'[j])
  <2> SUFFICES ASSUME NEW j \in 1 .. Len(problems'),
                      NEW k \in 1 .. Len(problems'), j <= k
               PROVE  End(problems'[k]) <= End(problems'[j])
    OBVIOUS
  <2>1. CASE k \in 1 .. Len(problems)
    BY <1>1, <1>3, <2>1 DEF EffortInv
  <2>2. CASE k = Len(problems) + 1 /\ j \in 1 .. Len(problems)
    BY <1>3, <1>4, <2>2
  <2>3. CASE k = Len(problems) + 1 /\ j = Len(problems) + 1
    BY <1>2, <1>3, <2>3 DEF Choice
  <2> QED  BY <1>3, <2>1, <2>2, <2>3
<1>10. \A k \in 1 .. Len(problems') : End(problems'[k]) >= cur + dist'
  <2> SUFFICES ASSUME NEW k \in 1 .. Len(problems')
               PROVE  End(problems'[k]) >= cur + dist
    BY <1>2, <1>3 DEF Choice
  <2>1. CASE k \in 1 .. Len(problems)
    BY <1>3, <1>4, <2>1
  <2>2. CASE k = Len(problems) + 1
    BY <1>2, <1>3, <2>2 DEF Choice
  <2> QED  BY <1>3, <2>1, <2>2
<1>11. \A i \in Choice : i > cur => value[i] = MaxOptions[i] - 1
  BY <1>1 DEF EffortInv
<1> QED
  BY <1>2, <1>7, <1>8, <1>9, <1>10, <1>11 DEF EffortInv

\* What holds at an answer, in numbers.
LEMMA AnswerEffort ==
    ASSUME IInv, EffortInv, pc = "verify"
    PROVE  /\ TypeOK /\ LoopInv /\ cur < N /\ cur \in Choice
           /\ tries + value[cur] + 1
                 <= OptionsBefore[cur + 1] + Cardinality(OpenEnds)
           /\ tries \in Nat /\ value[cur] \in Nat /\ value[cur] > 0
           /\ tries < OptionsBefore[N]
           /\ \A n \in 0 .. N : OptionsBefore[n] \in Nat
           /\ Cardinality(OpenEnds) \in Nat
<1>1. TypeOK /\ LoopInv /\ cur < N /\ Searching
  BY DEF IInv, Searching, LoopInv
<1>2. cur \in Choice
  BY <1>1, EndsInRange
<1>3. tries + value[cur] + 1 <= OptionsBefore[cur + 1] + Cardinality(OpenEnds)
  BY <1>1 DEF EffortInv
<1>4. tries \in Nat /\ value[cur] \in Nat /\ value[cur] > 0
  BY <1>1, <1>2 DEF TypeOK, LoopInv, Assignment
<1>5. tries < OptionsBefore[N]
  BY DEF EffortInv, EffortBound
<1> QED
  BY <1>1, <1>2, <1>3, <1>4, <1>5, EndsInRange, OptionsBeforeDef

LEMMA LimitChoiceEffort == IInv /\ EffortInv /\ LimitChoice => EffortInv'
<1> SUFFICES ASSUME IInv, EffortInv, LimitChoice PROVE EffortInv'  OBVIOUS
<1> USE NAssumption
<1>1. TypeOK /\ LoopInv /\ cur < N /\ Searching /\ cur \in Choice
  BY AnswerEffort DEF LimitChoice, Searching
<1>2. IInv'
  BY LimitChoiceIInv
<1>3. /\ pc = "verify" /\ dist = 1 /\ pc' = "head" /\ control = value
      /\ value' = [value EXCEPT ![cur] = value[cur] - 1]
      /\ cur' = IF value[cur] = 1 THEN cur + 1 ELSE cur
      /\ UNCHANGED <<dist, problems, tries>>
  <2>1. value[cur] \in Nat /\ value[cur] > 0 /\ cur = firstPos
    BY <1>1 DEF TypeOK, LoopInv, Assignment
  <2>2. pc' = "head"
    BY <1>1, <1>2 DEF LimitChoice, IInv, NoAssertionFails
  <2>3. firstPos' = IF value[cur] = 1 THEN firstPos + 1 ELSE firstPos
    BY <1>1, <2>1 DEF LimitChoice, LoopInv, Advance
  <2>4. cur' = firstPos'
    BY <1>1, <2>1, <2>3 DEF LimitChoice, Choice
  <2> QED  BY <1>1, <2>1, <2>2, <2>3, <2>4 DEF LimitChoice, LoopInv
<1>4. value'[cur] = value[cur] - 1
      /\ \A i \in Choice : i > cur => value'[i] = MaxOptions[i] - 1
  <2>1. \A i \in Choice : i > cur => value[i] = MaxOptions[i] - 1
    BY <1>1 DEF EffortInv
  <2> QED  BY <1>1, <1>3, <2>1 DEF TypeOK, Assignment, Choice
<1>5. EffortBound'
  BY <1>3 DEF EffortInv, EffortBound
<1>6. \A j, k \in 1 .. Len(problems) :
         j <= k => End(problems[k]) <= End(problems[j])
  BY <1>1 DEF EffortInv
<1>7. \A k \in 1 .. Len(problems) :
         End(problems[k]) > cur' => End(problems[k]) >= cur' + dist'
  BY <1>1, <1>3, EndsInRange DEF Choice
<1>8. ASSUME cur' < N
      PROVE  tries' + value'[cur'] + 2
                <= OptionsBefore[cur' + 1] + Cardinality(OpenEnds')
  <2>1. CASE value[cur] # 1
    <3>1. cur' = cur /\ OpenEnds' = OpenEnds
      BY <1>3, <2>1 DEF OpenEnds
    <3> QED
      BY <1>1, <1>3, <1>4, <3>1, AnswerEffort, OptionsBeforeDef DEF Choice
  <2>2. CASE value[cur] = 1
    <3>1. cur' = cur + 1 /\ cur + 1 \in Choice /\ cur + 1 \in 0 .. N
          /\ cur + 2 \in 1 .. N
      BY <1>1, <1>3, <1>8, <2>2 DEF Choice
    <3>2. value'[cur + 1] = MaxOptions[cur + 1] - 1
          /\ MaxOptions[cur + 1] \in Nat
          /\ OptionsBefore[cur + 2] = OptionsBefore[cur + 1] + MaxOptions[cur + 1]
      <4>1. cur + 1 > cur /\ (cur + 2) - 1 = cur + 1
        BY <1>1 DEF Choice
      <4> QED  BY <1>4, <3>1, <4>1, OptionsBeforeDef, OptionsAssumption
    <3>3. Cardinality(OpenEnds') >= Cardinality(OpenEnds) - 1
          /\ Cardinality(OpenEnds') \in Nat
      <4>1. OpenEnds \ {cur + 1} \subseteq OpenEnds'
        <5>1. \A e : e \in OpenEnds <=>
                       \/ e = cur + 1
                       \/ \E k \in 1 .. Len(problems) :
                             End(problems[k]) > cur /\ e = End(problems[k])
          BY <1>3 DEF OpenEnds
        <5>2. \A e : e \in OpenEnds' <=>
                       \/ e = cur' + dist'
                       \/ \E k \in 1 .. Len(problems) :
                             End(problems[k]) > cur' /\ e = End(problems[k])
          BY <1>3 DEF OpenEnds
        <5>3. \A k \in 1 .. Len(problems) :
                 End(problems[k]) > cur /\ End(problems[k]) # cur + 1
                    => End(problems[k]) > cur'
          BY <1>1, <3>1, EndsInRange DEF Choice
        <5> QED  BY <5>1, <5>2, <5>3
      <4>2. IsFiniteSet(OpenEnds') /\ IsFiniteSet(OpenEnds)
        <5>1. OpenEnds' \subseteq 1 .. N
          BY <1>1, <1>3, <3>1, EndsInRange DEF OpenEnds, Choice
        <5>2. IsFiniteSet(1 .. N)
          BY FS_Interval
        <5> QED  BY <1>1, <5>1, <5>2, EndsInRange, FS_Subset
      <4> QED  BY <4>1, <4>2, OneEndLess, FS_CardinalityType
    <3> QED
      BY <1>1, <1>3, <2>2, <3>1, <3>2, <3>3, AnswerEffort DEF Choice
  <2> QED  BY <2>1, <2>2
<1>9. ASSUME cur' < N
      PROVE  \A i \in Choice : i > cur' => value'[i] = MaxOptions[i] - 1
  BY <1>1, <1>3, <1>4 DEF Choice
<1>10. problems' = problems /\ pc' = "head"
  BY <1>3
<1> QED
  BY <1>5, <1>6, <1>7, <1>8, <1>9, <1>10 DEF EffortInv

\* An accepted block: at most one end is lost, the options of the choices
\* that are passed are gained.
LEMMA MoveOnPaid ==
    ASSUME NEW t \in Nat, NEW level \in Nat, level > 0,
           NEW ends \in Nat, NEW left \in Nat, left >= ends - 1,
           NEW before \in Nat, NEW after \in Nat, after >= before,
           NEW options \in Nat, t + level + 1 <= before + ends
    PROVE  t + (options - 1) + 2 <= after + options + left
  OBVIOUS

LEMMA AcceptEffort == IInv /\ EffortInv /\ Accept => EffortInv'
<1> SUFFICES ASSUME IInv, EffortInv, Accept PROVE EffortInv'  OBVIOUS
<1> USE NAssumption
<1>1. /\ TypeOK /\ LoopInv /\ cur < N /\ Searching /\ cur \in Choice
      /\ IInv' /\ pc = "verify"
  BY AnswerEffort, AcceptIInv DEF Accept, Searching
<1>2. /\ dist \in 1 .. N /\ LastPos = cur + dist /\ cur + dist \in 1 .. N
      /\ cur = firstPos /\ cur + dist > cur
  BY <1>1 DEF TypeOK, LoopInv, Choice, LastPos
<1>3. /\ cur' = cur + dist /\ pc' = "head"
      /\ UNCHANGED <<value, tries>>
  BY <1>1, <1>2 DEF Accept, Advance, IInv, NoAssertionFails
<1>4. PICK depth \in 0 .. Len(problems) :
         IsOpenDepth(cur', depth) /\ problems' = SubSeq(problems, 1, depth)
  BY DEF Accept
<1>5. /\ Len(problems) \in Nat
      /\ Len(problems') = depth
      /\ \A k \in 1 .. depth : problems'[k] = problems[k]
      /\ problems' = <<>> <=> depth = 0
      /\ \A k \in 1 .. Len(problems) : End(problems[k]) \in 1 .. N
  BY <1>1, <1>4, CutProblems, EndsInRange DEF TypeOK
<1>6. EffortBound'
  BY <1>3 DEF EffortInv, EffortBound
<1>7. \A j, k \in 1 .. depth : j <= k => End(problems'[k]) <= End(problems'[j])
  BY <1>1, <1>4, <1>5 DEF EffortInv
<1>8. ASSUME cur' < N
      PROVE  /\ depth > 0
             /\ cur' + dist' <= End(problems'[depth])
             /\ dist' \in 1 .. N
  \* the block reaches up to the end of the innermost problem, or before
  <2>1. TypeOK' /\ LoopInv'
    BY <1>1, <1>3 DEF IInv, Searching
  <2>2. firstPos' = cur' /\ dist' \in 1 .. N
    BY <2>1 DEF LoopInv, TypeOK
  <2>3. depth > 0
    <3>1. problems' # <<>>
      <4>1. pc' = IF /\ CanAdvance(dist)
                     /\ IF problems' = <<>>
                        THEN firstPos' >= N
                        ELSE /\ End(problems'[Len(problems')]) > LastPos
                             /\ dist' > 0
                  THEN "head" ELSE "failed"
        BY DEF Accept
      <4>2. ~(cur' >= N)
        BY <1>2, <1>3, <1>8
      <4> QED  BY <1>3, <2>2, <4>1, <4>2, Zenon
    <3> QED  BY <1>4, <1>5, <3>1
  <2>4. dist' = NextDist(problems')
    BY <1>5, <2>3 DEF Accept
  <2> DEFINE gap == End(problems'[depth]) - (cur + dist)
  <2>5. gap \in Nat /\ gap > 0
    <3>1. End(problems[depth]) > cur' /\ End(problems[depth]) \in 1 .. N
          /\ problems'[depth] = problems[depth]
      BY <1>4, <1>5, <2>3 DEF IsOpenDepth
    <3> QED  BY <1>2, <1>3, <3>1
  <2>6. dist' <= gap
    <3>1. NextDist(problems') = IF changed \/ gap = 1 THEN gap ELSE gap \div 2
      BY <1>2, <1>5 DEF NextDist, Half
    <3> HIDE DEF gap
    <3> QED  BY <2>4, <2>5, <3>1
  <2>7. cur' + dist' <= End(problems'[depth])
    <3>1. End(problems'[depth]) \in 1 .. N
      BY <1>4, <1>5, <2>3
    <3> QED  BY <1>2, <1>3, <2>2, <2>6, <3>1
  <2> QED  BY <2>2, <2>3, <2>7
<1>9. ASSUME cur' < N
      PROVE  \A k \in 1 .. depth : End(problems'[k]) >= cur' + dist'
  <2> SUFFICES ASSUME NEW k \in 1 .. depth
               PROVE  End(problems'[k]) >= cur' + dist'
    OBVIOUS
  <2>1. depth \in 1 .. depth /\ k <= depth
    BY <1>4, <1>5
  <2>2. End(problems'[depth]) <= End(problems'[k])
    BY <1>7, <2>1
  <2>3. End(problems'[depth]) \in 1 .. N /\ End(problems'[k]) \in 1 .. N
    BY <1>4, <1>5, <2>1
  <2> QED  BY <1>2, <1>3, <1>8, <1>9, <2>2, <2>3
<1>10. ASSUME cur' < N
       PROVE  Cardinality(OpenEnds') >= Cardinality(OpenEnds) - 1
              /\ Cardinality(OpenEnds') \in Nat
  <2>1. OpenEnds \ {cur + dist} \subseteq OpenEnds'
    <3>1. \A e : e \in OpenEnds <=>
                   \/ e = cur + dist
                   \/ \E k \in 1 .. Len(problems) :
                         End(problems[k]) > cur /\ e = End(problems[k])
      BY DEF OpenEnds
    <3>2. \A e : e \in OpenEnds' <=>
                   \/ e = cur' + dist'
                   \/ \E k \in 1 .. Len(problems') :
                         End(problems'[k]) > cur' /\ e = End(problems'[k])
      BY DEF OpenEnds
    <3>3. \A k \in 1 .. Len(problems) :
             End(problems[k]) > cur /\ End(problems[k]) # cur + dist
                => /\ End(problems[k]) > cur'
                   /\ k \in 1 .. depth /\ problems'[k] = problems[k]
      <4> SUFFICES ASSUME NEW k \in 1 .. Len(problems), End(problems[k]) > cur,
                          End(problems[k]) # cur + dist
                   PROVE  /\ End(problems[k]) > cur'
                          /\ k \in 1 .. depth /\ problems'[k] = problems[k]
        OBVIOUS
      <4>1. End(problems[k]) >= cur + dist
        BY <1>1 DEF EffortInv
      <4>2. End(problems[k]) > cur'
        BY <1>2, <1>3, <1>5, <4>1
      <4>3. k \in 1 .. depth
        BY <1>2, <1>3, <1>4, <1>5, <4>2 DEF IsOpenDepth
      <4> QED  BY <1>5, <4>2, <4>3
    <3> QED  BY <1>5, <3>1, <3>2, <3>3
  <2>2. IsFiniteSet(OpenEnds') /\ IsFiniteSet(OpenEnds)
    <3>1. OpenEnds' \subseteq 1 .. N
      <4>1. TypeOK' /\ LoopInv' /\ firstPos' = cur'
        BY <1>1, <1>3 DEF IInv, Searching, LoopInv
      <4>2. cur' + dist' \in 1 .. N
        BY <1>2, <1>3, <1>8, <1>10, <4>1 DEF LoopInv
      <4>3. \A k \in 1 .. Len(problems') : End(problems'[k]) \in 1 .. N
        BY <1>4, <1>5
      <4> QED  BY <4>2, <4>3 DEF OpenEnds
    <3>2. IsFiniteSet(1 .. N)
      BY FS_Interval
    <3> QED  BY <1>1, <3>1, <3>2, EndsInRange, FS_Subset
  <2> QED  BY <2>1, <2>2, OneEndLess, FS_CardinalityType
<1>11. ASSUME cur' < N
       PROVE  tries' + value'[cur'] + 2
                 <= OptionsBefore[cur' + 1] + Cardinality(OpenEnds')
  <2>1. /\ cur' \in Choice /\ cur' + 1 \in 1 .. N /\ (cur' + 1) - 1 = cur'
        /\ cur' > cur /\ cur' \in 0 .. N /\ cur + 1 \in 0 .. N /\ cur + 1 <= cur'
    BY <1>1, <1>2, <1>3, <1>11 DEF Choice
  <2>2. value[cur'] = MaxOptions[cur'] - 1 /\ MaxOptions[cur'] \in Nat
    BY <1>1, <2>1, OptionsAssumption DEF EffortInv
  <2>3. OptionsBefore[cur' + 1] = OptionsBefore[cur'] + MaxOptions[cur']
    BY <2>1, OptionsBeforeDef
  <2>4. OptionsBefore[cur'] >= OptionsBefore[cur + 1]
        /\ OptionsBefore[cur'] \in Nat /\ OptionsBefore[cur + 1] \in Nat
    <3>1. OptionsBefore[cur']
             >= OptionsBefore[cur + 1] + 2 * (cur' - (cur + 1))
      BY <2>1, OptionsBeforeGrows
    <3>2. OptionsBefore[cur'] \in Nat /\ OptionsBefore[cur + 1] \in Nat
      BY <2>1, OptionsBeforeDef
    <3> QED  BY <2>1, <3>1, <3>2
  <2>5. /\ tries + value[cur] + 1
              <= OptionsBefore[cur + 1] + Cardinality(OpenEnds)
        /\ tries \in Nat /\ value[cur] \in Nat /\ value[cur] > 0
        /\ Cardinality(OpenEnds) \in Nat
    BY <1>1, AnswerEffort
  <2>6. /\ Cardinality(OpenEnds') >= Cardinality(OpenEnds) - 1
        /\ Cardinality(OpenEnds') \in Nat
    BY <1>10, <1>11
  <2>7. tries + (MaxOptions[cur'] - 1) + 2
           <= OptionsBefore[cur'] + MaxOptions[cur'] + Cardinality(OpenEnds')
    <3> DEFINE ends == Cardinality(OpenEnds)
               left == Cardinality(OpenEnds')
               before == OptionsBefore[cur + 1]
               after == OptionsBefore[cur']
               options == MaxOptions[cur']
    <3>1. /\ ends \in Nat /\ left \in Nat /\ left >= ends - 1
          /\ before \in Nat /\ after \in Nat /\ after >= before
          /\ options \in Nat
      BY <2>2, <2>4, <2>5, <2>6
    <3>2. /\ tries + value[cur] + 1 <= before + ends
          /\ tries \in Nat /\ value[cur] \in Nat /\ value[cur] > 0
      BY <2>5
    <3> HIDE DEF ends, left, before, after, options
    <3>3. tries + (options - 1) + 2 <= after + options + left
      BY <3>1, <3>2, MoveOnPaid
    <3> QED  BY <3>3 DEF left, after, options
  <2> QED  BY <1>3, <2>2, <2>3, <2>7
<1>12. ASSUME cur' < N
       PROVE  \A i \in Choice : i > cur' => value'[i] = MaxOptions[i] - 1
  <2>1. \A i \in Choice : i > cur => value[i] = MaxOptions[i] - 1
    BY <1>1 DEF EffortInv
  <2> QED  BY <1>1, <1>2, <1>3, <2>1 DEF Choice
<1> QED
  BY <1>3, <1>5, <1>6, <1>7, <1>9, <1>11, <1>12 DEF EffortInv

LEMMA NextEffort == IInv /\ EffortInv /\ [Next]_vars => EffortInv'
<1> SUFFICES ASSUME IInv, EffortInv, [Next]_vars PROVE EffortInv'
  OBVIOUS
<1>1. CASE Resolve \/ CutOff
  BY <1>1 DEF Resolve, CutOff, blockVars, EffortInv, EffortBound, Searching
<1>2. CASE UNCHANGED vars
  BY <1>2
  DEF vars, searchVars, blockVars, EffortInv, EffortBound, Searching, OpenEnds
<1> QED
  BY <1>1, <1>2, ProposeEffort, AcceptEffort, BisectEffort, LimitChoiceEffort
  DEF Next

\* The search took fewer tries than the choices have options.
THEOREM Effort == Spec => []EffortBound
<1>1. Init => EffortInv
  BY InitEffort
<1>2. IInv /\ EffortInv /\ [Next]_vars => EffortInv'
  BY NextEffort
<1>3. EffortInv => EffortBound
  BY DEF EffortInv
<1> QED  BY <1>1, <1>2, <1>3, Invariance, PTL DEF Spec

-------------------------------------------------------------------------------
(* The search that a verification answers *)

\* The last accepted assignment is valid, and so is the one the verdict is
\* about unless the search dropped a choice from it.
VInv ==
    /\ IInv
    /\ NothingUnconfirmed
    /\ VerifiedTypeOK
    /\ accepted \in valid
    /\ verdict # "none" => pc \in {"resolved", "limited"}
    /\ verdict = "assertion" => value \notin valid

LEMMA IInvConfirms == IInv => NothingUnconfirmed
<1> SUFFICES ASSUME IInv PROVE NothingUnconfirmed  OBVIOUS
<1>1. PICK p \in 0 .. firstPos : AcceptedUpTo(p)
  BY DEF IInv
<1>2. p \in 0 .. N /\ firstPos \in 0 .. N
  BY NAssumption DEF IInv, TypeOK
<1>3. \A i \in Choice :
         (IF i < firstPos THEN value[i] ELSE 0)
            = (IF i = p THEN 0 ELSE accepted[i])
  BY <1>1, <1>2, NAssumption DEF AcceptedUpTo, Choice
<1> QED
  BY <1>2, <1>3
  DEF NothingUnconfirmed, Promise!NothingUnconfirmed, Promise!Decided,
      Promise!Choice, Choice

LEMMA VerifiedStep ==
    ASSUME VerifiedNext
    PROVE  [Next]_vars
BY DEF VerifiedNext, Search, ForcedValidation, Next

\* Whatever the verification accepts, every step of optimizeAndRun's loop and
\* of the forced validation keeps the invariant.
THEOREM VerifiedInvariance == VerifiedSpec => []VInv
<1>1. VerifiedInit => VInv
  <2> SUFFICES ASSUME VerifiedInit PROVE VInv  OBVIOUS
  <2>1. Init /\ valid \in Verifiers /\ verdict = "none"
    BY DEF VerifiedInit
  <2>2. IInv /\ NothingUnconfirmed
    BY <2>1, InitIInv, IInvConfirms
  <2>3. accepted = Pessimistic
    BY <2>1 DEF Init, Pessimistic
  <2>4. TypeOK
    BY <2>2 DEF IInv
  <2> QED
    BY <2>1, <2>2, <2>3, <2>4, VerifiersAssumption DEF VInv, VerifiedTypeOK
<1>2. VInv /\ [VerifiedNext]_verifiedVars => VInv'
  <2> SUFFICES ASSUME VInv, [VerifiedNext]_verifiedVars PROVE VInv'
    OBVIOUS
  <2>1. valid' = valid
    BY DEF VerifiedNext, Search, ForcedValidation, verifiedVars
  <2>2. IInv' /\ NothingUnconfirmed'
    <3>1. [Next]_vars
      BY VerifiedStep DEF verifiedVars
    <3>2. IInv'
      BY <3>1, ProposeIInv, ResolveIInv, CutOffIInv, AcceptIInv, BisectIInv,
         LimitChoiceIInv, StutterIInv
      DEF Next, VInv
    <3> QED  BY <3>2, IInvConfirms, PTL
  <2>3. TypeOK'
    BY <2>2 DEF IInv
  <2>4. CASE UNCHANGED verifiedVars
    <3>1. UNCHANGED <<value, pc, accepted, valid, verdict>>
      BY <2>4 DEF verifiedVars, vars, searchVars
    <3> QED  BY <2>2, <2>3, <3>1 DEF VInv, VerifiedTypeOK
  <2>5. CASE Search
    <3>1. pc \in {"head", "verify"} /\ verdict' = verdict
      BY <2>5 DEF Search, Propose, Resolve, CutOff, Accept, Bisect, LimitChoice
    <3>2. verdict = "none"
      BY <3>1 DEF VInv, VerifiedTypeOK
    <3>3. accepted' \in valid
      BY <2>5 DEF VInv, Search, Propose, Resolve, CutOff, Accept, Bisect,
                  LimitChoice
    <3> QED  BY <2>1, <2>2, <2>3, <3>1, <3>2, <3>3 DEF VInv, VerifiedTypeOK
  <2>6. CASE ForcedValidation
    <3>1. Levels(control) = value
      BY <2>6 DEF ForcedValidation, VInv, IInv, StringMatchesChoices
    <3>2. UNCHANGED <<value, pc, accepted>> /\ pc \in {"resolved", "limited"}
      BY <2>6 DEF ForcedValidation, vars, searchVars
    <3>3. /\ verdict' \in {"success", "assertion"}
          /\ verdict' = "assertion" => value \notin valid
      BY <2>6, <3>1 DEF ForcedValidation
    <3> QED
      BY <2>1, <2>2, <2>3, <3>2, <3>3 DEF VInv, VerifiedTypeOK
  <2> QED  BY <2>4, <2>5, <2>6 DEF VerifiedNext
<1> QED  BY <1>1, <1>2, PTL DEF VerifiedSpec

-------------------------------------------------------------------------------

\* The assignment a finished search returns is the last accepted one with at
\* most one choice dropped.
LEMMA ReturnedIsAccepted ==
    ASSUME VInv, pc \in {"resolved", "limited"}
    PROVE  \E p \in 0 .. N :
              \A i \in Choice : value[i] = IF i = p THEN 0 ELSE accepted[i]
<1>1. \A i \in Choice : value[i] = IF i < firstPos THEN value[i] ELSE 0
  <2>1. DOMAIN control = 0 .. firstPos - 1 /\ Levels(control) = value
    BY DEF VInv, IInv, StringMatchesChoices
  <2>2. firstPos \in 0 .. N
    BY DEF VInv, IInv, TypeOK
  <2> QED  BY <2>1, <2>2, NAssumption DEF Levels, Choice
<1>2. PICK p \in 0 .. N :
         \A i \in Choice : (IF i < firstPos THEN value[i] ELSE 0)
                              = IF i = p THEN 0 ELSE accepted[i]
  BY DEF VInv, NothingUnconfirmed, Promise!NothingUnconfirmed,
         Promise!Decided, Promise!Choice, Choice
<1> QED  BY <1>1, <1>2

\* Whatever the verification accepts, the forced validation fails only when
\* one choice was dropped from the last accepted build.
THEOREM AssertionOnlyAfterDrop == VerifiedSpec => []AssertionMeansDropped
<1>1. VInv => AssertionMeansDropped
  <2> SUFFICES ASSUME VInv, verdict = "assertion"
               PROVE  \E p \in Choice :
                         /\ accepted[p] > 0
                         /\ value = [accepted EXCEPT ![p] = 0]
    BY DEF AssertionMeansDropped
  <2>1. pc \in {"resolved", "limited"} /\ value \notin valid
    BY DEF VInv
  <2>2. value \in Assignment /\ accepted \in Assignment /\ accepted \in valid
    BY DEF VInv, IInv, TypeOK
  <2>3. PICK p \in 0 .. N :
           \A i \in Choice : value[i] = IF i = p THEN 0 ELSE accepted[i]
    BY <2>1, ReturnedIsAccepted
  <2>4. PICK q \in Choice : value[q] # accepted[q]
    BY <2>1, <2>2 DEF Assignment
  <2>5. q = p /\ accepted[p] # 0
    BY <2>3, <2>4
  <2>6. accepted[p] > 0
    BY <2>2, <2>4, <2>5 DEF Assignment
  <2>7. value = [accepted EXCEPT ![p] = 0]
    BY <2>2, <2>3, <2>4, <2>5 DEF Assignment
  <2> QED  BY <2>4, <2>5, <2>6, <2>7
<1> QED  BY <1>1, VerifiedInvariance, PTL

\* Under a monotone verification the string a search returns passes the
\* forced validation of optimizeAndRun (line 620), whatever limits the search.
THEOREM MonotoneVerifies == VerifiedSpec => []MonotoneSucceeds
<1>1. VInv /\ AssertionMeansDropped => MonotoneSucceeds
  <2> SUFFICES ASSUME VInv, AssertionMeansDropped, verdict = "assertion",
                      Monotone(valid)
               PROVE  FALSE
    BY DEF MonotoneSucceeds
  <2>1. value \notin valid /\ accepted \in valid
    BY DEF VInv
  <2>2. PICK p \in Choice :
           accepted[p] > 0 /\ value = [accepted EXCEPT ![p] = 0]
    BY DEF AssertionMeansDropped
  <2>3. 0 \in 0 .. accepted[p]
    BY <2>2 DEF VInv, IInv, TypeOK, Assignment
  <2> QED  BY <2>1, <2>2, <2>3 DEF Monotone
<1> QED  BY <1>1, VerifiedInvariance, AssertionOnlyAfterDrop, PTL

-------------------------------------------------------------------------------
(* Where a search ends under an independent verification *)

\* The choices of an assignment replaced one after the other.
LEMMA DownwardClosed ==
    ASSUME NEW S, S \subseteq Assignment, Monotone(S), NEW b \in S,
           NEW a \in Assignment, Below(a, b)
    PROVE  a \in S
<1> USE NAssumption
<1> DEFINE mix(k) == [i \in Choice |-> IF i < k THEN a[i] ELSE b[i]]
           T == {k \in Nat : k <= N => mix(k) \in S}
<1>1. b \in Assignment
  OBVIOUS
<1>2. 0 \in T
  <2>1. mix(0) = b
    BY <1>1 DEF Assignment, Choice
  <2> QED  BY <2>1
<1>3. ASSUME NEW k \in Nat, k \in T PROVE k + 1 \in T
  <2> SUFFICES ASSUME k + 1 <= N PROVE mix(k + 1) \in S
    OBVIOUS
  <2>1. k \in Choice /\ mix(k) \in S
    BY <1>3 DEF Choice
  <2>2. a[k] \in 0 .. mix(k)[k]
    BY <1>1, <2>1 DEF Below, Assignment
  <2>3. [mix(k) EXCEPT ![k] = a[k]] \in S
    <3> HIDE DEF mix
    <3> QED  BY <2>1, <2>2 DEF Monotone
  <2>4. mix(k + 1) = [mix(k) EXCEPT ![k] = a[k]]
    BY <2>1 DEF Choice
  <2> QED  BY <2>3, <2>4
<1> HIDE DEF T
<1>4. N \in T
  BY <1>2, <1>3, Induct
<1>5. mix(N) = a
  BY DEF Assignment, Choice
<1> QED  BY <1>4, <1>5 DEF T

\* An independent verification accepts what is below the limit, and only that.
LEMMA LimitDecides ==
    ASSUME valid \in Verifiers, Independent(valid)
    PROVE  /\ Limit \in Assignment
           /\ Below(Limit, Top)
           /\ \A a \in Assignment : a \in valid <=> Below(a, Limit)
<1>1. valid \subseteq Assignment /\ \A a \in valid : Below(a, Top)
  BY VerifiersAssumption
<1>2. Limit \in valid /\ IsLimit(Limit, valid)
  <2>1. \E limit : limit \in valid /\ IsLimit(limit, valid)
    BY DEF Independent
  <2>2. Limit = CHOOSE limit : limit \in valid /\ IsLimit(limit, valid)
    BY DEF Limit
  <2> QED  BY <2>1, <2>2, Zenon
<1>3. Monotone(valid)
  BY DEF Independent
<1>4. \A a \in Assignment : Below(a, Limit) => a \in valid
  BY <1>1, <1>2, <1>3, DownwardClosed
<1> QED  BY <1>1, <1>2, <1>4 DEF IsLimit

ExactInv ==
    /\ valid \in Verifiers
    /\ EffortInv
    /\ ExactSoFar

\* What the search knows at an answer, and what it learns from it.
LEMMA ExactAnswer ==
    ASSUME VInv, ExactInv, Independent(valid), pc = "verify"
    PROVE  /\ TypeOK /\ LoopInv /\ Searching /\ cur \in Choice
           /\ cur = firstPos /\ cur < N /\ dist \in 1 .. N /\ cur + dist <= N
           /\ value \in Assignment /\ Limit \in Assignment
           /\ value[cur] > 0
           /\ \A i \in Choice : i < cur =>
                 value[i] = IF NextUnlimited(i) THEN Limit[i] ELSE 0
           /\ NextUnlimited(cur) => value[cur] >= Limit[cur]
           /\ \A i \in Choice : i > cur => value[i] = Top[i]
           /\ \A i \in Choice : Limit[i] <= Top[i]
           /\ Probe \in valid <=>
                 \A i \in Choice : i <= cur + dist => value[i] <= Limit[i]
<1>1. TypeOK /\ LoopInv /\ Searching /\ cur < N /\ cur \in Choice
      /\ value[cur] > 0
  BY AnswerEffort DEF VInv, ExactInv, Searching
<1>2. cur = firstPos /\ dist \in 1 .. N /\ cur + dist <= N
      /\ value \in Assignment
  BY <1>1 DEF LoopInv, TypeOK
<1>3. /\ Limit \in Assignment /\ Below(Limit, Top)
      /\ \A a \in Assignment : a \in valid <=> Below(a, Limit)
  BY LimitDecides DEF ExactInv
<1>4. \A i \in Choice : i > cur => value[i] = Top[i]
  BY <1>1 DEF ExactInv, EffortInv, Top
<1>5. /\ \A i \in 0 .. firstPos - 1 :
            value[i] = IF NextUnlimited(i) THEN Limit[i] ELSE 0
      /\ NextUnlimited(cur) => value[cur] >= Limit[cur]
  BY <1>1 DEF ExactInv, ExactSoFar
<1>6. Probe \in valid <=>
         \A i \in Choice : i <= cur + dist => value[i] <= Limit[i]
  <2>1. Probe = [i \in Choice |-> IF i <= LastPos THEN value[i] ELSE 0]
    BY <1>1, ProbeIsPrefix DEF LoopInv
  <2>2. Probe \in Assignment
    BY <1>2, <2>1 DEF Assignment
  <2>3. Below(Probe, Limit) <=>
           \A i \in Choice : i <= LastPos => value[i] <= Limit[i]
    BY <1>2, <1>3, <2>1 DEF Below, Assignment
  <2> QED  BY <1>3, <2>2, <2>3 DEF LastPos
<1>7. \A i \in Choice : i < cur => i \in 0 .. firstPos - 1
  BY <1>1, <1>2 DEF Choice
<1> QED
  BY <1>1, <1>2, <1>3, <1>4, <1>5, <1>6, <1>7 DEF Below

\* The limit is about valid, which never changes.
LEMMA LimitIsConstant ==
    ASSUME valid' = valid
    PROVE  /\ Limit' = Limit
           /\ Independent(valid)' = Independent(valid)
           /\ \A i : NextUnlimited(i)' = NextUnlimited(i)
<1>1. Limit' = Limit
  BY DEF Limit
<1> QED  BY <1>1 DEF NextUnlimited

\* What ExactSoFar asks for, when the decided choices end at firstPos'.
LEMMA ExactAccept ==
    VInv /\ ExactInv /\ Probe \in valid /\ Accept /\ valid' = valid
       => ExactSoFar'
<1> SUFFICES ASSUME VInv, ExactInv, Probe \in valid, Accept, valid' = valid,
                    Independent(valid)
             PROVE  /\ \A i \in 0 .. firstPos' - 1 :
                          value'[i] = IF NextUnlimited(i) THEN Limit[i] ELSE 0
                    /\ cur' < N => value'[cur'] >= Limit[cur']
  BY LimitIsConstant DEF ExactSoFar
<1> USE NAssumption
<1>1. /\ TypeOK /\ LoopInv /\ Searching /\ cur \in Choice
      /\ cur = firstPos /\ cur < N /\ dist \in 1 .. N /\ cur + dist <= N
      /\ value \in Assignment /\ Limit \in Assignment
      /\ \A i \in Choice : i < cur =>
            value[i] = IF NextUnlimited(i) THEN Limit[i] ELSE 0
      /\ NextUnlimited(cur) => value[cur] >= Limit[cur]
      /\ \A i \in Choice : i > cur => value[i] = Top[i]
      /\ \A i \in Choice : Limit[i] <= Top[i]
  BY ExactAnswer DEF Accept
<1>2. \A i \in Choice : i <= cur + dist => value[i] <= Limit[i]
  BY ExactAnswer DEF Accept
<1>3. firstPos' = cur + dist /\ cur' = cur + dist /\ value' = value
  BY <1>1 DEF Accept, Advance
<1>4. \A i \in Choice : value[i] \in Nat /\ Limit[i] \in Nat
  BY <1>1 DEF Assignment
<1>5. \A i \in Choice : i > cur /\ i <= cur + dist =>
         value[i] = Limit[i] /\ Limit[i] = Top[i]
  BY <1>1, <1>2, <1>4
<1>6. ASSUME NEW i \in 0 .. firstPos' - 1
      PROVE  value'[i] = IF NextUnlimited(i) THEN Limit[i] ELSE 0
  <2>1. i \in Choice /\ i < cur + dist
    BY <1>1, <1>3 DEF Choice
  <2>2. CASE i < cur
    BY <1>1, <1>3, <2>1, <2>2
  <2>3. CASE i >= cur
    <3>1. NextUnlimited(i)
      \* the string reached one choice further than what it decided
      <4>1. i + 1 \in Choice => i + 1 > cur /\ i + 1 <= cur + dist
        BY <1>1, <2>1, <2>3 DEF Choice
      <4> QED  BY <1>5, <4>1 DEF NextUnlimited
    <3>2. value[i] = Limit[i]
      <4>1. CASE i = cur
        <5>1. NextUnlimited(cur)
          BY <3>1, <4>1
        <5>2. value[cur] >= Limit[cur] /\ value[cur] <= Limit[cur]
          BY <1>1, <1>2, <2>1, <4>1, <5>1
        <5> QED  BY <1>1, <1>4, <4>1, <5>2
      <4>2. CASE i > cur
        <5>1. i <= cur + dist
          BY <1>1, <2>1 DEF Choice
        <5> QED  BY <1>5, <2>1, <4>2, <5>1
      <4> QED  BY <1>1, <2>1, <2>3, <4>1, <4>2 DEF Choice
    <3> QED  BY <1>3, <3>1, <3>2
  <2> QED  BY <1>1, <2>1, <2>2, <2>3 DEF Choice
<1>7. ASSUME cur' < N PROVE value'[cur'] >= Limit[cur']
  <2>1. cur' \in Choice /\ cur' > cur /\ cur' <= cur + dist
    BY <1>1, <1>3, <1>7 DEF Choice
  <2> QED  BY <1>3, <1>4, <1>5, <2>1
<1> QED  BY <1>6, <1>7

LEMMA ExactLimit ==
    VInv /\ ExactInv /\ Probe \notin valid /\ LimitChoice /\ valid' = valid
       => ExactSoFar'
<1> SUFFICES ASSUME VInv, ExactInv, Probe \notin valid, LimitChoice,
                    valid' = valid, Independent(valid)
             PROVE  /\ \A i \in 0 .. firstPos' - 1 :
                          value'[i] = IF NextUnlimited(i) THEN Limit[i] ELSE 0
                    /\ cur' < N /\ NextUnlimited(cur') =>
                          value'[cur'] >= Limit[cur']
  BY LimitIsConstant DEF ExactSoFar
<1> USE NAssumption
<1>1. /\ TypeOK /\ LoopInv /\ Searching /\ cur \in Choice
      /\ cur = firstPos /\ cur < N
      /\ value \in Assignment /\ Limit \in Assignment /\ value[cur] > 0
      /\ \A i \in Choice : i < cur =>
            value[i] = IF NextUnlimited(i) THEN Limit[i] ELSE 0
      /\ \A i \in Choice : i > cur => value[i] = Top[i]
      /\ \A i \in Choice : Limit[i] <= Top[i]
  BY ExactAnswer DEF LimitChoice
<1>2. ~(\A i \in Choice : i <= cur + 1 => value[i] <= Limit[i])
  BY ExactAnswer DEF LimitChoice
<1>3. \A i \in Choice : value[i] \in Nat /\ Limit[i] \in Nat
  BY <1>1 DEF Assignment
<1>4. NextUnlimited(cur) => value[cur] > Limit[cur]
  \* or the string would have passed
  <2> SUFFICES ASSUME NextUnlimited(cur), value[cur] <= Limit[cur]
               PROVE  \A i \in Choice : i <= cur + 1 => value[i] <= Limit[i]
    BY <1>1, <1>2, <1>3
  <2> TAKE i \in Choice
  <2> HAVE i <= cur + 1
  <2>1. CASE i < cur
    BY <1>1, <1>3, <2>1
  <2>2. CASE i = cur
    BY <2>2
  <2>3. CASE i = cur + 1
    BY <1>1, <1>3, <2>3 DEF NextUnlimited
  <2> QED  BY <1>1, <2>1, <2>2, <2>3 DEF Choice
<1>5. /\ firstPos' = IF value[cur] = 1 THEN cur + 1 ELSE cur
      /\ cur' = firstPos'
      /\ value' = [value EXCEPT ![cur] = value[cur] - 1]
  <2>1. control = value
    BY <1>1 DEF LoopInv
  <2>2. firstPos' = IF value[cur] = 1 THEN cur + 1 ELSE cur
    BY <1>1, <1>3, <2>1 DEF LimitChoice, Advance
  <2> QED  BY <1>1, <2>1, <2>2 DEF LimitChoice, Choice
<1>6. /\ value'[cur] = value[cur] - 1
      /\ \A i \in Choice : i # cur => value'[i] = value[i]
  BY <1>1, <1>5 DEF Assignment
<1>7. ASSUME NEW i \in 0 .. firstPos' - 1
      PROVE  value'[i] = IF NextUnlimited(i) THEN Limit[i] ELSE 0
  <2>1. i \in Choice /\ (i < cur \/ (i = cur /\ value[cur] = 1))
    BY <1>1, <1>5 DEF Choice
  <2>2. CASE i < cur
    BY <1>1, <1>6, <2>1, <2>2 DEF Choice
  <2>3. CASE i = cur /\ value[cur] = 1
    BY <1>3, <1>4, <1>6, <2>1, <2>3
  <2> QED  BY <2>1, <2>2, <2>3
<1>8. ASSUME cur' < N, NextUnlimited(cur')
      PROVE  value'[cur'] >= Limit[cur']
  <2>1. CASE value[cur] = 1
    <3>1. cur' \in Choice /\ cur' > cur /\ cur' # cur
      BY <1>1, <1>5, <1>8, <2>1 DEF Choice
    <3> QED  BY <1>1, <1>3, <1>6, <3>1
  <2>2. CASE value[cur] # 1
    BY <1>1, <1>3, <1>4, <1>5, <1>6, <1>8, <2>2
  <2> QED  BY <2>1, <2>2
<1> QED  BY <1>7, <1>8

\* Under a verification that judges each choice alone, every choice the search
\* has decided ends at its own limit, or at 0 when the choice after it is
\* limited.
THEOREM Exactness == VerifiedSpec => []ExactResult
<1>1. VerifiedInit => ExactInv
  <2> SUFFICES ASSUME VerifiedInit PROVE ExactInv  OBVIOUS
  <2>1. Init /\ valid \in Verifiers
    BY DEF VerifiedInit
  <2>2. EffortInv
    BY <2>1, InitEffort
  <2>3. ASSUME Independent(valid)
        PROVE  value[cur] >= Limit[cur]
    <3>1. value = Top /\ cur = 0 /\ 0 \in Choice
      BY <2>1, NAssumption DEF Init, Top, Choice
    <3>2. Below(Limit, Top)
      BY <2>1, <2>3, LimitDecides
    <3>3. Top[0] \in Nat /\ Limit[0] \in Nat
      <4>1. Limit \in Assignment
        BY <2>1, <2>3, LimitDecides
      <4> QED  BY <3>1, <4>1, OptionsAssumption DEF Top, Assignment
    <3> QED  BY <3>1, <3>2, <3>3 DEF Below
  <2>4. ExactSoFar
    BY <2>1, <2>3 DEF ExactSoFar, Init
  <2> QED  BY <2>1, <2>2, <2>4 DEF ExactInv
<1>2. VInv /\ ExactInv /\ [VerifiedNext]_verifiedVars => ExactInv'
  <2> SUFFICES ASSUME VInv, ExactInv, [VerifiedNext]_verifiedVars
               PROVE  ExactInv'
    OBVIOUS
  <2>1. valid' = valid
    BY DEF VerifiedNext, Search, ForcedValidation, verifiedVars
  <2>2. EffortInv'
    <3>1. [Next]_vars
      BY VerifiedStep DEF verifiedVars
    <3> QED  BY <3>1, NextEffort DEF VInv, ExactInv
  <2>3. ExactSoFar'
    <3>1. CASE Probe \in valid /\ Accept
      BY <2>1, <3>1, ExactAccept
    <3>2. CASE Probe \notin valid /\ LimitChoice
      BY <2>1, <3>2, ExactLimit
    <3>3. CASE \/ Propose \/ Bisect \/ Resolve \/ ForcedValidation
               \/ UNCHANGED verifiedVars
      <4>1. UNCHANGED <<value, firstPos, cur>> /\ (Searching' => Searching)
        BY <3>3 DEF Propose, Bisect, Resolve, ForcedValidation, verifiedVars,
                    vars, searchVars, blockVars, Searching
      <4> QED  BY <2>1, <4>1, LimitIsConstant DEF ExactInv, ExactSoFar
    <3>4. CASE CutOff
      <4>1. /\ firstPos' = firstPos /\ ~Searching'
            /\ value' = [i \in Choice |-> IF i < firstPos THEN value[i] ELSE 0]
        BY <3>4 DEF CutOff, Searching
      <4>2. \A i \in 0 .. firstPos - 1 : value'[i] = value[i]
        BY <4>1, NAssumption DEF VInv, IInv, TypeOK, Choice
      <4> QED
        BY <2>1, <4>1, <4>2, LimitIsConstant DEF ExactInv, ExactSoFar
    <3> QED  BY <3>1, <3>2, <3>3, <3>4 DEF VerifiedNext, Search
  <2> QED  BY <2>1, <2>2, <2>3 DEF ExactInv
<1>3. ExactInv => ExactResult
  BY DEF ExactInv, ExactSoFar, ExactResult
<1> QED  BY <1>1, <1>2, <1>3, VerifiedInvariance, PTL DEF VerifiedSpec

===============================================================================
