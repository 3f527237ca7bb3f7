---------------------------- MODULE FirstTunerProofs ----------------------------
(***************************************************************************)
(* What the first tuner returns was accepted, and how many builds that     *)
(* takes, for every number of choices, every number of options and every   *)
(* length of merging.                                                      *)
(***************************************************************************)
EXTENDS FirstTuner, NumberLemmas, FiniteSetTheorems, TLAPS

Inv == TypeOK /\ DecidedIsAccepted

\* The intervals are told apart by where they end: the first ends first.
LEMMA FirstIsLeast ==
    ASSUME TypeOK, decided < N
    PROVE  /\ First \in cuts
           /\ First \in decided + 1 .. N
           /\ \A c \in cuts : First <= c
<1>1. cuts \subseteq Nat /\ cuts # {} /\ cuts \subseteq decided + 1 .. N
  BY NAssumption DEF TypeOK
<1>3. PICK c \in cuts : \A d \in cuts : c <= d
  BY <1>1, LeastNumber
<1>4. First \in cuts /\ \A d \in cuts : First <= d
  BY <1>3 DEF First
<1> QED  BY <1>1, <1>4

\* The intervals that are left after a build end behind it, the last one at
\* the end of the string.
LEMMA CutsAtType ==
    ASSUME TypeOK, decided < N, NEW e \in decided + 1 .. First
    PROVE  /\ e \in decided + 1 .. N
           /\ CutsAt(e) \subseteq e .. N
           /\ N \in CutsAt(e)
<1>1. /\ First \in cuts /\ First \in decided + 1 .. N
      /\ \A c \in cuts : First <= c
  BY FirstIsLeast
<1>2. e \in decided + 1 .. N /\ cuts \subseteq decided + 1 .. N /\ N \in cuts
  BY <1>1, NAssumption DEF TypeOK
<1>3. \A c \in cuts : c \in e .. N
  BY <1>1, <1>2, NAssumption DEF TypeOK
<1> QED  BY <1>1, <1>2, <1>3, NAssumption DEF CutsAt

\* Digits at level 0 and digits that are not mentioned mean the same.
LEMMA ZerosAreDecided ==
    ASSUME TypeOK, NEW d \in decided .. N,
           \A i \in decided .. d - 1 : level[i] = 0
    PROVE  Decided(level, d) = Decided(level, decided)
BY NAssumption DEF Decided, Choice, TypeOK

LEMMA DecidedType ==
    ASSUME NEW lvl \in Assignment, NEW d
    PROVE  Decided(lvl, d) \in Assignment
BY DEF Decided, Assignment

LEMMA InitInv == Init => Inv
<1> SUFFICES ASSUME Init PROVE Inv  OBVIOUS
<1>1. level \in Assignment
  BY OptionsAssumption DEF Init, Assignment
<1>2. accepted = Decided(level, decided)
  BY NAssumption DEF Init, Decided, Choice
<1>3. accepted \in Assignment
  BY <1>1, <1>2, DecidedType
<1> QED  BY <1>1, <1>2, <1>3, NAssumption DEF Init, Inv, TypeOK, DecidedIsAccepted

LEMMA TrimInv == ASSUME Inv, Trim PROVE Inv'
<1>1. TypeOK /\ decided < N
  BY DEF Inv, Trim
<1>2. PICK d \in decided + 1 .. First :
         /\ \A i \in decided .. d - 1 : level[i] = 0
         /\ d < First => level[d] > 0
         /\ decided' = d
         /\ cuts' = cuts \ {d}
  BY DEF Trim, ZerosUpTo
<1>3. /\ First \in cuts /\ First \in decided + 1 .. N
      /\ \A c \in cuts : First <= c
  BY <1>1, FirstIsLeast
<1>4. d \in decided + 1 .. N /\ d \in decided .. N
  BY <1>1, <1>3, NAssumption DEF TypeOK
<1>5. UNCHANGED <<level, tries, accepted, searching>>
  BY DEF Trim
<1>6. cuts' \subseteq d + 1 .. N
  <2> SUFFICES ASSUME NEW c \in cuts, c # d PROVE c \in d + 1 .. N
    BY <1>2
  <2>1. c \in Int /\ d \in Int /\ c <= N /\ First <= c /\ d <= First /\ First \in Int
    BY <1>1, <1>3, NAssumption DEF TypeOK
  <2> QED  BY <2>1, NAssumption
<1>7. d < N => N \in cuts'
  BY <1>1, <1>2, NAssumption DEF TypeOK
<1>8. TypeOK'
  BY <1>1, <1>2, <1>4, <1>5, <1>6, <1>7, NAssumption DEF TypeOK
<1>9. Decided(level, d) = Decided(level, decided)
  BY <1>1, <1>2, <1>4, ZerosAreDecided
<1> QED  BY <1>2, <1>5, <1>8, <1>9 DEF Inv, DecidedIsAccepted, Decided

\* One build, for each of the three things that may come of it.
LEMMA TryAndCheckInv == ASSUME Inv, TryAndCheck PROVE Inv'
<1>1. TypeOK /\ decided < N /\ decided \in Choice /\ level[decided] > 0
  BY NAssumption DEF Inv, TryAndCheck, TypeOK, Choice
<1>2. tries' \in Nat /\ searching' \in BOOLEAN
  BY DEF Inv, TypeOK, TryAndCheck
<1>3. PICK e \in decided + 1 .. First :
         /\ IsEnd(e)
         /\ \/ AcceptUpTo(e)
            \/ e = decided + 1 /\ Lower
            \/ e > decided + 1 /\ HalveAt(e)
  BY DEF TryAndCheck
<1>4. e \in decided + 1 .. N /\ CutsAt(e) \subseteq e .. N /\ N \in CutsAt(e)
  BY <1>1, CutsAtType
<1>5. CASE AcceptUpTo(e)
  <2>1. decided' = e /\ cuts' = CutsAt(e) \ {e} /\ level' = level
        /\ accepted' = Decided(level, e)
    BY <1>5 DEF AcceptUpTo
  <2>2. cuts' \subseteq e + 1 .. N /\ (e < N => N \in cuts')
    BY <1>1, <1>4, <2>1, NAssumption DEF TypeOK
  <2>3. accepted' \in Assignment
    BY <1>1, <2>1, DecidedType DEF TypeOK
  <2>4. TypeOK'
    BY <1>1, <1>2, <1>4, <2>1, <2>2, <2>3, NAssumption DEF TypeOK
  <2> QED  BY <2>1, <2>4 DEF Inv, DecidedIsAccepted, Decided
<1>6. CASE e = decided + 1 /\ Lower
  <2>1. accepted' = accepted /\ level' = [level EXCEPT ![decided] = @ - 1]
    BY <1>6 DEF Lower
  <2>2. level' \in Assignment
    BY <1>1, <2>1 DEF TypeOK, Assignment
  <2>3. CASE level[decided] = 1
    <3>1. decided' = e /\ cuts' = CutsAt(e) \ {e}
      BY <1>6, <2>3 DEF Lower
    <3>2. cuts' \subseteq e + 1 .. N /\ (e < N => N \in cuts')
      BY <1>1, <1>4, <3>1, NAssumption DEF TypeOK
    <3>3. TypeOK'
      BY <1>1, <1>2, <1>4, <2>1, <2>2, <3>1, <3>2, NAssumption DEF TypeOK
    <3>4. Decided(level', decided') = Decided(level, decided)
      BY <1>1, <1>6, <2>1, <2>3, <3>1, NAssumption
      DEF Decided, Choice, TypeOK, Assignment
    <3> QED  BY <2>1, <3>3, <3>4 DEF Inv, DecidedIsAccepted, Decided
  <2>4. CASE level[decided] # 1
    <3>1. decided' = decided /\ cuts' = CutsAt(e)
      BY <1>6, <2>4 DEF Lower
    <3>2. cuts' \subseteq decided + 1 .. N /\ N \in cuts'
      BY <1>1, <1>4, <3>1, NAssumption DEF TypeOK
    <3>3. TypeOK'
      BY <1>1, <1>2, <2>1, <2>2, <3>1, <3>2, NAssumption DEF TypeOK
    <3>4. Decided(level', decided') = Decided(level, decided)
      BY <1>1, <2>1, <3>1, NAssumption DEF Decided, Choice, TypeOK, Assignment
    <3> QED  BY <2>1, <3>3, <3>4 DEF Inv, DecidedIsAccepted, Decided
  <2> QED  BY <2>3, <2>4
<1>7. CASE e > decided + 1 /\ HalveAt(e)
  <2>1. UNCHANGED <<level, decided, accepted>>
    BY <1>7 DEF HalveAt
  <2>2. Middle(e) \in decided + 1 .. e - 1
    BY <1>1, <1>4, <1>7, NAssumption DEF Middle, TypeOK
  <2>3. cuts' \subseteq decided + 1 .. N /\ N \in cuts'
    BY <1>1, <1>4, <1>7, <2>2, NAssumption DEF HalveAt, TypeOK
  <2>4. TypeOK'
    BY <1>1, <1>2, <2>1, <2>3 DEF TypeOK
  <2> QED  BY <2>1, <2>4 DEF Inv, DecidedIsAccepted, Decided
<1> QED  BY <1>3, <1>5, <1>6, <1>7

\* In every state the decided choices are the last build that passed
\* (try_and_check), so that the string of the script's last compilation was
\* verified before.
THEOREM FirstTunerInvariance == Spec => []Inv
<1>1. Inv /\ [Next]_vars => Inv'
  <2> SUFFICES ASSUME Inv, [Next]_vars PROVE Inv'  OBVIOUS
  <2>1. CASE Return
    BY <2>1 DEF Inv, TypeOK, DecidedIsAccepted, Decided, Return
  <2>2. CASE UNCHANGED vars
    BY <2>2 DEF Inv, TypeOK, DecidedIsAccepted, Decided, vars
  <2> QED  BY <2>1, <2>2, TrimInv, TryAndCheckInv DEF Next
<1> QED  BY <1>1, InitInv, PTL DEF Spec

\* The script's variables keep their types: intervals end after what is
\* decided, and the last one at the end of the list.
THEOREM FirstTunerTypeCorrect == Spec => []TypeOK
BY FirstTunerInvariance, PTL DEF Inv

\* Every string the script stands on passed: no choice is kept that was not
\* in an accepted build.
THEOREM StringsPassed == Spec => []DecidedIsAccepted
BY FirstTunerInvariance, PTL DEF Inv

-------------------------------------------------------------------------------

\* The first tuner keeps the promise of OptimisticSearch: skipping zeros and
\* accepting an interval confirm choices, a failure lowers one or is not seen.
THEOREM FirstTunerImplementsPromise == Spec => ImplementsPromise
<1> USE DEF Promise!Choice, Promise!Decided, Choice, Decided
<1>1. Init => Promise!Init
  BY DEF Init, Promise!Init
<1>2. Inv /\ [Next]_vars => [Promise!Next]_(Promise!vars)
  <2> SUFFICES ASSUME Inv, Next PROVE [Promise!Next]_(Promise!vars)
    BY DEF vars, Promise!vars
  <2>1. TypeOK /\ Inv'
    BY InitInv, TrimInv, TryAndCheckInv DEF Inv, Next, Return, TypeOK, DecidedIsAccepted
  <2>2. CASE Trim
    <3>1. PICK d \in decided + 1 .. First : decided' = d
      BY <2>2 DEF Trim
    <3>2. d \in decided + 1 .. N
      BY <2>1, <2>2, <3>1, FirstIsLeast, NAssumption DEF Trim, TypeOK
    <3>3. accepted' = Decided(level, d) /\ UNCHANGED <<level, searching>>
      BY <2>1, <2>2, <3>1 DEF Trim, Inv, DecidedIsAccepted
    <3> QED
      BY <2>2, <3>1, <3>2, <3>3 DEF Trim, Promise!Next, Promise!Confirm
  <2>3. CASE TryAndCheck
    <3>1. PICK e \in decided + 1 .. First :
             \/ AcceptUpTo(e)
             \/ e = decided + 1 /\ Lower
             \/ e > decided + 1 /\ HalveAt(e)
      BY <2>3 DEF TryAndCheck
    <3>2. /\ e \in decided + 1 .. N
          /\ searching /\ searching' = searching
          /\ decided < N /\ level[decided] > 0
      BY <2>1, <2>3, <3>1, FirstIsLeast, NAssumption DEF TryAndCheck, TypeOK
    <3>3. CASE AcceptUpTo(e)
      BY <3>2, <3>3 DEF AcceptUpTo, Promise!Next, Promise!Confirm
    <3>4. CASE Lower
      <4>1. level'[decided] = level[decided] - 1
        BY <2>1, <3>2, <3>4, NAssumption DEF Lower, TypeOK, Assignment
      <4>2. decided' = IF level'[decided] = 0 THEN decided + 1 ELSE decided
        BY <2>1, <3>2, <3>4, <4>1, NAssumption DEF Lower, TypeOK, Assignment
      <4> QED
        BY <3>2, <3>4, <4>1, <4>2 DEF Lower, Promise!Next, Promise!Lower
    <3>5. CASE HalveAt(e)
      BY <3>2, <3>5 DEF HalveAt, Promise!vars
    <3> QED  BY <3>1, <3>3, <3>4, <3>5
  <2>4. CASE Return
    <3>1. level = [i \in Choice |-> IF i < decided THEN level[i] ELSE 0]
      BY <2>1, <2>4, NAssumption DEF Return, TypeOK, Assignment
    <3> QED  BY <2>4, <3>1 DEF Return, Promise!Next, Promise!Return
  <2> QED  BY <2>2, <2>3, <2>4 DEF Next
<1> QED
  BY <1>1, <1>2, FirstTunerInvariance, PTL DEF Spec, ImplementsPromise

-------------------------------------------------------------------------------
(* The number of builds *)

Cost(i) == IF MaxOptions[i] > 1 THEN MaxOptions[i] ELSE 0

LEMMA CostFacts ==
    \A i \in Choice : Cost(i) \in Nat /\ (MaxOptions[i] > 1 => Cost(i) = MaxOptions[i])
BY OptionsAssumption DEF Cost

\* What the recursive definition of OptionsBefore computes.
LEMMA OptionsBeforeDef ==
    /\ OptionsBefore \in [0 .. N -> Nat]
    /\ OptionsBefore[0] = 0
    /\ \A n \in 1 .. N : OptionsBefore[n] = OptionsBefore[n - 1] + Cost(n - 1)
<1> USE NAssumption
<1> DEFINE step == [p \in Nat \X (1 .. N) |-> p[1] + Cost(p[2] - 1)]
           Sum(f) == f = [n \in 0 .. N |->
                             IF n = 0 THEN 0 ELSE f[n - 1] + Cost(n - 1)]
<1>1. step \in [Nat \X (1 .. N) -> Nat]
  <2>1. ASSUME NEW p \in Nat \X (1 .. N)
        PROVE  p[1] + Cost(p[2] - 1) \in Nat
    <3>1. p[2] - 1 \in Choice /\ p[1] \in Nat
      BY DEF Choice
    <3> QED  BY <3>1, CostFacts
  <2> QED  BY <2>1
<1>2. \A s \in Nat, n \in 1 .. N : step[<<s, n>>] = s + Cost(n - 1)
  OBVIOUS
<1> HIDE DEF step
<1>3. PICK f \in [0 .. N -> Nat] : Iterates(f, N, 0, step)
  BY <1>1, Iteration
<1>4. \A n \in 1 .. N : f[n] = f[n - 1] + Cost(n - 1)
  <2> SUFFICES ASSUME NEW n \in 1 .. N
               PROVE  f[n] = f[n - 1] + Cost(n - 1)
    OBVIOUS
  <2>1. f[n - 1] \in Nat  OBVIOUS
  <2> QED  BY <1>2, <1>3, <2>1 DEF Iterates
<1>5. Sum(f)
  <2>1. \A n \in 0 .. N :
           f[n] = IF n = 0 THEN 0 ELSE f[n - 1] + Cost(n - 1)
    BY <1>3, <1>4 DEF Iterates
  <2> QED  BY <2>1
<1>6. Sum(OptionsBefore)
  <2>1. OptionsBefore = CHOOSE g : Sum(g)
    BY DEF OptionsBefore, Cost
  <2> HIDE DEF Sum
  <2> QED  BY <1>5, <2>1
<1>7. /\ DOMAIN OptionsBefore = 0 .. N
      /\ OptionsBefore[0] = 0
      /\ \A n \in 1 .. N : OptionsBefore[n] = OptionsBefore[n - 1] + Cost(n - 1)
      /\ OptionsBefore = [n \in 0 .. N |-> OptionsBefore[n]]
  <2> DEFINE g == OptionsBefore
  <2>1. g = [n \in 0 .. N |-> IF n = 0 THEN 0 ELSE g[n - 1] + Cost(n - 1)]
    BY <1>6
  <2> HIDE DEF g
  <2>2. DOMAIN g = 0 .. N /\ g = [n \in 0 .. N |-> g[n]]
    BY <2>1
  <2>3. \A n \in 0 .. N : g[n] = IF n = 0 THEN 0 ELSE g[n - 1] + Cost(n - 1)
    BY <2>1, Zenon
  <2>4. g[0] = 0 /\ \A n \in 1 .. N : g[n] = g[n - 1] + Cost(n - 1)
    BY <2>3
  <2> QED  BY <2>2, <2>4 DEF g
<1>8. \A n \in 0 .. N : OptionsBefore[n] \in Nat
  <2> DEFINE S == {n \in 0 .. N : OptionsBefore[n] \in Nat}
  <2>1. 0 \in S
    BY <1>7
  <2>2. ASSUME NEW n \in Nat, n < N, n \in S PROVE n + 1 \in S
    <3>1. n + 1 \in 1 .. N /\ n \in Choice /\ (n + 1) - 1 = n
      BY <2>2 DEF Choice
    <3>2. OptionsBefore[n + 1] = OptionsBefore[n] + Cost(n)
      BY <1>7, <3>1
    <3>3. Cost(n) \in Nat
      BY <3>1, CostFacts
    <3> QED  BY <2>2, <3>1, <3>2, <3>3
  <2> HIDE DEF S
  <2>3. \A n \in 0 .. N : n \in S
    BY <2>1, <2>2, InductUpTo
  <2> QED  BY <2>3 DEF S
<1> QED  BY <1>7, <1>8

LEMMA OptionsBeforeGrows ==
    \A m, n \in 0 .. N : m <= n => OptionsBefore[m] <= OptionsBefore[n]
<1> USE NAssumption
<1> SUFFICES ASSUME NEW m \in 0 .. N
             PROVE  \A n \in 0 .. N : m <= n => OptionsBefore[m] <= OptionsBefore[n]
  OBVIOUS
<1> DEFINE S == {n \in 0 .. N : m <= n => OptionsBefore[m] <= OptionsBefore[n]}
<1>1. 0 \in S
  BY OptionsBeforeDef
<1>2. ASSUME NEW n \in Nat, n < N, n \in S PROVE n + 1 \in S
  <2>1. n + 1 \in 1 .. N /\ n + 1 \in 0 .. N /\ n \in Choice /\ (n + 1) - 1 = n
    BY <1>2 DEF Choice
  <2>2. /\ OptionsBefore[n + 1] = OptionsBefore[n] + Cost(n)
        /\ Cost(n) \in Nat /\ OptionsBefore[n] \in Nat /\ OptionsBefore[m] \in Nat
    BY <1>2, <2>1, OptionsBeforeDef, CostFacts
  <2>3. CASE m <= n
    BY <1>2, <2>1, <2>2, <2>3
  <2>4. CASE ~ (m <= n)
    BY <2>1, <2>2, <2>4
  <2> QED  BY <2>3, <2>4
<1> HIDE DEF S
<1>3. \A n \in 0 .. N : n \in S
  BY <1>1, <1>2, InductUpTo
<1> QED  BY <1>3 DEF S

\* What the recursive definition of Halvings computes.
LEMMA HalvingsDef ==
    /\ Halvings \in [0 .. N -> Nat]
    /\ \A n \in 0 .. N :
          Halvings[n] = IF n < MergeLength THEN 0 ELSE 1 + Halvings[n \div 2]
<1> USE NAssumption, MergeAssumption
<1> DEFINE X == [0 .. N -> Nat]
           value(t, n) == IF n < MergeLength THEN 0 ELSE 1 + t[n \div 2]
           base == [n \in 0 .. N |-> 0]
           step == [p \in X \X (1 .. N) |->
                       [p[1] EXCEPT ![p[2]] = value(p[1], p[2])]]
           Solves(g) == g = [n \in 0 .. N |-> value(g, n)]
<1>1. \A n \in 0 .. N : n \div 2 \in 0 .. N /\ (n > 0 => n \div 2 < n)
  OBVIOUS
<1>2. \A t \in X, n \in 0 .. N : value(t, n) \in Nat
  <2> SUFFICES ASSUME NEW t \in X, NEW n \in 0 .. N PROVE value(t, n) \in Nat
    OBVIOUS
  <2>1. t[n \div 2] \in Nat
    BY <1>1
  <2> QED  BY <2>1
<1>3. base \in X
  OBVIOUS
<1>4. \A t \in X, n \in 1 .. N : [t EXCEPT ![n] = value(t, n)] \in X
  <2> HIDE DEF value
  <2> QED  BY <1>2
<1>5. step \in [X \X (1 .. N) -> X]
  <2> HIDE DEF value, X
  <2> QED  BY <1>4
<1>6. \A t \in X, n \in 1 .. N : step[<<t, n>>] = [t EXCEPT ![n] = value(t, n)]
  <2> HIDE DEF value, X
  <2> QED  OBVIOUS
<1> HIDE DEF base, step, X
<1>7. PICK f \in [0 .. N -> X] : Iterates(f, N, base, step)
  BY <1>3, <1>5, Iteration
<1> DEFINE Good == {k \in 0 .. N : \A n \in 0 .. k : f[k][n] = value(f[k], n)}
<1>8. 0 \in Good
  <2>1. f[0] = base
    BY <1>7 DEF Iterates
  <2> QED  BY <2>1 DEF base
<1>9. ASSUME NEW k \in Nat, k < N, k \in Good PROVE k + 1 \in Good
  <2>1. k + 1 \in 1 .. N /\ k \in 0 .. N /\ (k + 1) - 1 = k
    BY <1>9
  <2> DEFINE t == f[k]
             u == f[k + 1]
  <2>2. t \in X /\ u = [t EXCEPT ![k + 1] = value(t, k + 1)]
    <3> HIDE DEF value
    <3> QED  BY <1>6, <1>7, <2>1 DEF Iterates
  <2>3. \A n \in 0 .. k : t[n] = value(t, n)
    BY <1>9
  <2> HIDE DEF t, u
  <2>4. \A n \in 0 .. N : u[n] = IF n = k + 1 THEN value(t, k + 1) ELSE t[n]
    <3> HIDE DEF value
    <3> QED  BY <2>2 DEF X
  <2>5. \A n \in 0 .. k + 1 : MergeLength <= n => n \div 2 \in 0 .. k /\ n \div 2 \in 0 .. N
    BY <2>1
  <2>6. \A n \in 0 .. k + 1 : value(u, n) = value(t, n)
    <3> SUFFICES ASSUME NEW n \in 0 .. k + 1, MergeLength <= n
                 PROVE  u[n \div 2] = t[n \div 2]
      OBVIOUS
    <3> DEFINE h == n \div 2
    <3>1. h \in 0 .. N /\ h \in 0 .. k
      BY <2>5
    <3> HIDE DEF h
    <3>2. h # k + 1
      BY <2>1, <3>1
    <3> QED  BY <2>4, <3>1, <3>2 DEF h
  <2> HIDE DEF value
  <2>7. \A n \in 0 .. k + 1 : u[n] = value(u, n)
    <3> SUFFICES ASSUME NEW n \in 0 .. k + 1 PROVE u[n] = value(u, n)  OBVIOUS
    <3>1. n \in 0 .. N /\ (n = k + 1 \/ n \in 0 .. k)
      BY <2>1
    <3> QED  BY <2>1, <2>3, <2>4, <2>6, <3>1
  <2>8. k + 1 \in 0 .. N
    BY <2>1
  <2> QED  BY <2>7, <2>8 DEF u
<1> HIDE DEF Good
<1>10. \A k \in 0 .. N : k \in Good
  BY <1>8, <1>9, InductUpTo
<1>11. Solves(f[N])
  <2>1. N \in Good /\ f[N] \in X
    BY <1>10
  <2> HIDE DEF value
  <2>2. \A n \in 0 .. N : f[N][n] = value(f[N], n)
    BY <2>1 DEF Good
  <2> QED  BY <2>1, <2>2 DEF X
<1>12. Solves(Halvings)
  <2>1. Halvings = CHOOSE g : Solves(g)
    BY DEF Halvings
  <2> HIDE DEF Solves
  <2> QED  BY <1>11, <2>1
<1> DEFINE g == Halvings
<1>13. g = [n \in 0 .. N |-> value(g, n)]
  BY <1>12
<1> HIDE DEF g
<1>14. /\ g = [n \in 0 .. N |-> g[n]]
       /\ \A n \in 0 .. N : g[n] = value(g, n)
  <2> HIDE DEF value
  <2> QED  BY <1>13
<1> DEFINE S == {k \in 0 .. N : \A n \in 0 .. k : g[n] \in Nat}
<1>15. 0 \in S
  <2>1. 0 \in 0 .. N /\ \A n \in 0 .. 0 : n = 0
    OBVIOUS
  <2>2. g[0] = 0
    BY <1>14, <2>1
  <2> QED  BY <2>1, <2>2
<1>16. ASSUME NEW k \in Nat, k < N, k \in S PROVE k + 1 \in S
  <2>1. k + 1 \in 0 .. N /\ (\A n \in 0 .. k + 1 : n \in 0 .. k \/ n = k + 1)
        /\ (k + 1) \div 2 \in 0 .. k
    BY <1>16
  <2>2. g[k + 1] = value(g, k + 1)
    BY <1>14, <2>1
  <2>3. g[(k + 1) \div 2] \in Nat
    BY <1>16, <2>1
  <2>4. g[k + 1] \in Nat
    BY <2>2, <2>3
  <2> QED  BY <1>16, <2>1, <2>4
<1> HIDE DEF S
<1>17. \A k \in 0 .. N : k \in S
  BY <1>15, <1>16, InductUpTo
<1>18. N \in S
  BY <1>17
<1>19. g \in [0 .. N -> Nat]
  BY <1>14, <1>18 DEF S
<1> QED  BY <1>14, <1>19 DEF g

LEMMA HalvingsGrows ==
    \A m, n \in 0 .. N : m <= n => Halvings[m] <= Halvings[n]
<1> USE NAssumption, MergeAssumption
<1> DEFINE S == {k \in 0 .. N : \A m, n \in 0 .. k : m <= n => Halvings[m] <= Halvings[n]}
<1>1. 0 \in S
  BY HalvingsDef
<1>2. ASSUME NEW k \in Nat, k < N, k \in S PROVE k + 1 \in S
  <2>1. k + 1 \in 0 .. N
    BY <1>2
  <2> SUFFICES ASSUME NEW m \in 0 .. k + 1, NEW n \in 0 .. k + 1, m <= n
               PROVE  Halvings[m] <= Halvings[n]
    BY <2>1
  <2>2. m \in 0 .. N /\ n \in 0 .. N /\ Halvings[m] \in Nat /\ Halvings[n] \in Nat
    BY <1>2, HalvingsDef
  <2>3. CASE m < MergeLength
    <3>1. Halvings[m] = 0
      BY <2>2, <2>3, HalvingsDef
    <3> QED  BY <2>2, <3>1
  <2>4. CASE MergeLength <= m
    <3>1. /\ m \div 2 \in 0 .. k /\ n \div 2 \in 0 .. k
          /\ m \div 2 <= n \div 2 /\ MergeLength <= n
      BY <2>4
    <3>2. Halvings[m \div 2] <= Halvings[n \div 2]
      BY <1>2, <3>1
    <3>3. Halvings[m \div 2] \in Nat /\ Halvings[n \div 2] \in Nat
      BY <1>2, <3>1, HalvingsDef
    <3>4. Halvings[m] = 1 + Halvings[m \div 2] /\ Halvings[n] = 1 + Halvings[n \div 2]
      BY <2>2, <2>4, <3>1, HalvingsDef
    <3> QED  BY <3>2, <3>3, <3>4
  <2> QED  BY <2>2, <2>3, <2>4
<1> HIDE DEF S
<1>3. \A k \in 0 .. N : k \in S
  BY <1>1, <1>2, InductUpTo
<1>4. N \in S
  BY <1>3
<1> QED  BY <1>4 DEF S

LEMMA Quotients ==
    ASSUME NEW h \in Nat, NEW r \in Nat, NEW k \in Nat \ {0}, NEW n \in Nat, r * k <= n
    PROVE  n \div k \in Nat /\ h * (n \div k) \in Nat /\ h * r \in Nat
           /\ h * r <= h * (n \div k)
<1> DEFINE q == n \div k
<1>1. q \in Nat /\ n < k * (q + 1)
  OBVIOUS
<1> HIDE DEF q
<1>2. r <= q
  <2> SUFFICES ASSUME r >= q + 1 PROVE FALSE
    BY <1>1
  <2>1. r * k >= (q + 1) * k
    BY <1>1
  <2> QED  BY <1>1, <2>1
<1>3. h * r <= h * q /\ h * r \in Nat /\ h * q \in Nat
  BY <1>1, <1>2
<1> QED  BY <1>1, <1>3 DEF q

\* Sets of positions are finite; giving up a position loses one, a new one
\* makes up for it.
LEMMA SetsOfEnds ==
    ASSUME NEW S, NEW T, NEW m \in Nat, S \subseteq 0 .. m, T \subseteq 0 .. m
    PROVE  /\ Cardinality(S) \in Nat /\ Cardinality(T) \in Nat
           /\ S \subseteq T => Cardinality(S) <= Cardinality(T)
           /\ \A x : S \ {x} \subseteq T => Cardinality(S) - 1 <= Cardinality(T)
           /\ \A x, y : y \notin S /\ y \in T /\ S \ {x} \subseteq T
                           => Cardinality(S) <= Cardinality(T)
           /\ \A y : y \notin S /\ y \in T /\ S \subseteq T
                        => Cardinality(S) + 1 <= Cardinality(T)
<1>1. IsFiniteSet(0 .. m)
  BY FS_Interval
<1>2. IsFiniteSet(S) /\ IsFiniteSet(T)
  BY <1>1, FS_Subset
<1>3. Cardinality(S) \in Nat /\ Cardinality(T) \in Nat
  BY <1>2, FS_CardinalityType
<1>4. ASSUME S \subseteq T PROVE Cardinality(S) <= Cardinality(T)
  BY <1>2, <1>4, FS_Subset
<1>5. \A x : /\ IsFiniteSet(S \ {x})
             /\ Cardinality(S \ {x})
                   = IF x \in S THEN Cardinality(S) - 1 ELSE Cardinality(S)
  BY <1>2, FS_RemoveElement, Zenon
<1>6. \A x : Cardinality(S \ {x}) >= Cardinality(S) - 1 /\ Cardinality(S \ {x}) \in Nat
  <2> SUFFICES ASSUME NEW x
               PROVE  Cardinality(S \ {x}) >= Cardinality(S) - 1
                         /\ Cardinality(S \ {x}) \in Nat
    OBVIOUS
  <2>1. Cardinality(S \ {x}) \in Nat
    BY <1>5, FS_CardinalityType
  <2> QED  BY <1>3, <1>5, <2>1
<1>7. ASSUME NEW x, S \ {x} \subseteq T PROVE Cardinality(S) - 1 <= Cardinality(T)
  <2>1. Cardinality(S \ {x}) <= Cardinality(T)
    BY <1>2, <1>7, FS_Subset
  <2> DEFINE less == Cardinality(S \ {x})
  <2>2. less >= Cardinality(S) - 1 /\ less \in Nat
    BY <1>6
  <2> HIDE DEF less
  <2>3. less <= Cardinality(T)
    BY <2>1 DEF less
  <2> QED  BY <1>3, <2>2, <2>3
<1>8. ASSUME NEW R, IsFiniteSet(R), NEW y, y \notin R, y \in T, R \subseteq T
      PROVE  Cardinality(R) + 1 <= Cardinality(T)
  <2>1. Cardinality(R \cup {y}) = Cardinality(R) + 1
    BY <1>8, FS_AddElement
  <2>2. R \cup {y} \subseteq T
    BY <1>8
  <2>3. Cardinality(R \cup {y}) <= Cardinality(T)
    BY <1>2, <2>2, FS_Subset
  <2> QED  BY <2>1, <2>3
<1>9. ASSUME NEW x, NEW y, y \notin S, y \in T, S \ {x} \subseteq T
      PROVE  Cardinality(S) <= Cardinality(T)
  <2>1. Cardinality(S \ {x}) + 1 <= Cardinality(T)
    BY <1>5, <1>8, <1>9
  <2> DEFINE less == Cardinality(S \ {x})
  <2>2. less >= Cardinality(S) - 1 /\ less \in Nat
    BY <1>6
  <2> HIDE DEF less
  <2>3. less + 1 <= Cardinality(T)
    BY <2>1 DEF less
  <2> QED  BY <1>3, <2>2, <2>3
<1>10. ASSUME NEW y, y \notin S, y \in T, S \subseteq T
       PROVE  Cardinality(S) + 1 <= Cardinality(T)
  BY <1>2, <1>8, <1>10
<1> QED  BY <1>3, <1>4, <1>7, <1>9, <1>10

\* The options of the choices before them pay for the ends of intervals.
LEMMA EndsPaid ==
    ASSUME NEW m \in 0 .. N, NEW S, S \subseteq m + 1 .. N,
           \A c \in S : MaxOptions[c - 1] > 1
    PROVE  OptionsBefore[m] + Cardinality(S) <= OptionsBefore[N]
<1> USE NAssumption
<1> DEFINE upto(n) == {c \in S : c <= n}
           Good == {n \in 0 .. N : m <= n =>
                        OptionsBefore[m] + Cardinality(upto(n)) <= OptionsBefore[n]}
<1>0. \A c \in S : c \in m + 1 .. N /\ c \in 0 .. N /\ c <= N /\ ~ (c <= m)
  OBVIOUS
<1>1. S \subseteq 0 .. N /\ \A n : upto(n) \subseteq 0 .. N
  BY <1>0
<1>2. \A n \in 0 .. N : Cardinality(upto(n)) \in Nat
  BY <1>1, SetsOfEnds
<1>3. \A n \in 0 .. N : OptionsBefore[n] \in Nat
  BY OptionsBeforeDef
<1>4. \A n \in 0 .. N : n = m => OptionsBefore[m] + Cardinality(upto(n)) <= OptionsBefore[n]
  <2>1. upto(m) = {}
    <3>1. \A c : c \notin upto(m)
      BY <1>0, Zenon
    <3> HIDE DEF upto
    <3> QED  BY <3>1
  <2>2. Cardinality(upto(m)) = 0
    BY <2>1, FS_EmptySet
  <2> QED  BY <1>3, <2>2
<1>5. 0 \in Good
  BY <1>4
<1>6. ASSUME NEW n \in Nat, n < N, n \in Good PROVE n + 1 \in Good
  <2>1. n + 1 \in 0 .. N /\ n + 1 \in 1 .. N /\ n \in 0 .. N /\ n \in Choice
        /\ (n + 1) - 1 = n
    BY <1>6 DEF Choice
  <2>2. CASE n + 1 = m
    BY <1>4, <2>1, <2>2
  <2>3. CASE m > n + 1
    BY <2>1, <2>3
  <2>4. CASE m <= n
    <3>1. OptionsBefore[m] + Cardinality(upto(n)) <= OptionsBefore[n]
      BY <1>6, <2>4
    <3>2. OptionsBefore[n + 1] = OptionsBefore[n] + Cost(n) /\ Cost(n) \in Nat
      BY <2>1, OptionsBeforeDef, CostFacts
    <3>3. CASE n + 1 \in S
      <4>1. MaxOptions[n] > 1 /\ Cost(n) = MaxOptions[n] /\ MaxOptions[n] \in Nat
        BY <2>1, <3>3, CostFacts, OptionsAssumption
      <4>2. upto(n + 1) \ {n + 1} \subseteq upto(n)
        BY <1>1, <2>1
      <4>3. Cardinality(upto(n + 1)) - 1 <= Cardinality(upto(n))
        <5> HIDE DEF upto
        <5> QED  BY <1>1, <4>2, SetsOfEnds
      <4> HIDE DEF upto
      <4> QED  BY <1>2, <1>3, <2>1, <3>1, <3>2, <4>1, <4>3
    <3>4. CASE n + 1 \notin S
      <4>1. upto(n + 1) = upto(n)
        BY <1>1, <2>1, <3>4
      <4> HIDE DEF upto
      <4> QED  BY <1>2, <1>3, <2>1, <3>1, <3>2, <4>1
    <3> QED  BY <3>3, <3>4
  <2> QED  BY <2>1, <2>2, <2>3, <2>4
<1> HIDE DEF Good
<1>7. \A n \in 0 .. N : n \in Good
  BY <1>5, <1>6, InductUpTo
<1>8. N \in Good
  BY <1>7
<1>9. upto(N) = S
  <2>1. \A c : c \in upto(N) <=> c \in S
    BY <1>0, Zenon
  <2> HIDE DEF upto
  <2> QED  BY <2>1
<1> QED  BY <1>8, <1>9 DEF Good

LEMMA LengthFacts ==
    /\ HalfLength \in Nat \ {0} /\ MergeLength \in Nat /\ HalfLength < MergeLength
    /\ Halvings[N] \in Nat
    /\ \A n \in 0 .. N :
          /\ Halvings[n] \in Nat /\ Halvings[n] <= Halvings[N]
          /\ n >= MergeLength => /\ n \div 2 \in 0 .. N /\ n \div 2 >= HalfLength
                                 /\ Halvings[n] = 1 + Halvings[n \div 2]
<1> USE NAssumption, MergeAssumption
<1>1. HalfLength \in Nat \ {0} /\ MergeLength \in Nat /\ HalfLength < MergeLength
  BY DEF HalfLength
<1>2. N \in 0 .. N /\ Halvings[N] \in Nat
  BY HalvingsDef
<1>3. \A n \in 0 .. N : Halvings[n] \in Nat /\ Halvings[n] <= Halvings[N]
  BY <1>2, HalvingsDef, HalvingsGrows
<1>4. \A n \in 0 .. N :
         n >= MergeLength => n \div 2 \in 0 .. N /\ n \div 2 >= HalfLength
  BY DEF HalfLength
<1>5. \A n \in 0 .. N : n >= MergeLength => Halvings[n] = 1 + Halvings[n \div 2]
  BY HalvingsDef
<1> QED  BY <1>1, <1>2, <1>3, <1>4, <1>5

\* The least position of a set is its first.
LEMMA LeastIsFirst ==
    ASSUME NEW C, NEW c \in C, C \subseteq Nat, \A d \in C : c <= d
    PROVE  (CHOOSE x \in C : \A d \in C : x <= d) = c
<1> DEFINE x == CHOOSE x \in C : \A d \in C : x <= d
<1>1. x \in C /\ \A d \in C : x <= d
  OBVIOUS
<1> HIDE DEF x
<1>2. x <= c /\ c <= x /\ x \in Nat /\ c \in Nat
  BY <1>1
<1>3. x = c
  BY <1>2
<1> QED  BY <1>3 DEF x

\* Cutting at the end of a build gives up no more ends than it adds.
LEMMA CutsAtEnds ==
    ASSUME TypeOK, decided < N, NEW e \in decided + 1 .. First
    PROVE  LET D == CutsAt(e) \ {N}
           IN  /\ Ends \subseteq 0 .. N /\ D \subseteq 0 .. N
               /\ \A c \in D : c \in Ends \/ c = e
               /\ Cardinality(Ends) <= Cardinality(D)
               /\ Cardinality(Ends) - 1 <= Cardinality(D \ {e})
               /\ Cardinality(D) - 1 <= Cardinality(D \ {e})
               /\ e = First => CutsAt(e) = cuts
<1> USE NAssumption
<1> DEFINE D == CutsAt(e) \ {N}
<1>1. /\ First \in cuts /\ First \in decided + 1 .. N
      /\ \A c \in cuts : First <= c
  BY FirstIsLeast
<1>2. e \in decided + 1 .. N /\ CutsAt(e) \subseteq e .. N /\ decided \in 0 .. N
      /\ cuts \subseteq decided + 1 .. N
  BY CutsAtType DEF TypeOK
<1>3. Ends \subseteq 0 .. N /\ D \subseteq 0 .. N /\ D \ {e} \subseteq 0 .. N
  BY <1>2 DEF Ends
<1>4. Cardinality(Ends) \in Nat /\ Cardinality(D) \in Nat /\ Cardinality(D \ {e}) \in Nat
  BY <1>3, SetsOfEnds
<1>5. CASE e = First
  <2>1. CutsAt(e) = cuts
    BY <1>5 DEF CutsAt
  <2>2. D = Ends
    BY <2>1 DEF Ends
  <2>3. Ends \ {e} \subseteq D \ {e}
    BY <2>2
  <2>4. Cardinality(Ends) - 1 <= Cardinality(D \ {e})
    BY <1>3, <2>3, SetsOfEnds
  <2>5. Cardinality(Ends) <= Cardinality(D)
    BY <1>4, <2>2
  <2>6. \A c \in D : c \in Ends
    BY <2>2
  <2> HIDE DEF D
  <2> QED  BY <1>3, <2>1, <2>2, <2>4, <2>5, <2>6 DEF D
<1>6. CASE e # First
  <2>1. e < First /\ e # N /\ e \notin cuts
    BY <1>1, <1>2, <1>6
  <2>2. CutsAt(e) = (cuts \ ({First} \ {N})) \cup {e}
    BY <1>6 DEF CutsAt
  <2>3. /\ Ends \ {First} \subseteq D /\ e \in D /\ e \notin Ends
        /\ \A c \in D : c \in Ends \/ c = e
    BY <2>1, <2>2 DEF Ends
  <2>4. Ends \ {First} \subseteq D \ {e}
    BY <2>3
  <2>5. D \ {e} \subseteq D \ {e} /\ D \ {e} \subseteq D
    OBVIOUS
  <2> HIDE DEF D
  <2>6. Cardinality(Ends) <= Cardinality(D)
    BY <1>3, <2>3, SetsOfEnds
  <2>7. Cardinality(Ends) - 1 <= Cardinality(D \ {e})
    BY <1>3, <2>4, SetsOfEnds
  <2>8. Cardinality(D) - 1 <= Cardinality(D \ {e})
    BY <1>3, <2>5, SetsOfEnds
  <2> QED  BY <1>3, <1>6, <2>3, <2>6, <2>7, <2>8 DEF D
<1> QED  BY <1>5, <1>6

\* What is known of the levels that were not tried.
LEMMA LevelFacts ==
    ASSUME TypeOK, EffortInv, decided < N
    PROVE  /\ decided \in Choice /\ decided + 1 \in 0 .. N
           /\ \A i \in Choice : MaxOptions[i] \in Nat /\ MaxOptions[i] >= 1 /\ level[i] \in Nat
           /\ \A i \in Choice :
                 i >= decided => (level[i] = 0 => MaxOptions[i] = 1)
                                    /\ level[i] < MaxOptions[i]
           /\ OptionsBefore[decided] \in Nat /\ OptionsBefore[decided + 1] \in Nat
           /\ OptionsBefore[decided + 1] = OptionsBefore[decided] + Cost(decided)
           /\ Lost = MaxOptions[decided] - 1 - level[decided] /\ Lost \in Nat
           /\ Cardinality(Ends) \in Nat
<1> USE NAssumption
<1>1. decided \in Choice /\ decided + 1 \in 0 .. N /\ decided + 1 \in 1 .. N /\ decided \in 0 .. N
      /\ (decided + 1) - 1 = decided
  BY DEF TypeOK, Choice
<1>2. \A i \in Choice : MaxOptions[i] \in Nat /\ MaxOptions[i] >= 1 /\ level[i] \in Nat
  BY OptionsAssumption DEF TypeOK, Assignment
<1>3. ASSUME NEW i \in Choice, i >= decided
      PROVE  (level[i] = 0 => MaxOptions[i] = 1) /\ level[i] < MaxOptions[i]
  <2>1. CASE i = decided
    BY <2>1 DEF EffortInv
  <2>2. CASE i # decided
    <3>1. i > decided
      BY <1>1, <1>3, <2>2 DEF Choice
    <3>2. level[i] = MaxOptions[i] - 1
      BY <3>1 DEF EffortInv
    <3> QED  BY <1>2, <3>2
  <2> QED  BY <2>1, <2>2
<1>4. /\ OptionsBefore[decided] \in Nat /\ OptionsBefore[decided + 1] \in Nat
      /\ OptionsBefore[decided + 1] = OptionsBefore[decided] + Cost(decided)
  BY <1>1, OptionsBeforeDef
<1>5. Lost = MaxOptions[decided] - 1 - level[decided] /\ Lost \in Nat
  <2>1. level[decided] < MaxOptions[decided]
    BY <1>1, <1>3
  <2> QED  BY <1>1, <1>2, <2>1 DEF Lost
<1>6. Cardinality(Ends) \in Nat
  <2>1. Ends \subseteq 0 .. N
    BY DEF Ends, TypeOK
  <2> QED  BY <2>1, SetsOfEnds
<1> QED  BY <1>1, <1>2, <1>3, <1>4, <1>5, <1>6

LEMMA Products ==
    \A r \in Nat :
        /\ Halvings[N] * r \in Nat /\ r * HalfLength \in Nat
        /\ Halvings[N] * (r + 1) = Halvings[N] * r + Halvings[N]
        /\ (r + 1) * HalfLength = r * HalfLength + HalfLength
        /\ r * HalfLength <= N => r \in 0 .. N
<1> USE NAssumption
<1> SUFFICES ASSUME NEW r \in Nat
             PROVE  /\ Halvings[N] * r \in Nat /\ r * HalfLength \in Nat
                    /\ Halvings[N] * (r + 1) = Halvings[N] * r + Halvings[N]
                    /\ (r + 1) * HalfLength = r * HalfLength + HalfLength
                    /\ r * HalfLength <= N => r \in 0 .. N
  OBVIOUS
<1> DEFINE h == Halvings[N]
           k == HalfLength
<1>1. h \in Nat /\ k \in Nat /\ k >= 1
  BY LengthFacts
<1> HIDE DEF h, k
<1>2. h * r \in Nat /\ r * k \in Nat /\ h * (r + 1) = h * r + h
      /\ (r + 1) * k = r * k + k
  BY <1>1
<1>3. r <= r * k
  BY <1>1
<1>4. r * k <= N => r \in 0 .. N
  BY <1>2, <1>3
<1> QED  BY <1>2, <1>4 DEF h, k

\* A step that spends what it adds to the builds keeps the account: an interval
\* that was settled stays so, one that is decided up to its end is settled.
Pays ==
    /\ tries \in Nat /\ tries' \in Nat /\ Spent \in Nat /\ Spent' \in Nat
    /\ tries' - tries <= Spent' - Spent

LEMMA Pay ==
    ASSUME tries \in Nat, Spent \in Nat, Spent' \in Nat,
           \/ tries' = tries /\ Spent <= Spent'
           \/ tries' = tries + 1 /\ Spent + 1 <= Spent'
    PROVE  Pays
<1> DEFINE u == Spent
           v == Spent'
           s == tries
           t == tries'
<1>1. /\ u \in Nat /\ v \in Nat /\ s \in Nat
      /\ (t = s /\ u <= v) \/ (t = s + 1 /\ u + 1 <= v)
  OBVIOUS
<1> HIDE DEF u, v, s, t
<1>2. t \in Nat /\ t - s <= v - u
  BY <1>1
<1> QED  BY <1>1, <1>2 DEF Pays, u, v, s, t

LEMMA PaidStep ==
    ASSUME Pays, NEW x \in Nat, tries <= Spent + x
    PROVE  tries' <= Spent' + x
<1> DEFINE u == Spent
           v == Spent'
           s == tries
           t == tries'
<1>1. u \in Nat /\ v \in Nat /\ s \in Nat /\ t \in Nat /\ t - s <= v - u /\ s <= u + x
  BY DEF Pays
<1> HIDE DEF u, v, s, t
<1>2. t <= v + x
  BY <1>1
<1> QED  BY <1>2 DEF t, v

LEMMA SettledStays ==
    ASSUME Pays, NEW r \in Nat, Settled(r), decided \in Nat, decided' \in Nat,
           decided <= decided'
    PROVE  Settled(r)'
<1> DEFINE a == Halvings[N] * r
           b == r * HalfLength
<1>1. a \in Nat /\ b \in Nat /\ tries <= Spent + a /\ b <= decided
  BY Products DEF Settled
<1> HIDE DEF a, b
<1>2. tries' <= Spent' + a
  BY <1>1, PaidStep
<1>3. b <= decided'
  BY <1>1
<1> QED  BY <1>2, <1>3 DEF Settled, a, b

LEMMA ShortStays ==
    ASSUME Pays, NEW r \in Nat, NEW c \in Nat, decided' \in Nat,
           tries <= Spent + Halvings[N] * r, r * HalfLength <= c,
           c = decided' \/ (c \in cuts' /\ c - decided' < MergeLength /\ NoZeros(c)')
    PROVE  Settled(r)' \/ Short(r)'
<1> DEFINE a == Halvings[N] * r
<1>1. a \in Nat /\ tries <= Spent + a
  BY Products
<1> HIDE DEF a
<1>2. tries' <= Spent' + a
  BY <1>1, PaidStep
<1>3. CASE c = decided'
  BY <1>2, <1>3 DEF Settled, a
<1>4. CASE c \in cuts' /\ c - decided' < MergeLength /\ NoZeros(c)'
  BY <1>2, <1>4 DEF Short, a
<1> QED  BY <1>3, <1>4

LEMMA InitEffort == Init => EffortInv
<1> SUFFICES ASSUME Init PROVE EffortInv  OBVIOUS
<1> USE NAssumption DEF Init
<1>1. \A i \in Choice : /\ MaxOptions[i] \in Nat /\ MaxOptions[i] >= 1
                        /\ level[i] = MaxOptions[i] - 1
  BY OptionsAssumption
<1>2. 0 \in Choice /\ decided = 0 /\ 0 \in 0 .. N
  BY DEF Choice
<1>3. level[0] < MaxOptions[0] /\ (level[0] = 0 => MaxOptions[0] = 1)
  BY <1>1, <1>2
<1>4. Ends = {} /\ Cardinality(Ends) = 0
  <2>1. Ends = {}
    BY DEF Ends
  <2> QED  BY <2>1, FS_EmptySet
<1>5. Settled(0)
  <2>1. Halvings[N] * 0 = 0 /\ 0 * HalfLength = 0
    <3>1. Halvings[N] \in Nat /\ HalfLength \in Nat
      BY LengthFacts
    <3> QED  BY <3>1
  <2>2. Lost = 0
    BY <1>1, <1>2 DEF Lost
  <2>3. Spent = 0
    BY <1>2, <1>4, <2>2, OptionsBeforeDef DEF Spent
  <2> QED  BY <2>1, <2>3 DEF Settled
<1> QED  BY <1>1, <1>2, <1>3, <1>4, <1>5 DEF EffortInv

LEMMA TrimEffort == ASSUME Inv, EffortInv, Trim PROVE EffortInv'
<1> USE NAssumption
<1>1. TypeOK /\ decided < N /\ level[decided] = 0
  BY DEF Inv, Trim
<1>2. PICK d \in decided + 1 .. First :
         /\ \A i \in decided .. d - 1 : level[i] = 0
         /\ d < First => level[d] > 0
         /\ decided' = d
         /\ cuts' = cuts \ {d}
  BY DEF Trim, ZerosUpTo
<1>3. level' = level /\ tries' = tries /\ tries \in Nat
  BY <1>1 DEF Trim, TypeOK
<1>4. /\ First \in cuts /\ First \in decided + 1 .. N
      /\ \A c \in cuts : First <= c /\ c \in decided + 1 .. N
  BY <1>1, FirstIsLeast DEF TypeOK
<1>5. d \in decided + 1 .. N /\ decided \in 0 .. N /\ d - 1 \in Choice
      /\ d - 1 \in decided .. d - 1 /\ d - 1 >= decided /\ d > decided
  BY <1>1, <1>4 DEF TypeOK, Choice
<1>6. /\ decided \in Choice
      /\ \A i \in Choice : MaxOptions[i] \in Nat /\ MaxOptions[i] >= 1 /\ level[i] \in Nat
      /\ \A i \in Choice : i >= decided => (level[i] = 0 => MaxOptions[i] = 1)
      /\ OptionsBefore[decided] \in Nat /\ Lost = MaxOptions[decided] - 1 - level[decided]
      /\ Cardinality(Ends) \in Nat
  BY <1>1, LevelFacts
<1>7. \A i \in Choice : i > decided => level[i] = MaxOptions[i] - 1
  BY DEF EffortInv
<1>8. d \notin Ends
  <2> SUFFICES ASSUME d \in Ends PROVE FALSE  OBVIOUS
  <2>1. MaxOptions[d - 1] > 1
    BY DEF EffortInv
  <2>2. MaxOptions[d - 1] = 1
    BY <1>2, <1>5, <1>6
  <2> QED  BY <2>1, <2>2
<1>9. Ends' = Ends
  BY <1>2, <1>8 DEF Ends
<1>10. Lost = 0
  <2>1. MaxOptions[decided] = 1
    BY <1>1, <1>5, <1>6
  <2> QED  BY <1>1, <1>6, <2>1
<1>11. d < N => level'[d] = MaxOptions[d] - 1 /\ MaxOptions[d] \in Nat /\ MaxOptions[d] >= 1
  <2>1. d < N => d \in Choice
    BY <1>5 DEF Choice
  <2> QED  BY <1>3, <1>5, <1>6, <1>7, <2>1
<1>12. Lost' = 0
  BY <1>2, <1>11 DEF Lost
<1>13. OptionsBefore[d] \in Nat /\ OptionsBefore[decided] <= OptionsBefore[d]
  BY <1>5, OptionsBeforeDef, OptionsBeforeGrows
<1>14. Spent \in Nat /\ Spent' \in Nat /\ Spent <= Spent'
  BY <1>2, <1>6, <1>9, <1>10, <1>12, <1>13 DEF Spent
<1>15. PICK r \in 0 .. N : Settled(r) \/ Short(r) \/ Long(r)
  BY DEF EffortInv
<1>16. \A c \in cuts : ~ NoZeros(c)
  <2> SUFFICES ASSUME NEW c \in cuts, NoZeros(c) PROVE FALSE  OBVIOUS
  <2>1. decided \in decided .. c - 1
    BY <1>4, <1>5
  <2> QED  BY <1>1, <2>1 DEF NoZeros
<1>17. Settled(r)
  BY <1>4, <1>15, <1>16 DEF Short, Long
<1>18. Settled(r)'
  <2>1. Pays
    BY <1>3, <1>14, Pay
  <2>2. decided \in Nat /\ decided' \in Nat /\ decided <= decided' /\ r \in Nat
    BY <1>2, <1>5
  <2> QED  BY <1>17, <2>1, <2>2, SettledStays
<1>19. /\ decided' < N => /\ level'[decided'] < MaxOptions[decided']
                          /\ level'[decided'] = 0 => MaxOptions[decided'] = 1
       /\ \A i \in Choice : i > decided' => level'[i] = MaxOptions[i] - 1
       /\ \A c \in Ends' : MaxOptions[c - 1] > 1
  <2>1. decided' < N => /\ level'[decided'] < MaxOptions[decided']
                        /\ level'[decided'] = 0 => MaxOptions[decided'] = 1
    BY <1>2, <1>11
  <2>2. \A i \in Choice : i > d => i > decided
    BY <1>5 DEF Choice
  <2>3. \A c \in Ends : MaxOptions[c - 1] > 1
    BY DEF EffortInv
  <2> QED  BY <1>2, <1>3, <1>7, <1>9, <2>1, <2>2, <2>3
<1> QED  BY <1>18, <1>19 DEF EffortInv

\* A half that is followed by the search for the rest of the interval is paid
\* by the choices in it.
LEMMA LongCounts ==
    ASSUME TypeOK, EffortInv, decided < N, NEW r \in 0 .. N, Long(r)
    PROVE  /\ r + 1 \in 0 .. N
           /\ tries <= Spent + Halvings[N] * (r + 1)
           /\ (r + 1) * HalfLength <= First
<1> USE NAssumption
<1> DEFINE a == Halvings[N] * r
           b == r * HalfLength
           h == Halvings[N]
           g == Halvings[First - decided]
           k == HalfLength
           u == Spent
           f == First
<1>1. f \in decided + 1 .. N /\ decided \in 0 .. N /\ f - decided \in 0 .. N
  BY FirstIsLeast DEF TypeOK
<1>2. /\ h \in Nat /\ k \in Nat /\ g \in Nat /\ MergeLength \in Nat /\ k < MergeLength
  BY <1>1, LengthFacts
<1>3. u \in Nat /\ tries \in Nat
  BY LevelFacts DEF Spent, TypeOK
<1>4. a \in Nat /\ b \in Nat /\ h * (r + 1) = a + h /\ (r + 1) * k = b + k
  BY Products
<1>5. f - decided >= MergeLength /\ tries <= u + a + h - g /\ b <= decided
  BY DEF Long
<1>6. (r + 1) * k <= N => r + 1 \in 0 .. N
  BY Products
<1> HIDE DEF a, b, h, g, k, u, f
<1>7. tries <= u + (a + h)
  BY <1>2, <1>3, <1>4, <1>5
<1>8. b + k <= f
  BY <1>1, <1>2, <1>4, <1>5
<1>9. (r + 1) * k <= f /\ (r + 1) * k <= N
  BY <1>1, <1>2, <1>4, <1>8
<1>10. tries <= u + h * (r + 1)
  BY <1>4, <1>7
<1> QED  BY <1>6, <1>9, <1>10 DEF h, k, u, f

\* The account is kept by a step that pays, unless it is in the middle of the
\* halvings of an interval.
LEMMA AccountStays ==
    ASSUME TypeOK, EffortInv, Pays, decided < N, decided' \in decided .. N,
           \A c \in cuts : NoZeros(c) /\ c - decided < MergeLength =>
                              c = decided' \/ (c \in cuts' /\ NoZeros(c)'),
           \A r \in 0 .. N : Long(r) => decided' = First
    PROVE  \E r \in 0 .. N : Settled(r)' \/ Short(r)' \/ Long(r)'
<1> USE NAssumption
<1>1. PICK r \in 0 .. N : Settled(r) \/ Short(r) \/ Long(r)
  BY DEF EffortInv
<1>2. /\ decided \in Nat /\ decided' \in Nat /\ decided <= decided' /\ r \in Nat
      /\ MergeLength \in Nat /\ cuts \subseteq Nat
  BY MergeAssumption DEF TypeOK
<1>3. CASE Settled(r)
  <2>1. Settled(r)'
    BY <1>2, <1>3, SettledStays
  <2> QED  BY <2>1
<1>4. CASE Short(r)
  <2>1. PICK c \in cuts : /\ c - decided < MergeLength /\ NoZeros(c)
                          /\ r * HalfLength <= c
    BY <1>4 DEF Short
  <2>2. tries <= Spent + Halvings[N] * r
    BY <1>4 DEF Short
  <2>3. c \in Nat /\ (c = decided' \/ (c \in cuts' /\ NoZeros(c)'))
    BY <1>2, <2>1
  <2>4. c - decided' < MergeLength
    <3> DEFINE m == decided'
               d == decided
    <3>1. c - d < MergeLength /\ c \in Nat /\ d \in Nat /\ m \in Nat /\ d <= m
      BY <1>2, <2>1
    <3> HIDE DEF m, d
    <3>2. c - m < MergeLength
      BY <1>2, <3>1
    <3> QED  BY <3>2 DEF m
  <2>5. Settled(r)' \/ Short(r)'
    BY <1>2, <2>1, <2>2, <2>3, <2>4, ShortStays
  <2> QED  BY <2>5
<1>5. CASE Long(r)
  <2>1. r + 1 \in 0 .. N /\ tries <= Spent + Halvings[N] * (r + 1)
        /\ (r + 1) * HalfLength <= decided'
    BY <1>5, LongCounts
  <2>2. r + 1 \in Nat
    BY <2>1
  <2>3. Settled(r + 1)' \/ Short(r + 1)'
    BY <1>2, <2>1, <2>2, ShortStays
  <2> QED  BY <2>1, <2>3
<1> QED  BY <1>1, <1>3, <1>4, <1>5

\* A build ends where the first zero is, at the latest at the first end.
Build(e) ==
    /\ TypeOK /\ EffortInv
    /\ decided < N /\ level[decided] > 0
    /\ e \in decided + 1 .. First /\ IsEnd(e)

LEMMA BuildFacts ==
    ASSUME NEW e, Build(e)
    PROVE  /\ decided \in Choice /\ e \in decided + 1 .. N /\ e \in 0 .. N
           /\ First \in cuts /\ First \in decided + 1 .. N /\ e <= First
           /\ \A c \in cuts : First <= c /\ c \in decided + 1 .. N
           /\ \A c \in cuts : NoZeros(c) => e = First
           /\ \A c \in decided + 1 .. e : c - 1 \in Choice /\ MaxOptions[c - 1] > 1
           /\ e = First => NoZeros(First)
           /\ OptionsBefore[e] \in Nat
           /\ OptionsBefore[decided] + MaxOptions[decided] <= OptionsBefore[e]
           /\ OptionsBefore[decided] + MaxOptions[decided] <= OptionsBefore[decided + 1]
<1> USE NAssumption DEF Build
<1>1. /\ First \in cuts /\ First \in decided + 1 .. N
      /\ \A c \in cuts : First <= c /\ c \in decided + 1 .. N
  BY FirstIsLeast DEF TypeOK
<1>2. decided \in Choice /\ e \in decided + 1 .. N /\ e \in 0 .. N /\ e <= First
      /\ decided + 1 \in 0 .. N /\ decided \in 0 .. N
  BY <1>1 DEF TypeOK, Choice
<1>3. /\ \A i \in decided .. e - 1 : level[i] > 0
      /\ e < First => level[e] = 0
  BY DEF IsEnd
<1>4. ASSUME NEW c \in cuts, NoZeros(c) PROVE e = First
  <2> SUFFICES ASSUME e < First PROVE FALSE
    BY <1>1, <1>2
  <2>1. e \in decided .. c - 1
    BY <1>1, <1>2, <1>4
  <2>2. level[e] > 0 /\ level[e] = 0
    BY <1>3, <1>4, <2>1 DEF NoZeros
  <2> QED  BY <2>2
<1>5. ASSUME NEW c \in decided + 1 .. e
      PROVE  c - 1 \in Choice /\ MaxOptions[c - 1] > 1
  <2>1. c - 1 \in Choice /\ c - 1 >= decided /\ c - 1 \in decided .. e - 1
    BY <1>2 DEF Choice
  <2>2. level[c - 1] > 0
    BY <1>3, <2>1
  <2>3. level[c - 1] < MaxOptions[c - 1] /\ level[c - 1] \in Nat /\ MaxOptions[c - 1] \in Nat
    BY <2>1, LevelFacts
  <2> QED  BY <2>1, <2>2, <2>3
<1>6. e = First => NoZeros(First)
  BY <1>3 DEF NoZeros
<1>7. OptionsBefore[decided] + MaxOptions[decided] = OptionsBefore[decided + 1]
  <2>1. decided + 1 \in decided + 1 .. e /\ (decided + 1) - 1 = decided
    BY <1>2
  <2>2. MaxOptions[decided] > 1
    BY <1>5, <2>1
  <2>3. Cost(decided) = MaxOptions[decided]
    BY <1>2, <2>2, CostFacts
  <2> QED  BY <2>3, LevelFacts
<1>8. OptionsBefore[e] \in Nat /\ OptionsBefore[decided + 1] <= OptionsBefore[e]
      /\ OptionsBefore[decided + 1] \in Nat
  <2>1. decided + 1 <= e
    BY <1>2
  <2> QED  BY <1>2, <2>1, OptionsBeforeDef, OptionsBeforeGrows
<1> QED  BY <1>1, <1>2, <1>4, <1>5, <1>6, <1>7, <1>8

LEMMA SpentFacts ==
    ASSUME NEW e, Build(e)
    PROVE  /\ Spent \in Nat /\ tries \in Nat /\ Cardinality(Ends) \in Nat
           /\ Spent + 1 <= OptionsBefore[e] + (Cardinality(Ends) - 1)
           /\ Spent + 1 <= OptionsBefore[decided + 1] + (Cardinality(Ends) - 1)
<1> DEFINE b == OptionsBefore[decided]
           p == OptionsBefore[decided + 1]
           q == OptionsBefore[e]
           l == level[decided]
           m == MaxOptions[decided]
           k == Cardinality(Ends)
           o == Lost
<1>1. TypeOK /\ EffortInv /\ decided < N /\ l > 0
  BY DEF Build
<1>2. /\ b \in Nat /\ p \in Nat /\ k \in Nat /\ l \in Nat /\ m \in Nat
      /\ o = m - 1 - l /\ l < m
  BY <1>1, LevelFacts
<1>3. q \in Nat /\ b + m <= q /\ b + m <= p
  BY BuildFacts
<1>4. Spent = b + o + k /\ tries \in Nat
  BY <1>1 DEF Spent, TypeOK
<1> HIDE DEF b, p, q, l, m, k, o
<1>5. b + o + k \in Nat /\ b + o + k + 1 <= q + (k - 1) /\ b + o + k + 1 <= p + (k - 1)
  BY <1>1, <1>2, <1>3
<1> QED  BY <1>2, <1>4, <1>5 DEF p, q, k

LEMMA AcceptEffort ==
    ASSUME NEW e, Build(e), AcceptUpTo(e), tries' = tries + 1, TypeOK'
    PROVE  EffortInv'
<1> USE NAssumption
<1>1. TypeOK /\ EffortInv /\ decided < N /\ e \in decided + 1 .. First
  BY DEF Build
<1>2. decided' = e /\ level' = level /\ cuts' = CutsAt(e) \ {e}
  BY DEF AcceptUpTo
<1>3. /\ e \in decided + 1 .. N /\ e \in decided .. N /\ decided \in 0 .. N
      /\ First \in cuts /\ e \in 0 .. N /\ OptionsBefore[e] \in Nat
      /\ \A c \in cuts : NoZeros(c) => e = First
  BY <1>1, BuildFacts DEF TypeOK
<1>4. \A i \in Choice : i > decided => level[i] = MaxOptions[i] - 1
  BY <1>1 DEF EffortInv
<1>5. /\ decided' < N => /\ level'[decided'] < MaxOptions[decided']
                         /\ level'[decided'] = 0 => MaxOptions[decided'] = 1
      /\ Lost' = 0
  <2>1. CASE e < N
    <3>1. e \in Choice /\ e > decided
      BY <1>3, <2>1 DEF Choice
    <3>2. level[e] = MaxOptions[e] - 1 /\ MaxOptions[e] \in Nat
      BY <1>4, <3>1, OptionsAssumption
    <3> QED  BY <1>2, <3>2 DEF Lost
  <2>2. CASE ~ (e < N)
    BY <1>2, <2>2 DEF Lost
  <2> QED  BY <2>1, <2>2
<1>6. \A i \in Choice : i > decided' => level'[i] = MaxOptions[i] - 1
  <2>1. \A i \in Choice : i > e => i > decided
    BY <1>3 DEF Choice
  <2> QED  BY <1>2, <1>4, <2>1
<1> DEFINE D == CutsAt(e) \ {N}
<1>7. Ends' = D \ {e}
  BY <1>2 DEF Ends
<1>8. /\ D \subseteq 0 .. N /\ \A c \in D : c \in Ends \/ c = e
      /\ Cardinality(Ends) - 1 <= Cardinality(D \ {e})
      /\ e = First => CutsAt(e) = cuts
  BY <1>1, CutsAtEnds
<1>9. D \ {e} \subseteq 0 .. N
  BY <1>8
<1> HIDE DEF D
<1>10. \A c \in Ends' : MaxOptions[c - 1] > 1
  BY <1>1, <1>7, <1>8 DEF EffortInv
<1>11. Pays
  <2> DEFINE k == Cardinality(Ends)
             n == Cardinality(Ends')
             q == OptionsBefore[e]
             u == Spent
  <2>1. n \in Nat /\ k - 1 <= n
    BY <1>7, <1>8, <1>9, SetsOfEnds
  <2>2. u \in Nat /\ k \in Nat /\ u + 1 <= q + (k - 1) /\ tries \in Nat
    BY SpentFacts
  <2>3. q \in Nat /\ Spent' = q + 0 + n
    BY <1>2, <1>3, <1>5 DEF Spent
  <2> HIDE DEF k, n, q, u
  <2>4. q + 0 + n \in Nat /\ u + 1 <= q + 0 + n
    BY <2>1, <2>2, <2>3
  <2> QED  BY <2>2, <2>3, <2>4, Pay DEF u
<1>12. ASSUME NEW c \in cuts, NoZeros(c)
       PROVE  c = decided' \/ (c \in cuts' /\ NoZeros(c)')
  <2>1. e = First /\ cuts' = cuts \ {e}
    BY <1>2, <1>3, <1>8, <1>12
  <2>2. NoZeros(c)'
    <3>1. \A i \in e .. c - 1 : i \in decided .. c - 1
      BY <1>3
    <3> QED  BY <1>2, <1>12, <3>1 DEF NoZeros
  <2> QED  BY <1>2, <2>1, <2>2
<1>13. ASSUME NEW r \in 0 .. N, Long(r) PROVE decided' = First
  BY <1>2, <1>3, <1>13 DEF Long
<1>14. \E r \in 0 .. N : Settled(r)' \/ Short(r)' \/ Long(r)'
  BY <1>1, <1>2, <1>3, <1>11, <1>12, <1>13, AccountStays
<1> QED  BY <1>5, <1>6, <1>10, <1>14 DEF EffortInv

LEMMA LowerEffort ==
    ASSUME NEW e, e = decided + 1, Build(e), Lower, tries' = tries + 1, TypeOK'
    PROVE  EffortInv'
<1> USE NAssumption
<1>1. TypeOK /\ EffortInv /\ decided < N /\ e \in decided + 1 .. First /\ level[decided] > 0
  BY DEF Build
<1>2. /\ e \in decided + 1 .. N /\ e \in decided .. N /\ decided \in 0 .. N
      /\ decided \in Choice /\ First \in cuts /\ e \in 0 .. N
      /\ OptionsBefore[e] \in Nat /\ OptionsBefore[decided] \in Nat
      /\ \A c \in cuts : c \in decided + 1 .. N
      /\ \A c \in cuts : NoZeros(c) => e = First
      /\ level \in [Choice -> Nat] /\ level[decided] \in Nat
      /\ MaxOptions[decided] \in Nat /\ level[decided] < MaxOptions[decided]
      /\ Lost = MaxOptions[decided] - 1 - level[decided] /\ Lost \in Nat
  <2>1. /\ decided \in Choice /\ level[decided] \in Nat
        /\ MaxOptions[decided] \in Nat /\ level[decided] < MaxOptions[decided]
        /\ Lost = MaxOptions[decided] - 1 - level[decided] /\ Lost \in Nat
        /\ OptionsBefore[decided] \in Nat
    <3>1. decided \in Choice /\ decided >= decided
      BY <1>1 DEF TypeOK, Choice
    <3> QED  BY <1>1, <3>1, LevelFacts
  <2>2. /\ e \in decided + 1 .. N /\ First \in cuts /\ e \in 0 .. N
        /\ OptionsBefore[e] \in Nat
        /\ \A c \in cuts : c \in decided + 1 .. N
        /\ \A c \in cuts : NoZeros(c) => e = First
    BY BuildFacts
  <2>3. level \in [Choice -> Nat] /\ decided \in 0 .. N
    BY <1>1 DEF TypeOK, Assignment
  <2>4. e \in decided .. N
    BY <2>2, <2>3
  <2> QED  BY <2>1, <2>2, <2>3, <2>4
<1>3. level' = [level EXCEPT ![decided] = level[decided] - 1]
  BY DEF Lower
<1>4. ASSUME NEW i \in Choice, i > decided
      PROVE  level'[i] = level[i] /\ level[i] = MaxOptions[i] - 1
  <2>1. level[i] = MaxOptions[i] - 1
    BY <1>1, <1>4 DEF EffortInv
  <2>2. i # decided
    BY <1>2, <1>4 DEF Choice
  <2>3. level \in [Choice -> Nat]
    BY <1>2
  <2>4. level'[i] = level[i]
    BY <1>3, <2>2, <2>3
  <2> QED  BY <2>1, <2>4
<1>5. level'[decided] = level[decided] - 1
  BY <1>2, <1>3
<1> DEFINE D == CutsAt(e) \ {N}
<1>6. /\ D \subseteq 0 .. N /\ \A c \in D : c \in Ends \/ c = e
      /\ Cardinality(Ends) <= Cardinality(D)
      /\ Cardinality(Ends) - 1 <= Cardinality(D \ {e})
      /\ e = First => CutsAt(e) = cuts
  BY <1>1, CutsAtEnds
<1>7. D \ {e} \subseteq 0 .. N
  BY <1>6
<1>8. \A c \in D : MaxOptions[c - 1] > 1
  <2>1. MaxOptions[e - 1] > 1
    BY <1>2, BuildFacts
  <2> QED  BY <1>1, <1>6, <2>1 DEF EffortInv
<1>9. /\ Spent \in Nat /\ tries \in Nat /\ Cardinality(Ends) \in Nat
      /\ Spent + 1 <= OptionsBefore[e] + (Cardinality(Ends) - 1)
      /\ Spent = OptionsBefore[decided] + Lost + Cardinality(Ends)
  BY SpentFacts DEF Spent
<1>10. Cardinality(D) \in Nat /\ Cardinality(D \ {e}) \in Nat
  BY <1>6, <1>7, SetsOfEnds
<1> HIDE DEF D
<1>11. ASSUME NEW r \in 0 .. N, Long(r) PROVE FALSE
  <2>1. First = decided + 1 /\ First - decided >= MergeLength
    BY <1>2, <1>11 DEF Long
  <2>2. First - decided = 1
    BY <1>2, <2>1
  <2> QED  BY <2>1, <2>2, MergeAssumption
<1>12. CASE level[decided] = 1
  <2>1. decided' = e /\ cuts' = CutsAt(e) \ {e}
    BY <1>12 DEF Lower
  <2>2. Ends' = D \ {e}
    BY <2>1 DEF Ends, D
  <2>3. /\ decided' < N => /\ level'[decided'] < MaxOptions[decided']
                           /\ level'[decided'] = 0 => MaxOptions[decided'] = 1
        /\ Lost' = 0
    <3>1. CASE e < N
      <4>1. e \in Choice /\ e > decided
        BY <1>2, <3>1 DEF Choice
      <4>2. level'[e] = MaxOptions[e] - 1 /\ MaxOptions[e] \in Nat
        BY <1>4, <4>1, OptionsAssumption
      <4> QED  BY <2>1, <4>2 DEF Lost
    <3>2. CASE ~ (e < N)
      BY <2>1, <3>2 DEF Lost
    <3> QED  BY <3>1, <3>2
  <2>4. \A i \in Choice : i > decided' => level'[i] = MaxOptions[i] - 1
    <3>1. \A i \in Choice : i > e => i > decided
      BY <1>2 DEF Choice
    <3> QED  BY <1>4, <2>1, <3>1
  <2>5. Pays
    <3> DEFINE k == Cardinality(Ends)
               n == Cardinality(Ends')
               q == OptionsBefore[e]
               u == Spent
    <3>1. n \in Nat /\ k - 1 <= n /\ u \in Nat /\ k \in Nat /\ u + 1 <= q + (k - 1)
      BY <1>6, <1>9, <1>10, <2>2
    <3>2. q \in Nat /\ Spent' = q + 0 + n
      BY <1>2, <2>1, <2>3 DEF Spent
    <3> HIDE DEF k, n, q, u
    <3>3. q + 0 + n \in Nat /\ u + 1 <= q + 0 + n
      BY <3>1, <3>2
    <3> QED  BY <1>9, <3>1, <3>2, <3>3, Pay DEF u
  <2>6. ASSUME NEW c \in cuts, NoZeros(c)
        PROVE  c = decided' \/ (c \in cuts' /\ NoZeros(c)')
    <3>1. e = First /\ cuts' = cuts \ {e}
      BY <1>2, <1>6, <2>1, <2>6
    <3>2. NoZeros(c)'
      <4>1. \A i \in e .. c - 1 : i \in decided .. c - 1 /\ i \in Choice /\ i > decided
        BY <1>2 DEF Choice
      <4> QED  BY <1>4, <2>1, <2>6, <4>1 DEF NoZeros
    <3> QED  BY <2>1, <3>1, <3>2
  <2>7. \E r \in 0 .. N : Settled(r)' \/ Short(r)' \/ Long(r)'
    BY <1>1, <1>2, <1>11, <2>1, <2>5, <2>6, AccountStays
  <2> QED  BY <1>8, <2>2, <2>3, <2>4, <2>7 DEF EffortInv
<1>13. CASE level[decided] # 1
  <2>1. decided' = decided /\ cuts' = CutsAt(e)
    BY <1>13 DEF Lower
  <2>2. Ends' = D
    BY <2>1 DEF Ends, D
  <2>3. level'[decided] < MaxOptions[decided] /\ level'[decided] > 0
    BY <1>1, <1>2, <1>5, <1>13
  <2>4. Lost' = Lost + 1
    BY <1>1, <1>2, <1>5, <2>1 DEF Lost
  <2>5. Pays
    <3> DEFINE k == Cardinality(Ends)
               n == Cardinality(Ends')
               q == OptionsBefore[decided]
               u == Spent
               o == Lost
    <3>1. n \in Nat /\ k <= n /\ u \in Nat /\ k \in Nat /\ u = q + o + k /\ o \in Nat
      BY <1>2, <1>6, <1>9, <1>10, <2>2
    <3>2. q \in Nat /\ Spent' = q + (o + 1) + n
      BY <1>2, <2>1, <2>4 DEF Spent
    <3> HIDE DEF k, n, q, u, o
    <3>3. q + (o + 1) + n \in Nat /\ u + 1 <= q + (o + 1) + n
      BY <3>1, <3>2
    <3> QED  BY <1>9, <3>1, <3>2, <3>3, Pay DEF u
  <2>6. ASSUME NEW c \in cuts, NoZeros(c)
        PROVE  c \in cuts' /\ NoZeros(c)'
    <3>1. cuts' = cuts
      BY <1>2, <1>6, <2>1, <2>6
    <3>2. \A i \in decided .. c - 1 : i = decided \/ (i \in Choice /\ i > decided)
      BY <1>2 DEF Choice
    <3>3. \A i \in decided .. c - 1 : level'[i] > 0
      BY <1>4, <2>3, <2>6, <3>2 DEF NoZeros
    <3> QED  BY <2>1, <3>1, <3>3 DEF NoZeros
  <2>7. decided' \in decided .. N
    BY <1>2, <2>1
  <2>8. \E r \in 0 .. N : Settled(r)' \/ Short(r)' \/ Long(r)'
    BY <1>1, <1>11, <2>5, <2>6, <2>7, AccountStays
  <2> QED  BY <1>4, <1>8, <2>1, <2>2, <2>3, <2>8 DEF EffortInv
<1> QED  BY <1>12, <1>13

LEMMA HalveFacts ==
    ASSUME NEW e, e > decided + 1, Build(e), HalveAt(e), TypeOK'
    PROVE  /\ Middle(e) \in decided + 1 .. e - 1
           /\ Middle(e) - decided = (e - decided) \div 2
           /\ \A i \in decided .. e - 1 : level'[i] > 0
           /\ decided' = decided /\ Lost' = Lost
           /\ Middle(e) \in cuts' /\ \A c \in cuts' : c \in Nat /\ Middle(e) <= c
           /\ Spent = OptionsBefore[decided] + Lost + Cardinality(Ends)
           /\ Spent' = OptionsBefore[decided] + Lost + Cardinality(Ends')
           /\ OptionsBefore[decided] \in Nat /\ Lost \in Nat
           /\ Cardinality(Ends) \in Nat
           /\ LET D == CutsAt(e) \ {N}
              IN  /\ D \subseteq 0 .. N /\ Ends' \subseteq 0 .. N
                  /\ Cardinality(Ends) <= Cardinality(D)
                  /\ Middle(e) \notin D /\ Middle(e) \in Ends'
           /\ /\ decided' < N => /\ level'[decided'] < MaxOptions[decided']
                                 /\ level'[decided'] = 0 => MaxOptions[decided'] = 1
              /\ \A i \in Choice : i > decided' => level'[i] = MaxOptions[i] - 1
              /\ \A c \in Ends' : MaxOptions[c - 1] > 1
<1> USE NAssumption
<1>1. TypeOK /\ EffortInv /\ decided < N /\ e \in decided + 1 .. First
  BY DEF Build
<1>2. /\ e \in decided + 1 .. N /\ decided \in 0 .. N
      /\ \A c \in decided + 1 .. e : MaxOptions[c - 1] > 1
  BY <1>1, BuildFacts DEF TypeOK
<1>3. UNCHANGED <<level, decided, accepted>>
  BY DEF HalveAt
<1>4. Middle(e) \in decided + 1 .. e - 1 /\ Middle(e) - decided = (e - decided) \div 2
  BY <1>2 DEF Middle
<1>5. \A i \in decided .. e - 1 : level'[i] > 0
  BY <1>3 DEF Build, IsEnd
<1>6. Lost' = Lost
  BY <1>3 DEF Lost
<1>7. CutsAt(e) \subseteq e .. N
  BY <1>1, CutsAtType
<1>8. Middle(e) \in cuts' /\ cuts' \subseteq {Middle(e)} \cup CutsAt(e)
  BY DEF HalveAt
<1>9. \A c \in cuts' : c \in Nat /\ Middle(e) <= c
  <2>1. \A c \in CutsAt(e) : c \in Nat /\ Middle(e) <= c
    BY <1>2, <1>4, <1>7
  <2> QED  BY <1>2, <1>4, <1>8, <2>1
<1>10. /\ OptionsBefore[decided] \in Nat /\ Lost \in Nat /\ Cardinality(Ends) \in Nat
  BY <1>1, LevelFacts
<1>11. /\ Spent = OptionsBefore[decided] + Lost + Cardinality(Ends)
       /\ Spent' = OptionsBefore[decided] + Lost + Cardinality(Ends')
  BY <1>3, <1>6 DEF Spent
<1> DEFINE D == CutsAt(e) \ {N}
<1>12. /\ D \subseteq 0 .. N /\ \A c \in D : c \in Ends \/ c = e
       /\ Cardinality(Ends) <= Cardinality(D)
  BY <1>1, CutsAtEnds
<1>13. Middle(e) \notin D /\ Middle(e) \in Ends'
  <2>1. Middle(e) # N /\ Middle(e) \notin e .. N
    BY <1>2, <1>4
  <2> QED  BY <1>7, <1>8, <2>1 DEF Ends
<1>14. Ends' \subseteq 0 .. N
  <2>1. cuts' \subseteq 0 .. N
    BY <1>2, <1>3 DEF TypeOK
  <2> QED  BY <2>1 DEF Ends
<1>15. \A c \in Ends' : MaxOptions[c - 1] > 1
  <2>1. \A c \in Ends' : c = Middle(e) \/ c \in Ends \/ c = e
    BY <1>8, <1>12 DEF Ends
  <2>2. Middle(e) \in decided + 1 .. e /\ e \in decided + 1 .. e
    BY <1>2, <1>4
  <2>3. \A c \in Ends : MaxOptions[c - 1] > 1
    BY <1>1 DEF EffortInv
  <2> QED  BY <1>2, <2>1, <2>2, <2>3
<1>16. /\ decided' < N => /\ level'[decided'] < MaxOptions[decided']
                          /\ level'[decided'] = 0 => MaxOptions[decided'] = 1
       /\ \A i \in Choice : i > decided' => level'[i] = MaxOptions[i] - 1
  BY <1>1, <1>3 DEF EffortInv
<1> HIDE DEF D
<1> QED
  BY <1>3, <1>4, <1>5, <1>6, <1>8, <1>9, <1>10, <1>11, <1>12, <1>13, <1>14, <1>15, <1>16
  DEF D

\* A second half that is an interval of its own adds an end.
LEMMA HalveEffort ==
    ASSUME NEW e, e > decided + 1, Build(e), HalveAt(e), tries' = tries + 1, TypeOK',
           e = N \/ e - decided < MergeLength
    PROVE  EffortInv'
<1> USE NAssumption
<1>1. TypeOK /\ EffortInv /\ decided < N /\ e \in decided + 1 .. First
  BY DEF Build
<1>2. /\ e \in decided + 1 .. N /\ decided \in 0 .. N /\ First \in cuts
      /\ \A c \in cuts : c \in decided + 1 .. N
      /\ \A c \in cuts : NoZeros(c) => e = First
  BY <1>1, BuildFacts DEF TypeOK
<1>3. cuts' = {Middle(e)} \cup CutsAt(e) /\ level' = level /\ decided' = decided
  BY DEF HalveAt
<1>4. e = First => CutsAt(e) = cuts
  BY <1>1, CutsAtEnds
<1> DEFINE D == CutsAt(e) \ {N}
<1>5. /\ D \subseteq 0 .. N /\ Ends' \subseteq 0 .. N
      /\ Cardinality(Ends) <= Cardinality(D)
      /\ Middle(e) \notin D /\ Middle(e) \in Ends'
  BY HalveFacts
<1>6. D \subseteq Ends'
  BY <1>3 DEF Ends
<1>7. Pays
  <2> DEFINE k == Cardinality(Ends)
             d == Cardinality(D)
             n == Cardinality(Ends')
             q == OptionsBefore[decided]
             u == Spent
             o == Lost
  <2>1. n \in Nat /\ d \in Nat /\ k <= d /\ d + 1 <= n
    <3> HIDE DEF D
    <3> QED  BY <1>5, <1>6, SetsOfEnds
  <2>2. /\ u = q + o + k /\ Spent' = q + o + n /\ q \in Nat /\ o \in Nat /\ k \in Nat
    BY HalveFacts
  <2>3. tries \in Nat
    BY <1>1 DEF TypeOK
  <2> HIDE DEF k, d, n, q, u, o
  <2>4. u \in Nat /\ q + o + n \in Nat /\ u + 1 <= q + o + n
    BY <2>1, <2>2
  <2> QED  BY <2>2, <2>3, <2>4, Pay DEF u
<1>8. ASSUME NEW c \in cuts, NoZeros(c) PROVE c \in cuts' /\ NoZeros(c)'
  <2>1. e = First
    BY <1>2, <1>8
  <2> QED  BY <1>3, <1>4, <1>8, <2>1 DEF NoZeros
<1>9. ASSUME NEW r \in 0 .. N, Long(r) PROVE FALSE
  <2>1. First < N /\ First - decided >= MergeLength /\ e = First
    BY <1>2, <1>9 DEF Long
  <2>2. e - decided < MergeLength /\ e - decided >= MergeLength
    BY <1>2, <2>1
  <2> QED  BY <1>2, <2>2, MergeAssumption
<1>10. decided' \in decided .. N
  BY <1>2, <1>3
<1>11. \E r \in 0 .. N : Settled(r)' \/ Short(r)' \/ Long(r)'
  BY <1>1, <1>7, <1>8, <1>9, <1>10, AccountStays
<1> QED
  <2>1. /\ decided' < N => /\ level'[decided'] < MaxOptions[decided']
                           /\ level'[decided'] = 0 => MaxOptions[decided'] = 1
        /\ \A i \in Choice : i > decided' => level'[i] = MaxOptions[i] - 1
        /\ \A c \in Ends' : MaxOptions[c - 1] > 1
    BY HalveFacts
  <2> QED  BY <1>11, <2>1 DEF EffortInv

\* A second half that joins the next interval adds no end, but the first half
\* is halved again until it is short.
LEMMA JoinEffort ==
    ASSUME NEW e, e > decided + 1, Build(e), HalveAt(e), tries' = tries + 1, TypeOK',
           e # N, e - decided >= MergeLength
    PROVE  EffortInv'
<1> USE NAssumption
<1>1. TypeOK /\ EffortInv /\ decided < N /\ e \in decided + 1 .. First
  BY DEF Build
<1>2. /\ e \in decided + 1 .. N /\ decided \in 0 .. N /\ First \in cuts
      /\ \A c \in cuts : c \in decided + 1 .. N /\ First <= c
      /\ \A c \in cuts : NoZeros(c) => e = First
  BY <1>1, BuildFacts DEF TypeOK
<1>3. /\ cuts' = {Middle(e)} \cup (CutsAt(e) \ {e})
      /\ level' = level /\ decided' = decided
  <2>1. ~ (e = N \/ e - decided < MergeLength)
    BY <1>2, MergeAssumption
  <2> QED  BY <2>1 DEF HalveAt
<1>4. /\ Middle(e) \in decided + 1 .. e - 1
      /\ Middle(e) - decided = (e - decided) \div 2
      /\ \A i \in decided .. e - 1 : level'[i] > 0
      /\ Middle(e) \in cuts' /\ \A c \in cuts' : c \in Nat /\ Middle(e) <= c
  BY HalveFacts
<1>5. First' = Middle(e)
  <2> DEFINE C == cuts'
             m == Middle(e)
  <2>1. m \in C /\ C \subseteq Nat /\ \A c \in C : m <= c
    BY <1>4
  <2>2. First' = CHOOSE x \in C : \A d \in C : x <= d
    BY DEF First
  <2> HIDE DEF C, m
  <2>3. (CHOOSE x \in C : \A d \in C : x <= d) = m
    BY <2>1, LeastIsFirst
  <2> QED  BY <2>2, <2>3 DEF m
<1> DEFINE D == CutsAt(e) \ {N}
<1>6. Spent <= Spent' /\ Spent \in Nat /\ Spent' \in Nat /\ tries \in Nat
  <2> DEFINE k == Cardinality(Ends)
             d == Cardinality(D)
             n == Cardinality(Ends')
             q == OptionsBefore[decided]
             u == Spent
             v == Spent'
             o == Lost
  <2>1. /\ D \subseteq 0 .. N /\ Ends' \subseteq 0 .. N
        /\ Cardinality(Ends) <= Cardinality(D)
        /\ Middle(e) \notin D /\ Middle(e) \in Ends'
    BY HalveFacts
  <2>2. D \ {e} \subseteq Ends'
    BY <1>3 DEF Ends
  <2>3. n \in Nat /\ d \in Nat /\ k <= d /\ d <= n
    <3> HIDE DEF D
    <3> QED  BY <2>1, <2>2, SetsOfEnds
  <2>4. /\ u = q + o + k /\ v = q + o + n /\ q \in Nat /\ o \in Nat /\ k \in Nat
    BY HalveFacts
  <2>5. tries \in Nat
    BY <1>1 DEF TypeOK
  <2> HIDE DEF k, d, n, q, u, v, o
  <2>6. u \in Nat /\ v \in Nat /\ u <= v
    BY <2>3, <2>4
  <2> QED  BY <2>5, <2>6 DEF u, v
<1> DEFINE len == e - decided
<1>7. /\ len \in 0 .. N /\ len >= MergeLength /\ len \div 2 \in 0 .. N
      /\ len \div 2 >= HalfLength
      /\ Halvings[len] = 1 + Halvings[len \div 2]
      /\ Halvings[len] \in Nat /\ Halvings[len] <= Halvings[N]
      /\ Halvings[N] \in Nat /\ Halvings[len \div 2] \in Nat
      /\ HalfLength \in Nat \ {0} /\ MergeLength \in Nat
  <2>1. len \in 0 .. N /\ len >= MergeLength
    BY <1>2
  <2> HIDE DEF len
  <2> QED  BY <2>1, LengthFacts
<1>8. PICK r \in 0 .. N : Settled(r) \/ Short(r) \/ Long(r)
  BY <1>1 DEF EffortInv
<1>9. ~ Short(r)
  <2> SUFFICES ASSUME Short(r) PROVE FALSE  OBVIOUS
  <2>1. PICK c \in cuts : c - decided < MergeLength /\ NoZeros(c)
    BY DEF Short
  <2>2. e = First /\ First <= c /\ c \in decided + 1 .. N
    BY <1>2, <2>1
  <2> QED  BY <1>2, <1>7, <2>1, <2>2
<1>10. /\ tries <= Spent + Halvings[N] * r + Halvings[N] - Halvings[len]
       /\ r * HalfLength <= decided
  <2>1. CASE Settled(r)
    <3> DEFINE a == Halvings[N] * r
               h == Halvings[N]
               g == Halvings[len]
               u == Spent
    <3>1. /\ tries <= u + a /\ a \in Nat /\ h \in Nat /\ g \in Nat /\ g <= h
          /\ u \in Nat /\ tries \in Nat /\ r * HalfLength <= decided
      BY <1>6, <1>7, <2>1, Products DEF Settled
    <3> HIDE DEF a, h, g, u
    <3>2. tries <= u + a + h - g
      BY <3>1
    <3> QED  BY <3>1, <3>2 DEF a, h, g, u
  <2>2. CASE Long(r)
    <3>1. First = e
      BY <1>2, <2>2 DEF Long
    <3> QED  BY <2>2, <3>1 DEF Long
  <2> QED  BY <1>8, <1>9, <2>1, <2>2
\* (A name for the state's middle, that means the same in the next state.)
<1> PICK m \in Nat : m = Middle(e)
  BY <1>4
<1> DEFINE a == Halvings[N] * r
           b == r * HalfLength
           h == Halvings[N]
           g == Halvings[len \div 2]
           u == Spent
           v == Spent'
           s == tries
           t == tries'
           k == HalfLength
<1>11. t <= v + a + h - g /\ t <= v + (a + h)
  <2>1. /\ s <= u + a + h - (1 + g) /\ t = s + 1 /\ u <= v /\ u \in Nat /\ v \in Nat
        /\ s \in Nat /\ g \in Nat /\ h \in Nat /\ a \in Nat
    BY <1>6, <1>7, <1>10, Products
  <2> HIDE DEF a, h, g, u, v, s, t
  <2> QED  BY <2>1
<1>12. /\ b \in Nat /\ b <= decided /\ h * (r + 1) = a + h /\ (r + 1) * k = b + k
       /\ ((r + 1) * k <= N => r + 1 \in 0 .. N)
       /\ k \in Nat /\ m \in decided + 1 .. e - 1 /\ m - decided = len \div 2
       /\ len \div 2 >= k /\ len \div 2 \in Nat /\ len = e - decided
  BY <1>4, <1>7, <1>10, Products
<1>13. NoZeros(m)'
  <2>1. \A i \in decided .. m - 1 : i \in decided .. e - 1
    BY <1>2, <1>4
  <2> QED  BY <1>3, <1>4, <2>1 DEF NoZeros
<1>14. CASE len \div 2 >= MergeLength
  <2>1. First' - decided' = len \div 2 /\ First' = m
    BY <1>3, <1>5, <1>12
  <2>2. First' < N /\ decided' < N
    BY <1>1, <1>2, <1>3, <1>12, <2>1
  <2>3. tries' <= Spent' + Halvings[N] * r + Halvings[N] - Halvings[First' - decided']
    BY <1>11, <2>1
  <2>4. Long(r)'
    <3> HIDE DEF len
    <3> QED  BY <1>3, <1>10, <1>13, <1>14, <2>1, <2>2, <2>3 DEF Long
  <2> QED
    <3>1. /\ decided' < N => /\ level'[decided'] < MaxOptions[decided']
                             /\ level'[decided'] = 0 => MaxOptions[decided'] = 1
          /\ \A i \in Choice : i > decided' => level'[i] = MaxOptions[i] - 1
          /\ \A c \in Ends' : MaxOptions[c - 1] > 1
      BY HalveFacts
    <3> QED  BY <2>4, <3>1 DEF EffortInv
<1>15. CASE len \div 2 < MergeLength
  <2>1. (r + 1) * k <= m /\ r + 1 \in 0 .. N
    <3> HIDE DEF b, k, len
    <3>1. b + k <= m /\ m <= N
      BY <1>2, <1>12
    <3> QED  BY <1>12, <3>1
  <2>2. tries' <= Spent' + Halvings[N] * (r + 1)
    BY <1>11, <1>12
  <2>3. m \in cuts' /\ m - decided' < MergeLength
    BY <1>3, <1>4, <1>12, <1>15
  <2>4. Short(r + 1)'
    <3> QED  BY <1>13, <2>1, <2>2, <2>3 DEF Short, k
  <2> QED
    <3>1. /\ decided' < N => /\ level'[decided'] < MaxOptions[decided']
                             /\ level'[decided'] = 0 => MaxOptions[decided'] = 1
          /\ \A i \in Choice : i > decided' => level'[i] = MaxOptions[i] - 1
          /\ \A c \in Ends' : MaxOptions[c - 1] > 1
      BY HalveFacts
    <3> QED  BY <2>1, <2>4, <3>1 DEF EffortInv
<1> QED
  <2> HIDE DEF len
  <2> QED  BY <1>7, <1>14, <1>15

LEMMA TryAndCheckEffort == ASSUME Inv, EffortInv, TryAndCheck PROVE EffortInv'
<1>1. /\ TypeOK /\ decided < N /\ level[decided] > 0 /\ tries' = tries + 1
  BY DEF Inv, TryAndCheck
<1>2. TypeOK'
  BY TryAndCheckInv DEF Inv
<1>3. PICK e \in decided + 1 .. First :
         /\ IsEnd(e)
         /\ \/ AcceptUpTo(e)
            \/ e = decided + 1 /\ Lower
            \/ e > decided + 1 /\ HalveAt(e)
  BY DEF TryAndCheck
<1>4. Build(e)
  BY <1>1, <1>3 DEF Build
<1>5. CASE AcceptUpTo(e)
  BY <1>1, <1>2, <1>4, <1>5, AcceptEffort
<1>6. CASE e = decided + 1 /\ Lower
  BY <1>1, <1>2, <1>4, <1>6, LowerEffort
<1>7. CASE e > decided + 1 /\ HalveAt(e)
  <2>1. e \in decided + 1 .. N /\ decided \in 0 .. N /\ MergeLength \in Nat
    BY <1>4, BuildFacts, LengthFacts DEF Build, TypeOK
  <2>2. (e = N \/ e - decided < MergeLength) \/ (e # N /\ e - decided >= MergeLength)
    BY <2>1, NAssumption
  <2> QED  BY <1>1, <1>2, <1>4, <1>7, <2>2, HalveEffort, JoinEffort
<1> QED  BY <1>3, <1>5, <1>6, <1>7

\* Options and ends that are left pay for no more builds than the options are.
LEMMA SpentBound ==
    ASSUME TypeOK, EffortInv
    PROVE  Spent \in Nat /\ OptionsBefore[N] \in Nat /\ Spent <= OptionsBefore[N]
<1> USE NAssumption
<1>1. decided \in 0 .. N /\ cuts \subseteq decided + 1 .. N
  BY DEF TypeOK
<1>2. OptionsBefore[N] \in Nat
  BY OptionsBeforeDef
<1>3. CASE decided = N
  <2>1. cuts = {}
    BY <1>1, <1>3
  <2>2. Ends = {}
    BY <2>1 DEF Ends
  <2>3. Cardinality(Ends) = 0
    BY <2>2, FS_EmptySet
  <2>4. Lost = 0
    BY <1>3 DEF Lost
  <2> QED  BY <1>2, <1>3, <2>3, <2>4 DEF Spent
<1>4. CASE decided < N
  <2> DEFINE S == Ends \ {decided + 1}
             b == OptionsBefore[decided]
             p == OptionsBefore[decided + 1]
             q == OptionsBefore[N]
             o == Lost
             k == Cardinality(Ends)
             n == Cardinality(S)
             x == Cost(decided)
             y == MaxOptions[decided]
             l == level[decided]
  <2>1. /\ decided \in Choice /\ b \in Nat /\ p \in Nat /\ p = b + x
        /\ o = y - 1 - l /\ o \in Nat /\ k \in Nat /\ l \in Nat /\ y \in Nat /\ y >= 1
        /\ l < y /\ x \in Nat /\ (y > 1 => x = y)
    BY <1>4, LevelFacts, CostFacts
  <2>2. p + n <= q
    <3>1. decided + 1 \in 0 .. N /\ S \subseteq decided + 1 + 1 .. N
      BY <1>1, <1>4 DEF Ends
    <3>2. \A c \in S : MaxOptions[c - 1] > 1
      BY DEF EffortInv
    <3> HIDE DEF S
    <3> QED  BY <3>1, <3>2, EndsPaid
  <2>3. n \in Nat /\ k - 1 <= n /\ (decided + 1 \notin Ends => k = n)
    <3>1. Ends \subseteq 0 .. N /\ S \subseteq 0 .. N /\ Ends \ {decided + 1} \subseteq S
      BY <1>1 DEF Ends
    <3>2. decided + 1 \notin Ends => Ends = S
      OBVIOUS
    <3> HIDE DEF S
    <3> QED  BY <3>1, <3>2, SetsOfEnds
  <2>4. decided + 1 \in Ends => y > 1
    <3>1. (decided + 1) - 1 = decided
      BY <1>1
    <3> QED  BY <3>1 DEF EffortInv
  <2>5. Spent = b + o + k
    BY DEF Spent
  <2> HIDE DEF S, b, p, q, o, k, n, x, y, l
  <2>6. o <= x
    BY <2>1
  <2>7. b + o + k \in Nat
    BY <2>1
  <2>8. CASE decided + 1 \in Ends
    <3>1. x = y /\ o + 1 <= x
      BY <2>1, <2>4, <2>8
    <3>2. b + o + k <= p + n
      BY <2>1, <2>3, <3>1
    <3>3. q \in Nat
      BY <1>2 DEF q
    <3>4. b + o + k <= q
      BY <2>1, <2>2, <2>3, <3>2, <3>3
    <3> QED  BY <1>2, <2>5, <2>7, <3>4 DEF q
  <2>9. CASE decided + 1 \notin Ends
    <3>1. b + o + k <= p + n
      BY <2>1, <2>3, <2>6, <2>9
    <3>2. q \in Nat
      BY <1>2 DEF q
    <3>3. b + o + k <= q
      BY <2>1, <2>2, <2>3, <3>1, <3>2
    <3> QED  BY <1>2, <2>5, <2>7, <3>3 DEF q
  <2> QED  BY <2>8, <2>9
<1> QED  BY <1>1, <1>3, <1>4

LEMMA EffortBounds == ASSUME TypeOK, EffortInv PROVE DepthBound
<1> USE NAssumption
<1>1. \E r \in 0 .. N : tries <= Spent + Halvings[N] * r /\ r * HalfLength <= N
  <2>1. PICK r \in 0 .. N : Settled(r) \/ Short(r) \/ Long(r)
    BY DEF EffortInv
  <2>2. r * HalfLength \in Nat /\ decided \in 0 .. N /\ cuts \subseteq 0 .. N
    BY Products DEF TypeOK
  <2>3. CASE Settled(r)
    <3>1. tries <= Spent + Halvings[N] * r /\ r * HalfLength <= decided
      BY <2>3 DEF Settled
    <3> DEFINE b == r * HalfLength
    <3>2. b <= N
      <4>1. b \in Nat /\ b <= decided
        BY <2>2, <3>1
      <4> HIDE DEF b
      <4> QED  BY <2>2, <4>1
    <3> QED  BY <3>1, <3>2
  <2>4. CASE Short(r)
    <3>1. tries <= Spent + Halvings[N] * r
      BY <2>4 DEF Short
    <3>2. PICK c \in cuts : r * HalfLength <= c
      BY <2>4 DEF Short
    <3> DEFINE b == r * HalfLength
    <3>3. b <= N
      <4>1. b \in Nat /\ b <= c /\ c \in 0 .. N
        BY <2>2, <3>2
      <4> HIDE DEF b
      <4> QED  BY <4>1
    <3> QED  BY <3>1, <3>3
  <2>5. CASE Long(r)
    <3>1. decided < N
      BY <2>5 DEF Long
    <3>2. /\ r + 1 \in 0 .. N /\ tries <= Spent + Halvings[N] * (r + 1)
          /\ (r + 1) * HalfLength <= First
      BY <2>5, <3>1, LongCounts
    <3>3. First \in decided + 1 .. N
      BY <3>1, FirstIsLeast
    <3> DEFINE b == (r + 1) * HalfLength
    <3>4. b <= N
      <4>1. r + 1 \in Nat
        BY <3>2
      <4>2. b \in Nat /\ b <= First
        BY <3>2, <4>1, Products
      <4> HIDE DEF b
      <4> QED  BY <2>2, <3>3, <4>2
    <3> QED  BY <3>2, <3>4
  <2> QED  BY <2>1, <2>3, <2>4, <2>5
<1>2. PICK r \in 0 .. N : tries <= Spent + Halvings[N] * r /\ r * HalfLength <= N
  BY <1>1
<1>3. Spent \in Nat /\ OptionsBefore[N] \in Nat /\ Spent <= OptionsBefore[N]
  BY SpentBound
<1> DEFINE a == Halvings[N] * r
           x == Halvings[N] * (N \div HalfLength)
           u == Spent
           q == OptionsBefore[N]
<1>4. a \in Nat /\ x \in Nat /\ a <= x
  <2>1. Halvings[N] \in Nat /\ HalfLength \in Nat \ {0} /\ r \in Nat /\ N \in Nat
    BY LengthFacts
  <2> QED  BY <1>2, <2>1, Quotients
<1>5. tries \in Nat /\ tries <= u + a /\ u \in Nat /\ q \in Nat /\ u <= q
  BY <1>2, <1>3 DEF TypeOK
<1> HIDE DEF a, x, u, q
<1>6. tries <= q + x
  BY <1>4, <1>5
<1> QED  BY <1>6 DEF DepthBound, q, x

\* In every state each build is accounted for: by an option of a choice that is
\* decided, a level that the next choice lost, an end of an interval that
\* try_and_check made by halving, or by the halvings that end with half a
\* MergeLength of choices in an interval of its own.
THEOREM FirstTunerEffort == Spec => [](TypeOK /\ EffortInv)
<1>1. Init => Inv /\ EffortInv
  BY InitInv, InitEffort
<1>2. Inv /\ EffortInv /\ [Next]_vars => (Inv /\ EffortInv)'
  <2> SUFFICES ASSUME Inv, EffortInv, [Next]_vars PROVE Inv' /\ EffortInv'
    OBVIOUS
  <2>1. CASE Trim
    BY <2>1, TrimInv, TrimEffort
  <2>2. CASE TryAndCheck
    BY <2>2, TryAndCheckInv, TryAndCheckEffort
  <2>3. CASE Return \/ UNCHANGED vars
    <3>1. UNCHANGED <<level, decided, cuts, tries, accepted>>
      BY <2>3 DEF Return, vars
    <3>2. Inv'
      BY <2>3, <3>1 DEF Inv, TypeOK, DecidedIsAccepted, Decided, Return, vars
    <3>3. First' = First /\ Ends' = Ends /\ Lost' = Lost /\ Spent' = Spent
      BY <3>1 DEF First, Ends, Lost, Spent
    <3>4. EffortInv'
      BY <3>1, <3>3 DEF EffortInv, Settled, Short, Long, NoZeros
    <3> QED  BY <3>2, <3>4
  <2> QED  BY <2>1, <2>2, <2>3 DEF Next
<1>3. Inv /\ EffortInv => TypeOK /\ EffortInv
  BY DEF Inv
<1> QED  BY <1>1, <1>2, <1>3, PTL DEF Spec

\* However the builds go, the first tuner makes no more than one for each
\* option, and Halvings[N] for each half MergeLength of the string: the calls of
\* try_and_check are nested as deep.
THEOREM FirstTunerDepth == Spec => []DepthBound
<1>1. TypeOK /\ EffortInv => DepthBound
  BY EffortBounds
<1> QED  BY <1>1, FirstTunerEffort, PTL


-------------------------------------------------------------------------------
(* The search goes on *)

\* A call that was made can go on, whatever the answer: it has zeros to skip, or
\* an interval to build, and each has an end.
Ready ==
    searching =>
        \/ decided = N
        \/ level[decided] = 0 /\ \E d \in decided + 1 .. First : ZerosUpTo(d)
        \/ level[decided] > 0 /\ \E e \in decided + 1 .. First : IsEnd(e)

\* In every state before the last there is a step of try_and_check to take.  So
\* the recursion, whose builds are bounded (FirstTunerDepth), ends nowhere but
\* with all choices decided: what is left of Returns is that Python goes on.
THEOREM FirstTunerGoesOn == Spec => []Ready
<1>1. TypeOK => Ready
  <2> SUFFICES ASSUME TypeOK, decided # N PROVE Ready
    BY DEF Ready
  <2>1. decided \in 0 .. N /\ decided < N /\ decided \in Choice
    BY NAssumption DEF TypeOK, Choice
  <2>2. /\ First \in decided + 1 .. N
        /\ \A i \in Choice : level[i] \in Nat
    BY <2>1, FirstIsLeast DEF TypeOK, Assignment
  <2>3. \A i \in decided .. First - 1 : i \in Choice /\ level[i] \in Nat
    BY <2>1, <2>2, NAssumption DEF Choice
  <2>4. CASE level[decided] = 0
    <3> DEFINE T == {d \in decided + 1 .. First : d < First => level[d] > 0}
    <3>1. T \subseteq Nat /\ First \in T
      BY <2>1, <2>2
    <3>2. PICK d \in T : \A c \in T : d <= c
      BY <3>1, LeastNumber
    <3>3. ASSUME NEW i \in decided .. d - 1 PROVE level[i] = 0
      <4>1. CASE i = decided
        BY <2>4, <4>1
      <4>2. CASE i # decided
        <5>1. i \in decided + 1 .. First /\ i < First /\ ~ (d <= i)
          BY <2>1, <2>2, <3>2, <3>3, <4>2
        <5>2. i \notin T
          BY <3>2, <5>1
        <5>3. ~ (level[i] > 0) /\ level[i] \in Nat
          BY <2>1, <2>2, <2>3, <5>1, <5>2
        <5> QED  BY <5>3
      <4> QED  BY <4>1, <4>2
    <3>4. d \in decided + 1 .. First /\ ZerosUpTo(d)
      BY <3>2, <3>3 DEF ZerosUpTo
    <3> QED  BY <2>4, <3>4 DEF Ready
  <2>5. CASE level[decided] > 0
    <3> DEFINE T == {e \in decided + 1 .. First : e < First => level[e] = 0}
    <3>1. T \subseteq Nat /\ First \in T
      BY <2>1, <2>2
    <3>2. PICK e \in T : \A c \in T : e <= c
      BY <3>1, LeastNumber
    <3>3. ASSUME NEW i \in decided .. e - 1 PROVE level[i] > 0
      <4>1. CASE i = decided
        BY <2>5, <4>1
      <4>2. CASE i # decided
        <5>1. i \in decided + 1 .. First /\ i < First /\ ~ (e <= i)
          BY <2>1, <2>2, <3>2, <3>3, <4>2
        <5>2. i \notin T
          BY <3>2, <5>1
        <5>3. level[i] # 0 /\ level[i] \in Nat
          BY <2>1, <2>2, <2>3, <5>1, <5>2
        <5> QED  BY <5>3
      <4> QED  BY <4>1, <4>2
    <3>4. e \in decided + 1 .. First /\ IsEnd(e)
      BY <3>2, <3>3 DEF IsEnd
    <3> QED  BY <2>5, <3>4 DEF Ready
  <2>6. level[decided] = 0 \/ level[decided] > 0
    BY <2>1, <2>2
  <2> QED  BY <2>4, <2>5, <2>6
<1> QED  BY <1>1, FirstTunerTypeCorrect, PTL

===============================================================================
