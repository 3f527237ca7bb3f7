------------------------------- MODULE FirstTuner -------------------------------
(***************************************************************************)
(* The tuner's first version, old_tuner.py: one script, one search for all *)
(* choices of a source file.  try_and_check keeps the string of the        *)
(* choices it decided (fixed) and the rest of the string cut into          *)
(* intervals; a call tries the first interval and calls itself.  A build   *)
(* mentions the decided choices and that interval, never a choice more.    *)
(*                                                                         *)
(* A choice is named by its position in the string.  An answer is          *)
(* arbitrary: a compilation that fails, and an output other than the       *)
(* expected one, are a rejection.                                          *)
(***************************************************************************)
EXTENDS Integers, FiniteSets

CONSTANTS
    N,            \* length of the initial string
    MaxOptions,   \* options of a choice; 1 for a kind that is not searched
    MergeLength   \* from this length on half an interval joins the next: 16

Choice == 0 .. N - 1
Assignment == [Choice -> Nat]

ASSUME NAssumption == N \in Nat \ {0}
ASSUME OptionsAssumption ==
    MaxOptions \in [Choice -> Nat] /\ \A i \in Choice : MaxOptions[i] >= 1
ASSUME MergeAssumption == MergeLength \in Nat \ {0, 1}

VARIABLES
    level,      \* the digit of every choice
    decided,    \* length of fixed
    cuts,       \* where the intervals end
    tries,      \* history: the builds
    accepted,   \* history: the assignment of the last build that passed
    searching   \* FALSE once the outermost call has returned

vars == <<level, decided, cuts, tries, accepted, searching>>

\* A control string with the first d digits.
Decided(lvl, d) == [i \in Choice |-> IF i < d THEN lvl[i] ELSE 0]

\* first_interval is decided .. First - 1
First == CHOOSE c \in cuts : \A d \in cuts : c <= d

-------------------------------------------------------------------------------

TypeOK ==
    /\ level \in Assignment
    /\ decided \in 0 .. N
    /\ cuts \subseteq decided + 1 .. N
    /\ decided < N => N \in cuts
    /\ tries \in Nat
    /\ accepted \in Assignment
    /\ searching \in BOOLEAN

Init ==
    /\ level = [i \in Choice |-> MaxOptions[i] - 1]
    /\ decided = 0
    /\ cuts = {N}
    /\ tries = 0
    /\ accepted = [i \in Choice |-> 0]
    /\ searching = TRUE

\* (The definitions named Slip... are mistakes the code could have made in
\* the operator that follows: the properties below tell them apart.)
SlipZerosUpTo(d) ==
    (\A i \in decided .. d - 1 : level[i] = 0) /\ d < First /\ level[d] > 0
ZerosUpTo(d) ==
    (\A i \in decided .. d - 1 : level[i] = 0) /\ (d < First => level[d] > 0)

\* The zeros at the start of the first interval are decided without a build.
Trim ==
    /\ searching
    /\ decided < N /\ level[decided] = 0
    /\ \E d \in decided + 1 .. First :
          /\ ZerosUpTo(d)
          /\ decided' = d
          /\ cuts' = cuts \ {d}
    /\ UNCHANGED <<level, tries, accepted, searching>>

\* The interval of a build ends before the first zero in it; what follows is
\* put in front of the next interval.
IsEnd(e) ==
    /\ \A i \in decided .. e - 1 : level[i] > 0
    /\ e < First => level[e] = 0
SlipCutsAt(e) == IF e = First THEN cuts ELSE (cuts \ {First}) \cup {e}
CutsAt(e) == IF e = First THEN cuts ELSE (cuts \ ({First} \ {N})) \cup {e}

\* The interval passed: it is decided.
SlipAcceptUpTo(e) ==
    /\ decided' = e
    /\ accepted' = Decided(level, e - 1)
    /\ cuts' = CutsAt(e) \ {e}
    /\ UNCHANGED level
AcceptUpTo(e) ==
    /\ decided' = e
    /\ accepted' = Decided(level, e)
    /\ cuts' = CutsAt(e) \ {e}
    /\ UNCHANGED level

\* A single choice failed: it loses one level, and is decided at level 0.
SlipLower ==
    /\ level' = [level EXCEPT ![decided] = @ - 1]
    /\ decided' = decided
    /\ cuts' = CutsAt(decided + 1)
    /\ UNCHANGED accepted
Lower ==
    /\ level' = [level EXCEPT ![decided] = @ - 1]
    /\ IF level[decided] = 1
       THEN decided' = decided + 1 /\ cuts' = CutsAt(decided + 1) \ {decided + 1}
       ELSE decided' = decided /\ cuts' = CutsAt(decided + 1)
    /\ UNCHANGED accepted

\* A longer interval failed: its first half is next; the second half is an
\* interval, or the start of the one that follows.
Middle(e) == decided + (e - decided) \div 2

SlipHalveAt(e) ==
    /\ cuts' = {Middle(e)} \cup IF e = N THEN CutsAt(e) ELSE CutsAt(e) \ {e}
    /\ UNCHANGED <<level, decided, accepted>>
HalveAt(e) ==
    /\ cuts' = {Middle(e)} \cup IF e = N \/ e - decided < MergeLength
                               THEN CutsAt(e) ELSE CutsAt(e) \ {e}
    /\ UNCHANGED <<level, decided, accepted>>

\* A build and a run of the program.
TryAndCheck ==
    /\ searching
    /\ decided < N /\ level[decided] > 0
    /\ tries' = tries + 1
    /\ \E e \in decided + 1 .. First :
          /\ IsEnd(e)
          /\ \/ AcceptUpTo(e)
             \/ e = decided + 1 /\ Lower
             \/ e > decided + 1 /\ HalveAt(e)
    /\ UNCHANGED searching

\* No interval is left: all calls return the string.
Return ==
    /\ searching
    /\ decided = N
    /\ searching' = FALSE
    /\ UNCHANGED <<level, decided, cuts, tries, accepted>>

Next == Trim \/ TryAndCheck \/ Return

Spec == Init /\ [][Next]_vars /\ WF_vars(Next)

-------------------------------------------------------------------------------
(* Properties *)

\* Every moment of the search stands on a build that passed: the decided
\* choices at their levels, and nothing else.  So the string that is returned
\* passed, and the assertion of the last line of the script holds for every
\* verification whose answers do not change.
DecidedIsAccepted == accepted = Decided(level, decided)

\* The first tuner keeps the same promise as its successor, with builds that
\* never look ahead.
Promise == INSTANCE OptimisticSearch WITH confirmed <- accepted
ImplementsPromise == Promise!Init /\ [][Promise!Next]_(Promise!vars)

\* The options of the choices before n that are searched.
OptionsBefore[n \in 0 .. N] ==
    IF n = 0 THEN 0
    ELSE OptionsBefore[n - 1] + IF MaxOptions[n - 1] > 1 THEN MaxOptions[n - 1] ELSE 0

\* How often an interval of n choices is halved until it is too short to join.
Halvings[n \in 0 .. N] ==
    IF n < MergeLength THEN 0 ELSE 1 + Halvings[n \div 2]

HalfLength == MergeLength \div 2

\* Every option costs the search one build, as in ChoiceExplorer, but for the
\* joining: halvings of an interval from MergeLength on are forgotten when its
\* second half joins the next one, and are done again after every half
\* MergeLength choices.  (Each build is a call inside the call before, and
\* Python raises RecursionError at a depth of 1000.)
DepthBound ==
    tries <= OptionsBefore[N] + Halvings[N] * (N \div HalfLength)

\* Halving, merging and lowering come to an end, whatever the answers.
Returns == <>~searching

-------------------------------------------------------------------------------
(* The inductive invariant of the number of builds *)

\* Builds that an option of a decided choice pays for, a level the next choice
\* lost, or an end of an interval that halving put there.
Ends == cuts \ {N}
Lost == IF decided < N THEN MaxOptions[decided] - 1 - level[decided] ELSE 0
Spent == OptionsBefore[decided] + Lost + Cardinality(Ends)

\* The other builds, whose second half was joined, come in at most Halvings[N]
\* for each start of a search that ends with half MergeLength choices in an
\* interval of its own: r such intervals are decided up to here,
NoZeros(c) == \A i \in decided .. c - 1 : level[i] > 0
Settled(r) ==
    /\ tries <= Spent + Halvings[N] * r
    /\ r * HalfLength <= decided
\* or up to c, where the last one of them ends,
Short(r) ==
    /\ tries <= Spent + Halvings[N] * r
    /\ \E c \in cuts : /\ c - decided < MergeLength /\ NoZeros(c)
                       /\ r * HalfLength <= c
\* or a next one is being halved.
Long(r) ==
    /\ decided < N /\ First < N /\ First - decided >= MergeLength /\ NoZeros(First)
    /\ tries <= Spent + Halvings[N] * r + Halvings[N] - Halvings[First - decided]
    /\ r * HalfLength <= decided

EffortInv ==
    /\ decided < N => /\ level[decided] < MaxOptions[decided]
                      /\ level[decided] = 0 => MaxOptions[decided] = 1
    /\ \A i \in Choice : i > decided => level[i] = MaxOptions[i] - 1
    /\ \A c \in Ends : MaxOptions[c - 1] > 1
    /\ \E r \in 0 .. N : Settled(r) \/ Short(r) \/ Long(r)

===============================================================================
