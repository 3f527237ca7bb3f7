---------------------------- MODULE VerifiedSearch ----------------------------
(***************************************************************************)
(* One annotator run of optimizeAndRun: the search of ChoiceExplorer driven *)
(* by a verification whose answer depends on the control string alone, and *)
(* the forced validation of the string the search returns.                 *)
(*                                                                         *)
(* valid is the set of assignments the verification accepts.  It is chosen *)
(* at the start and never changes; the program without optimism was        *)
(* verified by runBenchmark before any search, so it always is valid.      *)
(***************************************************************************)
EXTENDS ChoiceExplorer

CONSTANT Verifiers   \* the sets of assignments that valid may be

Pessimistic == [i \in Choice |-> 0]

\* A choice is made at one of its options, so that no verification sees more.
Top == [i \in Choice |-> MaxOptions[i] - 1]
Below(a, b) == \A i \in Choice : a[i] <= b[i]

ASSUME VerifiersAssumption ==
    \A S \in Verifiers :
        /\ S \subseteq {a \in Assignment : Below(a, Top)}
        /\ Pessimistic \in S

VARIABLES
    valid,     \* the assignments whose build passes the verification
    verdict    \* of the forced validation: "none", "success" or "assertion"

verifiedVars == <<vars, valid, verdict>>

-------------------------------------------------------------------------------
(* Kinds of verification *)

\* Every assignment the annotator can be asked for.
Highest == CHOOSE m \in {Top[i] : i \in Choice} : \A i \in Choice : Top[i] <= m
AllAssignments ==
    {a \in [Choice -> 0 .. Highest] : \A i \in Choice : a[i] <= Top[i]}

\* Any outcome whatever for the assignments that are not pessimistic.
AnyVerifier ==
    {S \cup {Pessimistic} : S \in SUBSET (AllAssignments \ {Pessimistic})}

\* Less optimism in a choice is never less correct.
Monotone(S) ==
    \A a \in S, i \in Choice :
        \A level \in 0 .. a[i] : [a EXCEPT ![i] = level] \in S

\* Each choice alone is correct up to a level of its own, its limit, and the
\* choices do not influence each other.
IsLimit(limit, S) == \A a \in S : Below(a, limit)
Independent(S) == Monotone(S) /\ \E limit \in S : IsLimit(limit, S)

-------------------------------------------------------------------------------

\* The types, for the invariant of SearchProofs.
VerifiedTypeOK ==
    /\ TypeOK
    /\ valid \subseteq Assignment
    /\ Pessimistic \in valid
    /\ verdict \in {"none", "success", "assertion"}

VerifiedInit ==
    /\ Init
    /\ valid \in Verifiers
    /\ verdict = "none"

\* it.send(success): the answer is the verification's.
Search ==
    /\ \/ Propose \/ Resolve \/ CutOff
       \/ Probe \in valid /\ Accept
       \/ Probe \notin valid /\ (Bisect \/ LimitChoice)
    /\ UNCHANGED <<valid, verdict>>

\* except StopIteration: the string that is left is compiled and verified
\* once more, and optimizeAndRun asserts that it passes.
ForcedValidation ==
    /\ pc \in {"resolved", "limited"}
    /\ verdict = "none"
    /\ verdict' = IF Levels(control) \in valid THEN "success" ELSE "assertion"
    /\ UNCHANGED <<vars, valid>>

VerifiedNext == Search \/ ForcedValidation

VerifiedSpec ==
    VerifiedInit /\ [][VerifiedNext]_verifiedVars /\ WF_verifiedVars(VerifiedNext)

-------------------------------------------------------------------------------
(* Properties *)

\* The string a search returns passes the forced validation, so that the
\* assertion of line 620 holds.
FinalStringVerifies == verdict # "assertion"

\* It does if the verification is monotone, whatever limits the search.
MonotoneSucceeds == verdict = "assertion" => ~Monotone(valid)

\* The forced validation can only fail when the search has dropped a choice
\* from the last build that was accepted, and then it has dropped just one:
\* all other assignments the search can return were verified already.
AssertionMeansDropped ==
    verdict = "assertion" =>
        \E p \in Choice :
            accepted[p] > 0 /\ value = [accepted EXCEPT ![p] = 0]

\* A choice is decided optimistically only together with the choice after
\* it at the level that one then has.  So under an independent verification
\* the search ends exactly here: a choice keeps its own limit, unless the
\* next choice is limited at all, which drives this one down to level 0.
Limit == CHOOSE limit \in valid : IsLimit(limit, valid)
NextUnlimited(i) == i + 1 \in Choice => Limit[i + 1] = Top[i + 1]

ExactResult ==
    verdict # "none" /\ Independent(valid) =>
        \A i \in 0 .. firstPos - 1 :
            value[i] = IF NextUnlimited(i) THEN Limit[i] ELSE 0

\* The paper has it that "we find a locally optimal solution", and that "if an
\* opportunity is already tested in isolation, the optimism of the choice is
\* decreased" (ISC19.pdf, page 11).  Of choices that do not influence each
\* other this leaves each decided one where one more level is not correct.
\* In the code a choice is never tested in isolation while another one
\* follows, and is lowered for the level of that one.
LocallyOptimal ==
    verdict # "none" /\ Independent(valid) =>
        \A i \in 0 .. firstPos - 1 :
            value[i] < Top[i] => [value EXCEPT ![i] = @ + 1] \notin valid

\* While it searches: the current choice is not yet below its limit, unless
\* the next one is limited.
ExactSoFar ==
    Independent(valid) =>
        /\ \A i \in 0 .. firstPos - 1 :
              value[i] = IF NextUnlimited(i) THEN Limit[i] ELSE 0
        /\ Searching /\ cur < N /\ NextUnlimited(cur) => value[cur] >= Limit[cur]

===============================================================================
