---------------------------- MODULE MCVerifiedSearch ----------------------------
(***************************************************************************)
(* Instances of VerifiedSearch for TLC.                                    *)
(***************************************************************************)
EXTENDS VerifiedSearch

\* Choices of two and of three options in turn.
TwoOrThree == [i \in Choice |-> 2 + (i % 2)]
\* Only choices that are made or not.
Two == [i \in Choice |-> 2]

UpTo(limit) == {a \in AllAssignments : Below(a, limit)}

\* The independent verifications.
OneLimit == {UpTo(limit) : limit \in AllAssignments}

\* Whatever is below one of two limits: choices that exclude each other, and
\* with a = b the independent verifications.
TwoLimits == {UpTo(a) \cup UpTo(b) : a, b \in AllAssignments}
\* All but two assignments fail, or one fails and all others pass.
TwoPass == {{Pessimistic, a} : a \in AllAssignments}
OneFails == {AllAssignments \ {a} : a \in AllAssignments \ {Pessimistic}}

Varied == TwoLimits \cup TwoPass \cup OneFails

===============================================================================
