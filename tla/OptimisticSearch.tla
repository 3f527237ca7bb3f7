--------------------------- MODULE OptimisticSearch ---------------------------
(***************************************************************************)
(* What the search of the optimistic tuner promises, without saying how it *)
(* picks the blocks of choices it tries.  N choices stand in a row; choice *)
(* i starts at its most optimistic level MaxOptions[i] - 1.  The choices   *)
(* are decided from the left: a confirmed build decides a block of them at *)
(* the level they have, a rejected build may lower the first undecided     *)
(* choice, and a choice that reaches level 0 (no optimism) is decided.     *)
(*                                                                         *)
(* confirmed is the last assignment of levels the user's verification      *)
(* accepted; an assignment maps a choice the control string does not       *)
(* mention to 0.                                                           *)
(***************************************************************************)
EXTENDS Integers

CONSTANTS
    N,           \* number of optimistic choices, > 0
    MaxOptions   \* number of options of each choice, at least 2

Choice == 0 .. N - 1

VARIABLES
    level,       \* the present level of every choice
    decided,     \* choices 0 .. decided - 1 are final
    confirmed,   \* the assignment of the last accepted build
    searching    \* FALSE once the search has returned

vars == <<level, decided, confirmed, searching>>

Assignment == [Choice -> Nat]

\* What the search would return now: undecided choices are not mentioned.
Decided(lvl, d) == [i \in Choice |-> IF i < d THEN lvl[i] ELSE 0]

Init ==
    /\ level = [i \in Choice |-> MaxOptions[i] - 1]
    /\ decided = 0
    /\ confirmed = [i \in Choice |-> 0]
    /\ searching = TRUE

\* A build that mentions the choices up to some later one, and perhaps one
\* more, is accepted: every choice before the last mentioned is decided.
Confirm ==
    /\ searching
    /\ \E d \in decided + 1 .. N :
          /\ decided' = d
          /\ \E ahead \in {d, d + 1} : confirmed' = Decided(level, ahead)
    /\ UNCHANGED <<level, searching>>

\* The first undecided choice loses one level; at level 0 it is decided.
Lower ==
    /\ searching
    /\ decided < N
    /\ level[decided] > 0
    /\ level' = [level EXCEPT ![decided] = @ - 1]
    /\ decided' = IF level'[decided] = 0 THEN decided + 1 ELSE decided
    /\ UNCHANGED <<confirmed, searching>>

\* The search returns, because nothing is left or because a limit is hit;
\* the choices it did not decide are dropped.
Return ==
    /\ searching
    /\ searching' = FALSE
    /\ level' = Decided(level, decided)
    /\ UNCHANGED <<decided, confirmed>>

Next == Confirm \/ Lower \/ Return

Spec == Init /\ [][Next]_vars

-------------------------------------------------------------------------------

\* The decided choices are those of the last confirmed build, except that at
\* most one of its choices has since been decided against (level 0): the
\* search never returns optimism that no accepted build contained.
NothingUnconfirmed ==
    \E p \in 0 .. N :
        \A i \in Choice :
            Decided(level, decided)[i] = IF i = p THEN 0 ELSE confirmed[i]

===============================================================================
