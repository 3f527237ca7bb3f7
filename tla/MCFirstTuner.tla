------------------------------ MODULE MCFirstTuner ------------------------------
(***************************************************************************)
(* Instances of FirstTuner for TLC.                                        *)
(***************************************************************************)
EXTENDS FirstTuner

\* Choices of two and three options, the second and the last of a kind not
\* searched.
SomeSkipped ==
    [i \in Choice |-> IF i \in {1, N - 1} THEN 1 ELSE IF i % 4 = 2 THEN 3 ELSE 2]

===============================================================================
