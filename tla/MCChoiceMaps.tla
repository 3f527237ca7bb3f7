------------------------------ MODULE MCChoiceMaps ------------------------------
(***************************************************************************)
(* Instances of ChoiceMaps for TLC.                                        *)
(***************************************************************************)
EXTENDS ChoiceMaps

\* Two names in one function, one of them in another function and for two
\* values of the first.
FourValues == {<<1, 1, 1>>, <<1, 1, 2>>, <<1, 2, 1>>, <<2, 1, 1>>}
ByFunction == <<<<1, 1, 1>>, <<1, 2, 1>>, <<1, 1, 2>>, <<2, 1, 1>>>>

\* One value has three options: those of its name differ within its function
\* and between functions.
TwoOrThree == [v \in Value |-> IF v = <<1, 1, 1>> THEN 3 ELSE 2]

===============================================================================
