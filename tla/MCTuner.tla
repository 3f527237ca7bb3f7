-------------------------------- MODULE MCTuner --------------------------------
(***************************************************************************)
(* Instances of Tuner for TLC.                                             *)
(***************************************************************************)
EXTENDS Tuner

CONSTANTS idle, fast    \* outcomes of a search: no effect, an effect

Outcomes == {idle, fast}
NoEffect == {idle}

===============================================================================
