----------------------------- MODULE MCVerification -----------------------------
(***************************************************************************)
(* Instances of Verification for TLC.                                      *)
(***************************************************************************)
EXTENDS Verification

CONSTANTS a, b   \* two outputs

\* Each pair has a pattern of its own.
OneEach == [p \in Pair |-> IF p = 1 THEN {a} ELSE {b}]

\* An exit code, and an abort (signal 6).
SomeCodes == {1, -6}

===============================================================================
