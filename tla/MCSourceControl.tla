---------------------------- MODULE MCSourceControl ----------------------------
(***************************************************************************)
(* Instances of SourceControl for TLC.                                     *)
(***************************************************************************)
EXTENDS SourceControl

CONSTANTS f, xf, fx, g   \* four names; two of them contain the first

Ends == {<<xf, f>>}
Starts == {<<fx, f>>}
EitherWay == {TRUE, FALSE}
Terminated == {TRUE}

===============================================================================
