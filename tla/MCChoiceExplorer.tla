---------------------------- MODULE MCChoiceExplorer ----------------------------
(***************************************************************************)
(* Instances of ChoiceExplorer for TLC.                                    *)
(***************************************************************************)
EXTENDS ChoiceExplorer

\* Choices of two and of three options in turn, the two smallest numbers
\* the annotator reports.
TwoOrThree == [i \in Choice |-> 2 + (i % 2)]

===============================================================================
