-------------------------- MODULE MCControlChannel --------------------------
(* Finite instances of ControlChannel for TLC.                             *)
EXTENDS ControlChannel, TLC

\* The calls that can be sent are interchangeable, and so are the handles.
Symmetry == Permutations(Requests \ Unsendable) \cup Permutations(Handles)
=============================================================================
