-------------------------- MODULE MCAssemblerClient -------------------------
(* Finite instances of AssemblerClient for TLC.                            *)
EXTENDS AssemblerClient, TLC

\* No action tells two unused connections, calls or answers apart.
Symmetry == Permutations(Requests) \cup Permutations(Answers) \cup Permutations(Conns)
=============================================================================
