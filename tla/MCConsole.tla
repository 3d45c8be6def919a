------------------------------ MODULE MCConsole ------------------------------
(* Symmetry for the configurations of Console.                               *)
EXTENDS Console, TLC

Interchangeable == Permutations(Clients)
=============================================================================
