----------------------------- MODULE MCKeystore -----------------------------
(***************************************************************************)
(* Instances of Keystore for TLC.                                          *)
(***************************************************************************)
EXTENDS Keystore, TLC

\* Interchangeable names; sound without liveness properties
Symmetry == Permutations(Threads) \cup Permutations(Names) \cup Permutations(Locks)
=============================================================================
