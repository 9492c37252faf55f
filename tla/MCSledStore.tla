----------------------------- MODULE MCSledStore -----------------------------
(***************************************************************************)
(* SledStore for TLC: the sizes are in the configurations.                 *)
(***************************************************************************)
EXTENDS SledStore, TLC

\* Keys and requests are only ever compared for equality.
Symmetry == Permutations(Keys) \cup Permutations(Callers)
=============================================================================
