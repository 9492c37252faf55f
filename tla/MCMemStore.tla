----------------------------- MODULE MCMemStore -----------------------------
(***************************************************************************)
(* MemStore for TLC: the sizes are in the configurations.                  *)
(***************************************************************************)
EXTENDS MemStore, TLC

\* Keys are only ever compared for equality.
KeySymmetry == Permutations(Keys)

\* No call reads the reply of an earlier one, and what a call replies is looked at
\* in the step that makes it.
StoreView == <<store, now>>
=============================================================================
