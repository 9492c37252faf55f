------------------------------ MODULE MCServer ------------------------------
(***************************************************************************)
(* Server for TLC: the sizes are in the configuration.                     *)
(***************************************************************************)
EXTENDS Server, TLC

\* Keys and threads are only ever compared for equality.
Symmetry == Permutations(Keys) \cup Permutations(Threads)

\* No step and no property reads what the last call returned.
ServerView == <<store, now, calls, gc, metrics, stats, lapsed>>
=============================================================================
