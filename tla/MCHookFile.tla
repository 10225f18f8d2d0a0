----------------------------- MODULE MCHookFile -----------------------------
(* Three processes, any two of which may do the same or the opposite.      *)
EXTENDS HookFile, TLC

Interchangeable == Permutations(Proc)
=============================================================================
