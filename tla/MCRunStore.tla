------------------------------ MODULE MCRunStore ------------------------------
(***************************************************************************)
(* Small instances of RunStore: two processes whose records differ, so a   *)
(* lost, duplicated or reordered record shows in the chain.                *)
(***************************************************************************)
EXTENDS RunStore, TLC

Symmetric == Permutations(Procs) \cup Permutations(Vals)
===============================================================================
