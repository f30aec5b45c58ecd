----------------------------- MODULE MCHostStore -----------------------------
(***************************************************************************)
(* Small instances of HostStore: two processes.                            *)
(***************************************************************************)
EXTENDS HostStore, TLC

Symmetric == Permutations(Procs)
===============================================================================
