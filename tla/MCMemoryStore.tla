---------------------------- MODULE MCMemoryStore ----------------------------
(* Model checking of MemoryStore: users and requests are interchangeable. *)
EXTENDS MemoryStore, TLC

Symmetric == Permutations(Users) \cup Permutations(Reqs)
================================================================================
