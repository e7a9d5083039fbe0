------------------------------ MODULE MCOrderDesk ------------------------------
(* One row, three staff requests in flight and an agent cancelling it: rows do
   not interact, so the sessions are what has to be many. *)
EXTENDS OrderDesk, TLC

Symmetry == Permutations(Turn) \cup Permutations(Staff)
================================================================================
