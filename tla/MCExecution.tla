------------------------------- MODULE MCExecution -------------------------------
(* The executor by itself, for the claim its compensation does not keep.     *)
EXTENDS Execution
================================================================================
