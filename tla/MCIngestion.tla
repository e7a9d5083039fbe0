------------------------------- MODULE MCIngestion -------------------------------
(* Two runs of one restaurant that two workers execute, possibly twice, and a
   review: instances of Ingestion for TLC. *)
EXTENDS Ingestion, TLC
================================================================================
