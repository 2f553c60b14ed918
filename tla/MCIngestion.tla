---------------------------- MODULE MCIngestion -----------------------------
(* Model-checking instance of Ingestion: two keys so that a file can repeat *)
(* a key or hold one already stored, batches of two so that a file of      *)
(* three records has a full batch and a partial one.                      *)
EXTENDS Ingestion

CONSTANTS k1, k2

MCKeys == {k1, k2}
=============================================================================
