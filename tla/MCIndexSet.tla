----------------------------- MODULE MCIndexSet -----------------------------
(* Instances of IndexSet for TLC.                                          *)
EXTENDS IndexSet, TLC
=============================================================================
