--------------------------- MODULE MCSimpleModel ---------------------------
(* Instances of SimpleModel for TLC.                                       *)
EXTENDS SimpleModel, TLC
=============================================================================
