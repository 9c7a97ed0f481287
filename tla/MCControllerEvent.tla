------------------------- MODULE MCControllerEvent -------------------------
(* Instances of ControllerEvent for TLC.                                   *)
EXTENDS ControllerEvent, TLC

Symmetry == Permutations(FinalizeControllers)
              \cup Permutations(Controllers \ FinalizeControllers) \cup Permutations(Events)
              \cup Permutations(Handlers) \cup Permutations(Types)
=============================================================================
