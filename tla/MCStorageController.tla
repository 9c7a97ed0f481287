------------------------ MODULE MCStorageController ------------------------
(* Small instances of StorageController.                                   *)
EXTENDS StorageController, TLC

\* Instances of a class are interchangeable, and so are storages of a kind.
Symmetry == Permutations(ArrayControllers) \cup Permutations(PtrArrayControllers)
            \cup Permutations(HashControllers) \cup Permutations(Arrays)
            \cup Permutations(PtrArrays) \cup Permutations(HashTables)

\* Where free functions call the controller that is releasing, references are
\* lost and dropped twice again and again.  Once one of them owns what is being
\* freed, it will be freed twice: the states after that one are not explored.
LeakBound == ~reborn /\ \A s \in Storages : refs[s] \in -1..4
=============================================================================
