--------------------------- MODULE StorageHolding ---------------------------
(***************************************************************************)
(* What the storage controllers promise about the lifetime of storages: a   *)
(* storage exists exactly as long as the client owns it or some controller  *)
(* controls it.  No counts, no callbacks, no intermediate states.           *)
(***************************************************************************)
EXTENDS Naturals

CONSTANTS Controllers, Storages, NULL

VARIABLES
  controlled,  \* the storage each controller controls, or NULL
  mine,        \* how many references the client owns on each storage
  exists       \* the storages that are allocated

abstractVars == <<controlled, mine, exists>>

Init ==
  /\ controlled = [c \in Controllers |-> NULL]
  /\ mine = [s \in Storages |-> 0]
  /\ exists = {}

\* s is reachable: the client owns it or a controller controls it.
Held(s) == mine[s] > 0 \/ \E c \in Controllers : controlled[c] = s

\* Whatever stops being held ceases to exist in that very step, and nothing
\* else does.
KeepHeld == exists' = {s \in exists : Held(s)'}

Create(s) ==
  /\ s \notin exists
  /\ mine' = [mine EXCEPT ![s] = 1]
  /\ exists' = exists \cup {s}
  /\ UNCHANGED controlled

\* The client takes one more reference on a storage that exists.
Take(s) ==
  /\ s \in exists
  /\ mine' = [mine EXCEPT ![s] = @ + 1]
  /\ UNCHANGED <<controlled, exists>>

GiveUp(s) ==
  /\ mine[s] > 0
  /\ mine' = [mine EXCEPT ![s] = @ - 1]
  /\ KeepHeld
  /\ UNCHANGED controlled

\* A controller is given a storage that exists, or gives up the one it has.
Control(c, s) ==
  /\ s = NULL \/ s \in exists
  /\ controlled' = [controlled EXCEPT ![c] = s]
  /\ KeepHeld
  /\ UNCHANGED mine

Next ==
  \/ \E s \in Storages : Create(s) \/ Take(s) \/ GiveUp(s)
  \/ \E c \in Controllers, s \in Storages \cup {NULL} : Control(c, s)

Spec == Init /\ [][Next]_abstractVars

\* A storage exists only while it is held.
ExistsWhileHeld == \A s \in Storages : s \in exists <=> Held(s)
=============================================================================
