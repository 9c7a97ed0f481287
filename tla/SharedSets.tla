----------------------------- MODULE SharedSets -----------------------------
(***************************************************************************)
(* What index sets promise the threads that share them: a set keeps its     *)
(* contents as long as somebody has it, and only the one thread that has it *)
(* to itself can change them, to what it asks for.  No counts, no arrays,   *)
(* no order of the indices.                                                 *)
(***************************************************************************)
CONSTANTS
  Threads,
  Sets,
  Requests   \* the sets of indices a thread may ask for by themselves

VARIABLES
  exists,    \* the sets that are allocated
  has,       \* the sets each thread may use
  contents   \* the indices in each set

abstractVars == <<exists, has, contents>>

Init ==
  /\ exists = {}
  /\ has = [t \in Threads |-> {}]
  /\ contents = [s \in Sets |-> {}]

Create(t, s) ==
  /\ s \notin exists
  /\ exists' = exists \cup {s}
  /\ has' = [has EXCEPT ![t] = @ \cup {s}]
  /\ contents' = [contents EXCEPT ![s] = {}]

Share(t, u, s) ==
  /\ s \in has[t]
  /\ has' = [has EXCEPT ![u] = @ \cup {s}]
  /\ UNCHANGED <<exists, contents>>

GiveUp(t, s) ==
  /\ s \in has[t]
  /\ has' = [has EXCEPT ![t] = @ \ {s}]
  /\ UNCHANGED <<exists, contents>>

\* Only what no thread has is taken away.
Reclaim(s) ==
  /\ s \in exists /\ \A t \in Threads : s \notin has[t]
  /\ exists' = exists \ {s}
  /\ contents' = [contents EXCEPT ![s] = {}]
  /\ UNCHANGED has

Put(t, s, set) ==
  /\ \A u \in Threads : s \in has[u] <=> u = t
  /\ contents' = [contents EXCEPT ![s] = set]
  /\ UNCHANGED <<exists, has>>

\* What the thread asks for, or what is in a set it has.
Fill(t, s) ==
  \/ \E set \in Requests : Put(t, s, set)
  \/ \E source \in has[t] : Put(t, s, contents[source])

Next ==
  \/ \E s \in Sets : Reclaim(s)
  \/ \E t \in Threads, s \in Sets : Create(t, s) \/ GiveUp(t, s) \/ Fill(t, s)
  \/ \E t, u \in Threads, s \in Sets : Share(t, u, s)

Spec == Init /\ [][Next]_abstractVars
=============================================================================
