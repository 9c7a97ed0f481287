---------------------------- MODULE ViewsInStep ----------------------------
(***************************************************************************)
(* What a model promises its views: it changes only while every view knows  *)
(* its contents, and a view that follows a change knows all of it.  Views   *)
(* come and go at any time, and a change may leave some of them behind.     *)
(* No events, no indices, no nested calls.                                  *)
(***************************************************************************)
EXTENDS Sequences

CONSTANTS Views, Texts

VARIABLES
  contents,   \* the texts of the model
  watching,   \* the views that follow it
  seen        \* what each view takes the contents to be

abstractVars == <<contents, watching, seen>>

Init ==
  /\ contents = <<>>
  /\ watching = {}
  /\ seen = [v \in Views |-> <<>>]

\* The model waits for the views that go on following it.  It may let go of
\* the others.
Change ==
  \E left \in SUBSET watching :
    /\ \A v \in watching \ left : seen[v] = contents
    /\ contents' \in Seq(Texts)
    /\ watching' = watching \ left
    /\ seen' = [v \in Views |-> IF v \in left THEN <<>> ELSE seen[v]]

CatchUp(v) ==
  /\ v \in watching
  /\ seen' = [seen EXCEPT ![v] = contents]
  /\ UNCHANGED <<contents, watching>>

\* A view begins with the contents of that moment.
Join(v) ==
  /\ watching' = watching \cup {v}
  /\ seen' = [seen EXCEPT ![v] = contents]
  /\ UNCHANGED contents

Leave(v) ==
  /\ watching' = watching \ {v}
  /\ seen' = [seen EXCEPT ![v] = <<>>]
  /\ UNCHANGED contents

\* The model is gone, for everybody at once.
Close ==
  /\ contents' = <<>>
  /\ watching' = {}
  /\ seen' = [v \in Views |-> <<>>]

Next == Change \/ Close \/ \E v \in Views : CatchUp(v) \/ Join(v) \/ Leave(v)

Spec == Init /\ [][Next]_abstractVars
=============================================================================
