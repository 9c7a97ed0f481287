----------------------- MODULE ControllerEventProofs -----------------------
(***************************************************************************)
(* Proofs about ControllerEvent, for any controllers, any finite set of     *)
(* events, any handlers and any bounds.                                     *)
(***************************************************************************)
EXTENDS ControllerEvent, FiniteSetTheorems, SequenceTheorems, TLAPS

(* The inductive invariant.  CountsBalanced alone is not inductive: a step   *)
(* out of a suspended call gives back what its frame stands for, so the      *)
(* frames have to be tied to the event and the controller they are about.    *)
(* The parts are operators of the state they speak of: an unref from inside  *)
(* an emission is about a stack that no state has.  What fails once an event *)
(* was disposed of from within its own dispose is stated for a slack of 0.   *)

Slack == IF redisposed THEN 1 ELSE 0

\* The calls that hold a reference on an event, and on a controller; the events
\* that hold one on a controller: not those whose dispose has come as far as
\* its finalize.
Disposal == {"releasing", "finalizing"}
EventFrames(st, e) == {i \in DOMAIN st : st[i].event = e}
Holding(f, c) == f.ctl = c /\ f.at # "finalizing" /\ (f.at = "releasing" => f.event = NULL)
CtlFrames(st, c) == {i \in DOMAIN st : Holding(st[i], c)}
FinalizedIn(st, e) == \E i \in DOMAIN st : st[i].at = "finalizing" /\ st[i].event = e
Created(ctl, st, c) == {e \in Events : ctl[e] = c /\ ~FinalizedIn(st, e)}

OfEvent(st, e) == Cardinality(EventFrames(st, e))
OfCtl(st, c) == Cardinality(CtlFrames(st, c))
OfCreated(ctl, st, c) == Cardinality(Created(ctl, st, c))

EventsCounted(refs, own, st) == \A e \in Events : refs[e] = own[e] + OfEvent(st, e)

\* No more references than holders, and exactly as many without slack.
Counted(n, held, slack) == n <= held /\ (slack = 0 => n = held)
CtlsCounted(refs, own, ctl, st, slack) ==
  \A c \in Controllers :
    Counted(refs[c], own[c] + OfCreated(ctl, st, c) + OfCtl(st, c), slack)

\* An emission has an event until it gives it back; a controller whose release
\* was begun by an event is the one of that event, which may have lost it to
\* another dispose of it.
FrameOK(ctl, f, slack) ==
  /\ f.at = "emitting" => f.event # NULL
  /\ f.at = "finishing" => f.event = NULL
  /\ f.at = "finalizing" => f.ctl \in FinalizeControllers
  /\ f.at \in Disposal /\ f.event # NULL =>
       /\ ctl[f.event] \in {f.ctl, NULL}
       /\ slack = 0 => ctl[f.event] = f.ctl
FramesOK(ctl, st, slack) == \A i \in DOMAIN st : FrameOK(ctl, st[i], slack)

DisposedIn(st, e) == \E i \in DOMAIN st : st[i].at \in Disposal /\ st[i].event = e

\* The dispose of an event is in progress once at most.
OneDispose(st, slack) ==
  slack = 0 =>
    \A i, j \in DOMAIN st :
      /\ st[i].at \in Disposal /\ st[j].at \in Disposal
      /\ st[i].event = st[j].event /\ st[i].event # NULL
      => i = j

\* A freed event has let go of its controller.
FreedEvents(refs, ctl) == \A e \in Events : refs[e] = 0 => ctl[e] = NULL

\* A live event has a type.
LiveTyped(refs, types) == \A e \in Events : refs[e] > 0 => types[e] \in Types

IInv ==
  /\ TypeOK
  /\ EventsCounted(eventRefs, eventOwned, stack)
  /\ CtlsCounted(ctlRefs, ctlOwned, controller, stack, Slack)
  /\ FramesOK(controller, stack, Slack)
  /\ OneDispose(stack, Slack)
  /\ FreedEvents(eventRefs, controller)
  /\ LiveTyped(eventRefs, index_type)

-----------------------------------------------------------------------------
(* Lemmas about sequences.                                                 *)

\* A nonempty set of natural numbers has a least element.
LEMMA LeastPosition ==
  ASSUME NEW T \in SUBSET Nat, T # {}
  PROVE  \E x \in T : \A y \in T : x <= y
<1>1. PICK x \in T : \A y \in T : ~(<<y, x>> \in OpToRel(<, Nat))
  BY WFMin, NatLessThanWellFounded
<1>2. ASSUME NEW y \in T, y < x
      PROVE  FALSE
  <2> DEFINE p == <<y, x>>
  <2>1. p \in Nat \X Nat /\ p[1] < p[2]
    BY <1>2
  <2>2. p \in OpToRel(<, Nat)
    BY <2>1 DEF OpToRel
  <2> QED  BY <1>1, <2>2
<1>3. \A y \in T : x <= y
  BY <1>2
<1> QED  BY <1>3

LEMMA RemoveFirstTyped ==
  ASSUME NEW S, NEW s \in Seq(S), NEW x
  PROVE  RemoveFirst(s, x) \in Seq(S)
<1>1. CASE ~\E i \in 1..Len(s) : s[i] = x
  BY <1>1 DEF RemoveFirst
<1>2. CASE \E i \in 1..Len(s) : s[i] = x
  <2> DEFINE I == {i \in 1..Len(s) : s[i] = x}
             n == Min(I)
  <2>1. I \in SUBSET Nat /\ I # {}
    BY <1>2
  <2>2. n \in I
    BY <2>1, LeastPosition DEF Min
  <2>3. RemoveFirst(s, x) = RemoveAt(s, n)
    BY <1>2, <2>1 DEF RemoveFirst, SelectInSeq
  <2>4. n \in 1..Len(s)
    BY <2>2
  <2> HIDE DEF n, I
  <2>5. Len(s) \in Nat
    OBVIOUS
  <2>6. SubSeq(s, 1, n - 1) \in Seq(S) /\ SubSeq(s, n + 1, Len(s)) \in Seq(S)
    <3>1. \A j \in 1..Len(s) : s[j] \in S
      OBVIOUS
    <3> QED  BY <2>4, <2>5, <3>1, SubSeqProperties
  <2>7. RemoveAt(s, n) \in Seq(S)
    BY <2>6 DEF RemoveAt
  <2> QED  BY <2>3, <2>7
<1> QED  BY <1>1, <1>2

-----------------------------------------------------------------------------
(* Lemmas about the calls on a stack.                                      *)

LEMMA Pushed ==
  ASSUME NEW s \in Seq(Frames), NEW f \in Frames
  PROVE  /\ Append(s, f) \in Seq(Frames)
         /\ DOMAIN s = 1..Len(s) /\ Len(s) \in Nat
         /\ DOMAIN Append(s, f) = 1..(Len(s) + 1)
         /\ \A i \in 1..Len(s) : Append(s, f)[i] = s[i]
         /\ Append(s, f)[Len(s) + 1] = f
  OBVIOUS

LEMMA Popped ==
  ASSUME NEW s \in Seq(Frames), s # <<>>
  PROVE  /\ SubSeq(s, 1, Len(s) - 1) \in Seq(Frames)
         /\ s[Len(s)] \in Frames
         /\ s = Append(SubSeq(s, 1, Len(s) - 1), s[Len(s)])
<1>1. Len(s) \in Nat \ {0} /\ s[Len(s)] \in Frames
  OBVIOUS
<1>2. SubSeq(s, 1, Len(s) - 1) \in Seq(Frames)
  BY <1>1
<1>3. s = Append(SubSeq(s, 1, Len(s) - 1), s[Len(s)])
  OBVIOUS
<1> QED  BY <1>1, <1>2, <1>3

LEMMA CallsFinite ==
  ASSUME NEW s \in Seq(Frames), NEW x
  PROVE  /\ IsFiniteSet(EventFrames(s, x)) /\ OfEvent(s, x) \in Nat
         /\ IsFiniteSet(CtlFrames(s, x)) /\ OfCtl(s, x) \in Nat
<1>1. IsFiniteSet(1..Len(s)) /\ DOMAIN s = 1..Len(s)
  <2>1. Len(s) \in Nat
    OBVIOUS
  <2> QED  BY <2>1, FS_Interval
<1>2. EventFrames(s, x) \subseteq 1..Len(s) /\ CtlFrames(s, x) \subseteq 1..Len(s)
  BY <1>1 DEF EventFrames, CtlFrames
<1> QED  BY <1>1, <1>2, FS_Subset, FS_CardinalityType DEF OfEvent, OfCtl

\* A frame that is pushed counts for its event.
LEMMA EventPushed ==
  ASSUME NEW s \in Seq(Frames), NEW f \in Frames, NEW e
  PROVE  OfEvent(Append(s, f), e) = OfEvent(s, e) + (IF f.event = e THEN 1 ELSE 0)
<1> DEFINE n == Len(s) + 1
           t == Append(s, f)
<1>1. /\ DOMAIN s = 1..Len(s) /\ DOMAIN t = 1..n /\ Len(s) \in Nat
      /\ \A i \in 1..Len(s) : t[i] = s[i]
      /\ t[n] = f
  BY Pushed
<1> HIDE DEF t
<1>2. n \notin EventFrames(s, e)
  BY <1>1 DEF EventFrames
<1>3. CASE f.event = e
  <2>1. EventFrames(t, e) = EventFrames(s, e) \cup {n}
    BY <1>1, <1>3 DEF EventFrames
  <2> QED  BY <1>2, <1>3, <2>1, CallsFinite, FS_AddElement DEF OfEvent, t
<1>4. CASE f.event # e
  <2>1. EventFrames(t, e) = EventFrames(s, e)
    BY <1>1, <1>4 DEF EventFrames
  <2> QED  BY <1>4, <2>1, CallsFinite DEF OfEvent, t
<1> QED  BY <1>3, <1>4

\* And for its controller, unless the event does.
LEMMA CtlPushed ==
  ASSUME NEW s \in Seq(Frames), NEW f \in Frames, NEW c
  PROVE  OfCtl(Append(s, f), c) = OfCtl(s, c) + (IF Holding(f, c) THEN 1 ELSE 0)
<1> DEFINE n == Len(s) + 1
           t == Append(s, f)
<1>1. /\ DOMAIN s = 1..Len(s) /\ DOMAIN t = 1..n /\ Len(s) \in Nat
      /\ \A i \in 1..Len(s) : t[i] = s[i]
      /\ t[n] = f
  BY Pushed
<1> HIDE DEF t
<1>2. n \notin CtlFrames(s, c)
  BY <1>1 DEF CtlFrames
<1>3. CASE Holding(f, c)
  <2>1. CtlFrames(t, c) = CtlFrames(s, c) \cup {n}
    BY <1>1, <1>3 DEF CtlFrames
  <2> QED  BY <1>2, <1>3, <2>1, CallsFinite, FS_AddElement DEF OfCtl, t
<1>4. CASE ~Holding(f, c)
  <2>1. CtlFrames(t, c) = CtlFrames(s, c)
    BY <1>1, <1>4 DEF CtlFrames
  <2> QED  BY <1>4, <2>1, CallsFinite DEF OfCtl, t
<1> QED  BY <1>3, <1>4

\* An event that counts no call has none.
\* And for the finalize it is in.
LEMMA FinalizedPushed ==
  ASSUME NEW s \in Seq(Frames), NEW f \in Frames
  PROVE  \A e : FinalizedIn(Append(s, f), e) <=>
                  FinalizedIn(s, e) \/ (f.at = "finalizing" /\ f.event = e)
<1> DEFINE n == Len(s) + 1
           t == Append(s, f)
<1>1. /\ DOMAIN s = 1..Len(s) /\ DOMAIN t = 1..n /\ Len(s) \in Nat
      /\ \A i \in 1..Len(s) : t[i] = s[i]
      /\ t[n] = f
  BY Pushed
<1> HIDE DEF t
<1>2. \A i \in 1..n : i = n \/ i \in 1..Len(s)
  BY <1>1
<1>3. n \in 1..n /\ \A i \in 1..Len(s) : i \in 1..n
  BY <1>1
<1> HIDE DEF n
<1> QED  BY <1>1, <1>2, <1>3 DEF FinalizedIn, t

\* An event that counts no call has none.
LEMMA NoCall ==
  ASSUME NEW s \in Seq(Frames), NEW e, OfEvent(s, e) = 0
  PROVE  (\A i \in DOMAIN s : s[i].event # e) /\ ~DisposedIn(s, e)
<1>1. EventFrames(s, e) = {}
  BY CallsFinite, FS_EmptySet DEF OfEvent
<1> QED  BY <1>1 DEF EventFrames, DisposedIn

\* The calls of a stack whose lists of handlers change.
SameCalls(s, t) ==
  /\ DOMAIN t = DOMAIN s
  /\ \A i \in DOMAIN s : t[i].at = s[i].at /\ t[i].ctl = s[i].ctl /\ t[i].event = s[i].event

LEMMA SameCallsCount ==
  ASSUME NEW s, NEW t, SameCalls(s, t)
  PROVE  /\ \A e : OfEvent(t, e) = OfEvent(s, e)
         /\ \A c : OfCtl(t, c) = OfCtl(s, c)
         /\ \A e : FinalizedIn(t, e) <=> FinalizedIn(s, e)
         /\ \A ctl, slack : FramesOK(ctl, s, slack) => FramesOK(ctl, t, slack)
         /\ \A slack : OneDispose(s, slack) => OneDispose(t, slack)
<1>1. \A e : EventFrames(t, e) = EventFrames(s, e)
  BY DEF SameCalls, EventFrames
<1>2. \A c : CtlFrames(t, c) = CtlFrames(s, c)
  BY DEF SameCalls, CtlFrames, Holding
<1>3. \A ctl, slack : FramesOK(ctl, s, slack) => FramesOK(ctl, t, slack)
  BY DEF SameCalls, FramesOK, FrameOK
<1>4. \A slack : OneDispose(s, slack) => OneDispose(t, slack)
  BY DEF SameCalls, OneDispose
<1>5. \A e : FinalizedIn(t, e) <=> FinalizedIn(s, e)
  BY DEF SameCalls, FinalizedIn
<1> QED  BY <1>1, <1>2, <1>3, <1>4, <1>5 DEF OfEvent, OfCtl

LEMMA SkippingSame ==
  ASSUME NEW s \in Seq(Frames), NEW c, NEW h
  PROVE  /\ SameCalls(s, Skipping(c, h, s)) /\ Skipping(c, h, s) \in Seq(Frames)
         /\ SameCalls(s, Silenced(c, s)) /\ Silenced(c, s) \in Seq(Frames)
<1>1. DOMAIN s = 1..Len(s) /\ Len(s) \in Nat /\ \A i \in DOMAIN s : s[i] \in Frames
  OBVIOUS
<1>2. ASSUME NEW f \in Frames
      PROVE  /\ [f EXCEPT !.todo = RemoveFirst(@, h)] \in Frames
             /\ [f EXCEPT !.todo = <<>>] \in Frames
             /\ [f EXCEPT !.todo = RemoveFirst(@, h)].at = f.at
             /\ [f EXCEPT !.todo = RemoveFirst(@, h)].ctl = f.ctl
             /\ [f EXCEPT !.todo = RemoveFirst(@, h)].event = f.event
             /\ [f EXCEPT !.todo = <<>>].at = f.at
             /\ [f EXCEPT !.todo = <<>>].ctl = f.ctl
             /\ [f EXCEPT !.todo = <<>>].event = f.event
  <2>1. f.todo \in Seq(Handlers)
    BY DEF Frames
  <2>2. RemoveFirst(f.todo, h) \in Seq(Handlers) /\ <<>> \in Seq(Handlers)
    BY <2>1, RemoveFirstTyped
  <2> QED  BY <2>2 DEF Frames
<1>3. SameCalls(s, Skipping(c, h, s)) /\ Skipping(c, h, s) \in Seq(Frames)
  <2> DEFINE t == Skipping(c, h, s)
  <2>1. DOMAIN t = 1..Len(s)
    BY <1>1 DEF Skipping
  <2>2. ASSUME NEW i \in 1..Len(s)
        PROVE  /\ t[i] \in Frames
               /\ t[i].at = s[i].at /\ t[i].ctl = s[i].ctl /\ t[i].event = s[i].event
    <3>1. s[i] \in Frames
      BY <1>1
    <3>2. CASE s[i].ctl = c
      BY <1>1, <1>2, <3>1, <3>2 DEF Skipping
    <3>3. CASE s[i].ctl # c
      BY <1>1, <3>1, <3>3 DEF Skipping
    <3> QED  BY <3>2, <3>3
  <2>3. t = [i \in 1..Len(s) |-> t[i]]
    BY <1>1, <2>1 DEF Skipping
  <2> HIDE DEF t
  <2>4. t \in Seq(Frames)
    BY <1>1, <2>2, <2>3
  <2>5. SameCalls(s, t)
    BY <1>1, <2>1, <2>2 DEF SameCalls
  <2> QED  BY <2>4, <2>5 DEF t
<1>4. SameCalls(s, Silenced(c, s)) /\ Silenced(c, s) \in Seq(Frames)
  <2> DEFINE t == Silenced(c, s)
  <2>1. DOMAIN t = 1..Len(s)
    BY <1>1 DEF Silenced
  <2>2. ASSUME NEW i \in 1..Len(s)
        PROVE  /\ t[i] \in Frames
               /\ t[i].at = s[i].at /\ t[i].ctl = s[i].ctl /\ t[i].event = s[i].event
    <3>1. s[i] \in Frames
      BY <1>1
    <3>2. CASE s[i].ctl = c
      BY <1>1, <1>2, <3>1, <3>2 DEF Silenced
    <3>3. CASE s[i].ctl # c
      BY <1>1, <3>1, <3>3 DEF Silenced
    <3> QED  BY <3>2, <3>3
  <2>3. t = [i \in 1..Len(s) |-> t[i]]
    BY <1>1, <2>1 DEF Silenced
  <2> HIDE DEF t
  <2>4. t \in Seq(Frames)
    BY <1>1, <2>2, <2>3
  <2>5. SameCalls(s, t)
    BY <1>1, <2>1, <2>2 DEF SameCalls
  <2> QED  BY <2>4, <2>5 DEF t
<1> QED  BY <1>3, <1>4

-----------------------------------------------------------------------------
(* Lemmas about the events of a controller.                                *)

Written(ctl, e, x) == [ctl EXCEPT ![e] = x]

LEMMA CreatedFinite ==
  ASSUME NEW ctl, NEW st, NEW c
  PROVE  IsFiniteSet(Created(ctl, st, c)) /\ OfCreated(ctl, st, c) \in Nat
BY EventsAssumption, FS_Subset, FS_CardinalityType DEF Created, OfCreated

LEMMA CreatedSame ==
  ASSUME NEW s, NEW t, \A e : FinalizedIn(t, e) <=> FinalizedIn(s, e)
  PROVE  \A ctl, c : OfCreated(ctl, t, c) = OfCreated(ctl, s, c)
<1>1. \A ctl, c : Created(ctl, t, c) = Created(ctl, s, c)
  BY DEF Created
<1> QED  BY <1>1 DEF OfCreated

\* Writing the controller of one event moves one reference.
LEMMA CreatedWritten ==
  ASSUME NEW ctl \in [Events -> Controllers \cup {NULL}], NEW e \in Events, NEW x, NEW c,
         NEW st, ~FinalizedIn(st, e)
  PROVE  OfCreated(Written(ctl, e, x), st, c) =
           OfCreated(ctl, st, c) + (IF x = c THEN 1 ELSE 0) - (IF ctl[e] = c THEN 1 ELSE 0)
<1> DEFINE ctl2 == Written(ctl, e, x)
<1>1. CASE (ctl[e] = c) <=> (x = c)
  <2>1. Created(ctl2, st, c) = Created(ctl, st, c)
    BY <1>1 DEF Created, Written
  <2> QED  BY <1>1, <2>1, CreatedFinite DEF OfCreated
<1>2. CASE ctl[e] # c /\ x = c
  <2>1. Created(ctl2, st, c) = Created(ctl, st, c) \cup {e} /\ e \notin Created(ctl, st, c)
    BY <1>2 DEF Created, Written
  <2>2. Cardinality(Created(ctl2, st, c)) = Cardinality(Created(ctl, st, c)) + 1
    BY <2>1, CreatedFinite, FS_AddElement
  <2> QED  BY <1>2, <2>2, CreatedFinite DEF OfCreated
<1>3. CASE ctl[e] = c /\ x # c
  <2>1. Created(ctl2, st, c) = Created(ctl, st, c) \ {e} /\ e \in Created(ctl, st, c)
    BY <1>3 DEF Created, Written
  <2>2. Cardinality(Created(ctl2, st, c)) = Cardinality(Created(ctl, st, c)) - 1
    BY <2>1, CreatedFinite, FS_RemoveElement
  <2> QED  BY <1>3, <2>2, CreatedFinite DEF OfCreated
<1> QED  BY <1>1, <1>2, <1>3

\* The pointer of an event in finalize stands for nothing.
LEMMA FinalizedWritten ==
  ASSUME NEW ctl \in [Events -> Controllers \cup {NULL}], NEW e \in Events, NEW x, NEW c,
         NEW st, FinalizedIn(st, e)
  PROVE  OfCreated(Written(ctl, e, x), st, c) = OfCreated(ctl, st, c)
<1>1. Created(Written(ctl, e, x), st, c) = Created(ctl, st, c)
  BY DEF Created, Written
<1> QED  BY <1>1 DEF OfCreated

\* An event whose dispose reaches finalize, or that has no pointer any more,
\* stood for one reference if it had a controller.
LEMMA CreatedFinalized ==
  ASSUME NEW ctl \in [Events -> Controllers \cup {NULL}], NEW e \in Events, NEW c \in Controllers,
         NEW s, NEW t, ~FinalizedIn(s, e), NEW ctl2,
         \A x \in Events \ {e} : (FinalizedIn(t, x) <=> FinalizedIn(s, x)) /\ ctl2[x] = ctl[x],
         FinalizedIn(t, e) \/ ctl2[e] = NULL
  PROVE  OfCreated(ctl2, t, c) = OfCreated(ctl, s, c) - (IF ctl[e] = c THEN 1 ELSE 0)
<1>0. c # NULL
  BY NullAssumption
<1>1. CASE ctl[e] # c
  <2>1. Created(ctl2, t, c) = Created(ctl, s, c)
    BY <1>0, <1>1 DEF Created
  <2> QED  BY <1>1, <2>1, CreatedFinite DEF OfCreated
<1>2. CASE ctl[e] = c
  <2>1. Created(ctl2, t, c) = Created(ctl, s, c) \ {e} /\ e \in Created(ctl, s, c)
    BY <1>0, <1>2 DEF Created
  <2>2. Cardinality(Created(ctl2, t, c)) = Cardinality(Created(ctl, s, c)) - 1
    BY <2>1, CreatedFinite, FS_RemoveElement
  <2> QED  BY <1>2, <2>2, CreatedFinite DEF OfCreated
<1> QED  BY <1>1, <1>2

-----------------------------------------------------------------------------
(* Lemmas about the shape of the calls.                                    *)

LEMMA ShapePushed ==
  ASSUME NEW s \in Seq(Frames), NEW f \in Frames, NEW ctl, NEW slack,
         FramesOK(ctl, s, slack), OneDispose(s, slack), FrameOK(ctl, f, slack),
         f.at \in Disposal /\ f.event # NULL /\ slack = 0 => ~DisposedIn(s, f.event)
  PROVE  FramesOK(ctl, Append(s, f), slack) /\ OneDispose(Append(s, f), slack)
<1> DEFINE t == Append(s, f)
           n == Len(s) + 1
<1>1. /\ DOMAIN s = 1..Len(s) /\ DOMAIN t = 1..n /\ Len(s) \in Nat
      /\ \A i \in 1..Len(s) : t[i] = s[i]
      /\ t[n] = f
  BY Pushed
<1> HIDE DEF t
<1>2. \A i \in 1..n : i = n \/ i \in 1..Len(s)
  BY <1>1
<1>3. FramesOK(ctl, t, slack)
  BY <1>1, <1>2 DEF FramesOK
<1>4. OneDispose(t, slack)
  BY <1>1, <1>2 DEF OneDispose, DisposedIn
<1> QED  BY <1>3, <1>4 DEF t

LEMMA ShapePopped ==
  ASSUME NEW s \in Seq(Frames), s # <<>>, NEW ctl, NEW slack,
         FramesOK(ctl, s, slack), OneDispose(s, slack)
  PROVE  /\ FramesOK(ctl, SubSeq(s, 1, Len(s) - 1), slack)
         /\ OneDispose(SubSeq(s, 1, Len(s) - 1), slack)
         /\ FrameOK(ctl, s[Len(s)], slack)
         /\ s[Len(s)].at \in Disposal /\ s[Len(s)].event # NULL /\ slack = 0 =>
              ~DisposedIn(SubSeq(s, 1, Len(s) - 1), s[Len(s)].event)
<1> DEFINE t == SubSeq(s, 1, Len(s) - 1)
           f == s[Len(s)]
           n == Len(t) + 1
<1>1. t \in Seq(Frames) /\ f \in Frames /\ s = Append(t, f)
  BY Popped
<1> HIDE DEF t, f
<1>2. /\ DOMAIN t = 1..Len(t) /\ DOMAIN s = 1..n /\ Len(t) \in Nat
      /\ \A i \in 1..Len(t) : s[i] = t[i]
      /\ s[n] = f
  BY <1>1, Pushed
<1>3. \A i \in 1..Len(t) : i \in 1..n /\ i # n
  BY <1>2
<1>4. n \in 1..n
  BY <1>2
<1> HIDE DEF n
<1>5. FramesOK(ctl, t, slack) /\ FrameOK(ctl, f, slack)
  BY <1>2, <1>3, <1>4 DEF FramesOK
<1>6. OneDispose(t, slack)
  BY <1>2, <1>3 DEF OneDispose
<1>7. f.at \in Disposal /\ f.event # NULL /\ slack = 0 => ~DisposedIn(t, f.event)
  BY <1>2, <1>3, <1>4 DEF OneDispose, DisposedIn
<1> QED  BY <1>5, <1>6, <1>7 DEF t, f

\* The controller of an event that is not being disposed may be written, and
\* cleared with slack.
LEMMA ShapeWritten ==
  ASSUME NEW s \in Seq(Frames), NEW ctl \in [Events -> Controllers \cup {NULL}],
         NEW e \in Events, NEW x, NEW slack, FramesOK(ctl, s, slack),
         DisposedIn(s, e) => slack # 0 /\ x = NULL
  PROVE  FramesOK(Written(ctl, e, x), s, slack)
<1>1. DOMAIN s = 1..Len(s) /\ \A i \in DOMAIN s : s[i].event \in Events \cup {NULL}
  <2>1. DOMAIN s = 1..Len(s) /\ \A i \in DOMAIN s : s[i] \in Frames
    OBVIOUS
  <2> QED  BY <2>1 DEF Frames
<1>2. ASSUME NEW i \in DOMAIN s
      PROVE  FrameOK(Written(ctl, e, x), s[i], slack)
  <2>0. FrameOK(ctl, s[i], slack) /\ s[i].event \in Events \cup {NULL}
    BY <1>1 DEF FramesOK
  <2>1. CASE s[i].event = e /\ s[i].at \in Disposal
    <3>1. slack # 0 /\ x = NULL
      BY <2>1 DEF DisposedIn
    <3> QED  BY <2>0, <2>1, <3>1 DEF FrameOK, Written
  <2>2. CASE ~(s[i].event = e /\ s[i].at \in Disposal)
    BY <2>0, <2>2 DEF FrameOK, Written
  <2> QED  BY <2>1, <2>2
<1> QED  BY <1>2 DEF FramesOK

-----------------------------------------------------------------------------
(* Lemmas about releasing.  callers is the stack the release returns to.    *)

\* One reference on a controller goes.
LEMMA Dropping ==
  ASSUME ctlRefs \in [Controllers -> Nat], NEW c \in Controllers
  PROVE  /\ Dropped(c) \in [Controllers -> Nat]
         /\ Dropped(c)[c] = IF ctlRefs[c] = 0 THEN 0 ELSE ctlRefs[c] - 1
         /\ \A d \in Controllers \ {c} : Dropped(c)[d] = ctlRefs[d]
<1>1. ctlRefs[c] \in Nat
  OBVIOUS
<1> QED  BY <1>1 DEF Dropped

\* The reference that goes was held.
LEMMA HeldDropped ==
  ASSUME NEW n \in Nat, NEW held \in Nat, NEW slack, Counted(n, held + 1, slack)
  PROVE  Counted(IF n = 0 THEN 0 ELSE n - 1, held, slack)
BY DEF Counted

\* The references and the controllers, as types.
CtlTyped == /\ controller \in [Events -> Controllers \cup {NULL}]
            /\ ctlRefs \in [Controllers -> Nat]

\* g_object_unref on a controller: its reference goes, or is left to the
\* dispose that begins.
LEMMA UnrefCtlKeeps ==
  ASSUME NEW callers \in Seq(Frames), NEW c \in Controllers,
         NEW own \in [Controllers -> Nat], NEW slack, CtlTyped,
         \A d \in Controllers :
           Counted(ctlRefs[d], own[d] + OfCreated(controller, callers, d) + OfCtl(callers, d)
                                 + (IF d = c THEN 1 ELSE 0), slack),
         FramesOK(controller, callers, slack), OneDispose(callers, slack), UnrefCtl(c, callers)
  PROVE  /\ stack' \in Seq(Frames) /\ ctlRefs' \in [Controllers -> Nat]
         /\ CtlsCounted(ctlRefs', own, controller, stack', slack)
         /\ FramesOK(controller, stack', slack) /\ OneDispose(stack', slack)
         /\ \A e \in Events : OfEvent(stack', e) = OfEvent(callers, e)
<1>0. \A d \in Controllers : /\ own[d] \in Nat /\ OfCreated(controller, callers, d) \in Nat
                             /\ OfCtl(callers, d) \in Nat /\ ctlRefs[d] \in Nat
  BY CreatedFinite, CallsFinite DEF CtlTyped
<1>1. CASE ctlRefs[c] # 1 /\ ctlRefs' = Dropped(c) /\ stack' = callers
  <2>1. /\ ctlRefs' \in [Controllers -> Nat]
        /\ ctlRefs'[c] = IF ctlRefs[c] = 0 THEN 0 ELSE ctlRefs[c] - 1
        /\ \A d \in Controllers \ {c} : ctlRefs'[d] = ctlRefs[d]
    BY <1>1, Dropping DEF CtlTyped
  <2>2. ASSUME NEW d \in Controllers
        PROVE  Counted(ctlRefs'[d],
                       own[d] + OfCreated(controller, callers, d) + OfCtl(callers, d), slack)
    <3> DEFINE held == own[d] + OfCreated(controller, callers, d) + OfCtl(callers, d)
    <3>1. held \in Nat /\ ctlRefs[d] \in Nat
      BY <1>0
    <3>2. Counted(ctlRefs[d], held + (IF d = c THEN 1 ELSE 0), slack)
      OBVIOUS
    <3> HIDE DEF held
    <3>3. CASE d = c
      <4>1. ctlRefs'[d] = IF ctlRefs[d] = 0 THEN 0 ELSE ctlRefs[d] - 1
        BY <2>1, <3>3
      <4>2. Counted(ctlRefs[d], held + 1, slack)
        BY <3>2, <3>3
      <4> QED  BY <3>1, <4>1, <4>2, HeldDropped DEF held
    <3>4. CASE d # c
      <4>1. ctlRefs'[d] = ctlRefs[d]
        BY <2>1, <3>4
      <4>2. Counted(ctlRefs[d], held, slack)
        BY <3>1, <3>2, <3>4
      <4> QED  BY <4>1, <4>2 DEF held
    <3> QED  BY <3>3, <3>4
  <2> QED  BY <1>1, <2>1, <2>2 DEF CtlsCounted
<1>2. CASE /\ ctlRefs[c] = 1 /\ UNCHANGED ctlRefs
           /\ stack' = Append(callers, Frame("releasing", c, NULL, <<>>))
  <2> DEFINE f == Frame("releasing", c, NULL, <<>>)
  <2>1. /\ f \in Frames /\ f.at = "releasing" /\ f.ctl = c /\ f.event = NULL
    BY DEF Frame, Frames
  <2> HIDE DEF f
  <2>2. stack' = Append(callers, f)
    BY <1>2 DEF f
  <2>3. stack' \in Seq(Frames)
    BY <2>1, <2>2
  <2>4. FramesOK(controller, stack', slack) /\ OneDispose(stack', slack)
    <3>1. FrameOK(controller, f, slack)
      BY <2>1 DEF FrameOK
    <3> QED  BY <2>1, <2>2, <3>1, ShapePushed
  <2>5. ASSUME NEW e \in Events
        PROVE  OfEvent(stack', e) = OfEvent(callers, e)
    <3>1. OfEvent(stack', e) = OfEvent(callers, e) + (IF f.event = e THEN 1 ELSE 0)
      BY <2>1, <2>2, EventPushed
    <3>2. f.event # e
      BY <2>1, NullAssumption
    <3> QED  BY <3>1, <3>2, CallsFinite
  <2>6. \A d : OfCreated(controller, stack', d) = OfCreated(controller, callers, d)
    <3>1. \A e : FinalizedIn(stack', e) <=> FinalizedIn(callers, e)
      BY <2>1, <2>2, FinalizedPushed
    <3> QED  BY <3>1, CreatedSame
  <2>7. ASSUME NEW d \in Controllers
        PROVE  Counted(ctlRefs[d],
                       own[d] + OfCreated(controller, stack', d) + OfCtl(stack', d), slack)
    <3>1. OfCtl(stack', d) = OfCtl(callers, d) + (IF Holding(f, d) THEN 1 ELSE 0)
      BY <2>1, <2>2, CtlPushed
    <3>2. Holding(f, d) <=> d = c
      BY <2>1 DEF Holding
    <3>3. own[d] + OfCreated(controller, stack', d) + OfCtl(stack', d)
            = own[d] + OfCreated(controller, callers, d) + OfCtl(callers, d)
                + (IF d = c THEN 1 ELSE 0)
      BY <1>0, <2>6, <3>1, <3>2
    <3> QED  BY <3>3
  <2> QED  BY <1>2, <2>3, <2>4, <2>5, <2>7 DEF CtlsCounted, CtlTyped
<1> QED  BY <1>1, <1>2 DEF UnrefCtl

\* dispose when the reference of the event is not the last one.
LEMMA DisposeKeeps ==
  ASSUME NEW callers \in Seq(Frames), NEW e \in Events,
         NEW own \in [Controllers -> Nat], NEW slack, CtlTyped,
         CtlsCounted(ctlRefs, own, controller, callers, slack),
         FramesOK(controller, callers, slack), slack = 0 => ~DisposedIn(callers, e), dispose(e)
  PROVE  /\ CtlTyped' /\ controller' = Written(controller, e, NULL)
         /\ CtlsCounted(ctlRefs', own, controller', callers, slack)
         /\ FramesOK(controller', callers, slack)
<1>1. controller' = Written(controller, e, NULL)
  BY DEF dispose, ClearController, Written
<1>2. controller' \in [Events -> Controllers \cup {NULL}]
  BY <1>1 DEF CtlTyped, Written
<1>3. FramesOK(controller', callers, slack)
  BY <1>1, ShapeWritten DEF CtlTyped
<1>4. /\ ctlRefs' \in [Controllers -> Nat]
      /\ \A d \in Controllers :
           ctlRefs'[d] = IF controller[e] = d /\ ctlRefs[d] # 0 THEN ctlRefs[d] - 1 ELSE ctlRefs[d]
  <2>1. CASE controller[e] = NULL
    BY <2>1, NullAssumption DEF dispose, CtlTyped
  <2>2. CASE controller[e] # NULL
    <3>1. controller[e] \in Controllers /\ ctlRefs' = Dropped(controller[e])
      BY <2>2 DEF dispose, CtlTyped
    <3>2. \A d \in Controllers : ctlRefs[d] \in Nat
      BY DEF CtlTyped
    <3> QED  BY <3>1, <3>2, Dropping DEF CtlTyped
  <2> QED  BY <2>1, <2>2
<1>5. ASSUME NEW d \in Controllers
      PROVE  Counted(ctlRefs'[d],
                     own[d] + OfCreated(controller', callers, d) + OfCtl(callers, d), slack)
  <2>1. /\ own[d] \in Nat /\ OfCreated(controller, callers, d) \in Nat /\ ctlRefs[d] \in Nat
        /\ OfCtl(callers, d) \in Nat /\ OfCreated(controller', callers, d) \in Nat
    BY CreatedFinite, CallsFinite DEF CtlTyped
  <2>2. Counted(ctlRefs[d],
                own[d] + OfCreated(controller, callers, d) + OfCtl(callers, d), slack)
    BY DEF CtlsCounted
  <2>3. CASE ~FinalizedIn(callers, e)
    <3>1. NULL # d
      BY NullAssumption
    <3>2. OfCreated(controller', callers, d) =
            OfCreated(controller, callers, d) + (IF NULL = d THEN 1 ELSE 0)
              - (IF controller[e] = d THEN 1 ELSE 0)
      BY <1>1, <2>3, CreatedWritten DEF CtlTyped
    <3>3. OfCreated(controller', callers, d) =
            OfCreated(controller, callers, d) - (IF controller[e] = d THEN 1 ELSE 0)
      BY <2>1, <3>1, <3>2
    <3> DEFINE held == own[d] + OfCreated(controller', callers, d) + OfCtl(callers, d)
    <3>4. held \in Nat
      BY <2>1
    <3>5. own[d] + OfCreated(controller, callers, d) + OfCtl(callers, d)
            = held + (IF controller[e] = d THEN 1 ELSE 0)
      BY <2>1, <3>3
    <3> HIDE DEF held
    <3>6. CASE controller[e] = d
      <4>1. ctlRefs'[d] = IF ctlRefs[d] = 0 THEN 0 ELSE ctlRefs[d] - 1
        BY <1>4, <2>1, <3>6
      <4>2. Counted(ctlRefs[d], held + 1, slack)
        BY <2>2, <3>5, <3>6
      <4> QED  BY <2>1, <3>4, <4>1, <4>2, HeldDropped DEF held
    <3>7. CASE controller[e] # d
      <4>1. ctlRefs'[d] = ctlRefs[d]
        BY <1>4, <3>7
      <4>2. Counted(ctlRefs[d], held, slack)
        BY <2>2, <3>4, <3>5, <3>7
      <4> QED  BY <4>1, <4>2 DEF held
    <3> QED  BY <3>6, <3>7
  <2>4. CASE FinalizedIn(callers, e)
    <3>1. slack # 0
      BY <2>4 DEF FinalizedIn, DisposedIn, Disposal
    <3>2. OfCreated(controller', callers, d) = OfCreated(controller, callers, d)
      BY <1>1, <2>4, FinalizedWritten DEF CtlTyped
    <3>3. ctlRefs'[d] <= ctlRefs[d]
      BY <1>4, <2>1
    <3> QED  BY <1>4, <2>1, <2>2, <3>1, <3>2, <3>3 DEF Counted
  <2> QED  BY <2>3, <2>4
<1> QED  BY <1>1, <1>2, <1>3, <1>4, <1>5 DEF CtlTyped, CtlsCounted

\* dispose that begins the release of the controller.
LEMMA DisposeLastKeeps ==
  ASSUME NEW callers \in Seq(Frames), NEW e \in Events, NEW own, NEW slack, CtlTyped,
         CtlsCounted(ctlRefs, own, controller, callers, slack), OneDispose(callers, slack),
         FramesOK(controller, callers, slack), slack = 0 => ~DisposedIn(callers, e),
         DisposeLast(e, callers)
  PROVE  /\ stack' \in Seq(Frames) /\ UNCHANGED <<ctlRefs, controller>>
         /\ CtlsCounted(ctlRefs, own, controller, stack', slack)
         /\ FramesOK(controller, stack', slack) /\ OneDispose(stack', slack)
         /\ \A x \in Events :
              OfEvent(stack', x) = OfEvent(callers, x) + (IF x = e THEN 1 ELSE 0)
<1> DEFINE f == Frame("releasing", controller[e], e, <<>>)
<1>1. stack' = Append(callers, f) /\ UNCHANGED <<ctlRefs, controller>>
  BY DEF DisposeLast
<1>2. f \in Frames /\ f.at = "releasing" /\ f.ctl = controller[e] /\ f.event = e /\ e # NULL
  <2>1. controller[e] \in Controllers /\ e # NULL
    BY NullAssumption DEF DisposeLast, HoldsLast, CtlTyped
  <2> QED  BY <2>1 DEF Frame, Frames
<1> HIDE DEF f
<1>3. stack' \in Seq(Frames)
  BY <1>1, <1>2
<1>4. FramesOK(controller, stack', slack) /\ OneDispose(stack', slack)
  <2>1. FrameOK(controller, f, slack)
    BY <1>2 DEF FrameOK
  <2> QED  BY <1>1, <1>2, <2>1, ShapePushed
<1>5. ASSUME NEW d \in Controllers
      PROVE  /\ OfCtl(stack', d) = OfCtl(callers, d)
             /\ OfCreated(controller, stack', d) = OfCreated(controller, callers, d)
  <2>1. OfCtl(stack', d) = OfCtl(callers, d) + (IF Holding(f, d) THEN 1 ELSE 0)
    BY <1>1, <1>2, CtlPushed
  <2>2. ~Holding(f, d)
    BY <1>2 DEF Holding
  <2>3. \A x : FinalizedIn(stack', x) <=> FinalizedIn(callers, x)
    BY <1>1, <1>2, FinalizedPushed
  <2> QED  BY <2>1, <2>2, <2>3, CallsFinite, CreatedSame
<1>6. \A x \in Events : OfEvent(stack', x) = OfEvent(callers, x) + (IF x = e THEN 1 ELSE 0)
  BY <1>1, <1>2, EventPushed
<1> QED  BY <1>1, <1>3, <1>4, <1>5, <1>6 DEF CtlsCounted

\* The indices and the references of events, as types.
EventTyped == /\ index_type \in [Events -> Types \cup {NULL}]
              /\ indices \in [Events -> Seq(Index)]
              /\ eventRefs \in [Events -> Nat]
              /\ LiveTyped(eventRefs, index_type)

LEMMA DropKeeps ==
  ASSUME EventTyped, NEW e \in Events, eventRefs[e] > 0, DropEventRef(e)
  PROVE  /\ EventTyped'
         /\ eventRefs'[e] = eventRefs[e] - 1 /\ \A x \in Events \ {e} : eventRefs'[x] = eventRefs[x]
<1>1. /\ eventRefs' = [eventRefs EXCEPT ![e] = @ - 1] /\ eventRefs \in [Events -> Nat]
      /\ \A x \in Events : eventRefs[x] \in Nat
  BY DEF DropEventRef, EventTyped
<1>2. eventRefs'[e] = eventRefs[e] - 1 /\ \A x \in Events \ {e} : eventRefs'[x] = eventRefs[x]
  BY <1>1
<1>3. eventRefs' \in [Events -> Nat]
  BY <1>1
<1>4. /\ index_type' \in [Events -> Types \cup {NULL}]
      /\ indices' \in [Events -> Seq(Index)]
  <2>1. CASE eventRefs[e] = 1
    <3>1. <<>> \in Seq(Index)
      OBVIOUS
    <3> QED  BY <2>1, <3>1 DEF DropEventRef, finalize, EventTyped
  <2>2. CASE eventRefs[e] # 1
    BY <2>2 DEF DropEventRef, EventTyped
  <2> QED  BY <2>1, <2>2
<1>5. LiveTyped(eventRefs', index_type')
  <2> SUFFICES ASSUME NEW x \in Events, eventRefs'[x] > 0
               PROVE  index_type'[x] \in Types
    BY DEF LiveTyped
  <2>1. eventRefs[x] > 0
    BY <1>1, <1>2
  <2>2. index_type[x] \in Types
    BY <2>1 DEF EventTyped, LiveTyped
  <2>3. CASE eventRefs[e] = 1
    <3>1. x # e
      BY <1>2, <2>3
    <3> QED  BY <2>2, <2>3, <3>1 DEF DropEventRef, finalize, EventTyped
  <2>4. CASE eventRefs[e] # 1
    BY <2>2, <2>4 DEF DropEventRef
  <2> QED  BY <2>3, <2>4
<1> QED  BY <1>2, <1>3, <1>4, <1>5 DEF EventTyped

\* g_object_unref on an event, of a reference that neither the client nor a
\* call of callers has.
LEMMA UnrefEventKeeps ==
  ASSUME NEW callers \in Seq(Frames), NEW e \in Events,
         NEW own \in [Events -> Nat], NEW ctlOwn \in [Controllers -> Nat], NEW slack,
         CtlTyped, EventTyped,
         \A x \in Events :
           eventRefs[x] = own[x] + OfEvent(callers, x) + (IF x = e THEN 1 ELSE 0),
         CtlsCounted(ctlRefs, ctlOwn, controller, callers, slack),
         FramesOK(controller, callers, slack), OneDispose(callers, slack),
         FreedEvents(eventRefs, controller), UnrefEvent(e, callers)
  PROVE  /\ stack' \in Seq(Frames) /\ CtlTyped' /\ EventTyped'
         /\ EventsCounted(eventRefs', own, stack')
         /\ CtlsCounted(ctlRefs', ctlOwn, controller', stack', slack)
         /\ FramesOK(controller', stack', slack) /\ OneDispose(stack', slack)
         /\ FreedEvents(eventRefs', controller')
<1>0. \A x \in Events : own[x] \in Nat /\ OfEvent(callers, x) \in Nat /\ eventRefs[x] \in Nat
  BY CallsFinite DEF EventTyped
<1>a. eventRefs[e] > 0
  BY <1>0
<1>b. eventRefs[e] = 1 => ~DisposedIn(callers, e)
  <2>1. eventRefs[e] = 1 => OfEvent(callers, e) = 0
    BY <1>0
  <2> QED  BY <2>1, NoCall
<1>c. ASSUME DropEventRef(e), stack' = callers
      PROVE  EventsCounted(eventRefs', own, stack')
  <2>1. eventRefs'[e] = eventRefs[e] - 1 /\ \A x \in Events \ {e} : eventRefs'[x] = eventRefs[x]
    BY <1>a, <1>c, DropKeeps
  <2>2. \A x \in Events : eventRefs'[x] = own[x] + OfEvent(callers, x)
    <3> SUFFICES ASSUME NEW x \in Events
                 PROVE  eventRefs'[x] = own[x] + OfEvent(callers, x)
      OBVIOUS
    <3>1. CASE x = e
      BY <1>0, <2>1, <3>1
    <3>2. CASE x # e
      BY <1>0, <2>1, <3>2
    <3> QED  BY <3>1, <3>2
  <2> QED  BY <1>c, <2>2 DEF EventsCounted
<1>1. CASE /\ eventRefs[e] > 1 /\ DropEventRef(e) /\ stack' = callers
           /\ UNCHANGED <<controller, ctlRefs>>
  <2>1. EventTyped' /\ CtlTyped'
    BY <1>a, <1>1, DropKeeps DEF CtlTyped
  <2>2. FreedEvents(eventRefs', controller')
    <3>1. eventRefs'[e] = eventRefs[e] - 1 /\ \A x \in Events \ {e} : eventRefs'[x] = eventRefs[x]
      BY <1>a, <1>1, DropKeeps
    <3>2. ASSUME NEW x \in Events, eventRefs'[x] = 0
          PROVE  eventRefs[x] = 0
      <4>1. eventRefs'[e] # 0
        BY <1>0, <1>1, <3>1
      <4> QED  BY <3>1, <3>2, <4>1
    <3> QED  BY <1>1, <3>2 DEF FreedEvents
  <2> QED  BY <1>1, <1>c, <2>1, <2>2
<1>2. CASE eventRefs[e] = 1 /\ dispose(e) /\ DropEventRef(e) /\ stack' = callers
  <2>1. /\ CtlTyped' /\ controller' = Written(controller, e, NULL)
        /\ CtlsCounted(ctlRefs', ctlOwn, controller', callers, slack)
        /\ FramesOK(controller', callers, slack)
    BY <1>b, <1>2, DisposeKeeps
  <2>2. EventTyped'
    BY <1>a, <1>2, DropKeeps
  <2>3. FreedEvents(eventRefs', controller')
    <3>1. eventRefs'[e] = eventRefs[e] - 1 /\ \A x \in Events \ {e} : eventRefs'[x] = eventRefs[x]
      BY <1>a, <1>2, DropKeeps
    <3>2. \A x \in Events : controller'[x] = IF x = e THEN NULL ELSE controller[x]
      BY <2>1 DEF Written, CtlTyped
    <3>3. ASSUME NEW x \in Events, eventRefs'[x] = 0, x # e
          PROVE  eventRefs[x] = 0
      BY <3>1, <3>3
    <3> QED  BY <3>2, <3>3 DEF FreedEvents
  <2> QED  BY <1>2, <1>c, <2>1, <2>2, <2>3
<1>3. CASE /\ eventRefs[e] = 1 /\ DisposeLast(e, callers)
           /\ UNCHANGED <<eventRefs, index_type, indices>>
  <2>1. /\ stack' \in Seq(Frames) /\ UNCHANGED <<ctlRefs, controller>>
        /\ CtlsCounted(ctlRefs, ctlOwn, controller, stack', slack)
        /\ FramesOK(controller, stack', slack) /\ OneDispose(stack', slack)
        /\ \A x \in Events :
             OfEvent(stack', x) = OfEvent(callers, x) + (IF x = e THEN 1 ELSE 0)
    BY <1>b, <1>3, DisposeLastKeeps
  <2>2. CtlTyped' /\ EventTyped'
    BY <1>3, <2>1 DEF CtlTyped, EventTyped
  <2>3. EventsCounted(eventRefs', own, stack')
    BY <1>0, <1>3, <2>1 DEF EventsCounted
  <2>4. FreedEvents(eventRefs', controller')
    BY <1>3, <2>1 DEF FreedEvents
  <2> QED  BY <2>1, <2>2, <2>3, <2>4
<1> QED  BY <1>1, <1>2, <1>3 DEF UnrefEvent

-----------------------------------------------------------------------------
(* Every action preserves the invariant.                                   *)

LEMMA Typed ==
  ASSUME IInv
  PROVE  /\ CtlTyped /\ EventTyped
         /\ eventOwned \in [Events -> Nat] /\ ctlOwned \in [Controllers -> Nat]
         /\ handlers \in [Controllers -> Seq(Handlers)]
         /\ stack \in Seq(Frames)
         /\ redisposed \in BOOLEAN
BY DEF IInv, TypeOK, CtlTyped, EventTyped

\* What is counted, as numbers.
LEMMA CountsTyped ==
  ASSUME TypeOK
  PROVE  /\ \A e \in Events : /\ eventRefs[e] \in Nat /\ eventOwned[e] \in Nat
                              /\ OfEvent(stack, e) \in Nat
         /\ \A c \in Controllers : /\ ctlRefs[c] \in Nat /\ ctlOwned[c] \in Nat
                                   /\ OfCtl(stack, c) \in Nat
                                   /\ OfCreated(controller, stack, c) \in Nat
BY CallsFinite, CreatedFinite DEF TypeOK

\* What the client may use is alive.
LEMMA UsedEventLives ==
  ASSUME IInv, NEW e \in Events, MayUseEvent(e)
  PROVE  eventRefs[e] > 0 /\ index_type[e] \in Types
<1>1. /\ eventRefs[e] = eventOwned[e] + OfEvent(stack, e) /\ eventRefs[e] \in Nat
      /\ eventOwned[e] \in Nat /\ OfEvent(stack, e) \in Nat
  BY CountsTyped DEF IInv, EventsCounted
<1>2. CASE eventOwned[e] > 0
  BY <1>1, <1>2 DEF IInv, LiveTyped
<1>3. CASE \E i \in DOMAIN stack : stack[i].at = "emitting" /\ stack[i].event = e
  <2>1. OfEvent(stack, e) # 0
    BY <1>3, NoCall DEF IInv, TypeOK
  <2> QED  BY <1>1, <2>1 DEF IInv, LiveTyped
<1> QED  BY <1>2, <1>3 DEF MayUseEvent

\* The frame on top, and the others.
LEMMA TopTyped ==
  ASSUME IInv, stack # <<>>
  PROVE  /\ Callers \in Seq(Frames) /\ Top \in Frames /\ Top.ctl \in Controllers
         /\ Top.event \in Events \cup {NULL}
         /\ \A e \in Events :
              OfEvent(stack, e) = OfEvent(Callers, e) + (IF Top.event = e THEN 1 ELSE 0)
         /\ \A c \in Controllers :
              OfCtl(stack, c) = OfCtl(Callers, c) + (IF Holding(Top, c) THEN 1 ELSE 0)
         /\ \A e : FinalizedIn(stack, e) <=>
                    FinalizedIn(Callers, e) \/ (Top.at = "finalizing" /\ Top.event = e)
         /\ FramesOK(controller, Callers, Slack) /\ OneDispose(Callers, Slack)
         /\ FrameOK(controller, Top, Slack)
         /\ Top.at \in Disposal /\ Top.event # NULL /\ Slack = 0 => ~DisposedIn(Callers, Top.event)
<1>0. stack \in Seq(Frames)
  BY DEF IInv, TypeOK
<1>1. Callers \in Seq(Frames) /\ Top \in Frames /\ stack = Append(Callers, Top)
  BY <1>0, Popped DEF Callers, Top
<1>2. Top.ctl \in Controllers /\ Top.event \in Events \cup {NULL}
  BY <1>1 DEF Frames
<1>3. \A e \in Events :
        OfEvent(stack, e) = OfEvent(Callers, e) + (IF Top.event = e THEN 1 ELSE 0)
  BY <1>1, EventPushed
<1>4. \A c \in Controllers :
        OfCtl(stack, c) = OfCtl(Callers, c) + (IF Holding(Top, c) THEN 1 ELSE 0)
  BY <1>1, CtlPushed
<1>5. /\ FramesOK(controller, Callers, Slack) /\ OneDispose(Callers, Slack)
         /\ FrameOK(controller, Top, Slack)
      /\ Top.at \in Disposal /\ Top.event # NULL /\ Slack = 0 => ~DisposedIn(Callers, Top.event)
  BY <1>0, ShapePopped DEF IInv, Callers, Top
<1>6. \A e : FinalizedIn(stack, e) <=>
               FinalizedIn(Callers, e) \/ (Top.at = "finalizing" /\ Top.event = e)
  BY <1>1, FinalizedPushed
<1> QED  BY <1>1, <1>2, <1>3, <1>4, <1>5, <1>6

LEMMA InitKeeps ==
  Init => IInv
<1> SUFFICES ASSUME Init PROVE IInv
  OBVIOUS
<1>0. redisposed \in BOOLEAN
  BY Zenon DEF Init
<1>1. TypeOK
  BY <1>0 DEF Init, TypeOK
<1>2. \A x : OfEvent(stack, x) = 0 /\ OfCtl(stack, x) = 0
  <2>1. \A x : EventFrames(stack, x) = {} /\ CtlFrames(stack, x) = {}
    BY DEF Init, EventFrames, CtlFrames
  <2> QED  BY <2>1, FS_EmptySet DEF OfEvent, OfCtl
<1>3. \A c \in Controllers : OfCreated(controller, stack, c) = 0
  <2>1. \A c \in Controllers : Created(controller, stack, c) = {}
    BY NullAssumption DEF Init, Created
  <2> QED  BY <2>1, FS_EmptySet DEF OfCreated
<1>4. EventsCounted(eventRefs, eventOwned, stack)
  BY <1>2 DEF Init, EventsCounted
<1>5. CtlsCounted(ctlRefs, ctlOwned, controller, stack, Slack)
  <2>1. \A c \in Controllers : ctlRefs[c] = 0 /\ ctlOwned[c] = 0
    BY DEF Init
  <2> QED  BY <1>2, <1>3, <2>1 DEF CtlsCounted, Counted
<1>6. /\ FramesOK(controller, stack, Slack) /\ OneDispose(stack, Slack)
      /\ FreedEvents(eventRefs, controller) /\ LiveTyped(eventRefs, index_type)
  BY DEF Init, FramesOK, OneDispose, FreedEvents, LiveTyped
<1> QED  BY <1>1, <1>4, <1>5, <1>6 DEF IInv

\* The primed invariant, part by part.
LEMMA NextInv ==
  ASSUME CtlTyped', EventTyped',
         eventOwned' \in [Events -> Nat], ctlOwned' \in [Controllers -> Nat],
         handlers' \in [Controllers -> Seq(Handlers)], stack' \in Seq(Frames),
         redisposed' \in BOOLEAN,
         EventsCounted(eventRefs', eventOwned', stack'),
         CtlsCounted(ctlRefs', ctlOwned', controller', stack', Slack'),
         FramesOK(controller', stack', Slack'), OneDispose(stack', Slack'),
         FreedEvents(eventRefs', controller')
  PROVE  IInv'
<1>1. TypeOK'
  BY DEF TypeOK, CtlTyped, EventTyped
<1>2. EventsCounted(eventRefs, eventOwned, stack)'
  BY DEF EventsCounted
<1>3. CtlsCounted(ctlRefs, ctlOwned, controller, stack, Slack)'
  BY DEF CtlsCounted
<1>4. FramesOK(controller, stack, Slack)' /\ OneDispose(stack, Slack)'
  BY DEF FramesOK, OneDispose, FrameOK
<1>5. FreedEvents(eventRefs, controller)' /\ LiveTyped(eventRefs, index_type)'
  BY DEF FreedEvents, EventTyped, LiveTyped
<1> QED  BY <1>1, <1>2, <1>3, <1>4, <1>5 DEF IInv

\* Steps that dispose of no event a second time.
LEMMA SlackKept ==
  ASSUME IInv, UNCHANGED redisposed
  PROVE  redisposed' \in BOOLEAN /\ Slack' = Slack
BY Typed DEF Slack

\* One more reference, and one more that is held.
LEMMA HeldAdded ==
  ASSUME NEW n \in Nat, NEW held \in Nat, NEW slack, Counted(n, held, slack)
  PROVE  Counted(n + 1, held + 1, slack)
BY DEF Counted

LEMMA NewControllerKeeps ==
  ASSUME IInv, NEW c \in Controllers, NewController(c)
  PROVE  IInv'
<1>1. /\ ctlRefs[c] = 0 /\ ctlRefs' = [ctlRefs EXCEPT ![c] = 1]
      /\ ctlOwned' = [ctlOwned EXCEPT ![c] = 1]
      /\ UNCHANGED <<eventData, eventRefs, eventOwned, handlers, stack, redisposed>>
  BY DEF NewController
<1>2. UNCHANGED <<controller, index_type, indices>>
  BY <1>1 DEF eventData
<1>3. CtlTyped' /\ EventTyped' /\ ctlOwned' \in [Controllers -> Nat]
  BY <1>1, <1>2 DEF IInv, TypeOK, CtlTyped, EventTyped
<1>4. redisposed' \in BOOLEAN /\ Slack' = Slack
  BY <1>1, SlackKept
<1>5. CtlsCounted(ctlRefs', ctlOwned', controller', stack', Slack')
  <2> SUFFICES ASSUME NEW d \in Controllers
               PROVE  Counted(ctlRefs'[d], ctlOwned'[d] + OfCreated(controller, stack, d)
                                             + OfCtl(stack, d), Slack)
    BY <1>1, <1>2, <1>4 DEF CtlsCounted
  <2>1. /\ ctlRefs[d] \in Nat /\ ctlOwned[d] \in Nat /\ OfCtl(stack, d) \in Nat
        /\ OfCreated(controller, stack, d) \in Nat
        /\ Counted(ctlRefs[d], ctlOwned[d] + OfCreated(controller, stack, d)
                                 + OfCtl(stack, d), Slack)
    BY CountsTyped DEF IInv, CtlsCounted
  <2>2. CASE d = c
    <3>1. ctlRefs'[d] = 1 /\ ctlOwned'[d] = 1 /\ ctlRefs[d] = 0
      BY <1>1, <2>2 DEF IInv, TypeOK
    <3> QED  BY <2>1, <3>1 DEF Counted
  <2>3. CASE d # c
    BY <1>1, <2>1, <2>3 DEF IInv, TypeOK
  <2> QED  BY <2>2, <2>3
<1> QED  BY <1>1, <1>2, <1>3, <1>4, <1>5, NextInv DEF IInv, TypeOK

\* One more reference of the client on an object.
LEMMA RefControllerKeeps ==
  ASSUME IInv, NEW c \in Controllers, RefController(c)
  PROVE  IInv'
<1>1. /\ ctlRefs' = [ctlRefs EXCEPT ![c] = @ + 1]
      /\ ctlOwned' = [ctlOwned EXCEPT ![c] = @ + 1]
      /\ UNCHANGED <<eventData, eventRefs, eventOwned, handlers, stack, redisposed>>
  BY DEF RefController
<1>2. UNCHANGED <<controller, index_type, indices>>
  BY <1>1 DEF eventData
<1>3. CtlTyped' /\ EventTyped' /\ ctlOwned' \in [Controllers -> Nat]
  BY <1>1, <1>2 DEF IInv, TypeOK, CtlTyped, EventTyped
<1>4. redisposed' \in BOOLEAN /\ Slack' = Slack
  BY <1>1, SlackKept
<1>5. CtlsCounted(ctlRefs', ctlOwned', controller', stack', Slack')
  <2> SUFFICES ASSUME NEW d \in Controllers
               PROVE  Counted(ctlRefs'[d], ctlOwned'[d] + OfCreated(controller, stack, d)
                                             + OfCtl(stack, d), Slack)
    BY <1>1, <1>2, <1>4 DEF CtlsCounted
  <2>1. /\ ctlRefs[d] \in Nat /\ ctlOwned[d] \in Nat /\ OfCtl(stack, d) \in Nat
        /\ OfCreated(controller, stack, d) \in Nat
        /\ Counted(ctlRefs[d], ctlOwned[d] + OfCreated(controller, stack, d)
                                 + OfCtl(stack, d), Slack)
    BY CountsTyped DEF IInv, CtlsCounted
  <2>2. CASE d = c
    <3>1. ctlRefs'[d] = ctlRefs[d] + 1 /\ ctlOwned'[d] = ctlOwned[d] + 1
      BY <1>1, <2>2 DEF IInv, TypeOK
    <3> QED  BY <2>1, <3>1 DEF Counted
  <2>3. CASE d # c
    BY <1>1, <2>1, <2>3 DEF IInv, TypeOK
  <2> QED  BY <2>2, <2>3
<1> QED  BY <1>1, <1>2, <1>3, <1>4, <1>5, NextInv DEF IInv, TypeOK

LEMMA RefEventKeeps ==
  ASSUME IInv, NEW e \in Events, RefEvent(e)
  PROVE  IInv'
<1>1. /\ eventRefs' = [eventRefs EXCEPT ![e] = @ + 1]
      /\ eventOwned' = [eventOwned EXCEPT ![e] = @ + 1]
      /\ UNCHANGED <<eventData, ctlRefs, ctlOwned, handlers, stack, redisposed>>
  BY DEF RefEvent
<1>b. eventRefs[e] > 0
  BY UsedEventLives DEF RefEvent
<1>2. UNCHANGED <<controller, index_type, indices>>
  BY <1>1 DEF eventData
<1>3. CtlTyped' /\ EventTyped' /\ eventOwned' \in [Events -> Nat]
  <2>1. LiveTyped(eventRefs', index_type')
    BY <1>1, <1>2, <1>b DEF IInv, TypeOK, LiveTyped
  <2> QED  BY <1>1, <1>2, <2>1 DEF IInv, TypeOK, CtlTyped, EventTyped
<1>a. ASSUME NEW d \in Events
      PROVE  /\ eventRefs'[d] = eventOwned'[d] + OfEvent(stack, d)
             /\ eventRefs'[d] = 0 => eventRefs[d] = 0
  <2>1. eventRefs[d] = eventOwned[d] + OfEvent(stack, d)
    BY DEF IInv, EventsCounted
  <2>2. CASE d = e
    <3>1. eventRefs'[d] = eventRefs[d] + 1 /\ eventOwned'[d] = eventOwned[d] + 1
      BY <1>1, <2>2 DEF IInv, TypeOK
    <3> QED  BY <2>1, <3>1, CountsTyped DEF IInv
  <2>3. CASE d # e
    BY <1>1, <2>1, <2>3 DEF IInv, TypeOK
  <2> QED  BY <2>2, <2>3
<1>4. EventsCounted(eventRefs', eventOwned', stack')
  BY <1>1, <1>a DEF EventsCounted
<1>5. FreedEvents(eventRefs', controller')
  BY <1>2, <1>a DEF IInv, FreedEvents
<1>6. redisposed' \in BOOLEAN /\ Slack' = Slack
  BY <1>1, SlackKept
<1> QED  BY <1>1, <1>2, <1>3, <1>4, <1>5, <1>6, NextInv DEF IInv, TypeOK

\* A new event takes a reference on its controller.
LEMMA CreateKeeps ==
  ASSUME IInv, NEW e \in Events, NEW c \in Controllers, NEW type \in Types,
         NEW values \in Seq(Index), create_event(e, c, type, values)
  PROVE  IInv'
<1>1. /\ eventRefs[e] = 0
      /\ controller' = Written(controller, e, c)
      /\ index_type' = [index_type EXCEPT ![e] = type]
      /\ indices' = [indices EXCEPT ![e] = values]
      /\ ctlRefs' = [ctlRefs EXCEPT ![c] = @ + 1]
      /\ eventRefs' = [eventRefs EXCEPT ![e] = 1]
      /\ eventOwned' = [eventOwned EXCEPT ![e] = 1]
      /\ UNCHANGED <<ctlOwned, handlers, stack, redisposed>>
  BY DEF create_event, Construct, Written
<1>2. eventOwned[e] = 0 /\ OfEvent(stack, e) = 0 /\ controller[e] = NULL
  BY <1>1, CountsTyped DEF IInv, EventsCounted, FreedEvents
<1>3. CtlTyped' /\ EventTyped' /\ eventOwned' \in [Events -> Nat]
  <2>1. LiveTyped(eventRefs', index_type')
    BY <1>1 DEF IInv, TypeOK, LiveTyped
  <2> QED  BY <1>1, <2>1 DEF IInv, TypeOK, CtlTyped, EventTyped, Written
<1>4. EventsCounted(eventRefs', eventOwned', stack')
  <2> SUFFICES ASSUME NEW d \in Events
               PROVE  eventRefs'[d] = eventOwned'[d] + OfEvent(stack, d)
    BY <1>1 DEF EventsCounted
  <2>1. CASE d = e
    BY <1>1, <1>2, <2>1 DEF IInv, TypeOK
  <2>2. CASE d # e
    BY <1>1, <2>2 DEF IInv, TypeOK, EventsCounted
  <2> QED  BY <2>1, <2>2
<1>a. redisposed' \in BOOLEAN /\ Slack' = Slack
  BY <1>1, SlackKept
<1>b. ~DisposedIn(stack, e) /\ ~FinalizedIn(stack, e)
  <2>1. ~DisposedIn(stack, e)
    BY <1>2, NoCall DEF IInv, TypeOK
  <2> QED  BY <2>1 DEF DisposedIn, FinalizedIn, Disposal
<1>5. CtlsCounted(ctlRefs', ctlOwned', controller', stack', Slack')
  <2> SUFFICES ASSUME NEW d \in Controllers
               PROVE  Counted(ctlRefs'[d], ctlOwned[d] + OfCreated(controller', stack, d)
                                             + OfCtl(stack, d), Slack)
    BY <1>1, <1>a DEF CtlsCounted
  <2>1. Counted(ctlRefs[d], ctlOwned[d] + OfCreated(controller, stack, d)
                              + OfCtl(stack, d), Slack)
    BY DEF IInv, CtlsCounted
  <2>2. /\ ctlRefs[d] \in Nat /\ ctlOwned[d] \in Nat /\ OfCtl(stack, d) \in Nat
        /\ OfCreated(controller, stack, d) \in Nat
    BY CountsTyped DEF IInv
  <2>3. OfCreated(controller', stack, d) =
          OfCreated(controller, stack, d) + (IF c = d THEN 1 ELSE 0)
    <3>1. controller \in [Events -> Controllers \cup {NULL}] /\ controller[e] # d
      BY <1>2, NullAssumption DEF IInv, TypeOK
    <3>2. OfCreated(Written(controller, e, c), stack, d) =
            OfCreated(controller, stack, d) + (IF c = d THEN 1 ELSE 0)
              - (IF controller[e] = d THEN 1 ELSE 0)
      BY <1>b, <3>1, CreatedWritten
    <3>3. OfCreated(controller', stack, d) = OfCreated(Written(controller, e, c), stack, d)
      BY <1>1
    <3> QED  BY <2>2, <3>1, <3>2, <3>3
  <2>4. CASE c = d
    <3>1. ctlRefs'[d] = ctlRefs[d] + 1
      BY <1>1, <2>4 DEF IInv, TypeOK
    <3>2. OfCreated(controller', stack, d) = OfCreated(controller, stack, d) + 1
      BY <2>3, <2>4
    <3> QED  BY <2>1, <2>2, <3>1, <3>2 DEF Counted
  <2>5. CASE c # d
    <3>1. ctlRefs'[d] = ctlRefs[d]
      BY <1>1, <2>5 DEF IInv, TypeOK
    <3>2. OfCreated(controller', stack, d) = OfCreated(controller, stack, d)
      BY <2>2, <2>3, <2>5
    <3> QED  BY <2>1, <3>1, <3>2
  <2> QED  BY <2>4, <2>5
<1>6. FramesOK(controller', stack', Slack')
  BY <1>1, <1>a, <1>b, ShapeWritten DEF IInv, TypeOK
<1>7. FreedEvents(eventRefs', controller')
  <2> SUFFICES ASSUME NEW d \in Events, eventRefs'[d] = 0
               PROVE  controller'[d] = NULL
    BY DEF FreedEvents
  <2>1. d # e /\ eventRefs'[d] = eventRefs[d] /\ controller'[d] = controller[d]
    BY <1>1 DEF IInv, TypeOK, Written
  <2> QED  BY <2>1 DEF IInv, FreedEvents
<1> QED  BY <1>1, <1>3, <1>4, <1>5, <1>6, <1>7, <1>a, NextInv DEF IInv, TypeOK

\* What the variadic form collects is a sequence of indices.
LEMMA CollectedTyped ==
  ASSUME NEW type \in Types, NEW args \in Args
  PROVE  Collected(type, args) \in Seq(Index)
<1> DEFINE bad == {i \in DOMAIN args : args[i] = BAD}
           first == CHOOSE i \in bad : \A j \in bad : i <= j
           n == IF bad = {} THEN Len(args) ELSE first
<1>1. PICK k \in 0..MaxIndices : args \in [1..k -> Vals \cup {BAD}]
  BY DEF Args
<1>2. k \in Nat /\ DOMAIN args = 1..k /\ Len(args) = k
  <2>1. k \in Nat
    BY <1>1, BoundsAssumption
  <2> QED  BY <1>1, <2>1
<1>3. bad # {} => first \in bad
  <2>1. bad \in SUBSET Nat
    BY <1>2
  <2> HIDE DEF bad
  <2> QED  BY <2>1, LeastPosition
<1>4. n \in Nat /\ \A i \in 1..n : i \in 1..k
  <2>1. CASE bad = {}
    BY <1>2, <2>1
  <2>2. CASE bad # {}
    <3>1. n \in 1..k
      BY <1>2, <1>3, <2>2
    <3> HIDE DEF n
    <3>2. k \in Nat
      BY <1>2
    <3> QED  BY <3>1, <3>2
  <2> QED  BY <2>1, <2>2
<1>5. Collected(type, args) =
        [i \in 1..n |-> [type |-> type, val |-> IF args[i] = BAD THEN ZERO ELSE args[i]]]
  BY DEF Collected
<1> HIDE DEF n
<1>6. ASSUME NEW i \in 1..n
      PROVE  [type |-> type, val |-> IF args[i] = BAD THEN ZERO ELSE args[i]] \in Index
  <2>1. args[i] \in Vals \cup {BAD}
    BY <1>1, <1>4
  <2> QED  BY <2>1 DEF Index
<1> QED  BY <1>4, <1>5, <1>6

LEMMA CreatesKeep ==
  ASSUME IInv, NEW e \in Events, NEW c \in Controllers, NEW type \in Types,
         \/ \E values \in Indices : g_controller_create_eventv(e, c, type, values)
         \/ \E args \in Args : g_controller_create_event(e, c, type, args)
  PROVE  IInv'
<1>1. ASSUME NEW values \in Indices, g_controller_create_eventv(e, c, type, values)
      PROVE  IInv'
  <2>1. PICK n \in 0..MaxIndices : values \in [1..n -> Passed]
    BY DEF Indices
  <2>2. n \in Nat
    BY BoundsAssumption
  <2>3. values \in Seq(Index)
    <3>1. Passed \subseteq Index
      BY DEF Passed, Index
    <3> QED  BY <2>1, <2>2, <3>1
  <2> QED  BY <1>1, <2>3, CreateKeeps DEF g_controller_create_eventv
<1>2. ASSUME NEW args \in Args, g_controller_create_event(e, c, type, args)
      PROVE  IInv'
  BY <1>2, CollectedTyped, CreateKeeps DEF g_controller_create_event
<1> QED  BY <1>1, <1>2

\* Steps that change neither counts nor calls.
LEMMA CountsKept ==
  ASSUME IInv, UNCHANGED <<controller, counts, redisposed>>, EventTyped',
         handlers' \in [Controllers -> Seq(Handlers)], stack' \in Seq(Frames),
         SameCalls(stack, stack')
  PROVE  IInv'
<1>1. UNCHANGED <<controller, eventRefs, eventOwned, ctlRefs, ctlOwned>>
  BY DEF counts
<1>a. redisposed' \in BOOLEAN /\ Slack' = Slack
  BY SlackKept
<1>2. CtlTyped'
  BY <1>1 DEF IInv, TypeOK, CtlTyped
<1>3. /\ \A e : OfEvent(stack', e) = OfEvent(stack, e)
      /\ \A c : OfCtl(stack', c) = OfCtl(stack, c)
      /\ FramesOK(controller', stack', Slack') /\ OneDispose(stack', Slack')
      /\ \A c : OfCreated(controller', stack', c) = OfCreated(controller, stack, c)
  BY <1>1, <1>a, SameCallsCount, CreatedSame DEF IInv
<1>4. /\ EventsCounted(eventRefs', eventOwned', stack')
      /\ CtlsCounted(ctlRefs', ctlOwned', controller', stack', Slack')
      /\ FreedEvents(eventRefs', controller')
  BY <1>1, <1>3, <1>a DEF IInv, EventsCounted, CtlsCounted, FreedEvents
<1> QED  BY <1>1, <1>2, <1>3, <1>4, <1>a, NextInv DEF IInv, TypeOK

LEMMA SameStack ==
  ASSUME IInv, stack' = stack
  PROVE  stack' \in Seq(Frames) /\ SameCalls(stack, stack')
BY DEF IInv, TypeOK, SameCalls

-----------------------------------------------------------------------------
(* Filling events, handlers.                                               *)

\* What is appended has the type of the event, which a live event has.
LEMMA AddIndexKeeps ==
  ASSUME IInv, NEW e \in Events,
         \/ \E index \in Passed : g_controller_event_add_index_value(e, index)
         \/ \E arg \in Vals \cup {BAD} : g_controller_event_add_index(e, arg)
  PROVE  IInv'
<1>1. PICK x \in Index : indices' = [indices EXCEPT ![e] = Append(@, x)]
  <2>1. ASSUME NEW index \in Passed, g_controller_event_add_index_value(e, index)
        PROVE  index \in Index /\ indices' = [indices EXCEPT ![e] = Append(@, index)]
    BY <2>1 DEF Passed, Index, g_controller_event_add_index_value, AppendIndex
  <2>2. ASSUME NEW arg \in Vals \cup {BAD}, g_controller_event_add_index(e, arg)
        PROVE  \E x \in Index : indices' = [indices EXCEPT ![e] = Append(@, x)]
    <3>1. arg \in Vals /\ AddIndex(e)
      BY <2>2 DEF g_controller_event_add_index
    <3>2. index_type[e] \in Types
      BY <3>1, UsedEventLives DEF AddIndex
    <3>3. [type |-> index_type[e], val |-> arg] \in Index
      BY <3>1, <3>2 DEF Index
    <3> QED  BY <2>2, <3>3 DEF g_controller_event_add_index
  <2> QED  BY <2>1, <2>2
<1>2. AddIndex(e)
  BY DEF g_controller_event_add_index_value, g_controller_event_add_index
<1>3. UNCHANGED <<controller, index_type, counts, handlers, stack, redisposed>>
  BY <1>2 DEF AddIndex
<1>4. indices' \in [Events -> Seq(Index)]
  <2>1. indices \in [Events -> Seq(Index)]
    BY DEF IInv, TypeOK
  <2>2. Append(indices[e], x) \in Seq(Index)
    BY <2>1
  <2> QED  BY <1>1, <2>1, <2>2
<1>5. EventTyped'
  BY <1>3, <1>4, Typed DEF EventTyped, counts
<1>6. stack' \in Seq(Frames) /\ SameCalls(stack, stack')
  BY <1>3, SameStack
<1>7. handlers' \in [Controllers -> Seq(Handlers)]
  BY <1>3, Typed
<1> QED  BY <1>3, <1>5, <1>6, <1>7, CountsKept

LEMMA EventsSame ==
  ASSUME IInv, UNCHANGED <<eventData, counts>>
  PROVE  EventTyped' /\ UNCHANGED <<controller, counts>>
BY Typed DEF EventTyped, eventData, counts

LEMMA ConnectKeeps ==
  ASSUME IInv, NEW c \in Controllers, NEW h \in Handlers, Connect(c, h)
  PROVE  IInv'
<1>1. UNCHANGED <<eventData, counts, stack, redisposed>> /\ handlers' = [handlers EXCEPT ![c] = Append(@, h)]
  BY DEF Connect
<1>2. handlers' \in [Controllers -> Seq(Handlers)]
  <2>1. handlers \in [Controllers -> Seq(Handlers)]
    BY Typed
  <2>2. Append(handlers[c], h) \in Seq(Handlers)
    BY <2>1
  <2> QED  BY <1>1, <2>1, <2>2
<1>3. stack' \in Seq(Frames) /\ SameCalls(stack, stack')
  BY <1>1, SameStack
<1>4. EventTyped' /\ UNCHANGED <<controller, counts>>
  BY <1>1, EventsSame
<1> QED  BY <1>1, <1>2, <1>3, <1>4, CountsKept

\* Disconnecting takes handlers out of emissions, and no emission away.
LEMMA DisconnectKeeps ==
  ASSUME IInv, NEW c \in Controllers, NEW h \in Handlers, Disconnect(c, h)
  PROVE  IInv'
<1>1. /\ UNCHANGED <<eventData, counts, redisposed>> /\ stack' = Skipping(c, h, stack)
      /\ handlers' = [handlers EXCEPT ![c] = RemoveFirst(@, h)]
  BY DEF Disconnect
<1>2. handlers' \in [Controllers -> Seq(Handlers)]
  <2>1. handlers \in [Controllers -> Seq(Handlers)]
    BY Typed
  <2>2. RemoveFirst(handlers[c], h) \in Seq(Handlers)
    BY <2>1, RemoveFirstTyped
  <2> QED  BY <1>1, <2>1, <2>2
<1>3. stack' \in Seq(Frames) /\ SameCalls(stack, stack')
  BY <1>1, SkippingSame, Typed
<1>4. EventTyped' /\ UNCHANGED <<controller, counts>>
  BY <1>1, EventsSame
<1> QED  BY <1>1, <1>2, <1>3, <1>4, CountsKept

LEMMA RunDisposeControllerKeeps ==
  ASSUME IInv, NEW c \in Controllers, RunDisposeController(c)
  PROVE  IInv'
<1>1. /\ UNCHANGED <<eventData, counts, redisposed>> /\ stack' = Silenced(c, stack)
      /\ handlers' = [handlers EXCEPT ![c] = <<>>]
  BY DEF RunDisposeController
<1>2. handlers' \in [Controllers -> Seq(Handlers)]
  <2>1. handlers \in [Controllers -> Seq(Handlers)] /\ <<>> \in Seq(Handlers)
    BY Typed
  <2> QED  BY <1>1, <2>1
<1>3. stack' \in Seq(Frames) /\ SameCalls(stack, stack')
  BY <1>1, SkippingSame, Typed
<1>4. EventTyped' /\ UNCHANGED <<controller, counts>>
  BY <1>1, EventsSame
<1> QED  BY <1>1, <1>2, <1>3, <1>4, CountsKept

\* A handler returns and the next one is called: the same calls.
LEMMA NextHandlerKeeps ==
  ASSUME IInv, NextHandler
  PROVE  IInv'
<1> DEFINE f == [Top EXCEPT !.todo = Tail(@)]
           n == Len(Callers) + 1
<1>1. /\ stack # <<>> /\ Top.todo # <<>> /\ stack' = Append(Callers, f)
      /\ UNCHANGED <<eventData, counts, handlers, redisposed>>
  BY DEF NextHandler
<1>2. /\ Callers \in Seq(Frames) /\ Top \in Frames /\ stack = Append(Callers, Top)
  BY <1>1, Popped, Typed DEF Callers, Top
<1>3. f \in Frames /\ f.at = Top.at /\ f.ctl = Top.ctl /\ f.event = Top.event
  <2>1. Tail(Top.todo) \in Seq(Handlers)
    BY <1>1, <1>2 DEF Frames
  <2> QED  BY <1>2, <2>1 DEF Frames
<1> HIDE DEF f
<1>4. /\ DOMAIN stack = 1..n /\ DOMAIN stack' = 1..n /\ Len(Callers) \in Nat
      /\ \A i \in 1..Len(Callers) : stack[i] = stack'[i]
      /\ stack[n] = Top /\ stack'[n] = f
  BY <1>1, <1>2, <1>3, Pushed
<1>5. SameCalls(stack, stack')
  <2>1. \A i \in 1..n : i = n \/ i \in 1..Len(Callers)
    BY <1>4
  <2> QED  BY <1>3, <1>4, <2>1 DEF SameCalls
<1>6. stack' \in Seq(Frames)
  BY <1>1, <1>2, <1>3
<1>7. EventTyped' /\ UNCHANGED <<controller, counts>>
  BY <1>1, EventsSame
<1>8. handlers' \in [Controllers -> Seq(Handlers)]
  BY <1>1, Typed
<1> QED  BY <1>1, <1>5, <1>6, <1>7, <1>8, CountsKept

-----------------------------------------------------------------------------
(* Emissions and releases.                                                 *)

\* An emission holds its controller and its event.
LEMMA EmitKeeps ==
  ASSUME IInv, NEW c \in Controllers, NEW e \in Events, g_controller_emit_changed(c, e)
  PROVE  IInv'
<1> DEFINE f == Frame("emitting", c, e, Tail(handlers[c]))
<1>1. /\ handlers[c] # <<>>
      /\ ctlRefs' = [ctlRefs EXCEPT ![c] = @ + 1]
      /\ eventRefs' = [eventRefs EXCEPT ![e] = @ + 1]
      /\ stack' = Append(stack, f)
      /\ UNCHANGED <<eventData, eventOwned, ctlOwned, handlers, redisposed>>
  BY DEF g_controller_emit_changed, StartEmission
<1>2. UNCHANGED <<controller, index_type, indices>>
  BY <1>1 DEF eventData
<1>3. f \in Frames /\ f.at = "emitting" /\ f.ctl = c /\ f.event = e /\ e # NULL
  <2>1. handlers[c] \in Seq(Handlers)
    BY Typed
  <2>2. Tail(handlers[c]) \in Seq(Handlers)
    BY <1>1, <2>1
  <2>3. e # NULL
    BY NullAssumption
  <2> QED  BY <2>2, <2>3 DEF Frame, Frames
<1> HIDE DEF f
<1>4. stack \in Seq(Frames) /\ stack' \in Seq(Frames)
  BY <1>1, <1>3, Typed
<1>5. FramesOK(controller, stack', Slack) /\ OneDispose(stack', Slack)
  <2>1. FrameOK(controller, f, Slack) /\ f.at \notin Disposal
    BY <1>3 DEF FrameOK, Disposal
  <2> QED  BY <1>1, <1>3, <1>4, <2>1, ShapePushed DEF IInv
<1>6. CtlTyped' /\ EventTyped'
  <2>1. eventRefs[e] > 0
    BY UsedEventLives DEF g_controller_emit_changed
  <2>2. LiveTyped(eventRefs', index_type')
    BY <1>1, <1>2, <2>1 DEF IInv, TypeOK, LiveTyped
  <2> QED  BY <1>1, <1>2, <2>2, Typed DEF CtlTyped, EventTyped
<1>7. ASSUME NEW d \in Events
      PROVE  /\ eventRefs'[d] = eventOwned[d] + OfEvent(stack', d)
             /\ eventRefs'[d] = 0 => eventRefs[d] = 0
  <2>1. /\ eventRefs[d] = eventOwned[d] + OfEvent(stack, d)
        /\ eventRefs[d] \in Nat /\ eventOwned[d] \in Nat /\ OfEvent(stack, d) \in Nat
    BY CountsTyped DEF IInv, EventsCounted
  <2>2. OfEvent(stack', d) = OfEvent(stack, d) + (IF e = d THEN 1 ELSE 0)
    BY <1>1, <1>3, <1>4, EventPushed
  <2>3. CASE d = e
    <3>1. eventRefs'[d] = eventRefs[d] + 1 /\ OfEvent(stack', d) = OfEvent(stack, d) + 1
      BY <1>1, <2>2, <2>3 DEF IInv, TypeOK
    <3> QED  BY <2>1, <3>1
  <2>4. CASE d # e
    <3>1. eventRefs'[d] = eventRefs[d] /\ OfEvent(stack', d) = OfEvent(stack, d)
      BY <1>1, <2>1, <2>2, <2>4 DEF IInv, TypeOK
    <3> QED  BY <2>1, <3>1
  <2> QED  BY <2>3, <2>4
<1>a. redisposed' \in BOOLEAN /\ Slack' = Slack
  BY <1>1, SlackKept
<1>b. \A d : OfCreated(controller, stack', d) = OfCreated(controller, stack, d)
  <2>1. \A x : FinalizedIn(stack', x) <=> FinalizedIn(stack, x)
    BY <1>1, <1>3, <1>4, FinalizedPushed
  <2> QED  BY <2>1, CreatedSame
<1>8. ASSUME NEW d \in Controllers
      PROVE  Counted(ctlRefs'[d], ctlOwned[d] + OfCreated(controller, stack', d)
                                    + OfCtl(stack', d), Slack)
  <2>1. /\ Counted(ctlRefs[d], ctlOwned[d] + OfCreated(controller, stack, d)
                                 + OfCtl(stack, d), Slack)
        /\ ctlRefs[d] \in Nat /\ ctlOwned[d] \in Nat /\ OfCtl(stack, d) \in Nat
        /\ OfCreated(controller, stack, d) \in Nat
    BY CountsTyped DEF IInv, CtlsCounted
  <2>2. OfCtl(stack', d) = OfCtl(stack, d) + (IF Holding(f, d) THEN 1 ELSE 0)
    BY <1>1, <1>3, <1>4, CtlPushed
  <2>3. CASE d = c
    <3>1. ctlRefs'[d] = ctlRefs[d] + 1
      BY <1>1, <2>3 DEF IInv, TypeOK
    <3>2. OfCtl(stack', d) = OfCtl(stack, d) + 1
      BY <1>3, <2>2, <2>3 DEF Holding
    <3> QED  BY <1>b, <2>1, <3>1, <3>2 DEF Counted
  <2>4. CASE d # c
    <3>1. ctlRefs'[d] = ctlRefs[d]
      BY <1>1, <2>4 DEF IInv, TypeOK
    <3>2. ~Holding(f, d)
      BY <1>3, <2>4 DEF Holding
    <3>3. OfCtl(stack', d) = OfCtl(stack, d)
      BY <2>1, <2>2, <3>2
    <3> QED  BY <1>b, <2>1, <3>1, <3>3
  <2> QED  BY <2>3, <2>4
<1>9. /\ EventsCounted(eventRefs', eventOwned', stack')
      /\ CtlsCounted(ctlRefs', ctlOwned', controller', stack', Slack')
      /\ FreedEvents(eventRefs', controller')
  BY <1>1, <1>2, <1>7, <1>8, <1>a DEF EventsCounted, CtlsCounted, FreedEvents, IInv
<1> QED  BY <1>1, <1>2, <1>4, <1>5, <1>6, <1>9, <1>a, NextInv, Typed

LEMMA UnrefControllerKeeps ==
  ASSUME IInv, NEW c \in Controllers, UnrefController(c)
  PROVE  IInv'
<1>1. /\ ctlOwned[c] > 0 /\ ctlOwned' = [ctlOwned EXCEPT ![c] = @ - 1]
      /\ UnrefCtl(c, stack)
      /\ UNCHANGED <<eventData, eventRefs, eventOwned, handlers, redisposed>>
  BY DEF UnrefController
<1>2. UNCHANGED <<controller, index_type, indices>>
  BY <1>1 DEF eventData
<1>a. redisposed' \in BOOLEAN /\ Slack' = Slack
  BY <1>1, SlackKept
<1>3. ctlOwned' \in [Controllers -> Nat] /\ ctlOwned'[c] = ctlOwned[c] - 1
      /\ \A d \in Controllers \ {c} : ctlOwned'[d] = ctlOwned[d]
  <2>1. ctlOwned \in [Controllers -> Nat] /\ ctlOwned[c] \in Nat
    BY Typed
  <2> QED  BY <1>1, <2>1
<1>4. ASSUME NEW d \in Controllers
      PROVE  Counted(ctlRefs[d], ctlOwned'[d] + OfCreated(controller, stack, d)
                                   + OfCtl(stack, d) + (IF d = c THEN 1 ELSE 0), Slack)
  <2>1. /\ Counted(ctlRefs[d], ctlOwned[d] + OfCreated(controller, stack, d)
                                 + OfCtl(stack, d), Slack)
        /\ ctlRefs[d] \in Nat /\ ctlOwned[d] \in Nat /\ OfCtl(stack, d) \in Nat
        /\ OfCreated(controller, stack, d) \in Nat
    BY CountsTyped DEF IInv, CtlsCounted
  <2>2. ctlOwned'[d] + OfCreated(controller, stack, d) + OfCtl(stack, d)
          + (IF d = c THEN 1 ELSE 0)
            = ctlOwned[d] + OfCreated(controller, stack, d) + OfCtl(stack, d)
    <3>1. CASE d = c
      BY <1>3, <2>1, <3>1
    <3>2. CASE d # c
      BY <1>3, <2>1, <3>2
    <3> QED  BY <3>1, <3>2
  <2> QED  BY <2>1, <2>2
<1>5. stack \in Seq(Frames) /\ CtlTyped
      /\ FramesOK(controller, stack, Slack) /\ OneDispose(stack, Slack)
  BY DEF IInv, TypeOK, CtlTyped
<1>6. /\ stack' \in Seq(Frames) /\ ctlRefs' \in [Controllers -> Nat]
      /\ CtlsCounted(ctlRefs', ctlOwned', controller, stack', Slack)
      /\ FramesOK(controller, stack', Slack) /\ OneDispose(stack', Slack)
      /\ \A e \in Events : OfEvent(stack', e) = OfEvent(stack, e)
  BY <1>1, <1>3, <1>4, <1>5, UnrefCtlKeeps
<1>7. CtlTyped' /\ EventTyped'
  BY <1>1, <1>2, <1>6, Typed DEF CtlTyped, EventTyped
<1>8. /\ EventsCounted(eventRefs', eventOwned', stack')
      /\ FreedEvents(eventRefs', controller')
  BY <1>1, <1>2, <1>6 DEF IInv, EventsCounted
<1> QED  BY <1>1, <1>2, <1>3, <1>6, <1>7, <1>8, <1>a, NextInv, Typed

LEMMA UnrefOwnedEventKeeps ==
  ASSUME IInv, NEW e \in Events, UnrefOwnedEvent(e)
  PROVE  IInv'
<1>1. /\ eventOwned[e] > 0 /\ eventOwned' = [eventOwned EXCEPT ![e] = @ - 1]
      /\ UnrefEvent(e, stack)
      /\ UNCHANGED <<ctlOwned, handlers, redisposed>>
  BY DEF UnrefOwnedEvent
<1>2. eventOwned' \in [Events -> Nat] /\ eventOwned'[e] = eventOwned[e] - 1
      /\ \A x \in Events \ {e} : eventOwned'[x] = eventOwned[x]
  <2>1. eventOwned \in [Events -> Nat] /\ eventOwned[e] \in Nat
    BY Typed
  <2> QED  BY <1>1, <2>1
<1>3. ASSUME NEW x \in Events
      PROVE  eventRefs[x] = eventOwned'[x] + OfEvent(stack, x) + (IF x = e THEN 1 ELSE 0)
  <2>1. /\ eventRefs[x] = eventOwned[x] + OfEvent(stack, x)
        /\ eventRefs[x] \in Nat /\ eventOwned[x] \in Nat /\ OfEvent(stack, x) \in Nat
    BY CountsTyped DEF IInv, EventsCounted
  <2>2. CASE x = e
    <3>1. eventOwned'[x] = eventOwned[x] - 1
      BY <1>2, <2>2
    <3> QED  BY <2>1, <2>2, <3>1
  <2>3. CASE x # e
    <3>1. eventOwned'[x] = eventOwned[x]
      BY <1>2, <2>3
    <3> QED  BY <2>1, <2>3, <3>1
  <2> QED  BY <2>2, <2>3
<1>4. /\ stack \in Seq(Frames) /\ ctlOwned \in [Controllers -> Nat]
      /\ CtlsCounted(ctlRefs, ctlOwned, controller, stack, Slack)
      /\ FramesOK(controller, stack, Slack) /\ OneDispose(stack, Slack)
      /\ FreedEvents(eventRefs, controller)
  BY DEF IInv, TypeOK
<1>5. /\ stack' \in Seq(Frames) /\ CtlTyped' /\ EventTyped'
      /\ EventsCounted(eventRefs', eventOwned', stack')
      /\ CtlsCounted(ctlRefs', ctlOwned, controller', stack', Slack)
      /\ FramesOK(controller', stack', Slack) /\ OneDispose(stack', Slack)
      /\ FreedEvents(eventRefs', controller')
  BY <1>1, <1>2, <1>3, <1>4, Typed, UnrefEventKeeps
<1>6. redisposed' \in BOOLEAN /\ Slack' = Slack
  BY <1>1, SlackKept
<1> QED  BY <1>1, <1>2, <1>5, <1>6, NextInv, Typed

\* What the counts say with no slack they say with any.
LEMMA MoreSlack ==
  ASSUME IInv, NEW slack, slack = 0 => Slack = 0
  PROVE  /\ CtlsCounted(ctlRefs, ctlOwned, controller, stack, slack)
         /\ FramesOK(controller, stack, slack) /\ OneDispose(stack, slack)
BY DEF IInv, CtlsCounted, Counted, FramesOK, FrameOK, OneDispose

\* An explicit dispose: its frame, if there is one, takes a reference.  From
\* within the dispose of the same event, it leaves slack.
LEMMA RunDisposeEventKeeps ==
  ASSUME IInv, NEW e \in Events, RunDisposeEvent(e)
  PROVE  IInv'
<1>1. /\ MayUseEvent(e) /\ redisposed' = (redisposed \/ Disposing(e))
      /\ UNCHANGED <<index_type, indices, eventOwned, ctlOwned, handlers>>
  BY DEF RunDisposeEvent
<1>a. redisposed' \in BOOLEAN
  <2>1. (redisposed \/ Disposing(e)) \in BOOLEAN
    BY Zenon
  <2> QED  BY <1>1, <2>1
<1>b. Slack' = 0 => Slack = 0 /\ ~DisposedIn(stack, e)
  <2>1. Disposing(e) <=> DisposedIn(stack, e)
    BY DEF Disposing, DisposedIn, Disposal
  <2>2. ~redisposed' => ~redisposed /\ ~Disposing(e)
    BY <1>1, Zenon
  <2>3. Slack' = 0 => ~redisposed'
    BY DEF Slack
  <2> QED  BY <2>1, <2>2, <2>3 DEF Slack
<1>2. /\ stack \in Seq(Frames) /\ CtlTyped /\ EventTyped /\ ctlOwned \in [Controllers -> Nat]
      /\ CtlsCounted(ctlRefs, ctlOwned, controller, stack, Slack')
      /\ FramesOK(controller, stack, Slack') /\ OneDispose(stack, Slack')
  BY <1>b, MoreSlack, Typed
<1>3. CASE dispose(e) /\ UNCHANGED <<eventRefs, stack>>
  <2>1. /\ CtlTyped' /\ controller' = Written(controller, e, NULL)
        /\ CtlsCounted(ctlRefs', ctlOwned, controller', stack, Slack')
        /\ FramesOK(controller', stack, Slack')
    BY <1>b, <1>2, <1>3, DisposeKeeps
  <2>2. EventTyped'
    BY <1>1, <1>2, <1>3 DEF EventTyped
  <2>3. FreedEvents(eventRefs', controller')
    <3>1. \A x \in Events : controller'[x] = IF x = e THEN NULL ELSE controller[x]
      BY <1>2, <2>1 DEF Written, CtlTyped
    <3> QED  BY <1>3, <3>1 DEF IInv, FreedEvents
  <2>4. EventsCounted(eventRefs', eventOwned', stack')
    BY <1>1, <1>3 DEF IInv
  <2>5. /\ CtlsCounted(ctlRefs', ctlOwned', controller', stack', Slack')
        /\ FramesOK(controller', stack', Slack') /\ OneDispose(stack', Slack') /\ stack' \in Seq(Frames)
    BY <1>1, <1>2, <1>3, <2>1
  <2> QED  BY <1>1, <2>1, <2>2, <2>3, <2>4, <2>5, <1>a, NextInv, Typed
<1>4. CASE DisposeLast(e, stack) /\ eventRefs' = [eventRefs EXCEPT ![e] = @ + 1]
  <2>1. /\ stack' \in Seq(Frames) /\ UNCHANGED <<ctlRefs, controller>>
        /\ CtlsCounted(ctlRefs, ctlOwned, controller, stack', Slack')
        /\ FramesOK(controller, stack', Slack') /\ OneDispose(stack', Slack')
        /\ \A x \in Events :
             OfEvent(stack', x) = OfEvent(stack, x) + (IF x = e THEN 1 ELSE 0)
    BY <1>b, <1>2, <1>4, DisposeLastKeeps
  <2>2. CtlTyped' /\ EventTyped'
    <3>1. eventRefs[e] > 0
      BY <1>1, UsedEventLives
    <3>2. LiveTyped(eventRefs', index_type')
      BY <1>1, <1>4, <3>1 DEF IInv, TypeOK, LiveTyped
    <3> QED  BY <1>1, <1>2, <1>4, <2>1, <3>2 DEF CtlTyped, EventTyped
  <2>3. ASSUME NEW d \in Events
        PROVE  /\ eventRefs'[d] = eventOwned[d] + OfEvent(stack', d)
               /\ eventRefs'[d] = 0 => eventRefs[d] = 0
    <3>1. /\ eventRefs[d] = eventOwned[d] + OfEvent(stack, d)
          /\ eventRefs[d] \in Nat /\ eventOwned[d] \in Nat /\ OfEvent(stack, d) \in Nat
      BY CountsTyped DEF IInv, EventsCounted
    <3>2. CASE d = e
      <4>1. eventRefs'[d] = eventRefs[d] + 1 /\ OfEvent(stack', d) = OfEvent(stack, d) + 1
        BY <1>4, <2>1, <3>2 DEF IInv, TypeOK
      <4> QED  BY <3>1, <4>1
    <3>3. CASE d # e
      <4>1. eventRefs'[d] = eventRefs[d] /\ OfEvent(stack', d) = OfEvent(stack, d)
        BY <1>4, <2>1, <3>1, <3>3 DEF IInv, TypeOK
      <4> QED  BY <3>1, <4>1
    <3> QED  BY <3>2, <3>3
  <2>4. /\ EventsCounted(eventRefs', eventOwned', stack')
        /\ FreedEvents(eventRefs', controller')
    BY <1>1, <2>1, <2>3 DEF EventsCounted, FreedEvents, IInv
  <2>5. CtlsCounted(ctlRefs', ctlOwned', controller', stack', Slack') /\ FramesOK(controller', stack', Slack')
    BY <1>1, <2>1
  <2> QED  BY <1>1, <2>1, <2>2, <2>4, <2>5, <1>a, NextInv, Typed
<1> QED  BY <1>3, <1>4 DEF RunDisposeEvent

\* The emission gives the event back, under a frame that keeps the controller.
LEMMA LastHandlerKeeps ==
  ASSUME IInv, LastHandler
  PROVE  IInv'
<1> DEFINE e == Top.event
           f == Frame("finishing", Top.ctl, NULL, <<>>)
           callers == Append(Callers, f)
<1>1. /\ stack # <<>> /\ Top.at = "emitting"
      /\ UnrefEvent(e, callers) /\ UNCHANGED <<eventOwned, ctlOwned, handlers, redisposed>>
  BY DEF LastHandler
<1>2. /\ Callers \in Seq(Frames) /\ Top.ctl \in Controllers /\ e \in Events /\ NULL \notin Events
      /\ \A x \in Events :
           OfEvent(stack, x) = OfEvent(Callers, x) + (IF Top.event = x THEN 1 ELSE 0)
      /\ \A c \in Controllers :
           OfCtl(stack, c) = OfCtl(Callers, c) + (IF Holding(Top, c) THEN 1 ELSE 0)
      /\ \A x : FinalizedIn(stack, x) <=> FinalizedIn(Callers, x)
      /\ FramesOK(controller, Callers, Slack) /\ OneDispose(Callers, Slack)
  BY <1>1, TopTyped, NullAssumption DEF FrameOK
<1>3. f \in Frames /\ f.at = "finishing" /\ f.ctl = Top.ctl /\ f.event = NULL
  BY <1>2 DEF Frame, Frames
<1> HIDE DEF f
<1>4. callers \in Seq(Frames)
  BY <1>2, <1>3
<1>5. FramesOK(controller, callers, Slack) /\ OneDispose(callers, Slack)
  <2>1. FrameOK(controller, f, Slack) /\ f.at \notin Disposal
    BY <1>3 DEF FrameOK, Disposal
  <2> QED  BY <1>2, <1>3, <2>1, ShapePushed
<1>6. ASSUME NEW x \in Events
      PROVE  eventRefs[x] = eventOwned[x] + OfEvent(callers, x) + (IF x = e THEN 1 ELSE 0)
  <2>1. /\ eventRefs[x] = eventOwned[x] + OfEvent(stack, x)
        /\ eventRefs[x] \in Nat /\ eventOwned[x] \in Nat /\ OfEvent(Callers, x) \in Nat
    BY <1>2, CountsTyped, CallsFinite DEF IInv, EventsCounted
  <2>2. OfEvent(callers, x) = OfEvent(Callers, x)
    <3>1. OfEvent(callers, x) = OfEvent(Callers, x) + (IF f.event = x THEN 1 ELSE 0)
      BY <1>2, <1>3, EventPushed
    <3>2. f.event # x
      BY <1>2, <1>3
    <3> QED  BY <2>1, <3>1, <3>2
  <2>3. OfEvent(stack, x) = OfEvent(Callers, x) + (IF Top.event = x THEN 1 ELSE 0)
    BY <1>2
  <2> HIDE DEF callers
  <2>4. CASE x = e
    <3>1. OfEvent(stack, x) = OfEvent(Callers, x) + 1
      BY <2>3, <2>4
    <3> QED  BY <2>1, <2>2, <2>4, <3>1
  <2>5. CASE x # e
    <3>1. OfEvent(stack, x) = OfEvent(Callers, x)
      BY <2>1, <2>3, <2>5
    <3> QED  BY <2>1, <2>2, <2>5, <3>1
  <2> QED  BY <2>4, <2>5
<1>7. CtlsCounted(ctlRefs, ctlOwned, controller, callers, Slack)
  <2>1. ASSUME NEW c \in Controllers
        PROVE  OfCtl(callers, c) = OfCtl(stack, c)
    <3>1. OfCtl(callers, c) = OfCtl(Callers, c) + (IF Holding(f, c) THEN 1 ELSE 0)
      BY <1>2, <1>3, CtlPushed
    <3>2. Holding(f, c) <=> Holding(Top, c)
      BY <1>1, <1>3 DEF Holding
    <3> QED  BY <1>2, <3>1, <3>2
  <2>2. \A x : FinalizedIn(callers, x) <=> FinalizedIn(stack, x)
    BY <1>1, <1>2, <1>3, FinalizedPushed
  <2> HIDE DEF callers
  <2>3. \A c : OfCreated(controller, callers, c) = OfCreated(controller, stack, c)
    BY <2>2, CreatedSame
  <2> QED  BY <2>1, <2>3 DEF IInv, CtlsCounted
<1> HIDE DEF callers, e
<1>8. /\ stack' \in Seq(Frames) /\ CtlTyped' /\ EventTyped'
      /\ EventsCounted(eventRefs', eventOwned, stack')
      /\ CtlsCounted(ctlRefs', ctlOwned, controller', stack', Slack)
      /\ FramesOK(controller', stack', Slack) /\ OneDispose(stack', Slack)
      /\ FreedEvents(eventRefs', controller')
  <2>1. FreedEvents(eventRefs, controller)
    BY DEF IInv
  <2> QED  BY <1>1, <1>2, <1>4, <1>5, <1>6, <1>7, <2>1, Typed, UnrefEventKeeps
<1>9. redisposed' \in BOOLEAN /\ Slack' = Slack
  BY <1>1, SlackKept
<1> QED  BY <1>1, <1>8, <1>9, NextInv, Typed

LEMMA FinishEmissionKeeps ==
  ASSUME IInv, FinishEmission
  PROVE  IInv'
<1> DEFINE c == Top.ctl
<1>1. /\ stack # <<>> /\ Top.at = "finishing" /\ UnrefCtl(c, Callers)
      /\ UNCHANGED <<eventData, eventRefs, eventOwned, ctlOwned, handlers, redisposed>>
  BY DEF FinishEmission
<1>2. UNCHANGED <<controller, index_type, indices>>
  BY <1>1 DEF eventData
<1>3. /\ Callers \in Seq(Frames) /\ c \in Controllers /\ NULL \notin Events /\ Top.event = NULL
      /\ \A x \in Events :
           OfEvent(stack, x) = OfEvent(Callers, x) + (IF Top.event = x THEN 1 ELSE 0)
      /\ \A d \in Controllers :
           OfCtl(stack, d) = OfCtl(Callers, d) + (IF Holding(Top, d) THEN 1 ELSE 0)
      /\ \A x : FinalizedIn(stack, x) <=> FinalizedIn(Callers, x)
      /\ FramesOK(controller, Callers, Slack) /\ OneDispose(Callers, Slack)
  BY <1>1, TopTyped, NullAssumption DEF FrameOK
<1>a. redisposed' \in BOOLEAN /\ Slack' = Slack
  BY <1>1, SlackKept
<1>b. \A d : OfCreated(controller, Callers, d) = OfCreated(controller, stack, d)
  BY <1>3, CreatedSame
<1>4. ASSUME NEW d \in Controllers
      PROVE  Counted(ctlRefs[d], ctlOwned[d] + OfCreated(controller, Callers, d)
                                   + OfCtl(Callers, d) + (IF d = c THEN 1 ELSE 0), Slack)
  <2>1. /\ Counted(ctlRefs[d], ctlOwned[d] + OfCreated(controller, stack, d)
                                 + OfCtl(stack, d), Slack)
        /\ ctlRefs[d] \in Nat /\ ctlOwned[d] \in Nat /\ OfCtl(Callers, d) \in Nat
        /\ OfCreated(controller, stack, d) \in Nat
    BY <1>3, CountsTyped, CallsFinite DEF IInv, CtlsCounted
  <2>2. Holding(Top, d) <=> d = c
    BY <1>1 DEF Holding
  <2>3. OfCtl(stack, d) = OfCtl(Callers, d) + (IF d = c THEN 1 ELSE 0)
    BY <1>3, <2>2
  <2>4. ctlOwned[d] + OfCreated(controller, stack, d) + OfCtl(stack, d)
          = ctlOwned[d] + OfCreated(controller, Callers, d) + OfCtl(Callers, d)
              + (IF d = c THEN 1 ELSE 0)
    BY <1>b, <2>1, <2>3
  <2> QED  BY <2>1, <2>4
<1>5. \A x \in Events : OfEvent(Callers, x) = OfEvent(stack, x)
  <2> SUFFICES ASSUME NEW x \in Events
               PROVE  OfEvent(Callers, x) = OfEvent(stack, x)
    OBVIOUS
  <2>1. Top.event # x /\ OfEvent(Callers, x) \in Nat
    BY <1>3, CallsFinite
  <2> QED  BY <1>3, <2>1
<1> HIDE DEF c
<1>6. /\ stack' \in Seq(Frames) /\ ctlRefs' \in [Controllers -> Nat]
      /\ CtlsCounted(ctlRefs', ctlOwned, controller, stack', Slack)
      /\ FramesOK(controller, stack', Slack) /\ OneDispose(stack', Slack)
      /\ \A e \in Events : OfEvent(stack', e) = OfEvent(Callers, e)
  <2>1. CtlTyped /\ ctlOwned \in [Controllers -> Nat]
    BY Typed
  <2> QED  BY <1>1, <1>3, <1>4, <2>1, UnrefCtlKeeps
<1>7. CtlTyped' /\ EventTyped'
  BY <1>1, <1>2, <1>6, Typed DEF CtlTyped, EventTyped
<1>8. /\ EventsCounted(eventRefs', eventOwned', stack')
      /\ FreedEvents(eventRefs', controller')
  BY <1>1, <1>2, <1>5, <1>6 DEF IInv, EventsCounted
<1> QED  BY <1>1, <1>2, <1>6, <1>7, <1>8, <1>a, NextInv, Typed


-----------------------------------------------------------------------------
(* The end of releases.                                                    *)

\* The frame on top of a release, its event and the calls below.
LEMMA DisposalTop ==
  ASSUME IInv, stack # <<>>, Top.at \in Disposal
  PROVE  /\ Callers \in Seq(Frames) /\ Top \in Frames /\ Top.ctl \in Controllers
         /\ Top.event \in Events \cup {NULL} /\ NULL \notin Events
         /\ FramesOK(controller, Callers, Slack) /\ OneDispose(Callers, Slack)
         /\ Top.event # NULL =>
              /\ controller[Top.event] \in {Top.ctl, NULL}
              /\ Slack = 0 => controller[Top.event] = Top.ctl /\ ~DisposedIn(Callers, Top.event)
<1>1. FrameOK(controller, Top, Slack)
  BY TopTyped
<1> QED  BY <1>1, TopTyped, NullAssumption DEF FrameOK

\* The event loses its pointer, and the reference that its dispose ran under.
LEMMA EventDisposedKeeps ==
  ASSUME IInv, stack # <<>>, Top.at \in Disposal, EventDisposed,
         NEW t, \A x : OfEvent(t, x) = OfEvent(Callers, x)
  PROVE  /\ EventTyped' /\ controller' \in [Events -> Controllers \cup {NULL}]
         /\ EventsCounted(eventRefs', eventOwned, t) /\ FreedEvents(eventRefs', controller')
         /\ FramesOK(controller', Callers, Slack)
         /\ Top.event = NULL => controller' = controller
         /\ Top.event # NULL => controller' = Written(controller, Top.event, NULL)
<1> DEFINE e == Top.event
<1>1. /\ Callers \in Seq(Frames) /\ e \in Events \cup {NULL} /\ NULL \notin Events
      /\ FramesOK(controller, Callers, Slack)
      /\ e # NULL /\ Slack = 0 => ~DisposedIn(Callers, e)
  BY DisposalTop
<1>2. ASSUME NEW x \in Events
      PROVE  /\ eventRefs[x] = eventOwned[x] + OfEvent(stack, x)
             /\ eventRefs[x] \in Nat /\ eventOwned[x] \in Nat /\ OfEvent(Callers, x) \in Nat
             /\ OfEvent(stack, x) = OfEvent(Callers, x) + (IF e = x THEN 1 ELSE 0)
  BY <1>1, TopTyped, CountsTyped, CallsFinite DEF IInv, EventsCounted
<1>3. CASE e = NULL
  <2>1. UNCHANGED <<controller, index_type, indices, eventRefs>>
    BY <1>3 DEF EventDisposed, eventData
  <2>2. EventTyped' /\ controller' \in [Events -> Controllers \cup {NULL}]
    BY <2>1, Typed DEF EventTyped, CtlTyped
  <2>3. EventsCounted(eventRefs', eventOwned, t)
    <3> SUFFICES ASSUME NEW x \in Events
                 PROVE  eventRefs[x] = eventOwned[x] + OfEvent(Callers, x)
      BY <2>1 DEF EventsCounted
    <3>1. e # x
      BY <1>1, <1>3
    <3> QED  BY <1>2, <3>1
  <2> QED  BY <1>1, <1>3, <2>1, <2>2, <2>3 DEF IInv
<1>4. CASE e # NULL
  <2>1. e \in Events
    BY <1>1, <1>4
  <2>2. controller' = Written(controller, e, NULL) /\ DropEventRef(e)
    BY <1>4 DEF EventDisposed, ClearController, Written
  <2>3. controller \in [Events -> Controllers \cup {NULL}] /\ EventTyped
    BY Typed DEF CtlTyped
  <2> HIDE DEF e
  <2>4. eventRefs[e] > 0
    <3>1. OfEvent(stack, e) = OfEvent(Callers, e) + 1
      BY <1>2, <2>1
    <3> QED  BY <1>2, <2>1, <3>1
  <2>5. /\ EventTyped' /\ eventRefs'[e] = eventRefs[e] - 1
        /\ \A x \in Events \ {e} : eventRefs'[x] = eventRefs[x]
    BY <2>1, <2>2, <2>3, <2>4, DropKeeps
  <2>6. controller' \in [Events -> Controllers \cup {NULL}]
    BY <2>2, <2>3 DEF Written
  <2>7. EventsCounted(eventRefs', eventOwned, t)
    <3> SUFFICES ASSUME NEW x \in Events
                 PROVE  eventRefs'[x] = eventOwned[x] + OfEvent(Callers, x)
      BY DEF EventsCounted
    <3>1. CASE x = e
      <4>1. OfEvent(stack, x) = OfEvent(Callers, x) + 1 /\ eventRefs'[x] = eventRefs[x] - 1
        BY <1>2, <2>5, <3>1
      <4> QED  BY <1>2, <4>1
    <3>2. CASE x # e
      <4>1. OfEvent(stack, x) = OfEvent(Callers, x) /\ eventRefs'[x] = eventRefs[x]
        BY <1>2, <2>5, <3>2
      <4> QED  BY <1>2, <4>1
    <3> QED  BY <3>1, <3>2
  <2>8. FramesOK(controller', Callers, Slack)
    BY <1>1, <1>4, <2>1, <2>2, <2>3, ShapeWritten
  <2>9. FreedEvents(eventRefs', controller')
    <3>1. \A x \in Events : controller'[x] = IF x = e THEN NULL ELSE controller[x]
      BY <2>2, <2>3 DEF Written
    <3> QED  BY <2>5, <3>1 DEF IInv, FreedEvents
  <2> QED  BY <1>4, <2>2, <2>5, <2>6, <2>7, <2>8, <2>9 DEF e
<1> QED  BY <1>3, <1>4

\* The reference that goes is the one the frame stands for, or the one of the
\* event whose dispose the frame is in, when there is no slack.
LEMMA ReleaseCounted ==
  ASSUME IInv, stack # <<>>, Top.at = "releasing", ctlRefs' = Dropped(Top.ctl),
         NEW ctl, NEW t, \A d : OfCtl(t, d) = OfCtl(Callers, d),
         \A x \in Events : x # Top.event =>
           ctl[x] = controller[x] /\ (FinalizedIn(t, x) <=> FinalizedIn(stack, x)),
         Top.event # NULL => ctl[Top.event] = NULL \/ FinalizedIn(t, Top.event)
  PROVE  ctlRefs' \in [Controllers -> Nat] /\ CtlsCounted(ctlRefs', ctlOwned, ctl, t, Slack)
<1> DEFINE c == Top.ctl
           e == Top.event
<1>1. /\ Callers \in Seq(Frames) /\ c \in Controllers /\ e \in Events \cup {NULL}
      /\ NULL \notin Events
      /\ e # NULL => /\ controller[e] \in {c, NULL}
                     /\ Slack = 0 => controller[e] = c /\ ~DisposedIn(Callers, e)
  BY DisposalTop DEF Disposal
<1>2. /\ \A d \in Controllers :
           OfCtl(stack, d) = OfCtl(Callers, d) + (IF Holding(Top, d) THEN 1 ELSE 0)
      /\ \A x : FinalizedIn(stack, x) <=> FinalizedIn(Callers, x)
  BY TopTyped
<1>3. \A d \in Controllers : Holding(Top, d) <=> d = c /\ e = NULL
  BY DEF Holding
<1>4. controller \in [Events -> Controllers \cup {NULL}] /\ ctlRefs \in [Controllers -> Nat]
  BY Typed DEF CtlTyped
<1>5. /\ ctlRefs' \in [Controllers -> Nat]
      /\ ctlRefs'[c] = IF ctlRefs[c] = 0 THEN 0 ELSE ctlRefs[c] - 1
      /\ \A d \in Controllers \ {c} : ctlRefs'[d] = ctlRefs[d]
  BY <1>1, <1>4, Dropping
<1>6. ASSUME NEW d \in Controllers
      PROVE  Counted(ctlRefs'[d], ctlOwned[d] + OfCreated(ctl, t, d) + OfCtl(t, d), Slack)
  <2>0. PICK held : held = ctlOwned[d] + OfCreated(ctl, t, d) + OfCtl(t, d)
    OBVIOUS
  <2>1. /\ Counted(ctlRefs[d], ctlOwned[d] + OfCreated(controller, stack, d)
                                 + OfCtl(stack, d), Slack)
        /\ ctlRefs[d] \in Nat /\ ctlOwned[d] \in Nat /\ OfCtl(Callers, d) \in Nat
        /\ OfCreated(controller, stack, d) \in Nat /\ OfCreated(ctl, t, d) \in Nat
        /\ OfCtl(stack, d) = OfCtl(Callers, d) + (IF d = c /\ e = NULL THEN 1 ELSE 0)
        /\ OfCtl(t, d) = OfCtl(Callers, d)
    BY <1>1, <1>2, <1>3, CountsTyped, CallsFinite, CreatedFinite DEF IInv, CtlsCounted
  <2>2. held \in Nat
    BY <2>0, <2>1
  <2> SUFFICES Counted(ctlRefs'[d], held, Slack)
    BY <2>0
  <2>3. ASSUME d # c \/ (Slack # 0 /\ held >= ctlRefs[d]), Counted(ctlRefs[d], held, Slack)
        PROVE  Counted(ctlRefs'[d], held, Slack)
    <3>1. CASE d # c
      BY <1>5, <2>3, <3>1
    <3>2. CASE d = c
      <4>1. ctlRefs'[d] <= ctlRefs[d] /\ ctlRefs'[d] \in Nat
        BY <1>5, <2>1, <3>2
      <4> QED  BY <2>1, <2>2, <2>3, <3>2, <4>1 DEF Counted
    <3> QED  BY <3>1, <3>2
  <2>4. ASSUME d = c, Counted(ctlRefs[d], held + 1, Slack)
        PROVE  Counted(ctlRefs'[d], held, Slack)
    <3>1. ctlRefs'[d] = IF ctlRefs[d] = 0 THEN 0 ELSE ctlRefs[d] - 1
      BY <1>5, <2>4
    <3> QED  BY <2>1, <2>2, <2>4, <3>1, HeldDropped
  <2>5. CASE e = NULL
    <3>1. OfCreated(ctl, t, d) = OfCreated(controller, stack, d)
      <4>1. Created(ctl, t, d) = Created(controller, stack, d)
        <5>1. \A x \in Events : x # e
          BY <1>1, <2>5
        <5> QED  BY <5>1 DEF Created
      <4> QED  BY <4>1 DEF OfCreated
    <3>2. ctlOwned[d] + OfCreated(controller, stack, d) + OfCtl(stack, d)
            = held + (IF d = c THEN 1 ELSE 0)
      BY <2>0, <2>1, <2>5, <3>1
    <3>3. CASE d = c
      <4>1. Counted(ctlRefs[d], held + 1, Slack)
        BY <2>1, <3>2, <3>3
      <4> QED  BY <2>4, <3>3, <4>1
    <3>4. CASE d # c
      <4>1. Counted(ctlRefs[d], held, Slack)
        BY <2>1, <2>2, <3>2, <3>4
      <4> QED  BY <2>3, <3>4, <4>1
    <3> QED  BY <3>3, <3>4
  <2>6. CASE e # NULL /\ ~FinalizedIn(stack, e)
    <3>1. OfCreated(ctl, t, d) =
            OfCreated(controller, stack, d) - (IF controller[e] = d THEN 1 ELSE 0)
      BY <1>1, <1>4, <2>6, CreatedFinalized
    <3>2. ctlOwned[d] + OfCreated(controller, stack, d) + OfCtl(stack, d)
            = held + (IF controller[e] = d THEN 1 ELSE 0)
      BY <2>0, <2>1, <2>6, <3>1
    <3>3. d # NULL
      BY NullAssumption
    <3>4. CASE controller[e] = d
      <4>1. d = c
        BY <1>1, <2>6, <3>3, <3>4
      <4>2. Counted(ctlRefs[d], held + 1, Slack)
        BY <2>1, <3>2, <3>4
      <4> QED  BY <2>4, <4>1, <4>2
    <3>5. CASE controller[e] # d
      <4>1. Counted(ctlRefs[d], held, Slack)
        BY <2>1, <2>2, <3>2, <3>5
      <4>2. d = c => Slack # 0
        BY <1>1, <2>6, <3>5
      <4>3. d = c => held >= ctlRefs[d]
        BY <2>1, <2>2, <4>1 DEF Counted
      <4> QED  BY <2>3, <4>1, <4>2, <4>3
    <3> QED  BY <3>4, <3>5
  <2>7. CASE e # NULL /\ FinalizedIn(stack, e)
    <3>1. Slack # 0
      <4>1. DisposedIn(Callers, e)
        BY <1>2, <2>7 DEF FinalizedIn, DisposedIn, Disposal
      <4> QED  BY <1>1, <2>7, <4>1
    <3>2. OfCreated(ctl, t, d) = OfCreated(controller, stack, d)
      <4>1. d # NULL
        BY NullAssumption
      <4>2. Created(ctl, t, d) = Created(controller, stack, d)
        BY <2>7, <4>1 DEF Created
      <4> QED  BY <4>2 DEF OfCreated
    <3>3. ctlOwned[d] + OfCreated(controller, stack, d) + OfCtl(stack, d) = held
      BY <2>0, <2>1, <2>7, <3>2
    <3>4. Counted(ctlRefs[d], held, Slack)
      BY <2>1, <3>3
    <3>5. held >= ctlRefs[d]
      BY <2>1, <2>2, <3>4 DEF Counted
    <3> QED  BY <2>3, <3>1, <3>4, <3>5
  <2> QED  BY <2>5, <2>6, <2>7
<1> QED  BY <1>5, <1>6 DEF CtlsCounted

LEMMA ReleaseReturnsKeeps ==
  ASSUME IInv, ReleaseReturns
  PROVE  IInv'
<1> DEFINE c == Top.ctl
           e == Top.event
           f == [Top EXCEPT !.at = "finalizing"]
<1>1. /\ stack # <<>> /\ Top.at = "releasing" /\ Top.at \in Disposal
      /\ ctlRefs' = Dropped(c)
      /\ handlers' = [handlers EXCEPT ![c] = <<>>]
      /\ UNCHANGED <<eventOwned, ctlOwned, redisposed>>
  BY DEF ReleaseReturns, Disposal
<1>2. /\ Callers \in Seq(Frames) /\ Top \in Frames /\ c \in Controllers
      /\ e \in Events \cup {NULL} /\ NULL \notin Events
      /\ FramesOK(controller, Callers, Slack) /\ OneDispose(Callers, Slack)
      /\ e # NULL /\ Slack = 0 => ~DisposedIn(Callers, e)
  BY <1>1, DisposalTop
<1>3. /\ FrameOK(controller, Top, Slack)
      /\ \A x : FinalizedIn(stack, x) <=> FinalizedIn(Callers, x)
      /\ \A x \in Events :
           OfEvent(stack, x) = OfEvent(Callers, x) + (IF e = x THEN 1 ELSE 0)
  BY <1>1, TopTyped
<1>4. redisposed' \in BOOLEAN /\ Slack' = Slack
  BY <1>1, SlackKept
<1>5. handlers' \in [Controllers -> Seq(Handlers)]
  <2>1. handlers \in [Controllers -> Seq(Handlers)] /\ <<>> \in Seq(Handlers)
    BY Typed
  <2> QED  BY <1>1, <2>1
<1>6. eventOwned' \in [Events -> Nat] /\ ctlOwned' \in [Controllers -> Nat]
  BY <1>1, Typed
<1>7. CASE stack' = Silenced(c, Callers) /\ EventDisposed
  <2>1. /\ stack' \in Seq(Frames)
        /\ \A x : OfEvent(stack', x) = OfEvent(Callers, x)
        /\ \A d : OfCtl(stack', d) = OfCtl(Callers, d)
        /\ \A x : FinalizedIn(stack', x) <=> FinalizedIn(Callers, x)
        /\ \A ctl, slack : FramesOK(ctl, Callers, slack) => FramesOK(ctl, stack', slack)
        /\ OneDispose(stack', Slack)
    <3>1. SameCalls(Callers, stack') /\ stack' \in Seq(Frames)
      BY <1>2, <1>7, SkippingSame
    <3> QED  BY <1>2, <3>1, SameCallsCount
  <2>2. /\ EventTyped' /\ controller' \in [Events -> Controllers \cup {NULL}]
        /\ EventsCounted(eventRefs', eventOwned, stack') /\ FreedEvents(eventRefs', controller')
        /\ FramesOK(controller', Callers, Slack)
        /\ e = NULL => controller' = controller
        /\ e # NULL => controller' = Written(controller, e, NULL)
    BY <1>1, <1>7, <2>1, EventDisposedKeeps
  <2>3. controller \in [Events -> Controllers \cup {NULL}]
    BY Typed DEF CtlTyped
  <2>4. /\ \A x \in Events : x # e => controller'[x] = controller[x]
        /\ e # NULL => controller'[e] = NULL
    BY <1>2, <2>2, <2>3 DEF Written
  <2>5. ctlRefs' \in [Controllers -> Nat] /\ CtlsCounted(ctlRefs', ctlOwned, controller', stack', Slack)
    <3>1. \A x \in Events : x # Top.event =>
            controller'[x] = controller[x] /\ (FinalizedIn(stack', x) <=> FinalizedIn(stack, x))
      <4>1. \A x : FinalizedIn(stack, x) <=> FinalizedIn(Callers, x)
        BY <1>1, <1>3
      <4>2. \A x : FinalizedIn(stack', x) <=> FinalizedIn(Callers, x)
        BY <2>1
      <4> QED  BY <2>4, <4>1, <4>2
    <3>2. Top.event # NULL => controller'[Top.event] = NULL \/ FinalizedIn(stack', Top.event)
      BY <2>4
    <3> HIDE DEF c, e
    <3>3. ctlRefs' = Dropped(Top.ctl) /\ \A d : OfCtl(stack', d) = OfCtl(Callers, d)
      BY <1>1, <2>1 DEF c
    <3> QED  BY <1>1, <3>1, <3>2, <3>3, ReleaseCounted
  <2> QED  BY <1>1, <1>4, <1>5, <1>6, <2>1, <2>2, <2>5, NextInv DEF CtlTyped
<1>8. CASE /\ c \in FinalizeControllers /\ stack' = Silenced(c, Append(Callers, f))
           /\ UNCHANGED <<eventData, eventRefs>>
  <2>1. UNCHANGED <<controller, index_type, indices, eventRefs>>
    BY <1>8 DEF eventData
  <2>2. f \in Frames /\ f.at = "finalizing" /\ f.ctl = c /\ f.event = e
    BY <1>2 DEF Frames
  <2> DEFINE s == Append(Callers, f)
  <2> HIDE DEF f
  <2>3. s \in Seq(Frames)
    BY <1>2, <2>2
  <2>4. FramesOK(controller, s, Slack) /\ OneDispose(s, Slack)
    <3>1. FrameOK(controller, f, Slack)
      BY <1>1, <1>3, <1>8, <2>2 DEF FrameOK, Disposal
    <3> QED  BY <1>2, <2>2, <3>1, ShapePushed
  <2>5. ASSUME NEW d
        PROVE  OfCtl(s, d) = OfCtl(Callers, d)
    <3>1. ~Holding(f, d)
      BY <2>2 DEF Holding
    <3> QED  BY <1>2, <2>2, <3>1, CtlPushed, CallsFinite
  <2>6. \A x : OfEvent(s, x) = OfEvent(Callers, x) + (IF e = x THEN 1 ELSE 0)
    BY <1>2, <2>2, EventPushed
  <2>7. \A x : FinalizedIn(s, x) <=> FinalizedIn(Callers, x) \/ x = e
    BY <1>2, <2>2, FinalizedPushed
  <2> HIDE DEF s
  <2>8. stack' = Silenced(c, s)
    BY <1>8 DEF s
  <2>9. SameCalls(s, stack') /\ stack' \in Seq(Frames)
    BY <2>3, <2>8, SkippingSame
  <2>10. /\ \A x : OfEvent(stack', x) = OfEvent(s, x)
         /\ \A d : OfCtl(stack', d) = OfCtl(Callers, d)
         /\ \A x : FinalizedIn(stack', x) <=> FinalizedIn(s, x)
         /\ FramesOK(controller, stack', Slack) /\ OneDispose(stack', Slack)
    BY <2>4, <2>5, <2>9, SameCallsCount
  <2>11. /\ EventsCounted(eventRefs', eventOwned, stack')
         /\ FreedEvents(eventRefs', controller') /\ EventTyped'
    <3>1. eventRefs' = eventRefs /\ eventOwned' = eventOwned /\ controller' = controller
      BY <1>1, <2>1
    <3>2. EventsCounted(eventRefs, eventOwned, stack')
      <4> SUFFICES ASSUME NEW x \in Events
                   PROVE  eventRefs[x] = eventOwned[x] + OfEvent(stack', x)
        BY DEF EventsCounted
      <4>1. OfEvent(stack', x) = OfEvent(stack, x)
        BY <1>3, <2>6, <2>10
      <4> QED  BY <4>1 DEF IInv, EventsCounted
    <3>3. EventTyped'
      BY <2>1, Typed DEF EventTyped
    <3> QED  BY <3>1, <3>2, <3>3 DEF IInv
  <2>12. ctlRefs' \in [Controllers -> Nat] /\ CtlsCounted(ctlRefs', ctlOwned, controller, stack', Slack)
    <3>1. \A x \in Events : x # Top.event =>
            controller[x] = controller[x] /\ (FinalizedIn(stack', x) <=> FinalizedIn(stack, x))
      <4>1. \A x : FinalizedIn(stack, x) <=> FinalizedIn(Callers, x)
        BY <1>1, <1>3
      <4>2. \A x : FinalizedIn(stack', x) <=> FinalizedIn(s, x)
        BY <2>10
      <4> QED  BY <2>7, <4>1, <4>2
    <3>2. Top.event # NULL => controller[Top.event] = NULL \/ FinalizedIn(stack', Top.event)
      BY <2>7, <2>10
    <3> HIDE DEF c, e
    <3>3. ctlRefs' = Dropped(Top.ctl) /\ \A d : OfCtl(stack', d) = OfCtl(Callers, d)
      BY <1>1, <2>10 DEF c
    <3> QED  BY <1>1, <3>1, <3>2, <3>3, ReleaseCounted
  <2>13. CtlTyped'
    BY <2>1, <2>12, Typed DEF CtlTyped
  <2> QED  BY <1>1, <1>4, <1>5, <1>6, <2>1, <2>9, <2>10, <2>11, <2>12, <2>13, NextInv
<1> QED  BY <1>7, <1>8 DEF ReleaseReturns

\* The pointer that goes stood for nothing any more.
LEMMA FinalizeReturnsKeeps ==
  ASSUME IInv, FinalizeReturns
  PROVE  IInv'
<1> DEFINE e == Top.event
<1>1. /\ stack # <<>> /\ Top.at = "finalizing" /\ Top.at \in Disposal
      /\ stack' = Callers /\ EventDisposed
      /\ UNCHANGED <<eventOwned, ctlRefs, ctlOwned, handlers, redisposed>>
  BY DEF FinalizeReturns, Disposal
<1>2. /\ Callers \in Seq(Frames) /\ e \in Events \cup {NULL} /\ NULL \notin Events
      /\ OneDispose(Callers, Slack)
  BY <1>1, DisposalTop
<1>3. /\ EventTyped' /\ controller' \in [Events -> Controllers \cup {NULL}]
      /\ EventsCounted(eventRefs', eventOwned, stack') /\ FreedEvents(eventRefs', controller')
      /\ FramesOK(controller', stack', Slack)
      /\ e = NULL => controller' = controller
      /\ e # NULL => controller' = Written(controller, e, NULL)
  BY <1>1, EventDisposedKeeps
<1>4. redisposed' \in BOOLEAN /\ Slack' = Slack
  BY <1>1, SlackKept
<1>5. /\ \A x : FinalizedIn(stack, x) <=> FinalizedIn(Callers, x) \/ x = e
      /\ \A d \in Controllers :
           OfCtl(stack, d) = OfCtl(Callers, d) + (IF Holding(Top, d) THEN 1 ELSE 0)
  BY <1>1, TopTyped
<1>6. ASSUME NEW d \in Controllers
      PROVE  /\ OfCtl(Callers, d) = OfCtl(stack, d)
             /\ OfCreated(controller', Callers, d) = OfCreated(controller, stack, d)
  <2>1. ~Holding(Top, d)
    BY <1>1 DEF Holding
  <2>2. OfCtl(Callers, d) = OfCtl(stack, d)
    BY <1>2, <1>5, <2>1, CallsFinite
  <2>3. controller \in [Events -> Controllers \cup {NULL}] /\ d # NULL
    BY NullAssumption, Typed DEF CtlTyped
  <2>4. \A x \in Events : controller'[x] = IF x = e THEN NULL ELSE controller[x]
    BY <1>2, <1>3, <2>3 DEF Written
  <2>5. Created(controller', Callers, d) = Created(controller, stack, d)
    BY <1>5, <2>3, <2>4 DEF Created
  <2> QED  BY <2>2, <2>5 DEF OfCreated
<1>7. CtlsCounted(ctlRefs', ctlOwned', controller', stack', Slack')
  BY <1>1, <1>4, <1>6 DEF IInv, CtlsCounted
<1>8. CtlTyped' /\ stack' \in Seq(Frames) /\ OneDispose(stack', Slack')
  BY <1>1, <1>2, <1>3, <1>4, Typed DEF CtlTyped
<1> QED  BY <1>1, <1>3, <1>4, <1>7, <1>8, NextInv, Typed

-----------------------------------------------------------------------------
(* The invariant holds.                                                    *)

LEMMA NextKeeps ==
  ASSUME IInv, [Next]_vars
  PROVE  IInv'
<1>1. CASE UNCHANGED vars
  <2>1. UNCHANGED <<eventData, counts, handlers, stack, redisposed>>
    BY <1>1 DEF vars
  <2>2. /\ EventTyped' /\ UNCHANGED <<controller, counts, redisposed>>
        /\ stack' \in Seq(Frames) /\ SameCalls(stack, stack')
        /\ handlers' \in [Controllers -> Seq(Handlers)]
    BY <2>1, EventsSame, SameStack, Typed
  <2> QED  BY <2>2, CountsKept
<1>2. CASE Client
  <2>1. ASSUME NEW c \in Controllers,
               \/ NewController(c) \/ RefController(c) \/ UnrefController(c)
               \/ RunDisposeController(c)
               \/ \E h \in Handlers : Connect(c, h) \/ Disconnect(c, h)
        PROVE  IInv'
    BY <2>1, NewControllerKeeps, RefControllerKeeps, UnrefControllerKeeps,
       RunDisposeControllerKeeps, ConnectKeeps, DisconnectKeeps
  <2>2. ASSUME NEW c \in Controllers, NEW e \in Events,
               \/ g_controller_emit_changed(c, e)
               \/ \E t \in Types :
                    \/ \E values \in Indices : g_controller_create_eventv(e, c, t, values)
                    \/ \E args \in Args : g_controller_create_event(e, c, t, args)
        PROVE  IInv'
    BY <2>2, EmitKeeps, CreatesKeep
  <2>3. ASSUME NEW e \in Events,
               \/ RefEvent(e) \/ UnrefOwnedEvent(e) \/ RunDisposeEvent(e)
               \/ \E index \in Passed : g_controller_event_add_index_value(e, index)
               \/ \E arg \in Vals \cup {BAD} : g_controller_event_add_index(e, arg)
        PROVE  IInv'
    BY <2>3, RefEventKeeps, UnrefOwnedEventKeeps, RunDisposeEventKeeps, AddIndexKeeps
  <2> QED  BY <1>2, <2>1, <2>2, <2>3 DEF Client
<1>3. CASE Return
  BY <1>3, NextHandlerKeeps, LastHandlerKeeps, FinishEmissionKeeps, ReleaseReturnsKeeps,
     FinalizeReturnsKeeps DEF Return
<1> QED  BY <1>1, <1>2, <1>3 DEF Next

\* In every state that calls, callbacks and releases can reach, the counts of
\* events and controllers are what the client, the events and the suspended
\* calls hold.
THEOREM InvariantHolds == Spec => []IInv
<1>1. Init => IInv
  BY InitKeeps
<1>2. IInv /\ [Next]_vars => IInv'
  BY NextKeeps
<1> QED  BY <1>1, <1>2, PTL DEF Spec

\* Every variable of ControllerEvent keeps its type.
THEOREM TypesHold == Spec => []TypeOK
<1>1. IInv => TypeOK
  BY DEF IInv
<1> QED  BY <1>1, InvariantHolds, PTL

\* However emissions nest and objects are disposed of meanwhile, the count of an
\* event is exactly what the client and the suspended calls hold, and no
\* reference on a controller is lost; none is dropped twice either, until the
\* client disposes of an event from within its own dispose.
THEOREM CountsAreBalanced == Spec => []CountsBalanced
<1>1. IInv => CountsBalanced
  <2> SUFFICES ASSUME IInv PROVE CountsBalanced
    OBVIOUS
  <2>1. ASSUME NEW e \in Events
        PROVE  eventRefs[e] = eventOwned[e] + Cardinality(CallsWith(e))
    BY DEF IInv, EventsCounted, OfEvent, EventFrames, CallsWith
  <2>2. ASSUME NEW c \in Controllers
        PROVE  /\ ctlRefs[c] <= HoldersOf(c)
               /\ ~redisposed => ctlRefs[c] = HoldersOf(c)
    <3>1. Counted(ctlRefs[c], HoldersOf(c), Slack)
      <4>1. Counted(ctlRefs[c],
                    ctlOwned[c] + OfCreated(controller, stack, c) + OfCtl(stack, c), Slack)
        BY DEF IInv, CtlsCounted
      <4>2. HoldersOf(c) = ctlOwned[c] + OfCreated(controller, stack, c) + OfCtl(stack, c)
        <5>1. Created(controller, stack, c) =
                {e \in Events : controller[e] = c /\ ~\E i \in CallsWith(e) : stack[i].at = "finalizing"}
          BY DEF Created, FinalizedIn, CallsWith
        <5>2. CtlFrames(stack, c) =
                {i \in CallsOn(c, {"emitting", "finishing", "releasing"}) :
                   stack[i].at = "releasing" => stack[i].event = NULL}
          <6>1. \A i \in DOMAIN stack :
                  stack[i].at # "finalizing" <=> stack[i].at \in {"emitting", "finishing", "releasing"}
            <7>1. stack \in Seq(Frames)
              BY Typed
            <7>2. \A i \in DOMAIN stack : stack[i] \in Frames
              BY <7>1
            <7> QED  BY <7>2 DEF Frames
          <6> QED  BY <6>1 DEF CtlFrames, Holding, CallsOn
        <5> QED  BY <5>1, <5>2 DEF HoldersOf, OfCreated, OfCtl
      <4> QED  BY <4>1, <4>2
    <3> QED  BY <3>1 DEF Counted, Slack
  <2> QED  BY <2>1, <2>2 DEF CountsBalanced
<1> QED  BY <1>1, InvariantHolds, PTL

\* No argument of a handler dangles, and neither does the controller that an
\* event the client may use gives out, except in a finalize that the dispose of
\* that event began; controllers until an event is disposed of from within its
\* own dispose.
THEOREM PointersAreLive == Spec => []InUseIsLive
<1>1. IInv => InUseIsLive
  <2> SUFFICES ASSUME IInv PROVE InUseIsLive
    OBVIOUS
  <2>1. \A e \in Events : MayUseEvent(e) => eventRefs[e] > 0
    BY UsedEventLives
  <2>2. ASSUME NEW c \in Controllers, ~redisposed
        PROVE  /\ ctlRefs[c] = ctlOwned[c] + OfCreated(controller, stack, c) + OfCtl(stack, c)
               /\ ctlRefs[c] \in Nat /\ ctlOwned[c] \in Nat /\ OfCtl(stack, c) \in Nat
               /\ OfCreated(controller, stack, c) \in Nat
    <3>1. Counted(ctlRefs[c],
                  ctlOwned[c] + OfCreated(controller, stack, c) + OfCtl(stack, c), Slack)
      BY DEF IInv, CtlsCounted
    <3>2. Slack = 0
      BY <2>2 DEF Slack
    <3>3. ctlRefs[c] = ctlOwned[c] + OfCreated(controller, stack, c) + OfCtl(stack, c)
      BY <3>1, <3>2 DEF Counted
    <3>4. /\ ctlRefs[c] \in Nat /\ ctlOwned[c] \in Nat /\ OfCtl(stack, c) \in Nat
          /\ OfCreated(controller, stack, c) \in Nat
      BY CountsTyped DEF IInv
    <3> QED  BY <3>3, <3>4
  <2>3. ASSUME NEW c \in Controllers, ~redisposed, Held(c)
        PROVE  ctlRefs[c] > 0
    <3>1. CASE ctlOwned[c] > 0
      BY <2>2, <2>3, <3>1
    <3>2. CASE \E i \in DOMAIN stack : stack[i].at = "emitting" /\ stack[i].ctl = c
      <4>1. CtlFrames(stack, c) # {}
        BY <3>2 DEF CtlFrames, Holding
      <4>2. OfCtl(stack, c) # 0
        BY <4>1, CallsFinite, FS_EmptySet, Typed DEF OfCtl
      <4> QED  BY <2>2, <2>3, <4>2
    <3> QED  BY <2>3, <3>1, <3>2 DEF Held
  <2>4. ASSUME NEW e \in Events, ~redisposed, controller[e] # NULL, ~(ctlRefs[controller[e]] > 0)
        PROVE  Disposing(e) /\ Finalizing(controller[e]) /\ controller[e] \in FinalizeControllers
    <3> DEFINE c == controller[e]
    <3>1. c \in Controllers
      BY <2>4, Typed DEF CtlTyped
    <3> HIDE DEF c
    <3>2. OfCreated(controller, stack, c) = 0
      BY <2>2, <2>4, <3>1 DEF c
    <3>3. Created(controller, stack, c) = {}
      BY <3>2, CreatedFinite, FS_EmptySet DEF OfCreated
    <3>4. PICK i \in DOMAIN stack : stack[i].at = "finalizing" /\ stack[i].event = e
      BY <3>3 DEF Created, FinalizedIn, c
    <3>5. FrameOK(controller, stack[i], Slack) /\ Slack = 0 /\ e # NULL
      BY <2>4, NullAssumption DEF IInv, FramesOK, Slack
    <3>6. stack[i].ctl = c /\ c \in FinalizeControllers
      BY <3>4, <3>5 DEF FrameOK, Disposal, c
    <3> QED  BY <3>4, <3>6 DEF Disposing, Finalizing, c
  <2> QED  BY <2>1, <2>3, <2>4 DEF InUseIsLive
<1> QED  BY <1>1, InvariantHolds, PTL

-----------------------------------------------------------------------------
(* What a handler saw of an event stays as it was.                         *)

\* What EventsOnlyGrow says of one event.
Grows(e) ==
  /\ index_type'[e] = index_type[e]
  /\ controller'[e] \in {controller[e], NULL}
  /\ Len(indices'[e]) >= Len(indices[e])
  /\ \A i \in DOMAIN indices'[e] :
       IF i \in DOMAIN indices[e]
       THEN indices'[e][i] = indices[e][i]
       ELSE indices'[e][i].type = index_type[e]

\* An event whose indices and type stay, and whose controller stays or goes.
LEMMA KeptGrows ==
  ASSUME IInv, NEW e \in Events, index_type'[e] = index_type[e], indices'[e] = indices[e],
         controller'[e] \in {controller[e], NULL}
  PROVE  Grows(e)
<1>1. indices[e] \in Seq(Index)
  BY DEF IInv, TypeOK
<1>2. Len(indices[e]) \in Nat
  BY <1>1
<1> QED  BY <1>2 DEF Grows

\* An event that loses a reference and lives on keeps its type and indices.
LEMMA DropGrows ==
  ASSUME IInv, NEW e \in Events, DropEventRef(e), eventRefs[e] > 0,
         NEW x \in Events, eventRefs'[x] > 0
  PROVE  index_type'[x] = index_type[x] /\ indices'[x] = indices[x]
<1>1. CASE eventRefs[e] = 1
  <2>1. eventRefs'[e] = 0
    BY <1>1 DEF DropEventRef, IInv, TypeOK
  <2>2. x # e
    BY <2>1
  <2> QED  BY <1>1, <2>2 DEF DropEventRef, finalize, IInv, TypeOK
<1>2. CASE eventRefs[e] # 1
  BY <1>2 DEF DropEventRef
<1> QED  BY <1>1, <1>2

LEMMA ClearGrows ==
  ASSUME IInv, NEW e \in Events, ClearController(e), NEW x \in Events
  PROVE  controller'[x] \in {controller[x], NULL}
BY DEF ClearController, IInv, TypeOK

LEMMA UnrefGrows ==
  ASSUME IInv, NEW e \in Events, NEW callers, UnrefEvent(e, callers),
         NEW x \in Events, eventRefs'[x] > 0
  PROVE  Grows(x)
<1>1. CASE eventRefs[e] > 1 /\ DropEventRef(e) /\ UNCHANGED controller
  <2>0. eventRefs[e] > 0
    BY <1>1 DEF IInv, TypeOK
  <2>1. index_type'[x] = index_type[x] /\ indices'[x] = indices[x]
    BY <1>1, <2>0, DropGrows
  <2> QED  BY <1>1, <2>1, KeptGrows
<1>2. CASE eventRefs[e] = 1 /\ dispose(e) /\ DropEventRef(e)
  <2>1. index_type'[x] = index_type[x] /\ indices'[x] = indices[x]
    BY <1>2, DropGrows
  <2>2. controller'[x] \in {controller[x], NULL}
    BY <1>2, ClearGrows DEF dispose
  <2> QED  BY <2>1, <2>2, KeptGrows
<1>3. CASE DisposeLast(e, callers) /\ UNCHANGED <<eventRefs, index_type, indices>>
  BY <1>3, KeptGrows DEF DisposeLast
<1> QED  BY <1>1, <1>2, <1>3 DEF UnrefEvent

\* A new event is at an address no live event has.
LEMMA CreateGrows ==
  ASSUME IInv, NEW e \in Events, NEW c, NEW type, NEW values, create_event(e, c, type, values),
         NEW x \in Events, eventRefs[x] > 0
  PROVE  Grows(x)
<1>1. x # e
  BY DEF create_event
<1>2. /\ index_type'[x] = index_type[x] /\ indices'[x] = indices[x]
      /\ controller'[x] = controller[x]
  BY <1>1 DEF create_event, Construct, IInv, TypeOK
<1> QED  BY <1>2, KeptGrows

\* An index is appended behind the others.
LEMMA AppendGrows ==
  ASSUME IInv, NEW e \in Events, NEW index, index.type = index_type[e],
         indices' = [indices EXCEPT ![e] = Append(@, index)],
         UNCHANGED <<controller, index_type>>, NEW x \in Events
  PROVE  Grows(x)
<1>1. CASE x # e
  BY <1>1, KeptGrows DEF IInv, TypeOK
<1>2. CASE x = e
  <2> DEFINE s == indices[e]
             n == Len(s)
  <2>1. s \in Seq(Index) /\ indices'[x] = Append(s, index)
    BY <1>2 DEF IInv, TypeOK
  <2>2. /\ n \in Nat /\ DOMAIN s = 1..n /\ DOMAIN Append(s, index) = 1..(n + 1)
        /\ Len(Append(s, index)) = n + 1
        /\ \A i \in 1..n : Append(s, index)[i] = s[i]
        /\ Append(s, index)[n + 1] = index
    BY <2>1
  <2>3. \A i \in 1..(n + 1) : i \in 1..n \/ i = n + 1
    BY <2>2
  <2>4. n + 1 >= n /\ n + 1 \notin 1..n
    BY <2>2
  <2> HIDE DEF s, n
  <2>5. Len(indices'[x]) >= Len(indices[x])
    BY <1>2, <2>1, <2>2, <2>4 DEF s, n
  <2>6. ASSUME NEW i \in DOMAIN indices'[x]
        PROVE  IF i \in DOMAIN indices[x] THEN indices'[x][i] = indices[x][i]
               ELSE indices'[x][i].type = index_type[x]
    <3>1. i \in 1..(n + 1) /\ indices[x] = s
      BY <1>2, <2>1, <2>2 DEF s
    <3>2. CASE i \in 1..n
      BY <2>1, <2>2, <3>1, <3>2
    <3>3. CASE i = n + 1
      BY <1>2, <2>1, <2>2, <2>4, <3>1, <3>3
    <3> QED  BY <2>3, <3>1, <3>2, <3>3
  <2> QED  BY <2>5, <2>6 DEF Grows
<1> QED  BY <1>1, <1>2

LEMMA StepGrows ==
  ASSUME IInv, Next, NEW x \in Events, eventRefs[x] > 0, eventRefs'[x] > 0
  PROVE  Grows(x)
<1>0. ASSUME UNCHANGED eventData
      PROVE  Grows(x)
  BY <1>0, KeptGrows DEF eventData
<1>1. CASE Client
  <2>1. CASE \E c \in Controllers :
               \/ NewController(c) \/ RefController(c) \/ UnrefController(c)
               \/ RunDisposeController(c)
               \/ \E h \in Handlers : Connect(c, h) \/ Disconnect(c, h)
               \/ \E e \in Events : g_controller_emit_changed(c, e)
    <3>1. UNCHANGED eventData
      BY <2>1 DEF NewController, RefController, UnrefController, RunDisposeController,
                  Connect, Disconnect, g_controller_emit_changed
    <3> QED  BY <1>0, <3>1
  <2>2. ASSUME NEW c \in Controllers, NEW e \in Events, NEW t \in Types,
               \/ \E values \in Indices : g_controller_create_eventv(e, c, t, values)
               \/ \E args \in Args : g_controller_create_event(e, c, t, args)
        PROVE  Grows(x)
    BY <2>2, CreateGrows DEF g_controller_create_eventv, g_controller_create_event
  <2>3. ASSUME NEW e \in Events, RefEvent(e)
        PROVE  Grows(x)
    BY <1>0, <2>3 DEF RefEvent
  <2>4. ASSUME NEW e \in Events, UnrefOwnedEvent(e)
        PROVE  Grows(x)
    BY <2>4, UnrefGrows DEF UnrefOwnedEvent
  <2>5. ASSUME NEW e \in Events, RunDisposeEvent(e)
        PROVE  Grows(x)
    <3>1. UNCHANGED <<index_type, indices>> /\ (dispose(e) \/ UNCHANGED controller)
      BY <2>5 DEF RunDisposeEvent, DisposeLast
    <3>2. controller'[x] \in {controller[x], NULL}
      BY <3>1, ClearGrows DEF dispose
    <3> QED  BY <3>1, <3>2, KeptGrows
  <2>6. ASSUME NEW e \in Events,
               \/ \E index \in Passed : g_controller_event_add_index_value(e, index)
               \/ \E arg \in Vals \cup {BAD} : g_controller_event_add_index(e, arg)
        PROVE  Grows(x)
    <3>1. UNCHANGED <<controller, index_type>>
      BY <2>6 DEF g_controller_event_add_index_value, g_controller_event_add_index, AddIndex
    <3>2. \E index : /\ index.type = index_type[e]
                     /\ indices' = [indices EXCEPT ![e] = Append(@, index)]
      BY <2>6 DEF g_controller_event_add_index_value, g_controller_event_add_index, AppendIndex
    <3> QED  BY <3>1, <3>2, AppendGrows
  <2> QED  BY <1>1, <2>1, <2>2, <2>3, <2>4, <2>5, <2>6 DEF Client
<1>2. CASE NextHandler \/ FinishEmission
  BY <1>0, <1>2 DEF NextHandler, FinishEmission
<1>3. CASE LastHandler
  <2>1. Top.event \in Events
    BY <1>3, TopTyped DEF LastHandler, FrameOK
  <2> QED  BY <1>3, <2>1, UnrefGrows DEF LastHandler
<1>4. ASSUME stack # <<>>, Top.at \in Disposal, EventDisposed
      PROVE  Grows(x)
  <2>1. CASE Top.event = NULL
    BY <1>0, <1>4, <2>1 DEF EventDisposed
  <2>2. CASE Top.event # NULL
    <3>1. Top.event \in Events /\ ClearController(Top.event) /\ DropEventRef(Top.event)
      BY <1>4, <2>2, TopTyped DEF EventDisposed
    <3>2. eventRefs[Top.event] > 0
      <4>1. OfEvent(stack, Top.event) = OfEvent(Callers, Top.event) + 1
        BY <1>4, <3>1, TopTyped
      <4>2. /\ Callers \in Seq(Frames)
            /\ eventRefs[Top.event] = eventOwned[Top.event] + OfEvent(stack, Top.event)
            /\ eventOwned[Top.event] \in Nat
        BY <1>4, <3>1, TopTyped, CountsTyped DEF IInv, EventsCounted
      <4>3. OfEvent(Callers, Top.event) \in Nat
        BY <4>2, CallsFinite
      <4> QED  BY <4>1, <4>2, <4>3
    <3>3. index_type'[x] = index_type[x] /\ indices'[x] = indices[x]
      BY <3>1, <3>2, DropGrows
    <3>4. controller'[x] \in {controller[x], NULL}
      BY <3>1, ClearGrows
    <3> QED  BY <3>3, <3>4, KeptGrows
  <2> QED  BY <2>1, <2>2
<1>5. CASE ReleaseReturns \/ FinalizeReturns
  <2>1. stack # <<>> /\ Top.at \in Disposal /\ (EventDisposed \/ UNCHANGED eventData)
    BY <1>5 DEF ReleaseReturns, FinalizeReturns, Disposal
  <2> QED  BY <1>0, <1>4, <2>1
<1> QED  BY <1>1, <1>2, <1>3, <1>5 DEF Next, Return

\* While an event lives nothing that was read from it changes, except that its
\* controller may go; a handler that runs late finds what the first one found.
THEOREM EventsGrow == Spec => EventsOnlyGrow
<1>1. IInv /\ [Next]_vars =>
        [\A e \in Events : eventRefs[e] > 0 /\ eventRefs'[e] > 0 =>
           /\ index_type'[e] = index_type[e]
           /\ controller'[e] \in {controller[e], NULL}
           /\ Len(indices'[e]) >= Len(indices[e])
           /\ \A i \in DOMAIN indices'[e] :
                IF i \in DOMAIN indices[e]
                THEN indices'[e][i] = indices[e][i]
                ELSE indices'[e][i].type = index_type[e]]_vars
  BY StepGrows DEF Grows
<1> QED  BY <1>1, InvariantHolds, PTL DEF Spec, EventsOnlyGrow

-----------------------------------------------------------------------------
(* The accessors.                                                          *)

\* What was found at a position is found again while the event lives: an
\* accessor that finds an index reads inside the array, and what is inside it
\* stays.
THEOREM ReadingsDoStay == Spec => ReadingsStay
<1>1. ASSUME IInv, Next, NEW e \in Events, eventRefs[e] > 0, eventRefs'[e] > 0,
             NEW i \in -1 .. MaxIndices + 1,
             Readings(e, i).byValue.ok \/ Readings(e, i).byArgs.ok
      PROVE  Readings(e, i)' = Readings(e, i)
  <2>1. Grows(e)
    BY <1>1, StepGrows
  <2>2. indices[e] \in Seq(Index) /\ indices'[e] \in Seq(Index) /\ i \in Int
    <3>1. IInv'
      BY <1>1, NextKeeps
    <3>2. MaxIndices + 1 \in Int
      BY BoundsAssumption
    <3> QED  BY <1>1, <3>1, <3>2 DEF IInv, TypeOK
  <2> DEFINE n == Len(indices[e])
             m == Len(indices'[e])
  <2>3. /\ n \in Nat /\ m \in Nat /\ m >= n
        /\ DOMAIN indices[e] = 1..n /\ DOMAIN indices'[e] = 1..m
    BY <2>1, <2>2 DEF Grows
  <2>4. 0 <= i /\ i < n
    <3>1. CASE ~(0 <= i /\ i < n)
      <4>1. i \notin 0 .. Len(indices[e]) - 1 /\ ~Within(e, i)
        BY <2>2, <2>3, <3>1 DEF Within, g_controller_event_get_n_indices
      <4>2. ~g_controller_event_get_index_value(e, i).ok /\ ~g_controller_event_get_index(e, i).ok
        BY <4>1 DEF g_controller_event_get_index_value, g_controller_event_get_index, Failure
      <4> QED  BY <1>1, <4>2 DEF Readings
    <3> QED  BY <3>1
  <2>5. i + 1 \in 1..n /\ i + 1 \in 1..m /\ i < m
    BY <2>2, <2>3, <2>4
  <2>6. /\ index_type'[e] = index_type[e]
        /\ indices'[e][i + 1] = indices[e][i + 1]
    BY <2>1, <2>3, <2>5 DEF Grows
  <2>7. At(e, i)' = At(e, i)
    BY <2>4, <2>5, <2>6 DEF At
  <2>8. /\ Within(e, i) /\ Within(e, i)'
        /\ i \in 0 .. Len(indices[e]) - 1 /\ i \in 0 .. Len(indices'[e]) - 1
    BY <2>2, <2>3, <2>4, <2>5 DEF Within, g_controller_event_get_n_indices
  <2> HIDE DEF n, m
  <2>9. /\ g_controller_event_get_index_value(e, i)' = g_controller_event_get_index_value(e, i)
        /\ g_controller_event_get_index(e, i)' = g_controller_event_get_index(e, i)
        /\ \A t : TypedGetter(e, t, i)' = TypedGetter(e, t, i)
    BY <2>6, <2>7, <2>8
       DEF g_controller_event_get_index_value, g_controller_event_get_index, TypedGetter
  <2> QED  BY <2>9 DEF Readings
<1>2. IInv /\ [Next]_vars =>
        [\A e \in Events : eventRefs[e] > 0 /\ eventRefs'[e] > 0 =>
           \A i \in -1 .. MaxIndices + 1 :
             Readings(e, i).byValue.ok \/ Readings(e, i).byArgs.ok
               => Readings(e, i)' = Readings(e, i)]_vars
  BY <1>1
<1> QED  BY <1>2, InvariantHolds, PTL DEF Spec, ReadingsStay

-----------------------------------------------------------------------------
(* The end of calls.                                                       *)

LEMMA CallsAtFinite ==
  ASSUME NEW s \in Seq(Frames), NEW at
  PROVE  IsFiniteSet({i \in DOMAIN s : s[i].at = at}) /\ CallsAt(s, at) \in Nat
<1>1. IsFiniteSet(1..Len(s)) /\ DOMAIN s = 1..Len(s)
  <2>1. Len(s) \in Nat
    OBVIOUS
  <2> QED  BY <2>1, FS_Interval
<1>2. {i \in DOMAIN s : s[i].at = at} \subseteq 1..Len(s)
  BY <1>1
<1> QED  BY <1>1, <1>2, FS_Subset, FS_CardinalityType DEF CallsAt

\* A frame that is pushed counts where it is suspended.
LEMMA CallsAtPushed ==
  ASSUME NEW s \in Seq(Frames), NEW f \in Frames, NEW at
  PROVE  CallsAt(Append(s, f), at) = CallsAt(s, at) + (IF f.at = at THEN 1 ELSE 0)
<1> DEFINE n == Len(s) + 1
           t == Append(s, f)
           I(u) == {i \in DOMAIN u : u[i].at = at}
<1>1. /\ DOMAIN s = 1..Len(s) /\ DOMAIN t = 1..n /\ Len(s) \in Nat
      /\ \A i \in 1..Len(s) : t[i] = s[i]
      /\ t[n] = f
  BY Pushed
<1> HIDE DEF t
<1>2. n \notin I(s)
  BY <1>1
<1>3. IsFiniteSet(I(s)) /\ Cardinality(I(s)) \in Nat
  BY CallsAtFinite DEF CallsAt
<1>4. CASE f.at = at
  <2>1. I(t) = I(s) \cup {n}
    BY <1>1, <1>4
  <2>2. Cardinality(I(t)) = Cardinality(I(s)) + 1
    BY <1>2, <1>3, <2>1, FS_AddElement
  <2> QED  BY <1>4, <2>2 DEF CallsAt, t
<1>5. CASE f.at # at
  <2>1. I(t) = I(s)
    BY <1>1, <1>5
  <2> HIDE DEF I
  <2>2. Cardinality(I(t)) = Cardinality(I(s)) + 0
    BY <1>3, <2>1
  <2> QED  BY <1>5, <2>2 DEF CallsAt, t, I
<1> QED  BY <1>4, <1>5

\* Handlers that are no longer to be called change no call.
LEMMA CallsAtSame ==
  ASSUME NEW s, NEW t, SameCalls(s, t), NEW at
  PROVE  CallsAt(t, at) = CallsAt(s, at)
<1>1. {i \in DOMAIN t : t[i].at = at} = {i \in DOMAIN s : s[i].at = at}
  BY DEF SameCalls
<1> QED  BY <1>1 DEF CallsAt

\* What is compared first decides.
LEMMA LessWorkSplit ==
  ASSUME NEW s, NEW t,
         \/ CallsAt(t, "emitting") < CallsAt(s, "emitting")
         \/ /\ CallsAt(t, "emitting") = CallsAt(s, "emitting")
            /\ \/ CallsAt(t, "finishing") < CallsAt(s, "finishing")
               \/ /\ CallsAt(t, "finishing") = CallsAt(s, "finishing")
                  /\ \/ CallsAt(t, "releasing") < CallsAt(s, "releasing")
                     \/ /\ CallsAt(t, "releasing") = CallsAt(s, "releasing")
                        /\ \/ CallsAt(t, "finalizing") < CallsAt(s, "finalizing")
                           \/ /\ CallsAt(t, "finalizing") = CallsAt(s, "finalizing")
                              /\ HandlersLeft(t) < HandlersLeft(s)
  PROVE  LessWork(Work(t), Work(s))
<1> DEFINE u == Work(t)
           w == Work(s)
<1>1. /\ DOMAIN w = 1..5
      /\ u[1] = CallsAt(t, "emitting") /\ w[1] = CallsAt(s, "emitting")
      /\ u[2] = CallsAt(t, "finishing") /\ w[2] = CallsAt(s, "finishing")
      /\ u[3] = CallsAt(t, "releasing") /\ w[3] = CallsAt(s, "releasing")
      /\ u[4] = CallsAt(t, "finalizing") /\ w[4] = CallsAt(s, "finalizing")
      /\ u[5] = HandlersLeft(t) /\ w[5] = HandlersLeft(s)
  BY DEF Work
<1> HIDE DEF u, w
<1>2. \/ u[1] < w[1]
      \/ u[1] = w[1] /\ u[2] < w[2]
      \/ u[1] = w[1] /\ u[2] = w[2] /\ u[3] < w[3]
      \/ u[1] = w[1] /\ u[2] = w[2] /\ u[3] = w[3] /\ u[4] < w[4]
      \/ u[1] = w[1] /\ u[2] = w[2] /\ u[3] = w[3] /\ u[4] = w[4] /\ u[5] < w[5]
  BY <1>1
<1>3. \E k \in 1..5 : u[k] < w[k] /\ \A j \in 1 .. k - 1 : u[j] = w[j]
  <2>1. CASE u[1] < w[1]
    BY <2>1
  <2>2. CASE u[1] = w[1] /\ u[2] < w[2]
    <3>1. \A j \in 1 .. 2 - 1 : j = 1
      OBVIOUS
    <3> QED  BY <2>2, <3>1
  <2>3. CASE u[1] = w[1] /\ u[2] = w[2] /\ u[3] < w[3]
    <3>1. \A j \in 1 .. 3 - 1 : j = 1 \/ j = 2
      OBVIOUS
    <3> QED  BY <2>3, <3>1
  <2>4. CASE u[1] = w[1] /\ u[2] = w[2] /\ u[3] = w[3] /\ u[4] < w[4]
    <3>1. \A j \in 1 .. 4 - 1 : j = 1 \/ j = 2 \/ j = 3
      OBVIOUS
    <3> QED  BY <2>4, <3>1
  <2>5. CASE u[1] = w[1] /\ u[2] = w[2] /\ u[3] = w[3] /\ u[4] = w[4] /\ u[5] < w[5]
    <3>1. \A j \in 1 .. 5 - 1 : j = 1 \/ j = 2 \/ j = 3 \/ j = 4
      OBVIOUS
    <3> QED  BY <2>5, <3>1
  <2> QED  BY <1>2, <2>1, <2>2, <2>3, <2>4, <2>5
<1> QED  BY <1>1, <1>3 DEF LessWork, u, w

\* Giving back a reference suspends at most in the dispose of a controller.
LEMMA UnrefsPush ==
  ASSUME IInv, NEW callers \in Seq(Frames),
         \/ \E c \in Controllers : UnrefCtl(c, callers)
         \/ \E e \in Events : UnrefEvent(e, callers)
  PROVE  /\ CallsAt(stack', "emitting") = CallsAt(callers, "emitting")
         /\ CallsAt(stack', "finishing") = CallsAt(callers, "finishing")
<1>1. \/ stack' = callers
      \/ \E f \in Frames : f.at = "releasing" /\ stack' = Append(callers, f)
  <2>1. ASSUME NEW c \in Controllers, NEW e \in Events \cup {NULL}
        PROVE  LET f == Frame("releasing", c, e, <<>>)
               IN  f \in Frames /\ f.at = "releasing"
    BY DEF Frame, Frames
  <2>2. CASE \E c \in Controllers : UnrefCtl(c, callers)
    BY <2>1, <2>2 DEF UnrefCtl
  <2>3. ASSUME NEW e \in Events, UnrefEvent(e, callers)
        PROVE  \/ stack' = callers
               \/ \E f \in Frames : f.at = "releasing" /\ stack' = Append(callers, f)
    <3>1. CASE stack' = callers
      BY <3>1
    <3>2. CASE DisposeLast(e, callers)
      <4>1. controller[e] \in Controllers
        BY <3>2, Typed DEF DisposeLast, HoldsLast, IInv, TypeOK
      <4> QED  BY <2>1, <3>2, <4>1 DEF DisposeLast
    <3> QED  BY <2>3, <3>1, <3>2 DEF UnrefEvent
  <2> QED  BY <2>2, <2>3
<1>2. CASE stack' = callers
  BY <1>2
<1>3. ASSUME NEW f \in Frames, f.at = "releasing", stack' = Append(callers, f)
      PROVE  /\ CallsAt(stack', "emitting") = CallsAt(callers, "emitting")
             /\ CallsAt(stack', "finishing") = CallsAt(callers, "finishing")
  <2>1. /\ CallsAt(callers, "emitting") \in Nat /\ CallsAt(callers, "finishing") \in Nat
        /\ \A at : CallsAt(stack', at) = CallsAt(callers, at) + (IF f.at = at THEN 1 ELSE 0)
    BY <1>3, CallsAtFinite, CallsAtPushed
  <2> QED  BY <1>3, <2>1
<1> QED  BY <1>1, <1>2, <1>3

\* The calls but for the innermost one.
LEMMA CallsAtPopped ==
  ASSUME IInv, stack # <<>>, NEW at
  PROVE  /\ CallsAt(Callers, at) \in Nat
         /\ CallsAt(stack, at) = CallsAt(Callers, at) + (IF Top.at = at THEN 1 ELSE 0)
<1>1. stack \in Seq(Frames)
  BY DEF IInv, TypeOK
<1>2. Callers \in Seq(Frames) /\ Top \in Frames /\ stack = Append(Callers, Top)
  BY <1>1, Popped DEF Callers, Top
<1> QED  BY <1>2, CallsAtFinite, CallsAtPushed

\* Callbacks that return bring every call to its end: each return leaves less
\* to do.
THEOREM CallsComeToAnEnd == Spec => CallsEnd
<1>1. ASSUME IInv, Return
      PROVE  LessWork(Work(stack'), Work(stack))
  <2>1. stack # <<>>
    BY <1>1 DEF Return, NextHandler, LastHandler, FinishEmission, ReleaseReturns, FinalizeReturns
  <2>2. /\ Callers \in Seq(Frames) /\ Top \in Frames /\ Top.ctl \in Controllers
        /\ Top.event \in Events \cup {NULL} /\ FrameOK(controller, Top, Slack)
    BY <1>1, <2>1, TopTyped
  <2>3. \A at : /\ CallsAt(Callers, at) \in Nat
                /\ CallsAt(stack, at) = CallsAt(Callers, at) + (IF Top.at = at THEN 1 ELSE 0)
    BY <1>1, <2>1, CallsAtPopped
  <2>4. CASE NextHandler
    <3> DEFINE f == [Top EXCEPT !.todo = Tail(@)]
    <3>1. Top.at = "emitting" /\ Top.todo # <<>> /\ stack' = Append(Callers, f)
      BY <2>4 DEF NextHandler
    <3>2. Top.todo \in Seq(Handlers)
      BY <2>2 DEF Frames
    <3>3. Len(Top.todo) \in Nat \ {0} /\ Tail(Top.todo) \in Seq(Handlers)
          /\ Len(Tail(Top.todo)) = Len(Top.todo) - 1
      BY <3>1, <3>2
    <3>4. f \in Frames /\ f.at = Top.at /\ f.todo = Tail(Top.todo)
      BY <2>2, <3>3 DEF Frames
    <3> HIDE DEF f
    <3>5. \A at : CallsAt(stack', at) = CallsAt(stack, at)
      BY <2>2, <2>3, <3>1, <3>4, CallsAtPushed
    <3>6. HandlersLeft(stack') = Len(Top.todo) - 1
      <4>1. stack' # <<>> /\ stack'[Len(stack')] = f
        BY <2>2, <3>1, <3>4
      <4> QED  BY <3>3, <3>4, <4>1 DEF HandlersLeft
    <3>7. HandlersLeft(stack) = Len(Top.todo)
      BY <2>1 DEF HandlersLeft, Top
    <3> QED  BY <3>3, <3>5, <3>6, <3>7, LessWorkSplit
  <2>5. CASE LastHandler
    <3> DEFINE f == Frame("finishing", Top.ctl, NULL, <<>>)
               callers == Append(Callers, f)
    <3>1. Top.at = "emitting" /\ UnrefEvent(Top.event, callers)
      BY <2>5 DEF LastHandler
    <3>2. Top.event \in Events
      BY <2>2, <3>1 DEF FrameOK
    <3>3. f \in Frames /\ f.at = "finishing"
      BY <2>2 DEF Frame, Frames
    <3> HIDE DEF f
    <3>4. callers \in Seq(Frames)
      BY <2>2, <3>3
    <3>5. CallsAt(callers, "emitting") = CallsAt(Callers, "emitting")
      <4>1. CallsAt(callers, "emitting") =
              CallsAt(Callers, "emitting") + (IF f.at = "emitting" THEN 1 ELSE 0)
        BY <2>2, <3>3, CallsAtPushed
      <4> QED  BY <2>3, <3>3, <4>1
    <3> HIDE DEF callers
    <3>6. CallsAt(stack', "emitting") = CallsAt(callers, "emitting")
      BY <1>1, <3>1, <3>2, <3>4, UnrefsPush
    <3>7. CallsAt(stack, "emitting") = CallsAt(Callers, "emitting") + 1
      BY <2>3, <3>1
    <3>8. CallsAt(stack', "emitting") < CallsAt(stack, "emitting")
      BY <2>3, <3>5, <3>6, <3>7
    <3> QED  BY <3>8, LessWorkSplit
  <2>6. CASE FinishEmission
    <3>1. Top.at = "finishing" /\ UnrefCtl(Top.ctl, Callers)
      BY <2>6 DEF FinishEmission
    <3>2. /\ CallsAt(stack', "emitting") = CallsAt(Callers, "emitting")
          /\ CallsAt(stack', "finishing") = CallsAt(Callers, "finishing")
      BY <1>1, <2>2, <3>1, UnrefsPush
    <3>3. /\ CallsAt(stack, "emitting") = CallsAt(Callers, "emitting")
          /\ CallsAt(stack, "finishing") = CallsAt(Callers, "finishing") + 1
      BY <2>3, <3>1
    <3>4. CallsAt(stack', "finishing") < CallsAt(stack, "finishing")
      BY <2>3, <3>2, <3>3
    <3> QED  BY <3>2, <3>3, <3>4, LessWorkSplit
  <2>7. CASE ReleaseReturns
    <3> DEFINE f == [Top EXCEPT !.at = "finalizing"]
    <3>1. /\ Top.at = "releasing"
          /\ stack' \in {Silenced(Top.ctl, Callers), Silenced(Top.ctl, Append(Callers, f))}
      BY <2>7 DEF ReleaseReturns
    <3>2. f \in Frames /\ f.at = "finalizing"
      BY <2>2 DEF Frames
    <3> HIDE DEF f
    <3>3. ASSUME NEW at, at # "finalizing"
          PROVE  CallsAt(stack', at) = CallsAt(Callers, at)
      <4>1. CASE stack' = Silenced(Top.ctl, Callers)
        BY <2>2, <4>1, SkippingSame, CallsAtSame
      <4>2. CASE stack' = Silenced(Top.ctl, Append(Callers, f))
        <5>1. CallsAt(Append(Callers, f), at) = CallsAt(Callers, at)
          BY <2>2, <2>3, <3>2, <3>3, CallsAtPushed
        <5>2. Append(Callers, f) \in Seq(Frames)
          BY <2>2, <3>2
        <5>3. SameCalls(Append(Callers, f), stack')
          BY <2>2, <4>2, <5>2, SkippingSame
        <5>4. CallsAt(stack', at) = CallsAt(Append(Callers, f), at)
          BY <5>3, CallsAtSame
        <5> QED  BY <5>1, <5>4
      <4> QED  BY <3>1, <4>1, <4>2
    <3>4. /\ CallsAt(stack, "emitting") = CallsAt(Callers, "emitting")
          /\ CallsAt(stack, "finishing") = CallsAt(Callers, "finishing")
          /\ CallsAt(stack, "releasing") = CallsAt(Callers, "releasing") + 1
      BY <2>3, <3>1
    <3>5. /\ CallsAt(stack', "emitting") = CallsAt(stack, "emitting")
          /\ CallsAt(stack', "finishing") = CallsAt(stack, "finishing")
          /\ CallsAt(stack', "releasing") < CallsAt(stack, "releasing")
      BY <2>3, <3>3, <3>4
    <3> QED  BY <3>5, LessWorkSplit
  <2>8. CASE FinalizeReturns
    <3>1. Top.at = "finalizing" /\ stack' = Callers
      BY <2>8 DEF FinalizeReturns
    <3>2. /\ CallsAt(stack', "emitting") = CallsAt(stack, "emitting")
          /\ CallsAt(stack', "finishing") = CallsAt(stack, "finishing")
          /\ CallsAt(stack', "releasing") = CallsAt(stack, "releasing")
          /\ CallsAt(stack', "finalizing") < CallsAt(stack, "finalizing")
      BY <2>3, <3>1
    <3> QED  BY <3>2, LessWorkSplit
  <2> QED  BY <1>1, <2>4, <2>5, <2>6, <2>7, <2>8 DEF Return
<1>2. IInv /\ [Next]_vars => [Return => LessWork(Work(stack'), Work(stack))]_vars
  BY <1>1
<1> QED  BY <1>2, InvariantHolds, PTL DEF Spec, CallsEnd

\* When the client has let go and every call has returned, no event and no
\* controller is left.
THEOREM NothingIsLeftBehind == Spec => []NothingLeftBehind
<1>1. IInv => NothingLeftBehind
  <2> SUFFICES ASSUME IInv, stack = <<>>, ClientGone
               PROVE  /\ \A e \in Events : eventRefs[e] = 0
                      /\ \A c \in Controllers : ctlRefs[c] = 0
    BY DEF NothingLeftBehind
  <2>1. ASSUME NEW x
        PROVE  OfEvent(stack, x) = 0 /\ OfCtl(stack, x) = 0
    <3>1. EventFrames(stack, x) = {} /\ CtlFrames(stack, x) = {}
      BY DEF EventFrames, CtlFrames
    <3> QED  BY <3>1, FS_EmptySet DEF OfEvent, OfCtl
  <2>2. ASSUME NEW e \in Events
        PROVE  eventRefs[e] = 0
    <3>1. eventRefs[e] = eventOwned[e] + OfEvent(stack, e)
      BY DEF IInv, EventsCounted
    <3> QED  BY <2>1, <3>1 DEF ClientGone
  <2>3. ASSUME NEW c \in Controllers
        PROVE  ctlRefs[c] = 0
    <3>1. ctlRefs[c] <= ctlOwned[c] + OfCreated(controller, stack, c) + OfCtl(stack, c)
      BY DEF IInv, CtlsCounted, Counted
    <3>2. Created(controller, stack, c) = {}
      BY <2>2, NullAssumption DEF Created, IInv, FreedEvents
    <3>3. OfCreated(controller, stack, c) = 0
      BY <3>2, FS_EmptySet DEF OfCreated
    <3>4. ctlRefs[c] <= 0 + 0 + 0
      BY <2>1, <3>1, <3>3 DEF ClientGone
    <3>5. ctlRefs[c] \in Nat
      BY CountsTyped DEF IInv
    <3> QED  BY <3>4, <3>5
  <2> QED  BY <2>2, <2>3
<1> QED  BY <1>1, InvariantHolds, PTL
=============================================================================
