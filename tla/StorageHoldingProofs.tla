------------------------ MODULE StorageHoldingProofs ------------------------
(***************************************************************************)
(* The proof that StorageController implements StorageHolding: although a   *)
(* setter, a dispose and an unref are suspended in free functions halfway,  *)
(* a storage exists exactly as long as somebody holds it, and every change  *)
(* of hands is one step.                                                    *)
(***************************************************************************)
EXTENDS StorageControllerProofs

-----------------------------------------------------------------------------
(* What a controller controls.                                             *)

\* Call i of st is releasing the storage of c.
ReleasesAt(st, i, c) == st[i].at \in Releasing /\ st[i].ctl = c

Unique(st) ==
  \A i, j \in DOMAIN st : \A c \in Controllers :
    ReleasesAt(st, i, c) /\ ReleasesAt(st, j, c) => i = j

\* Controlled, without a choice: x is what c controls.
Controls(st, stor, c, x) ==
  \/ \E i \in DOMAIN st : ReleasesAt(st, i, c) /\ st[i].at = "replacing" /\ x = st[i].new
  \/ \E i \in DOMAIN st : ReleasesAt(st, i, c) /\ st[i].at # "replacing" /\ x = NULL
  \/ (\A i \in DOMAIN st : ~ReleasesAt(st, i, c)) /\ x = stor[c]

LEMMA ReleasesOnce ==
  IInv => Unique(stack)
<1> SUFFICES ASSUME IInv, NEW i \in DOMAIN stack, NEW j \in DOMAIN stack,
                    NEW c \in Controllers, ReleasesAt(stack, i, c), ReleasesAt(stack, j, c)
             PROVE  i = j
  BY DEF Unique
<1>1. stack[i].at # "notifying" /\ stack[i].at # "freeing"
      /\ stack[j].at # "notifying" /\ stack[j].at # "freeing"
  BY DEF ReleasesAt, Releasing
<1>2. stack[i].old = storage[c] /\ stack[j].old = storage[c]
  BY <1>1 DEF IInv, ReleaseFrames, ReleasesAt
<1> QED  BY <1>1, <1>2 DEF IInv, OneRelease

LEMMA ControlledIs ==
  Unique(stack) => \A c \in Controllers : \A x : Controls(stack, storage, c, x) <=> x = Controlled(c)
<1> SUFFICES ASSUME Unique(stack), NEW c \in Controllers, NEW x
             PROVE  Controls(stack, storage, c, x) <=> x = Controlled(c)
  OBVIOUS
<1>1. CASE \E i \in DOMAIN stack : ReleasesAt(stack, i, c) /\ stack[i].at = "replacing"
  <2> DEFINE i == CHOOSE i \in DOMAIN stack : stack[i].at = "replacing" /\ stack[i].ctl = c
  <2>1. i \in DOMAIN stack /\ stack[i].at = "replacing" /\ stack[i].ctl = c
    BY <1>1 DEF ReleasesAt
  <2>2. Controlled(c) = stack[i].new
    BY <1>1 DEF Controlled, Suspended, ReleasesAt
  <2> HIDE DEF i
  <2>3. ReleasesAt(stack, i, c)
    BY <2>1 DEF ReleasesAt, Releasing
  <2>4. \A j \in DOMAIN stack : ReleasesAt(stack, j, c) => j = i
    BY <2>1, <2>3 DEF Unique
  <2> QED  BY <2>1, <2>2, <2>3, <2>4 DEF Controls
<1>2. CASE /\ \E i \in DOMAIN stack : ReleasesAt(stack, i, c)
           /\ ~\E i \in DOMAIN stack : ReleasesAt(stack, i, c) /\ stack[i].at = "replacing"
  <2>1. Controlled(c) = NULL
    BY <1>2 DEF Controlled, Suspended, ReleasesAt, Releasing
  <2> QED  BY <1>2, <2>1 DEF Controls
<1>3. CASE ~\E i \in DOMAIN stack : ReleasesAt(stack, i, c)
  <2>1. Controlled(c) = storage[c]
    BY <1>3 DEF Controlled, Suspended, ReleasesAt, Releasing
  <2> QED  BY <1>3, <2>1 DEF Controls
<1> QED  BY <1>1, <1>2, <1>3

LEMMA InvControls ==
  IInv => \A c \in Controllers : \A x : Controls(stack, storage, c, x) <=> x = Controlled(c)
BY ReleasesOnce, ControlledIs

\* The same of the next state.
LEMMA NextControls ==
  ASSUME IInv'
  PROVE  \A c \in Controllers : \A x : Controls(stack', storage', c, x) <=> x = Controlled(c)'
<1>1. (\A c \in Controllers : \A x : Controls(stack, storage, c, x) <=> x = Controlled(c))'
  BY InvControls, PTL
<1> QED  BY <1>1 DEF Controls, ReleasesAt

-----------------------------------------------------------------------------
(* Calls that begin and end.                                               *)

\* A call that does not release the storage of c changes nothing for c.
LEMMA PushKeeps ==
  ASSUME NEW s \in Seq(Frames), NEW f \in Frames, NEW c, NEW x,
         NEW stor, NEW stor2, stor[c] = stor2[c],
         f.at \notin Releasing \/ f.ctl # c
  PROVE  Controls(s, stor, c, x) <=> Controls(Append(s, f), stor2, c, x)
<1> DEFINE t == Append(s, f)
           n == Len(s) + 1
<1>1. /\ DOMAIN s = 1..Len(s) /\ DOMAIN t = 1..n /\ Len(s) \in Nat
      /\ \A i \in 1..Len(s) : t[i] = s[i]
      /\ t[n] = f
  BY Pushed
<1> HIDE DEF t
<1>2. \A i \in 1..n : i = n \/ i \in 1..Len(s)
  BY <1>1
<1>3. \A i \in 1..Len(s) : i \in 1..n
  BY <1>1
<1>4. ~ReleasesAt(t, n, c)
  BY <1>1 DEF ReleasesAt
<1>5. \A i \in 1..Len(s) : ReleasesAt(t, i, c) <=> ReleasesAt(s, i, c)
  BY <1>1 DEF ReleasesAt
<1> HIDE DEF n
<1> QED  BY <1>1, <1>2, <1>3, <1>4, <1>5 DEF Controls, t

\* A call that does says what c controls from now on.
LEMMA PushControls ==
  ASSUME NEW s \in Seq(Frames), NEW f \in Frames, NEW stor, f.at \in Releasing
  PROVE  /\ f.at = "replacing" => Controls(Append(s, f), stor, f.ctl, f.new)
         /\ f.at # "replacing" => Controls(Append(s, f), stor, f.ctl, NULL)
<1> DEFINE t == Append(s, f)
           n == Len(s) + 1
<1>1. DOMAIN t = 1..n /\ Len(s) \in Nat /\ t[n] = f
  BY Pushed
<1> HIDE DEF t
<1>2. n \in DOMAIN t /\ ReleasesAt(t, n, f.ctl)
  BY <1>1 DEF ReleasesAt
<1> QED  BY <1>1, <1>2 DEF Controls, t

\* The stack with the innermost call taken off.
LEMMA TopOff ==
  ASSUME IInv, stack # <<>>
  PROVE  /\ Callers \in Seq(Frames) /\ Top \in Frames /\ stack \in Seq(Frames)
         /\ stack = Append(Callers, Top)
<1>1. stack \in Seq(Frames)
  BY DEF IInv, TypeOK
<1>2. stack = Append(SubSeq(stack, 1, Len(stack) - 1), stack[Len(stack)])
  BY <1>1
<1> QED  BY <1>1, <1>2, Popped DEF Callers, Top

\* No other call releases the storage of a controller whose release is on top.
LEMMA NoneBelow ==
  ASSUME IInv, stack # <<>>, Top.at \in Releasing
  PROVE  \A i \in DOMAIN Callers : ~ReleasesAt(Callers, i, Top.ctl)
<1>1. /\ Callers \in Seq(Frames) /\ Top \in Frames /\ stack = Append(Callers, Top)
  BY TopOff
<1> DEFINE n == Len(Callers) + 1
<1>2. /\ DOMAIN Callers = 1..Len(Callers) /\ DOMAIN stack = 1..n /\ Len(Callers) \in Nat
      /\ \A i \in 1..Len(Callers) : stack[i] = Callers[i]
      /\ stack[n] = Top
  BY <1>1, Pushed
<1>3. n \in DOMAIN stack /\ \A i \in 1..Len(Callers) : i \in DOMAIN stack /\ i # n
  BY <1>2
<1> HIDE DEF n
<1>4. Top.ctl \in Controllers
  BY TopFrame DEF Releasing
<1>5. ReleasesAt(stack, n, Top.ctl)
  BY <1>2 DEF ReleasesAt
<1>6. \A i \in 1..Len(Callers) : ReleasesAt(Callers, i, Top.ctl) => ReleasesAt(stack, i, Top.ctl)
  BY <1>2 DEF ReleasesAt
<1> QED  BY <1>2, <1>3, <1>4, <1>5, <1>6, ReleasesOnce DEF Unique

-----------------------------------------------------------------------------
(* What is held exists, and nothing else does.                             *)

LEMMA LiveIsHeld ==
  IInv => \A s \in Storages : heap[s] = "live" <=> Holding!Held(s)
<1> SUFFICES ASSUME IInv, NEW s \in Storages
             PROVE  heap[s] = "live" <=> Holding!Held(s)
  OBVIOUS
<1>0. /\ owned[s] \in Nat /\ NULL \notin Controllers
      /\ IF heap[s] = "live" THEN refs[s] = owned[s] + Cardinality(Holders(s)) /\ refs[s] > 0
         ELSE refs[s] = 0 /\ owned[s] = 0
  BY NullAssumption DEF IInv, TypeOK, RefsBalanced
<1>1. ASSUME heap[s] = "live"
      PROVE  Holding!Held(s)
  <2>1. CASE owned[s] > 0
    BY <2>1 DEF Holding!Held
  <2>2. CASE owned[s] = 0
    <3>1. Holders(s) # {}
      <4>1. Cardinality({}) = 0
        BY FS_EmptySet
      <4> QED  BY <1>0, <1>1, <2>2, <4>1
    <3>2. PICK c \in Controllers : storage[c] = s
      BY <3>1 DEF Holders
    <3>3. \A i \in DOMAIN stack : ~ReleasesAt(stack, i, c)
      <4> SUFFICES ASSUME NEW i \in DOMAIN stack, ReleasesAt(stack, i, c)
                   PROVE  FALSE
        OBVIOUS
      <4>1. stack[i].at \in Releasing /\ stack[i].ctl = c
        BY DEF ReleasesAt
      <4>2. heap[storage[c]] = "dying"
        BY <4>1 DEF IInv, ReleaseFrames, Releasing
      <4> QED  BY <1>1, <3>2, <4>2
    <3>4. Controlled(c) = s
      <4>1. Controls(stack, storage, c, s)
        BY <3>2, <3>3 DEF Controls
      <4> QED  BY <4>1, InvControls
    <3> QED  BY <3>4 DEF Holding!Held
  <2> QED  BY <1>0, <2>1, <2>2
<1>2. ASSUME Holding!Held(s)
      PROVE  heap[s] = "live"
  <2>1. CASE owned[s] > 0
    BY <1>0, <2>1
  <2>2. ASSUME NEW c \in Controllers, Controlled(c) = s
        PROVE  heap[s] = "live"
    <3>1. Controls(stack, storage, c, s) /\ s # NULL
      BY <2>2, InvControls, NullAssumption
    <3>2. ASSUME NEW i \in DOMAIN stack, stack[i].at = "replacing", s = stack[i].new
          PROVE  heap[s] = "live"
      <4>1. owned[s] > 0
        BY <3>1, <3>2 DEF IInv, CallFrames
      <4> QED  BY <1>0, <4>1
    <3>3. ASSUME \A i \in DOMAIN stack : ~ReleasesAt(stack, i, c), s = storage[c]
          PROVE  heap[s] = "live"
      <4>1. ~Suspended(c, Releasing)
        BY <3>3 DEF Suspended, ReleasesAt
      <4> QED  BY <3>1, <3>3, <4>1 DEF IInv, NoDanglingStorage
    <3> QED  BY <3>1, <3>2, <3>3 DEF Controls
  <2>3. owned[s] > 0 \/ \E c \in Controllers : Controlled(c) = s
    BY <1>2 DEF Holding!Held
  <2> QED  BY <2>1, <2>2, <2>3
<1> QED  BY <1>1, <1>2

LEMMA NextLiveIsHeld ==
  ASSUME IInv'
  PROVE  \A s \in Storages : heap'[s] = "live" <=> Holding!Held(s)'
<1>1. (\A s \in Storages : heap[s] = "live" <=> Holding!Held(s))'
  BY LiveIsHeld, PTL
<1> QED  BY <1>1

-----------------------------------------------------------------------------
(* Steps of the library as steps of StorageHolding.                        *)

\* Where nothing comes to exist, what is held stays and the rest goes.
LEMMA KeepsHeld ==
  ASSUME IInv', \A s \in Storages : heap'[s] = "live" => heap[s] = "live"
  PROVE  Holding!KeepHeld
BY NextLiveIsHeld DEF Holding!KeepHeld

\* What every controller but c controls is what it was.
OthersKeep(c) ==
  \A d \in Controllers \ {c} : \A x :
    Controls(stack, storage, d, x) => Controls(stack', storage', d, x)

LEMMA ControlStep ==
  ASSUME IInv, IInv', NEW c \in Controllers, NEW x,
         x = NULL \/ (x \in Storages /\ heap[x] = "live"),
         owned' = owned, \A s \in Storages : heap'[s] = "live" => heap[s] = "live",
         Controls(stack', storage', c, x), OthersKeep(c)
  PROVE  Holding!Control(c, x)
<1>1. Controlled(c)' = x
  BY NextControls
<1>2. ASSUME NEW d \in Controllers \ {c}
      PROVE  Controlled(d)' = Controlled(d)
  <2>1. Controls(stack, storage, d, Controlled(d))
    BY InvControls
  <2> QED  BY <2>1, NextControls DEF OthersKeep
<1>3. [d \in Controllers |-> Controlled(d)]' = [[d \in Controllers |-> Controlled(d)] EXCEPT ![c] = x]
  BY <1>1, <1>2
<1> QED  BY <1>3, KeepsHeld DEF Holding!Control

\* Nothing changes hands between controllers.
Kept == \A c \in Controllers : \A x :
          Controls(stack, storage, c, x) => Controls(stack', storage', c, x)

LEMMA ControlledKept ==
  ASSUME IInv, IInv', Kept
  PROVE  [d \in Controllers |-> Controlled(d)]' = [d \in Controllers |-> Controlled(d)]
<1>1. ASSUME NEW d \in Controllers
      PROVE  Controlled(d)' = Controlled(d)
  <2>1. Controls(stack, storage, d, Controlled(d))
    BY InvControls
  <2> QED  BY <2>1, NextControls DEF Kept
<1> QED  BY <1>1

LEMMA StutterStep ==
  ASSUME IInv, IInv', owned' = owned, Kept,
         \A s \in Storages : heap'[s] = "live" <=> heap[s] = "live"
  PROVE  UNCHANGED Holding!abstractVars
<1>1. {s \in Storages : heap[s] = "live"}' = {s \in Storages : heap[s] = "live"}
  OBVIOUS
<1> QED  BY <1>1, ControlledKept DEF Holding!abstractVars

\* Calls that begin or end and release nothing of a controller.
LEMMA PushKept ==
  ASSUME IInv, NEW f \in Frames, f.at \notin Releasing, stack' = Append(stack, f),
         storage' = storage
  PROVE  Kept
<1>1. stack \in Seq(Frames)
  BY DEF IInv, TypeOK
<1> QED  BY <1>1, PushKeeps DEF Kept

LEMMA PopKept ==
  ASSUME IInv, stack # <<>>, Top.at \notin Releasing, NEW c \in Controllers, NEW x,
         Controls(stack, storage, c, x)
  PROVE  Controls(Callers, storage, c, x)
BY TopOff, PushKeeps

\* The client's references change, and it is the one who creates.
LEMMA NewStorageStep ==
  ASSUME IInv, IInv', NEW s \in Storages, NewStorage(s)
  PROVE  Holding!Create(s)
<1>1. /\ heap[s] = "none" /\ heap' = [heap EXCEPT ![s] = "live"]
      /\ owned' = [owned EXCEPT ![s] = 1] /\ UNCHANGED <<storage, stack>>
  BY DEF NewStorage
<1>2. heap \in [Storages -> {"none", "live", "dying"}]
  BY DEF IInv, TypeOK
<1>3. {t \in Storages : heap'[t] = "live"} = {t \in Storages : heap[t] = "live"} \cup {s}
  BY <1>1, <1>2
<1>4. Kept
  BY <1>1 DEF Kept
<1> QED  BY <1>1, <1>3, <1>4, ControlledKept DEF Holding!Create

LEMMA RefStorageStep ==
  ASSUME IInv, IInv', NEW s \in Storages, RefStorage(s)
  PROVE  Holding!Take(s)
<1>1. /\ owned[s] > 0 /\ owned' = [owned EXCEPT ![s] = @ + 1]
      /\ UNCHANGED <<storage, heap, stack>>
  BY DEF RefStorage, IInv, TypeOK
<1>2. heap[s] = "live"
  BY <1>1, LiveIsHeld DEF Holding!Held
<1>3. Kept
  BY <1>1 DEF Kept
<1> QED  BY <1>1, <1>2, <1>3, ControlledKept DEF Holding!Take

LEMMA UnrefStorageStep ==
  ASSUME IInv, IInv', NEW s \in Storages, UnrefStorage(s)
  PROVE  Holding!GiveUp(s)
<1>1. /\ owned[s] > 0 /\ owned' = [owned EXCEPT ![s] = @ - 1] /\ UNCHANGED storage
  <2>1. owned[s] \in Nat /\ Promised(s) \in {0, 1} /\ owned[s] > Promised(s)
    BY DEF UnrefStorage, Promised, IInv, TypeOK
  <2> QED  BY <2>1 DEF UnrefStorage
<1>2. CASE UNCHANGED <<heap, stack>>
  <2>1. Kept
    BY <1>1, <1>2 DEF Kept
  <2> QED  BY <1>1, <1>2, <2>1, ControlledKept, KeepsHeld DEF Holding!GiveUp
<1>3. CASE StartFreeing(s) /\ stack' = Append(stack, Frame("freeing", NULL, s, NULL))
  <2>1. Frame("freeing", NULL, s, NULL) \in Frames
        /\ Frame("freeing", NULL, s, NULL).at \notin Releasing
    BY DEF Frame, Frames, Places, Releasing
  <2>2. Kept
    BY <1>1, <1>3, <2>1, PushKept
  <2>3. \A t \in Storages : heap'[t] = "live" => heap[t] = "live"
    BY <1>3 DEF StartFreeing, IInv, TypeOK
  <2> QED  BY <1>1, <2>2, <2>3, ControlledKept, KeepsHeld DEF Holding!GiveUp
<1> QED  BY <1>2, <1>3 DEF UnrefStorage

LEMMA GetPropertyStep ==
  ASSUME ~FreeFuncsReenter, IInv, IInv', NEW c \in Controllers, GetProperty(c)
  PROVE  Holding!Take(storage[c])
<1> DEFINE s == storage[c]
<1>1. /\ s \in Storages /\ owned' = [owned EXCEPT ![s] = @ + 1]
      /\ UNCHANGED <<storage, heap, stack>> /\ ~Suspended(c, Releasing)
  BY DEF GetProperty, MayCall, IInv, TypeOK
<1>2. heap[s] = "live"
  BY <1>1, NullAssumption DEF IInv, NoDanglingStorage
<1>3. Kept
  BY <1>1 DEF Kept
<1> HIDE DEF s
<1>4. Holding!Take(s)
  BY <1>1, <1>2, <1>3, ControlledKept DEF Holding!Take
<1> QED  BY <1>4 DEF s

-----------------------------------------------------------------------------
(* Controllers.                                                            *)

\* A storage that a controller is given exists.
LEMMA PassedIsLive ==
  ASSUME IInv, NEW c, NEW s \in Storages, owned[s] > 0 \/ HeldElsewhere(c, s)
  PROVE  heap[s] = "live"
BY LiveIsHeld DEF HeldElsewhere, Holding!Held

\* No call is releasing what the controller has.
LEMMA NotReleasing ==
  ASSUME NEW c, ~Suspended(c, Releasing)
  PROVE  \A i \in DOMAIN stack : ~ReleasesAt(stack, i, c)
BY DEF Suspended, ReleasesAt

LEMMA NewControllerStep ==
  ASSUME IInv, IInv', NEW c \in Controllers, NEW s \in Storages \cup {NULL}, NewController(c, s)
  PROVE  Holding!Control(c, s)
<1>1. /\ object[c] = "none" /\ storage' = [storage EXCEPT ![c] = s]
      /\ s # NULL => owned[s] > 0 \/ HeldElsewhere(c, s)
      /\ UNCHANGED <<heap, owned, stack>>
      /\ storage \in [Controllers -> Storages \cup {NULL}]
  BY DEF NewController, IInv, TypeOK
<1>2. s = NULL \/ (s \in Storages /\ heap[s] = "live")
  BY <1>1, PassedIsLive
<1>3. ~Suspended(c, Releasing)
  <2>1. ~Suspended(c, Places)
    BY <1>1 DEF IInv, ObjRefsBalanced
  <2> QED  BY <2>1 DEF Suspended, Places
<1>4. Controls(stack', storage', c, s)
  BY <1>1, <1>3, NotReleasing DEF Controls
<1>5. OthersKeep(c)
  BY <1>1 DEF OthersKeep, Controls
<1> QED  BY <1>1, <1>2, <1>4, <1>5, ControlStep

\* A setter takes effect at once, also where it waits for free functions.
LEMMA SetStorageStep ==
  ASSUME ~FreeFuncsReenter, IInv, IInv', NEW c \in Controllers, NEW s \in Storages \cup {NULL},
         SetStorage(c, s)
  PROVE  Holding!Control(c, s)
<1>1. /\ ~Suspended(c, Releasing) /\ MayPass(c, s) /\ owned' = owned
      /\ storage \in [Controllers -> Storages \cup {NULL}]
      /\ heap \in [Storages -> {"none", "live", "dying"}]
      /\ stack \in Seq(Frames)
  BY DEF SetStorage, MayCall, IInv, TypeOK
<1>2. s = NULL \/ (s \in Storages /\ heap[s] = "live")
  BY <1>1, PassedIsLive DEF MayPass
<1>3. CASE Install(c, s, Unref(refs, storage[c]), stack) /\ UNCHANGED heap
  <2> DEFINE f == Frame("notifying", c, NULL, NULL)
  <2>1. f \in Frames /\ f.at \notin Releasing
    BY DEF Frame, Frames, Places, Releasing
  <2>2. storage' = [storage EXCEPT ![c] = s] /\ stack' = Append(stack, f)
    BY <1>3 DEF Install, Notify
  <2> HIDE DEF f
  <2>3. Controls(stack, storage', c, s)
    BY <1>1, <2>2, NotReleasing DEF Controls
  <2>4. Controls(stack', storage', c, s)
    BY <1>1, <2>1, <2>2, <2>3, PushKeeps
  <2>5. OthersKeep(c)
    <3>1. \A d \in Controllers \ {c} : storage[d] = storage'[d]
      BY <1>1, <2>2
    <3> QED  BY <1>1, <2>1, <2>2, <3>1, PushKeeps DEF OthersKeep
  <2> QED  BY <1>1, <1>2, <1>3, <2>4, <2>5, ControlStep
<1>4. CASE /\ IsLast(storage[c]) /\ StartFreeing(storage[c])
           /\ stack' = Append(stack, Frame("replacing", c, storage[c], s))
           /\ UNCHANGED storage
  <2> DEFINE f == Frame("replacing", c, storage[c], s)
  <2>1. f \in Frames /\ f.at = "replacing" /\ f.at \in Releasing /\ f.ctl = c /\ f.new = s
    BY <1>1 DEF Frame, Frames, Places, Releasing
  <2> HIDE DEF f
  <2>2. stack' = Append(stack, f)
    BY <1>4 DEF f
  <2>3. Controls(stack', storage', c, s)
    BY <1>1, <1>4, <2>1, <2>2, PushControls
  <2>4. OthersKeep(c)
    BY <1>1, <1>4, <2>1, <2>2, PushKeeps DEF OthersKeep
  <2>5. \A t \in Storages : heap'[t] = "live" => heap[t] = "live"
    BY <1>1, <1>4 DEF StartFreeing
  <2> QED  BY <1>1, <1>2, <2>3, <2>4, <2>5, ControlStep
<1> QED  BY <1>3, <1>4 DEF SetStorage

\* What a step may be.
Step == Holding!Next \/ UNCHANGED Holding!abstractVars

LEMMA ControlIsStep ==
  ASSUME NEW c \in Controllers, NEW x \in Storages \cup {NULL}, Holding!Control(c, x)
  PROVE  Step
BY DEF Step, Holding!Next

\* g_object_unref: the storage is given up by the last reference, whether its
\* free functions have run yet or not.
LEMMA ObjUnrefStep ==
  ASSUME IInv, IInv', NEW c \in Controllers, NEW callers \in Seq(Frames),
         \A d \in Controllers : \A x :
           Controls(stack, storage, d, x) => Controls(callers, storage, d, x),
         ObjUnref(c, callers), owned' = owned
  PROVE  Step
<1>0. /\ storage \in [Controllers -> Storages \cup {NULL}]
      /\ heap \in [Storages -> {"none", "live", "dying"}]
      /\ object \in [Controllers -> {"none", "live", "finalizing"}]
  BY DEF IInv, TypeOK
<1>1. CASE stack' = callers /\ UNCHANGED <<storage, heap>>
  <2>1. Kept
    BY <1>1 DEF Kept
  <2> QED  BY <1>1, <2>1, StutterStep DEF Step
<1>2. CASE /\ objRefs[c] = 1 /\ DropObjRef(c) /\ stack' = callers
           /\ storage' = [storage EXCEPT ![c] = NULL] /\ UNCHANGED heap
  <2>1. object'[c] = "none"
    BY <1>0, <1>2 DEF DropObjRef
  <2>2. \A i \in DOMAIN stack' : ~ReleasesAt(stack', i, c)
    <3>1. ~Suspended(c, Places)'
      BY <2>1 DEF IInv, ObjRefsBalanced
    <3> QED  BY <3>1 DEF Suspended, Places, ReleasesAt
  <2>3. Controls(stack', storage', c, NULL)
    BY <1>0, <1>2, <2>2 DEF Controls
  <2>4. OthersKeep(c)
    <3>1. \A d \in Controllers \ {c} : storage'[d] = storage[d]
      BY <1>0, <1>2
    <3>2. \A d \in Controllers \ {c} : \A x :
            Controls(callers, storage, d, x) => Controls(callers, storage', d, x)
      BY <3>1 DEF Controls
    <3> QED  BY <1>2, <3>2 DEF OthersKeep
  <2>5. Holding!Control(c, NULL)
    BY <1>2, <2>3, <2>4, ControlStep
  <2> QED  BY <2>5, ControlIsStep
<1>3. ASSUME NEW at \in {"dropping", "finalizing"}, IsLast(storage[c]), StartFreeing(storage[c]),
             stack' = Append(callers, Frame(at, c, storage[c], NULL)), UNCHANGED storage
      PROVE  Step
  <2> DEFINE f == Frame(at, c, storage[c], NULL)
  <2>1. f \in Frames /\ f.at # "replacing" /\ f.at \in Releasing /\ f.ctl = c
    BY <1>0 DEF Frame, Frames, Places, Releasing
  <2> HIDE DEF f
  <2>2. stack' = Append(callers, f)
    BY <1>3 DEF f
  <2>3. Controls(stack', storage', c, NULL)
    BY <1>3, <2>1, <2>2, PushControls
  <2>4. OthersKeep(c)
    BY <1>3, <2>1, <2>2, PushKeeps DEF OthersKeep
  <2>5. \A t \in Storages : heap'[t] = "live" => heap[t] = "live"
    BY <1>0, <1>3 DEF StartFreeing
  <2>6. Holding!Control(c, NULL)
    BY <2>3, <2>4, <2>5, ControlStep
  <2> QED  BY <2>6, ControlIsStep
<1> QED  BY <1>1, <1>2, <1>3 DEF ObjUnref

LEMMA RunDisposeStep ==
  ASSUME ~FreeFuncsReenter, IInv, IInv', NEW c \in Controllers, RunDispose(c)
  PROVE  Step
<1>0. /\ storage \in [Controllers -> Storages \cup {NULL}]
      /\ heap \in [Storages -> {"none", "live", "dying"}]
      /\ stack \in Seq(Frames) /\ ~Suspended(c, Releasing) /\ owned' = owned
  BY DEF RunDispose, MayCall, IInv, TypeOK
<1>1. CASE /\ IsLast(storage[c]) /\ StartFreeing(storage[c]) /\ UNCHANGED storage
           /\ stack' = Append(stack, Frame("dropping", c, storage[c], NULL))
  <2> DEFINE f == Frame("dropping", c, storage[c], NULL)
  <2>1. f \in Frames /\ f.at # "replacing" /\ f.at \in Releasing /\ f.ctl = c
    BY <1>0 DEF Frame, Frames, Places, Releasing
  <2> HIDE DEF f
  <2>2. stack' = Append(stack, f)
    BY <1>1 DEF f
  <2>3. Controls(stack', storage', c, NULL)
    BY <1>0, <1>1, <2>1, <2>2, PushControls
  <2>4. OthersKeep(c)
    BY <1>0, <1>1, <2>1, <2>2, PushKeeps DEF OthersKeep
  <2>5. \A t \in Storages : heap'[t] = "live" => heap[t] = "live"
    BY <1>0, <1>1 DEF StartFreeing
  <2>6. Holding!Control(c, NULL)
    BY <1>0, <2>3, <2>4, <2>5, ControlStep
  <2> QED  BY <2>6, ControlIsStep
<1>2. CASE storage' = [storage EXCEPT ![c] = NULL] /\ UNCHANGED <<heap, stack>>
  <2>1. Controls(stack', storage', c, NULL)
    BY <1>0, <1>2, NotReleasing DEF Controls
  <2>2. OthersKeep(c)
    BY <1>0, <1>2 DEF OthersKeep, Controls
  <2>3. Holding!Control(c, NULL)
    BY <1>0, <1>2, <2>1, <2>2, ControlStep
  <2> QED  BY <2>3, ControlIsStep
<1>3. CASE UNCHANGED <<storage, heap, stack>>
  <2>1. Kept
    BY <1>3 DEF Kept
  <2> QED  BY <1>0, <1>3, <2>1, StutterStep DEF Step
<1> QED  BY <1>1, <1>2, <1>3 DEF RunDispose

-----------------------------------------------------------------------------
(* The suspended calls: what they still do is invisible.                   *)

\* The storage they give back has been gone all the time.
LEMMA FreeKeepsLive ==
  ASSUME IInv, stack # <<>>, Top.at # "notifying", Free(Top.old)
  PROVE  \A s \in Storages : heap'[s] = "live" <=> heap[s] = "live"
BY TopFrame DEF Free, IInv, TypeOK

\* What a controller on top of the stack has, for StorageHolding.
LEMMA TopControls ==
  ASSUME IInv, stack # <<>>, Top.at \in Releasing, NEW x,
         Controls(stack, storage, Top.ctl, x)
  PROVE  x = IF Top.at = "replacing" THEN Top.new ELSE NULL
<1>1. Top.ctl \in Controllers
  BY TopFrame DEF Releasing
<1>2. /\ Callers \in Seq(Frames) /\ Top \in Frames /\ stack = Append(Callers, Top)
  BY TopOff
<1>3. CASE Top.at = "replacing"
  <2>1. Controls(stack, storage, Top.ctl, Top.new)
    BY <1>2, <1>3, PushControls
  <2> QED  BY <1>1, <1>3, <2>1, InvControls
<1>4. CASE Top.at # "replacing"
  <2>1. Controls(stack, storage, Top.ctl, NULL)
    BY <1>2, <1>4, PushControls
  <2> QED  BY <1>1, <1>4, <2>1, InvControls
<1> QED  BY <1>3, <1>4

\* The frame of a release goes and the field is written.
LEMMA ReleaseKept ==
  ASSUME IInv, stack # <<>>, Top.at \in Releasing,
         storage' = [storage EXCEPT ![Top.ctl] = IF Top.at = "replacing" THEN Top.new ELSE NULL]
  PROVE  \A d \in Controllers : \A x :
           Controls(stack, storage, d, x) => Controls(Callers, storage', d, x)
<1> SUFFICES ASSUME NEW d \in Controllers, NEW x, Controls(stack, storage, d, x)
             PROVE  Controls(Callers, storage', d, x)
  OBVIOUS
<1>0. storage \in [Controllers -> Storages \cup {NULL}] /\ Top.ctl \in Controllers
  BY TopFrame DEF IInv, TypeOK, Releasing
<1>1. CASE d = Top.ctl
  <2>1. x = storage'[d]
    BY <1>0, <1>1, TopControls
  <2>2. \A i \in DOMAIN Callers : ~ReleasesAt(Callers, i, d)
    BY <1>1, NoneBelow
  <2> QED  BY <2>1, <2>2 DEF Controls
<1>2. CASE d # Top.ctl
  <2>1. storage'[d] = storage[d]
    BY <1>0, <1>2
  <2>2. /\ Callers \in Seq(Frames) /\ Top \in Frames /\ stack = Append(Callers, Top)
    BY TopOff
  <2>3. Controls(Append(Callers, Top), storage, d, x)
    BY <2>2
  <2>4. Controls(Callers, storage, d, x)
    BY <1>2, <2>2, <2>3, PushKeeps
  <2> QED  BY <2>1, <2>4 DEF Controls
<1> QED  BY <1>1, <1>2

LEMMA ReturnToSetterStep ==
  ASSUME IInv, IInv', ReturnToSetter
  PROVE  Step
<1> DEFINE f == Frame("notifying", Top.ctl, NULL, NULL)
<1>1. /\ stack # <<>> /\ Top.at = "replacing" /\ Free(Top.old) /\ owned' = owned
      /\ storage' = [storage EXCEPT ![Top.ctl] = Top.new]
      /\ stack' = Append(Callers, f)
  BY DEF ReturnToSetter, Install, Notify
<1>2. f \in Frames /\ f.at \notin Releasing /\ Callers \in Seq(Frames)
  BY <1>1, TopFrame, TopOff DEF Frame, Frames, Places, Releasing
<1> HIDE DEF f
<1>3. \A d \in Controllers : \A x :
        Controls(stack, storage, d, x) => Controls(Callers, storage', d, x)
  BY <1>1, ReleaseKept DEF Releasing
<1>4. Kept
  <2> SUFFICES ASSUME NEW d \in Controllers, NEW x, Controls(stack, storage, d, x)
               PROVE  Controls(stack', storage', d, x)
    BY DEF Kept
  <2>1. Controls(Callers, storage', d, x)
    BY <1>3
  <2> DEFINE stor == storage'
  <2>2. stor = storage'
    OBVIOUS
  <2> HIDE DEF stor
  <2>3. Controls(Append(Callers, f), stor, d, x)
    BY <1>2, <2>1, <2>2, PushKeeps
  <2> QED  BY <1>1, <2>2, <2>3
<1>5. \A s \in Storages : heap'[s] = "live" <=> heap[s] = "live"
  BY <1>1, FreeKeepsLive
<1> QED  BY <1>1, <1>4, <1>5, StutterStep DEF Step

LEMMA ReturnToReleaseStep ==
  ASSUME IInv, IInv', ReturnToDispose \/ ReturnToFinalize
  PROVE  Step
<1>1. /\ stack # <<>> /\ Top.at \in {"dropping", "finalizing"} /\ Free(Top.old)
      /\ owned' = owned
      /\ storage' = [storage EXCEPT ![Top.ctl] = NULL] /\ stack' = Callers
  BY DEF ReturnToDispose, ReturnToFinalize
<1>2. Kept
  BY <1>1, ReleaseKept DEF Releasing, Kept
<1>3. \A s \in Storages : heap'[s] = "live" <=> heap[s] = "live"
  BY <1>1, FreeKeepsLive
<1> QED  BY <1>1, <1>2, <1>3, StutterStep DEF Step

LEMMA ReturnToUnrefStep ==
  ASSUME IInv, IInv', ReturnToUnref
  PROVE  Step
<1>1. /\ stack # <<>> /\ Top.at = "freeing" /\ Free(Top.old)
      /\ stack' = Callers /\ UNCHANGED <<storage, owned>>
  BY DEF ReturnToUnref
<1>2. Kept
  BY <1>1, PopKept DEF Releasing, Kept
<1>3. \A s \in Storages : heap'[s] = "live" <=> heap[s] = "live"
  BY <1>1, FreeKeepsLive
<1> QED  BY <1>1, <1>2, <1>3, StutterStep DEF Step

\* Only the unref at the end of an emission can be seen.
LEMMA ReturnToNotifyStep ==
  ASSUME IInv, IInv', ReturnToNotify
  PROVE  Step
<1>1. /\ stack # <<>> /\ Top.at = "notifying" /\ ObjUnref(Top.ctl, Callers) /\ owned' = owned
  BY DEF ReturnToNotify
<1>2. Top.ctl \in Controllers /\ Callers \in Seq(Frames)
  BY <1>1, TopFrame, TopOff
<1>3. \A d \in Controllers : \A x :
        Controls(stack, storage, d, x) => Controls(Callers, storage, d, x)
  BY <1>1, PopKept DEF Releasing
<1> QED  BY <1>1, <1>2, <1>3, ObjUnrefStep

-----------------------------------------------------------------------------
(* The theorem.                                                            *)

LEMMA InitHolds ==
  Init => Holding!Init
<1> SUFFICES ASSUME Init PROVE Holding!Init
  OBVIOUS
<1>1. \A c \in Controllers : Controlled(c) = NULL
  BY DEF Init, Controlled, Suspended
<1>2. \A s \in Storages : heap[s] # "live"
  BY DEF Init
<1> QED  BY <1>1, <1>2 DEF Init, Holding!Init

LEMMA NextHolds ==
  ASSUME ~FreeFuncsReenter, IInv, IInv', Next
  PROVE  Step
<1>1. ASSUME NEW s \in Storages, NewStorage(s) \/ RefStorage(s) \/ UnrefStorage(s)
      PROVE  Step
  BY <1>1, NewStorageStep, RefStorageStep, UnrefStorageStep DEF Step, Holding!Next
<1>2. ASSUME NEW c \in Controllers, RefController(c)
      PROVE  Step
  <2>1. UNCHANGED <<storage, heap, owned, stack>>
    BY <1>2 DEF RefController
  <2>2. Kept
    BY <2>1 DEF Kept
  <2> QED  BY <2>1, <2>2, StutterStep DEF Step
<1>3. ASSUME NEW c \in Controllers, UnrefController(c)
      PROVE  Step
  <2>1. ObjUnref(c, stack) /\ owned' = owned /\ stack \in Seq(Frames)
    BY <1>3 DEF UnrefController, IInv, TypeOK
  <2> QED  BY <2>1, ObjUnrefStep
<1>4. ASSUME NEW c \in Controllers, GetProperty(c)
      PROVE  Step
  <2>1. storage[c] \in Storages
    BY <1>4 DEF GetProperty, IInv, TypeOK
  <2> QED  BY <1>4, <2>1, GetPropertyStep DEF Step, Holding!Next
<1>5. ASSUME NEW c \in Controllers, NEW s \in StoragesOf(c) \cup {NULL},
             \/ NewController(c, s)
             \/ g_array_controller_set_array(c, s)
             \/ g_ptr_array_controller_set_array(c, s)
             \/ g_hash_controller_set_hash(c, s)
      PROVE  Step
  <2>1. s \in Storages \cup {NULL}
    BY DEF StoragesOf, Storages
  <2>2. NewController(c, s) \/ SetStorage(c, s)
    BY <1>5 DEF g_array_controller_set_array, g_ptr_array_controller_set_array,
                g_hash_controller_set_hash
  <2> QED  BY <2>1, <2>2, NewControllerStep, SetStorageStep, ControlIsStep
<1>6. CASE Return
  BY <1>6, ReturnToSetterStep, ReturnToReleaseStep, ReturnToUnrefStep, ReturnToNotifyStep
     DEF Return
<1> QED  BY <1>1, <1>2, <1>3, <1>4, <1>5, <1>6, RunDisposeStep DEF Next

\* Whatever free functions and handlers do in the middle of setters and
\* releases, but for calling the controller that is releasing the storage they
\* belong to: seen from outside, a storage exists exactly as long as the client owns
\* it or a controller controls it, and setters and releases take effect at once.
THEOREM StoragesLiveWhileHeld ==
  ASSUME ~FreeFuncsReenter
  PROVE  Spec => KeepsStorageAlive
<1>1. Init => Holding!Init
  BY InitHolds
<1>2. IInv /\ IInv' /\ [Next]_vars => [Holding!Next]_(Holding!abstractVars)
  <2> SUFFICES ASSUME IInv, IInv', [Next]_vars PROVE Step
    BY DEF Step
  <2>1. CASE UNCHANGED vars
    <3>1. UNCHANGED <<storage, heap, owned, stack>>
      BY <2>1 DEF vars
    <3>2. Kept
      BY <3>1 DEF Kept
    <3> QED  BY <3>1, <3>2, StutterStep DEF Step
  <2> QED  BY <2>1, NextHolds
<1> QED  BY <1>1, <1>2, InvariantHolds, PTL DEF Spec, KeepsStorageAlive, Holding!Spec
=============================================================================
