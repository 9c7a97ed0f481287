----------------------- MODULE StorageControllerProofs -----------------------
(***************************************************************************)
(* Proofs about StorageController, for any number of controllers and        *)
(* storages and any bounds, where the free functions leave alone the        *)
(* controller that is releasing the storage (FreeFuncsReenter is FALSE).    *)
(***************************************************************************)
EXTENDS StorageController, FiniteSetTheorems, TLAPS

(* The inductive invariant.  RefsBalanced alone is not inductive: a step out *)
(* of a suspended call acts on what its frame remembers, so the invariant    *)
(* ties every frame to the storage and the controller it is about.           *)

\* A call that is releasing a storage: it is being freed, and if the call is
\* on a controller, the controller still has it in its field.
ReleaseFrames ==
  \A i \in DOMAIN stack :
    stack[i].at # "notifying" =>
      /\ stack[i].old \in Storages
      /\ heap[stack[i].old] = "dying"
      /\ IF stack[i].at = "freeing"
         THEN \A c \in Controllers : storage[c] # stack[i].old
         ELSE storage[stack[i].ctl] = stack[i].old

\* Calls on controllers name one; what a setter will go on with is still there.
CallFrames ==
  \A i \in DOMAIN stack :
    /\ IF stack[i].at = "freeing" THEN stack[i].ctl = NULL
                                  ELSE stack[i].ctl \in Controllers
    /\ stack[i].at = "replacing" =>
         /\ objOwned[stack[i].ctl] > 0
         /\ stack[i].new # NULL => owned[stack[i].new] > 0
    /\ stack[i].at = "finalizing" => object[stack[i].ctl] = "finalizing"

\* No two calls are releasing the same storage.
OneRelease ==
  \A i, j \in DOMAIN stack :
    /\ stack[i].at # "notifying" /\ stack[j].at # "notifying"
    /\ stack[i].old = stack[j].old
    => i = j

\* A freed instance controls nothing.
FreedObjects == \A c \in Controllers : object[c] = "none" => storage[c] = NULL

IInv ==
  /\ TypeOK
  /\ RefsBalanced
  /\ NoDanglingStorage
  /\ ObjRefsBalanced
  /\ ReleaseFrames
  /\ CallFrames
  /\ OneRelease
  /\ FreedObjects

-----------------------------------------------------------------------------
(* Lemmas about the stack.                                                 *)

\* Suspending a call: a frame is added on top of the others.
LEMMA Pushed ==
  ASSUME NEW s \in Seq(Frames), NEW f \in Frames
  PROVE  /\ Append(s, f) \in Seq(Frames)
         /\ DOMAIN s = 1..Len(s)
         /\ DOMAIN Append(s, f) = 1..(Len(s) + 1)
         /\ \A i \in 1..Len(s) : Append(s, f)[i] = s[i]
         /\ Append(s, f)[Len(s) + 1] = f
         /\ Len(s) \in Nat
  OBVIOUS

LEMMA FramesTyped ==
  ASSUME TypeOK
  PROVE  DOMAIN stack = 1..Len(stack) /\ \A i \in DOMAIN stack : stack[i] \in Frames
<1>1. stack \in Seq(Frames)
  BY DEF TypeOK
<1> QED  BY <1>1

\* Returning to a call: the frame on top goes, the others stay.
LEMMA Popped ==
  ASSUME NEW s \in Seq(Frames), s # <<>>
  PROVE  /\ SubSeq(s, 1, Len(s) - 1) \in Seq(Frames)
         /\ s[Len(s)] \in Frames
         /\ Len(s) \in Nat \ {0}
         /\ DOMAIN s = 1..Len(s)
         /\ Len(SubSeq(s, 1, Len(s) - 1)) = Len(s) - 1
         /\ DOMAIN SubSeq(s, 1, Len(s) - 1) = 1..(Len(s) - 1)
         /\ \A i \in 1..(Len(s) - 1) : SubSeq(s, 1, Len(s) - 1)[i] = s[i]
<1>1. Len(s) \in Nat \ {0} /\ DOMAIN s = 1..Len(s) /\ s[Len(s)] \in Frames
  OBVIOUS
<1>2. /\ SubSeq(s, 1, Len(s) - 1) \in Seq(Frames)
      /\ Len(SubSeq(s, 1, Len(s) - 1)) = Len(s) - 1
      /\ \A i \in 1..(Len(s) - 1) : SubSeq(s, 1, Len(s) - 1)[i] = s[i]
  BY <1>1
<1>3. DOMAIN SubSeq(s, 1, Len(s) - 1) = 1..(Len(s) - 1)
  BY <1>1, <1>2
<1> QED  BY <1>1, <1>2, <1>3

LEMMA KeepingFinite ==
  ASSUME NEW s \in Seq(Frames), NEW c
  PROVE  IsFiniteSet(KeepingAlive(s, c)) /\ Cardinality(KeepingAlive(s, c)) \in Nat
<1>1. KeepingAlive(s, c) \subseteq 1..Len(s) /\ Len(s) \in Nat
  BY DEF KeepingAlive
<1>2. IsFiniteSet(1..Len(s))
  BY <1>1, FS_Interval
<1> QED  BY <1>1, <1>2, FS_Subset, FS_CardinalityType

\* A frame pushed on the stack counts for the controller it keeps alive.
LEMMA KeepingPushed ==
  ASSUME NEW s \in Seq(Frames), NEW f \in Frames, NEW c
  PROVE  Cardinality(KeepingAlive(Append(s, f), c)) =
           Cardinality(KeepingAlive(s, c)) +
             (IF f.at \in {"notifying", "dropping"} /\ f.ctl = c THEN 1 ELSE 0)
<1> DEFINE n == Len(s) + 1
<1>1. n \notin KeepingAlive(s, c)
  BY Pushed DEF KeepingAlive
<1>2. CASE f.at \in {"notifying", "dropping"} /\ f.ctl = c
  <2>1. KeepingAlive(Append(s, f), c) = KeepingAlive(s, c) \cup {n}
    BY <1>2, Pushed DEF KeepingAlive
  <2> QED  BY <1>1, <1>2, <2>1, KeepingFinite, FS_AddElement
<1>3. CASE ~(f.at \in {"notifying", "dropping"} /\ f.ctl = c)
  <2>1. KeepingAlive(Append(s, f), c) = KeepingAlive(s, c)
    BY <1>3, Pushed DEF KeepingAlive
  <2> QED  BY <1>3, <2>1, KeepingFinite
<1> QED  BY <1>2, <1>3

\* The frame on top no longer counts once the call returns.
LEMMA KeepingPopped ==
  ASSUME NEW s \in Seq(Frames), s # <<>>, NEW c
  PROVE  Cardinality(KeepingAlive(SubSeq(s, 1, Len(s) - 1), c)) =
           Cardinality(KeepingAlive(s, c)) -
             (IF s[Len(s)].at \in {"notifying", "dropping"} /\ s[Len(s)].ctl = c
              THEN 1 ELSE 0)
<1> DEFINE t == SubSeq(s, 1, Len(s) - 1)
           f == s[Len(s)]
<1>1. t \in Seq(Frames) /\ f \in Frames
  BY Popped
<1>2. s = Append(t, f)
  OBVIOUS
<1> HIDE DEF t, f
<1>3. Cardinality(KeepingAlive(s, c)) = Cardinality(KeepingAlive(t, c)) +
        (IF f.at \in {"notifying", "dropping"} /\ f.ctl = c THEN 1 ELSE 0)
  BY <1>1, <1>2, KeepingPushed
<1>4. Cardinality(KeepingAlive(t, c)) \in Nat
  BY <1>1, KeepingFinite
<1> QED  BY <1>3, <1>4 DEF t, f
-----------------------------------------------------------------------------
(* Lemmas about the holders of a storage.                                  *)

\* The controllers that have s in the field st.
On(st, s) == {c \in Controllers : st[c] = s}

LEMMA OnFinite ==
  ASSUME NEW st, NEW s
  PROVE  IsFiniteSet(On(st, s)) /\ Cardinality(On(st, s)) \in Nat
BY FiniteAssumption, FS_Subset, FS_CardinalityType DEF On

\* The fields after x is written into the one of c.
Written(st, c, x) == [st EXCEPT ![c] = x]

\* Writing one field moves one holder from the old storage to the new one.
LEMMA OnWritten ==
  ASSUME NEW st \in [Controllers -> Storages \cup {NULL}],
         NEW c \in Controllers, NEW x, NEW s
  PROVE  Cardinality(On(Written(st, c, x), s)) =
           Cardinality(On(st, s)) + (IF x = s THEN 1 ELSE 0)
                                  - (IF st[c] = s THEN 1 ELSE 0)
<1> DEFINE st2 == Written(st, c, x)
<1>1. CASE st[c] = s /\ x = s
  <2>1. On(st2, s) = On(st, s)
    BY <1>1 DEF On, Written
  <2> QED  BY <1>1, <2>1, OnFinite
<1>2. CASE st[c] # s /\ x # s
  <2>1. On(st2, s) = On(st, s)
    BY <1>2 DEF On, Written
  <2> QED  BY <1>2, <2>1, OnFinite
<1>3. CASE st[c] # s /\ x = s
  <2>1. On(st2, s) = On(st, s) \cup {c} /\ c \notin On(st, s)
    BY <1>3 DEF On, Written
  <2>2. Cardinality(On(st2, s)) = Cardinality(On(st, s)) + 1
    BY <2>1, OnFinite, FS_AddElement
  <2> QED  BY <1>3, <2>2, OnFinite
<1>4. CASE st[c] = s /\ x # s
  <2>1. On(st2, s) = On(st, s) \ {c} /\ c \in On(st, s)
    BY <1>4 DEF On, Written
  <2>2. Cardinality(On(st2, s)) = Cardinality(On(st, s)) - 1
    BY <2>1, OnFinite, FS_RemoveElement
  <2> QED  BY <1>4, <2>2, OnFinite
<1> QED  BY <1>1, <1>2, <1>3, <1>4

LEMMA OnNone ==
  ASSUME NEW st, NEW s, Cardinality(On(st, s)) = 0
  PROVE  \A c \in Controllers : st[c] # s
BY OnFinite, FS_EmptySet DEF On

\* A freed instance has no storage, so counting holders is counting fields.
LEMMA HoldersAreOn ==
  ASSUME FreedObjects
  PROVE  \A s \in Storages : Holders(s) = On(storage, s)
BY NullAssumption DEF FreedObjects, Holders, On

-----------------------------------------------------------------------------
(* Every action preserves the invariant.                                   *)

LEMMA NewStorageInv ==
  ASSUME IInv, NEW s \in Storages, NewStorage(s)
  PROVE  IInv'
<1> USE DEF IInv, NewStorage
<1>1. TypeOK'
  BY DEF TypeOK
<1>2. \A c \in Controllers : storage[c] # s
  BY NullAssumption DEF NoDanglingStorage
<1>3. RefsBalanced'
  <2>1. Holders(s) = {} /\ \A t : Holders(t)' = Holders(t)
    BY <1>2 DEF Holders
  <2>2. Cardinality(Holders(s)') = 0
    BY <2>1, FS_EmptySet
  <2> QED  BY <2>1, <2>2 DEF TypeOK, RefsBalanced
<1>4. NoDanglingStorage'
  BY <1>2 DEF TypeOK, NoDanglingStorage, Suspended
<1>5. ObjRefsBalanced'
  BY DEF ObjRefsBalanced, Suspended
<1>6. ReleaseFrames'
  BY DEF ReleaseFrames, TypeOK
<1>7. CallFrames'
  BY DEF CallFrames, TypeOK
<1>8. OneRelease' /\ FreedObjects'
  BY DEF OneRelease, FreedObjects
<1> QED  BY <1>1, <1>3, <1>4, <1>5, <1>6, <1>7, <1>8

LEMMA RefStorageInv ==
  ASSUME IInv, NEW s \in Storages, RefStorage(s)
  PROVE  IInv'
<1> USE DEF IInv, RefStorage
<1>1. TypeOK'
  BY DEF TypeOK
<1>2. RefsBalanced'
  <2> SUFFICES ASSUME NEW t \in Storages
               PROVE  IF heap'[t] = "live"
                      THEN /\ refs'[t] = owned'[t] + Cardinality(Holders(t)')
                           /\ refs'[t] > 0
                      ELSE refs'[t] = 0 /\ owned'[t] = 0
    BY DEF RefsBalanced
  <2>1. Holders(t)' = Holders(t)
    BY DEF Holders
  <2>2. Cardinality(Holders(t)) \in Nat
    BY HoldersAreOn, OnFinite
  <2>3. refs[t] \in Int /\ owned[t] \in Nat /\ owned[s] > 0
    BY DEF TypeOK
  <2>4. /\ heap'[t] = heap[t]
        /\ refs'[t] = IF t = s THEN refs[t] + 1 ELSE refs[t]
        /\ owned'[t] = IF t = s THEN owned[t] + 1 ELSE owned[t]
    BY DEF TypeOK
  <2>5. IF heap[t] = "live"
        THEN refs[t] = owned[t] + Cardinality(Holders(t)) /\ refs[t] > 0
        ELSE refs[t] = 0 /\ owned[t] = 0
    BY DEF RefsBalanced
  <2>6. heap[s] = "live"
    BY <2>3 DEF RefsBalanced
  <2> HIDE DEF IInv, RefStorage
  <2>7. CASE t = s
    BY <2>1, <2>2, <2>3, <2>4, <2>5, <2>6, <2>7
  <2>8. CASE t # s
    BY <2>1, <2>2, <2>3, <2>4, <2>5, <2>8
  <2> QED  BY <2>7, <2>8
<1>3. NoDanglingStorage' /\ ObjRefsBalanced'
  BY DEF NoDanglingStorage, ObjRefsBalanced, Suspended
<1>4. ReleaseFrames' /\ OneRelease' /\ FreedObjects'
  BY DEF ReleaseFrames, OneRelease, FreedObjects
<1>5. CallFrames'
  BY DEF CallFrames, TypeOK
<1> QED  BY <1>1, <1>2, <1>3, <1>4, <1>5

\* A storage about to lose its last reference to the client has no holder.
LEMMA UnrefStorageInv ==
  ASSUME IInv, NEW s \in Storages, UnrefStorage(s)
  PROVE  IInv'
<1> USE DEF IInv
<1>a. s # NULL /\ owned[s] > 0 /\ heap[s] = "live" /\ refs[s] > 0
  BY NullAssumption DEF TypeOK, RefsBalanced, UnrefStorage, Promised
<1>b. /\ \A t : Holders(t)' = Holders(t)
      /\ \A t \in Storages : Cardinality(Holders(t)) \in Nat
  BY HoldersAreOn, OnFinite DEF UnrefStorage, Holders
<1>c. \A i \in DOMAIN stack : stack[i].at = "replacing" /\ stack[i].new # NULL
        => owned'[stack[i].new] > 0
  BY DEF UnrefStorage, Promised, CallFrames, TypeOK
<1>1. CASE ~IsLast(s)
  <2>1. TypeOK' /\ UNCHANGED <<storage, heap, object, objRefs, objOwned, disposed, stack, reborn>>
    BY <1>1, <1>a DEF TypeOK, UnrefStorage, Unref, IsLast
  <2>2. RefsBalanced'
    BY <1>1, <1>a, <1>b, <2>1 DEF TypeOK, RefsBalanced, UnrefStorage, Unref, IsLast
  <2>3. NoDanglingStorage' /\ ObjRefsBalanced'
    BY <2>1 DEF NoDanglingStorage, ObjRefsBalanced, Suspended
  <2>4. ReleaseFrames' /\ OneRelease' /\ FreedObjects'
    BY <2>1 DEF ReleaseFrames, OneRelease, FreedObjects
  <2>5. CallFrames'
    BY <2>1, <1>c DEF CallFrames
  <2> QED  BY <2>1, <2>2, <2>3, <2>4, <2>5
<1>2. CASE IsLast(s)
  <2> DEFINE f == Frame("freeing", NULL, s, NULL)
  <2>f. f \in Frames /\ f.at = "freeing" /\ f.ctl = NULL /\ f.old = s /\ f.new = NULL
    BY DEF Frame, Frames, Places
  <2>1. /\ stack' = Append(stack, f)
        /\ heap' = [heap EXCEPT ![s] = "dying"]
        /\ refs' = [refs EXCEPT ![s] = @ - 1]
        /\ owned' = [owned EXCEPT ![s] = @ - 1]
        /\ UNCHANGED <<storage, object, objRefs, objOwned, disposed, reborn>>
    BY <1>2, <1>a DEF UnrefStorage, StartFreeing, Unref
  <2> HIDE DEF f
  <2>2. /\ stack' \in Seq(Frames)
        /\ DOMAIN stack = 1..Len(stack) /\ Len(stack) \in Nat
        /\ DOMAIN stack' = 1..(Len(stack) + 1)
        /\ \A i \in DOMAIN stack : stack'[i] = stack[i]
        /\ stack'[Len(stack) + 1] = f
    BY <2>1, <2>f, Pushed DEF TypeOK
  <2>3. owned[s] = 1 /\ Cardinality(On(storage, s)) = 0
    BY <1>2, <1>a, HoldersAreOn, OnFinite DEF IsLast, RefsBalanced, TypeOK
  <2>4. \A c \in Controllers : storage[c] # s
    BY <2>3, OnNone
  <2>5. TypeOK'
    BY <2>1, <2>2, <1>a DEF TypeOK
  <2>6. RefsBalanced'
    BY <2>1, <1>b, <2>3, <1>2 DEF TypeOK, RefsBalanced, IsLast
  <2>7. NoDanglingStorage'
    <3>1. \A c \in Controllers : Suspended(c, Releasing) => Suspended(c, Releasing)'
      BY <2>2 DEF Suspended
    <3>2. \A c \in Controllers : storage[c] # NULL => heap'[storage[c]] = heap[storage[c]]
      BY <2>1, <2>4 DEF TypeOK
    <3> QED  BY <2>1, <3>1, <3>2 DEF NoDanglingStorage
  <2>8. ObjRefsBalanced'
    <3>1. ASSUME NEW c \in Controllers
          PROVE  Cardinality(KeepingAlive(stack', c)) = Cardinality(KeepingAlive(stack, c))
      <4>1. stack \in Seq(Frames)
        BY DEF TypeOK
      <4> QED  BY <4>1, <2>1, <2>f, KeepingPushed, KeepingFinite
    <3>2. \A c \in Controllers : Suspended(c, Places)' => Suspended(c, Places)
      BY <2>2, <2>f, NullAssumption DEF Suspended
    <3> QED  BY <2>1, <3>1, <3>2 DEF ObjRefsBalanced
  <2>9. ReleaseFrames'
    BY <2>1, <2>2, <2>f, <2>4, <1>a DEF ReleaseFrames, TypeOK
  <2>10. CallFrames'
    BY <2>1, <2>2, <2>f, <1>c DEF CallFrames, TypeOK
  <2>11. OneRelease'
    <3>1. \A i \in DOMAIN stack : stack[i].at # "notifying" => stack[i].old # s
      BY <1>a DEF ReleaseFrames
    <3> QED  BY <3>1, <2>2, <2>f DEF OneRelease
  <2>12. FreedObjects'
    BY <2>1 DEF FreedObjects
  <2> QED  BY <2>5, <2>6, <2>7, <2>8, <2>9, <2>10, <2>11, <2>12
<1> QED  BY <1>1, <1>2

LEMMA RefControllerInv ==
  ASSUME IInv, NEW c \in Controllers, RefController(c)
  PROVE  IInv'
<1> USE DEF IInv, RefController
<1>1. TypeOK'
  BY DEF TypeOK
<1>2. RefsBalanced' /\ NoDanglingStorage'
  BY DEF RefsBalanced, NoDanglingStorage, Holders, Suspended
<1>3. ObjRefsBalanced'
  <2>1. ASSUME NEW d \in Controllers
        PROVE  /\ objRefs'[d] = objOwned'[d] + Cardinality(KeepingAlive(stack', d))
               /\ object'[d] = "live" <=> objRefs'[d] > 0
    <3>1. stack' = stack /\ Cardinality(KeepingAlive(stack, d)) \in Nat
      BY KeepingFinite DEF TypeOK
    <3> QED  BY <3>1 DEF ObjRefsBalanced, TypeOK
  <2>2. \A d \in Controllers : Suspended(d, Places)' => object'[d] # "none"
    BY DEF ObjRefsBalanced, Suspended
  <2> QED  BY <2>1, <2>2 DEF ObjRefsBalanced
<1>4. ReleaseFrames' /\ OneRelease' /\ FreedObjects'
  BY DEF ReleaseFrames, OneRelease, FreedObjects
<1>5. CallFrames'
  BY DEF CallFrames, TypeOK
<1> QED  BY <1>1, <1>2, <1>3, <1>4, <1>5

LEMMA GetPropertyInv ==
  ASSUME IInv, ~FreeFuncsReenter, NEW c \in Controllers, GetProperty(c)
  PROVE  IInv'
<1> USE DEF IInv, GetProperty
<1>1. storage[c] \in Storages /\ heap[storage[c]] = "live"
  BY DEF NoDanglingStorage, MayCall, TypeOK, RefsBalanced
<1>2. TypeOK'
  BY <1>1 DEF TypeOK, Ref
<1>3. RefsBalanced'
  <2>1. \A t : Holders(t)' = Holders(t)
    BY DEF Holders
  <2>2. \A t \in Storages : Cardinality(Holders(t)) \in Nat
    BY HoldersAreOn, OnFinite
  <2> QED  BY <1>1, <2>1, <2>2 DEF TypeOK, RefsBalanced, Ref
<1>4. NoDanglingStorage' /\ ObjRefsBalanced'
  BY DEF NoDanglingStorage, ObjRefsBalanced, Suspended
<1>5. ReleaseFrames' /\ OneRelease' /\ FreedObjects'
  BY DEF ReleaseFrames, OneRelease, FreedObjects
<1>6. CallFrames'
  BY <1>1 DEF CallFrames, TypeOK
<1> QED  BY <1>2, <1>3, <1>4, <1>5, <1>6

LEMMA NewControllerInv ==
  ASSUME IInv, NEW c \in Controllers, NEW s \in StoragesOf(c) \cup {NULL},
         NewController(c, s)
  PROVE  IInv'
<1> USE DEF IInv, NewController
<1>1. s \in Storages \cup {NULL}
  BY DEF StoragesOf, Storages
<1>2. s # NULL => heap[s] = "live"
  BY <1>1 DEF RefsBalanced, TypeOK, HeldElsewhere
<1>3. /\ storage[c] = NULL /\ objOwned[c] = 0
      /\ Cardinality(KeepingAlive(stack, c)) = 0
      /\ \A i \in DOMAIN stack : stack[i].ctl # c
  <2>1. storage[c] = NULL /\ ~Suspended(c, Places) /\ objRefs[c] = 0
    BY DEF FreedObjects, ObjRefsBalanced, TypeOK
  <2>2. \A i \in DOMAIN stack : stack[i].at \in Places
    BY FramesTyped DEF Frames
  <2>3. Cardinality(KeepingAlive(stack, c)) \in Nat
    BY KeepingFinite DEF TypeOK
  <2> QED  BY <2>1, <2>2, <2>3 DEF Suspended, ObjRefsBalanced, TypeOK
<1>4. TypeOK'
  BY <1>1 DEF TypeOK, Ref
<1>5. FreedObjects'
  BY DEF FreedObjects, TypeOK
<1>6. RefsBalanced'
  <2>1. /\ storage \in [Controllers -> Storages \cup {NULL}]
        /\ storage' = Written(storage, c, s)
    BY DEF TypeOK, Written
  <2>2. \A t \in Storages : Holders(t) = On(storage, t) /\ Holders(t)' = On(storage', t)
    BY <1>5, NullAssumption DEF FreedObjects, Holders, On
  <2>3. ASSUME NEW t \in Storages
        PROVE  /\ Cardinality(Holders(t)) \in Nat
               /\ Cardinality(Holders(t)') =
                    Cardinality(Holders(t)) + (IF s = t THEN 1 ELSE 0)
    <3> HIDE DEF NewController, IInv
    <3>1. storage[c] # t
      BY <1>3, NullAssumption
    <3>2. Cardinality(On(storage, t)) \in Nat
      BY OnFinite
    <3>3. Cardinality(On(Written(storage, c, s), t)) =
            Cardinality(On(storage, t)) + (IF s = t THEN 1 ELSE 0)
      BY <2>1, <3>1, <3>2, OnWritten
    <3> QED  BY <2>1, <2>2, <3>2, <3>3
  <2>4. \A t \in Storages : refs'[t] = refs[t] + (IF s = t THEN 1 ELSE 0)
    BY <1>1, NullAssumption DEF TypeOK, Ref
  <2>5. ASSUME NEW t \in Storages
        PROVE  IF heap'[t] = "live"
               THEN refs'[t] = owned'[t] + Cardinality(Holders(t)') /\ refs'[t] > 0
               ELSE refs'[t] = 0 /\ owned'[t] = 0
    <3>1. heap'[t] = heap[t] /\ owned'[t] = owned[t]
      OBVIOUS
    <3>2. /\ refs[t] \in Int /\ owned[t] \in Nat
          /\ s = t => heap[t] = "live"
      BY <1>2, NullAssumption DEF TypeOK
    <3>3. IF heap[t] = "live"
          THEN refs[t] = owned[t] + Cardinality(Holders(t)) /\ refs[t] > 0
          ELSE refs[t] = 0 /\ owned[t] = 0
      BY DEF RefsBalanced
    <3> HIDE DEF IInv, NewController
    <3> QED  BY <2>3, <2>4, <3>1, <3>2, <3>3
  <2> QED  BY <2>5 DEF RefsBalanced
<1>7. NoDanglingStorage'
  BY <1>2 DEF NoDanglingStorage, Suspended, TypeOK
<1>8. ObjRefsBalanced'
  <2>1. \A d \in Controllers : Suspended(d, Places)' <=> Suspended(d, Places)
    BY DEF Suspended
  <2>2. ASSUME NEW d \in Controllers
        PROVE  /\ objRefs'[d] = objOwned'[d] + Cardinality(KeepingAlive(stack', d))
               /\ object'[d] = "live" <=> objRefs'[d] > 0
    BY <1>3 DEF ObjRefsBalanced, TypeOK
  <2>3. \A d \in Controllers : Suspended(d, Places)' => object'[d] # "none"
    BY <2>1 DEF ObjRefsBalanced, TypeOK
  <2> QED  BY <2>2, <2>3 DEF ObjRefsBalanced
<1>9. ReleaseFrames'
  <2>1. \A i \in DOMAIN stack : stack[i].at # "notifying" => stack[i].old # s
    BY <1>2, NullAssumption DEF ReleaseFrames
  <2> QED  BY <1>3, <2>1 DEF ReleaseFrames, CallFrames, TypeOK
<1>10. CallFrames'
  BY <1>3 DEF CallFrames, TypeOK
<1>11. OneRelease'
  BY DEF OneRelease
<1> QED  BY <1>4, <1>5, <1>6, <1>7, <1>8, <1>9, <1>10, <1>11

-----------------------------------------------------------------------------
(* What releasing and installing a storage do to the part of the invariant   *)
(* that is about storages.  The calls suspended before and after are related *)
(* only by the frames that release something: a frame of "notify" may come   *)
(* and go.                                                                   *)

StorageInv ==
  RefsBalanced /\ NoDanglingStorage /\ ReleaseFrames /\ OneRelease

\* Frame i of the stack is also frame i of the next stack.
Stays(i) == i \in DOMAIN stack /\ i \in DOMAIN stack' /\ stack'[i] = stack[i]

\* A field changes from a storage that has other references, or from NULL, to
\* a live storage or NULL: the counts follow.
LEMMA Exchanged ==
  ASSUME IInv, TypeOK', FreedObjects', NEW c \in Controllers, NEW x \in Storages \cup {NULL},
         ~Suspended(c, Releasing), ~IsLast(storage[c]),
         x # NULL => heap[x] = "live",
         x = NULL \/ storage[c] # x,
         storage' = [storage EXCEPT ![c] = x],
         refs' = Ref(Unref(refs, storage[c]), x),
         UNCHANGED <<heap, owned>>,
         \A i \in DOMAIN stack : stack[i].at = "notifying" \/ Stays(i),
         \A i \in DOMAIN stack' : stack'[i].at = "notifying" \/ Stays(i)
  PROVE  StorageInv'
<1> DEFINE o == storage[c]
<1>1. /\ storage \in [Controllers -> Storages \cup {NULL}] /\ o \in Storages \cup {NULL}
      /\ refs \in [Storages -> Int] /\ owned \in [Storages -> Nat]
      /\ storage' = Written(storage, c, x)
  BY DEF IInv, TypeOK, Written
<1>2. o # NULL => heap[o] = "live" /\ refs[o] > 1
  <2>1. o # NULL => heap[o] = "live"
    BY DEF IInv, NoDanglingStorage
  <2> QED  BY <2>1, <1>1 DEF IInv, RefsBalanced, IsLast
<1>3. \A s \in Storages : refs'[s] = refs[s] + (IF x = s THEN 1 ELSE 0)
                                             - (IF o = s THEN 1 ELSE 0)
  BY <1>1, NullAssumption DEF Ref, Unref
<1>4. RefsBalanced'
  <2>1. \A s \in Storages : Holders(s) = On(storage, s) /\ Holders(s)' = On(storage', s)
    BY NullAssumption DEF IInv, FreedObjects, Holders, On
  <2>2. ASSUME NEW s \in Storages
        PROVE  IF heap'[s] = "live"
               THEN refs'[s] = owned'[s] + Cardinality(Holders(s)') /\ refs'[s] > 0
               ELSE refs'[s] = 0 /\ owned'[s] = 0
    <3>1. /\ Cardinality(On(storage, s)) \in Nat
          /\ Cardinality(On(Written(storage, c, x), s)) =
               Cardinality(On(storage, s)) + (IF x = s THEN 1 ELSE 0)
                                           - (IF o = s THEN 1 ELSE 0)
      BY <1>1, OnFinite, OnWritten
    <3>2. IF heap[s] = "live"
          THEN refs[s] = owned[s] + Cardinality(On(storage, s)) /\ refs[s] > 0
          ELSE refs[s] = 0 /\ owned[s] = 0
      BY <2>1 DEF IInv, RefsBalanced
    <3>3. heap'[s] = heap[s] /\ owned'[s] = owned[s] /\ refs[s] \in Int /\ owned[s] \in Nat
      BY <1>1
    <3>4. (x = s => heap[s] = "live") /\ (o = s => heap[s] = "live" /\ refs[s] > 1)
      BY <1>2, NullAssumption
    <3> HIDE DEF o
    <3>5. refs'[s] = refs[s] + (IF x = s THEN 1 ELSE 0) - (IF o = s THEN 1 ELSE 0)
      BY <1>3
    <3>6. Holders(s)' = On(Written(storage, c, x), s)
      BY <1>1, <2>1
    <3> QED  BY <3>1, <3>2, <3>3, <3>4, <3>5, <3>6
  <2> QED  BY <2>2 DEF RefsBalanced
<1>5. \A i \in DOMAIN stack : stack[i].at \in Releasing => stack[i].ctl # c
  BY DEF Suspended
<1>6. NoDanglingStorage'
  <2>1. \A d \in Controllers : Suspended(d, Releasing) => Suspended(d, Releasing)'
    BY DEF Suspended, Stays, Releasing
  <2> QED  BY <1>1, <2>1 DEF IInv, NoDanglingStorage, Written
<1>7. ReleaseFrames'
  <2>1. \A i \in DOMAIN stack : stack[i].at # "notifying" => stack[i].old # x
    BY NullAssumption DEF IInv, ReleaseFrames
  <2>2. \A i \in DOMAIN stack : stack[i].at \in Places
    BY FramesTyped DEF IInv, Frames
  <2> QED  BY <1>1, <1>5, <2>1, <2>2 DEF IInv, ReleaseFrames, Stays, Written, Places
<1>8. OneRelease'
  BY DEF IInv, OneRelease, Stays
<1> QED  BY <1>4, <1>6, <1>7, <1>8 DEF StorageInv

\* The last reference on the storage of c goes: c was its only holder, and the
\* new frame accounts for it.
LEMMA ReleaseStarted ==
  ASSUME IInv, TypeOK', FreedObjects', NEW c \in Controllers,
         ~Suspended(c, Releasing), IsLast(storage[c]),
         heap' = [heap EXCEPT ![storage[c]] = "dying"],
         refs' = [refs EXCEPT ![storage[c]] = @ - 1],
         UNCHANGED <<storage, owned>>,
         NEW n \in DOMAIN stack',
         stack'[n].at \in Releasing, stack'[n].ctl = c, stack'[n].old = storage[c],
         \A i \in DOMAIN stack : stack[i].at = "notifying" \/ Stays(i),
         \A i \in DOMAIN stack' : stack'[i].at = "notifying" \/ Stays(i) \/ i = n
  PROVE  StorageInv'
<1> DEFINE o == storage[c]
<1>1. /\ o \in Storages /\ heap[o] = "live" /\ refs[o] = 1
      /\ owned \in [Storages -> Nat] /\ refs \in [Storages -> Int]
      /\ heap \in [Storages -> {"none", "live", "dying"}]
  BY DEF IInv, TypeOK, IsLast, RefsBalanced
<1>2. /\ \A s \in Storages : Holders(s) = On(storage, s)
      /\ \A s \in Storages : Holders(s)' = On(storage, s)
  BY NullAssumption DEF IInv, FreedObjects, Holders, On
<1>3. owned[o] = 0 /\ On(storage, o) = {c}
  <2>1. c \in On(storage, o) /\ IsFiniteSet(On(storage, o))
    BY OnFinite DEF On
  <2>2. Cardinality(On(storage, o) \ {c}) = Cardinality(On(storage, o)) - 1
    BY <2>1, FS_RemoveElement
  <2>3. /\ Cardinality(On(storage, o)) \in Nat
        /\ IsFiniteSet(On(storage, o) \ {c}) /\ Cardinality(On(storage, o) \ {c}) \in Nat
    BY <2>1, FS_RemoveElement, FS_CardinalityType
  <2>4. refs[o] = owned[o] + Cardinality(On(storage, o)) /\ owned[o] \in Nat
    BY <1>1, <1>2 DEF IInv, RefsBalanced
  <2>5. owned[o] = 0 /\ Cardinality(On(storage, o) \ {c}) = 0
    BY <1>1, <2>2, <2>3, <2>4
  <2>6. On(storage, o) \ {c} = {}
    BY <2>3, <2>5, FS_EmptySet
  <2> QED  BY <2>1, <2>5, <2>6
<1>4. RefsBalanced'
  BY <1>1, <1>2, <1>3 DEF IInv, RefsBalanced
<1>5. NoDanglingStorage'
  <2>1. Suspended(c, Releasing)'
    BY DEF Suspended
  <2>2. \A d \in Controllers : Suspended(d, Releasing) => Suspended(d, Releasing)'
    BY DEF Suspended, Stays, Releasing
  <2>3. \A d \in Controllers \ {c} : storage[d] # o
    BY <1>3 DEF On
  <2> QED  BY <1>1, <2>1, <2>2, <2>3 DEF IInv, NoDanglingStorage, TypeOK
<1>6. \A i \in DOMAIN stack : stack[i].at # "notifying" => stack[i].old # o
  BY <1>1 DEF IInv, ReleaseFrames
<1>7. ReleaseFrames'
  BY <1>1, <1>6 DEF IInv, ReleaseFrames, Stays, Releasing
<1>8. OneRelease'
  BY <1>6 DEF IInv, OneRelease, Stays
<1> QED  BY <1>4, <1>5, <1>7, <1>8 DEF StorageInv

\* The free functions of a call on c returned: the storage is freed, and the
\* field of c is NULL or a live storage the client kept.
LEMMA ReleaseEnded ==
  ASSUME IInv, TypeOK', FreedObjects', NEW c \in Controllers, NEW x \in Storages \cup {NULL},
         stack # <<>>, Top.at \in Releasing, Top.ctl = c,
         x # NULL => owned[x] > 0,
         heap' = [heap EXCEPT ![Top.old] = "none"],
         refs' = Ref([refs EXCEPT ![Top.old] = 0], x),
         storage' = [storage EXCEPT ![c] = x],
         UNCHANGED owned,
         \A i \in DOMAIN stack \ {Len(stack)} : stack[i].at = "notifying" \/ Stays(i),
         \A i \in DOMAIN stack' :
           stack'[i].at = "notifying" \/ (Stays(i) /\ i # Len(stack))
  PROVE  StorageInv'
<1> DEFINE o == Top.old
<1>0. Len(stack) \in DOMAIN stack /\ \A i \in DOMAIN stack : stack[i] \in Frames
  BY FramesTyped, Popped DEF IInv, TypeOK
<1>1. o \in Storages /\ heap[o] = "dying" /\ storage[c] = o
  BY <1>0 DEF IInv, ReleaseFrames, Releasing, Top
<1>2. /\ storage \in [Controllers -> Storages \cup {NULL}]
      /\ refs \in [Storages -> Int] /\ owned \in [Storages -> Nat]
      /\ heap \in [Storages -> {"none", "live", "dying"}]
      /\ storage' = Written(storage, c, x)
  BY DEF IInv, TypeOK, Written
<1>3. refs[o] = 0 /\ owned[o] = 0 /\ (x # NULL => heap[x] = "live")
  BY <1>1, <1>2 DEF IInv, RefsBalanced
<1>4. \A s \in Storages : refs'[s] = refs[s] + (IF x = s THEN 1 ELSE 0)
  BY <1>1, <1>2, <1>3, NullAssumption DEF Ref
<1>5. RefsBalanced'
  <2>1. \A s \in Storages : Holders(s) = On(storage, s) /\ Holders(s)' = On(storage', s)
    BY NullAssumption DEF IInv, FreedObjects, Holders, On
  <2>2. ASSUME NEW s \in Storages
        PROVE  IF heap'[s] = "live"
               THEN refs'[s] = owned'[s] + Cardinality(Holders(s)') /\ refs'[s] > 0
               ELSE refs'[s] = 0 /\ owned'[s] = 0
    <3>1. /\ Cardinality(On(storage, s)) \in Nat
          /\ Cardinality(On(Written(storage, c, x), s)) =
               Cardinality(On(storage, s)) + (IF x = s THEN 1 ELSE 0)
                                           - (IF o = s THEN 1 ELSE 0)
      BY <1>1, <1>2, OnFinite, OnWritten
    <3>2. IF heap[s] = "live"
          THEN refs[s] = owned[s] + Cardinality(On(storage, s)) /\ refs[s] > 0
          ELSE refs[s] = 0 /\ owned[s] = 0
      BY <2>1 DEF IInv, RefsBalanced
    <3>3. /\ heap'[s] = (IF s = o THEN "none" ELSE heap[s])
          /\ owned'[s] = owned[s] /\ refs[s] \in Int /\ owned[s] \in Nat
      BY <1>1, <1>2
    <3>4. x = s => heap[s] = "live"
      BY <1>3, NullAssumption
    <3>5. refs'[s] = refs[s] + (IF x = s THEN 1 ELSE 0)
      BY <1>4
    <3>6. Holders(s)' = On(Written(storage, c, x), s)
      BY <1>2, <2>1
    <3>7. heap[o] = "dying"
      BY <1>1
    <3> HIDE DEF o
    <3>8. CASE s = o
      <4>1. heap'[s] = "none" /\ x # s /\ refs[s] = 0 /\ owned[s] = 0
        BY <3>2, <3>3, <3>4, <3>7, <3>8
      <4>2. refs'[s] = 0 /\ owned'[s] = 0
        BY <3>3, <3>5, <4>1
      <4> QED  BY <4>1, <4>2
    <3>9. CASE s # o
      BY <3>1, <3>2, <3>3, <3>4, <3>5, <3>6, <3>9
    <3> QED  BY <3>8, <3>9
  <2> QED  BY <2>2 DEF RefsBalanced
<1>6. \A i \in DOMAIN stack \ {Len(stack)} : stack[i].at # "notifying" => stack[i].old # o
  BY <1>0 DEF IInv, OneRelease, Releasing, Top
<1>7. \A i \in DOMAIN stack \ {Len(stack)} : stack[i].at \in Releasing => stack[i].ctl # c
  BY <1>1, <1>6 DEF IInv, ReleaseFrames, Releasing
<1>8. NoDanglingStorage'
  <2>1. ASSUME NEW d \in Controllers \ {c}, Suspended(d, Releasing)
        PROVE  Suspended(d, Releasing)'
    BY <2>1 DEF Suspended, Stays, Releasing, Top
  <2>2. \A d \in Controllers \ {c} : storage[d] # o
    <3> SUFFICES ASSUME NEW d \in Controllers \ {c}, storage[d] = o PROVE FALSE
      OBVIOUS
    <3>1. PICK i \in DOMAIN stack : stack[i].at \in Releasing /\ stack[i].ctl = d
      BY <1>1, NullAssumption DEF IInv, NoDanglingStorage, Suspended
    <3>2. stack[i].old = o
      BY <3>1 DEF IInv, ReleaseFrames, Releasing
    <3> QED  BY <1>6, <3>1, <3>2 DEF Releasing, Top
  <2> QED  BY <1>2, <1>3, <2>1, <2>2 DEF IInv, NoDanglingStorage, Written
<1>9. ReleaseFrames'
  <2>1. \A i \in DOMAIN stack : stack[i].at # "notifying" => stack[i].old # x
    BY <1>3, NullAssumption DEF IInv, ReleaseFrames
  <2>2. \A i \in DOMAIN stack : stack[i].at \in Places
    BY <1>0 DEF Frames
  <2> QED  BY <1>2, <1>6, <1>7, <2>1, <2>2 DEF IInv, ReleaseFrames, Stays, Written, Places
<1>10. OneRelease'
  BY DEF IInv, OneRelease, Stays
<1> QED  BY <1>5, <1>8, <1>9, <1>10 DEF StorageInv

-----------------------------------------------------------------------------
(* The three ways the stack changes, and what they do to the references the  *)
(* suspended calls hold.                                                     *)

\* What frame f counts for c.
Counts(f, c) == IF f.at \in {"notifying", "dropping"} /\ f.ctl = c THEN 1 ELSE 0

LEMMA StackPushed ==
  ASSUME TypeOK, NEW f \in Frames, stack' = Append(stack, f)
  PROVE  /\ stack' \in Seq(Frames)
         /\ Len(stack) + 1 \notin DOMAIN stack
         /\ DOMAIN stack' = DOMAIN stack \cup {Len(stack) + 1}
         /\ stack'[Len(stack) + 1] = f
         /\ \A i \in DOMAIN stack : Stays(i)
         /\ \A d \in Controllers :
              Cardinality(KeepingAlive(stack', d)) =
                Cardinality(KeepingAlive(stack, d)) + Counts(f, d)
<1>1. stack \in Seq(Frames)
  BY DEF TypeOK
<1>2. ASSUME NEW d \in Controllers
      PROVE  Cardinality(KeepingAlive(stack', d)) =
               Cardinality(KeepingAlive(stack, d)) + Counts(f, d)
  BY <1>1, KeepingPushed DEF Counts
<1> QED  BY <1>1, <1>2, Pushed DEF Stays

LEMMA StackPopped ==
  ASSUME TypeOK, stack # <<>>, stack' = Callers
  PROVE  /\ stack' \in Seq(Frames)
         /\ Len(stack) \in DOMAIN stack
         /\ DOMAIN stack' = DOMAIN stack \ {Len(stack)}
         /\ \A i \in DOMAIN stack \ {Len(stack)} : Stays(i)
         /\ \A d \in Controllers :
              Cardinality(KeepingAlive(stack', d)) =
                Cardinality(KeepingAlive(stack, d)) - Counts(Top, d)
<1>1. stack \in Seq(Frames)
  BY DEF TypeOK
<1>2. ASSUME NEW d \in Controllers
      PROVE  Cardinality(KeepingAlive(stack', d)) =
               Cardinality(KeepingAlive(stack, d)) - Counts(Top, d)
  BY <1>1, KeepingPopped DEF Counts, Callers, Top
<1> QED  BY <1>1, <1>2, Popped DEF Stays, Callers

LEMMA StackReplaced ==
  ASSUME TypeOK, stack # <<>>, NEW f \in Frames, stack' = Append(Callers, f)
  PROVE  /\ stack' \in Seq(Frames)
         /\ Len(stack) \in DOMAIN stack
         /\ DOMAIN stack' = DOMAIN stack
         /\ stack'[Len(stack)] = f
         /\ \A i \in DOMAIN stack \ {Len(stack)} : Stays(i)
         /\ \A d \in Controllers :
              Cardinality(KeepingAlive(stack', d)) =
                Cardinality(KeepingAlive(stack, d)) - Counts(Top, d) + Counts(f, d)
<1>1. stack \in Seq(Frames)
  BY DEF TypeOK
<1>2. /\ Callers \in Seq(Frames) /\ Len(stack) \in Nat \ {0}
      /\ Len(Callers) = Len(stack) - 1 /\ DOMAIN stack = 1..Len(stack)
      /\ \A i \in 1..(Len(stack) - 1) : Callers[i] = stack[i]
  BY <1>1, Popped DEF Callers
<1>3. ASSUME NEW d \in Controllers
      PROVE  Cardinality(KeepingAlive(stack', d)) =
               Cardinality(KeepingAlive(stack, d)) - Counts(Top, d) + Counts(f, d)
  <2>1. Cardinality(KeepingAlive(stack', d)) =
          Cardinality(KeepingAlive(Callers, d)) + Counts(f, d)
    BY <1>2, KeepingPushed DEF Counts
  <2>2. Cardinality(KeepingAlive(Callers, d)) =
          Cardinality(KeepingAlive(stack, d)) - Counts(Top, d)
    BY <1>1, KeepingPopped DEF Counts, Callers, Top
  <2> QED  BY <2>1, <2>2
<1> QED
  BY <1>2, <1>3, Pushed DEF Stays

LEMMA FrameFields ==
  ASSUME NEW at \in Places, NEW c \in Controllers \cup {NULL},
         NEW old \in Storages \cup {NULL}, NEW new \in Storages \cup {NULL}
  PROVE  /\ Frame(at, c, old, new) \in Frames
         /\ Frame(at, c, old, new).at = at
         /\ Frame(at, c, old, new).ctl = c
         /\ Frame(at, c, old, new).old = old
         /\ Frame(at, c, old, new).new = new
BY DEF Frame, Frames

\* A controller the client owns, or a suspended call keeps alive, is alive.
LEMMA OwnedIsLive ==
  ASSUME IInv, NEW c \in Controllers
  PROVE  /\ Cardinality(KeepingAlive(stack, c)) \in Nat
         /\ objRefs[c] = objOwned[c] + Cardinality(KeepingAlive(stack, c))
         /\ objRefs[c] \in Nat /\ objOwned[c] \in Nat
         /\ objOwned[c] > 0 => object[c] = "live"
         /\ object[c] = "live" <=> objRefs[c] > 0
<1>1. Cardinality(KeepingAlive(stack, c)) \in Nat
  BY KeepingFinite DEF IInv, TypeOK
<1>2. objRefs[c] \in Nat /\ objOwned[c] \in Nat
  BY DEF IInv, TypeOK
<1> QED  BY <1>1, <1>2 DEF IInv, ObjRefsBalanced

\* Putting the parts of the invariant together.
LEMMA Together ==
  ASSUME TypeOK', StorageInv', ObjRefsBalanced', CallFrames', FreedObjects'
  PROVE  IInv'
BY DEF IInv, StorageInv

-----------------------------------------------------------------------------
(* The actions on controllers.                                             *)

\* A setter that need not wait for free functions.
LEMMA SetAtOnceInv ==
  ASSUME IInv, ~FreeFuncsReenter, NEW c \in Controllers, NEW s \in Storages \cup {NULL},
         SetStorage(c, s), ~IsLast(storage[c])
  PROVE  IInv'
<1> DEFINE f == Frame("notifying", c, NULL, NULL)
<1>f. f \in Frames /\ f.at = "notifying" /\ f.ctl = c
  BY FrameFields DEF Places
<1> HIDE DEF f
<1>1. /\ objOwned[c] > 0 /\ ~Suspended(c, Releasing)
      /\ s # NULL => heap[s] = "live"
      /\ storage[c] # s
      /\ storage' = [storage EXCEPT ![c] = s]
      /\ refs' = Ref(Unref(refs, storage[c]), s)
      /\ disposed' = [disposed EXCEPT ![c] = @ /\ s = NULL]
      /\ objRefs' = [objRefs EXCEPT ![c] = @ + 1]
      /\ stack' = Append(stack, f)
      /\ UNCHANGED <<heap, owned, object, objOwned, reborn>>
  <2>1. s # NULL => heap[s] = "live"
    BY DEF SetStorage, MayPass, HeldElsewhere, IInv, RefsBalanced, TypeOK
  <2> QED  BY <2>1 DEF SetStorage, MayCall, Install, Notify, f
<1>2. TypeOK
  BY DEF IInv
<1>3. /\ stack' \in Seq(Frames)
      /\ Len(stack) + 1 \notin DOMAIN stack
      /\ DOMAIN stack' = DOMAIN stack \cup {Len(stack) + 1}
      /\ stack'[Len(stack) + 1] = f
      /\ \A i \in DOMAIN stack : Stays(i)
      /\ \A d \in Controllers :
           Cardinality(KeepingAlive(stack', d)) =
             Cardinality(KeepingAlive(stack, d)) + Counts(f, d)
  BY <1>1, <1>2, <1>f, StackPushed
<1>4. object[c] = "live"
  BY <1>1, OwnedIsLive
<1>5. TypeOK'
  BY <1>1, <1>2, <1>3 DEF TypeOK, Ref, Unref
<1>6. FreedObjects'
  BY <1>1, <1>2, <1>4 DEF IInv, FreedObjects, TypeOK
<1>7. StorageInv'
  <2>1. \A i \in DOMAIN stack' : stack'[i].at = "notifying" \/ Stays(i)
    BY <1>3, <1>f
  <2> QED  BY <1>1, <1>3, <1>5, <1>6, <2>1, Exchanged
<1>8. ObjRefsBalanced'
  <2>1. ASSUME NEW d \in Controllers
        PROVE  /\ objRefs'[d] = objOwned'[d] + Cardinality(KeepingAlive(stack', d))
               /\ object'[d] = "live" <=> objRefs'[d] > 0
    <3>1. Cardinality(KeepingAlive(stack', d)) =
            Cardinality(KeepingAlive(stack, d)) + (IF d = c THEN 1 ELSE 0)
      BY <1>3, <1>f DEF Counts
    <3>2. objRefs'[d] = objRefs[d] + (IF d = c THEN 1 ELSE 0)
      BY <1>1, <1>2 DEF TypeOK
    <3> QED  BY <1>1, <1>4, <3>1, <3>2, OwnedIsLive
  <2>2. \A d \in Controllers : Suspended(d, Places)' => object'[d] # "none"
    BY <1>1, <1>3, <1>4, <1>f DEF IInv, ObjRefsBalanced, Suspended, Stays
  <2> QED  BY <2>1, <2>2 DEF ObjRefsBalanced
<1>9. CallFrames'
  BY <1>1, <1>3, <1>f DEF IInv, CallFrames, Stays
<1> QED  BY <1>5, <1>6, <1>7, <1>8, <1>9, Together

\* A setter suspended while the old storage is freed.
LEMMA SetSuspendedInv ==
  ASSUME IInv, ~FreeFuncsReenter, NEW c \in Controllers, NEW s \in Storages \cup {NULL},
         SetStorage(c, s), IsLast(storage[c])
  PROVE  IInv'
<1> DEFINE f == Frame("replacing", c, storage[c], s)
<1>a. storage[c] \in Storages
  BY DEF IInv, TypeOK, IsLast
<1>f. /\ f \in Frames /\ f.at = "replacing" /\ f.ctl = c
      /\ f.old = storage[c] /\ f.new = s
  BY <1>a, FrameFields DEF Places, Releasing
<1> HIDE DEF f
<1>1. /\ objOwned[c] > 0 /\ ~Suspended(c, Releasing)
      /\ s # NULL => owned[s] > 0
      /\ heap' = [heap EXCEPT ![storage[c]] = "dying"]
      /\ refs' = [refs EXCEPT ![storage[c]] = @ - 1]
      /\ stack' = Append(stack, f)
      /\ UNCHANGED <<storage, owned, object, objRefs, objOwned, disposed, reborn>>
  BY <1>a, NullAssumption DEF SetStorage, MayCall, MayPass, StartFreeing, Unref, f
<1>2. TypeOK
  BY DEF IInv
<1>3. /\ stack' \in Seq(Frames)
      /\ Len(stack) + 1 \notin DOMAIN stack
      /\ DOMAIN stack' = DOMAIN stack \cup {Len(stack) + 1}
      /\ stack'[Len(stack) + 1] = f
      /\ \A i \in DOMAIN stack : Stays(i)
      /\ \A d \in Controllers :
           Cardinality(KeepingAlive(stack', d)) =
             Cardinality(KeepingAlive(stack, d)) + Counts(f, d)
  BY <1>1, <1>2, <1>f, StackPushed
<1>4. object[c] = "live"
  BY <1>1, OwnedIsLive
<1>5. TypeOK'
  BY <1>1, <1>2, <1>3, <1>a DEF TypeOK
<1>6. FreedObjects'
  BY <1>1 DEF IInv, FreedObjects
<1>7. StorageInv'
  <2>1. \A i \in DOMAIN stack' : stack'[i].at = "notifying" \/ Stays(i) \/ i = Len(stack) + 1
    BY <1>3
  <2>2. Len(stack) + 1 \in DOMAIN stack' /\ f.at \in Releasing
    BY <1>3, <1>f DEF Releasing
  <2> QED  BY <1>1, <1>3, <1>5, <1>6, <1>f, <2>1, <2>2, ReleaseStarted
<1>8. ObjRefsBalanced'
  <2>1. ASSUME NEW d \in Controllers
        PROVE  /\ objRefs'[d] = objOwned'[d] + Cardinality(KeepingAlive(stack', d))
               /\ object'[d] = "live" <=> objRefs'[d] > 0
    BY <1>1, <1>3, <1>f, OwnedIsLive DEF Counts
  <2>2. \A d \in Controllers : Suspended(d, Places)' => object'[d] # "none"
    BY <1>1, <1>3, <1>4, <1>f DEF IInv, ObjRefsBalanced, Suspended, Stays
  <2> QED  BY <2>1, <2>2 DEF ObjRefsBalanced
<1>9. CallFrames'
  BY <1>1, <1>3, <1>f DEF IInv, CallFrames, Stays
<1> QED  BY <1>5, <1>6, <1>7, <1>8, <1>9, Together

\* g_object_unref, called by the client or at the end of an emission of
\* "notify" (whose frame is then no longer among the callers).
LEMMA ObjUnrefInv ==
  ASSUME IInv, NEW c \in Controllers, NEW callers \in Seq(Frames),
         ObjUnref(c, callers),
         UNCHANGED <<owned, reborn>>, objOwned' \in [Controllers -> Nat],
         objRefs[c] > 0,
         \A i \in DOMAIN callers : i \in DOMAIN stack /\ callers[i] = stack[i],
         \A i \in DOMAIN stack \ DOMAIN callers : stack[i].at = "notifying",
         \A d \in Controllers :
           objRefs[d] = objOwned'[d] + Cardinality(KeepingAlive(callers, d))
                        + (IF d = c THEN 1 ELSE 0),
         \A i \in DOMAIN callers :
           callers[i].at = "replacing" => objOwned'[callers[i].ctl] > 0
  PROVE  IInv'
<1>1. TypeOK
  BY DEF IInv
<1>2. object[c] = "live" /\ \A d \in Controllers : objRefs[d] \in Nat /\ objOwned'[d] \in Nat
  BY OwnedIsLive
<1>3. \A d \in Controllers : Cardinality(KeepingAlive(callers, d)) \in Nat
  BY KeepingFinite
<1>4. \A i \in DOMAIN callers : callers[i] \in Frames /\ callers[i].at \in Places
  <2>1. \A i \in DOMAIN callers : callers[i] \in Frames
    OBVIOUS
  <2> QED  BY <2>1 DEF Frames
\* On the last reference, no suspended call is about c.
<1>5. ASSUME objRefs[c] = 1
      PROVE  objOwned'[c] = 0 /\ Cardinality(KeepingAlive(callers, c)) = 0
             /\ \A i \in DOMAIN callers : callers[i].ctl # c
  <2>1. objOwned'[c] = 0 /\ Cardinality(KeepingAlive(callers, c)) = 0
    BY <1>2, <1>3, <1>5
  <2>2. KeepingAlive(callers, c) = {}
    BY <2>1, KeepingFinite, FS_EmptySet
  <2>3. \A i \in DOMAIN callers :
          callers[i].ctl = c => callers[i].at \notin {"notifying", "dropping", "replacing"}
    BY <2>1, <2>2 DEF KeepingAlive
  <2>4. \A i \in DOMAIN callers :
          callers[i].ctl = c => callers[i].at \notin {"finalizing", "freeing"}
    BY <1>2, NullAssumption DEF IInv, CallFrames
  <2> QED  BY <1>4, <2>1, <2>3, <2>4 DEF Places, Releasing
<1>6. ASSUME objRefs[c] = 1
      PROVE  ~Suspended(c, Releasing)
  BY <1>5, <1>6 DEF Suspended, Releasing
<1>7. CASE objRefs[c] > 1
  <2>1. /\ objRefs' = [objRefs EXCEPT ![c] = @ - 1]
        /\ stack' = callers
        /\ UNCHANGED <<storage, heap, refs, object, disposed>>
    BY <1>1, <1>2, <1>7 DEF ObjUnref, DropObjRef, TypeOK
  <2>2. TypeOK'
    BY <1>1, <1>2, <1>7, <2>1 DEF TypeOK
  <2>3. FreedObjects'
    BY <2>1 DEF IInv, FreedObjects
  <2>4. StorageInv'
    <3>1. RefsBalanced'
      BY <2>1 DEF IInv, RefsBalanced, Holders
    <3>2. \A i \in DOMAIN stack' : i \in DOMAIN stack /\ stack'[i] = stack[i]
      BY <2>1
    <3>3. ReleaseFrames'
      BY <2>1, <3>2 DEF IInv, ReleaseFrames
    <3>4. OneRelease'
      BY <3>2 DEF IInv, OneRelease
    <3>5. \A d \in Controllers : Suspended(d, Releasing) => Suspended(d, Releasing)'
      BY <2>1 DEF Suspended, Releasing
    <3>6. NoDanglingStorage'
      BY <2>1, <3>5 DEF IInv, NoDanglingStorage
    <3> QED  BY <3>1, <3>3, <3>4, <3>6 DEF StorageInv
  <2>5. ObjRefsBalanced'
    <3>1. ASSUME NEW d \in Controllers
          PROVE  /\ objRefs'[d] = objOwned'[d] + Cardinality(KeepingAlive(stack', d))
                 /\ object'[d] = "live" <=> objRefs'[d] > 0
      <4>1. objRefs'[d] = objRefs[d] - (IF d = c THEN 1 ELSE 0)
        BY <1>1, <2>1 DEF TypeOK
      <4>2. object'[d] = "live" <=> objRefs[d] > 0
        BY <2>1, OwnedIsLive
      <4> QED  BY <1>2, <1>3, <1>7, <2>1, <4>1, <4>2
    <3>2. \A d \in Controllers : Suspended(d, Places)' => object'[d] # "none"
      BY <2>1 DEF IInv, ObjRefsBalanced, Suspended
    <3> QED  BY <3>1, <3>2 DEF ObjRefsBalanced
  <2>6. CallFrames'
    BY <2>1 DEF IInv, CallFrames
  <2> QED  BY <2>2, <2>3, <2>4, <2>5, <2>6, Together
<1>8. CASE objRefs[c] = 1 /\ ~IsLast(storage[c])
  <2>1. /\ objRefs' = [objRefs EXCEPT ![c] = 0]
        /\ object' = [object EXCEPT ![c] = "none"]
        /\ refs' = Ref(Unref(refs, storage[c]), NULL)
        /\ storage' = [storage EXCEPT ![c] = NULL]
        /\ disposed' = [disposed EXCEPT ![c] = FALSE]
        /\ stack' = callers
        /\ UNCHANGED heap
    BY <1>8 DEF ObjUnref, DropObjRef, Ref
  <2>2. TypeOK'
    BY <1>1, <1>2, <2>1 DEF TypeOK, Ref, Unref
  <2>3. FreedObjects'
    BY <1>1, <2>1 DEF IInv, FreedObjects, TypeOK
  <2>4. StorageInv'
    <3>1. /\ \A i \in DOMAIN stack : stack[i].at = "notifying" \/ Stays(i)
          /\ \A i \in DOMAIN stack' : stack'[i].at = "notifying" \/ Stays(i)
      BY <2>1 DEF Stays
    <3> QED  BY <1>6, <1>8, <2>1, <2>2, <2>3, <3>1, Exchanged
  <2>5. ObjRefsBalanced'
    <3>1. ASSUME NEW d \in Controllers
          PROVE  /\ objRefs'[d] = objOwned'[d] + Cardinality(KeepingAlive(stack', d))
                 /\ object'[d] = "live" <=> objRefs'[d] > 0
      <4>1. objRefs'[d] = objRefs[d] - (IF d = c THEN 1 ELSE 0)
        BY <1>1, <1>8, <2>1 DEF TypeOK
      <4>2. object'[d] = IF d = c THEN "none" ELSE object[d]
        BY <1>1, <2>1 DEF TypeOK
      <4>3. object[d] = "live" <=> objRefs[d] > 0
        BY OwnedIsLive
      <4>4. CASE d = c
        <5>1. objRefs'[c] = 0 /\ object'[c] = "none"
          BY <1>8, <4>1, <4>2, <4>4
        <5>2. objOwned'[c] = 0 /\ Cardinality(KeepingAlive(stack', c)) = 0
          BY <1>5, <1>8, <2>1
        <5> QED  BY <4>4, <5>1, <5>2
      <4>5. CASE d # c
        BY <1>2, <1>3, <2>1, <4>1, <4>2, <4>3, <4>5
      <4> QED  BY <4>4, <4>5
    <3>2. \A d \in Controllers : Suspended(d, Places)' => object'[d] # "none"
      BY <1>1, <1>5, <1>8, <2>1 DEF IInv, ObjRefsBalanced, Suspended, TypeOK
    <3> QED  BY <3>1, <3>2 DEF ObjRefsBalanced
  <2>6. CallFrames'
    BY <1>1, <1>2, <2>1 DEF IInv, CallFrames, TypeOK
  <2> QED  BY <2>2, <2>3, <2>4, <2>5, <2>6, Together
<1>9. CASE objRefs[c] = 1 /\ IsLast(storage[c]) /\ ReleasesInDispose(c)
  <2> DEFINE f == Frame("dropping", c, storage[c], NULL)
             n == Len(callers) + 1
  <2>a. storage[c] \in Storages
    BY <1>9 DEF IInv, TypeOK, IsLast
  <2>f. /\ f \in Frames /\ f.at = "dropping" /\ f.ctl = c
        /\ f.old = storage[c] /\ f.new = NULL
    BY <2>a, FrameFields DEF Places, Releasing
  <2> HIDE DEF f
  <2>1. /\ refs' = [refs EXCEPT ![storage[c]] = @ - 1]
        /\ heap' = [heap EXCEPT ![storage[c]] = "dying"]
        /\ stack' = Append(callers, f)
        /\ UNCHANGED <<object, objRefs>>
        /\ UNCHANGED <<storage, disposed>>
    BY <1>9, <2>a, NullAssumption DEF ObjUnref, StartFreeing, Unref, f
  <2>2. /\ stack' \in Seq(Frames)
        /\ DOMAIN stack' = DOMAIN callers \cup {n} /\ n \notin DOMAIN callers
        /\ stack'[n] = f
        /\ \A i \in DOMAIN callers : stack'[i] = callers[i]
        /\ \A d \in Controllers :
             Cardinality(KeepingAlive(stack', d)) =
               Cardinality(KeepingAlive(callers, d)) + Counts(f, d)
    <3>1. ASSUME NEW d \in Controllers
          PROVE  Cardinality(KeepingAlive(stack', d)) =
                   Cardinality(KeepingAlive(callers, d)) + Counts(f, d)
      BY <2>1, <2>f, KeepingPushed DEF Counts
    <3> QED  BY <2>1, <2>f, <3>1, Pushed
  <2>3. TypeOK'
    BY <1>1, <1>2, <2>a, <2>1, <2>2 DEF TypeOK
  <2>4. FreedObjects'
    BY <1>1, <2>1 DEF IInv, FreedObjects, TypeOK
  <2>5. StorageInv'
    <3>1. /\ \A i \in DOMAIN stack : stack[i].at = "notifying" \/ Stays(i)
          /\ \A i \in DOMAIN stack' : stack'[i].at = "notifying" \/ Stays(i) \/ i = n
      BY <2>2 DEF Stays
    <3>2. /\ n \in DOMAIN stack' /\ stack'[n].at \in Releasing
          /\ stack'[n].ctl = c /\ stack'[n].old = storage[c]
      BY <2>2, <2>f DEF Releasing
    <3>3. ~Suspended(c, Releasing) /\ IsLast(storage[c]) /\ UNCHANGED <<storage, owned>>
      BY <1>6, <1>9, <2>1
    <3> HIDE DEF n
    <3> QED  BY <2>1, <2>3, <2>4, <3>1, <3>2, <3>3, ReleaseStarted
  <2>6. ObjRefsBalanced'
    <3>1. ASSUME NEW d \in Controllers
          PROVE  /\ objRefs'[d] = objOwned'[d] + Cardinality(KeepingAlive(stack', d))
                 /\ object'[d] = "live" <=> objRefs'[d] > 0
      <4>1. Cardinality(KeepingAlive(stack', d)) =
              Cardinality(KeepingAlive(callers, d)) + (IF d = c THEN 1 ELSE 0)
        BY <2>2, <2>f DEF Counts
      <4>2. objRefs'[d] = objRefs[d]
        BY <1>1, <1>9, <2>1 DEF TypeOK
      <4>3. object'[d] = object[d]
        BY <1>1, <2>1 DEF TypeOK
      <4>4. object[d] = "live" <=> objRefs[d] > 0
        BY OwnedIsLive
      <4> QED  BY <1>2, <1>3, <1>9, <4>1, <4>2, <4>3, <4>4
    <3>2. ASSUME NEW d \in Controllers, Suspended(d, Places)'
          PROVE  object'[d] # "none"
      <4>1. CASE d = c
        BY <1>1, <1>2, <2>1, <4>1 DEF TypeOK
      <4>2. CASE d # c
        <5>1. Suspended(d, Places)
          BY <2>2, <2>f, <3>2, <4>2 DEF Suspended
        <5> QED  BY <1>1, <2>1, <4>2, <5>1 DEF IInv, ObjRefsBalanced, TypeOK
      <4> QED  BY <4>1, <4>2
    <3> QED  BY <3>1, <3>2 DEF ObjRefsBalanced
  <2>7. CallFrames'
    <3>1. ASSUME NEW i \in DOMAIN callers
          PROVE  /\ IF stack'[i].at = "freeing" THEN stack'[i].ctl = NULL
                                               ELSE stack'[i].ctl \in Controllers
                 /\ stack'[i].at = "replacing" =>
                      /\ objOwned'[stack'[i].ctl] > 0
                      /\ stack'[i].new # NULL => owned'[stack'[i].new] > 0
                 /\ stack'[i].at = "finalizing" => object'[stack'[i].ctl] = "finalizing"
      BY <1>1, <2>1, <2>2 DEF IInv, CallFrames, TypeOK
    <3> QED  BY <1>1, <2>1, <2>2, <2>f, <3>1 DEF CallFrames, TypeOK
  <2> QED  BY <2>3, <2>4, <2>5, <2>6, <2>7, Together
<1>10. CASE objRefs[c] = 1 /\ IsLast(storage[c]) /\ ~ReleasesInDispose(c)
  <2> DEFINE f == Frame("finalizing", c, storage[c], NULL)
             n == Len(callers) + 1
  <2>a. storage[c] \in Storages
    BY <1>10 DEF IInv, TypeOK, IsLast
  <2>f. /\ f \in Frames /\ f.at = "finalizing" /\ f.ctl = c
        /\ f.old = storage[c] /\ f.new = NULL
    BY <2>a, FrameFields DEF Places, Releasing
  <2> HIDE DEF f
  <2>1. /\ refs' = [refs EXCEPT ![storage[c]] = @ - 1]
        /\ heap' = [heap EXCEPT ![storage[c]] = "dying"]
        /\ stack' = Append(callers, f)
        /\ object' = [object EXCEPT ![c] = "finalizing"]
        /\ objRefs' = [objRefs EXCEPT ![c] = 0]
        /\ UNCHANGED <<storage, disposed>>
    BY <1>10, <2>a, NullAssumption DEF ObjUnref, StartFreeing, Unref, f
  <2>2. /\ stack' \in Seq(Frames)
        /\ DOMAIN stack' = DOMAIN callers \cup {n} /\ n \notin DOMAIN callers
        /\ stack'[n] = f
        /\ \A i \in DOMAIN callers : stack'[i] = callers[i]
        /\ \A d \in Controllers :
             Cardinality(KeepingAlive(stack', d)) =
               Cardinality(KeepingAlive(callers, d)) + Counts(f, d)
    <3>1. ASSUME NEW d \in Controllers
          PROVE  Cardinality(KeepingAlive(stack', d)) =
                   Cardinality(KeepingAlive(callers, d)) + Counts(f, d)
      BY <2>1, <2>f, KeepingPushed DEF Counts
    <3> QED  BY <2>1, <2>f, <3>1, Pushed
  <2>3. TypeOK'
    BY <1>1, <1>2, <2>a, <2>1, <2>2 DEF TypeOK
  <2>4. FreedObjects'
    BY <1>1, <2>1 DEF IInv, FreedObjects, TypeOK
  <2>5. StorageInv'
    <3>1. /\ \A i \in DOMAIN stack : stack[i].at = "notifying" \/ Stays(i)
          /\ \A i \in DOMAIN stack' : stack'[i].at = "notifying" \/ Stays(i) \/ i = n
      BY <2>2 DEF Stays
    <3>2. /\ n \in DOMAIN stack' /\ stack'[n].at \in Releasing
          /\ stack'[n].ctl = c /\ stack'[n].old = storage[c]
      BY <2>2, <2>f DEF Releasing
    <3>3. ~Suspended(c, Releasing) /\ IsLast(storage[c]) /\ UNCHANGED <<storage, owned>>
      BY <1>6, <1>10, <2>1
    <3> HIDE DEF n
    <3> QED  BY <2>1, <2>3, <2>4, <3>1, <3>2, <3>3, ReleaseStarted
  <2>6. ObjRefsBalanced'
    <3>1. ASSUME NEW d \in Controllers
          PROVE  /\ objRefs'[d] = objOwned'[d] + Cardinality(KeepingAlive(stack', d))
                 /\ object'[d] = "live" <=> objRefs'[d] > 0
      <4>1. Cardinality(KeepingAlive(stack', d)) =
              Cardinality(KeepingAlive(callers, d)) + 0
        BY <2>2, <2>f DEF Counts
      <4>2. objRefs'[d] = objRefs[d] - (IF d = c THEN 1 ELSE 0)
        BY <1>1, <1>10, <2>1 DEF TypeOK
      <4>3. object'[d] = IF d = c THEN "finalizing" ELSE object[d]
        BY <1>1, <2>1 DEF TypeOK
      <4>4. object[d] = "live" <=> objRefs[d] > 0
        BY OwnedIsLive
      <4> QED  BY <1>2, <1>3, <1>10, <4>1, <4>2, <4>3, <4>4
    <3>2. ASSUME NEW d \in Controllers, Suspended(d, Places)'
          PROVE  object'[d] # "none"
      <4>1. CASE d = c
        BY <1>1, <1>2, <2>1, <4>1 DEF TypeOK
      <4>2. CASE d # c
        <5>1. Suspended(d, Places)
          BY <2>2, <2>f, <3>2, <4>2 DEF Suspended
        <5> QED  BY <1>1, <2>1, <4>2, <5>1 DEF IInv, ObjRefsBalanced, TypeOK
      <4> QED  BY <4>1, <4>2
    <3> QED  BY <3>1, <3>2 DEF ObjRefsBalanced
  <2>7. CallFrames'
    <3>1. ASSUME NEW i \in DOMAIN callers
          PROVE  /\ IF stack'[i].at = "freeing" THEN stack'[i].ctl = NULL
                                               ELSE stack'[i].ctl \in Controllers
                 /\ stack'[i].at = "replacing" =>
                      /\ objOwned'[stack'[i].ctl] > 0
                      /\ stack'[i].new # NULL => owned'[stack'[i].new] > 0
                 /\ stack'[i].at = "finalizing" => object'[stack'[i].ctl] = "finalizing"
      BY <1>1, <2>1, <2>2 DEF IInv, CallFrames, TypeOK
    <3> QED  BY <1>1, <2>1, <2>2, <2>f, <3>1 DEF CallFrames, TypeOK
  <2> QED  BY <2>3, <2>4, <2>5, <2>6, <2>7, Together
<1> QED
  BY <1>2, <1>7, <1>8, <1>9, <1>10

LEMMA UnrefControllerInv ==
  ASSUME IInv, NEW c \in Controllers, UnrefController(c)
  PROVE  IInv'
<1>1. /\ objOwned[c] > ObjPromised(c) /\ objOwned[c] \in Nat
      /\ objOwned' = [objOwned EXCEPT ![c] = @ - 1]
      /\ ObjUnref(c, stack) /\ UNCHANGED <<owned, reborn>>
      /\ stack \in Seq(Frames) /\ objOwned \in [Controllers -> Nat]
  BY DEF IInv, TypeOK, UnrefController
<1>2. objOwned[c] > 0 /\ objOwned' \in [Controllers -> Nat]
  BY <1>1 DEF ObjPromised
<1>3. objRefs[c] > 0
  BY <1>2, OwnedIsLive
<1>4. ASSUME NEW d \in Controllers
      PROVE  objRefs[d] = objOwned'[d] + Cardinality(KeepingAlive(stack, d))
                          + (IF d = c THEN 1 ELSE 0)
  BY <1>1, OwnedIsLive
<1>5. ASSUME NEW i \in DOMAIN stack, stack[i].at = "replacing"
      PROVE  objOwned'[stack[i].ctl] > 0
  <2>1. stack[i].ctl \in Controllers /\ objOwned[stack[i].ctl] > 0
    BY <1>5 DEF IInv, CallFrames
  <2>2. CASE stack[i].ctl = c
    BY <1>1, <1>5, <2>2 DEF ObjPromised, Suspended
  <2>3. CASE stack[i].ctl # c
    BY <1>1, <2>1, <2>3
  <2> QED  BY <2>2, <2>3
<1> QED  BY <1>1, <1>2, <1>3, <1>4, <1>5, ObjUnrefInv

\* g_object_run_dispose.
LEMMA RunDisposeInv ==
  ASSUME IInv, ~FreeFuncsReenter, NEW c \in Controllers, RunDispose(c)
  PROVE  IInv'
<1>1. TypeOK /\ objOwned[c] > 0 /\ ~Suspended(c, Releasing)
      /\ UNCHANGED <<owned, object, objOwned, reborn>>
  BY DEF IInv, RunDispose, MayCall
<1>2. object[c] = "live"
  BY <1>1, OwnedIsLive
<1>3. CASE ReleasesInDispose(c) /\ IsLast(storage[c])
  <2> DEFINE f == Frame("dropping", c, storage[c], NULL)
             n == Len(stack) + 1
  <2>a. storage[c] \in Storages
    BY <1>1, <1>3 DEF TypeOK, IsLast
  <2>f. /\ f \in Frames /\ f.at = "dropping" /\ f.ctl = c
        /\ f.old = storage[c] /\ f.new = NULL
    BY <2>a, FrameFields DEF Places, Releasing
  <2> HIDE DEF f
  <2>1. /\ refs' = [refs EXCEPT ![storage[c]] = @ - 1]
        /\ heap' = [heap EXCEPT ![storage[c]] = "dying"]
        /\ stack' = Append(stack, f)
        /\ objRefs' = [objRefs EXCEPT ![c] = @ + 1]
        /\ UNCHANGED <<storage, disposed>>
    BY <1>3, <2>a, NullAssumption DEF RunDispose, StartFreeing, Unref, f
  <2>2. /\ stack' \in Seq(Frames)
        /\ DOMAIN stack' = DOMAIN stack \cup {n} /\ n \notin DOMAIN stack
        /\ stack'[n] = f
        /\ \A i \in DOMAIN stack : Stays(i)
        /\ \A d \in Controllers :
             Cardinality(KeepingAlive(stack', d)) =
               Cardinality(KeepingAlive(stack, d)) + Counts(f, d)
    BY <1>1, <2>1, <2>f, StackPushed
  <2>3. TypeOK'
    BY <1>1, <2>a, <2>1, <2>2 DEF TypeOK
  <2>4. FreedObjects'
    BY <1>1, <2>1 DEF IInv, FreedObjects
  <2>5. StorageInv'
    <3>1. /\ \A i \in DOMAIN stack : stack[i].at = "notifying" \/ Stays(i)
          /\ \A i \in DOMAIN stack' : stack'[i].at = "notifying" \/ Stays(i) \/ i = n
      BY <2>2
    <3>2. /\ n \in DOMAIN stack' /\ stack'[n].at \in Releasing
          /\ stack'[n].ctl = c /\ stack'[n].old = storage[c]
      BY <2>2, <2>f DEF Releasing
    <3> HIDE DEF n
    <3> QED  BY <1>1, <1>3, <2>1, <2>3, <2>4, <3>1, <3>2, ReleaseStarted
  <2>6. ObjRefsBalanced'
    <3>1. ASSUME NEW d \in Controllers
          PROVE  /\ objRefs'[d] = objOwned'[d] + Cardinality(KeepingAlive(stack', d))
                 /\ object'[d] = "live" <=> objRefs'[d] > 0
      <4>1. Cardinality(KeepingAlive(stack', d)) =
              Cardinality(KeepingAlive(stack, d)) + (IF d = c THEN 1 ELSE 0)
        BY <2>2, <2>f DEF Counts
      <4>2. objRefs'[d] = objRefs[d] + (IF d = c THEN 1 ELSE 0)
        BY <1>1, <2>1 DEF TypeOK
      <4> QED  BY <1>1, <1>2, <4>1, <4>2, OwnedIsLive
    <3>2. \A d \in Controllers : Suspended(d, Places)' => object'[d] # "none"
      BY <1>1, <1>2, <2>2, <2>f DEF IInv, ObjRefsBalanced, Suspended, Stays
    <3> QED  BY <3>1, <3>2 DEF ObjRefsBalanced
  <2>7. CallFrames'
    BY <1>1, <2>2, <2>f DEF IInv, CallFrames, Stays
  <2> QED  BY <2>3, <2>4, <2>5, <2>6, <2>7, Together
<1>4. CASE ReleasesInDispose(c) /\ ~IsLast(storage[c])
  <2>1. /\ refs' = Ref(Unref(refs, storage[c]), NULL)
        /\ storage' = [storage EXCEPT ![c] = NULL]
        /\ disposed' = [disposed EXCEPT ![c] = TRUE]
        /\ UNCHANGED <<heap, objRefs, stack>>
    BY <1>4 DEF RunDispose, Ref
  <2>2. TypeOK'
    BY <1>1, <2>1 DEF TypeOK, Ref, Unref
  <2>3. FreedObjects'
    BY <1>1, <1>2, <2>1 DEF IInv, FreedObjects, TypeOK
  <2>4. StorageInv'
    <3>1. \A i \in DOMAIN stack : Stays(i)
      BY <2>1 DEF Stays
    <3>2. DOMAIN stack' = DOMAIN stack
      BY <2>1
    <3> QED  BY <1>1, <1>4, <2>1, <2>2, <2>3, <3>1, <3>2, Exchanged
  <2>5. ObjRefsBalanced' /\ CallFrames'
    BY <1>1, <2>1 DEF IInv, ObjRefsBalanced, Suspended, CallFrames
  <2> QED  BY <2>2, <2>3, <2>4, <2>5, Together
<1>5. CASE ~ReleasesInDispose(c)
  <2>1. /\ disposed' = [disposed EXCEPT ![c] = TRUE]
        /\ UNCHANGED <<storage, heap, refs, objRefs, stack>>
    BY <1>5 DEF RunDispose
  <2>2. TypeOK' /\ FreedObjects'
    BY <1>1, <2>1 DEF IInv, FreedObjects, TypeOK
  <2>3. StorageInv'
    BY <1>1, <2>1 DEF IInv, StorageInv, RefsBalanced, Holders, NoDanglingStorage,
                      ReleaseFrames, OneRelease, Suspended
  <2>4. ObjRefsBalanced' /\ CallFrames'
    BY <1>1, <2>1 DEF IInv, ObjRefsBalanced, Suspended, CallFrames
  <2> QED  BY <2>2, <2>3, <2>4, Together
<1> QED  BY <1>3, <1>4, <1>5

-----------------------------------------------------------------------------
(* The returns.                                                            *)

\* The innermost frame is one of the frames the invariant is about.
LEMMA TopFrame ==
  ASSUME IInv, stack # <<>>
  PROVE  /\ Len(stack) \in DOMAIN stack /\ Top = stack[Len(stack)] /\ Top \in Frames
         /\ Top.at # "freeing" => Top.ctl \in Controllers
         /\ Top.at # "notifying" => Top.old \in Storages /\ heap[Top.old] = "dying"
         /\ Top.at \in Releasing => storage[Top.ctl] = Top.old
<1>1. Len(stack) \in DOMAIN stack /\ Top \in Frames
  BY Popped, FramesTyped DEF IInv, TypeOK, Top
<1> QED  BY <1>1 DEF IInv, CallFrames, ReleaseFrames, Top, Releasing

\* Only one call at a time is releasing the storage of a controller.
LEMMA OneReleasePerController ==
  ASSUME IInv, stack # <<>>, Top.at \in Releasing
  PROVE  \A i \in DOMAIN stack :
           i # Len(stack) /\ stack[i].at \in Releasing => stack[i].ctl # Top.ctl
<1>1. SUFFICES ASSUME NEW i \in DOMAIN stack, i # Len(stack),
                      stack[i].at \in Releasing, stack[i].ctl = Top.ctl
               PROVE  FALSE
  OBVIOUS
<1>2. stack[i].old = Top.old
  BY <1>1, TopFrame DEF IInv, ReleaseFrames, Releasing
<1> QED  BY <1>1, <1>2, TopFrame DEF IInv, OneRelease, Releasing

LEMMA ReturnToSetterInv ==
  ASSUME IInv, ReturnToSetter
  PROVE  IInv'
<1> DEFINE c == Top.ctl
           f == Frame("notifying", c, NULL, NULL)
<1>1. /\ stack # <<>> /\ Top.at = "replacing" /\ TypeOK
      /\ heap' = [heap EXCEPT ![Top.old] = "none"]
      /\ storage' = [storage EXCEPT ![c] = Top.new]
      /\ refs' = Ref([refs EXCEPT ![Top.old] = 0], Top.new)
      /\ disposed' = [disposed EXCEPT ![c] = @ /\ Top.new = NULL]
      /\ objRefs' = [objRefs EXCEPT ![c] = @ + 1]
      /\ stack' = Append(Callers, f)
      /\ UNCHANGED <<owned, object, objOwned, reborn>>
  BY DEF ReturnToSetter, Install, Notify, Free, Freed, IInv
<1>2. /\ c \in Controllers /\ Top.old \in Storages /\ Top.new \in Storages \cup {NULL}
      /\ Top.at \in Releasing /\ Len(stack) \in DOMAIN stack
      /\ objOwned[c] > 0 /\ (Top.new # NULL => owned[Top.new] > 0)
  <2>1. Top.new \in Storages \cup {NULL}
    BY <1>1, TopFrame DEF Frames
  <2> QED  BY <1>1, <2>1, TopFrame DEF IInv, CallFrames, Releasing
<1> HIDE DEF c
<1>f. f \in Frames /\ f.at = "notifying" /\ f.ctl = c
  <2>1. "notifying" \in Places /\ c \in Controllers \cup {NULL} /\ NULL \in Storages \cup {NULL}
    BY <1>2 DEF Places
  <2> QED  BY <2>1, FrameFields
<1> HIDE DEF f
<1>3. /\ stack' \in Seq(Frames) /\ DOMAIN stack' = DOMAIN stack
      /\ stack'[Len(stack)] = f
      /\ \A i \in DOMAIN stack \ {Len(stack)} : Stays(i)
      /\ \A d \in Controllers :
           Cardinality(KeepingAlive(stack', d)) =
             Cardinality(KeepingAlive(stack, d)) - Counts(Top, d) + Counts(f, d)
  BY <1>1, <1>f, StackReplaced
<1>4. object[c] = "live"
  BY <1>2, OwnedIsLive
<1>5. TypeOK'
  BY <1>1, <1>2, <1>3 DEF TypeOK, Ref
<1>6. FreedObjects'
  BY <1>1, <1>4 DEF IInv, FreedObjects, TypeOK
<1>7. StorageInv'
  <2>1. /\ \A i \in DOMAIN stack \ {Len(stack)} : stack[i].at = "notifying" \/ Stays(i)
        /\ \A i \in DOMAIN stack' :
             stack'[i].at = "notifying" \/ (Stays(i) /\ i # Len(stack))
    BY <1>3, <1>f
  <2>2. Top.ctl = c
    BY DEF c
  <2> QED  BY <1>1, <1>2, <1>5, <1>6, <2>1, <2>2, ReleaseEnded
<1>8. ObjRefsBalanced'
  <2>1. ASSUME NEW d \in Controllers
        PROVE  /\ objRefs'[d] = objOwned'[d] + Cardinality(KeepingAlive(stack', d))
               /\ object'[d] = "live" <=> objRefs'[d] > 0
    <3>1. Cardinality(KeepingAlive(stack', d)) =
            Cardinality(KeepingAlive(stack, d)) + (IF d = c THEN 1 ELSE 0)
      BY <1>1, <1>3, <1>f, OwnedIsLive DEF Counts
    <3>2. objRefs'[d] = objRefs[d] + (IF d = c THEN 1 ELSE 0)
      BY <1>1 DEF TypeOK
    <3> QED  BY <1>1, <1>4, <3>1, <3>2, OwnedIsLive
  <2>2. \A d \in Controllers : Suspended(d, Places)' => object'[d] # "none"
    BY <1>1, <1>3, <1>4, <1>f DEF IInv, ObjRefsBalanced, Suspended, Stays
  <2> QED  BY <2>1, <2>2 DEF ObjRefsBalanced
<1>9. CallFrames'
  BY <1>1, <1>2, <1>3, <1>f DEF IInv, CallFrames, Stays
<1> QED  BY <1>5, <1>6, <1>7, <1>8, <1>9, Together

LEMMA ReturnToDisposeInv ==
  ASSUME IInv, ReturnToDispose
  PROVE  IInv'
<1> DEFINE c == Top.ctl
<1>1. /\ stack # <<>> /\ Top.at = "dropping" /\ TypeOK
      /\ heap' = [heap EXCEPT ![Top.old] = "none"]
      /\ storage' = [storage EXCEPT ![c] = NULL]
      /\ refs' = Ref([refs EXCEPT ![Top.old] = 0], NULL)
      /\ disposed' = [disposed EXCEPT ![c] = objRefs[c] > 1]
      /\ objRefs' = [objRefs EXCEPT ![c] = @ - 1]
      /\ object' = [object EXCEPT ![c] = IF objRefs[c] = 1 THEN "none" ELSE @]
      /\ stack' = Callers
      /\ UNCHANGED <<owned, objOwned, reborn>>
  BY DEF ReturnToDispose, DropObjRef, Free, Freed, Ref, IInv
<1>2. /\ c \in Controllers /\ Top.old \in Storages
      /\ Top.at \in Releasing /\ Len(stack) \in DOMAIN stack /\ Top.ctl = c
  BY <1>1, TopFrame DEF Releasing
<1> HIDE DEF c
<1>3. /\ stack' \in Seq(Frames) /\ DOMAIN stack' = DOMAIN stack \ {Len(stack)}
      /\ \A i \in DOMAIN stack \ {Len(stack)} : Stays(i)
      /\ \A d \in Controllers :
           Cardinality(KeepingAlive(stack', d)) =
             Cardinality(KeepingAlive(stack, d)) - (IF d = c THEN 1 ELSE 0)
  BY <1>1, <1>2, StackPopped DEF Counts
<1>4. \A d \in Controllers : Cardinality(KeepingAlive(stack', d)) \in Nat
  BY <1>3, KeepingFinite
<1>5. object[c] = "live" /\ objRefs[c] > 0
  BY <1>2, <1>3, <1>4, OwnedIsLive
<1>6. TypeOK'
  BY <1>1, <1>2, <1>3, <1>5 DEF TypeOK, Ref
<1>7. FreedObjects'
  BY <1>1 DEF IInv, FreedObjects, TypeOK
<1>8. StorageInv'
  <2>1. /\ \A i \in DOMAIN stack \ {Len(stack)} : stack[i].at = "notifying" \/ Stays(i)
        /\ \A i \in DOMAIN stack' :
             stack'[i].at = "notifying" \/ (Stays(i) /\ i # Len(stack))
    BY <1>3
  <2> QED  BY <1>1, <1>2, <1>6, <1>7, <2>1, ReleaseEnded
<1>9. ASSUME NEW d \in Controllers
      PROVE  /\ objRefs'[d] = objOwned'[d] + Cardinality(KeepingAlive(stack', d))
             /\ object'[d] = "live" <=> objRefs'[d] > 0
  <2>1. objRefs'[d] = objRefs[d] - (IF d = c THEN 1 ELSE 0)
    BY <1>1 DEF TypeOK
  <2>2. object'[d] = IF d = c /\ objRefs[d] = 1 THEN "none" ELSE object[d]
    BY <1>1 DEF TypeOK
  <2>3. objOwned'[d] = objOwned[d]
    BY <1>1
  <2>4. Cardinality(KeepingAlive(stack', d)) =
          Cardinality(KeepingAlive(stack, d)) - (IF d = c THEN 1 ELSE 0)
    BY <1>3
  <2> QED  BY <1>5, <2>1, <2>2, <2>3, <2>4, OwnedIsLive
\* If that was its last reference, no other call is about c.
<1>10. ASSUME objRefs[c] = 1
       PROVE  \A i \in DOMAIN stack' : stack'[i].ctl # c
  <2>1. Cardinality(KeepingAlive(stack', c)) = 0 /\ objOwned[c] = 0
    BY <1>2, <1>3, <1>4, <1>10, OwnedIsLive
  <2>2. KeepingAlive(stack', c) = {}
    BY <1>3, <2>1, KeepingFinite, FS_EmptySet
  <2>3. \A i \in DOMAIN stack' :
          stack'[i].ctl = c => stack'[i].at \notin {"notifying", "dropping"}
    BY <2>2 DEF KeepingAlive
  <2>4. \A i \in DOMAIN stack' :
          stack'[i].ctl = c => stack'[i].at \notin {"replacing", "finalizing", "freeing"}
    BY <1>2, <1>3, <1>5, <2>1, NullAssumption DEF IInv, CallFrames, Stays
  <2>5. \A i \in DOMAIN stack' : stack'[i].at \in Places
    BY <1>3, FramesTyped, <1>1 DEF Stays, Frames
  <2> QED  BY <2>3, <2>4, <2>5 DEF Places, Releasing
<1>11. ObjRefsBalanced'
  <2>1. \A d \in Controllers : Suspended(d, Places)' => object'[d] # "none"
    BY <1>1, <1>2, <1>3, <1>10 DEF IInv, ObjRefsBalanced, Suspended, Stays, TypeOK
  <2> QED  BY <1>9, <2>1 DEF ObjRefsBalanced
<1>12. CallFrames'
  <2>1. ASSUME NEW i \in DOMAIN stack', stack'[i].at = "finalizing"
        PROVE  object'[stack'[i].ctl] = "finalizing"
    BY <1>1, <1>3, <1>5, <2>1 DEF IInv, CallFrames, Stays, TypeOK
  <2> QED  BY <1>1, <1>3, <2>1 DEF IInv, CallFrames, Stays
<1> QED  BY <1>6, <1>7, <1>8, <1>11, <1>12, Together

LEMMA ReturnToFinalizeInv ==
  ASSUME IInv, ReturnToFinalize
  PROVE  IInv'
<1> DEFINE c == Top.ctl
<1>1. /\ stack # <<>> /\ Top.at = "finalizing" /\ TypeOK
      /\ heap' = [heap EXCEPT ![Top.old] = "none"]
      /\ storage' = [storage EXCEPT ![c] = NULL]
      /\ refs' = Ref([refs EXCEPT ![Top.old] = 0], NULL)
      /\ disposed' = [disposed EXCEPT ![c] = FALSE]
      /\ object' = [object EXCEPT ![c] = "none"]
      /\ stack' = Callers
      /\ UNCHANGED <<owned, objRefs, objOwned, reborn>>
  BY DEF ReturnToFinalize, Free, Freed, Ref, IInv
<1>2. /\ c \in Controllers /\ Top.old \in Storages
      /\ Top.at \in Releasing /\ Len(stack) \in DOMAIN stack /\ Top.ctl = c
      /\ object[c] = "finalizing"
  BY <1>1, TopFrame DEF Releasing, IInv, CallFrames
<1> HIDE DEF c
<1>3. /\ stack' \in Seq(Frames) /\ DOMAIN stack' = DOMAIN stack \ {Len(stack)}
      /\ \A i \in DOMAIN stack \ {Len(stack)} : Stays(i)
      /\ \A d \in Controllers :
           Cardinality(KeepingAlive(stack', d)) = Cardinality(KeepingAlive(stack, d))
  BY <1>1, <1>2, StackPopped, OwnedIsLive DEF Counts
<1>4. /\ objRefs[c] = 0 /\ objOwned[c] = 0
      /\ Cardinality(KeepingAlive(stack, c)) = 0
  BY <1>2, OwnedIsLive
<1>5. TypeOK'
  BY <1>1, <1>2, <1>3 DEF TypeOK, Ref
<1>6. FreedObjects'
  BY <1>1 DEF IInv, FreedObjects, TypeOK
<1>7. StorageInv'
  <2>1. /\ \A i \in DOMAIN stack \ {Len(stack)} : stack[i].at = "notifying" \/ Stays(i)
        /\ \A i \in DOMAIN stack' :
             stack'[i].at = "notifying" \/ (Stays(i) /\ i # Len(stack))
    BY <1>3
  <2> QED  BY <1>1, <1>2, <1>5, <1>6, <2>1, ReleaseEnded
<1>8. \A i \in DOMAIN stack' : stack'[i].ctl # c
  <2>1. KeepingAlive(stack, c) = {}
    BY <1>1, <1>4, KeepingFinite, FS_EmptySet DEF TypeOK
  <2>2. \A i \in DOMAIN stack :
          stack[i].ctl = c => stack[i].at \notin {"notifying", "dropping"}
    BY <2>1 DEF KeepingAlive
  <2>3. \A i \in DOMAIN stack :
          stack[i].ctl = c /\ i # Len(stack) => stack[i].at \notin {"replacing", "finalizing"}
    BY <1>1, <1>2, OneReleasePerController DEF Releasing
  <2>4. \A i \in DOMAIN stack : stack[i].at = "freeing" => stack[i].ctl # c
    BY <1>2, NullAssumption DEF IInv, CallFrames
  <2>5. \A i \in DOMAIN stack : stack[i].at \in Places
    BY <1>1, FramesTyped DEF Frames
  <2> QED  BY <1>3, <2>2, <2>3, <2>4, <2>5 DEF Places, Releasing, Stays
<1>9. ObjRefsBalanced'
  <2>1. ASSUME NEW d \in Controllers
        PROVE  /\ objRefs'[d] = objOwned'[d] + Cardinality(KeepingAlive(stack', d))
               /\ object'[d] = "live" <=> objRefs'[d] > 0
    <3>1. objRefs'[d] = objRefs[d] /\ objOwned'[d] = objOwned[d]
      BY <1>1
    <3>2. object'[d] = "live" <=> object[d] = "live"
      BY <1>1, <1>2 DEF TypeOK
    <3> QED  BY <1>3, <3>1, <3>2, OwnedIsLive
  <2>2. \A d \in Controllers : Suspended(d, Places)' => object'[d] # "none"
    BY <1>1, <1>3, <1>8 DEF IInv, ObjRefsBalanced, Suspended, Stays, TypeOK
  <2> QED  BY <2>1, <2>2 DEF ObjRefsBalanced
<1>10. CallFrames'
  BY <1>1, <1>3, <1>8 DEF IInv, CallFrames, Stays, TypeOK
<1> QED  BY <1>5, <1>6, <1>7, <1>9, <1>10, Together

LEMMA ReturnToNotifyInv ==
  ASSUME IInv, ReturnToNotify
  PROVE  IInv'
<1> DEFINE c == Top.ctl
<1>1. /\ stack # <<>> /\ Top.at = "notifying" /\ stack \in Seq(Frames)
      /\ ObjUnref(c, Callers) /\ UNCHANGED <<owned, reborn>> /\ objOwned' = objOwned
      /\ objOwned \in [Controllers -> Nat]
  BY DEF ReturnToNotify, IInv, TypeOK
<1>2. c \in Controllers /\ Top.ctl = c
  BY <1>1, TopFrame
<1> HIDE DEF c
<1>3. /\ Callers \in Seq(Frames) /\ Len(stack) \in Nat \ {0}
      /\ DOMAIN stack = 1..Len(stack) /\ DOMAIN Callers = 1..(Len(stack) - 1)
      /\ \A i \in 1..(Len(stack) - 1) : Callers[i] = stack[i]
  BY <1>1, Popped DEF Callers
<1>4. \A i \in DOMAIN Callers : i \in DOMAIN stack /\ Callers[i] = stack[i]
  BY <1>3
<1>5. \A i \in DOMAIN stack \ DOMAIN Callers : stack[i].at = "notifying"
  BY <1>1, <1>3 DEF Top
<1>6. ASSUME NEW d \in Controllers
      PROVE  /\ Cardinality(KeepingAlive(Callers, d)) \in Nat
             /\ objRefs[d] = objOwned'[d] + Cardinality(KeepingAlive(Callers, d))
                             + (IF d = c THEN 1 ELSE 0)
  <2>1. Cardinality(KeepingAlive(Callers, d)) =
          Cardinality(KeepingAlive(stack, d)) - (IF d = c THEN 1 ELSE 0)
    BY <1>1, <1>2, KeepingPopped DEF Callers, Top
  <2>2. Cardinality(KeepingAlive(Callers, d)) \in Nat
    BY <1>3, KeepingFinite
  <2> QED  BY <1>1, <2>1, <2>2, OwnedIsLive
<1>7. objRefs[c] > 0
  BY <1>1, <1>2, <1>6, OwnedIsLive
<1>8. \A i \in DOMAIN Callers : Callers[i].at = "replacing" => objOwned'[Callers[i].ctl] > 0
  BY <1>1, <1>4 DEF IInv, CallFrames
<1> QED  BY <1>1, <1>2, <1>3, <1>4, <1>5, <1>6, <1>7, <1>8, ObjUnrefInv

LEMMA ReturnToUnrefInv ==
  ASSUME IInv, ReturnToUnref
  PROVE  IInv'
<1>1. /\ stack # <<>> /\ Top.at = "freeing" /\ TypeOK
      /\ heap' = [heap EXCEPT ![Top.old] = "none"]
      /\ refs' = [refs EXCEPT ![Top.old] = 0]
      /\ stack' = Callers
      /\ UNCHANGED <<storage, owned, object, objRefs, objOwned, disposed, reborn>>
  BY DEF ReturnToUnref, Free, Freed, IInv
<1>2. /\ Top.old \in Storages /\ heap[Top.old] = "dying" /\ Len(stack) \in DOMAIN stack
      /\ Top = stack[Len(stack)]
  BY <1>1, TopFrame
<1>3. /\ stack' \in Seq(Frames) /\ DOMAIN stack' = DOMAIN stack \ {Len(stack)}
      /\ \A i \in DOMAIN stack \ {Len(stack)} : Stays(i)
      /\ \A d \in Controllers :
           Cardinality(KeepingAlive(stack', d)) = Cardinality(KeepingAlive(stack, d))
  BY <1>1, StackPopped, OwnedIsLive DEF Counts
<1>4. TypeOK'
  BY <1>1, <1>2, <1>3 DEF TypeOK
<1>5. RefsBalanced'
  <2>1. \A s : Holders(s)' = Holders(s)
    BY <1>1 DEF Holders
  <2> QED  BY <1>1, <1>2, <2>1 DEF IInv, RefsBalanced, TypeOK
<1>6. NoDanglingStorage'
  <2>1. \A d \in Controllers : storage[d] # Top.old
    BY <1>1, <1>2 DEF IInv, ReleaseFrames
  <2>2. \A d \in Controllers : Suspended(d, Releasing) => Suspended(d, Releasing)'
    BY <1>1, <1>2, <1>3 DEF Suspended, Stays, Releasing
  <2> QED  BY <1>1, <2>1, <2>2 DEF IInv, NoDanglingStorage, TypeOK
<1>7. ReleaseFrames'
  <2>1. \A i \in DOMAIN stack \ {Len(stack)} :
          stack[i].at # "notifying" => stack[i].old # Top.old
    BY <1>1, <1>2 DEF IInv, OneRelease
  <2>2. \A s \in Storages : s # Top.old => heap'[s] = heap[s]
    BY <1>1, <1>2 DEF TypeOK
  <2> QED  BY <1>1, <1>3, <2>1, <2>2 DEF IInv, ReleaseFrames, Stays
<1>8. OneRelease' /\ FreedObjects' /\ CallFrames'
  BY <1>1, <1>3 DEF IInv, OneRelease, FreedObjects, CallFrames, Stays
<1>9. ObjRefsBalanced'
  <2>1. \A d \in Controllers : Suspended(d, Places)' => Suspended(d, Places)
    BY <1>3 DEF Suspended, Stays
  <2> QED  BY <1>1, <1>3, <2>1 DEF IInv, ObjRefsBalanced
<1> QED  BY <1>4, <1>5, <1>6, <1>7, <1>8, <1>9, Together DEF StorageInv

-----------------------------------------------------------------------------
(* The theorems.                                                           *)

LEMMA InitInv == Init => IInv
<1> SUFFICES ASSUME Init PROVE IInv
  OBVIOUS
<1>1. TypeOK
  <2>1. reborn \in BOOLEAN
    BY Zenon DEF Init
  <2> QED  BY <2>1 DEF Init, TypeOK
<1>2. RefsBalanced /\ NoDanglingStorage /\ FreedObjects
  BY DEF Init, RefsBalanced, NoDanglingStorage, FreedObjects
<1>3. ObjRefsBalanced
  <2>1. \A c \in Controllers : KeepingAlive(stack, c) = {}
    BY DEF Init, KeepingAlive
  <2>2. \A c \in Controllers : ~Suspended(c, Places)
    BY DEF Init, Suspended
  <2>3. /\ objRefs = [c \in Controllers |-> 0] /\ objOwned = [c \in Controllers |-> 0]
        /\ object = [c \in Controllers |-> "none"]
    BY DEF Init
  <2> QED  BY <2>1, <2>2, <2>3, FS_EmptySet DEF ObjRefsBalanced
<1>4. ReleaseFrames /\ CallFrames /\ OneRelease
  BY DEF Init, ReleaseFrames, CallFrames, OneRelease
<1> QED  BY <1>1, <1>2, <1>3, <1>4 DEF IInv

LEMMA NextInv ==
  ASSUME ~FreeFuncsReenter, IInv, [Next]_vars
  PROVE  IInv'
<1>1. ASSUME NEW s \in Storages, NewStorage(s) PROVE IInv'
  BY <1>1, NewStorageInv
<1>2. ASSUME NEW s \in Storages, RefStorage(s) PROVE IInv'
  BY <1>2, RefStorageInv
<1>3. ASSUME NEW s \in Storages, UnrefStorage(s) PROVE IInv'
  BY <1>3, UnrefStorageInv
<1>4. ASSUME NEW c \in Controllers, RefController(c) PROVE IInv'
  BY <1>4, RefControllerInv
<1>5. ASSUME NEW c \in Controllers, UnrefController(c) PROVE IInv'
  BY <1>5, UnrefControllerInv
<1>6. ASSUME NEW c \in Controllers, RunDispose(c) PROVE IInv'
  BY <1>6, RunDisposeInv
<1>7. ASSUME NEW c \in Controllers, GetProperty(c) PROVE IInv'
  BY <1>7, GetPropertyInv
<1>8. ASSUME NEW c \in Controllers, NEW s \in StoragesOf(c) \cup {NULL}, NewController(c, s)
      PROVE  IInv'
  BY <1>8, NewControllerInv
<1>9. ASSUME NEW c \in Controllers, NEW s \in StoragesOf(c) \cup {NULL}, SetStorage(c, s)
      PROVE  IInv'
  <2>1. s \in Storages \cup {NULL}
    BY DEF StoragesOf, Storages
  <2> QED  BY <1>9, <2>1, SetAtOnceInv, SetSuspendedInv
<1>10. CASE Return
  BY <1>10, ReturnToSetterInv, ReturnToDisposeInv, ReturnToFinalizeInv,
     ReturnToNotifyInv, ReturnToUnrefInv DEF Return
<1>11. CASE UNCHANGED vars
  <2> USE <1>11 DEF vars, IInv
  <2>1. TypeOK' /\ FreedObjects' /\ ReleaseFrames' /\ CallFrames' /\ OneRelease'
    BY DEF TypeOK, FreedObjects, ReleaseFrames, CallFrames, OneRelease
  <2>2. RefsBalanced'
    BY DEF RefsBalanced, Holders
  <2>3. NoDanglingStorage' /\ ObjRefsBalanced'
    BY DEF NoDanglingStorage, ObjRefsBalanced, Suspended
  <2> QED  BY <2>1, <2>2, <2>3
<1> QED
  BY <1>1, <1>2, <1>3, <1>4, <1>5, <1>6, <1>7, <1>8, <1>9, <1>10, <1>11
  DEF Next, g_array_controller_set_array, g_ptr_array_controller_set_array,
      g_hash_controller_set_hash

\* Where free functions leave the controller alone, the inductive invariant
\* holds in every state any program reaches with these classes.
THEOREM InvariantHolds ==
  ASSUME ~FreeFuncsReenter
  PROVE  Spec => []IInv
<1>1. Init => IInv
  BY InitInv
<1>2. IInv /\ [Next]_vars => IInv'
  BY NextInv
<1> QED  BY <1>1, <1>2, PTL DEF Spec

\* No sequence of calls, however nested in callbacks, leaks a reference on a
\* storage or drops one twice.
THEOREM ReferencesAreBalanced ==
  ASSUME ~FreeFuncsReenter
  PROVE  Spec => []RefsBalanced
<1>1. IInv => RefsBalanced
  BY DEF IInv
<1> QED  BY <1>1, InvariantHolds, PTL

\* A controller never points to freed memory.
THEOREM FieldsNeverDangle ==
  ASSUME ~FreeFuncsReenter
  PROVE  Spec => []NoDanglingStorage
<1>1. IInv => NoDanglingStorage
  BY DEF IInv
<1> QED  BY <1>1, InvariantHolds, PTL
=============================================================================
