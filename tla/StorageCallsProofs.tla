------------------------- MODULE StorageCallsProofs -------------------------
(***************************************************************************)
(* What holds of StorageController where free functions may call the very   *)
(* controller that is releasing the storage they belong to (FreeFuncsReenter *)
(* is TRUE), set another storage on it or dispose of it, which is known to   *)
(* leak and to drop references twice.  In every case controllers live as     *)
(* long as anything needs them and calls come to an end.  Until a free       *)
(* function reads the property, and owns a reference on what is being freed  *)
(* (reborn), no field dangles, no storage is freed under an owner, and none   *)
(* is freed twice.                                                          *)
(***************************************************************************)
EXTENDS StorageControllerProofs

(* The invariant.  It differs from IInv in that a storage may have more      *)
(* references than owners, and in that a controller need not have in its     *)
(* field what a call on it is releasing: a free function may have set        *)
(* another storage meanwhile.                                                *)

\* A storage a call is releasing is being freed; no other call releases it,
\* and no controller but that of the call has it.
FreeFrames ==
  \A i \in DOMAIN stack :
    stack[i].at # "notifying" =>
      /\ stack[i].old \in Storages
      /\ heap[stack[i].old] = "dying"
      /\ \A c \in Controllers :
           storage[c] = stack[i].old => stack[i].at # "freeing" /\ stack[i].ctl = c

\* Every storage being freed is released by a suspended call.
DyingFrames ==
  \A s \in Storages :
    heap[s] = "dying" =>
      \E i \in DOMAIN stack : stack[i].at # "notifying" /\ stack[i].old = s

\* What a setter will install is still there.
PromisedNew ==
  \A i \in DOMAIN stack :
    stack[i].at = "replacing" /\ stack[i].new # NULL => owned[stack[i].new] > 0

\* Calls on controllers name one; the client owns what it is calling; a
\* controller is being finalized in one call, and only there.
ObjFrames ==
  /\ \A i \in DOMAIN stack :
       /\ IF stack[i].at = "freeing" THEN stack[i].ctl = NULL
                                     ELSE stack[i].ctl \in Controllers
       /\ stack[i].at = "replacing" => objOwned[stack[i].ctl] > 0
       /\ stack[i].at = "finalizing" => object[stack[i].ctl] = "finalizing"
  /\ \A i, j \in DOMAIN stack :
       /\ stack[i].at = "finalizing" /\ stack[j].at = "finalizing"
       /\ stack[i].ctl = stack[j].ctl
       => i = j
  /\ \A c \in Controllers :
       object[c] = "finalizing" => Suspended(c, {"finalizing"})

\* A storage that is not live has no owner and no reference left to drop.
CountsFit ==
  \A s \in Storages :
    IF heap[s] = "live"
    THEN refs[s] > 0 /\ refs[s] >= owned[s] + Cardinality(Holders(s))
    ELSE owned[s] = 0 /\ refs[s] <= 0

\* The parts about controllers and about storages.
ObjInv == ObjRefsBalanced /\ ObjFrames
FreeInv == /\ CountsFit /\ NoDanglingStorage
           /\ FreeFrames /\ DyingFrames /\ OneRelease

\* What holds in any case, and what does until a free function reads.
CallInv == TypeOK /\ ObjInv /\ PromisedNew /\ FreedObjects
SafeInv == CallInv /\ (~reborn => FreeInv)

-----------------------------------------------------------------------------
(* The controllers.                                                        *)

\* A controller the client owns, or a suspended call keeps alive, is alive.
LEMMA CountedIsLive ==
  ASSUME TypeOK, ObjRefsBalanced, NEW c \in Controllers
  PROVE  /\ Cardinality(KeepingAlive(stack, c)) \in Nat
         /\ objRefs[c] = objOwned[c] + Cardinality(KeepingAlive(stack, c))
         /\ objRefs[c] \in Nat /\ objOwned[c] \in Nat
         /\ objOwned[c] > 0 => object[c] = "live"
         /\ object[c] = "live" <=> objRefs[c] > 0
<1>1. Cardinality(KeepingAlive(stack, c)) \in Nat
  BY KeepingFinite DEF TypeOK
<1>2. objRefs[c] \in Nat /\ objOwned[c] \in Nat
  BY DEF TypeOK
<1> QED  BY <1>1, <1>2 DEF ObjRefsBalanced

\* Nothing about the controllers changes.
LEMMA ObjSame ==
  ASSUME ObjInv, UNCHANGED <<object, objRefs, objOwned, stack>>
  PROVE  ObjInv'
BY DEF ObjInv, ObjRefsBalanced, ObjFrames, Suspended

\* A call on a controller the client owns is suspended, or a call on none.
LEMMA CallStarted ==
  ASSUME TypeOK, ObjInv, NEW f \in Frames, stack' = Append(stack, f),
         IF f.at = "freeing" THEN f.ctl = NULL
                             ELSE f.ctl \in Controllers /\ objOwned[f.ctl] > 0,
         f.at # "finalizing",
         \A d \in Controllers : objRefs'[d] = objRefs[d] + Counts(f, d),
         UNCHANGED <<object, objOwned>>
  PROVE  ObjInv'
<1> USE DEF ObjInv
<1>1. /\ Len(stack) + 1 \notin DOMAIN stack
      /\ DOMAIN stack' = DOMAIN stack \cup {Len(stack) + 1}
      /\ stack'[Len(stack) + 1] = f
      /\ \A i \in DOMAIN stack : Stays(i)
      /\ \A d \in Controllers :
           Cardinality(KeepingAlive(stack', d)) =
             Cardinality(KeepingAlive(stack, d)) + Counts(f, d)
  BY StackPushed
<1>2. f.at # "freeing" => object[f.ctl] = "live"
  BY CountedIsLive
<1>3. ObjRefsBalanced'
  <2>1. ASSUME NEW d \in Controllers
        PROVE  /\ objRefs'[d] = objOwned'[d] + Cardinality(KeepingAlive(stack', d))
               /\ object'[d] = "live" <=> objRefs'[d] > 0
    <3>1. Counts(f, d) \in {0, 1} /\ (Counts(f, d) = 1 => object[d] = "live")
      BY <1>2 DEF Counts
    <3>2. /\ objRefs'[d] = objRefs[d] + Counts(f, d)
          /\ objOwned'[d] = objOwned[d] /\ object'[d] = object[d]
          /\ Cardinality(KeepingAlive(stack', d)) =
               Cardinality(KeepingAlive(stack, d)) + Counts(f, d)
      BY <1>1
    <3>3. /\ Cardinality(KeepingAlive(stack, d)) \in Nat
          /\ objRefs[d] = objOwned[d] + Cardinality(KeepingAlive(stack, d))
          /\ objRefs[d] \in Nat /\ objOwned[d] \in Nat
          /\ object[d] = "live" <=> objRefs[d] > 0
      BY CountedIsLive
    <3> QED  BY <3>1, <3>2, <3>3
  <2>2. ASSUME NEW d \in Controllers, Suspended(d, Places)'
        PROVE  object'[d] # "none"
    <3>1. PICK i \in DOMAIN stack' : stack'[i].at \in Places /\ stack'[i].ctl = d
      BY <2>2 DEF Suspended
    <3>2. CASE i \in DOMAIN stack
      BY <1>1, <3>1, <3>2 DEF Stays, ObjRefsBalanced, Suspended
    <3>3. CASE i = Len(stack) + 1
      <4>1. f.ctl = d
        BY <1>1, <3>1, <3>3
      <4>2. f.at # "freeing"
        BY <4>1, NullAssumption
      <4> QED  BY <1>2, <4>1, <4>2
    <3> QED  BY <1>1, <3>2, <3>3
  <2> QED  BY <2>1, <2>2 DEF ObjRefsBalanced
<1>4. ObjFrames'
  <2>1. ASSUME NEW i \in DOMAIN stack'
        PROVE  /\ IF stack'[i].at = "freeing" THEN stack'[i].ctl = NULL
                                              ELSE stack'[i].ctl \in Controllers
               /\ stack'[i].at = "replacing" => objOwned'[stack'[i].ctl] > 0
               /\ stack'[i].at = "finalizing" => object'[stack'[i].ctl] = "finalizing"
    BY <1>1 DEF ObjFrames, Stays
  <2>2. ASSUME NEW i \in DOMAIN stack', NEW j \in DOMAIN stack',
               stack'[i].at = "finalizing", stack'[j].at = "finalizing",
               stack'[i].ctl = stack'[j].ctl
        PROVE  i = j
    BY <1>1, <2>2 DEF ObjFrames, Stays
  <2>3. ASSUME NEW d \in Controllers, object'[d] = "finalizing"
        PROVE  Suspended(d, {"finalizing"})'
    BY <1>1, <2>3 DEF ObjFrames, Stays, Suspended
  <2> QED  BY <2>1, <2>2, <2>3 DEF ObjFrames
<1> QED  BY <1>3, <1>4

\* The end of an emission or of a dispose, or a call of the client's, with
\* these callers left on the stack, drops a reference on c.  The next three
\* lemmas are about the cases of ObjUnref.
Dropping(c, callers) ==
  /\ callers \in Seq(Frames)
  /\ objOwned' \in [Controllers -> Nat]
  /\ objRefs[c] > 0
  /\ \A i \in DOMAIN callers : i \in DOMAIN stack /\ callers[i] = stack[i]
  /\ \A i \in DOMAIN stack \ DOMAIN callers : stack[i].at \in {"notifying", "dropping"}
  /\ \A d \in Controllers :
       objRefs[d] = objOwned'[d] + Cardinality(KeepingAlive(callers, d))
                    + (IF d = c THEN 1 ELSE 0)
  /\ \A i \in DOMAIN callers :
       callers[i].at = "replacing" => objOwned'[callers[i].ctl] > 0

\* On the last reference, no other suspended call is about c.
LEMMA LastReference ==
  ASSUME TypeOK, ObjInv, NEW c \in Controllers, NEW callers, Dropping(c, callers)
  PROVE  /\ object[c] = "live"
         /\ \A d \in Controllers : /\ objRefs[d] \in Nat /\ objOwned'[d] \in Nat
                                   /\ Cardinality(KeepingAlive(callers, d)) \in Nat
         /\ \A i \in DOMAIN callers : callers[i].at \in Places
         /\ objRefs[c] = 1 => /\ objOwned'[c] = 0
                              /\ Cardinality(KeepingAlive(callers, c)) = 0
                              /\ \A i \in DOMAIN callers : callers[i].ctl # c
<1> USE DEF ObjInv, Dropping
<1>1. object[c] = "live" /\ \A d \in Controllers : objRefs[d] \in Nat /\ objOwned'[d] \in Nat
  BY CountedIsLive
<1>2. \A d \in Controllers : Cardinality(KeepingAlive(callers, d)) \in Nat
  BY KeepingFinite
<1>3. \A i \in DOMAIN callers : callers[i].at \in Places
  <2>1. \A i \in DOMAIN callers : callers[i] \in Frames
    OBVIOUS
  <2> QED  BY <2>1 DEF Frames
<1>4. ASSUME objRefs[c] = 1
      PROVE  /\ objOwned'[c] = 0 /\ Cardinality(KeepingAlive(callers, c)) = 0
             /\ \A i \in DOMAIN callers : callers[i].ctl # c
  <2>1. objOwned'[c] = 0 /\ Cardinality(KeepingAlive(callers, c)) = 0
    BY <1>1, <1>2, <1>4
  <2>2. KeepingAlive(callers, c) = {}
    BY <2>1, KeepingFinite, FS_EmptySet
  <2>3. \A i \in DOMAIN callers :
          callers[i].ctl = c => callers[i].at \notin {"notifying", "dropping", "replacing"}
    BY <2>1, <2>2 DEF KeepingAlive
  <2>4. \A i \in DOMAIN callers :
          callers[i].ctl = c => callers[i].at \notin {"finalizing", "freeing"}
    BY <1>1, NullAssumption DEF ObjFrames
  <2> QED  BY <1>3, <2>1, <2>3, <2>4 DEF Places, Releasing
<1> QED  BY <1>1, <1>2, <1>3, <1>4

\* The reference goes and nothing waits for free functions.
LEMMA ReferenceDropped ==
  ASSUME TypeOK, ObjInv, NEW c \in Controllers, NEW callers, Dropping(c, callers),
         DropObjRef(c), stack' = callers
  PROVE  ObjInv'
<1>1. /\ objRefs' = [objRefs EXCEPT ![c] = @ - 1]
      /\ object' = [object EXCEPT ![c] = IF objRefs[c] = 1 THEN "none" ELSE @]
      /\ objRefs \in [Controllers -> Nat] /\ object \in [Controllers -> {"none", "live", "finalizing"}]
  BY DEF DropObjRef, TypeOK
<1>2. /\ object[c] = "live"
      /\ \A d \in Controllers : /\ objRefs[d] \in Nat /\ objOwned'[d] \in Nat
                                /\ Cardinality(KeepingAlive(stack', d)) \in Nat
      /\ objRefs[c] = 1 => \A i \in DOMAIN stack' : stack'[i].ctl # c
  BY LastReference
<1>3. /\ \A i \in DOMAIN stack' : i \in DOMAIN stack /\ stack'[i] = stack[i]
      /\ \A i \in DOMAIN stack \ DOMAIN stack' : stack[i].at \in {"notifying", "dropping"}
  BY DEF Dropping
<1>4. ObjRefsBalanced'
  <2>1. ASSUME NEW d \in Controllers
        PROVE  /\ objRefs'[d] = objOwned'[d] + Cardinality(KeepingAlive(stack', d))
               /\ object'[d] = "live" <=> objRefs'[d] > 0
    <3>1. objRefs'[d] = objRefs[d] - (IF d = c THEN 1 ELSE 0)
      BY <1>1
    <3>2. object'[d] = IF d = c /\ objRefs[c] = 1 THEN "none" ELSE object[d]
      BY <1>1
    <3>3. object[d] = "live" <=> objRefs[d] > 0
      BY CountedIsLive DEF ObjInv
    <3>4. /\ objRefs[d] = objOwned'[d] + Cardinality(KeepingAlive(stack', d))
                          + (IF d = c THEN 1 ELSE 0)
          /\ objRefs[c] > 0
      BY DEF Dropping
    <3> QED  BY <1>2, <3>1, <3>2, <3>3, <3>4
  <2>2. \A d \in Controllers : Suspended(d, Places)' => object'[d] # "none"
    BY <1>1, <1>2, <1>3 DEF ObjInv, ObjRefsBalanced, Suspended
  <2> QED  BY <2>1, <2>2 DEF ObjRefsBalanced
<1>5. ObjFrames'
  <2>1. ASSUME NEW i \in DOMAIN stack'
        PROVE  /\ IF stack'[i].at = "freeing" THEN stack'[i].ctl = NULL
                                              ELSE stack'[i].ctl \in Controllers
               /\ stack'[i].at = "replacing" => objOwned'[stack'[i].ctl] > 0
               /\ stack'[i].at = "finalizing" => object'[stack'[i].ctl] = "finalizing"
    BY <1>1, <1>2, <1>3 DEF ObjInv, ObjFrames, Dropping
  <2>2. \A i, j \in DOMAIN stack' :
          /\ stack'[i].at = "finalizing" /\ stack'[j].at = "finalizing"
          /\ stack'[i].ctl = stack'[j].ctl
          => i = j
    BY <1>3 DEF ObjInv, ObjFrames
  <2>3. ASSUME NEW d \in Controllers, object'[d] = "finalizing"
        PROVE  Suspended(d, {"finalizing"})'
    <3>1. object[d] = "finalizing"
      BY <1>1, <2>3
    <3>2. PICK i \in DOMAIN stack : stack[i].at = "finalizing" /\ stack[i].ctl = d
      BY <3>1 DEF ObjInv, ObjFrames, Suspended
    <3> QED  BY <1>3, <3>2 DEF Suspended
  <2> QED  BY <2>1, <2>2, <2>3 DEF ObjFrames
<1> QED  BY <1>4, <1>5 DEF ObjInv

\* It was the last one, and the storage's free functions run in dispose, where
\* the reference is still there, or in finalize, where it is gone.
LEMMA LastDropSuspended ==
  ASSUME TypeOK, ObjInv, NEW c \in Controllers, NEW callers, Dropping(c, callers),
         objRefs[c] = 1, NEW f \in Frames, f.ctl = c, stack' = Append(callers, f),
         \/ f.at = "dropping" /\ UNCHANGED <<object, objRefs>>
         \/ /\ f.at = "finalizing"
            /\ object' = [object EXCEPT ![c] = "finalizing"]
            /\ objRefs' = [objRefs EXCEPT ![c] = 0]
  PROVE  ObjInv'
<1> DEFINE n == Len(callers) + 1
<1>1. /\ objRefs \in [Controllers -> Nat] /\ object \in [Controllers -> {"none", "live", "finalizing"}]
      /\ callers \in Seq(Frames)
  BY DEF TypeOK, Dropping
<1>2. /\ object[c] = "live"
      /\ \A d \in Controllers : /\ objRefs[d] \in Nat /\ objOwned'[d] \in Nat
                                /\ Cardinality(KeepingAlive(callers, d)) \in Nat
      /\ objOwned'[c] = 0 /\ Cardinality(KeepingAlive(callers, c)) = 0
      /\ \A i \in DOMAIN callers : callers[i].ctl # c
  BY LastReference
<1>3. /\ DOMAIN stack' = DOMAIN callers \cup {n} /\ n \notin DOMAIN callers
      /\ stack'[n] = f
      /\ \A i \in DOMAIN callers : stack'[i] = callers[i]
  BY <1>1, Pushed
<1>4. ASSUME NEW d \in Controllers
      PROVE  Cardinality(KeepingAlive(stack', d)) =
               Cardinality(KeepingAlive(callers, d)) + Counts(f, d)
  BY <1>1, KeepingPushed DEF Counts
<1>5. /\ \A i \in DOMAIN callers : i \in DOMAIN stack /\ stack'[i] = stack[i]
      /\ \A i \in DOMAIN stack \ DOMAIN callers : stack[i].at \in {"notifying", "dropping"}
  BY <1>3 DEF Dropping
<1> HIDE DEF n
<1>6. ObjRefsBalanced'
  <2>1. ASSUME NEW d \in Controllers
        PROVE  /\ objRefs'[d] = objOwned'[d] + Cardinality(KeepingAlive(stack', d))
               /\ object'[d] = "live" <=> objRefs'[d] > 0
    <3>1. Counts(f, d) = IF d = c /\ f.at = "dropping" THEN 1 ELSE 0
      BY DEF Counts
    <3>2. /\ objRefs'[d] = IF d = c /\ f.at = "finalizing" THEN 0 ELSE objRefs[d]
          /\ object'[d] = IF d = c /\ f.at = "finalizing" THEN "finalizing" ELSE object[d]
      BY <1>1
    <3>3. object[d] = "live" <=> objRefs[d] > 0
      BY CountedIsLive DEF ObjInv
    <3>4. objRefs[d] = objOwned'[d] + Cardinality(KeepingAlive(callers, d))
                       + (IF d = c THEN 1 ELSE 0)
      BY DEF Dropping
    <3>5. CASE f.at = "dropping"
      BY <1>2, <1>4, <3>1, <3>2, <3>3, <3>4, <3>5
    <3>6. CASE f.at = "finalizing"
      <4>1. Cardinality(KeepingAlive(stack', d)) = Cardinality(KeepingAlive(callers, d))
        BY <1>2, <1>4, <3>1, <3>6
      <4>2. CASE d = c
        BY <1>2, <3>2, <3>6, <4>1, <4>2
      <4>3. CASE d # c
        BY <1>2, <3>2, <3>3, <3>4, <4>1, <4>3
      <4> QED  BY <4>2, <4>3
    <3> QED  BY <3>5, <3>6
  <2>2. ASSUME NEW d \in Controllers, Suspended(d, Places)'
        PROVE  object'[d] # "none"
    <3>1. CASE d = c
      BY <1>1, <1>2, <3>1
    <3>2. CASE d # c
      <4>1. PICK i \in DOMAIN callers : stack'[i].at \in Places /\ stack'[i].ctl = d
        BY <1>3, <2>2, <3>2 DEF Suspended
      <4>2. Suspended(d, Places)
        BY <1>5, <4>1 DEF Suspended
      <4>3. object'[d] = object[d]
        BY <1>1, <3>2
      <4> QED  BY <4>2, <4>3 DEF ObjInv, ObjRefsBalanced
    <3> QED  BY <3>1, <3>2
  <2> QED  BY <2>1, <2>2 DEF ObjRefsBalanced
<1>7. ObjFrames'
  <2>1. ASSUME NEW i \in DOMAIN stack'
        PROVE  /\ IF stack'[i].at = "freeing" THEN stack'[i].ctl = NULL
                                              ELSE stack'[i].ctl \in Controllers
               /\ stack'[i].at = "replacing" => objOwned'[stack'[i].ctl] > 0
               /\ stack'[i].at = "finalizing" => object'[stack'[i].ctl] = "finalizing"
    <3>1. CASE i \in DOMAIN callers
      <4>1. stack'[i] = callers[i] /\ stack'[i] = stack[i] /\ i \in DOMAIN stack
        BY <1>3, <1>5, <3>1
      <4>2. stack'[i].at = "replacing" => objOwned'[stack'[i].ctl] > 0
        BY <3>1, <4>1 DEF Dropping
      <4>3. stack'[i].ctl # c
        BY <1>2, <3>1, <4>1
      <4> QED  BY <1>1, <4>1, <4>2, <4>3 DEF ObjInv, ObjFrames
    <3>2. CASE i = n
      BY <1>1, <1>3, <3>2
    <3> QED  BY <1>3, <3>1, <3>2
  <2>2. \A i, j \in DOMAIN stack' :
          /\ stack'[i].at = "finalizing" /\ stack'[j].at = "finalizing"
          /\ stack'[i].ctl = stack'[j].ctl
          => i = j
    BY <1>2, <1>3, <1>5 DEF ObjInv, ObjFrames
  <2>3. ASSUME NEW d \in Controllers, object'[d] = "finalizing"
        PROVE  Suspended(d, {"finalizing"})'
    <3>1. CASE d = c
      <4>1. f.at = "finalizing"
        BY <1>1, <1>2, <2>3, <3>1
      <4> QED  BY <1>3, <3>1, <4>1 DEF Suspended
    <3>2. CASE d # c
      <4>1. object[d] = "finalizing"
        BY <1>1, <2>3, <3>2
      <4>2. PICK i \in DOMAIN stack : stack[i].at = "finalizing" /\ stack[i].ctl = d
        BY <4>1 DEF ObjInv, ObjFrames, Suspended
      <4> QED  BY <1>3, <1>5, <4>2 DEF Suspended
    <3> QED  BY <3>1, <3>2
  <2> QED  BY <2>1, <2>2, <2>3 DEF ObjFrames
<1> QED  BY <1>6, <1>7 DEF ObjInv

-----------------------------------------------------------------------------
(* The storages.                                                           *)

\* Nothing that releases a storage comes or goes, and nothing else changes.
LEMMA FreeSame ==
  ASSUME FreeInv, UNCHANGED <<storage, heap>>,
         \A s \in Storages :
           IF heap[s] = "live"
           THEN refs'[s] > 0 /\ refs'[s] >= owned'[s] + Cardinality(Holders(s)')
           ELSE owned'[s] = 0 /\ refs'[s] <= 0,
         \A i \in DOMAIN stack : stack[i].at = "notifying" \/ Stays(i),
         \A i \in DOMAIN stack' : stack'[i].at = "notifying" \/ Stays(i)
  PROVE  FreeInv'
<1> USE DEF FreeInv
<1>1. CountsFit'
  BY DEF CountsFit
<1>2. NoDanglingStorage'
  <2>1. \A d \in Controllers : Suspended(d, Releasing) => Suspended(d, Releasing)'
    BY DEF Suspended, Stays, Releasing
  <2> QED  BY <2>1 DEF NoDanglingStorage
<1>3. FreeFrames'
  BY DEF FreeFrames, Stays
<1>4. DyingFrames'
  BY DEF DyingFrames, Stays
<1>5. OneRelease'
  BY DEF OneRelease, Stays
<1> QED  BY <1>1, <1>2, <1>3, <1>4, <1>5

\* What owners there are, when the controllers that are freed have none.
LEMMA Owners ==
  ASSUME TypeOK, FreeInv, FreedObjects, NEW s \in Storages
  PROVE  /\ Holders(s) = On(storage, s) /\ Cardinality(On(storage, s)) \in Nat
         /\ refs[s] \in Int /\ owned[s] \in Nat
         /\ owned[s] > 0 => heap[s] = "live"
         /\ heap[s] = "live" => refs[s] > 0 /\ refs[s] >= owned[s] + Cardinality(On(storage, s))
         /\ heap[s] # "live" => owned[s] = 0 /\ refs[s] <= 0
BY HoldersAreOn, OnFinite DEF FreeInv, CountsFit, TypeOK

\* The field of c changes to a live storage or NULL, from a storage whose free
\* functions need not run, be it that they already do.
LEMMA FieldWritten ==
  ASSUME TypeOK, FreeInv, FreedObjects, FreedObjects',
         NEW c \in Controllers, NEW x \in Storages \cup {NULL},
         ~IsLast(storage[c]), x # NULL => heap[x] = "live",
         x = NULL \/ storage[c] # x,
         storage' = [storage EXCEPT ![c] = x],
         refs' = Ref(Unref(refs, storage[c]), x),
         UNCHANGED <<heap, owned>>,
         \A i \in DOMAIN stack : stack[i].at = "notifying" \/ Stays(i),
         \A i \in DOMAIN stack' : stack'[i].at = "notifying" \/ Stays(i)
  PROVE  FreeInv'
<1> DEFINE o == storage[c]
<1> USE DEF FreeInv
<1>1. /\ storage \in [Controllers -> Storages \cup {NULL}] /\ o \in Storages \cup {NULL}
      /\ refs \in [Storages -> Int] /\ owned \in [Storages -> Nat]
      /\ storage' = Written(storage, c, x)
  BY DEF TypeOK, Written
<1>2. \A s \in Storages : refs'[s] = refs[s] + (IF x = s THEN 1 ELSE 0)
                                             - (IF o = s THEN 1 ELSE 0)
  BY <1>1, NullAssumption DEF Ref, Unref
<1>3. o # NULL /\ heap[o] = "live" => refs[o] > 1
  BY <1>1 DEF CountsFit, IsLast
<1>4. CountsFit'
  <2>1. ASSUME NEW s \in Storages
        PROVE  IF heap'[s] = "live"
               THEN refs'[s] > 0 /\ refs'[s] >= owned'[s] + Cardinality(Holders(s)')
               ELSE owned'[s] = 0 /\ refs'[s] <= 0
    <3>1. /\ Cardinality(On(storage, s)) \in Nat
          /\ Cardinality(On(Written(storage, c, x), s)) =
               Cardinality(On(storage, s)) + (IF x = s THEN 1 ELSE 0)
                                           - (IF o = s THEN 1 ELSE 0)
      BY <1>1, OnFinite, OnWritten
    <3>2. /\ refs[s] \in Int /\ owned[s] \in Nat
          /\ heap[s] = "live" => /\ refs[s] > 0
                                 /\ refs[s] >= owned[s] + Cardinality(On(storage, s))
          /\ heap[s] # "live" => owned[s] = 0 /\ refs[s] <= 0
      BY Owners
    <3>3. Holders(s)' = On(Written(storage, c, x), s)
      BY <1>1, NullAssumption DEF FreedObjects, Holders, On
    <3>4. heap'[s] = heap[s] /\ owned'[s] = owned[s]
      OBVIOUS
    <3>5. o = s /\ heap[s] = "live" => refs[s] > 1
      BY <1>3, NullAssumption
    <3>6. refs'[s] = refs[s] + (IF x = s THEN 1 ELSE 0) - (IF o = s THEN 1 ELSE 0)
      BY <1>2
    <3>7. x = s => heap[s] = "live"
      BY NullAssumption
    <3> HIDE DEF o
    <3> QED  BY <3>1, <3>2, <3>3, <3>4, <3>5, <3>6, <3>7
  <2> QED  BY <2>1 DEF CountsFit
<1>5. NoDanglingStorage'
  <2>1. \A d \in Controllers : Suspended(d, Releasing) => Suspended(d, Releasing)'
    BY DEF Suspended, Stays, Releasing
  <2> QED  BY <1>1, <2>1 DEF NoDanglingStorage, Written
<1>6. FreeFrames'
  <2>1. \A i \in DOMAIN stack : stack[i].at # "notifying" => stack[i].old # x
    BY NullAssumption DEF FreeFrames
  <2> QED  BY <1>1, <2>1 DEF FreeFrames, Stays, Written
<1>7. DyingFrames' /\ OneRelease'
  BY DEF DyingFrames, OneRelease, Stays
<1> QED  BY <1>4, <1>5, <1>6, <1>7

\* Who has a storage with one reference left: a controller, or the client.
LEMMA LastOwner ==
  ASSUME TypeOK, FreeInv, FreedObjects, NEW s \in Storages, IsLast(s)
  PROVE  /\ \A c \in Controllers :
              storage[c] = s => owned[s] = 0 /\ \A d \in Controllers \ {c} : storage[d] # s
         /\ owned[s] > 0 => owned[s] = 1 /\ \A d \in Controllers : storage[d] # s
<1>1. /\ Cardinality(On(storage, s)) \in Nat /\ owned[s] \in Nat
      /\ 1 >= owned[s] + Cardinality(On(storage, s))
  <2>1. refs[s] = 1
    BY DEF IsLast
  <2> QED  BY <2>1, Owners
<1>2. ASSUME NEW c \in Controllers, storage[c] = s
      PROVE  owned[s] = 0 /\ \A d \in Controllers \ {c} : storage[d] # s
  <2>1. c \in On(storage, s) /\ IsFiniteSet(On(storage, s))
    BY <1>2, OnFinite DEF On
  <2>2. /\ Cardinality(On(storage, s) \ {c}) = Cardinality(On(storage, s)) - 1
        /\ IsFiniteSet(On(storage, s) \ {c}) /\ Cardinality(On(storage, s) \ {c}) \in Nat
    BY <2>1, FS_RemoveElement, FS_CardinalityType
  <2>3. owned[s] = 0 /\ Cardinality(On(storage, s) \ {c}) = 0
    BY <1>1, <2>2
  <2>4. On(storage, s) \ {c} = {}
    BY <2>2, <2>3, FS_EmptySet
  <2> QED  BY <2>3, <2>4 DEF On
<1>3. ASSUME owned[s] > 0
      PROVE  owned[s] = 1 /\ \A d \in Controllers : storage[d] # s
  <2>1. owned[s] = 1 /\ Cardinality(On(storage, s)) = 0
    BY <1>1, <1>3
  <2> QED  BY <2>1, OnNone
<1> QED  BY <1>2, <1>3

\* The free functions of s start to run, and frame n accounts for it.
Begins(s, n) ==
  /\ heap' = [heap EXCEPT ![s] = "dying"]
  /\ refs' = [refs EXCEPT ![s] = @ - 1]
  /\ owned'[s] = 0 /\ \A t \in Storages \ {s} : owned'[t] = owned[t]
  /\ storage' = storage
  /\ stack'[n].at # "notifying" /\ stack'[n].old = s
  /\ \A d \in Controllers :
       storage[d] = s => stack'[n].at \in Releasing /\ stack'[n].ctl = d
  /\ \A i \in DOMAIN stack : stack[i].at = "notifying" \/ Stays(i)
  /\ \A i \in DOMAIN stack' : stack'[i].at = "notifying" \/ Stays(i) \/ i = n

LEMMA FreeingStarted ==
  ASSUME TypeOK, FreeInv, FreedObjects, FreedObjects', NEW s \in Storages, IsLast(s),
         NEW n \in DOMAIN stack', Begins(s, n)
  PROVE  FreeInv'
<1> USE DEF Begins
<1> USE DEF FreeInv
<1>0. refs[s] = 1
  BY DEF IsLast
<1>1. /\ heap[s] = "live" /\ refs \in [Storages -> Int]
      /\ heap \in [Storages -> {"none", "live", "dying"}]
  BY <1>0 DEF TypeOK, CountsFit
<1>2. CountsFit'
  <2>1. \A t \in Storages : Holders(t) = On(storage, t) /\ Holders(t)' = On(storage, t)
    BY NullAssumption DEF FreedObjects, Holders, On
  <2>2. refs'[s] = 0 /\ \A t \in Storages \ {s} : refs'[t] = refs[t] /\ heap'[t] = heap[t]
    BY <1>0, <1>1
  <2>3. heap'[s] = "dying"
    BY <1>1
  <2> QED  BY <2>1, <2>2, <2>3 DEF CountsFit
<1>3. NoDanglingStorage'
  <2>1. \A d \in Controllers : Suspended(d, Releasing) => Suspended(d, Releasing)'
    BY DEF Suspended, Stays, Releasing
  <2>2. \A d \in Controllers : storage[d] = s => Suspended(d, Releasing)'
    BY DEF Suspended
  <2> QED  BY <1>1, <2>1, <2>2 DEF NoDanglingStorage, TypeOK
<1>4. \A i \in DOMAIN stack : stack[i].at # "notifying" => stack[i].old # s
  BY <1>1 DEF FreeFrames
<1>5. FreeFrames'
  BY <1>1, <1>4 DEF FreeFrames, Stays, Releasing
<1>6. DyingFrames'
  BY <1>1 DEF DyingFrames, Stays
<1>7. OneRelease'
  BY <1>4 DEF OneRelease, Stays
<1> QED  BY <1>2, <1>3, <1>5, <1>6, <1>7

\* They do so in a call on the controller that has s.
LEMMA ReleaseBegun ==
  ASSUME TypeOK, FreeInv, FreedObjects, FreedObjects', NEW c \in Controllers,
         IsLast(storage[c]),
         heap' = [heap EXCEPT ![storage[c]] = "dying"],
         refs' = [refs EXCEPT ![storage[c]] = @ - 1],
         UNCHANGED <<storage, owned>>,
         NEW n \in DOMAIN stack',
         stack'[n].at \in Releasing, stack'[n].ctl = c, stack'[n].old = storage[c],
         \A i \in DOMAIN stack : stack[i].at = "notifying" \/ Stays(i),
         \A i \in DOMAIN stack' : stack'[i].at = "notifying" \/ Stays(i) \/ i = n
  PROVE  FreeInv'
<1>1. PICK s \in Storages : s = storage[c]
  BY DEF TypeOK, IsLast
<1>2. owned[s] = 0 /\ \A d \in Controllers \ {c} : storage[d] # s
  BY <1>1, LastOwner
<1>3. IsLast(s) /\ Begins(s, n)
  BY <1>1, <1>2 DEF Begins, Releasing
<1> QED  BY <1>3, FreeingStarted

\* The innermost frame is one of the frames the invariant is about.
LEMMA InnermostFrame ==
  ASSUME TypeOK, ObjInv, stack # <<>>
  PROVE  /\ Len(stack) \in DOMAIN stack /\ Top = stack[Len(stack)] /\ Top \in Frames
         /\ Top.at = "freeing" => Top.ctl = NULL
         /\ Top.at # "freeing" => Top.ctl \in Controllers
         /\ FreeInv /\ Top.at # "notifying" => Top.old \in Storages /\ heap[Top.old] = "dying"
<1>1. Len(stack) \in DOMAIN stack /\ Top \in Frames
  BY Popped, FramesTyped DEF TypeOK, Top
<1> QED  BY <1>1 DEF ObjInv, FreeInv, ObjFrames, FreeFrames, Top

\* The free functions returned: the storage is given back.  The field of the
\* controller, if the call was on one, is written; the storage a free function
\* put there meanwhile keeps a reference nobody has.
LEMMA FreeingEnded ==
  ASSUME TypeOK, ObjInv, FreeInv, FreedObjects, FreedObjects',
         stack # <<>>, NEW x \in Storages \cup {NULL}, x # NULL => owned[x] > 0,
         \/ Top.at = "freeing" /\ storage' = storage /\ x = NULL
         \/ Top.at \in Releasing /\ storage' = [storage EXCEPT ![Top.ctl] = x],
         heap' = [heap EXCEPT ![Top.old] = "none"],
         refs' = Ref([refs EXCEPT ![Top.old] = 0], x),
         UNCHANGED owned,
         \A i \in DOMAIN stack \ {Len(stack)} : stack[i].at = "notifying" \/ Stays(i),
         \A i \in DOMAIN stack' :
           stack'[i].at = "notifying" \/ (Stays(i) /\ i # Len(stack))
  PROVE  FreeInv'
<1> DEFINE o == Top.old
           c == Top.ctl
<1> USE DEF FreeInv
<1>0. /\ Len(stack) \in DOMAIN stack /\ Top = stack[Len(stack)] /\ Top.at # "notifying"
      /\ o \in Storages /\ heap[o] = "dying"
      /\ Top.at \in Releasing => c \in Controllers /\ Top.at # "freeing"
  BY InnermostFrame DEF Releasing
<1>1. /\ storage \in [Controllers -> Storages \cup {NULL}]
      /\ refs \in [Storages -> Int] /\ owned \in [Storages -> Nat]
      /\ heap \in [Storages -> {"none", "live", "dying"}]
  BY DEF TypeOK
<1>2. x # NULL => heap[x] = "live" /\ x # o
  BY <1>0, Owners
<1>3. \A d \in Controllers : storage'[d] # o
  <2>1. \A d \in Controllers : storage[d] = o => Top.at # "freeing" /\ c = d
    BY <1>0 DEF FreeFrames
  <2> QED  BY <1>0, <1>1, <1>2, <2>1, NullAssumption
<1>4. CountsFit'
  <2>1. ASSUME NEW s \in Storages
        PROVE  IF heap'[s] = "live"
               THEN refs'[s] > 0 /\ refs'[s] >= owned'[s] + Cardinality(Holders(s)')
               ELSE owned'[s] = 0 /\ refs'[s] <= 0
    <3>1. /\ heap'[s] = (IF s = o THEN "none" ELSE heap[s]) /\ owned'[s] = owned[s]
          /\ refs'[s] = (IF s = o THEN 0 ELSE refs[s]) + (IF x = s THEN 1 ELSE 0)
      BY <1>0, <1>1, <1>2, NullAssumption DEF Ref
    <3>2. /\ refs[s] \in Int /\ owned[s] \in Nat /\ Cardinality(On(storage, s)) \in Nat
          /\ heap[s] = "live" => /\ refs[s] > 0
                                 /\ refs[s] >= owned[s] + Cardinality(On(storage, s))
          /\ heap[s] # "live" => owned[s] = 0 /\ refs[s] <= 0
      BY Owners
    <3>3. Holders(s)' = On(storage', s) /\ Cardinality(On(storage', s)) \in Nat
      <4>1. Holders(s)' = On(storage', s)
        BY NullAssumption DEF FreedObjects, Holders, On
      <4> QED  BY <4>1, OnFinite
    <3>4. Cardinality(On(storage', s)) <= Cardinality(On(storage, s)) + (IF x = s THEN 1 ELSE 0)
      <4>1. CASE storage' = storage
        BY <3>2, <4>1
      <4>2. CASE Top.at \in Releasing /\ storage' = [storage EXCEPT ![c] = x]
        <5>1. c \in Controllers /\ storage' = Written(storage, c, x)
          BY <1>0, <4>2 DEF Written
        <5> HIDE DEF c
        <5>2. Cardinality(On(storage', s)) =
                Cardinality(On(storage, s)) + (IF x = s THEN 1 ELSE 0)
                                            - (IF storage[c] = s THEN 1 ELSE 0)
          BY <1>1, <5>1, OnWritten
        <5> QED  BY <3>2, <3>3, <5>2
      <4> QED  BY <4>1, <4>2
    <3>5. heap[o] = "dying" /\ (x = s => heap[s] = "live" /\ s # o)
      BY <1>0, <1>2, NullAssumption
    <3> HIDE DEF o
    <3>6. CASE s = o
      BY <3>1, <3>2, <3>5, <3>6
    <3>7. CASE s # o
      BY <3>1, <3>2, <3>3, <3>4, <3>5, <3>7
    <3> QED  BY <3>6, <3>7
  <2> QED  BY <2>1 DEF CountsFit
<1>5. \A i \in DOMAIN stack \ {Len(stack)} : stack[i].at # "notifying" => stack[i].old # o
  BY <1>0 DEF OneRelease
<1>6. NoDanglingStorage'
  <2> SUFFICES ASSUME NEW d \in Controllers, storage'[d] # NULL
               PROVE  \/ heap'[storage'[d]] = "live"
                      \/ heap'[storage'[d]] = "dying" /\ Suspended(d, Releasing)'
    BY DEF NoDanglingStorage
  <2>1. CASE Top.at \in Releasing /\ d = c /\ storage' = [storage EXCEPT ![c] = x]
    BY <1>0, <1>1, <1>2, <2>1
  <2>2. CASE ~(Top.at \in Releasing /\ d = c)
    <3>1. storage'[d] = storage[d] /\ storage[d] \in Storages /\ storage[d] # o
      BY <1>0, <1>1, <1>3, <2>2
    <3>2. heap'[storage[d]] = heap[storage[d]]
      BY <1>0, <1>1, <3>1
    <3>3. Suspended(d, Releasing) => Suspended(d, Releasing)'
      BY <1>0, <2>2 DEF Suspended, Stays, Releasing
    <3> QED  BY <3>1, <3>2, <3>3 DEF NoDanglingStorage
  <2>3. CASE Top.at = "freeing"
    BY <1>0, <2>2, <2>3 DEF Releasing
  <2> QED  BY <2>1, <2>2, <2>3
<1>7. FreeFrames'
  <2>1. \A i \in DOMAIN stack : stack[i].at # "notifying" => stack[i].old # x
    BY <1>2, NullAssumption DEF FreeFrames
  <2>2. \A d \in Controllers : storage'[d] = storage[d] \/ storage'[d] = x
    BY <1>0, <1>1
  <2>3. ASSUME NEW i \in DOMAIN stack', stack'[i].at # "notifying"
        PROVE  /\ stack'[i].old \in Storages
               /\ heap'[stack'[i].old] = "dying"
               /\ \A d \in Controllers : storage'[d] = stack'[i].old =>
                    stack'[i].at # "freeing" /\ stack'[i].ctl = d
    <3>1. i \in DOMAIN stack /\ stack'[i] = stack[i] /\ i # Len(stack)
      BY <2>3 DEF Stays
    <3>2. stack[i].old \in Storages /\ heap[stack[i].old] = "dying" /\ stack[i].old # o
      BY <1>5, <2>3, <3>1 DEF FreeFrames
    <3>3. heap'[stack[i].old] = "dying"
      BY <1>0, <1>1, <3>2
    <3> QED  BY <2>1, <2>2, <2>3, <3>1, <3>2, <3>3 DEF FreeFrames
  <2> QED  BY <2>3 DEF FreeFrames
<1>8. DyingFrames'
  <2> SUFFICES ASSUME NEW s \in Storages, heap'[s] = "dying"
               PROVE  \E i \in DOMAIN stack' : stack'[i].at # "notifying" /\ stack'[i].old = s
    BY DEF DyingFrames
  <2>1. s # o /\ heap[s] = "dying"
    BY <1>0, <1>1
  <2>2. PICK i \in DOMAIN stack : stack[i].at # "notifying" /\ stack[i].old = s
    BY <2>1 DEF DyingFrames
  <2>3. i # Len(stack)
    BY <1>0, <2>1, <2>2
  <2> QED  BY <2>2, <2>3 DEF Stays
<1>9. OneRelease'
  BY DEF OneRelease, Stays
<1> QED  BY <1>4, <1>6, <1>7, <1>8, <1>9

-----------------------------------------------------------------------------
(* The actions of the client on storages and references.                    *)

LEMMA NewStorageSafe ==
  ASSUME CallInv, NEW s \in Storages, NewStorage(s)
  PROVE  CallInv' /\ (FreeInv => FreeInv')
<1> USE DEF CallInv, NewStorage
<1>1. TypeOK'
  BY DEF TypeOK
<1>2. FreeInv => FreeInv'
  <2> SUFFICES ASSUME FreeInv PROVE FreeInv'
    OBVIOUS
  <2>1. \A c \in Controllers : storage[c] # s
    BY NullAssumption DEF FreeInv, NoDanglingStorage
  <2>2. CountsFit'
    <3>1. Holders(s) = {} /\ \A t : Holders(t)' = Holders(t)
      BY <2>1 DEF Holders
    <3>2. Cardinality(Holders(s)') = 0
      BY <3>1, FS_EmptySet
    <3> QED  BY <3>1, <3>2 DEF TypeOK, FreeInv, CountsFit
  <2>3. NoDanglingStorage'
    BY <2>1 DEF TypeOK, FreeInv, NoDanglingStorage, Suspended
  <2>4. FreeFrames' /\ DyingFrames' /\ OneRelease'
    BY DEF FreeInv, FreeFrames, DyingFrames, OneRelease, TypeOK
  <2> QED  BY <2>2, <2>3, <2>4 DEF FreeInv
<1>3. PromisedNew' /\ FreedObjects'
  BY DEF PromisedNew, FreedObjects, TypeOK
<1> QED  BY <1>1, <1>2, <1>3, ObjSame

LEMMA RefStorageSafe ==
  ASSUME CallInv, NEW s \in Storages, RefStorage(s)
  PROVE  CallInv' /\ (FreeInv => FreeInv')
<1> USE DEF CallInv, RefStorage
<1>1. TypeOK' /\ FreedObjects'
  BY DEF TypeOK, FreedObjects
<1>2. ASSUME FreeInv, NEW t \in Storages
      PROVE  IF heap[t] = "live"
             THEN refs'[t] > 0 /\ refs'[t] >= owned'[t] + Cardinality(Holders(t)')
             ELSE owned'[t] = 0 /\ refs'[t] <= 0
  <2>1. Holders(t)' = Holders(t)
    BY DEF Holders
  <2>2. /\ refs'[t] = IF t = s THEN refs[t] + 1 ELSE refs[t]
        /\ owned'[t] = IF t = s THEN owned[t] + 1 ELSE owned[t]
    BY DEF TypeOK
  <2>3. /\ Holders(t) = On(storage, t) /\ Cardinality(On(storage, t)) \in Nat
        /\ refs[t] \in Int /\ owned[t] \in Nat
        /\ owned[t] > 0 => heap[t] = "live"
        /\ heap[t] = "live" => /\ refs[t] > 0
                               /\ refs[t] >= owned[t] + Cardinality(On(storage, t))
        /\ heap[t] # "live" => owned[t] = 0 /\ refs[t] <= 0
    BY <1>2, Owners
  <2>4. t = s => owned[t] > 0
    OBVIOUS
  <2> HIDE DEF CallInv, RefStorage
  <2> QED  BY <2>1, <2>2, <2>3, <2>4
<1>3. FreeInv => FreeInv'
  <2> SUFFICES ASSUME FreeInv PROVE FreeInv'
    OBVIOUS
  <2>1. \A i \in DOMAIN stack : Stays(i)
    BY DEF Stays
  <2> QED  BY <1>2, <2>1, FreeSame DEF Stays
<1>4. PromisedNew'
  BY DEF PromisedNew, TypeOK
<1> QED  BY <1>1, <1>3, <1>4, ObjSame

LEMMA UnrefStorageSafe ==
  ASSUME CallInv, NEW s \in Storages, UnrefStorage(s)
  PROVE  CallInv' /\ (FreeInv => FreeInv')
<1> USE DEF CallInv
<1>a. s # NULL /\ owned[s] > 0 /\ owned \in [Storages -> Nat]
  BY NullAssumption DEF TypeOK, UnrefStorage, Promised
<1>b. /\ refs' = [refs EXCEPT ![s] = @ - 1]
      /\ owned' = [owned EXCEPT ![s] = @ - 1]
      /\ UNCHANGED <<storage, object, objRefs, objOwned, disposed, reborn>>
  BY <1>a DEF UnrefStorage, Unref
<1>c. FreedObjects'
  BY <1>b DEF FreedObjects
<1>d. \A i \in DOMAIN stack : stack[i].at = "replacing" /\ stack[i].new # NULL
        => owned'[stack[i].new] > 0
  BY DEF UnrefStorage, Promised, PromisedNew, TypeOK
<1>1. CASE ~IsLast(s)
  <2>1. UNCHANGED <<heap, stack>>
    BY <1>1 DEF UnrefStorage
  <2>2. TypeOK' /\ PromisedNew'
    BY <1>a, <1>b, <1>d, <2>1 DEF TypeOK, PromisedNew
  <2>3. ASSUME FreeInv, NEW t \in Storages
        PROVE  IF heap[t] = "live"
               THEN refs'[t] > 0 /\ refs'[t] >= owned'[t] + Cardinality(Holders(t)')
               ELSE owned'[t] = 0 /\ refs'[t] <= 0
    <3>1. Holders(t)' = Holders(t)
      BY <1>b DEF Holders
    <3>2. /\ refs'[t] = IF t = s THEN refs[t] - 1 ELSE refs[t]
          /\ owned'[t] = IF t = s THEN owned[t] - 1 ELSE owned[t]
      BY <1>b DEF TypeOK
    <3>3. /\ Holders(t) = On(storage, t) /\ Cardinality(On(storage, t)) \in Nat
          /\ refs[t] \in Int /\ owned[t] \in Nat
          /\ heap[t] = "live" => /\ refs[t] > 0
                                 /\ refs[t] >= owned[t] + Cardinality(On(storage, t))
          /\ heap[t] # "live" => owned[t] = 0 /\ refs[t] <= 0
      BY <2>3, Owners
    <3>4. t = s => refs[t] # 1 /\ owned[t] > 0
      BY <1>1, <1>a DEF IsLast
    <3> HIDE DEF CallInv
    <3> QED  BY <3>1, <3>2, <3>3, <3>4
  <2>4. FreeInv => FreeInv'
    <3> SUFFICES ASSUME FreeInv PROVE FreeInv'
      OBVIOUS
    <3>1. \A i \in DOMAIN stack : Stays(i)
      BY <2>1 DEF Stays
    <3> QED  BY <1>b, <2>1, <2>3, <3>1, FreeSame DEF Stays
  <2> QED  BY <1>b, <1>c, <2>1, <2>2, <2>4, ObjSame
<1>2. CASE IsLast(s)
  <2> DEFINE f == Frame("freeing", NULL, s, NULL)
             n == Len(stack) + 1
  <2>f. f \in Frames /\ f.at = "freeing" /\ f.ctl = NULL /\ f.old = s
    BY FrameFields DEF Places
  <2>1. stack' = Append(stack, f) /\ heap' = [heap EXCEPT ![s] = "dying"]
    BY <1>2 DEF UnrefStorage, StartFreeing
  <2> HIDE DEF f
  <2>2. /\ stack' \in Seq(Frames)
        /\ DOMAIN stack' = DOMAIN stack \cup {n} /\ n \in DOMAIN stack'
        /\ stack'[n] = f
        /\ \A i \in DOMAIN stack : Stays(i)
    BY <2>1, <2>f, StackPushed
  <2> HIDE DEF n
  <2>3. TypeOK'
    BY <1>a, <1>b, <2>1, <2>2 DEF TypeOK
  <2>4. ObjInv'
    <3>1. \A d \in Controllers : Counts(f, d) = 0 /\ objRefs[d] \in Nat
      BY <2>f DEF Counts, TypeOK
    <3>2. /\ \A d \in Controllers : objRefs'[d] = objRefs[d] + Counts(f, d)
          /\ f.at # "finalizing"
      BY <1>b, <2>f, <3>1
    <3> QED  BY <1>b, <2>1, <2>f, <3>2, CallStarted
  <2>5. FreeInv => FreeInv'
    <3> SUFFICES ASSUME FreeInv PROVE FreeInv'
      OBVIOUS
    <3>1. owned[s] = 1 /\ \A d \in Controllers : storage[d] # s
      BY <1>a, <1>2, LastOwner
    <3>2. owned'[s] = 0 /\ \A t \in Storages \ {s} : owned'[t] = owned[t]
      BY <1>a, <1>b, <3>1
    <3>3. /\ \A i \in DOMAIN stack : Stays(i)
          /\ \A i \in DOMAIN stack' : Stays(i) \/ i = n
          /\ stack'[n].at # "notifying" /\ stack'[n].old = s
      BY <2>2, <2>f
    <3>4. Begins(s, n)
      BY <1>b, <2>1, <3>1, <3>2, <3>3 DEF Begins
    <3> QED  BY <1>2, <1>c, <2>2, <3>4, FreeingStarted
  <2>6. PromisedNew'
    BY <1>d, <2>2, <2>f DEF PromisedNew, Stays
  <2> QED  BY <1>c, <2>3, <2>4, <2>5, <2>6
<1> QED  BY <1>1, <1>2

LEMMA RefControllerSafe ==
  ASSUME CallInv, NEW c \in Controllers, RefController(c)
  PROVE  CallInv' /\ (FreeInv => FreeInv')
<1> USE DEF CallInv, RefController
<1>1. TypeOK' /\ FreedObjects' /\ PromisedNew'
  BY DEF TypeOK, FreedObjects, PromisedNew
<1>2. FreeInv => FreeInv'
  BY DEF FreeInv, CountsFit, Holders, NoDanglingStorage, Suspended,
         FreeFrames, DyingFrames, OneRelease
<1>3. ObjRefsBalanced'
  <2>1. ASSUME NEW d \in Controllers
        PROVE  /\ objRefs'[d] = objOwned'[d] + Cardinality(KeepingAlive(stack', d))
               /\ object'[d] = "live" <=> objRefs'[d] > 0
    <3>1. stack' = stack /\ Cardinality(KeepingAlive(stack, d)) \in Nat
      BY KeepingFinite DEF TypeOK
    <3> QED  BY <3>1 DEF ObjInv, ObjRefsBalanced, TypeOK
  <2>2. \A d \in Controllers : Suspended(d, Places)' => object'[d] # "none"
    BY DEF ObjInv, ObjRefsBalanced, Suspended
  <2> QED  BY <2>1, <2>2 DEF ObjRefsBalanced
<1>4. ObjFrames'
  BY DEF ObjInv, ObjFrames, Suspended, TypeOK
<1> QED  BY <1>1, <1>2, <1>3, <1>4 DEF ObjInv

\* Reading the property hands out a reference: a free function that gets one on
\* what it is called for is noted in reborn.
LEMMA GetPropertySafe ==
  ASSUME CallInv, NEW c \in Controllers, GetProperty(c)
  PROVE  CallInv' /\ (~reborn' /\ FreeInv => FreeInv')
<1> USE DEF CallInv, GetProperty
<1>1. storage[c] \in Storages
  BY DEF TypeOK
<1>2. TypeOK' /\ FreedObjects' /\ PromisedNew'
  BY <1>1 DEF TypeOK, FreedObjects, PromisedNew, Ref
<1>3. ASSUME ~reborn', FreeInv, NEW t \in Storages
      PROVE  IF heap[t] = "live"
             THEN refs'[t] > 0 /\ refs'[t] >= owned'[t] + Cardinality(Holders(t)')
             ELSE owned'[t] = 0 /\ refs'[t] <= 0
  <2>1. Holders(t)' = Holders(t)
    BY DEF Holders
  <2>2. /\ refs'[t] = IF t = storage[c] THEN refs[t] + 1 ELSE refs[t]
        /\ owned'[t] = IF t = storage[c] THEN owned[t] + 1 ELSE owned[t]
    BY <1>1 DEF TypeOK, Ref
  <2>3. /\ Holders(t) = On(storage, t) /\ Cardinality(On(storage, t)) \in Nat
        /\ refs[t] \in Int /\ owned[t] \in Nat
        /\ heap[t] = "live" => /\ refs[t] > 0
                               /\ refs[t] >= owned[t] + Cardinality(On(storage, t))
        /\ heap[t] # "live" => owned[t] = 0 /\ refs[t] <= 0
    BY <1>3, Owners
  <2>4. heap[storage[c]] = "live"
    BY <1>1, <1>3 DEF FreeInv, NoDanglingStorage
  <2> HIDE DEF CallInv, GetProperty
  <2> QED  BY <1>1, <2>1, <2>2, <2>3, <2>4
<1>4. ~reborn' /\ FreeInv => FreeInv'
  <2> SUFFICES ASSUME ~reborn', FreeInv PROVE FreeInv'
    OBVIOUS
  <2>1. \A i \in DOMAIN stack : Stays(i)
    BY DEF Stays
  <2> QED  BY <1>3, <2>1, FreeSame DEF Stays
<1> QED  BY <1>2, <1>4, ObjSame

LEMMA NewControllerSafe ==
  ASSUME CallInv, NEW c \in Controllers, NEW s \in StoragesOf(c) \cup {NULL},
         NewController(c, s)
  PROVE  CallInv' /\ (FreeInv => FreeInv')
<1> USE DEF CallInv, NewController
<1>1. s \in Storages \cup {NULL}
  BY DEF StoragesOf, Storages
<1>2. FreeInv /\ s # NULL => heap[s] = "live"
  BY <1>1, Owners DEF HeldElsewhere
<1>3. /\ storage[c] = NULL /\ objOwned[c] = 0
      /\ Cardinality(KeepingAlive(stack, c)) = 0
      /\ \A i \in DOMAIN stack : stack[i].ctl # c
  <2>1. storage[c] = NULL /\ ~Suspended(c, Places) /\ objRefs[c] = 0
    BY DEF FreedObjects, ObjInv, ObjRefsBalanced, TypeOK
  <2>2. \A i \in DOMAIN stack : stack[i].at \in Places
    BY FramesTyped DEF Frames
  <2>3. Cardinality(KeepingAlive(stack, c)) \in Nat
    BY KeepingFinite DEF TypeOK
  <2> QED  BY <2>1, <2>2, <2>3 DEF Suspended, ObjInv, ObjRefsBalanced, TypeOK
<1>4. TypeOK' /\ PromisedNew'
  BY <1>1 DEF TypeOK, PromisedNew, Ref
<1>5. FreedObjects'
  BY DEF FreedObjects, TypeOK
<1>6. FreeInv => FreeInv'
  <2> SUFFICES ASSUME FreeInv PROVE FreeInv'
    OBVIOUS
  <2>1. /\ ~IsLast(storage[c]) /\ (s = NULL \/ storage[c] # s)
        /\ refs' = Ref(Unref(refs, storage[c]), s)
        /\ storage' = [storage EXCEPT ![c] = s] /\ UNCHANGED <<heap, owned>>
    BY <1>3 DEF IsLast, Unref
  <2>2. \A i \in DOMAIN stack : Stays(i)
    BY DEF Stays
  <2>3. DOMAIN stack' = DOMAIN stack
    OBVIOUS
  <2> HIDE DEF NewController
  <2> QED  BY <1>1, <1>2, <1>5, <2>1, <2>2, <2>3, FieldWritten
<1>7. ObjRefsBalanced'
  <2>1. ASSUME NEW d \in Controllers
        PROVE  /\ objRefs'[d] = objOwned'[d] + Cardinality(KeepingAlive(stack', d))
               /\ object'[d] = "live" <=> objRefs'[d] > 0
    BY <1>3 DEF ObjInv, ObjRefsBalanced, TypeOK
  <2>2. \A d \in Controllers : Suspended(d, Places)' => object'[d] # "none"
    BY DEF ObjInv, ObjRefsBalanced, Suspended, TypeOK
  <2> QED  BY <2>1, <2>2 DEF ObjRefsBalanced
<1>8. ObjFrames'
  BY <1>3 DEF ObjInv, ObjFrames, Suspended, TypeOK
<1> QED  BY <1>4, <1>5, <1>6, <1>7, <1>8 DEF ObjInv

-----------------------------------------------------------------------------
(* The actions on controllers.                                             *)

\* A setter, suspended in the handlers of "notify" or in free functions.
LEMMA SetStorageSafe ==
  ASSUME CallInv, NEW c \in Controllers, NEW s \in Storages \cup {NULL}, SetStorage(c, s)
  PROVE  CallInv' /\ (FreeInv => FreeInv')
<1> USE DEF CallInv
<1>1. objOwned[c] > 0 /\ storage[c] # s /\ UNCHANGED <<owned, object, objOwned, reborn>>
  BY DEF SetStorage, MayCall
<1>2. object[c] = "live"
  BY <1>1, CountedIsLive DEF ObjInv
<1>3. CASE ~IsLast(storage[c])
  <2> DEFINE f == Frame("notifying", c, NULL, NULL)
  <2>f. f \in Frames /\ f.at = "notifying" /\ f.ctl = c
    <3>1. "notifying" \in Places /\ c \in Controllers \cup {NULL} /\ NULL \in Storages \cup {NULL}
      BY DEF Places
    <3> QED  BY <3>1, FrameFields
  <2> HIDE DEF f
  <2>1. /\ FreeInv /\ s # NULL => heap[s] = "live"
        /\ storage' = [storage EXCEPT ![c] = s]
        /\ refs' = Ref(Unref(refs, storage[c]), s)
        /\ disposed' = [disposed EXCEPT ![c] = @ /\ s = NULL]
        /\ objRefs' = [objRefs EXCEPT ![c] = @ + 1]
        /\ stack' = Append(stack, f)
        /\ UNCHANGED heap
    <3>1. FreeInv /\ s # NULL => heap[s] = "live"
      BY Owners DEF SetStorage, MayPass, HeldElsewhere
    <3> QED  BY <1>3, <3>1 DEF SetStorage, Install, Notify, f
  <2>2. /\ stack' \in Seq(Frames)
        /\ DOMAIN stack' = DOMAIN stack \cup {Len(stack) + 1}
        /\ stack'[Len(stack) + 1] = f
        /\ \A i \in DOMAIN stack : Stays(i)
    BY <2>1, <2>f, StackPushed
  <2>3. TypeOK'
    BY <1>1, <2>1, <2>2 DEF TypeOK, Ref, Unref
  <2>4. FreedObjects'
    BY <1>1, <1>2, <2>1 DEF FreedObjects, TypeOK
  <2>5. ObjInv'
    <3>1. \A d \in Controllers : objRefs'[d] = objRefs[d] + Counts(f, d)
      BY <2>1, <2>f DEF Counts, TypeOK
    <3> QED  BY <1>1, <2>1, <2>f, <3>1, CallStarted
  <2>6. FreeInv => FreeInv'
    <3> SUFFICES ASSUME FreeInv PROVE FreeInv'
      OBVIOUS
    <3>1. \A i \in DOMAIN stack' : stack'[i].at = "notifying" \/ Stays(i)
      BY <2>2, <2>f
    <3> QED  BY <1>1, <1>3, <2>1, <2>2, <2>4, <3>1, FieldWritten
  <2>7. PromisedNew'
    BY <1>1, <2>2, <2>f DEF PromisedNew, Stays
  <2> QED  BY <2>3, <2>4, <2>5, <2>6, <2>7
<1>4. CASE IsLast(storage[c])
  <2> DEFINE f == Frame("replacing", c, storage[c], s)
             n == Len(stack) + 1
  <2>a. storage[c] \in Storages
    BY <1>4 DEF TypeOK, IsLast
  <2>f. /\ f \in Frames /\ f.at = "replacing" /\ f.ctl = c
        /\ f.old = storage[c] /\ f.new = s
    BY <2>a, FrameFields DEF Places, Releasing
  <2> HIDE DEF f
  <2>1. /\ s # NULL => owned[s] > 0
        /\ heap' = [heap EXCEPT ![storage[c]] = "dying"]
        /\ refs' = [refs EXCEPT ![storage[c]] = @ - 1]
        /\ stack' = Append(stack, f)
        /\ UNCHANGED <<storage, objRefs, disposed>>
    BY <1>4, <2>a, NullAssumption DEF SetStorage, MayPass, StartFreeing, Unref, f
  <2>2. /\ stack' \in Seq(Frames)
        /\ DOMAIN stack' = DOMAIN stack \cup {n} /\ n \in DOMAIN stack'
        /\ stack'[n] = f
        /\ \A i \in DOMAIN stack : Stays(i)
    BY <2>1, <2>f, StackPushed
  <2> HIDE DEF n
  <2>3. TypeOK' /\ FreedObjects'
    BY <1>1, <2>1, <2>2, <2>a DEF TypeOK, FreedObjects
  <2>4. ObjInv'
    <3>1. \A d \in Controllers : objRefs[d] \in Nat /\ Counts(f, d) = 0
      BY <2>f DEF Counts, TypeOK
    <3>2. \A d \in Controllers : objRefs'[d] = objRefs[d] + Counts(f, d)
      BY <2>1, <3>1
    <3> QED  BY <1>1, <2>1, <2>f, <3>2, CallStarted
  <2>5. FreeInv => FreeInv'
    <3> SUFFICES ASSUME FreeInv PROVE FreeInv'
      OBVIOUS
    <3>1. /\ \A i \in DOMAIN stack : Stays(i)
          /\ \A i \in DOMAIN stack' : Stays(i) \/ i = n
          /\ stack'[n].at \in Releasing
          /\ stack'[n].ctl = c /\ stack'[n].old = storage[c]
      BY <2>2, <2>f DEF Releasing
    <3> QED  BY <1>1, <1>4, <2>1, <2>2, <2>3, <3>1, ReleaseBegun
  <2>6. PromisedNew'
    BY <1>1, <2>1, <2>2, <2>f DEF PromisedNew, Stays
  <2> QED  BY <2>3, <2>4, <2>5, <2>6
<1> QED  BY <1>3, <1>4

\* g_object_unref, called by the client or at the end of an emission of
\* "notify" (whose frame is then no longer among the callers).
LEMMA ObjUnrefSafe ==
  ASSUME CallInv, NEW c \in Controllers, NEW callers, ObjUnref(c, callers),
         Dropping(c, callers), UNCHANGED <<owned, reborn>>,
         \A i \in DOMAIN stack \ DOMAIN callers : stack[i].at = "notifying"
  PROVE  CallInv' /\ (FreeInv => FreeInv')
<1> USE DEF CallInv
<1>1. /\ objRefs[c] \in Nat \ {0} /\ callers \in Seq(Frames)
      /\ objOwned' \in [Controllers -> Nat] /\ object[c] = "live"
  BY LastReference DEF Dropping
<1>2. \A i \in DOMAIN callers : i \in DOMAIN stack /\ callers[i] = stack[i]
  BY DEF Dropping
<1>3. CASE objRefs[c] > 1
  <2>1. /\ DropObjRef(c) /\ stack' = callers
        /\ UNCHANGED <<storage, heap, refs, disposed>>
    BY <1>1, <1>3 DEF ObjUnref
  <2>2. ObjInv'
    BY <2>1, ReferenceDropped
  <2>3. TypeOK' /\ FreedObjects'
    BY <1>1, <1>3, <2>1 DEF DropObjRef, TypeOK, FreedObjects
  <2>4. FreeInv => FreeInv'
    <3> SUFFICES ASSUME FreeInv PROVE FreeInv'
      OBVIOUS
    <3>1. /\ \A i \in DOMAIN stack : stack[i].at = "notifying" \/ Stays(i)
          /\ \A i \in DOMAIN stack' : Stays(i)
      BY <1>2, <2>1 DEF Stays
    <3>2. ASSUME NEW s \in Storages
          PROVE  IF heap[s] = "live"
                 THEN refs'[s] > 0 /\ refs'[s] >= owned'[s] + Cardinality(Holders(s)')
                 ELSE owned'[s] = 0 /\ refs'[s] <= 0
      <4>1. Holders(s)' = On(storage, s)
        BY <2>1, <2>3, NullAssumption DEF FreedObjects, Holders, On
      <4> QED  BY <2>1, <4>1, Owners
    <3> QED  BY <2>1, <3>1, <3>2, FreeSame
  <2>5. PromisedNew'
    BY <1>2, <2>1 DEF PromisedNew
  <2> QED  BY <2>2, <2>3, <2>4, <2>5
<1>4. CASE objRefs[c] = 1 /\ ~IsLast(storage[c])
  <2>1. /\ DropObjRef(c) /\ stack' = callers
        /\ refs' = Ref(Unref(refs, storage[c]), NULL)
        /\ storage' = [storage EXCEPT ![c] = NULL]
        /\ disposed' = [disposed EXCEPT ![c] = FALSE]
        /\ UNCHANGED heap
    BY <1>4 DEF ObjUnref, Ref
  <2>2. ObjInv'
    BY <2>1, ReferenceDropped
  <2>3. TypeOK' /\ FreedObjects'
    BY <1>1, <2>1 DEF DropObjRef, TypeOK, FreedObjects, Ref, Unref
  <2>4. FreeInv => FreeInv'
    <3> SUFFICES ASSUME FreeInv PROVE FreeInv'
      OBVIOUS
    <3>1. /\ \A i \in DOMAIN stack : stack[i].at = "notifying" \/ Stays(i)
          /\ \A i \in DOMAIN stack' : Stays(i)
      BY <1>2, <2>1 DEF Stays
    <3> QED  BY <1>4, <2>1, <2>3, <3>1, FieldWritten
  <2>5. PromisedNew'
    BY <1>2, <2>1 DEF PromisedNew
  <2> QED  BY <2>2, <2>3, <2>4, <2>5
<1>5. CASE objRefs[c] = 1 /\ IsLast(storage[c])
  <2> DEFINE f == Frame(IF ReleasesInDispose(c) THEN "dropping" ELSE "finalizing",
                        c, storage[c], NULL)
             n == Len(callers) + 1
  <2>a. storage[c] \in Storages
    BY <1>5 DEF TypeOK, IsLast
  <2>f. /\ f \in Frames /\ f.at \in {"dropping", "finalizing"}
        /\ f.at \in Releasing /\ f.at # "notifying" /\ f.at # "replacing"
        /\ f.ctl = c /\ f.old = storage[c]
    BY <2>a, FrameFields DEF Places, Releasing
  <2>1. /\ refs' = [refs EXCEPT ![storage[c]] = @ - 1]
        /\ heap' = [heap EXCEPT ![storage[c]] = "dying"]
        /\ stack' = Append(callers, f)
        /\ UNCHANGED <<storage, disposed>>
        /\ \/ f.at = "dropping" /\ UNCHANGED <<object, objRefs>>
           \/ /\ f.at = "finalizing"
              /\ object' = [object EXCEPT ![c] = "finalizing"]
              /\ objRefs' = [objRefs EXCEPT ![c] = 0]
    BY <1>5, <2>a, NullAssumption DEF ObjUnref, StartFreeing, Unref, Frame
  <2> HIDE DEF f
  <2>2. /\ stack' \in Seq(Frames)
        /\ DOMAIN stack' = DOMAIN callers \cup {n} /\ n \in DOMAIN stack'
        /\ stack'[n] = f
        /\ \A i \in DOMAIN callers : stack'[i] = callers[i]
    BY <1>1, <2>1, <2>f, Pushed
  <2> HIDE DEF n
  <2>3. ObjInv'
    BY <1>5, <2>1, <2>f, LastDropSuspended
  <2>4. TypeOK' /\ FreedObjects'
    <3>1. /\ object' \in [Controllers -> {"none", "live", "finalizing"}]
          /\ objRefs' \in [Controllers -> Nat]
          /\ \A d \in Controllers : object'[d] = "none" => object[d] = "none"
      <4>1. /\ object \in [Controllers -> {"none", "live", "finalizing"}]
            /\ objRefs \in [Controllers -> Nat]
        BY DEF TypeOK
      <4> HIDE DEF CallInv
      <4>2. CASE UNCHANGED <<object, objRefs>>
        BY <4>1, <4>2
      <4>3. CASE /\ object' = [object EXCEPT ![c] = "finalizing"]
                 /\ objRefs' = [objRefs EXCEPT ![c] = 0]
        BY <4>1, <4>3
      <4> QED  BY <2>1, <4>2, <4>3
    <3> QED  BY <1>1, <2>1, <2>2, <2>a, <3>1 DEF TypeOK, FreedObjects
  <2>5. FreeInv => FreeInv'
    <3> SUFFICES ASSUME FreeInv PROVE FreeInv'
      OBVIOUS
    <3>1. /\ \A i \in DOMAIN stack : stack[i].at = "notifying" \/ Stays(i)
          /\ \A i \in DOMAIN stack' : Stays(i) \/ i = n
          /\ stack'[n].at \in Releasing
          /\ stack'[n].ctl = c /\ stack'[n].old = storage[c]
      BY <1>2, <2>2, <2>f DEF Stays
    <3> QED  BY <1>5, <2>1, <2>2, <2>4, <3>1, ReleaseBegun
  <2>6. PromisedNew'
    BY <1>2, <2>2, <2>f DEF PromisedNew
  <2> QED  BY <2>3, <2>4, <2>5, <2>6
<1> QED  BY <1>1, <1>3, <1>4, <1>5

LEMMA UnrefControllerSafe ==
  ASSUME CallInv, NEW c \in Controllers, UnrefController(c)
  PROVE  CallInv' /\ (FreeInv => FreeInv')
<1>1. /\ objOwned[c] > ObjPromised(c) /\ objOwned[c] \in Nat
      /\ objOwned' = [objOwned EXCEPT ![c] = @ - 1]
      /\ ObjUnref(c, stack) /\ UNCHANGED <<owned, reborn>>
      /\ stack \in Seq(Frames) /\ objOwned \in [Controllers -> Nat]
  BY DEF CallInv, TypeOK, UnrefController
<1>2. objOwned[c] > 0 /\ objOwned' \in [Controllers -> Nat]
  BY <1>1 DEF ObjPromised
<1>3. objRefs[c] > 0
  BY <1>2, CountedIsLive DEF CallInv, ObjInv
<1>4. ASSUME NEW d \in Controllers
      PROVE  objRefs[d] = objOwned'[d] + Cardinality(KeepingAlive(stack, d))
                          + (IF d = c THEN 1 ELSE 0)
  BY <1>1, CountedIsLive DEF CallInv, ObjInv
<1>5. ASSUME NEW i \in DOMAIN stack, stack[i].at = "replacing"
      PROVE  objOwned'[stack[i].ctl] > 0
  <2>1. stack[i].ctl \in Controllers /\ objOwned[stack[i].ctl] > 0
    BY <1>5 DEF CallInv, ObjInv, ObjFrames
  <2>2. CASE stack[i].ctl = c
    BY <1>1, <1>5, <2>2 DEF ObjPromised, Suspended
  <2>3. CASE stack[i].ctl # c
    BY <1>1, <2>1, <2>3
  <2> QED  BY <2>2, <2>3
<1>6. Dropping(c, stack)
  BY <1>1, <1>2, <1>3, <1>4, <1>5 DEF Dropping
<1> QED  BY <1>1, <1>6, ObjUnrefSafe

LEMMA RunDisposeSafe ==
  ASSUME CallInv, NEW c \in Controllers, RunDispose(c)
  PROVE  CallInv' /\ (FreeInv => FreeInv')
<1> USE DEF CallInv
<1>1. objOwned[c] > 0 /\ UNCHANGED <<owned, object, objOwned, reborn>>
  BY DEF RunDispose, MayCall
<1>2. object[c] = "live"
  BY <1>1, CountedIsLive DEF ObjInv
<1>3. CASE ReleasesInDispose(c) /\ IsLast(storage[c])
  <2> DEFINE f == Frame("dropping", c, storage[c], NULL)
             n == Len(stack) + 1
  <2>a. storage[c] \in Storages
    BY <1>3 DEF TypeOK, IsLast
  <2>f. f \in Frames /\ f.at = "dropping" /\ f.ctl = c /\ f.old = storage[c]
    BY <2>a, FrameFields DEF Places, Releasing
  <2> HIDE DEF f
  <2>1. /\ refs' = [refs EXCEPT ![storage[c]] = @ - 1]
        /\ heap' = [heap EXCEPT ![storage[c]] = "dying"]
        /\ stack' = Append(stack, f)
        /\ objRefs' = [objRefs EXCEPT ![c] = @ + 1]
        /\ UNCHANGED <<storage, disposed>>
    BY <1>3, <2>a, NullAssumption DEF RunDispose, StartFreeing, Unref, f
  <2>2. /\ stack' \in Seq(Frames)
        /\ DOMAIN stack' = DOMAIN stack \cup {n} /\ n \in DOMAIN stack'
        /\ stack'[n] = f
        /\ \A i \in DOMAIN stack : Stays(i)
    BY <2>1, <2>f, StackPushed
  <2> HIDE DEF n
  <2>3. TypeOK' /\ FreedObjects'
    BY <1>1, <2>a, <2>1, <2>2 DEF TypeOK, FreedObjects
  <2>4. ObjInv'
    <3>1. \A d \in Controllers : objRefs'[d] = objRefs[d] + Counts(f, d)
      BY <2>1, <2>f DEF Counts, TypeOK
    <3> QED  BY <1>1, <2>1, <2>f, <3>1, CallStarted
  <2>5. FreeInv => FreeInv'
    <3> SUFFICES ASSUME FreeInv PROVE FreeInv'
      OBVIOUS
    <3>1. /\ \A i \in DOMAIN stack : Stays(i)
          /\ \A i \in DOMAIN stack' : Stays(i) \/ i = n
          /\ stack'[n].at \in Releasing
          /\ stack'[n].ctl = c /\ stack'[n].old = storage[c]
      BY <2>2, <2>f DEF Releasing
    <3> QED  BY <1>1, <1>3, <2>1, <2>2, <2>3, <3>1, ReleaseBegun
  <2>6. PromisedNew'
    BY <1>1, <2>2, <2>f DEF PromisedNew, Stays
  <2> QED  BY <2>3, <2>4, <2>5, <2>6
<1>4. CASE ReleasesInDispose(c) /\ ~IsLast(storage[c])
  <2>1. /\ refs' = Ref(Unref(refs, storage[c]), NULL)
        /\ storage' = [storage EXCEPT ![c] = NULL]
        /\ disposed' = [disposed EXCEPT ![c] = TRUE]
        /\ UNCHANGED <<heap, objRefs, stack>>
    BY <1>4 DEF RunDispose, Ref
  <2>2. TypeOK' /\ FreedObjects' /\ PromisedNew'
    BY <1>1, <2>1 DEF TypeOK, FreedObjects, PromisedNew, Ref, Unref
  <2>3. FreeInv => FreeInv'
    <3> SUFFICES ASSUME FreeInv PROVE FreeInv'
      OBVIOUS
    <3>1. DOMAIN stack' = DOMAIN stack /\ \A i \in DOMAIN stack : Stays(i)
      BY <2>1 DEF Stays
    <3> QED  BY <1>1, <1>4, <2>1, <2>2, <3>1, FieldWritten
  <2> QED  BY <1>1, <2>1, <2>2, <2>3, ObjSame
<1>5. CASE ~ReleasesInDispose(c)
  <2>1. /\ disposed' = [disposed EXCEPT ![c] = TRUE]
        /\ UNCHANGED <<storage, heap, refs, objRefs, stack>>
    BY <1>5 DEF RunDispose
  <2>2. TypeOK' /\ FreedObjects' /\ PromisedNew'
    BY <1>1, <2>1 DEF TypeOK, FreedObjects, PromisedNew
  <2>3. FreeInv => FreeInv'
    BY <1>1, <2>1 DEF FreeInv, CountsFit, Holders, NoDanglingStorage, Suspended,
                      FreeFrames, DyingFrames, OneRelease
  <2> QED  BY <1>1, <2>1, <2>2, <2>3, ObjSame
<1> QED  BY <1>3, <1>4, <1>5

-----------------------------------------------------------------------------
(* The returns.                                                            *)

\* Giving a storage back keeps the types.
LEMMA FreeingTyped ==
  ASSUME TypeOK, NEW o, NEW x \in Storages \cup {NULL}
  PROVE  /\ [heap EXCEPT ![o] = "none"] \in [Storages -> {"none", "live", "dying"}]
         /\ Ref([refs EXCEPT ![o] = 0], x) \in [Storages -> Int]
<1>1. /\ heap \in [Storages -> {"none", "live", "dying"}] /\ refs \in [Storages -> Int]
  BY DEF TypeOK
<1>2. [refs EXCEPT ![o] = 0] \in [Storages -> Int]
  <2>1. 0 \in Int
    OBVIOUS
  <2> QED  BY <1>1, <2>1, Zenon
<1>3. \A r \in [Storages -> Int] : Ref(r, x) \in [Storages -> Int]
  BY DEF Ref
<1> QED  BY <1>1, <1>2, <1>3

\* The setter installs what it was called for.  Whatever a free function set
\* on the controller meanwhile is overwritten.
LEMMA ReturnToSetterSafe ==
  ASSUME CallInv, ReturnToSetter
  PROVE  CallInv' /\ (FreeInv => FreeInv')
<1> DEFINE c == Top.ctl
           f == Frame("notifying", c, NULL, NULL)
           n == Len(stack)
<1> USE DEF CallInv
<1>1. /\ stack # <<>> /\ Top.at = "replacing"
      /\ heap' = [heap EXCEPT ![Top.old] = "none"]
      /\ storage' = [storage EXCEPT ![c] = Top.new]
      /\ refs' = Ref([refs EXCEPT ![Top.old] = 0], Top.new)
      /\ disposed' = [disposed EXCEPT ![c] = @ /\ Top.new = NULL]
      /\ objRefs' = [objRefs EXCEPT ![c] = @ + 1]
      /\ stack' = Append(Callers, f)
      /\ UNCHANGED <<owned, object, objOwned, reborn>>
  BY DEF ReturnToSetter, Install, Notify, Free, Freed
<1>2. /\ c \in Controllers /\ Top.new \in Storages \cup {NULL}
      /\ Top.at \in Releasing /\ Top.at # "notifying" /\ n \in DOMAIN stack
      /\ objOwned[c] > 0 /\ (Top.new # NULL => owned[Top.new] > 0)
  <2>1. Top.new \in Storages \cup {NULL}
    BY <1>1, InnermostFrame DEF Frames
  <2> QED  BY <1>1, <2>1, InnermostFrame DEF ObjInv, ObjFrames, PromisedNew, Releasing
<1> HIDE DEF c
<1>f. f \in Frames /\ f.at = "notifying" /\ f.ctl = c
  <2>1. "notifying" \in Places /\ c \in Controllers \cup {NULL} /\ NULL \in Storages \cup {NULL}
    BY <1>2 DEF Places
  <2> QED  BY <2>1, FrameFields
<1> HIDE DEF f
<1>3. /\ stack' \in Seq(Frames) /\ DOMAIN stack' = DOMAIN stack
      /\ stack'[n] = f
      /\ \A i \in DOMAIN stack \ {n} : Stays(i)
      /\ \A d \in Controllers :
           Cardinality(KeepingAlive(stack', d)) =
             Cardinality(KeepingAlive(stack, d)) - Counts(Top, d) + Counts(f, d)
  BY <1>1, <1>f, StackReplaced
<1>4. object[c] = "live" /\ Top = stack[n]
  BY <1>1, <1>2, CountedIsLive, InnermostFrame DEF ObjInv
<1> HIDE DEF n
<1>5. TypeOK'
  <2>1. /\ heap' \in [Storages -> {"none", "live", "dying"}]
        /\ refs' \in [Storages -> Int]
    BY <1>1, <1>2, FreeingTyped
  <2>2. /\ storage' \in [Controllers -> Storages \cup {NULL}]
        /\ disposed' \in [Controllers -> BOOLEAN]
        /\ objRefs' \in [Controllers -> Nat]
    BY <1>1, <1>2 DEF TypeOK
  <2> QED  BY <1>1, <1>3, <2>1, <2>2 DEF TypeOK
<1>6. FreedObjects'
  BY <1>1, <1>4 DEF FreedObjects, TypeOK
<1>7. FreeInv => FreeInv'
  <2> SUFFICES ASSUME FreeInv PROVE FreeInv'
    OBVIOUS
  <2>1. /\ \A i \in DOMAIN stack \ {n} : stack[i].at = "notifying" \/ Stays(i)
        /\ \A i \in DOMAIN stack' : stack'[i].at = "notifying" \/ (Stays(i) /\ i # n)
    BY <1>3, <1>f
  <2> QED  BY <1>1, <1>2, <1>6, <2>1, FreeingEnded DEF c, n
<1>8. ObjRefsBalanced'
  <2>1. ASSUME NEW d \in Controllers
        PROVE  /\ objRefs'[d] = objOwned'[d] + Cardinality(KeepingAlive(stack', d))
               /\ object'[d] = "live" <=> objRefs'[d] > 0
    <3>1. Cardinality(KeepingAlive(stack', d)) =
            Cardinality(KeepingAlive(stack, d)) + (IF d = c THEN 1 ELSE 0)
      BY <1>1, <1>3, <1>f, CountedIsLive DEF Counts, ObjInv
    <3>2. objRefs'[d] = objRefs[d] + (IF d = c THEN 1 ELSE 0)
      BY <1>1 DEF TypeOK
    <3> QED  BY <1>1, <1>4, <3>1, <3>2, CountedIsLive DEF ObjInv
  <2>2. \A d \in Controllers : Suspended(d, Places)' => object'[d] # "none"
    BY <1>1, <1>2, <1>3, <1>4, <1>f DEF ObjInv, ObjRefsBalanced, Suspended, Stays
  <2> QED  BY <2>1, <2>2 DEF ObjRefsBalanced
<1>9. ObjFrames'
  <2>1. ASSUME NEW i \in DOMAIN stack'
        PROVE  /\ IF stack'[i].at = "freeing" THEN stack'[i].ctl = NULL
                                              ELSE stack'[i].ctl \in Controllers
               /\ stack'[i].at = "replacing" => objOwned'[stack'[i].ctl] > 0
               /\ stack'[i].at = "finalizing" => object'[stack'[i].ctl] = "finalizing"
    BY <1>1, <1>2, <1>3, <1>f DEF ObjInv, ObjFrames, Stays
  <2>2. \A i, j \in DOMAIN stack' :
          /\ stack'[i].at = "finalizing" /\ stack'[j].at = "finalizing"
          /\ stack'[i].ctl = stack'[j].ctl
          => i = j
    BY <1>3, <1>f DEF ObjInv, ObjFrames, Stays
  <2>3. ASSUME NEW d \in Controllers, object'[d] = "finalizing"
        PROVE  Suspended(d, {"finalizing"})'
    <3>1. PICK i \in DOMAIN stack : stack[i].at = "finalizing" /\ stack[i].ctl = d
      BY <1>1, <2>3 DEF ObjInv, ObjFrames, Suspended
    <3>2. i # n
      BY <1>1, <1>4, <3>1
    <3> QED  BY <1>3, <3>1, <3>2 DEF Suspended, Stays
  <2> QED  BY <2>1, <2>2, <2>3 DEF ObjFrames
<1>10. PromisedNew'
  BY <1>1, <1>3, <1>f DEF PromisedNew, Stays
<1> QED  BY <1>5, <1>6, <1>7, <1>8, <1>9, <1>10 DEF ObjInv

LEMMA ReturnToDisposeSafe ==
  ASSUME CallInv, ReturnToDispose
  PROVE  CallInv' /\ (FreeInv => FreeInv')
<1> DEFINE c == Top.ctl
           n == Len(stack)
<1> USE DEF CallInv
<1>1. /\ stack # <<>> /\ Top.at = "dropping"
      /\ heap' = [heap EXCEPT ![Top.old] = "none"]
      /\ storage' = [storage EXCEPT ![c] = NULL]
      /\ refs' = Ref([refs EXCEPT ![Top.old] = 0], NULL)
      /\ disposed' = [disposed EXCEPT ![c] = objRefs[c] > 1]
      /\ DropObjRef(c) /\ stack' = Callers
      /\ UNCHANGED <<owned, objOwned, reborn>>
  BY DEF ReturnToDispose, Free, Freed, Ref
<1>2. /\ c \in Controllers /\ Top = stack[n]
      /\ Top.at \in Releasing /\ Top.at # "notifying" /\ n \in DOMAIN stack
  BY <1>1, InnermostFrame DEF Releasing
<1>c. Top.ctl = c
  OBVIOUS
<1> HIDE DEF c
<1>3. /\ stack' \in Seq(Frames) /\ DOMAIN stack' = DOMAIN stack \ {n}
      /\ \A i \in DOMAIN stack \ {n} : Stays(i)
      /\ \A d \in Controllers :
           Cardinality(KeepingAlive(stack', d)) =
             Cardinality(KeepingAlive(stack, d)) - (IF d = c THEN 1 ELSE 0)
  BY <1>1, <1>c, StackPopped DEF Counts
<1> HIDE DEF n
<1>4. Dropping(c, stack')
  <2>1. ASSUME NEW d \in Controllers
        PROVE  objRefs[d] = objOwned'[d] + Cardinality(KeepingAlive(stack', d))
                            + (IF d = c THEN 1 ELSE 0)
    <3>1. /\ objRefs[d] = objOwned[d] + Cardinality(KeepingAlive(stack, d))
          /\ Cardinality(KeepingAlive(stack, d)) \in Nat
          /\ objRefs[d] \in Nat /\ objOwned[d] \in Nat
      BY CountedIsLive DEF ObjInv
    <3> QED  BY <1>1, <1>3, <3>1
  <2>2. Cardinality(KeepingAlive(stack', c)) \in Nat /\ objOwned'[c] \in Nat
    BY <1>1, <1>2, <1>3, KeepingFinite DEF TypeOK
  <2>3. objRefs[c] > 0
    BY <1>2, <2>1, <2>2
  <2>4. /\ \A i \in DOMAIN stack' : i \in DOMAIN stack /\ stack'[i] = stack[i]
        /\ \A i \in DOMAIN stack \ DOMAIN stack' : stack[i].at \in {"notifying", "dropping"}
    BY <1>1, <1>2, <1>3 DEF Stays
  <2>5. \A i \in DOMAIN stack' : stack'[i].at = "replacing" => objOwned'[stack'[i].ctl] > 0
    BY <1>1, <2>4 DEF ObjInv, ObjFrames
  <2>6. objOwned' \in [Controllers -> Nat]
    BY <1>1 DEF TypeOK
  <2> QED  BY <1>3, <2>1, <2>3, <2>4, <2>5, <2>6 DEF Dropping
<1>5. ObjInv'
  BY <1>1, <1>2, <1>4, ReferenceDropped
<1>6. TypeOK'
  <2>1. objRefs[c] \in Nat \ {0}
    BY <1>2, <1>4 DEF Dropping, TypeOK
  <2>2. /\ heap' \in [Storages -> {"none", "live", "dying"}]
        /\ refs' \in [Storages -> Int]
    BY <1>1, FreeingTyped
  <2>3. /\ storage' \in [Controllers -> Storages \cup {NULL}]
        /\ object' \in [Controllers -> {"none", "live", "finalizing"}]
        /\ objRefs' \in [Controllers -> Nat]
    BY <1>1, <1>2, <2>1 DEF TypeOK, DropObjRef
  <2>4. disposed' \in [Controllers -> BOOLEAN]
    BY <1>1, <1>2 DEF TypeOK
  <2> QED  BY <1>1, <1>3, <2>2, <2>3, <2>4 DEF TypeOK
<1>7. FreedObjects'
  BY <1>1 DEF DropObjRef, FreedObjects, TypeOK
<1>8. FreeInv => FreeInv'
  <2> SUFFICES ASSUME FreeInv PROVE FreeInv'
    OBVIOUS
  <2>1. /\ \A i \in DOMAIN stack \ {n} : stack[i].at = "notifying" \/ Stays(i)
        /\ \A i \in DOMAIN stack' : stack'[i].at = "notifying" \/ (Stays(i) /\ i # n)
    BY <1>3
  <2> QED  BY <1>1, <1>2, <1>c, <1>7, <2>1, FreeingEnded DEF n
<1>9. PromisedNew'
  BY <1>1, <1>3 DEF PromisedNew, Stays
<1> QED  BY <1>5, <1>6, <1>7, <1>8, <1>9

LEMMA ReturnToFinalizeSafe ==
  ASSUME CallInv, ReturnToFinalize
  PROVE  CallInv' /\ (FreeInv => FreeInv')
<1> DEFINE c == Top.ctl
           n == Len(stack)
<1> USE DEF CallInv
<1>1. /\ stack # <<>> /\ Top.at = "finalizing"
      /\ heap' = [heap EXCEPT ![Top.old] = "none"]
      /\ storage' = [storage EXCEPT ![c] = NULL]
      /\ refs' = Ref([refs EXCEPT ![Top.old] = 0], NULL)
      /\ disposed' = [disposed EXCEPT ![c] = FALSE]
      /\ object' = [object EXCEPT ![c] = "none"]
      /\ stack' = Callers
      /\ UNCHANGED <<owned, objRefs, objOwned, reborn>>
  BY DEF ReturnToFinalize, Free, Freed, Ref
<1>2. /\ c \in Controllers /\ Top = stack[n]
      /\ Top.at \in Releasing /\ Top.at # "notifying" /\ n \in DOMAIN stack
      /\ object[c] = "finalizing"
  BY <1>1, InnermostFrame DEF Releasing, ObjInv, ObjFrames
<1>c. Top.ctl = c
  OBVIOUS
<1> HIDE DEF c
<1>3. /\ stack' \in Seq(Frames) /\ DOMAIN stack' = DOMAIN stack \ {n}
      /\ \A i \in DOMAIN stack \ {n} : Stays(i)
      /\ \A d \in Controllers :
           Cardinality(KeepingAlive(stack', d)) = Cardinality(KeepingAlive(stack, d))
  BY <1>1, StackPopped, CountedIsLive DEF Counts, ObjInv
<1> HIDE DEF n
<1>4. /\ objRefs[c] = 0 /\ objOwned[c] = 0
      /\ Cardinality(KeepingAlive(stack, c)) = 0
  BY <1>2, CountedIsLive DEF ObjInv
<1>5. TypeOK' /\ FreedObjects'
  BY <1>1, <1>2, <1>3, FreeingTyped DEF TypeOK, FreedObjects
<1>6. FreeInv => FreeInv'
  <2> SUFFICES ASSUME FreeInv PROVE FreeInv'
    OBVIOUS
  <2>1. /\ \A i \in DOMAIN stack \ {n} : stack[i].at = "notifying" \/ Stays(i)
        /\ \A i \in DOMAIN stack' : stack'[i].at = "notifying" \/ (Stays(i) /\ i # n)
    BY <1>3
  <2> QED  BY <1>1, <1>2, <1>c, <1>5, <2>1, FreeingEnded DEF n
<1>7. \A i \in DOMAIN stack' : stack'[i].ctl # c
  <2>1. KeepingAlive(stack, c) = {}
    BY <1>4, KeepingFinite, FS_EmptySet DEF TypeOK
  <2>2. \A i \in DOMAIN stack :
          stack[i].ctl = c => stack[i].at \notin {"notifying", "dropping", "replacing"}
    BY <1>4, <2>1 DEF KeepingAlive, ObjInv, ObjFrames
  <2>3. \A i \in DOMAIN stack : stack[i].ctl = c /\ i # n => stack[i].at # "finalizing"
    BY <1>1, <1>2, <1>c DEF ObjInv, ObjFrames
  <2>4. \A i \in DOMAIN stack : stack[i].at = "freeing" => stack[i].ctl # c
    BY <1>2, NullAssumption DEF ObjInv, ObjFrames
  <2>5. \A i \in DOMAIN stack : stack[i].at \in Places
    BY FramesTyped DEF Frames
  <2> QED  BY <1>3, <2>2, <2>3, <2>4, <2>5 DEF Places, Releasing, Stays
<1>8. ObjRefsBalanced'
  <2>1. ASSUME NEW d \in Controllers
        PROVE  /\ objRefs'[d] = objOwned'[d] + Cardinality(KeepingAlive(stack', d))
               /\ object'[d] = "live" <=> objRefs'[d] > 0
    <3>1. objRefs'[d] = objRefs[d] /\ objOwned'[d] = objOwned[d]
      BY <1>1
    <3>2. object'[d] = "live" <=> object[d] = "live"
      BY <1>1, <1>2 DEF TypeOK
    <3> QED  BY <1>3, <3>1, <3>2, CountedIsLive DEF ObjInv
  <2>2. \A d \in Controllers : Suspended(d, Places)' => object'[d] # "none"
    BY <1>1, <1>3, <1>7 DEF ObjInv, ObjRefsBalanced, Suspended, Stays, TypeOK
  <2> QED  BY <2>1, <2>2 DEF ObjRefsBalanced
<1>9. ObjFrames'
  <2>1. ASSUME NEW i \in DOMAIN stack'
        PROVE  /\ IF stack'[i].at = "freeing" THEN stack'[i].ctl = NULL
                                              ELSE stack'[i].ctl \in Controllers
               /\ stack'[i].at = "replacing" => objOwned'[stack'[i].ctl] > 0
               /\ stack'[i].at = "finalizing" => object'[stack'[i].ctl] = "finalizing"
    BY <1>1, <1>3, <1>7 DEF ObjInv, ObjFrames, Stays, TypeOK
  <2>2. \A i, j \in DOMAIN stack' :
          /\ stack'[i].at = "finalizing" /\ stack'[j].at = "finalizing"
          /\ stack'[i].ctl = stack'[j].ctl
          => i = j
    BY <1>3 DEF ObjInv, ObjFrames, Stays
  <2>3. ASSUME NEW d \in Controllers, object'[d] = "finalizing"
        PROVE  Suspended(d, {"finalizing"})'
    <3>1. object[d] = "finalizing" /\ d # c
      BY <1>1, <1>2, <2>3 DEF TypeOK
    <3> QED  BY <1>c, <1>2, <1>3, <3>1 DEF ObjInv, ObjFrames, Suspended, Stays
  <2> QED  BY <2>1, <2>2, <2>3 DEF ObjFrames
<1>10. PromisedNew'
  BY <1>1, <1>3 DEF PromisedNew, Stays
<1> QED  BY <1>5, <1>6, <1>8, <1>9, <1>10 DEF ObjInv

LEMMA ReturnToNotifySafe ==
  ASSUME CallInv, ReturnToNotify
  PROVE  CallInv' /\ (FreeInv => FreeInv')
<1> DEFINE c == Top.ctl
<1> USE DEF CallInv
<1>1. /\ stack # <<>> /\ Top.at = "notifying" /\ stack \in Seq(Frames)
      /\ ObjUnref(c, Callers) /\ UNCHANGED <<owned, reborn>> /\ objOwned' = objOwned
      /\ objOwned \in [Controllers -> Nat]
  BY DEF ReturnToNotify, TypeOK
<1>2. c \in Controllers /\ Top.ctl = c
  BY <1>1, InnermostFrame
<1> HIDE DEF c
<1>3. /\ Callers \in Seq(Frames) /\ Len(stack) \in Nat \ {0}
      /\ DOMAIN stack = 1..Len(stack) /\ DOMAIN Callers = 1..(Len(stack) - 1)
      /\ \A i \in 1..(Len(stack) - 1) : Callers[i] = stack[i]
  BY <1>1, Popped DEF Callers
<1>4. /\ \A i \in DOMAIN Callers : i \in DOMAIN stack /\ Callers[i] = stack[i]
      /\ \A i \in DOMAIN stack \ DOMAIN Callers : stack[i].at = "notifying"
  BY <1>1, <1>3 DEF Top
<1>5. ASSUME NEW d \in Controllers
      PROVE  /\ Cardinality(KeepingAlive(Callers, d)) \in Nat
             /\ objRefs[d] = objOwned'[d] + Cardinality(KeepingAlive(Callers, d))
                             + (IF d = c THEN 1 ELSE 0)
  <2>1. Cardinality(KeepingAlive(Callers, d)) =
          Cardinality(KeepingAlive(stack, d)) - (IF d = c THEN 1 ELSE 0)
    BY <1>1, <1>2, KeepingPopped DEF Callers, Top
  <2>2. Cardinality(KeepingAlive(Callers, d)) \in Nat
    BY <1>3, KeepingFinite
  <2> QED  BY <1>1, <2>1, <2>2, CountedIsLive DEF ObjInv
<1>6. objRefs[c] > 0
  BY <1>1, <1>2, <1>5
<1>7. \A i \in DOMAIN Callers : Callers[i].at = "replacing" => objOwned'[Callers[i].ctl] > 0
  BY <1>1, <1>4 DEF ObjInv, ObjFrames
<1>8. Dropping(c, Callers)
  BY <1>1, <1>3, <1>4, <1>5, <1>6, <1>7 DEF Dropping
<1> QED  BY <1>1, <1>2, <1>4, <1>8, ObjUnrefSafe

LEMMA ReturnToUnrefSafe ==
  ASSUME CallInv, ReturnToUnref
  PROVE  CallInv' /\ (FreeInv => FreeInv')
<1> DEFINE n == Len(stack)
<1> USE DEF CallInv
<1>1. /\ stack # <<>> /\ Top.at = "freeing"
      /\ heap' = [heap EXCEPT ![Top.old] = "none"]
      /\ refs' = Ref([refs EXCEPT ![Top.old] = 0], NULL)
      /\ stack' = Callers
      /\ UNCHANGED <<storage, owned, object, objRefs, objOwned, disposed, reborn>>
  BY DEF ReturnToUnref, Free, Freed, Ref
<1>2. /\ n \in DOMAIN stack /\ Top = stack[n] /\ Top.ctl = NULL
  BY <1>1, InnermostFrame
<1>3. /\ stack' \in Seq(Frames) /\ DOMAIN stack' = DOMAIN stack \ {n}
      /\ \A i \in DOMAIN stack \ {n} : Stays(i)
      /\ \A d \in Controllers :
           Cardinality(KeepingAlive(stack', d)) = Cardinality(KeepingAlive(stack, d))
  BY <1>1, StackPopped, CountedIsLive DEF Counts, ObjInv
<1> HIDE DEF n
<1>4. TypeOK' /\ FreedObjects'
  BY <1>1, <1>2, <1>3, FreeingTyped DEF TypeOK, FreedObjects
<1>5. FreeInv => FreeInv'
  <2> SUFFICES ASSUME FreeInv PROVE FreeInv'
    OBVIOUS
  <2>1. /\ \A i \in DOMAIN stack \ {n} : stack[i].at = "notifying" \/ Stays(i)
        /\ \A i \in DOMAIN stack' : stack'[i].at = "notifying" \/ (Stays(i) /\ i # n)
    BY <1>3
  <2> QED  BY <1>1, <1>4, <2>1, FreeingEnded DEF n
<1>6. ObjInv'
  <2>1. \A d \in Controllers : Suspended(d, Places)' => Suspended(d, Places)
    BY <1>3 DEF Suspended, Stays
  <2>2. ObjRefsBalanced'
    BY <1>1, <1>3, <2>1 DEF ObjInv, ObjRefsBalanced
  <2>3. ObjFrames'
    BY <1>1, <1>2, <1>3 DEF ObjInv, ObjFrames, Suspended, Stays
  <2> QED  BY <2>2, <2>3 DEF ObjInv
<1>7. PromisedNew'
  BY <1>1, <1>3 DEF PromisedNew, Stays
<1> QED  BY <1>4, <1>5, <1>6, <1>7

-----------------------------------------------------------------------------
(* The invariant.                                                          *)

LEMMA InitSafe == Init => SafeInv
<1> SUFFICES ASSUME Init PROVE SafeInv
  OBVIOUS
<1>1. TypeOK
  <2>1. reborn \in BOOLEAN
    BY Zenon DEF Init
  <2> QED  BY <2>1 DEF Init, TypeOK
<1>2. ObjInv
  <2>1. \A c \in Controllers : KeepingAlive(stack, c) = {} /\ ~Suspended(c, Places)
    BY DEF Init, KeepingAlive, Suspended
  <2>2. /\ objRefs = [c \in Controllers |-> 0] /\ objOwned = [c \in Controllers |-> 0]
        /\ object = [c \in Controllers |-> "none"] /\ stack = <<>>
    BY DEF Init
  <2>3. ObjRefsBalanced
    BY <2>1, <2>2, FS_EmptySet DEF ObjRefsBalanced
  <2> QED  BY <2>2, <2>3 DEF ObjInv, ObjFrames
<1>3. FreeInv
  BY DEF Init, FreeInv, CountsFit, NoDanglingStorage, FreeFrames, DyingFrames, OneRelease
<1>4. PromisedNew /\ FreedObjects
  BY DEF Init, PromisedNew, FreedObjects
<1> QED  BY <1>1, <1>2, <1>3, <1>4 DEF SafeInv, CallInv

\* A step that takes no reference on what is being freed keeps the storages safe.
LEMMA NextSafe ==
  ASSUME CallInv, [Next]_vars
  PROVE  CallInv' /\ (FreeInv /\ ~reborn' => FreeInv') /\ (reborn => reborn')
<1> DEFINE Safe == CallInv' /\ (FreeInv => FreeInv') /\ reborn' = reborn
<1>1. ASSUME NEW s \in Storages, NewStorage(s) \/ RefStorage(s) \/ UnrefStorage(s)
      PROVE  Safe
  BY <1>1, NewStorageSafe, RefStorageSafe, UnrefStorageSafe
     DEF NewStorage, RefStorage, UnrefStorage
<1>2. ASSUME NEW c \in Controllers,
             RefController(c) \/ UnrefController(c) \/ RunDispose(c)
      PROVE  Safe
  BY <1>2, RefControllerSafe, UnrefControllerSafe, RunDisposeSafe
     DEF RefController, UnrefController, RunDispose
<1>3. ASSUME NEW c \in Controllers, NEW s \in StoragesOf(c) \cup {NULL}, NewController(c, s)
      PROVE  Safe
  BY <1>3, NewControllerSafe DEF NewController
<1>4. ASSUME NEW c \in Controllers, NEW s \in StoragesOf(c) \cup {NULL}, SetStorage(c, s)
      PROVE  Safe
  <2>1. s \in Storages \cup {NULL}
    BY DEF StoragesOf, Storages
  <2>2. reborn' = reborn
    BY <1>4 DEF SetStorage
  <2> QED  BY <1>4, <2>1, <2>2, SetStorageSafe
<1>5. CASE Return
  <2>1. reborn' = reborn
    BY <1>5 DEF Return, ReturnToSetter, ReturnToDispose, ReturnToFinalize,
                ReturnToNotify, ReturnToUnref
  <2>2. Safe
    BY <1>5, <2>1, ReturnToSetterSafe, ReturnToDisposeSafe, ReturnToFinalizeSafe,
       ReturnToNotifySafe, ReturnToUnrefSafe DEF Return
  <2> QED  BY <2>2
<1>6. ASSUME NEW c \in Controllers, GetProperty(c)
      PROVE  CallInv' /\ (FreeInv /\ ~reborn' => FreeInv') /\ (reborn => reborn')
  <2>1. reborn => reborn'
    BY <1>6 DEF GetProperty
  <2> QED  BY <1>6, <2>1, GetPropertySafe
<1>7. CASE UNCHANGED vars
  <2> USE <1>7 DEF vars, CallInv
  <2>1. TypeOK' /\ PromisedNew' /\ FreedObjects'
    BY DEF TypeOK, PromisedNew, FreedObjects
  <2>2. FreeInv => FreeInv'
    <3>1. \A s \in Storages : Holders(s)' = Holders(s)
      BY DEF Holders
    <3>2. CountsFit => CountsFit'
      BY <3>1 DEF CountsFit
    <3>3. NoDanglingStorage => NoDanglingStorage'
      BY DEF NoDanglingStorage, Suspended
    <3> QED
      BY <3>2, <3>3 DEF FreeInv, FreeFrames, DyingFrames, OneRelease
  <2>3. reborn' = reborn
    OBVIOUS
  <2> QED  BY <2>1, <2>2, <2>3, ObjSame
<1> QED
  BY <1>1, <1>2, <1>3, <1>4, <1>5, <1>6, <1>7
  DEF Next, g_array_controller_set_array, g_ptr_array_controller_set_array,
      g_hash_controller_set_hash

\* The invariant holds in every state: about the controllers and the calls in
\* any case, about the storages until a free function reads the property of the
\* controller that is releasing.
THEOREM SafetyHolds == Spec => []SafeInv
<1>1. Init => SafeInv
  BY InitSafe
<1>2. SafeInv /\ [Next]_vars => SafeInv'
  BY NextSafe DEF SafeInv
<1> QED  BY <1>1, <1>2, PTL DEF Spec

-----------------------------------------------------------------------------
(* What it shows.                                                          *)

\* Every variable keeps its type: in particular no reference count of a
\* controller goes below zero.
THEOREM TypesHold == Spec => []TypeOK
<1>1. SafeInv => TypeOK
  BY DEF SafeInv, CallInv
<1> QED  BY <1>1, SafetyHolds, PTL

\* A controller is alive exactly as long as the client or a call suspended in
\* it holds a reference.
THEOREM ControllersStayAlive == Spec => []ObjRefsBalanced
<1>1. SafeInv => ObjRefsBalanced
  BY DEF SafeInv, CallInv, ObjInv
<1> QED  BY <1>1, SafetyHolds, PTL

\* Whatever free functions do to the controller that is releasing, its field
\* points to no freed memory until one of them reads it.
THEOREM FieldsNeverDangleUnlessRead == Spec => []NoDanglingUnlessRead
<1>1. SafeInv => NoDanglingUnlessRead
  BY DEF SafeInv, FreeInv, NoDanglingUnlessRead
<1> QED  BY <1>1, SafetyHolds, PTL

\* Until then a storage never has fewer references than owners: whatever a
\* setter loses, it drops no reference of another owner.
THEOREM OwnersKeepTheirReferences == Spec => []NeverUndercounted
<1>1. SafeInv => NeverUndercounted
  BY DEF SafeInv, FreeInv, CountsFit, NeverUndercounted
<1> QED  BY <1>1, SafetyHolds, PTL

\* Until then what is being freed is freed by one suspended call, and by that
\* alone; an instance is in any case.
THEOREM StoragesAreFreedOnce == Spec => []FreedByOneCall
<1>1. SafeInv => FreedByOneCall
  <2> SUFFICES ASSUME SafeInv PROVE FreedByOneCall
    OBVIOUS
  <2>1. ASSUME FreeInv, NEW s \in Storages
        PROVE  Cardinality(Releasers(s)) = IF heap[s] = "dying" THEN 1 ELSE 0
    <3>1. CASE heap[s] = "dying"
      <4>1. PICK i \in DOMAIN stack : stack[i].at # "notifying" /\ stack[i].old = s
        BY <2>1, <3>1 DEF FreeInv, DyingFrames
      <4>2. Releasers(s) = {i}
        BY <2>1, <4>1 DEF Releasers, FreeInv, OneRelease
      <4> QED  BY <3>1, <4>2, FS_Singleton
    <3>2. CASE heap[s] # "dying"
      <4>1. Releasers(s) = {}
        BY <2>1, <3>2 DEF Releasers, FreeInv, FreeFrames
      <4> QED  BY <3>2, <4>1, FS_EmptySet
    <3> QED  BY <3>1, <3>2
  <2>2. \A c \in Controllers : object[c] = "finalizing" <=> Suspended(c, {"finalizing"})
    BY DEF SafeInv, CallInv, ObjInv, ObjFrames, Suspended
  <2> QED  BY <2>1, <2>2 DEF FreedByOneCall, SafeInv
<1> QED  BY <1>1, SafetyHolds, PTL

\* Free functions that leave the controller alone never read its property.
LEMMA NothingReborn ==
  ASSUME ~FreeFuncsReenter
  PROVE  Spec => []~reborn
<1>1. Init => ~reborn
  BY DEF Init
<1>2. ASSUME IInv, ~reborn, [Next]_vars
      PROVE  ~reborn'
  <2>1. ASSUME NEW c \in Controllers, GetProperty(c)
        PROVE  ~reborn'
    <3>1. heap[storage[c]] = "live"
      BY <1>2, <2>1 DEF GetProperty, MayCall, IInv, NoDanglingStorage
    <3>2. reborn' <=> reborn \/ heap[storage[c]] = "dying"
      BY <2>1 DEF GetProperty
    <3> QED  BY <1>2, <3>1, <3>2
  <2>2. reborn' = reborn \/ \E c \in Controllers : GetProperty(c)
    BY <1>2 DEF Next, vars, NewStorage, RefStorage, UnrefStorage, RefController,
       UnrefController, RunDispose, NewController, SetStorage, g_array_controller_set_array,
       g_ptr_array_controller_set_array, g_hash_controller_set_hash, Return,
       ReturnToSetter, ReturnToDispose, ReturnToFinalize, ReturnToNotify, ReturnToUnref
  <2> QED  BY <1>2, <2>1, <2>2
<1> QED  BY <1>1, <1>2, InvariantHolds, PTL DEF Spec

\* Where the free functions leave the controller alone, so that no reference is
\* lost, nothing is left once the client has let go and every call returned.
THEOREM NothingIsLeftBehind ==
  ASSUME ~FreeFuncsReenter
  PROVE  Spec => []NothingLeftBehind
<1>1. IInv /\ SafeInv /\ ~reborn => NothingLeftBehind
  <2> SUFFICES ASSUME IInv, SafeInv, ~reborn, stack = <<>>, ClientGone
               PROVE  /\ \A s \in Storages : heap[s] = "none"
                      /\ \A c \in Controllers : object[c] = "none"
    BY DEF NothingLeftBehind
  <2>1. ASSUME NEW c \in Controllers
        PROVE  object[c] = "none"
    <3>1. KeepingAlive(stack, c) = {} /\ ~Suspended(c, {"finalizing"})
      BY DEF KeepingAlive, Suspended
    <3>2. objRefs[c] = objOwned[c] + Cardinality(KeepingAlive(stack, c))
      BY DEF SafeInv, CallInv, ObjInv, ObjRefsBalanced
    <3>3. objOwned[c] = 0 /\ Cardinality(KeepingAlive(stack, c)) = 0
      BY <3>1, FS_EmptySet DEF ClientGone
    <3>4. object[c] # "live" /\ object[c] # "finalizing"
      BY <3>1, <3>2, <3>3 DEF SafeInv, CallInv, ObjInv, ObjRefsBalanced, ObjFrames
    <3> QED  BY <3>4 DEF IInv, TypeOK
  <2>2. ASSUME NEW s \in Storages
        PROVE  heap[s] = "none"
    <3>1. heap[s] # "dying"
      BY DEF SafeInv, FreeInv, DyingFrames
    <3>2. Holders(s) = {}
      BY <2>1 DEF Holders
    <3>3. Cardinality(Holders(s)) = 0 /\ owned[s] = 0
      BY <3>2, FS_EmptySet DEF ClientGone
    <3>4. heap[s] # "live"
      BY <3>3 DEF IInv, RefsBalanced
    <3> QED  BY <3>1, <3>4 DEF IInv, TypeOK
  <2> QED  BY <2>1, <2>2
<1> QED  BY <1>1, InvariantHolds, SafetyHolds, NothingReborn, PTL

\* Every call comes to an end: a return leaves less to do, and a client that
\* owns nothing cannot start another call.
THEOREM CallsComeToAnEnd == Spec => CallsEnd
<1>1. ASSUME TypeOK, Return
      PROVE  Work' < Work
  <2>1. stack # <<>>
    BY <1>1 DEF Return, ReturnToSetter, ReturnToDispose, ReturnToFinalize,
                ReturnToNotify, ReturnToUnref
  <2>2. stack \in Seq(Frames)
    BY <1>1 DEF TypeOK
  <2>3. /\ Len(stack) \in Nat \ {0} /\ Callers \in Seq(Frames)
        /\ Len(Callers) = Len(stack) - 1
    BY <2>1, <2>2, Popped DEF Callers
  <2>4. Work = 4 * Len(stack) + Rank(Top.at)
    BY <2>1 DEF Work
\* Returning to the callers leaves at most what a call of theirs may do.
  <2>5. ASSUME stack' = Callers, Rank(Top.at) \in Nat \ {0}
        PROVE  Work' < Work
    <3>1. Rank(Top.at)' \in {1, 2, 3}
      BY DEF Rank
    <3>2. CASE stack' = <<>>
      BY <2>3, <2>4, <2>5, <3>2 DEF Work
    <3>3. CASE stack' # <<>>
      <4>1. Work' = 4 * (Len(stack) - 1) + Rank(Top.at)'
        BY <2>3, <2>5, <3>3 DEF Work
      <4> QED  BY <2>3, <2>4, <2>5, <3>1, <4>1
    <3> QED  BY <3>2, <3>3
\* A frame in the place of the innermost one has less to do.
  <2>6. ASSUME NEW f \in Frames, stack' = Append(Callers, f),
               Rank(f.at) \in Nat, Rank(Top.at) \in Nat, Rank(f.at) < Rank(Top.at)
        PROVE  Work' < Work
    <3>1. Len(stack') = Len(stack) /\ stack' # <<>> /\ stack'[Len(stack')] = f
      BY <2>3, <2>6
    <3>2. Work' = 4 * Len(stack) + Rank(f.at)
      BY <3>1 DEF Work, Top
    <3> QED  BY <2>3, <2>4, <2>6, <3>2
  <2>7. /\ Rank("replacing") = 3 /\ Rank("notifying") = 2
        /\ Rank("dropping") = 1 /\ Rank("finalizing") = 1 /\ Rank("freeing") = 1
    BY DEF Rank
  <2>8. Top \in Frames
    BY <2>1, <2>2, Popped DEF Top
  <2>9. CASE ReturnToSetter
    <3> DEFINE f == Frame("notifying", Top.ctl, NULL, NULL)
    <3>1. f \in Frames /\ f.at = "notifying"
      BY <2>8 DEF Frame, Frames, Places
    <3>2. stack' = Append(Callers, f) /\ Top.at = "replacing"
      BY <2>9 DEF ReturnToSetter, Install, Notify
    <3> HIDE DEF f
    <3> QED  BY <2>6, <2>7, <3>1, <3>2
  <2>10. CASE ReturnToDispose \/ ReturnToFinalize \/ ReturnToUnref
    BY <2>5, <2>7, <2>10 DEF ReturnToDispose, ReturnToFinalize, ReturnToUnref
  <2>11. CASE ReturnToNotify
    <3>1. Top.at = "notifying" /\ ObjUnref(Top.ctl, Callers)
      BY <2>11 DEF ReturnToNotify
    <3>2. CASE stack' = Callers
      BY <2>5, <2>7, <3>1, <3>2
    <3>3. ASSUME NEW at \in {"dropping", "finalizing"},
                 stack' = Append(Callers, Frame(at, Top.ctl, storage[Top.ctl], NULL)),
                 IsLast(storage[Top.ctl])
          PROVE  Work' < Work
      <4> DEFINE f == Frame(at, Top.ctl, storage[Top.ctl], NULL)
      <4>1. \/ storage[Top.ctl] \in Storages \cup {NULL}
            \/ storage[Top.ctl] \notin Storages \cup {NULL}
        OBVIOUS
      <4>2. Len(stack') = Len(stack) /\ stack' # <<>> /\ stack'[Len(stack')] = f
        BY <2>3, <3>3
      <4>3. f.at = at
        BY DEF Frame
      <4>4. Work' = 4 * Len(stack) + Rank(at)
        BY <4>2, <4>3 DEF Work, Top
      <4> QED  BY <2>3, <2>4, <2>7, <3>1, <4>4
    <3> QED  BY <3>1, <3>2, <3>3 DEF ObjUnref
  <2> QED  BY <1>1, <2>9, <2>10, <2>11 DEF Return
<1>2. ASSUME TypeOK, Next, ClientGone, ClientGone'
      PROVE  Return
  <2>1. ASSUME NEW s \in Storages, NewStorage(s) \/ RefStorage(s) \/ UnrefStorage(s)
        PROVE  FALSE
    BY <1>2, <2>1 DEF ClientGone, TypeOK, NewStorage, RefStorage, UnrefStorage, Promised
  <2>2. ASSUME NEW c \in Controllers,
               RefController(c) \/ UnrefController(c) \/ RunDispose(c) \/ GetProperty(c)
        PROVE  FALSE
    BY <1>2, <2>2 DEF ClientGone, TypeOK, RefController, UnrefController, RunDispose,
                      GetProperty, MayCall, ObjPromised
  <2>3. ASSUME NEW c \in Controllers, NEW s, NewController(c, s) \/ SetStorage(c, s)
        PROVE  FALSE
    BY <1>2, <2>3 DEF ClientGone, TypeOK, NewController, SetStorage, MayCall
  <2> QED
    BY <1>2, <2>1, <2>2, <2>3
    DEF Next, g_array_controller_set_array, g_ptr_array_controller_set_array,
        g_hash_controller_set_hash
<1>3. SafeInv /\ [Next]_vars =>
        [/\ Return => Work' < Work
         /\ ClientGone /\ ClientGone' => Return]_vars
  BY <1>1, <1>2 DEF SafeInv, CallInv
<1> QED  BY <1>3, SafetyHolds, PTL DEF Spec, CallsEnd

\* A controller whose class releases its storage in dispose holds none once it
\* is disposed, until one is set on it: whatever other classes there are, and
\* whatever the free functions do.
THEOREM DisposersControlNothing == Spec => []DisposersHoldNothing
<1>1. Init => DisposersHoldNothing
  BY DEF Init, DisposersHoldNothing
<1>2. ASSUME SafeInv, DisposersHoldNothing, [Next]_vars
      PROVE  DisposersHoldNothing'
  <2> USE <1>2 DEF DisposersHoldNothing
  <2>t. /\ storage \in [Controllers -> Storages \cup {NULL}]
        /\ disposed \in [Controllers -> BOOLEAN]
        /\ \A c \in Controllers : ReleasesInDispose(c) <=> c \notin PtrArrayControllers
    BY DEF SafeInv, CallInv, TypeOK, ReleasesInDispose
  <2>1. ASSUME NEW s \in Storages, NewStorage(s) \/ RefStorage(s) \/ UnrefStorage(s)
        PROVE  DisposersHoldNothing'
    BY <2>t, <2>1 DEF NewStorage, RefStorage, UnrefStorage
  <2>2. ASSUME NEW c \in Controllers, RefController(c) \/ GetProperty(c)
        PROVE  DisposersHoldNothing'
    BY <2>t, <2>2 DEF RefController, GetProperty
  <2>3. ASSUME NEW c \in Controllers, NEW callers, ObjUnref(c, callers)
        PROVE  DisposersHoldNothing'
    BY <2>t, <2>3 DEF ObjUnref
  <2>4. ASSUME NEW c \in Controllers, RunDispose(c)
        PROVE  DisposersHoldNothing'
    BY <2>t, <2>4 DEF RunDispose
  <2>5. ASSUME NEW c \in Controllers, NEW s, NewController(c, s)
        PROVE  DisposersHoldNothing'
    BY <2>t, <2>5 DEF NewController
  <2>6. ASSUME NEW c, NEW s, NEW counts, NEW callers, Install(c, s, counts, callers)
        PROVE  DisposersHoldNothing'
    BY <2>t, <2>6 DEF Install
  <2>7. ASSUME NEW c \in Controllers, NEW s, SetStorage(c, s)
        PROVE  DisposersHoldNothing'
    BY <2>t, <2>6, <2>7 DEF SetStorage
  <2>8. CASE Return
    <3>1. CASE ReturnToSetter
      BY <2>6, <3>1 DEF ReturnToSetter
    <3>2. CASE ReturnToDispose \/ ReturnToFinalize
      BY <2>t, <3>2 DEF ReturnToDispose, ReturnToFinalize
    <3>3. CASE ReturnToNotify
      BY <2>3, <3>3, InnermostFrame DEF ReturnToNotify, SafeInv, CallInv
    <3>4. CASE ReturnToUnref
      BY <2>t, <3>4 DEF ReturnToUnref
    <3> QED  BY <2>8, <3>1, <3>2, <3>3, <3>4 DEF Return
  <2>9. CASE UNCHANGED vars
    BY <2>t, <2>9 DEF vars
  <2> QED
    BY <2>1, <2>2, <2>3, <2>4, <2>5, <2>7, <2>8, <2>9
    DEF Next, UnrefController, g_array_controller_set_array,
        g_ptr_array_controller_set_array, g_hash_controller_set_hash
<1> QED  BY <1>1, <1>2, SafetyHolds, PTL DEF Spec

\* Where no class has the function that releases the storage in the finalize
\* slot, a disposed controller controls nothing until a storage is set on it.
THEOREM DisposedControlsNothing ==
  ASSUME PtrArrayControllers = {}
  PROVE  Spec => []DisposedHoldsNothing
<1>1. DisposersHoldNothing => DisposedHoldsNothing
  BY DEF DisposersHoldNothing, DisposedHoldsNothing
<1> QED  BY <1>1, DisposersControlNothing, PTL
=============================================================================
