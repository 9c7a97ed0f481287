------------------------- MODULE StorageController -------------------------
(***************************************************************************)
(* The three storage controllers of GController: GArrayController,         *)
(* GPtrArrayController and GHashController.  Each is a GObject whose        *)
(* private data holds a counted reference on one storage (a GArray, a       *)
(* GPtrArray or a GHashTable).  The module follows the references: those    *)
(* the client owns, those the controllers hold, and those the library holds *)
(* while one of its calls is suspended.                                     *)
(*                                                                         *)
(* Everything runs in one thread, but the calls are not atomic.  Releasing  *)
(* the last reference on a storage runs the free functions of its elements, *)
(* and g_object_notify_by_pspec runs the handlers of "notify": both are     *)
(* client code, called from the middle of the library's code, and may call  *)
(* the library again.  A suspended call is a frame of the stack.            *)
(***************************************************************************)
EXTENDS Integers, Sequences, FiniteSets

CONSTANTS
  ArrayControllers,     \* the GArrayController instances
  PtrArrayControllers,  \* the GPtrArrayController instances
  HashControllers,      \* the GHashController instances
  Arrays,               \* the addresses GArrays are allocated at
  PtrArrays,            \* the addresses GPtrArrays are allocated at
  HashTables,           \* the addresses GHashTables are allocated at
  NULL,                 \* no storage
  MaxRefs,              \* bound on the references the client owns on one thing
  MaxDepth,             \* bound on the nesting of calls
  FreeFuncsReenter      \* may a free function call the very controller that is
                        \* releasing the storage it belongs to?

Controllers == ArrayControllers \cup PtrArrayControllers \cup HashControllers
Storages == Arrays \cup PtrArrays \cup HashTables

ASSUME NullAssumption == NULL \notin Storages \cup Controllers
ASSUME BoundsAssumption == /\ MaxRefs \in Nat \ {0}
                           /\ MaxDepth \in Nat \ {0}
                           /\ FreeFuncsReenter \in BOOLEAN
ASSUME FiniteAssumption == IsFiniteSet(Controllers)

VARIABLES
  storage,   \* priv->array or priv->hash of each controller
  heap,      \* each storage: not allocated, live, or running its free functions
  refs,      \* the reference count of each storage
  owned,     \* how many of them the client owns
  object,    \* each controller: not allocated, live, or in its finalize function
  objRefs,   \* the ref_count of each controller
  objOwned,  \* how many of them the client owns
  disposed,  \* history: dispose() ran on the controller and no storage was set since
  stack,     \* the suspended library calls, the innermost last
  reborn     \* history: a reference was handed out on a storage being freed

vars == <<storage, heap, refs, owned, object, objRefs, objOwned, disposed, stack,
          reborn>>

-----------------------------------------------------------------------------
(* Where a library call is suspended, i.e. which client code runs.          *)
(*   replacing   free functions run by the unref in set_array               *)
(*   dropping    free functions run by the unref in dispose                 *)
(*   finalizing  the same where the code runs as the finalize function      *)
(*   notifying   handlers of "notify" run at the end of set_array           *)
(*   freeing     free functions run by an unref of the client itself        *)

Releasing == {"replacing", "dropping", "finalizing"}
Places == Releasing \cup {"notifying", "freeing"}

Frames == [at  : Places,
           ctl : Controllers \cup {NULL},
           old : Storages \cup {NULL},     \* the storage being released
           new : Storages \cup {NULL}]     \* the argument of set_array

Frame(at, c, old, new) == [at |-> at, ctl |-> c, old |-> old, new |-> new]

Top == stack[Len(stack)]
Callers == SubSeq(stack, 1, Len(stack) - 1)

\* The library is suspended in a call on c, at one of these places.
Suspended(c, places) ==
  \E i \in DOMAIN stack : stack[i].at \in places /\ stack[i].ctl = c

-----------------------------------------------------------------------------
(* The types of the three classes.                                         *)

\* The storages a controller of c's class can be given.
StoragesOf(c) == IF c \in ArrayControllers THEN Arrays
                 ELSE IF c \in PtrArrayControllers THEN PtrArrays
                 ELSE HashTables

\* Variant: every class releases its storage in finalize.
ReleasesInFinalize(c) == FALSE

\* class_init installs the function that releases the storage as dispose, but
\* for GPtrArrayController, where it goes into the finalize slot.
ReleasesInDispose(c) == c \notin PtrArrayControllers

-----------------------------------------------------------------------------
Init ==
  /\ storage = [c \in Controllers |-> NULL]
  /\ heap = [s \in Storages |-> "none"]
  /\ refs = [s \in Storages |-> 0]
  /\ owned = [s \in Storages |-> 0]
  /\ object = [c \in Controllers |-> "none"]
  /\ objRefs = [c \in Controllers |-> 0]
  /\ objOwned = [c \in Controllers |-> 0]
  /\ disposed = [c \in Controllers |-> FALSE]
  /\ stack = <<>>
  /\ reborn = FALSE

-----------------------------------------------------------------------------
(* Reference counting.                                                     *)

\* g_array_ref, g_ptr_array_ref, g_hash_table_ref on what s points to.
Ref(counts, s) == IF s = NULL THEN counts ELSE [counts EXCEPT ![s] = @ + 1]

\* Unreferencing s would run its free functions, be it for the second time.
IsLast(s) == s # NULL /\ refs[s] = 1

\* The first half of g_array_unref, g_ptr_array_unref, g_hash_table_unref: the
\* count goes down and, on the last reference, the free functions start.
Unref(counts, s) == IF s = NULL THEN counts ELSE [counts EXCEPT ![s] = @ - 1]
StartFreeing(s) == heap' = [heap EXCEPT ![s] = "dying"]

\* The second half: the free functions returned and the memory is given back.
Free(s) == heap' = [heap EXCEPT ![s] = "none"]
Freed(counts, s) == [counts EXCEPT ![s] = 0]

-----------------------------------------------------------------------------
(* The client: what a correct program may do.                               *)

\* The client may call the library on c: it owns a reference and, unless
\* FreeFuncsReenter, c is not in the middle of releasing its storage.
MayCall(c) == objOwned[c] > 0 /\ (FreeFuncsReenter \/ ~Suspended(c, Releasing))

\* Something other than c keeps the storage alive.
HeldElsewhere(c, s) == \E d \in Controllers \ {c} : storage[d] = s /\ heap[s] = "live"

\* The client may pass s to a setter of c.  Where free functions run before
\* the setter takes its reference, the client must own one throughout.
MayPass(c, s) ==
  s # NULL => owned[s] > 0 \/ (HeldElsewhere(c, s) /\ ~IsLast(storage[c]))

\* References the client has to keep while the library is in set_array.
Promised(s) == IF \E i \in DOMAIN stack : stack[i].at = "replacing" /\ stack[i].new = s
               THEN 1 ELSE 0
ObjPromised(c) == IF Suspended(c, {"replacing"}) THEN 1 ELSE 0

NewStorage(s) ==      \* g_array_new and the like
  /\ heap[s] = "none"
  /\ heap' = [heap EXCEPT ![s] = "live"]
  /\ refs' = [refs EXCEPT ![s] = 1]
  /\ owned' = [owned EXCEPT ![s] = 1]
  /\ UNCHANGED <<storage, object, objRefs, objOwned, disposed, stack, reborn>>

RefStorage(s) ==
  /\ 0 < owned[s] /\ owned[s] < MaxRefs
  /\ refs' = [refs EXCEPT ![s] = @ + 1]
  /\ owned' = [owned EXCEPT ![s] = @ + 1]
  /\ UNCHANGED <<storage, heap, object, objRefs, objOwned, disposed, stack, reborn>>

UnrefStorage(s) ==
  /\ owned[s] > Promised(s)
  /\ refs' = Unref(refs, s)
  /\ owned' = [owned EXCEPT ![s] = @ - 1]
  /\ \/ /\ ~IsLast(s)
        /\ UNCHANGED <<heap, stack>>
     \/ /\ IsLast(s) /\ Len(stack) < MaxDepth
        /\ StartFreeing(s)
        /\ stack' = Append(stack, Frame("freeing", NULL, s, NULL))
  /\ UNCHANGED <<storage, object, objRefs, objOwned, disposed, reborn>>

RefController(c) ==
  /\ 0 < objOwned[c] /\ objOwned[c] < MaxRefs
  /\ objRefs' = [objRefs EXCEPT ![c] = @ + 1]
  /\ objOwned' = [objOwned EXCEPT ![c] = @ + 1]
  /\ UNCHANGED <<storage, heap, refs, owned, object, disposed, stack, reborn>>

-----------------------------------------------------------------------------
(* Controllers.                                                            *)

\* g_*_controller_new (s = NULL) and g_*_controller_new_with_*: g_object_new
\* sets the construct property, nobody is connected to "notify" yet.
NewController(c, s) ==
  /\ object[c] = "none"
  /\ s # NULL => owned[s] > 0 \/ HeldElsewhere(c, s)
  /\ object' = [object EXCEPT ![c] = "live"]
  /\ objRefs' = [objRefs EXCEPT ![c] = 1]
  /\ objOwned' = [objOwned EXCEPT ![c] = 1]
  /\ disposed' = [disposed EXCEPT ![c] = FALSE]
  /\ storage' = [storage EXCEPT ![c] = s]
  /\ refs' = Ref(refs, s)
  /\ UNCHANGED <<heap, owned, stack, reborn>>

\* get_property: the boxed value handed out owns a reference, which a free
\* function gets on the very storage it is called for.
GetProperty(c) ==
  /\ MayCall(c)
  /\ storage[c] # NULL
  /\ owned[storage[c]] < MaxRefs
  /\ refs' = Ref(refs, storage[c])
  /\ owned' = [owned EXCEPT ![storage[c]] = @ + 1]
  /\ UNCHANGED <<storage, heap, object, objRefs, objOwned, disposed, stack>>
  /\ reborn' = (reborn \/ heap[storage[c]] = "dying")

\* Variant: the property is notified twice, once inside the other.
NotifyTwice(c, callers) ==
  /\ objRefs' = [objRefs EXCEPT ![c] = @ + 2]
  /\ stack' = Append(Append(callers, Frame("notifying", c, NULL, NULL)),
                     Frame("notifying", c, NULL, NULL))

\* Variant: the emission keeps no reference on c.
NotifyUnprotected(c, callers) ==
  objRefs' = objRefs /\ stack' = Append(callers, Frame("notifying", c, NULL, NULL))

\* g_object_notify_by_pspec: the emission keeps a reference on c.
Notify(c, callers) ==
  /\ objRefs' = [objRefs EXCEPT ![c] = @ + 1]
  /\ stack' = Append(callers, Frame("notifying", c, NULL, NULL))

\* Variant: the new storage is installed without a reference of its own.
InstallUnreferenced(c, s, counts, callers) ==
  /\ storage' = [storage EXCEPT ![c] = s]
  /\ refs' = counts
  /\ disposed' = [disposed EXCEPT ![c] = @ /\ s = NULL]
  /\ Notify(c, callers)

\* The end of a setter: the new storage is installed and referenced, then
\* "notify" is emitted.
Install(c, s, counts, callers) ==
  /\ storage' = [storage EXCEPT ![c] = s]
  /\ refs' = Ref(counts, s)
  /\ disposed' = [disposed EXCEPT ![c] = @ /\ s = NULL]
  /\ Notify(c, callers)

\* A setter: nothing for the storage it already has; otherwise it releases
\* the old storage first, and installs the new one when that returns.
SetStorage(c, s) ==
  /\ MayCall(c) /\ MayPass(c, s)
  /\ storage[c] # s
  /\ Len(stack) < MaxDepth
  /\ \/ /\ ~IsLast(storage[c])
        /\ Install(c, s, Unref(refs, storage[c]), stack)
        /\ UNCHANGED heap
     \/ /\ IsLast(storage[c])
        /\ refs' = Unref(refs, storage[c])
        /\ StartFreeing(storage[c])
        /\ stack' = Append(stack, Frame("replacing", c, storage[c], s))
        /\ UNCHANGED <<storage, disposed, objRefs>>
  /\ UNCHANGED <<owned, object, objOwned, reborn>>

g_array_controller_set_array(c, s) ==
  c \in ArrayControllers /\ s \in Arrays \cup {NULL} /\ SetStorage(c, s)

g_ptr_array_controller_set_array(c, s) ==
  c \in PtrArrayControllers /\ s \in PtrArrays \cup {NULL} /\ SetStorage(c, s)

\* Variant: the hash setter forgets to release the table it replaces.
SetHashNoUnref(c, s) ==
  /\ c \in HashControllers /\ s \in HashTables \cup {NULL}
  /\ MayCall(c) /\ MayPass(c, s) /\ storage[c] # s /\ Len(stack) < MaxDepth
  /\ Install(c, s, refs, stack)
  /\ UNCHANGED <<heap, owned, object, objOwned, reborn>>

g_hash_controller_set_hash(c, s) ==
  c \in HashControllers /\ s \in HashTables \cup {NULL} /\ SetStorage(c, s)

\* Variant: one reference too many is dropped.
DropObjRefTwice(c) ==
  /\ objRefs' = [objRefs EXCEPT ![c] = @ - 2]
  /\ object' = [object EXCEPT ![c] = IF objRefs[c] = 1 THEN "none" ELSE @]

\* The reference c loses is not its last one, or is and nothing is left to free.
DropObjRef(c) ==
  /\ objRefs' = [objRefs EXCEPT ![c] = @ - 1]
  /\ object' = [object EXCEPT ![c] = IF objRefs[c] = 1 THEN "none" ELSE @]

\* Variant: no dispose or finalize function releases the storage.
ObjUnrefLeaks(c, callers) ==
  /\ DropObjRef(c)
  /\ stack' = callers
  /\ storage' = [storage EXCEPT ![c] = IF objRefs[c] = 1 THEN NULL ELSE @]
  /\ UNCHANGED <<heap, refs, disposed>>

\* g_object_unref, called with these callers on the stack.  On the last
\* reference dispose and finalize run; whichever of the two has the class's
\* function releases the storage.
ObjUnref(c, callers) ==
  \/ /\ objRefs[c] > 1
     /\ DropObjRef(c)
     /\ stack' = callers
     /\ UNCHANGED <<storage, heap, refs, disposed>>
  \/ /\ objRefs[c] = 1 /\ ~IsLast(storage[c])
     /\ DropObjRef(c)
     /\ refs' = Unref(refs, storage[c])
     /\ storage' = [storage EXCEPT ![c] = NULL]
     /\ disposed' = [disposed EXCEPT ![c] = FALSE]
     /\ stack' = callers
     /\ UNCHANGED heap
  \/ /\ objRefs[c] = 1 /\ IsLast(storage[c])
     /\ refs' = Unref(refs, storage[c])
     /\ StartFreeing(storage[c])
     /\ \/ /\ ReleasesInDispose(c)
           /\ stack' = Append(callers, Frame("dropping", c, storage[c], NULL))
           /\ UNCHANGED <<object, objRefs>>
        \/ /\ ~ReleasesInDispose(c)
           /\ stack' = Append(callers, Frame("finalizing", c, storage[c], NULL))
           /\ object' = [object EXCEPT ![c] = "finalizing"]
           /\ objRefs' = [objRefs EXCEPT ![c] = 0]
     /\ UNCHANGED <<storage, disposed>>

UnrefController(c) ==
  /\ objOwned[c] > ObjPromised(c)
  /\ objOwned' = [objOwned EXCEPT ![c] = @ - 1]
  /\ Len(stack) < MaxDepth
  /\ ObjUnref(c, stack)
  /\ UNCHANGED <<owned, reborn>>

\* g_object_run_dispose: the dispose function of the class, under a reference
\* of its own.  The dispose function of GPtrArrayController is the inherited one.
RunDispose(c) ==
  /\ MayCall(c)
  /\ Len(stack) < MaxDepth
  /\ \/ /\ ReleasesInDispose(c) /\ IsLast(storage[c])
        /\ refs' = Unref(refs, storage[c])
        /\ StartFreeing(storage[c])
        /\ objRefs' = [objRefs EXCEPT ![c] = @ + 1]
        /\ stack' = Append(stack, Frame("dropping", c, storage[c], NULL))
        /\ UNCHANGED <<storage, disposed>>
     \/ /\ ReleasesInDispose(c) /\ ~IsLast(storage[c])
        /\ refs' = Unref(refs, storage[c])
        /\ storage' = [storage EXCEPT ![c] = NULL]
        /\ disposed' = [disposed EXCEPT ![c] = TRUE]
        /\ UNCHANGED <<heap, objRefs, stack>>
     \/ /\ ~ReleasesInDispose(c)
        /\ disposed' = [disposed EXCEPT ![c] = TRUE]
        /\ UNCHANGED <<storage, heap, refs, objRefs, stack>>
  /\ UNCHANGED <<owned, object, objOwned, reborn>>

-----------------------------------------------------------------------------
(* The client code that a library call was waiting for returns.            *)

\* The free functions run by a setter: the memory is given back and the
\* setter goes on.
ReturnToSetter ==
  /\ stack # <<>> /\ Top.at = "replacing"
  /\ Free(Top.old)
  /\ Install(Top.ctl, Top.new, Freed(refs, Top.old), Callers)
  /\ UNCHANGED <<owned, object, objOwned, reborn>>

\* The free functions run by dispose: the field is cleared, and the call
\* that ran dispose drops its reference.
ReturnToDispose ==
  /\ stack # <<>> /\ Top.at = "dropping"
  /\ Free(Top.old)
  /\ refs' = Freed(refs, Top.old)
  /\ storage' = [storage EXCEPT ![Top.ctl] = NULL]
  /\ disposed' = [disposed EXCEPT ![Top.ctl] = objRefs[Top.ctl] > 1]
  /\ DropObjRef(Top.ctl)
  /\ stack' = Callers
  /\ UNCHANGED <<owned, objOwned, reborn>>

\* Variant: the memory of the instance is not given back.
FinalizeKeepsInstance ==
  /\ stack # <<>> /\ Top.at = "finalizing"
  /\ Free(Top.old)
  /\ refs' = Freed(refs, Top.old)
  /\ storage' = [storage EXCEPT ![Top.ctl] = NULL]
  /\ disposed' = [disposed EXCEPT ![Top.ctl] = FALSE]
  /\ stack' = Callers
  /\ UNCHANGED <<owned, object, objRefs, objOwned, reborn>>

\* The same in the finalize slot: the instance is freed next.
ReturnToFinalize ==
  /\ stack # <<>> /\ Top.at = "finalizing"
  /\ Free(Top.old)
  /\ refs' = Freed(refs, Top.old)
  /\ storage' = [storage EXCEPT ![Top.ctl] = NULL]
  /\ disposed' = [disposed EXCEPT ![Top.ctl] = FALSE]
  /\ object' = [object EXCEPT ![Top.ctl] = "none"]
  /\ stack' = Callers
  /\ UNCHANGED <<owned, objRefs, objOwned, reborn>>

\* The handlers of "notify": the emission drops its reference.
ReturnToNotify ==
  /\ stack # <<>> /\ Top.at = "notifying"
  /\ ObjUnref(Top.ctl, Callers)
  /\ UNCHANGED <<owned, objOwned, reborn>>

\* The free functions run by the client's own unref.
ReturnToUnref ==
  /\ stack # <<>> /\ Top.at = "freeing"
  /\ Free(Top.old)
  /\ refs' = Freed(refs, Top.old)
  /\ stack' = Callers
  /\ UNCHANGED <<storage, owned, object, objRefs, objOwned, disposed, reborn>>

Return == \/ ReturnToSetter \/ ReturnToDispose \/ ReturnToFinalize
          \/ ReturnToNotify \/ ReturnToUnref

Next ==
  \/ \E s \in Storages : NewStorage(s) \/ RefStorage(s) \/ UnrefStorage(s)
  \/ \E c \in Controllers :
       \/ RefController(c) \/ UnrefController(c) \/ RunDispose(c) \/ GetProperty(c)
       \/ \E s \in StoragesOf(c) \cup {NULL} :
            \/ NewController(c, s)
            \/ g_array_controller_set_array(c, s)
            \/ g_ptr_array_controller_set_array(c, s)
            \/ g_hash_controller_set_hash(c, s)
  \/ Return

Spec == Init /\ [][Next]_vars

\* Handlers and free functions return: whenever a library call is suspended,
\* some client code it called finishes sooner or later.
FairSpec == Spec /\ WF_vars(Return)
-----------------------------------------------------------------------------
(* Properties.                                                             *)

\* Every variable has its type.  Counts are integers: an unref of a storage
\* that is already being freed takes its count below zero.
TypeOK ==
  /\ storage \in [Controllers -> Storages \cup {NULL}]
  /\ heap \in [Storages -> {"none", "live", "dying"}]
  /\ refs \in [Storages -> Int]
  /\ owned \in [Storages -> Nat]
  /\ object \in [Controllers -> {"none", "live", "finalizing"}]
  /\ objRefs \in [Controllers -> Nat]
  /\ objOwned \in [Controllers -> Nat]
  /\ disposed \in [Controllers -> BOOLEAN]
  /\ stack \in Seq(Frames)
  /\ reborn \in BOOLEAN

\* The controllers that hold a reference on s.
Holders(s) == {c \in Controllers : object[c] # "none" /\ storage[c] = s}

\* The reference count of a storage is what the client owns plus one for each
\* controller it was set on, and a storage without any is not left allocated:
\* set_array, the construct property, dispose and finalize neither leak a
\* reference nor drop one twice, whatever the client does in their callbacks.
RefsBalanced ==
  \A s \in Storages :
    IF heap[s] = "live"
    THEN refs[s] = owned[s] + Cardinality(Holders(s)) /\ refs[s] > 0
    ELSE refs[s] = 0 /\ owned[s] = 0

\* The suspended calls that are releasing s.
Releasers(s) == {i \in DOMAIN stack : stack[i].at # "notifying" /\ stack[i].old = s}

\* Free functions may dispose of the very controller that is releasing, and
\* set anything on it: no storage has fewer references than owners, so that
\* set_array may lose a reference then, but never drops one of another
\* owner's, and what somebody owns is not being freed.  It is so until a free
\* function reads the property, and owns what is being freed.
NeverUndercounted ==
  ~reborn =>
    \A s \in Storages :
      IF heap[s] = "live"
      THEN refs[s] > 0 /\ refs[s] >= owned[s] + Cardinality(Holders(s))
      ELSE owned[s] = 0

\* A storage is being freed by exactly one call, however setters, dispose and
\* the client's own unrefs nest and re-enter, until a free function reads the
\* property of the controller that is releasing: nothing is freed twice, and
\* nothing is left half freed.  A controller is being finalized exactly as
\* long as its finalize function runs, in any case.
FreedByOneCall ==
  /\ ~reborn =>
       \A s \in Storages :
         Cardinality(Releasers(s)) = IF heap[s] = "dying" THEN 1 ELSE 0
  /\ \A c \in Controllers :
       object[c] = "finalizing" <=> Suspended(c, {"finalizing"})

\* A controller's field never points to freed memory, and points to a storage
\* being freed only while that controller itself is releasing it: otherwise
\* get_array would hand out a dead pointer.
NoDanglingStorage ==
  \A c \in Controllers :
    storage[c] # NULL =>
      \/ heap[storage[c]] = "live"
      \/ heap[storage[c]] = "dying" /\ Suspended(c, Releasing)

\* The same where free functions call the controller that is releasing: setters
\* and dispose within its own setters and dispose leave no dead pointer, until
\* one of them reads the property.
NoDanglingUnlessRead == ~reborn => NoDanglingStorage

\* The suspended calls that hold a reference on c.
KeepingAlive(frames, c) ==
  {i \in DOMAIN frames : frames[i].at \in {"notifying", "dropping"} /\ frames[i].ctl = c}

\* The references on a controller are the client's and those of the calls
\* suspended in it: no call outlives the controller it works on, however its
\* callbacks dispose of the controller, and no call keeps it forever.
ObjRefsBalanced ==
  \A c \in Controllers :
    /\ objRefs[c] = objOwned[c] + Cardinality(KeepingAlive(stack, c))
    /\ object[c] = "live" <=> objRefs[c] > 0
    /\ Suspended(c, Places) => object[c] # "none"

\* "The GArrayController will take a reference on the passed GArray which will
\* be released when the GArrayController is disposed": a disposed controller
\* controls nothing, until something is set on it again.
DisposedHoldsNothing == \A c \in Controllers : disposed[c] => storage[c] = NULL

\* The same of the two classes that keep their word.
DisposersHoldNothing ==
  \A c \in Controllers \ PtrArrayControllers : disposed[c] => storage[c] = NULL

\* The storage a controller controls, seen from outside: the one its setter is
\* about to install, and none once its release has started.
Controlled(c) ==
  IF Suspended(c, {"replacing"})
  THEN stack[CHOOSE i \in DOMAIN stack :
               stack[i].at = "replacing" /\ stack[i].ctl = c].new
  ELSE IF Suspended(c, Releasing) THEN NULL
  ELSE storage[c]

Holding == INSTANCE StorageHolding WITH
  controlled <- [c \in Controllers |-> Controlled(c)],
  mine <- owned,
  exists <- {s \in Storages : heap[s] = "live"}

\* The library keeps the promise of StorageHolding: without a reference count
\* in sight, a storage exists exactly as long as the client owns it or a
\* controller controls it, and a setter or a release takes effect at once.
KeepsStorageAlive == Holding!Spec

\* The client gave up everything it owned and will not come back.
ClientGone == /\ \A s \in Storages : owned[s] = 0
              /\ \A c \in Controllers : objOwned[c] = 0

\* When the client owns nothing any more and no call is suspended, every
\* controller is finalized and every storage freed: no reference is kept by a
\* controller nobody can reach, nor by a call that ended.
NothingLeftBehind ==
  stack = <<>> /\ ClientGone =>
    /\ \A s \in Storages : heap[s] = "none"
    /\ \A c \in Controllers : object[c] = "none"

\* What the suspended calls have left to do: a setter runs free functions, then
\* handlers, then drops the emission's reference, and that may run the free
\* functions of another storage before the call is over.
Rank(at) == CASE at = "replacing" -> 3 [] at = "notifying" -> 2 [] OTHER -> 1
Work == IF stack = <<>> THEN 0 ELSE 4 * Len(stack) + Rank(Top.at)

\* Each return leaves less to do, and a client that owns nothing can only
\* return: no call of the library goes round in circles through the client's
\* callbacks, whatever these do.
CallsEnd == [][/\ Return => Work' < Work
               /\ ClientGone /\ ClientGone' => Return]_vars

\* Once the client owns nothing any more, every controller is finalized and
\* every storage freed: dispose and finalize leave nothing behind.
AllReleased ==
  <>[]ClientGone => <>[](/\ \A s \in Storages : heap[s] = "none"
                         /\ \A c \in Controllers : object[c] = "none")
=============================================================================
