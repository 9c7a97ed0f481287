-------------------------- MODULE ControllerEvent --------------------------
(***************************************************************************)
(* GControllerEvent and the part of GController that creates and emits it.  *)
(* An event is a GObject that holds a reference on the controller that      *)
(* created it, the type of its indices and the indices.  Emitting "changed" *)
(* calls the handlers of a controller one after the other; a handler is     *)
(* client code and may use the whole interface: emit again, append indices  *)
(* to the event it was given, drop or dispose of either object.             *)
(*                                                                         *)
(* g_signal_emit, g_object_ref, g_object_unref and g_object_run_dispose are *)
(* GLib's; they are modelled by what this code relies on.  The arrays of    *)
(* the concrete controllers are the subject of StorageController.           *)
(***************************************************************************)
EXTENDS Integers, Sequences, FiniteSets, SequencesExt

CONSTANTS
  Controllers,   \* the instances of classes derived from GController
  FinalizeControllers,  \* those that release their array in finalize
  Events,        \* the addresses GControllerEvents are allocated at
  Handlers,      \* the handlers the client may connect to "changed"
  Types,         \* the GTypes an index may have
  Vals,          \* the indices the client passes
  ZERO,          \* what a GValue holds that was initialised and not set
  BAD,           \* a variadic argument that cannot be collected as its type
  NULL,          \* no object, no type
  MaxIndices,    \* bound on the indices of an event
  MaxRefs,       \* bound on the references the client owns on one object
  MaxDepth       \* bound on the nesting of calls

ASSUME NullAssumption == NULL \notin Controllers \cup Events \cup Types
ASSUME FinalizeAssumption == FinalizeControllers \subseteq Controllers
ASSUME EventsAssumption == IsFiniteSet(Events)
ASSUME ValueAssumption == ZERO \notin Vals /\ BAD \notin Vals \cup {ZERO}
ASSUME BoundsAssumption == /\ MaxIndices \in Nat
                           /\ MaxRefs \in Nat \ {0}
                           /\ MaxDepth \in Nat \ {0}

VARIABLES
  controller,   \* priv->controller of each event
  index_type,   \* priv->index_type
  indices,      \* priv->indices; no array is the same as an empty one
  eventRefs,    \* the ref_count of each event; 0 when it is not allocated
  eventOwned,   \* how many of them the client owns
  ctlRefs,      \* the ref_count of each controller; 0 when not allocated
  ctlOwned,     \* how many of them the client owns
  handlers,     \* the handlers connected to "changed" on each controller
  stack,        \* the suspended library calls, the innermost last
  redisposed    \* history: an event was disposed of from within its own dispose

eventData == <<controller, index_type, indices>>
counts == <<eventRefs, eventOwned, ctlRefs, ctlOwned>>
vars == <<eventData, counts, handlers, stack, redisposed>>

\* What an event may store, and the arrays the client may pass.
Index == [type : Types, val : Vals \cup {ZERO}]
Passed == [type : Types, val : Vals]
Indices == UNION {[1..n -> Passed] : n \in 0..MaxIndices}

-----------------------------------------------------------------------------
(* Where a call is suspended.                                              *)
(*   emitting   a handler of "changed" runs, those of todo come after it    *)
(*   finishing  no handler is left and the event was given back             *)
(*   releasing  the last reference on a controller is being dropped: its    *)
(*              dispose runs client code (free functions, destroy notifies) *)
(*   finalizing the reference is gone and finalize, in the classes that      *)
(*              release their array there, runs the free functions          *)

Frames == [at    : {"emitting", "finishing", "releasing", "finalizing"},
           ctl   : Controllers,
           event : Events \cup {NULL},   \* releasing, finalizing: the event
                                         \* whose dispose drops the reference
           todo  : Seq(Handlers)]

Frame(at, c, e, todo) == [at |-> at, ctl |-> c, event |-> e, todo |-> todo]

Top == stack[Len(stack)]
Callers == SubSeq(stack, 1, Len(stack) - 1)
Room == Len(stack) < MaxDepth

\* It is client code that runs now.
ClientRuns == stack # <<>> => Top.at # "finishing"

\* The event is owned, or is an argument of a handler that has not returned.
MayUseEvent(e) ==
  \/ eventOwned[e] > 0
  \/ \E i \in DOMAIN stack : stack[i].at = "emitting" /\ stack[i].event = e

\* The controller is owned, or an argument of a handler that has not returned.
Held(c) ==
  \/ ctlOwned[c] > 0
  \/ \E i \in DOMAIN stack : stack[i].at = "emitting" /\ stack[i].ctl = c

\* The client has a pointer to the controller, one it holds or one that
\* g_controller_event_get_controller returned, and GObject accepts it: it
\* refuses an object whose count is 0.
MayUse(c) ==
  /\ Held(c) \/ \E e \in Events : MayUseEvent(e) /\ controller[e] = c
  /\ ctlRefs[c] > 0

\* The calls that run the finalize of c, and those suspended in the dispose of e.
Finalizing(c) == \E i \in DOMAIN stack : stack[i].at = "finalizing" /\ stack[i].ctl = c
Disposing(e) ==
  \E i \in DOMAIN stack : stack[i].at \in {"releasing", "finalizing"} /\ stack[i].event = e

-----------------------------------------------------------------------------
(* The accessors.  Positions are counted from 0.                           *)

g_controller_event_get_n_indices(e) == Len(indices[e])

\* Variant: the bound is checked with > in place of >=.
BoundOffByOne(e, i) == 0 <= i /\ i <= g_controller_event_get_n_indices(e)

Within(e, i) == 0 <= i /\ i < g_controller_event_get_n_indices(e)

At(e, i) == IF i < Len(indices[e]) THEN indices[e][i + 1]
            ELSE [type |-> index_type[e], val |-> ZERO]   \* memory past the end

\* TRUE and the index, or FALSE.  The GValue of the caller is initialised with
\* the type of the event; copying an index of another type into it fails with a
\* warning and leaves it as it was.
Failure == [ok |-> FALSE]
g_controller_event_get_index_value(e, i) ==
  IF ~Within(e, i) THEN Failure
  ELSE [ok |-> TRUE,
        index |-> [type |-> index_type[e],
                   val  |-> IF At(e, i).type = index_type[e]
                            THEN At(e, i).val ELSE ZERO]]

\* The variadic form copies the index whatever its type.
g_controller_event_get_index(e, i) ==
  IF i \in 0 .. Len(indices[e]) - 1 THEN [ok |-> TRUE, index |-> At(e, i)] ELSE Failure

\* g_controller_event_get_index_int, _uint, _string and _pointer: zero when
\* the event is of another type or the position is out of range.
TypedGetter(e, type, i) ==
  IF index_type[e] = type /\ Within(e, i) /\ At(e, i).type = type
  THEN At(e, i).val ELSE ZERO

-----------------------------------------------------------------------------
Init ==
  /\ controller = [e \in Events |-> NULL]
  /\ index_type = [e \in Events |-> NULL]
  /\ indices = [e \in Events |-> <<>>]
  /\ eventRefs = [e \in Events |-> 0]
  /\ eventOwned = [e \in Events |-> 0]
  /\ ctlRefs = [c \in Controllers |-> 0]
  /\ ctlOwned = [c \in Controllers |-> 0]
  /\ handlers = [c \in Controllers |-> <<>>]
  /\ stack = <<>>
  /\ redisposed = FALSE

-----------------------------------------------------------------------------
(* Creating events.                                                        *)

\* Variant: the event takes no reference on its controller.
ControllerNotReferenced(e, c, type, values) ==
  /\ controller' = [controller EXCEPT ![e] = c]
  /\ index_type' = [index_type EXCEPT ![e] = type]
  /\ indices' = [indices EXCEPT ![e] = values]
  /\ UNCHANGED ctlRefs

\* set_property, for the construct properties of a new event: it references
\* the controller and copies the indices.
Construct(e, c, type, values) ==
  /\ controller' = [controller EXCEPT ![e] = c]
  /\ index_type' = [index_type EXCEPT ![e] = type]
  /\ indices' = [indices EXCEPT ![e] = values]
  /\ ctlRefs' = [ctlRefs EXCEPT ![c] = @ + 1]

\* The create_event of the class: a new event, which the caller owns.
create_event(e, c, type, values) ==
  /\ MayUse(c)
  /\ eventRefs[e] = 0
  /\ Construct(e, c, type, values)
  /\ eventRefs' = [eventRefs EXCEPT ![e] = 1]
  /\ eventOwned' = [eventOwned EXCEPT ![e] = 1]
  /\ UNCHANGED <<ctlOwned, handlers, stack, redisposed>>

\* The vector form takes any GValueArray: the types are not looked at.
g_controller_create_eventv(e, c, type, values) == create_event(e, c, type, values)

\* What the loop of the variadic form leaves in the array.  It stops at the
\* first argument it cannot collect, after the element was inserted.
Collected(type, args) ==
  LET bad == {i \in DOMAIN args : args[i] = BAD}
      n == IF bad = {} THEN Len(args) ELSE CHOOSE i \in bad : \A j \in bad : i <= j
  IN [i \in 1..n |-> [type |-> type, val |-> IF args[i] = BAD THEN ZERO ELSE args[i]]]

g_controller_create_event(e, c, type, args) ==
  create_event(e, c, type, Collected(type, args))

-----------------------------------------------------------------------------
(* Filling events.                                                         *)

\* Variant: the type of the value is not checked.
AppendUnchecked(e, index) ==
  indices' = [indices EXCEPT ![e] = Append(@, index)]

\* g_controller_event_add_index_value, past its checks.
AppendIndex(e, index) ==
  /\ index.type = index_type[e]
  /\ indices' = [indices EXCEPT ![e] = Append(@, index)]

AddIndex(e) ==
  /\ MayUseEvent(e)
  /\ Len(indices[e]) < MaxIndices
  /\ UNCHANGED <<controller, index_type, counts, handlers, stack, redisposed>>

g_controller_event_add_index_value(e, index) == AddIndex(e) /\ AppendIndex(e, index)

\* The variadic form: an argument that cannot be collected is not added.
g_controller_event_add_index(e, arg) ==
  /\ arg # BAD
  /\ AddIndex(e)
  /\ indices' = [indices EXCEPT ![e] = Append(@, [type |-> index_type[e], val |-> arg])]

-----------------------------------------------------------------------------
(* Releasing objects.                                                      *)

\* One reference on c goes; g_object_unref refuses an object that has none.
Dropped(c) == [ctlRefs EXCEPT ![c] = IF @ = 0 THEN 0 ELSE @ - 1]

\* g_object_unref on a controller.  The last reference is given up when the
\* dispose of the controller has returned.
UnrefCtl(c, callers) ==
  \/ /\ ctlRefs[c] # 1
     /\ ctlRefs' = Dropped(c)
     /\ stack' = callers
  \/ /\ ctlRefs[c] = 1
     /\ stack' = Append(callers, Frame("releasing", c, NULL, <<>>))
     /\ UNCHANGED ctlRefs

\* Variant: dispose drops the reference on the controller and keeps the pointer.
PointerKept(e) == UNCHANGED controller

\* dispose has dropped the reference on the controller: it clears the pointer.
ClearController(e) == controller' = [controller EXCEPT ![e] = NULL]

\* finalize frees the indices.
finalize(e) ==
  /\ index_type' = [index_type EXCEPT ![e] = NULL]
  /\ indices' = [indices EXCEPT ![e] = <<>>]

\* One reference on e goes; the last one takes the event with it.
DropEventRef(e) ==
  /\ eventRefs' = [eventRefs EXCEPT ![e] = @ - 1]
  /\ IF eventRefs[e] = 1 THEN finalize(e) ELSE UNCHANGED <<index_type, indices>>

\* The reference dispose has to drop is the last one on the controller.
HoldsLast(e) == controller[e] # NULL /\ ctlRefs[controller[e]] = 1

\* Variant: dispose clears the pointer and forgets the reference.
DisposeForgets(e) == ClearController(e) /\ UNCHANGED ctlRefs

\* dispose, when somebody else keeps the controller.
dispose(e) ==
  /\ ~HoldsLast(e)
  /\ ctlRefs' = IF controller[e] = NULL THEN ctlRefs ELSE Dropped(controller[e])
  /\ ClearController(e)

\* dispose, suspended in the dispose of the controller.
DisposeLast(e, callers) ==
  /\ HoldsLast(e)
  /\ stack' = Append(callers, Frame("releasing", controller[e], e, <<>>))
  /\ UNCHANGED <<ctlRefs, controller>>

\* g_object_unref on an event.
UnrefEvent(e, callers) ==
  \/ /\ eventRefs[e] > 1
     /\ DropEventRef(e)
     /\ stack' = callers
     /\ UNCHANGED <<controller, ctlRefs>>
  \/ /\ eventRefs[e] = 1
     /\ dispose(e)
     /\ DropEventRef(e)
     /\ stack' = callers
  \/ /\ eventRefs[e] = 1
     /\ DisposeLast(e, callers)
     /\ UNCHANGED <<eventRefs, index_type, indices>>

-----------------------------------------------------------------------------
(* The client.                                                             *)

\* A new controller, where none is and none is being finalized.
NewController(c) ==
  /\ ctlRefs[c] = 0 /\ ~Finalizing(c)
  /\ ctlRefs' = [ctlRefs EXCEPT ![c] = 1]
  /\ ctlOwned' = [ctlOwned EXCEPT ![c] = 1]
  /\ UNCHANGED <<eventData, eventRefs, eventOwned, handlers, stack, redisposed>>

RefController(c) ==
  /\ MayUse(c) /\ ctlOwned[c] < MaxRefs
  /\ ctlRefs' = [ctlRefs EXCEPT ![c] = @ + 1]
  /\ ctlOwned' = [ctlOwned EXCEPT ![c] = @ + 1]
  /\ UNCHANGED <<eventData, eventRefs, eventOwned, handlers, stack, redisposed>>

UnrefController(c) ==
  /\ ctlOwned[c] > 0 /\ Room
  /\ ctlOwned' = [ctlOwned EXCEPT ![c] = @ - 1]
  /\ UnrefCtl(c, stack)
  /\ UNCHANGED <<eventData, eventRefs, eventOwned, handlers, redisposed>>

RefEvent(e) ==
  /\ MayUseEvent(e) /\ eventOwned[e] < MaxRefs
  /\ eventRefs' = [eventRefs EXCEPT ![e] = @ + 1]
  /\ eventOwned' = [eventOwned EXCEPT ![e] = @ + 1]
  /\ UNCHANGED <<eventData, ctlRefs, ctlOwned, handlers, stack, redisposed>>

UnrefOwnedEvent(e) ==
  /\ eventOwned[e] > 0 /\ Room
  /\ eventOwned' = [eventOwned EXCEPT ![e] = @ - 1]
  /\ UnrefEvent(e, stack)
  /\ UNCHANGED <<ctlOwned, handlers, redisposed>>

\* g_object_run_dispose.  From within the dispose of the same event it finds
\* the pointer still set and drops a second reference.
RunDisposeEvent(e) ==
  /\ MayUseEvent(e) /\ Room
  /\ controller[e] # NULL
  /\ \/ dispose(e) /\ UNCHANGED <<eventRefs, stack>>
     \/ /\ DisposeLast(e, stack)
        /\ eventRefs' = [eventRefs EXCEPT ![e] = @ + 1]
  /\ redisposed' = (redisposed \/ Disposing(e))
  /\ UNCHANGED <<index_type, indices, eventOwned, ctlOwned, handlers>>

Connect(c, h) ==
  /\ MayUse(c)
  /\ h \notin Range(handlers[c])
  /\ handlers' = [handlers EXCEPT ![c] = Append(@, h)]
  /\ UNCHANGED <<eventData, counts, stack, redisposed>>

\* The emissions of c without the handler h, and without any handler.
Skipping(c, h, frames) ==
  [i \in DOMAIN frames |->
     IF frames[i].ctl = c THEN [frames[i] EXCEPT !.todo = RemoveFirst(@, h)]
     ELSE frames[i]]
Silenced(c, frames) ==
  [i \in DOMAIN frames |->
     IF frames[i].ctl = c THEN [frames[i] EXCEPT !.todo = <<>>] ELSE frames[i]]

\* A handler is not called any more once it is disconnected.
Disconnect(c, h) ==
  /\ MayUse(c)
  /\ h \in Range(handlers[c])
  /\ handlers' = [handlers EXCEPT ![c] = RemoveFirst(@, h)]
  /\ stack' = Skipping(c, h, stack)
  /\ UNCHANGED <<eventData, counts, redisposed>>

\* g_object_run_dispose on a controller disconnects every handler.
RunDisposeController(c) ==
  /\ MayUse(c)
  /\ handlers[c] # <<>>
  /\ handlers' = [handlers EXCEPT ![c] = <<>>]
  /\ stack' = Silenced(c, stack)
  /\ UNCHANGED <<eventData, counts, redisposed>>

-----------------------------------------------------------------------------
(* Emissions.                                                              *)

\* Variant: the emission keeps no reference on the event.
EventNotHeld(c, e) ==
  /\ ctlRefs' = [ctlRefs EXCEPT ![c] = @ + 1]
  /\ stack' = Append(stack, Frame("emitting", c, e, Tail(handlers[c])))
  /\ UNCHANGED eventRefs

\* g_signal_emit collects both objects, which references them, and calls the
\* first of the handlers connected now.
StartEmission(c, e) ==
  /\ ctlRefs' = [ctlRefs EXCEPT ![c] = @ + 1]
  /\ eventRefs' = [eventRefs EXCEPT ![e] = @ + 1]
  /\ stack' = Append(stack, Frame("emitting", c, e, Tail(handlers[c])))

\* The controller need not be the one that created the event.  An emission
\* without handlers does nothing.
g_controller_emit_changed(c, e) ==
  /\ MayUse(c) /\ MayUseEvent(e)
  /\ handlers[c] # <<>>
  /\ Room
  /\ StartEmission(c, e)
  /\ UNCHANGED <<eventData, eventOwned, ctlOwned, handlers, redisposed>>

\* Variant: the handlers are looked up again after each call.
HandlersReread ==
  /\ stack # <<>> /\ Top.at = "emitting" /\ Top.todo # <<>>
  /\ stack' = Append(Callers, [Top EXCEPT !.todo = handlers[Top.ctl]])
  /\ UNCHANGED <<eventData, counts, handlers, redisposed>>

\* A handler returns and the next one is called.
NextHandler ==
  /\ stack # <<>> /\ Top.at = "emitting" /\ Top.todo # <<>>
  /\ stack' = Append(Callers, [Top EXCEPT !.todo = Tail(@)])
  /\ UNCHANGED <<eventData, counts, handlers, redisposed>>

\* The last handler returns: the emission gives the event back ...
LastHandler ==
  /\ stack # <<>> /\ Top.at = "emitting" /\ Top.todo = <<>>
  /\ UnrefEvent(Top.event, Append(Callers, Frame("finishing", Top.ctl, NULL, <<>>)))
  /\ UNCHANGED <<eventOwned, ctlOwned, handlers, redisposed>>

\* ... and then the controller.
FinishEmission ==
  /\ stack # <<>> /\ Top.at = "finishing"
  /\ UnrefCtl(Top.ctl, Callers)
  /\ UNCHANGED <<eventData, eventRefs, eventOwned, ctlOwned, handlers, redisposed>>

\* g_object_unref returns to the dispose of the event on top, if it is in one:
\* the pointer is cleared, and the reference goes that the dispose ran under.
EventDisposed ==
  IF Top.event = NULL THEN UNCHANGED <<eventData, eventRefs>>
  ELSE ClearController(Top.event) /\ DropEventRef(Top.event)

\* The dispose of a controller returns to the unref that ran it: the reference
\* goes, and the controller with it unless it was referenced in between.  The
\* free functions that finalize runs find a count of 0, and the pointer of the
\* event still set.
ReleaseReturns ==
  /\ stack # <<>> /\ Top.at = "releasing"
  /\ ctlRefs' = Dropped(Top.ctl)
  /\ handlers' = [handlers EXCEPT ![Top.ctl] = <<>>]
  /\ IF ctlRefs[Top.ctl] = 1 /\ Top.ctl \in FinalizeControllers
     THEN /\ stack' = Silenced(Top.ctl, Append(Callers, [Top EXCEPT !.at = "finalizing"]))
          /\ UNCHANGED <<eventData, eventRefs>>
     ELSE stack' = Silenced(Top.ctl, Callers) /\ EventDisposed
  /\ UNCHANGED <<eventOwned, ctlOwned, redisposed>>

\* The finalize of a controller returns, and nothing of it is left.
FinalizeReturns ==
  /\ stack # <<>> /\ Top.at = "finalizing"
  /\ stack' = Callers
  /\ EventDisposed
  /\ UNCHANGED <<eventOwned, ctlRefs, ctlOwned, handlers, redisposed>>

Return == NextHandler \/ LastHandler \/ FinishEmission \/ ReleaseReturns \/ FinalizeReturns

-----------------------------------------------------------------------------
Args == UNION {[1..n -> Vals \cup {BAD}] : n \in 0..MaxIndices}

Client ==
  \/ \E c \in Controllers :
       \/ NewController(c) \/ RefController(c) \/ UnrefController(c)
       \/ RunDisposeController(c)
       \/ \E h \in Handlers : Connect(c, h) \/ Disconnect(c, h)
       \/ \E e \in Events :
            \/ g_controller_emit_changed(c, e)
            \/ \E t \in Types :
                 \/ \E values \in Indices : g_controller_create_eventv(e, c, t, values)
                 \/ \E args \in Args : g_controller_create_event(e, c, t, args)
  \/ \E e \in Events :
       \/ RefEvent(e) \/ UnrefOwnedEvent(e) \/ RunDisposeEvent(e)
       \/ \E index \in Passed : g_controller_event_add_index_value(e, index)
       \/ \E arg \in Vals \cup {BAD} : g_controller_event_add_index(e, arg)

Next == (ClientRuns /\ Client) \/ Return

Spec == Init /\ [][Next]_vars

\* Handlers and destroy functions return.
FairSpec == Spec /\ WF_vars(Return)

-----------------------------------------------------------------------------
(* Properties.                                                             *)

\* Every variable has its type.
TypeOK ==
  /\ controller \in [Events -> Controllers \cup {NULL}]
  /\ index_type \in [Events -> Types \cup {NULL}]
  /\ indices \in [Events -> Seq(Index)]
  /\ eventRefs \in [Events -> Nat] /\ eventOwned \in [Events -> Nat]
  /\ ctlRefs \in [Controllers -> Nat] /\ ctlOwned \in [Controllers -> Nat]
  /\ handlers \in [Controllers -> Seq(Handlers)]
  /\ stack \in Seq(Frames)
  /\ redisposed \in BOOLEAN

\* The calls suspended at one of these places in c, and those that work on e.
CallsOn(c, places) == {i \in DOMAIN stack : stack[i].at \in places /\ stack[i].ctl = c}
CallsWith(e) == {i \in DOMAIN stack : stack[i].event = e}

\* What holds a reference on c: the client, the events it created whose dispose
\* has not dropped theirs, and the calls that are not part of such a dispose.
HoldersOf(c) ==
  ctlOwned[c]
  + Cardinality({e \in Events : controller[e] = c /\ ~\E i \in CallsWith(e) : stack[i].at = "finalizing"})
  + Cardinality({i \in CallsOn(c, {"emitting", "finishing", "releasing"}) :
                   stack[i].at = "releasing" => stack[i].event = NULL})

\* The references on an event are the client's and those of the calls that
\* work on it, however emissions nest and whatever is disposed of meanwhile.  A
\* controller never has more references than there are holders; it has exactly
\* as many until the client disposes of an event from within its own dispose.
CountsBalanced ==
  /\ \A e \in Events :
       eventRefs[e] = eventOwned[e] + Cardinality(CallsWith(e))
  /\ \A c \in Controllers :
       /\ ctlRefs[c] <= HoldersOf(c)
       /\ ~redisposed => ctlRefs[c] = HoldersOf(c)

\* The arguments of handlers and what the client owns are alive, however many
\* callbacks have run since the emission began.  Until an event is disposed of
\* from within its own dispose, what g_controller_event_get_controller returns
\* is alive as well, with one exception: while a controller that releases its
\* array in finalize does so because of the dispose of the event, the event
\* still hands it out.
InUseIsLive ==
  /\ \A e \in Events : MayUseEvent(e) => eventRefs[e] > 0
  /\ ~redisposed =>
       /\ \A c \in Controllers : Held(c) => ctlRefs[c] > 0
       /\ \A e \in Events : MayUseEvent(e) /\ controller[e] # NULL =>
            \/ ctlRefs[controller[e]] > 0
            \/ Disposing(e) /\ Finalizing(controller[e]) /\ controller[e] \in FinalizeControllers

\* While an event lives, its type is fixed, an index once stored stays at its
\* position, what is appended has the type of the event, and it never belongs
\* to another controller: a handler that runs late in an emission finds at
\* least what the earlier ones found.
EventsOnlyGrow ==
  [][\A e \in Events : eventRefs[e] > 0 /\ eventRefs'[e] > 0 =>
       /\ index_type'[e] = index_type[e]
       /\ controller'[e] \in {controller[e], NULL}
       /\ Len(indices'[e]) >= Len(indices[e])
       /\ \A i \in DOMAIN indices'[e] :
            IF i \in DOMAIN indices[e]
            THEN indices'[e][i] = indices[e][i]
            ELSE indices'[e][i].type = index_type[e]]_vars

\* What the accessors tell about position i of e.
Readings(e, i) == [byValue |-> g_controller_event_get_index_value(e, i),
                   byArgs  |-> g_controller_event_get_index(e, i),
                   typed   |-> [t \in Types |-> TypedGetter(e, t, i)]]

\* Once an accessor says that there is an index at a position of an event, all
\* of them tell the same there as long as the event lives: no bound lets an
\* accessor find what is not stored yet, and a handler may read a position
\* again after it, or another handler, added indices to the event.
ReadingsStay ==
  [][\A e \in Events : eventRefs[e] > 0 /\ eventRefs'[e] > 0 =>
       \A i \in -1 .. MaxIndices + 1 :
         Readings(e, i).byValue.ok \/ Readings(e, i).byArgs.ok
           => Readings(e, i)' = Readings(e, i)]_vars

\* The client gave up everything it owned.
ClientGone == /\ \A e \in Events : eventOwned[e] = 0
              /\ \A c \in Controllers : ctlOwned[c] = 0

\* When the client owns nothing any more and no call is suspended, no event and
\* no controller is left: an event keeps its controller no longer than it
\* lives, and nothing that a call or an emission took survives it.
NothingLeftBehind ==
  stack = <<>> /\ ClientGone =>
    /\ \A e \in Events : eventRefs[e] = 0
    /\ \A c \in Controllers : ctlRefs[c] = 0

\* What the suspended calls have left to do: emissions have handlers to call,
\* then the event to give back and then the controller, and each of these two
\* may have to wait for the dispose of a controller, and that for its finalize.
CallsAt(frames, at) == Cardinality({i \in DOMAIN frames : frames[i].at = at})
HandlersLeft(frames) == IF frames = <<>> THEN 0 ELSE Len(frames[Len(frames)].todo)
Work(frames) == <<CallsAt(frames, "emitting"), CallsAt(frames, "finishing"),
                  CallsAt(frames, "releasing"), CallsAt(frames, "finalizing"),
                  HandlersLeft(frames)>>
LessWork(u, w) ==
  \E k \in DOMAIN w : u[k] < w[k] /\ \A j \in 1 .. k - 1 : u[j] = w[j]

\* Each return leaves less to do: callbacks that only return bring every call
\* to its end, and no emission calls its handlers for ever, whatever was
\* connected, disconnected, appended or disposed of meanwhile.
CallsEnd == [][Return => LessWork(Work(stack'), Work(stack))]_vars

\* Everything the client does not own is freed in the end, once it has let go
\* of everything and its callbacks only return: an event that outlives an
\* emission does not keep its controller for ever.
AllReleased ==
  (<>[]ClientGone /\ <>[][Return]_vars) =>
    <>[](/\ \A e \in Events : eventRefs[e] = 0
         /\ \A c \in Controllers : ctlRefs[c] = 0)

\* "Creates a new GControllerEvent for the given indices": an event carries
\* nothing but indices somebody passed.
NoPhantomIndex ==
  \A e \in Events : \A i \in DOMAIN indices[e] : indices[e][i].val # ZERO
=============================================================================
