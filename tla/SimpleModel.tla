---------------------------- MODULE SimpleModel ----------------------------
(***************************************************************************)
(* The change protocol, as src/examples/simple-model.c follows it: a model  *)
(* keeps texts in a GPtrArray, changes the array, and tells the views that  *)
(* are connected to "changed" where to look.  A view reads the model from   *)
(* its handler; a handler may call the model again, and views may connect   *)
(* and disconnect, wherever client code runs.                               *)
(*                                                                         *)
(* ControllerEvent has the details of events and emissions and              *)
(* StorageController those of set_array; here an event is its action and    *)
(* its index, and the references an emission holds while it lasts are left   *)
(* out.                                                                     *)
(***************************************************************************)
EXTENDS Naturals, Sequences, FiniteSets, SequencesExt

CONSTANTS
  Views,           \* the handlers that may be connected
  Texts,
  ArrayAddresses,  \* where GPtrArrays are allocated
  NULL,
  MaxTexts,        \* bound on the texts of the model
  MaxEvents,       \* bound on the events that are allocated
  MaxDepth         \* bound on the nesting of calls

ASSUME NoViewAssumption == NULL \notin Views \cup Texts \cup ArrayAddresses
ASSUME CallBoundsAssumption ==
  MaxTexts \in Nat /\ MaxEvents \in Nat \ {0} /\ MaxDepth \in Nat \ {0}

VARIABLES
  alive,       \* the model has not been disposed of
  modelArray,  \* model->array
  ctlArray,    \* priv->array of the controller
  ctlRefs,     \* the ref_count of the controller
  arrayRefs,   \* the ref_count of each array; 0 when it is not allocated
  texts,       \* the contents of each array
  events,      \* how many events are allocated
  handlers,    \* the views connected to "changed", in order
  seen,        \* what the lines each view printed add up to
  stack,       \* the calls of the model that are emitting, the innermost last
  misled       \* history: the views that can no longer follow the changes

storage == <<modelArray, ctlArray, arrayRefs>>
counts == <<ctlRefs, events>>
vars == <<alive, storage, counts, texts, handlers, seen, stack, misled>>

-----------------------------------------------------------------------------
(* Emissions in progress: the event, the view whose handler runs (NULL      *)
(* before the first) and the views to call after it.                        *)

Frames == [action : {"ADD", "REMOVE", "CLEAR"}, index : Nat,
           view : Views \cup {NULL}, todo : Seq(Views)]

Top == stack[Len(stack)]
Callers == SubSeq(stack, 1, Len(stack) - 1)

\* It is client code that runs: the main program or a handler.
ClientRuns == stack # <<>> => Top.view # NULL

MayCall == alive /\ ClientRuns /\ Len(stack) < MaxDepth

\* A text is being removed: the views were told, and it is still there.
RemovalPending == \E i \in DOMAIN stack : stack[i].action = "REMOVE"

\* The views an emission has still to call.
Pending == UNION {Range(stack[i].todo) : i \in DOMAIN stack}

-----------------------------------------------------------------------------
(* Reading the model.                                                      *)

my_simple_model_get_size == Len(texts[modelArray])
my_simple_model_get_items == texts[modelArray]

\* The position is not checked: NULL stands for what is found past the end.
HasText(pos) == arrayRefs[modelArray] > 0 /\ pos < my_simple_model_get_size
my_simple_model_get_text(pos) ==
  IF HasText(pos) THEN texts[modelArray][pos + 1] ELSE NULL

-----------------------------------------------------------------------------
(* Creation and the end.                                                   *)

\* my_simple_model_init: the controller takes the only reference that is left
\* on the array, and the model keeps a plain pointer.
Init ==
  /\ alive = TRUE
  /\ modelArray \in ArrayAddresses
  /\ ctlArray = modelArray
  /\ ctlRefs = 1
  /\ arrayRefs = [a \in ArrayAddresses |-> IF a = modelArray THEN 1 ELSE 0]
  /\ texts = [a \in ArrayAddresses |-> <<>>]
  /\ events = 0
  /\ handlers = <<>>
  /\ seen = [v \in Views |-> <<>>]
  /\ stack = <<>>
  /\ misled = {}

\* The last reference on a controller takes its handlers with it and drops the
\* one on the array.
my_simple_model_dispose ==
  /\ alive /\ stack = <<>>
  /\ alive' = FALSE
  /\ ctlRefs' = ctlRefs - 1
  /\ IF ctlRefs = 1
     THEN /\ arrayRefs' = [arrayRefs EXCEPT ![ctlArray] = @ - 1]
          /\ handlers' = <<>>
          /\ seen' = [v \in Views |-> <<>>]
     ELSE UNCHANGED <<arrayRefs, handlers, seen>>
  /\ UNCHANGED <<modelArray, ctlArray, texts, events, stack, misled>>

-----------------------------------------------------------------------------
(* Changing the model.  Each function runs up to the first handler here,    *)
(* and to its end in one of the Finish steps below.                         *)

\* g_controller_create_event, which references the controller, and
\* g_controller_emit_changed.  A handler that calls the model misleads the views
\* that wait to be told of an earlier change: they learn of this one first.
\* During a removal it misleads every view: the index counts a text that is
\* gone for them.
CreateAndEmit(action, index) ==
  /\ events < MaxEvents
  /\ events' = events + 1
  /\ ctlRefs' = ctlRefs + 1
  /\ stack' = Append(stack, [action |-> action, index |-> index,
                             view |-> NULL, todo |-> handlers])
  /\ misled' = misled \cup (IF RemovalPending THEN Range(handlers) ELSE Pending)
  /\ UNCHANGED <<alive, handlers, seen>>

my_simple_model_add_text(text) ==
  /\ MayCall
  /\ my_simple_model_get_size < MaxTexts
  /\ texts' = [texts EXCEPT ![modelArray] = Append(@, text)]
  /\ CreateAndEmit("ADD", my_simple_model_get_size)
  /\ UNCHANGED storage

\* Where the search finds the text, counted from 0.
FirstPosition(text) == SelectInSeq(texts[modelArray], LAMBDA t : t = text) - 1

\* Variant: the views are told when the text is gone already.
RemoveThenTell(text) ==
  /\ MayCall
  /\ text \in Range(texts[modelArray])
  /\ texts' = [texts EXCEPT ![modelArray] = RemoveAt(@, FirstPosition(text) + 1)]
  /\ CreateAndEmit("REMOVE", FirstPosition(text))
  /\ UNCHANGED storage

\* The views are told while the text is still there.  Nothing happens when the
\* model does not have it.
my_simple_model_remove_text(text) ==
  /\ MayCall
  /\ text \in Range(texts[modelArray])
  /\ CreateAndEmit("REMOVE", FirstPosition(text))
  /\ UNCHANGED <<storage, texts>>

\* g_ptr_array_controller_set_array, given a new array: it drops the reference
\* on the old one and takes one on the new one, which has its creator's.
SetArray(a) ==
  /\ ctlArray' = a
  /\ arrayRefs' = [arrayRefs EXCEPT ![a] = 2, ![ctlArray] = @ - 1]

\* Variant: model->array is not updated (as in my_simple_model_set_items).
ClearKeepsPointer ==
  /\ MayCall
  /\ \E a \in ArrayAddresses :
       /\ arrayRefs[a] = 0
       /\ SetArray(a)
       /\ UNCHANGED modelArray
       /\ texts' = [texts EXCEPT ![a] = <<>>]
  /\ CreateAndEmit("CLEAR", 0)

\* Variant: nobody is told.
ClearsQuietly ==
  /\ MayCall
  /\ \E a \in ArrayAddresses :
       /\ arrayRefs[a] = 0
       /\ SetArray(a)
       /\ modelArray' = a
       /\ texts' = [texts EXCEPT ![a] = <<>>]
  /\ UNCHANGED <<alive, counts, handlers, seen, stack, misled>>

\* The event of a CLEAR has no index.  What the old array held is out of
\* everybody's reach.
my_simple_model_clear ==
  /\ MayCall
  /\ \E a \in ArrayAddresses :
       /\ arrayRefs[a] = 0
       /\ SetArray(a)
       /\ modelArray' = a
       /\ texts' = [texts EXCEPT ![a] = <<>>, ![modelArray] = <<>>]
  /\ CreateAndEmit("CLEAR", 0)

\* The rest of add_text and of clear: the event is given back, which gives back
\* the controller.
UnrefEvent ==
  /\ events' = events - 1
  /\ ctlRefs' = ctlRefs - 1

Finish(action) ==
  /\ stack # <<>> /\ Top.todo = <<>> /\ Top.action = action
  /\ stack' = Callers
  /\ UNCHANGED <<alive, storage, handlers, seen, misled>>

FinishAdd == Finish("ADD") /\ UnrefEvent /\ UNCHANGED texts
FinishClear == Finish("CLEAR") /\ UnrefEvent /\ UNCHANGED texts

\* g_ptr_array_remove_index: a position the array does not have is refused.
RemoveIndex(seq, pos) == IF pos < Len(seq) THEN RemoveAt(seq, pos + 1) ELSE seq

\* Variant: the event is given back as well, and the wrong unref stays.
UnrefsBoth ==
  /\ Finish("REMOVE")
  /\ ctlRefs' = ctlRefs - 2
  /\ texts' = [texts EXCEPT ![modelArray] = RemoveIndex(@, Top.index)]
  /\ events' = events - 1

\* The rest of remove_text: it is the controller that is unreferenced, the
\* event stays.
FinishRemove ==
  /\ Finish("REMOVE")
  /\ ctlRefs' = ctlRefs - 1
  /\ texts' = [texts EXCEPT ![modelArray] = RemoveIndex(@, Top.index)]
  /\ UNCHANGED events

-----------------------------------------------------------------------------
(* The views.                                                              *)

\* A view is connected and reads the items there are: during a removal these
\* have a text too many, and nobody tells the view.
Connect(v) ==
  /\ alive /\ ClientRuns
  /\ v \notin Range(handlers)
  /\ handlers' = Append(handlers, v)
  /\ seen' = [seen EXCEPT ![v] = my_simple_model_get_items]
  /\ misled' = IF RemovalPending THEN misled \cup {v} ELSE misled
  /\ UNCHANGED <<alive, storage, counts, texts, stack>>

\* A handler that is disconnected is not called any more.
Disconnect(v) ==
  /\ alive /\ ClientRuns
  /\ v \in Range(handlers)
  /\ handlers' = RemoveFirst(handlers, v)
  /\ seen' = [seen EXCEPT ![v] = <<>>]
  /\ misled' = misled \ {v}
  /\ stack' = [i \in DOMAIN stack |-> [stack[i] EXCEPT !.todo = RemoveFirst(@, v)]]
  /\ UNCHANGED <<alive, storage, counts, texts>>

\* What the lines printed by on_model_changed add up to after one more.  A line
\* about a position that the earlier ones do not give adds nothing.
Printed(log, action, index) ==
  CASE action = "ADD" /\ index <= Len(log) ->
         InsertAt(log, index + 1, my_simple_model_get_text(index))
    [] action = "REMOVE" /\ index < Len(log) -> RemoveAt(log, index + 1)
    [] action = "CLEAR" -> <<>>
    [] OTHER -> log

\* The handler of the next view: it reads the text at the index of the event.
on_model_changed ==
  /\ stack # <<>> /\ Top.todo # <<>>
  /\ LET v == Head(Top.todo)
     IN /\ seen' = [seen EXCEPT ![v] = Printed(@, Top.action, Top.index)]
        /\ stack' = Append(Callers, [Top EXCEPT !.view = v, !.todo = Tail(@)])
  /\ UNCHANGED <<alive, storage, counts, texts, handlers, misled>>

-----------------------------------------------------------------------------
Client ==
  \/ \E text \in Texts : my_simple_model_add_text(text) \/ my_simple_model_remove_text(text)
  \/ my_simple_model_clear
  \/ my_simple_model_dispose
  \/ \E v \in Views : Connect(v) \/ Disconnect(v)

Return == on_model_changed \/ FinishAdd \/ FinishRemove \/ FinishClear

Next == Client \/ Return

Spec == Init /\ [][Next]_vars

\* Handlers return, and the emission goes on.
FairSpec == Spec /\ WF_vars(Return)

-----------------------------------------------------------------------------
(* Properties.                                                             *)

\* Every variable has its type; no count is ever below zero.
TypeOK ==
  /\ alive \in BOOLEAN
  /\ modelArray \in ArrayAddresses /\ ctlArray \in ArrayAddresses
  /\ ctlRefs \in Nat /\ events \in Nat
  /\ arrayRefs \in [ArrayAddresses -> Nat]
  /\ texts \in [ArrayAddresses -> Seq(Texts)]
  /\ handlers \in Seq(Views) /\ IsInjective(handlers)
  /\ seen \in [Views -> Seq(Texts \cup {NULL})]
  /\ stack \in Seq(Frames)
  /\ misled \subseteq Views

\* The views that follow the model.
Watching == IF alive THEN Range(handlers) \ misled ELSE {}

\* A removal in progress: its text is in the array and gone for the views.
Removing == stack # <<>> /\ Top.action = "REMOVE"

\* The contents as the views are to know them.
Contents ==
  IF ~alive THEN <<>>
  ELSE IF Removing THEN RemoveIndex(my_simple_model_get_items, Top.index)
  ELSE my_simple_model_get_items

\* "g_assert (text != NULL)": a view that is still to be told will find a text
\* at the index of the event, in an array that is allocated, and a text that is
\* removed is the one the view has at that index.  Handlers may call the model
\* at any depth and views may come and go; only the views misled by a call that
\* was made while they waited, or during a removal, may find something else.
TextsFound ==
  \A i \in DOMAIN stack : \A v \in Range(stack[i].todo) \ misled :
    LET index == stack[i].index IN
      /\ stack[i].action \in {"ADD", "REMOVE"} => HasText(index)
      /\ stack[i].action = "REMOVE" =>
           /\ index < Len(seen[v])
           /\ seen[v][index + 1] = my_simple_model_get_text(index)

\* Whenever the client runs, the model and its controller have the same array,
\* which is allocated, and the controller is: although the model owns no
\* reference on the array, and each removal drops one on the controller that
\* it does not own.
ModelUsable ==
  alive /\ ClientRuns =>
    modelArray = ctlArray /\ arrayRefs[modelArray] > 0 /\ ctlRefs > 0

\* A view that is not misled has the contents of the model unless the innermost
\* call has still to tell it: also one that was connected while handlers ran,
\* after calls nested in handlers, and when a removal ends, whose text is in the
\* array until the last handler has returned.
ToldIsInStep ==
  \A v \in Watching :
    (stack # <<>> => v \notin Range(Top.todo)) => seen[v] = Contents

\* The model keeps the promise of ViewsInStep, whatever calls are nested in
\* handlers and whenever views are connected: it changes only when every view it
\* does not mislead by the change knows its contents, and the handler of a view
\* that is not misled brings it up to date in one step.
Abstract == INSTANCE ViewsInStep WITH
  contents <- Contents,
  watching <- Watching,
  seen     <- [v \in Views |-> IF v \in Watching THEN seen[v] ELSE <<>>]
InStep == Abstract!Spec

\* If handlers return, then again and again every view that is not misled has
\* the contents of the model.
CaughtUp == []<>(\A v \in Watching : seen[v] = Contents)

\* "Use g_object_unref() when done using the returned object": when the model
\* and its calls are gone, so are the events it created.
NoEventLeft == ~alive => events = 0
=============================================================================
