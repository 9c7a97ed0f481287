# GController in TLA+

A verification project for GController, a small C library on top of GLib and
GObject: controllers that let views follow the changes of a plain GLib data
structure. The modules are translated from the sources under
`src/glib-controller/`; paths below are relative to that directory unless they
start with `src/`.

## The system

| Component | State | Operations | Interaction |
| --- | --- | --- | --- |
| `GArrayController`, `GPtrArrayController`, `GHashController` | `priv->array` / `priv->hash`, a counted reference on one storage | construction, `set_array` / `set_hash`, the property, `get_*`, dispose and finalize | releasing a storage may run the free functions of its elements; a setter ends with `g_object_notify_by_pspec`, which runs handlers |
| `GController` | none of its own; the handlers connected to its `changed` signal | `create_event`, `create_eventv`, `emit_changed` | `create_event` makes a `GControllerEvent` that references the controller; `emit_changed` calls every handler |
| `GControllerEvent` | controller, action, index type, array of indices | construction, `add_index`, `add_index_value`, accessors, dispose, finalize | passed to the handlers of `changed`, which may keep it, fill it, dispose of it |
| `GIndexSet`, `GRange` | an atomic count and an array of indices; location and length | alloc, ref, unref, four initialisers, queries | shared between threads by reference; a range or another set initialises a set |
| Change protocol (`src/README.md`) | the storage, the views | change the storage, create an event, emit it | views read the storage at the indices of the event |
| Example (`src/examples/simple-model.c`) | a model over a `GPtrArray`: a plain pointer to the array, a controller | creation, add, remove, set, clear, the readers, dispose; the handler `on_model_changed` | the repository's one writer of the change protocol; client of the above |
| Tests, generated enumeration types, marshaller, build system, documentation | none | | |

The library starts no thread and persists nothing. What is hard in it:

- **Calls that are not atomic.** `g_array_unref` on a last reference and
  `g_object_notify_by_pspec` call client code from the middle of a setter, of
  dispose or of an emission. That code may call the library again, on the same
  objects. Every model has a stack of suspended calls for this.
- **Reference counts kept by several owners**: client, controllers, events and
  the emissions in progress.
- **The order of releasing and clearing**: all the dispose functions and setters
  unreference first and clear or replace the field afterwards.
- **Concurrent references on index sets**, the only part with atomic operations.
- **Partial failure and reuse**: variadic arguments that cannot be collected,
  initialisers called on a set that already has contents.

What makes each component correct:

- storage controllers: references balance; the field never dangles; a disposed
  controller holds nothing; the storage exists exactly while it is held;
- events and emissions: counts balance; no pointer the interface hands out
  dangles; what an accessor told a handler about a position of an event stays;
- index sets: freed once, by the last owner; an initialised set holds what it
  was asked for; the queries tell the truth about it;
- change protocol: a view that was told of every change, each before the next
  was made, knows the contents, and the index of an event is right for it,
  whatever is nested in handlers and whenever it connected;
- example: its plain pointer never dangles, its controller is there for the next
  call.

## Modules

| Module | Contents |
| --- | --- |
| `StorageController` | the three storage controllers, their callbacks and references |
| `StorageHolding` | the abstract specification: a storage exists exactly as long as somebody holds it, and every change of hands is one step |
| `StorageControllerProofs` | the inductive invariant of `StorageController` where free functions leave the releasing controller alone, and that references balance |
| `StorageCallsProofs` | the invariants that hold where free functions call the releasing controller too, and the theorems about lifetimes and the end of calls |
| `StorageHoldingProofs` | the proof that `StorageController` implements `StorageHolding` |
| `ControllerEvent` | events and the emission of `changed` |
| `ControllerEventProofs` | its inductive invariant and theorems |
| `IndexSet` | index sets and ranges |
| `SharedSets` | the abstract specification of index sets: sets of numbers that only a sole owner changes and that exist as long as somebody has them |
| `IndexSetProofs` | the inductive invariant of `IndexSet`, its theorems, and the proof that it implements `SharedSets` |
| `SimpleModel` | the change protocol as `src/examples/simple-model.c` follows it: the model, its events, the views |
| `ViewsInStep` | the abstract specification: a model changes only while the views that go on following it know its contents, and a view catches up in one step |
| `SimpleModelProofs` | the inductive invariant of `SimpleModel`, its theorems, and the proof that it implements `ViewsInStep` |
| `MCStorageController`, `MCControllerEvent`, `MCIndexSet`, `MCSimpleModel` | what TLC needs besides |

Definitions marked "Variant" are plausible bugs of the definition that follows
them. No specification uses them: put in its place, they show that the
properties notice.

### StorageController

`storage[c]` is `priv->array` or `priv->hash`. `heap`, `refs`, `owned` are a
storage's allocation, its count and the client's part of the count; `object`,
`objRefs`, `objOwned` the same for a controller. `disposed` is a history
variable. `stack` holds the suspended calls; the code that runs is that of the
client called by the top frame (or of the main program if there is none), and may take any
action.

Each library function is one action up to the point where it calls client code,
and a `Return...` action for the rest of it:

| Code | Model |
| --- | --- |
| `g_array_controller_set_array` and its two siblings | `SetStorage`; if the old storage dies, `ReturnToSetter` does the rest; `ReturnToNotify` ends the call |
| `*_dispose` | in `ObjUnref` (last reference) and `RunDispose` (explicit); `ReturnToDispose`, or `ReturnToFinalize` where class_init installed it as finalize |
| `*_class_init` | `ReleasesInDispose`: the slot the function is in (`gptrarraycontroller.c:96`) |
| `*_new`, `*_new_with_*` | `NewController` |
| `*_get_property` | `GetProperty` |

The client is a correct one: it owns what it passes and drops only what it owns
(`MayCall`, `MayPass`, `Promised`). What it passes to a setter it owns until the
setter has referenced it, or it knows that somebody else keeps it: a client that
does not is a use after free at `garraycontroller.c:181`, which the models leave
out. `FreeFuncsReenter` decides about one thing the documentation does not
exclude: whether a free function may call the very controller that is releasing
its storage. With it a free function may set, dispose of and read that
controller. Setting and disposing drop the dying storage again (finding 2).
Reading hands out a reference on the dying storage, whose release then frees it
a second time; `reborn` remembers that this happened. What the models do after
that (the outer call gives the memory back, and the count is 0) is one of the
outcomes freed memory can have, so that what they say of storages is said until
then. The controllers' own counts and the end of calls do not depend on it.

### ControllerEvent

`controller`, `index_type`, `indices` are the private data of the events. An
index is a type and a value; `ZERO` is the value of a `GValue` that was only
initialised, `BAD` an argument that cannot be collected. An event without an
array and one with an empty array are the same, no accessor tells them apart.
The action of an event is left out: it is set once and passed on.

A frame is an emission at one of its handlers (`emitting`; `todo` are the
handlers still to call), an emission that has given its event back
(`finishing`), or the unref of a last reference on a controller, which runs
client code twice: in its dispose, while the reference is still there
(`releasing`), and in its finalize, when the count is 0 (`finalizing`, for the
controllers in `FinalizeControllers`: `GPtrArrayController` frees its array
there, `gptrarraycontroller.c:96`). `event` is the event whose own dispose does
it, `gcontrollerevent.c:163`: its pointer is cleared when the unref returns
(`EventDisposed`), and until then `get_controller` returns the controller.
Handlers disconnected meanwhile are taken out of `todo` (`Skipping`,
`Silenced`), handlers connected meanwhile are not called, as in GSignal. The
client may emit any event it may use on any controller it may use: the code does
not compare them.

The client may dispose of an event from the client code that runs in the dispose
of that same event: the code finds the pointer still set and drops a second
reference. `redisposed` remembers it. From then on a controller may have fewer
references than holders, and `g_object_unref` refuses an object without any
(`Dropped`); what the memory of such a controller holds is not modelled.

### IndexSet

`indices[s]` is `set->indices`: no array, or a sequence. `unref` is two steps,
the atomic decrement that decides and the freeing. Initialisers and queries are
not atomic; a thread calls an initialiser only on a set that no other thread
owns, which is the least a program must do with this code. `MaxIndex` is the
largest guint and `G_INDEX_NOT_FOUND` its half. `LeftBehind` gives an array that
grows any contents beyond its old length, as `g_array_set_size` does without
the clear flag. `asked` and `init` are history variables.

### SimpleModel

`modelArray` is `model->array`, a pointer without a reference; `ctlArray` is the
field of the controller, which has one. `arrayRefs`, `ctlRefs` and `events` count
the references on arrays and on the controller and the events that were not
freed. A frame of `stack` is one of the model's functions in the middle of its
emission: the action and index of its event, the view whose handler runs and the
views to call after it. A function of the model is one action up to its emission
and a `Finish...` action behind it: `FinishRemove` takes the text out and drops
the reference `simple-model.c:122` drops, the controller's in place of the
event's.

`seen[v]` is what the lines that the handler of `v` printed add up to: a line
about an ADD puts the text at the index, one about a REMOVE takes the text at the
index out, one about a CLEAR forgets everything. A line about a position that
the earlier ones do not give adds nothing. A view that connects reads the
items first. The views are any number of such handlers, which connect and
disconnect at any time, also in the middle of an emission; the program has one.

A handler may call the model again, wherever it runs and whatever is in progress,
and the code does not notice. Not every view can follow that, and `misled`
records which ones cannot:

- the views an emission in progress has still to call, when a handler changes
  the model: they are told of the inner change before the outer one, and find the
  index of the outer one stale when they are;
- every connected view, when the model is changed during a removal: the views
  were told of it, the text is in the array until `simple-model.c:124`, and the
  index of the inner change, or of the removal itself, is wrong for all of them;
- a view that connects during a removal: it reads the text that is about to go
  and nobody tells it.

A view is misled until it disconnects. Nothing else misleads a view: this is
what `TextsFound`, `ToldIsInStep`, `InStep` and `CaughtUp` say, which are about
the views that are not misled. That the model itself survives all of it, its
pointer and its controller good for the next call, is `ModelUsable`. A misled
view may ask for a position the array does not have; what it reads there is
`NULL`, since no property looks at it. The model is disposed of when no call of
it is in progress.

Three things are coarser than the code. The references an emission has on
controller and event while it lasts are left out (`ControllerEvent` has them).
`g_ptr_array_controller_set_array` and the assignment to `model->array` in clear
are one step: the program has no handler of `notify::array` that could run in
between (`StorageController` has that window). An event is its action and its
index.

## Runs

| Run | Shows | Bounds |
| --- | --- | --- |
| `StorageController_mixed` | `RefsBalanced`, `NoDanglingStorage`, `ObjRefsBalanced`, `DisposersHoldNothing`, `NothingLeftBehind`, refinement of `StorageHolding`, `AllReleased`, across classes | 2 `GHashController`s, 3 tables, 1 `GPtrArrayController`, 1 pointer array, 3 nested calls |
| `StorageController_anyfree` | with `FreeFuncsReenter`: `NeverUndercounted`, `NoDanglingUnlessRead`, `ObjRefsBalanced`, `FreedByOneCall`, `CallsEnd` | 1 `GArrayController`, 3 arrays, 1 `GPtrArrayController`, 1 pointer array, 2 references each, 3 nested calls; counts from -1 to 4, and up to the first `reborn` state (`LeakBound`) |
| `StorageController_ptrdispose` | violation of `DisposedHoldsNothing` | 1 `GPtrArrayController` |
| `StorageController_reenter` | violation of `RefsBalanced` with `FreeFuncsReenter` | 1 controller, 2 arrays |
| `ControllerEvent_refs` | `CountsBalanced`, `InUseIsLive` | 2 controllers, one of which frees in finalize, 2 events, 1 handler, no indices, 3 nested calls |
| `ControllerEvent_indices` | `NothingLeftBehind`, `EventsOnlyGrow`, `ReadingsStay`, `CallsEnd`, `AllReleased` | 1 controller that frees in finalize, 1 event, 2 handlers, up to 2 indices of 2 types, 2 nested calls |
| `ControllerEvent_phantom` | violation of `NoPhantomIndex` | 1 event |
| `IndexSet_threads` | `FreedOnceUnused`, `UnownedIsBeingFreed`, `HoldsWhatWasAsked`, `QueriesTellTheTruth`, refinement of `SharedSets`, `UnownedIsFreed` | 3 threads, 2 sets, 2 references each; 2-bit guint, ranges from 0 of up to 3 |
| `IndexSet_range` | violation of `RangeHasItsLength` | ranges at 0, 1 and 2 |
| `IndexSet_reuse` | violation of `ReuseHasItsLength` | ranges from 0 |
| `SimpleModel_views` | `TextsFound`, `ModelUsable`, `ToldIsInStep`, refinement of `ViewsInStep`, `CaughtUp` | 2 views, 2 texts, 2 arrays, up to 2 texts in the model, 3 events, 3 nested calls |
| `SimpleModel_leak` | violation of `NoEventLeft` | 1 view, 1 text |

The bounds are enough for the cases the code distinguishes. Two controllers and
three storages let two controllers share one storage while each is given
another, inside a callback of the other. A nesting of three lets a free
function run inside a handler that runs inside a setter. Two
references, both the client's or one of a controller's (`MaxRefs` bounds only the
client's), separate a reference that is the last one from one that is not. Two events and
two controllers let an emission carry an event of the other controller. A 2-bit
guint has values on both sides of the sentinel. Two views let one handler run
before another, so that one is misled and the other is not; two texts of two
kinds let a removal find the first of two equal texts, or miss the one behind;
removals leak their events, so `MaxEvents`
also bounds how many there are, and three of them let a call nest in a call that
follows a removal. Clear needs a second array while the first is there, and no
third. None of the code counts beyond
that: it compares a count with one, a pointer with NULL and a position with a
length. Where free functions may call the controller that is releasing, counts
run away (finding 2); `LeakBound` stops after a reference was dropped a second
time, after one or two were lost, and in the first state where `reborn` holds:
the three properties about storages say nothing from there on, and the other two
are proved.

**Fairness.** `FairSpec` assumes only that client code called by the library
returns (`WF_vars(Return)`): nothing in the library waits, so a suspended call
goes on as soon as its callback is over. It is assumed of no client action.
`AllReleased` is conditional on a client that has let go of everything; for
`ControllerEvent` also on one whose last handlers only return, since a handler
that emits again for ever keeps its emission alive for ever. `CallsEnd` says
without fairness that it is only a matter of returning: each return leaves less
to do. In `IndexSet`, a
thread that decided to free a set does so. In `SimpleModel` handlers return, and
`CaughtUp` follows: the views agree with the model again and again, also if the
client never stops changing it.

## What the violation runs show

1. `gptrarraycontroller.c:96`: the dispose function of `GPtrArrayController` is
   installed in the finalize slot. After `g_object_run_dispose` the controller
   keeps its array, against `gptrarraycontroller.c:161-164`.
2. `garraycontroller.c:82` (and, the same mistake, `:176` and the siblings of
   both): the field still points to the storage while it is released. A free
   function that disposes of the same controller, or sets something on it, makes
   it drop its one reference twice.
3. `gcontroller.c:197`: when an argument of `create_event` cannot be collected,
   the event has an index nobody passed.
4. `gindexset.c:90`: the loop over a range ends at its length and not at
   location + length.
5. `gindexset.c:88`: a range put in a set that was used before leaves elements
   behind.
6. `src/examples/simple-model.c:122`: remove_text unreferences the controller
   and not the event. The event leaks; the controller survives only because the
   leaked event keeps a reference on it (`ModelUsable`, proved, says that it
   always does).

Two more things that no run is about. `create_eventv` (`gcontroller.c:143`) stores
indices of any type, and `get_index_value` returns TRUE for such an index although
it could not copy it: `gcontrollerevent.c:371-373` promises that it "stores it
inside @value" and "%TRUE on success". And clear (`simple-model.c:175`) keeps the
reference it has as the creator of the new array, so that each array but the
first outlives the model.

## Proofs

Each of the four components has an inductive invariant `IInv` and one lemma per
action; the temporal theorems combine them with PTL. Cardinalities of the sets
that the counts count are lemmas of their own.

`StorageControllerProofs`, for any finite set of controllers, any storages and
any bounds, under `~FreeFuncsReenter` (finding 2 shows that the assumption is
needed): `ReferencesAreBalanced`, i.e. `RefsBalanced` is an invariant of `Spec`.
It is not inductive alone. `IInv` adds what the rest of a suspended call relies
on: `ReleaseFrames` (a frame that releases a storage has it dying, still in the
field, with no count left), `CallFrames` (the new storage of a suspended setter
is owned by the client, its controller is alive), `OneRelease` (a storage is
released by one frame and a controller by one call) and `FreedObjects` (what is
freed has no count and holds nothing).

The same invariant gives `FieldsNeverDangle`, that `NoDanglingStorage` is one too.

`StorageCallsProofs`, for the same constants, also where free functions call the
controller that is releasing:

- `TypesHold`, `ControllersStayAlive`: `TypeOK` and `ObjRefsBalanced` are
  invariants, whatever they call;
- `FieldsNeverDangleUnlessRead`, `OwnersKeepTheirReferences`,
  `StoragesAreFreedOnce`: `NoDanglingUnlessRead`, `NeverUndercounted` and
  `FreedByOneCall` are. Finding 2 makes a controller drop a reference twice or
  lose one; the theorems say how far that can go: the one dropped twice is of
  a storage that is dying already, no other owner is robbed of its reference,
  no field dangles, and nothing is freed twice or left half freed. They say it
  until a free function reads the property (`reborn`), since its reference on
  the dying storage does free it twice;
- `CallsComeToAnEnd`: `CallsEnd` is a property of every step;
- `DisposersControlNothing`: `DisposersHoldNothing` is an invariant, and so is
  `DisposedHoldsNothing` where there are no `GPtrArrayController`s (finding 1
  shows that it is not otherwise);
- `NothingIsLeftBehind`, under `~FreeFuncsReenter`: `NothingLeftBehind` is an
  invariant.

`IInv` does not help here: with such free functions the count of a dying storage
goes below zero, and a live one may have references nobody owns.
`SafeInv` has two halves. `CallInv` is about the controllers and the calls, and
is inductive with the types: nothing a free function does to the storages reaches
the references on controllers. `FreeInv`, which `SafeInv` claims until `reborn`,
gives up the equality of counts and keeps the inequality, and ties the storages
that are dying to the frames that free them, one to one.

`StorageHoldingProofs`, under `~FreeFuncsReenter`: `StoragesLiveWhileHeld`, i.e.
`StorageController` implements `StorageHolding` (`KeepsStorageAlive`). In every
state of `IInv` the storages that exist are those that are held (`LiveIsHeld`),
so that a step is allowed if it changes hands as the abstract one does and brings
nothing to life. `Controls` says without a choice what a controller controls: the
argument of its suspended setter, nothing if it is being disposed of, its field
otherwise. A setter or release changes that when it starts; what its frame still
does is a stutter.

`ControllerEventProofs`, for any controllers, handlers, types and values, any
finite set of events and any bounds:

- `TypesHold`, `CountsAreBalanced`, `PointersAreLive`: `TypeOK`,
  `CountsBalanced` and `InUseIsLive` are invariants. For an event the count is
  exact whatever happens. For a controller it is until the client disposes of an
  event within the dispose of that event, and never too high after that. What
  `get_controller` returns is alive under the same condition, unless it is a
  controller that frees its array in finalize and the dispose of that event is
  what finalizes it: there the code hands out an object whose count is 0;
- `EventsGrow`, `ReadingsDoStay`: `EventsOnlyGrow` and `ReadingsStay` are
  properties of every step;
- `NothingIsLeftBehind`: `NothingLeftBehind` is an invariant;
- `CallsComeToAnEnd`: `CallsEnd` is a property of every step. The measure is
  lexicographic, emissions before handlers: a return may put a release on the
  stack, and a handler that goes may uncover a longer list under it.

`CountsBalanced` is not inductive: a call that returns gives back what its frame
stands for. `FramesOK` says what that is (an emission has an event; a release
begun by the dispose of an event is the one of that event's controller),
`OneDispose` that an event is disposed of by one call at a time (both with a
`Slack` once that is not so), `FreedEvents`
and `LiveTyped` what freed and live events have. The counts are stated of any
stack, not only the current one, because an unref at the end of an emission
works on a stack that no state has.

`IndexSetProofs`, for any finite set of threads, any sets, any width of guint:

- `TypesHold`, `SetsAreFreedOnce`, `UnownedSetsAreBeingFreed`: `TypeOK`,
  `FreedOnceUnused` and `UnownedIsBeingFreed` are invariants, whatever ranges are
  put in whatever sets;
- `SetsInventNothing`: `NothingInvented` is too: wherever ranges are, and if sets
  are copied to themselves, a set may lose indices, but holds none it was not
  asked for, unless a range was put in a used set;
- `SetsHoldWhatWasAsked`, `QueriesAreTrue`: `HoldsWhatWasAsked` and
  `QueriesTellTheTruth` are invariants under `PlainClients` (ranges start at 0
  and go into fresh sets, no set is copied to itself; findings 4 and 5 show that
  the first two are needed);
- `SetsImplementSharedSets`: under the same assumption `IndexSet` implements
  `SharedSets`.

`IInv` ties the count of a set to the references of the threads, each counted as
a thread and a number, and says that a set being freed is owned by nobody and
freed by one thread. `LastInv` adds that a thread frees one set at a time and that
a set nobody owns has such a thread. The contents of `SharedSets` are what
`g_index_set_contains_index` says (`Shown`); where the sets hold what was asked,
`ShownIsAsked` puts that without the array, so that each initialiser is one
`Put`.

`SimpleModelProofs`, for any views, texts and arrays and any nesting:

- `TypesHold`, `ModelStaysUsable`: `TypeOK` and `ModelUsable` are invariants.
  `UsableInv`, the part of the invariant about counts and pointers, is inductive
  without what the views know (`UsableHolds`);
- `HandlersFindTexts`, `ToldViewsAreInStep`: `TextsFound` and `ToldIsInStep` are
  invariants;
- `ModelKeepsViewsInStep`: `SimpleModel` implements `ViewsInStep`, i.e. `InStep`.

None of them assumes anything of the handlers: they call the model wherever they
like, views connect whenever they like, and what is said of views is said of
those that are not misled.

`CountsMatch` is the reason the wrong unref of remove_text does no more than
leak: each call in progress stands for one reference on the controller.
`TodoConnected` says that whoever is still to be called is connected,
`OnlyTopEmits` that the outer calls have nobody left to call but misled views and
that a removal under another call has misled every view, `TopFits` that the index
of the innermost event is right, and `Synced` what each view that is not misled
knows: the contents, or the contents before the change if its handler is still to
be called.

Checked by TLC only: liveness (`AllReleased` of two modules, `UnownedIsFreed`,
`CaughtUp`), which under fairness is beyond the prover. What these say of states
and steps is proved. Calls come to an end (`CallsEnd`), and when they have,
nothing is left (`NothingLeftBehind`): of `AllReleased`, only that a fair
measure runs out is left to TLC. A set nobody owns has a thread that is about to
free it (`UnownedIsBeingFreed`), and views that were told are in step
(`ToldIsInStep`): of the other two, that the thread goes on and that handlers
return.

## Plan

1. `StorageController`, its runs, `IInv` and its theorems. Done.
2. `ControllerEvent` and `IndexSet` with their runs. Done.
3. `SimpleModel` and `ViewsInStep`: the change protocol, nested changes in
   handlers, the abstract specification of views in step. Done.
4. Proofs of `ControllerEvent`, `IndexSet` and `SimpleModel`, and of
   `KeepsStorageAlive`. Done.
5. What holds without assumptions on the client (`StorageCallsProofs`,
   the theorems of `SimpleModelProofs`, `SetsInventNothing`), the safety part of the liveness
   properties, and `SharedSets`. Done.
6. A composition of `ControllerEvent` and `StorageController`: the last
   reference on a controller dropped by an event, with the free functions of its
   array. Each module has its own half of that suspension now: `releasing` there,
   `dropping` and `finalizing` here.

## Not modelled

- `g_index_set_contains_indices`, `contains_range`, `get_indices`,
  `enumerate_in_range`: empty functions. `g_index_set_enumerate` does not
  compile as written.
- The data attached to an event, which `g_controller_event_dispose` clears by
  chaining to the parent's finalize (`gcontrollerevent.c:167`), and the parent's
  finalize that `GPtrArrayController` never reaches: GObject keeps these lists,
  and nothing else in the library looks at them.
- `my_simple_model_set_items` (`simple-model.c:141`): its loop tests `n_strings`
  where it means `i < n_strings`, so that it reads past its argument unless the
  argument is empty; it also forgets `model->array`. Nothing calls it. REPLACE,
  the action of its event, is left out with it.
- Handlers of `notify::array` inside clear, which would read `model->array`
  before it is updated: the program connects none.
- A client that passes a storage nobody keeps alive to a setter that releases
  another one first (`garraycontroller.c:181`), and what is in memory that was
  freed twice.
- The contents of storages in `StorageController`; `SimpleModel` has them.
- Queries on a set that another thread writes, and first and last of an empty
  set: they read memory the model has no account of.
