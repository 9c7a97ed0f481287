------------------------------ MODULE IndexSet ------------------------------
(***************************************************************************)
(* GIndexSet, a reference counted array of indices, with the GRange it can  *)
(* be initialised from.  Threads share sets: the count is atomic, and the   *)
(* thread whose unref takes it to zero frees the set.  The contents are     *)
(* written by the initialisers, which may be called again on a set that is  *)
(* already initialised, and read by the queries.                            *)
(***************************************************************************)
EXTENDS Integers, Sequences, FiniteSets

CONSTANTS
  Threads,
  Sets,         \* the addresses GIndexSets are allocated at
  MaxIndex,     \* the largest guint
  MaxLength,    \* bound on the length of a range
  Locations,    \* the locations of the ranges passed
  Reuse,        \* may a client put a range in a set that is already initialised,
                \* and copy a set to itself?
  MaxRefs       \* bound on the references one thread owns on one set

ASSUME WidthAssumption == MaxIndex \in Nat /\ MaxIndex % 2 = 1 /\ MaxIndex > 2
ASSUME RangeAssumption == MaxLength \in 0..MaxIndex /\ Locations \subseteq 0..MaxIndex
ASSUME ThreadAssumption == IsFiniteSet(Threads)
ASSUME ClientAssumption == Reuse \in BOOLEAN /\ MaxRefs \in Nat \ {0}

guint == 0..MaxIndex

\* G_INDEX_NOT_FOUND is G_MAXINT, in the middle of the values of a guint.
G_INDEX_NOT_FOUND == MaxIndex \div 2

GRange == [location : Locations, length : 0..MaxLength]

VARIABLES
  ref_count,   \* of each set
  allocated,   \* the sets whose memory was not given back
  indices,     \* the array of each set: <<>> or one sequence, see Array
  owned,       \* the references each thread owns on each set
  freeing,     \* the set each thread has to free, between the two halves of
               \* unref
  asked,       \* history: the indices the last initialiser was asked for
  init         \* history: the initialiser that ran last, on what kind of set

vars == <<ref_count, allocated, indices, owned, freeing, asked, init>>

\* set->indices == NULL is the empty tuple, an array is a 1-tuple of it.
NoArray == <<>>
Initialised(s) == indices[s] # NoArray
Array(s) == indices[s][1]
Elements(seq) == {seq[i] : i \in DOMAIN seq}
Ascending(seq) == \A i, j \in DOMAIN seq : i < j => seq[i] < seq[j]

-----------------------------------------------------------------------------
(* The queries.                                                            *)

g_index_set_count(s) == IF Initialised(s) THEN Len(Array(s)) ELSE G_INDEX_NOT_FOUND

g_index_set_contains_index(s, index) ==
  Initialised(s) /\ \E i \in DOMAIN Array(s) : Array(s)[i] = index

\* Both read the array without looking at its length: it must not be empty.
g_index_set_first_index(s) == IF Initialised(s) THEN Array(s)[1] ELSE G_INDEX_NOT_FOUND
g_index_set_last_index(s) ==
  IF Initialised(s) THEN Array(s)[Len(Array(s))] ELSE G_INDEX_NOT_FOUND

\* Variant: "or equal" is forgotten in one of the comparisons.
HoldsStrictly(predicate, a, b) ==
  \/ predicate = "LESS_THAN" /\ a < b
  \/ predicate = "LESS_THAN_OR_EQUAL" /\ a <= b
  \/ predicate = "GREATER_THAN_OR_EQUAL" /\ a > b
  \/ predicate = "GREATER_THAN" /\ a > b

\* a fits what the predicate says of b: the cases of the switch.
Holds(predicate, a, b) ==
  \/ predicate = "LESS_THAN" /\ a < b
  \/ predicate = "LESS_THAN_OR_EQUAL" /\ a <= b
  \/ predicate = "GREATER_THAN_OR_EQUAL" /\ a >= b
  \/ predicate = "GREATER_THAN" /\ a > b

\* The first element, in the order of the array, that satisfies the predicate.
g_index_set_get_index(s, predicate, index) ==
  LET found == {i \in DOMAIN Array(s) : Holds(predicate, Array(s)[i], index)}
  IN IF ~Initialised(s) \/ found = {} THEN G_INDEX_NOT_FOUND
     ELSE Array(s)[CHOOSE i \in found : \A j \in found : i <= j]

-----------------------------------------------------------------------------
Init ==
  /\ ref_count = [s \in Sets |-> 0]
  /\ allocated = {}
  /\ indices = [s \in Sets |-> NoArray]
  /\ owned = [t \in Threads |-> [s \in Sets |-> 0]]
  /\ freeing = [t \in Threads |-> {}]
  /\ asked = [s \in Sets |-> {}]
  /\ init = [s \in Sets |-> "none"]

Contents == <<indices, asked, init>>

g_index_set_alloc(t, s) ==
  /\ s \notin allocated
  /\ allocated' = allocated \cup {s}
  /\ ref_count' = [ref_count EXCEPT ![s] = 1]
  /\ owned' = [owned EXCEPT ![t][s] = 1]
  /\ indices' = [indices EXCEPT ![s] = NoArray]
  /\ init' = [init EXCEPT ![s] = "none"]
  /\ asked' = [asked EXCEPT ![s] = {}]
  /\ UNCHANGED freeing

\* Variant: the increment is not atomic and may be lost.
IncrementLost(s) == \/ UNCHANGED ref_count
                    \/ ref_count' = [ref_count EXCEPT ![s] = @ + 1]

Increment(s) == ref_count' = [ref_count EXCEPT ![s] = @ + 1]

\* A reference for the thread itself or for another one to use.
g_index_set_ref(t, u, s) ==
  /\ owned[t][s] > 0 /\ owned[u][s] < MaxRefs
  /\ Increment(s)
  /\ owned' = [owned EXCEPT ![u][s] = @ + 1]
  /\ UNCHANGED <<allocated, freeing, Contents>>

\* Variant: the value before the decrement is tested for zero.
TestsOldValue(t, s) ==
  /\ owned[t][s] > 0
  /\ owned' = [owned EXCEPT ![t][s] = @ - 1]
  /\ ref_count' = [ref_count EXCEPT ![s] = @ - 1]
  /\ freeing' = [freeing EXCEPT ![t] = IF ref_count[s] = 0 THEN {s} ELSE {}]
  /\ UNCHANGED <<allocated, Contents>>

\* The first half of unref: one atomic step decrements and tests.
g_index_set_unref(t, s) ==
  /\ owned[t][s] > 0
  /\ owned' = [owned EXCEPT ![t][s] = @ - 1]
  /\ ref_count' = [ref_count EXCEPT ![s] = @ - 1]
  /\ freeing' = [freeing EXCEPT ![t] = IF ref_count[s] = 1 THEN {s} ELSE {}]
  /\ UNCHANGED <<allocated, Contents>>

\* Variant: the reused array is not emptied.
NotEmptied(s) == IF Initialised(s) THEN Array(s) ELSE <<>>

\* What every initialiser but the one for ranges starts from.
Emptied(s) == <<>>

\* The second half: the array and the set are freed.
Free(t, s) ==
  /\ s \in freeing[t]
  /\ allocated' = allocated \ {s}
  /\ indices' = [indices EXCEPT ![s] = NoArray]
  /\ freeing' = [freeing EXCEPT ![t] = {}]
  /\ UNCHANGED <<ref_count, owned, asked, init>>

-----------------------------------------------------------------------------
(* The initialisers.  Nothing in them is atomic: only a thread that is the  *)
(* only one to own the set may call one.                                    *)

SoleOwner(t, s) == owned[t][s] > 0 /\ \A u \in Threads \ {t} : owned[u][s] = 0

Initialise(t, s, array, set, kind) ==
  /\ SoleOwner(t, s)
  /\ indices' = [indices EXCEPT ![s] = <<array>>]
  /\ asked' = [asked EXCEPT ![s] = set]
  /\ init' = [init EXCEPT ![s] = kind]
  /\ UNCHANGED <<ref_count, allocated, owned, freeing>>

g_index_set_init(t, s) == Initialise(t, s, Emptied(s), {}, "other")

g_index_set_init_with_index(t, s, index) ==
  Initialise(t, s, <<index>> \o Emptied(s), {index}, "other")

\* The indices a range stands for.
InRange(range) == {i \in guint : range.location <= i /\ i < range.location + range.length}

\* What the loop inserts, one after the other at the front of the array: it
\* runs from location up to length, not up to location + length.
Inserted(range) ==
  IF range.location < range.length
  THEN [i \in 1 .. range.length - range.location |-> range.location + i - 1]
  ELSE <<>>

\* What the array holds before the loop.  A reused array has its size set to the
\* length of the range: elements beyond the old size are memory nobody wrote.
LeftBehind(s, n) ==
  IF ~Initialised(s) THEN {<<>>}
  ELSE {[i \in 1..n |-> IF i <= Len(Array(s)) THEN Array(s)[i] ELSE junk[i]] :
          junk \in [1..n -> guint]}

g_index_set_init_with_range(t, s, range) ==
  /\ Initialised(s) => Reuse
  /\ \E old \in LeftBehind(s, range.length) :
       Initialise(t, s, Inserted(range) \o old, InRange(range),
                  IF Initialised(s) THEN "range_again" ELSE "fresh_range")

\* Variant: the loop over the source begins at one.
CopiedFromOne(s, source) ==
  IF Initialised(source) /\ s # source /\ Array(source) # <<>> THEN Tail(Array(source))
  ELSE <<>>

\* What the loop reads from the source.  A set copied to itself was emptied
\* before.
Copied(s, source) == IF Initialised(source) /\ s # source THEN Array(source) ELSE <<>>

g_index_set_init_with_set(t, s, source) ==
  /\ owned[t][source] > 0
  /\ s = source => Reuse
  /\ Initialise(t, s, Emptied(s) \o Copied(s, source),
                IF Initialised(source) THEN asked[source] ELSE {},
                IF Initialised(source) THEN init[source] ELSE "other")

-----------------------------------------------------------------------------
Call(t, s) ==
  \/ g_index_set_alloc(t, s)
  \/ \E u \in Threads : g_index_set_ref(t, u, s)
  \/ g_index_set_unref(t, s)
  \/ g_index_set_init(t, s)
  \/ \E index \in guint : g_index_set_init_with_index(t, s, index)
  \/ \E range \in GRange : g_index_set_init_with_range(t, s, range)
  \/ \E source \in Sets : g_index_set_init_with_set(t, s, source)

\* A thread that is in the middle of unref makes no other call.
Next == \E t \in Threads, s \in Sets : Free(t, s) \/ (freeing[t] = {} /\ Call(t, s))

Spec == Init /\ [][Next]_vars

\* A thread that has begun to free a set goes on.
FairSpec == Spec /\ \A t \in Threads, s \in Sets : WF_vars(Free(t, s))

-----------------------------------------------------------------------------
(* Properties.                                                             *)

\* Every variable has its type.
TypeOK ==
  /\ ref_count \in [Sets -> Nat]
  /\ allocated \subseteq Sets
  /\ \A s \in Sets : Initialised(s) => Array(s) \in Seq(guint)
  /\ owned \in [Threads -> [Sets -> Nat]]
  /\ freeing \in [Threads -> SUBSET Sets]
  /\ asked \in [Sets -> SUBSET guint]

\* A thread never owns a set that is freed or about to be, and a set is freed
\* by one thread only: whatever the interleaving of the threads' references.
FreedOnceUnused ==
  \A s \in Sets :
    /\ \A t \in Threads : owned[t][s] > 0 => s \in allocated /\ ref_count[s] > 0
    /\ \A t \in Threads : s \in freeing[t] =>
         /\ s \in allocated
         /\ \A u \in Threads : owned[u][s] = 0 /\ (u # t => s \notin freeing[u])

\* A set nobody owns is freed: the last unref of several threads is noticed by
\* exactly the thread that made it.
UnownedIsFreed ==
  \A s \in Sets :
    (\A t \in Threads : owned[t][s] = 0)
      ~> (s \notin allocated \/ \E t \in Threads : owned[t][s] > 0)

\* What UnownedIsFreed needs of the state: memory nobody owns is not forgotten,
\* some thread that has given up the last reference is about to free it.
UnownedIsBeingFreed ==
  \A s \in allocated :
    (\A t \in Threads : owned[t][s] = 0) => \E t \in Threads : s \in freeing[t]

\* An initialised set holds exactly the indices it was last asked for, each
\* once and in ascending order, whatever it held before.
HoldsWhatWasAsked ==
  \A s \in Sets : Initialised(s) =>
    Elements(Array(s)) = asked[s] /\ Ascending(Array(s))

\* get_index finds one of these, or nothing if there is none.
Finds(s, predicate, index, fitting) ==
  LET found == g_index_set_get_index(s, predicate, index)
  IN IF fitting = {} THEN found = G_INDEX_NOT_FOUND ELSE found \in fitting

\* The queries tell the truth about the set asked for: count is its size, first
\* and last are its bounds, and get_index returns an element that satisfies the
\* predicate exactly when there is one.  (What it returns when there is none may
\* be an element all the same, G_MAXINT: only contains_index tells.)
QueriesTellTheTruth ==
  \A s \in Sets : Initialised(s) =>
    /\ g_index_set_count(s) = Cardinality(asked[s])
    /\ \A i \in guint : g_index_set_contains_index(s, i) = (i \in asked[s])
    /\ asked[s] # {} => \A i \in asked[s] :
         g_index_set_first_index(s) <= i /\ i <= g_index_set_last_index(s)
    /\ \A i \in guint :
         /\ Finds(s, "LESS_THAN", i, {k \in asked[s] : k < i})
         /\ Finds(s, "LESS_THAN_OR_EQUAL", i, {k \in asked[s] : k <= i})
         /\ Finds(s, "GREATER_THAN_OR_EQUAL", i, {k \in asked[s] : k >= i})
         /\ Finds(s, "GREATER_THAN", i, {k \in asked[s] : k > i})

\* What the initialisers but the one for a set are asked for.
Requests == {{}} \cup {{index} : index \in guint} \cup {InRange(range) : range \in GRange}

\* The sets each thread has, and what contains_index says of each set.
Owns == [t \in Threads |-> {s \in Sets : owned[t][s] > 0}]
Shown == [s \in Sets |-> {i \in guint : g_index_set_contains_index(s, i)}]

\* The threads can take their sets for plain sets of numbers, which no other
\* thread changes or takes away.
Abstract == INSTANCE SharedSets WITH exists <- allocated, has <- Owns, contents <- Shown
SetsAreShared == Abstract!Spec

\* "location: the origin of the range; length: the length of the range": a new
\* set initialised with a range has one element for each index of the range.
RangeHasItsLength ==
  \A s \in Sets : Initialised(s) /\ init[s] = "fresh_range" =>
    g_index_set_count(s) = Cardinality(asked[s])

\* "g_assert_cmpint (g_index_set_count (set), ==, 100)" after init_with_range:
\* the same for a set that was initialised before, with a range from zero.
ReuseHasItsLength ==
  \A s \in Sets : Initialised(s) /\ init[s] = "range_again" =>
    g_index_set_count(s) = Cardinality(asked[s])
=============================================================================
