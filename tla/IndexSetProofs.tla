--------------------------- MODULE IndexSetProofs ---------------------------
(***************************************************************************)
(* Proofs about IndexSet, for any finite set of threads, any sets and any   *)
(* width of guint.                                                          *)
(***************************************************************************)
EXTENDS IndexSet, FiniteSetTheorems, TLAPS

(* The inductive invariant.  Which thread frees a set is decided by a count, *)
(* so the count has to be tied to what the threads own.                      *)

Arrays == {NoArray} \cup {<<seq>> : seq \in Seq(guint)}

Types ==
  /\ ref_count \in [Sets -> Nat]
  /\ allocated \subseteq Sets
  /\ indices \in [Sets -> Arrays]
  /\ owned \in [Threads -> [Sets -> 0..MaxRefs]]
  /\ freeing \in [Threads -> SUBSET Sets]
  /\ asked \in [Sets -> SUBSET guint]
  /\ init \in [Sets -> {"none", "other", "fresh_range", "range_again"}]

\* The references on s, where each thread has its own.
Tokens(own, s) == {token \in Threads \X (1..MaxRefs) : token[2] <= own[token[1]][s]}

RefsCounted == \A s \in Sets : ref_count[s] = Cardinality(Tokens(owned, s))

OwnedAllocated == \A t \in Threads, s \in Sets : owned[t][s] > 0 => s \in allocated

\* A set is being freed by one thread, when nobody owns it.
FreeingLast ==
  \A t \in Threads, s \in Sets : s \in freeing[t] =>
    /\ s \in allocated
    /\ \A u \in Threads : owned[u][s] = 0 /\ (u # t => s \notin freeing[u])

IInv == Types /\ RefsCounted /\ OwnedAllocated /\ FreeingLast

-----------------------------------------------------------------------------
(* Lemmas about the references.                                            *)

LEMMA TokensFinite ==
  ASSUME NEW own, NEW s
  PROVE  IsFiniteSet(Tokens(own, s)) /\ Cardinality(Tokens(own, s)) \in Nat
<1>1. MaxRefs \in Nat \ {0}
  BY ClientAssumption
<1>2. IsFiniteSet(Threads) /\ IsFiniteSet(1..MaxRefs)
  BY <1>1, ThreadAssumption, FS_Interval
<1>3. IsFiniteSet(Threads \X (1..MaxRefs))
  BY <1>2, FS_Product
<1> QED  BY <1>3, FS_Subset, FS_CardinalityType DEF Tokens

\* A set without references is owned by no thread.
LEMMA NoTokens ==
  ASSUME NEW own \in [Threads -> [Sets -> 0..MaxRefs]], NEW s \in Sets
  PROVE  Cardinality(Tokens(own, s)) = 0 <=> \A t \in Threads : own[t][s] = 0
<1>0. MaxRefs \in Nat \ {0}
  BY ClientAssumption
<1>1. ASSUME Tokens(own, s) = {}, NEW t \in Threads
      PROVE  own[t][s] = 0
  <2>1. <<t, 1>> \in Threads \X (1..MaxRefs) /\ <<t, 1>> \notin Tokens(own, s)
    BY <1>0, <1>1
  <2>2. ~(1 <= own[t][s])
    BY <2>1 DEF Tokens
  <2> QED  BY <2>2, <1>0
<1>2. ASSUME \A t \in Threads : own[t][s] = 0
      PROVE  Tokens(own, s) = {}
  BY <1>0, <1>2 DEF Tokens
<1> QED  BY <1>1, <1>2, TokensFinite, FS_EmptySet

\* What the threads own after t has taken or given back a reference on s.
Taken(own, t, s) == [own EXCEPT ![t][s] = @ + 1]
Given(own, t, s) == [own EXCEPT ![t][s] = @ - 1]

\* Taking one more reference.
LEMMA TokenAdded ==
  ASSUME NEW own \in [Threads -> [Sets -> 0..MaxRefs]], NEW s \in Sets,
         NEW t \in Threads, own[t][s] < MaxRefs
  PROVE  /\ Taken(own, t, s) \in [Threads -> [Sets -> 0..MaxRefs]]
         /\ Cardinality(Tokens(Taken(own, t, s), s)) = Cardinality(Tokens(own, s)) + 1
         /\ \A r \in Sets \ {s} : Tokens(Taken(own, t, s), r) = Tokens(own, r)
<1> DEFINE new == <<t, own[t][s] + 1>>
           own2 == Taken(own, t, s)
<1>0. MaxRefs \in Nat \ {0} /\ own[t][s] \in 0..MaxRefs
  BY ClientAssumption
<1>1. own2 \in [Threads -> [Sets -> 0..MaxRefs]]
  BY <1>0 DEF Taken
<1>2. \A u \in Threads, r \in Sets :
        own2[u][r] = IF u = t /\ r = s THEN own[t][s] + 1 ELSE own[u][r]
  BY DEF Taken
<1> HIDE DEF own2
<1>3. new \notin Tokens(own, s)
  BY <1>0 DEF Tokens
<1>4. Tokens(own2, s) = Tokens(own, s) \cup {new}
  <2>1. new \in Threads \X (1..MaxRefs)
    BY <1>0
  <2>2. ASSUME NEW u \in Threads, NEW i \in 1..MaxRefs
        PROVE  i <= own2[u][s] <=> i <= own[u][s] \/ (u = t /\ i = own[t][s] + 1)
    <3>1. own[u][s] \in 0..MaxRefs /\ i \in Int
      OBVIOUS
    <3>2. CASE u = t
      <4>1. own2[u][s] = own[u][s] + 1
        BY <1>2, <3>2
      <4> QED  BY <1>0, <3>1, <3>2, <4>1
    <3>3. CASE u # t
      <4>1. own2[u][s] = own[u][s]
        BY <1>2, <3>3
      <4> QED  BY <3>3, <4>1
    <3> QED  BY <3>2, <3>3
  <2> QED  BY <2>1, <2>2 DEF Tokens
<1>5. \A r \in Sets \ {s} : Tokens(own2, r) = Tokens(own, r)
  BY <1>2 DEF Tokens
<1> HIDE DEF new
<1>6. Cardinality(Tokens(own2, s)) = Cardinality(Tokens(own, s)) + 1
  BY <1>3, <1>4, TokensFinite, FS_AddElement
<1> QED  BY <1>1, <1>5, <1>6 DEF own2

\* Giving one back.
LEMMA TokenRemoved ==
  ASSUME NEW own \in [Threads -> [Sets -> 0..MaxRefs]], NEW s \in Sets,
         NEW t \in Threads, own[t][s] > 0
  PROVE  /\ Given(own, t, s) \in [Threads -> [Sets -> 0..MaxRefs]]
         /\ Cardinality(Tokens(Given(own, t, s), s)) = Cardinality(Tokens(own, s)) - 1
         /\ \A r \in Sets \ {s} : Tokens(Given(own, t, s), r) = Tokens(own, r)
<1> DEFINE own2 == Given(own, t, s)
<1>0. MaxRefs \in Nat \ {0} /\ own[t][s] \in 0..MaxRefs /\ own[t] \in [Sets -> 0..MaxRefs]
  BY ClientAssumption
<1>1. own2 \in [Threads -> [Sets -> 0..MaxRefs]]
  BY <1>0 DEF Given
<1>2. \A u \in Threads, r \in Sets :
        own2[u][r] = IF u = t /\ r = s THEN own[t][s] - 1 ELSE own[u][r]
  BY <1>0 DEF Given
<1> HIDE DEF own2
<1>3. own = Taken(own2, t, s) /\ own2[t][s] < MaxRefs
  <2>1. own2[t][s] = own[t][s] - 1
    BY <1>2
  <2> DEFINE own3 == Taken(own2, t, s)
  <2>2. own3 \in [Threads -> [Sets -> Int]] /\ own \in [Threads -> [Sets -> Int]]
    BY <1>0, <1>1 DEF Taken
  <2>3. \A u \in Threads, r \in Sets : own3[u][r] = own[u][r]
    BY <1>0, <1>1, <1>2, <2>1 DEF Taken
  <2> HIDE DEF own3
  <2>4. \A u \in Threads : own3[u] = own[u]
    BY <2>2, <2>3
  <2>5. own3 = own
    BY <2>2, <2>4
  <2> QED  BY <1>0, <2>1, <2>5 DEF own3
<1>4. /\ Cardinality(Tokens(Taken(own2, t, s), s)) = Cardinality(Tokens(own2, s)) + 1
      /\ \A r \in Sets \ {s} : Tokens(Taken(own2, t, s), r) = Tokens(own2, r)
  BY <1>1, <1>3, TokenAdded
<1>5. Cardinality(Tokens(own, s)) \in Nat /\ Cardinality(Tokens(own2, s)) \in Nat
  BY TokensFinite
<1>6. Cardinality(Tokens(own2, s)) = Cardinality(Tokens(own, s)) - 1
  BY <1>3, <1>4, <1>5
<1>7. \A r \in Sets \ {s} : Tokens(own2, r) = Tokens(own, r)
  BY <1>3, <1>4
<1> QED  BY <1>1, <1>6, <1>7 DEF own2

-----------------------------------------------------------------------------
(* Every action preserves the invariant.                                   *)

LEMMA InitKeeps ==
  Init => IInv
<1> SUFFICES ASSUME Init PROVE IInv
  OBVIOUS
<1>0. MaxRefs \in Nat \ {0}
  BY ClientAssumption
<1>1. Types
  BY <1>0 DEF Init, Types, Arrays
<1>2. RefsCounted
  <2>1. \A s \in Sets : Cardinality(Tokens(owned, s)) = 0
    BY <1>1, NoTokens DEF Init, Types
  <2> QED  BY <2>1 DEF Init, RefsCounted
<1>3. OwnedAllocated /\ FreeingLast
  BY DEF Init, OwnedAllocated, FreeingLast
<1> QED  BY <1>1, <1>2, <1>3 DEF IInv

LEMMA AllocKeeps ==
  ASSUME IInv, NEW t \in Threads, NEW s \in Sets, g_index_set_alloc(t, s)
  PROVE  IInv'
<1>0. MaxRefs \in Nat \ {0}
  BY ClientAssumption
<1>2. \A u \in Threads : owned[u][s] = 0 /\ s \notin freeing[u]
  <2>1. s \notin allocated
    BY DEF g_index_set_alloc
  <2>2. \A u \in Threads : owned[u][s] \in 0..MaxRefs
    BY DEF IInv, Types
  <2> QED  BY <1>0, <2>1, <2>2 DEF IInv, OwnedAllocated, FreeingLast
<1>3. /\ owned \in [Threads -> [Sets -> 0..MaxRefs]]
      /\ owned' = [owned EXCEPT ![t][s] = 1]
      /\ ref_count' = [ref_count EXCEPT ![s] = 1] /\ ref_count \in [Sets -> Nat]
  BY DEF IInv, Types, g_index_set_alloc
<1>a. owned' = Taken(owned, t, s) /\ owned[t][s] < MaxRefs
  <2>1. owned[t][s] = 0 /\ owned[t][s] + 1 = 1
    BY <1>2
  <2> QED  BY <1>0, <1>3, <2>1 DEF Taken
<1>b. /\ owned' \in [Threads -> [Sets -> 0..MaxRefs]]
      /\ Cardinality(Tokens(owned', s)) = Cardinality(Tokens(owned, s)) + 1
      /\ \A r \in Sets \ {s} : Tokens(owned', r) = Tokens(owned, r)
  <2>1. owned \in [Threads -> [Sets -> 0..MaxRefs]]
    BY <1>3
  <2> QED  BY <1>a, <2>1, TokenAdded
<1>1. Types'
  BY <1>b DEF IInv, Types, Arrays, g_index_set_alloc
<1>4. RefsCounted'
  <2>1. Cardinality(Tokens(owned, s)) = 0
    BY <1>2, <1>3, NoTokens
  <2>2. Cardinality(Tokens(owned', s)) = 1
    BY <1>b, <2>1
  <2> QED  BY <1>3, <1>b, <2>2 DEF IInv, RefsCounted
<1>5. OwnedAllocated'
  BY <1>3 DEF IInv, OwnedAllocated, g_index_set_alloc
<1>6. FreeingLast'
  BY <1>2, <1>3 DEF IInv, FreeingLast, g_index_set_alloc
<1> QED  BY <1>1, <1>4, <1>5, <1>6 DEF IInv

LEMMA RefKeeps ==
  ASSUME IInv, NEW t \in Threads, NEW u \in Threads, NEW s \in Sets,
         g_index_set_ref(t, u, s)
  PROVE  IInv'
<1>1. /\ owned \in [Threads -> [Sets -> 0..MaxRefs]]
      /\ owned' = Taken(owned, u, s) /\ owned[u][s] < MaxRefs
      /\ ref_count' = [ref_count EXCEPT ![s] = @ + 1] /\ ref_count \in [Sets -> Nat]
      /\ owned[t][s] > 0
      /\ UNCHANGED <<allocated, freeing, indices, asked, init>>
  BY DEF IInv, Types, g_index_set_ref, Increment, Contents, Taken
<1>2. /\ owned' \in [Threads -> [Sets -> 0..MaxRefs]]
      /\ Cardinality(Tokens(owned', s)) = Cardinality(Tokens(owned, s)) + 1
      /\ \A r \in Sets \ {s} : Tokens(owned', r) = Tokens(owned, r)
  BY <1>1, TokenAdded
<1>3. Types'
  <2>1. ref_count' \in [Sets -> Nat]
    BY <1>1
  <2> QED  BY <1>1, <1>2, <2>1 DEF IInv, Types
<1>4. RefsCounted'
  BY <1>1, <1>2 DEF IInv, RefsCounted
<1>5. s \in allocated /\ \A v \in Threads : s \notin freeing[v]
  BY <1>1 DEF IInv, OwnedAllocated, FreeingLast
<1>6. \A v \in Threads, r \in Sets : r # s => owned'[v][r] = owned[v][r]
  BY <1>1 DEF Taken
<1>7. OwnedAllocated'
  BY <1>1, <1>5, <1>6 DEF IInv, OwnedAllocated
<1>8. FreeingLast'
  BY <1>1, <1>5, <1>6 DEF IInv, FreeingLast
<1> QED  BY <1>3, <1>4, <1>7, <1>8 DEF IInv

\* The count is one exactly when the reference that goes is the only one left.
LEMMA UnrefKeeps ==
  ASSUME IInv, NEW t \in Threads, NEW s \in Sets, g_index_set_unref(t, s)
  PROVE  IInv'
<1>1. /\ owned \in [Threads -> [Sets -> 0..MaxRefs]]
      /\ owned' = Given(owned, t, s) /\ owned[t][s] > 0
      /\ ref_count' = [ref_count EXCEPT ![s] = @ - 1] /\ ref_count \in [Sets -> Nat]
      /\ freeing' = [freeing EXCEPT ![t] = IF ref_count[s] = 1 THEN {s} ELSE {}]
      /\ freeing \in [Threads -> SUBSET Sets]
      /\ UNCHANGED <<allocated, indices, asked, init>>
  BY DEF IInv, Types, g_index_set_unref, Contents, Given
<1>2. /\ owned' \in [Threads -> [Sets -> 0..MaxRefs]]
      /\ Cardinality(Tokens(owned', s)) = Cardinality(Tokens(owned, s)) - 1
      /\ \A r \in Sets \ {s} : Tokens(owned', r) = Tokens(owned, r)
  BY <1>1, TokenRemoved
<1>3. RefsCounted'
  BY <1>1, <1>2 DEF IInv, RefsCounted
<1>4. ref_count' \in [Sets -> Nat]
  <2>1. ref_count'[s] = Cardinality(Tokens(owned', s))
    BY <1>3 DEF RefsCounted
  <2>2. ref_count'[s] \in Nat /\ ref_count'[s] = ref_count[s] - 1
    BY <1>1, <2>1, TokensFinite
  <2> QED  BY <1>1, <2>2
<1>5. Types'
  BY <1>1, <1>2, <1>4 DEF IInv, Types
<1>6. s \in allocated /\ \A v \in Threads : s \notin freeing[v]
  BY <1>1 DEF IInv, OwnedAllocated, FreeingLast
<1>7. \A v \in Threads, r \in Sets : r # s => owned'[v][r] = owned[v][r]
  BY <1>1 DEF Given
<1>8. OwnedAllocated'
  BY <1>1, <1>6, <1>7 DEF IInv, OwnedAllocated
<1>9. ref_count[s] = 1 => \A v \in Threads : owned'[v][s] = 0
  <2>1. ref_count[s] = 1 => Cardinality(Tokens(owned', s)) = 0
    BY <1>2 DEF IInv, RefsCounted
  <2> QED  BY <1>2, <2>1, NoTokens
<1>10. FreeingLast'
  BY <1>1, <1>6, <1>7, <1>9 DEF IInv, FreeingLast
<1> QED  BY <1>3, <1>5, <1>8, <1>10 DEF IInv

LEMMA FreeKeeps ==
  ASSUME IInv, NEW t \in Threads, NEW s \in Sets, Free(t, s)
  PROVE  IInv'
<1>1. Types'
  BY DEF IInv, Types, Arrays, Free
<1>2. RefsCounted'
  BY DEF IInv, RefsCounted, Free
<1>3. \A u \in Threads : owned[u][s] = 0 /\ (u # t => s \notin freeing[u])
  BY DEF IInv, FreeingLast, Free
<1>a. /\ freeing \in [Threads -> SUBSET Sets]
      /\ freeing' = [freeing EXCEPT ![t] = {}] /\ allocated' = allocated \ {s}
      /\ owned' = owned
  BY DEF IInv, Types, Free
<1>4. OwnedAllocated'
  BY <1>3, <1>a DEF IInv, OwnedAllocated
<1>5. FreeingLast'
  <2>1. \A u \in Threads, r \in Sets : r \in freeing'[u] => r # s /\ r \in freeing[u]
    BY <1>3, <1>a
  <2> QED  BY <1>a, <2>1 DEF IInv, FreeingLast
<1> QED  BY <1>1, <1>2, <1>4, <1>5 DEF IInv

\* An initialiser touches no reference.
LEMMA InitialiseKeeps ==
  ASSUME IInv, NEW t \in Threads, NEW s \in Sets, NEW array \in Seq(guint),
         NEW set \in SUBSET guint, NEW kind \in {"none", "other", "fresh_range", "range_again"},
         Initialise(t, s, array, set, kind)
  PROVE  IInv'
<1>1. <<array>> \in Arrays
  BY DEF Arrays
<1>2. Types'
  BY <1>1 DEF IInv, Types, Initialise
<1>3. RefsCounted' /\ OwnedAllocated' /\ FreeingLast'
  BY DEF IInv, RefsCounted, OwnedAllocated, FreeingLast, Initialise
<1> QED  BY <1>2, <1>3 DEF IInv

\* The array of an initialised set is a sequence of guints.
LEMMA ArrayTyped ==
  ASSUME Types, NEW s \in Sets, Initialised(s)
  PROVE  Array(s) \in Seq(guint) /\ indices[s] = <<Array(s)>>
<1>1. indices[s] \in Arrays /\ indices[s] # <<>>
  BY DEF Types, Initialised, NoArray
<1>2. PICK seq \in Seq(guint) : indices[s] = <<seq>>
  BY <1>1 DEF Arrays, NoArray
<1> QED  BY <1>2 DEF Array

LEMMA IndicesInitialise ==
  ASSUME IInv, NEW t \in Threads, NEW s \in Sets,
         \/ g_index_set_init(t, s)
         \/ \E index \in guint : g_index_set_init_with_index(t, s, index)
  PROVE  IInv'
<1>1. CASE g_index_set_init(t, s)
  <2>1. Initialise(t, s, <<>>, {}, "other")
    BY <1>1 DEF g_index_set_init, Emptied
  <2>2. <<>> \in Seq(guint) /\ {} \in SUBSET guint
    OBVIOUS
  <2> QED  BY <2>1, <2>2, InitialiseKeeps
<1>2. ASSUME NEW index \in guint, g_index_set_init_with_index(t, s, index)
      PROVE  IInv'
  <2>1. <<index>> \o <<>> \in Seq(guint)
    OBVIOUS
  <2>2. Initialise(t, s, <<index>> \o <<>>, {index}, "other")
    BY <1>2 DEF g_index_set_init_with_index, Emptied
  <2> QED  BY <2>1, <2>2, InitialiseKeeps
<1> QED  BY <1>1, <1>2

\* What the loop over a range inserts are guints.
LEMMA InsertedTyped ==
  ASSUME NEW range \in GRange
  PROVE  Inserted(range) \in Seq(guint) /\ InRange(range) \in SUBSET guint
<1>1. /\ range.location \in Nat /\ range.length \in Nat
      /\ range.length <= MaxIndex /\ MaxIndex \in Nat
  <2>1. MaxIndex \in Nat
    BY WidthAssumption
  <2>2. range.location \in 0..MaxIndex /\ range.length \in 0..MaxLength /\ MaxLength \in 0..MaxIndex
    BY RangeAssumption DEF GRange
  <2> QED  BY <2>1, <2>2
<1>2. CASE range.location < range.length
  <2>1. range.length - range.location \in Nat
    BY <1>1, <1>2
  <2>2. \A i \in 1 .. range.length - range.location : range.location + i - 1 \in guint
    BY <1>1 DEF guint
  <2> QED  BY <1>2, <2>1, <2>2 DEF Inserted, InRange
<1>3. CASE ~(range.location < range.length)
  BY <1>3 DEF Inserted, InRange
<1> QED  BY <1>2, <1>3

LEMMA RangeInitialises ==
  ASSUME IInv, NEW t \in Threads, NEW s \in Sets, NEW range \in GRange,
         g_index_set_init_with_range(t, s, range)
  PROVE  IInv'
<1>1. PICK old \in LeftBehind(s, range.length) :
        Initialise(t, s, Inserted(range) \o old, InRange(range),
                   IF Initialised(s) THEN "range_again" ELSE "fresh_range")
  BY DEF g_index_set_init_with_range
<1>2. old \in Seq(guint)
  <2>1. CASE ~Initialised(s)
    BY <2>1 DEF LeftBehind
  <2>2. CASE Initialised(s)
    <3>1. PICK junk \in [1..range.length -> guint] :
            old = [i \in 1..range.length |->
                     IF i <= Len(Array(s)) THEN Array(s)[i] ELSE junk[i]]
      BY <2>2 DEF LeftBehind
    <3>2. Array(s) \in Seq(guint) /\ range.length \in Nat
      BY <2>2, ArrayTyped, RangeAssumption, WidthAssumption DEF IInv, GRange
    <3>3. \A i \in 1..range.length :
            (IF i <= Len(Array(s)) THEN Array(s)[i] ELSE junk[i]) \in guint
      BY <3>2
    <3> QED  BY <3>1, <3>2, <3>3
  <2> QED  BY <2>1, <2>2
<1>3. Inserted(range) \o old \in Seq(guint) /\ InRange(range) \in SUBSET guint
  BY <1>2, InsertedTyped
<1> QED  BY <1>1, <1>3, InitialiseKeeps

LEMMA SetInitialises ==
  ASSUME IInv, NEW t \in Threads, NEW s \in Sets, NEW source \in Sets,
         g_index_set_init_with_set(t, s, source)
  PROVE  IInv'
<1>1. Emptied(s) \o Copied(s, source) \in Seq(guint)
  BY ArrayTyped DEF IInv, Emptied, Copied
<1>2. /\ asked[source] \in SUBSET guint
      /\ init[source] \in {"none", "other", "fresh_range", "range_again"}
  BY DEF IInv, Types
<1> QED  BY <1>1, <1>2, InitialiseKeeps DEF g_index_set_init_with_set

LEMMA NextKeeps ==
  IInv /\ [Next]_vars => IInv'
<1> SUFFICES ASSUME IInv, [Next]_vars PROVE IInv'
  OBVIOUS
<1>1. CASE UNCHANGED vars
  BY <1>1 DEF vars, IInv, Types, RefsCounted, OwnedAllocated, FreeingLast
<1>2. ASSUME NEW t \in Threads, NEW s \in Sets, Free(t, s) \/ Call(t, s)
      PROVE  IInv'
  BY <1>2, AllocKeeps, RefKeeps, UnrefKeeps, FreeKeeps, IndicesInitialise,
     RangeInitialises, SetInitialises DEF Call
<1> QED  BY <1>1, <1>2 DEF Next

-----------------------------------------------------------------------------
\* The invariant holds: threads and counts agree whatever the interleaving.
THEOREM InvariantHolds == Spec => []IInv
<1>1. Init => IInv
  BY InitKeeps
<1>2. IInv /\ [Next]_vars => IInv'
  BY NextKeeps
<1> QED  BY <1>1, <1>2, PTL DEF Spec

\* Every variable of IndexSet keeps its type, whatever ranges are put in
\* whatever sets.
THEOREM TypesHold == Spec => []TypeOK
<1>1. IInv => TypeOK
  <2> SUFFICES ASSUME IInv PROVE TypeOK
    OBVIOUS
  <2>1. \A s \in Sets : Initialised(s) => Array(s) \in Seq(guint)
    BY ArrayTyped DEF IInv
  <2>2. owned \in [Threads -> [Sets -> Nat]]
    <3>1. MaxRefs \in Nat \ {0} /\ owned \in [Threads -> [Sets -> 0..MaxRefs]]
      BY ClientAssumption DEF IInv, Types
    <3>2. 0..MaxRefs \subseteq Nat
      BY <3>1
    <3> QED  BY <3>1, <3>2
  <2> QED  BY <2>1, <2>2 DEF IInv, Types, TypeOK
<1> QED  BY <1>1, InvariantHolds, PTL

\* g_index_set_unref frees a set once, and never while a thread owns it.
THEOREM SetsAreFreedOnce == Spec => []FreedOnceUnused
<1>1. IInv => FreedOnceUnused
  <2> SUFFICES ASSUME IInv, NEW s \in Sets
               PROVE  /\ \A t \in Threads : owned[t][s] > 0 => s \in allocated /\ ref_count[s] > 0
                      /\ \A t \in Threads : s \in freeing[t] =>
                           /\ s \in allocated
                           /\ \A u \in Threads : owned[u][s] = 0 /\ (u # t => s \notin freeing[u])
    BY DEF FreedOnceUnused
  <2>1. ASSUME NEW t \in Threads, owned[t][s] > 0
        PROVE  s \in allocated /\ ref_count[s] > 0
    <3>1. ref_count[s] # 0
      <4>1. owned \in [Threads -> [Sets -> 0..MaxRefs]] /\ owned[t][s] # 0
        <5>1. owned[t][s] # 0
          BY <2>1
        <5> QED  BY <5>1 DEF IInv, Types
      <4> QED  BY <4>1, NoTokens DEF IInv, RefsCounted
    <3>2. ref_count[s] \in Nat
      BY DEF IInv, Types
    <3> QED  BY <2>1, <3>1, <3>2 DEF IInv, OwnedAllocated
  <2> QED  BY <2>1 DEF IInv, FreeingLast
<1> QED  BY <1>1, InvariantHolds, PTL

-----------------------------------------------------------------------------
(* A set that nobody owns is being freed.                                   *)

\* A thread is in the middle of at most one unref.
FreeingOne == \A t \in Threads : \A r, s \in freeing[t] : r = s

LastInv == FreeingOne /\ UnownedIsBeingFreed

\* The unref that takes the count to zero is the one that frees.
LEMMA UnrefIsNoticed ==
  ASSUME IInv, LastInv, NEW t \in Threads, NEW s \in Sets, freeing[t] = {},
         g_index_set_unref(t, s)
  PROVE  LastInv'
<1>1. /\ owned \in [Threads -> [Sets -> 0..MaxRefs]] /\ owned[t][s] > 0
      /\ owned' = Given(owned, t, s)
      /\ freeing \in [Threads -> SUBSET Sets]
      /\ freeing' = [freeing EXCEPT ![t] = IF ref_count[s] = 1 THEN {s} ELSE {}]
      /\ allocated' = allocated
  BY DEF IInv, Types, g_index_set_unref, Contents, Given
<1>2. /\ owned' \in [Threads -> [Sets -> 0..MaxRefs]]
      /\ Cardinality(Tokens(owned', s)) = Cardinality(Tokens(owned, s)) - 1
  BY <1>1, TokenRemoved
<1>3. FreeingOne'
  BY <1>1 DEF LastInv, FreeingOne
<1>4. \A u \in Threads, r \in Sets : r # s => owned'[u][r] = owned[u][r]
  BY <1>1 DEF Given
<1>5. \A u \in Threads : freeing[u] \subseteq freeing'[u]
  BY <1>1
<1>6. ASSUME NEW r \in allocated, \A u \in Threads : owned'[u][r] = 0
      PROVE  \E u \in Threads : r \in freeing'[u]
  <2>0. r \in Sets
    BY DEF IInv, Types
  <2>1. CASE r = s
    <3>1. Cardinality(Tokens(owned', s)) = 0
      BY <1>2, <1>6, <2>1, NoTokens
    <3>2. ref_count[s] = 1
      BY <1>2, <3>1, TokensFinite DEF IInv, RefsCounted
    <3> QED  BY <1>1, <2>1, <3>2
  <2>2. CASE r # s
    <3>1. \A u \in Threads : owned[u][r] = 0
      BY <1>4, <1>6, <2>0, <2>2
    <3> QED  BY <1>5, <3>1 DEF LastInv, UnownedIsBeingFreed
  <2> QED  BY <2>1, <2>2
<1> QED  BY <1>1, <1>3, <1>6 DEF LastInv, UnownedIsBeingFreed

LEMMA FreeIsNoticed ==
  ASSUME IInv, LastInv, NEW t \in Threads, NEW s \in Sets, Free(t, s)
  PROVE  LastInv'
<1>1. /\ freeing \in [Threads -> SUBSET Sets] /\ s \in freeing[t]
      /\ freeing' = [freeing EXCEPT ![t] = {}] /\ allocated' = allocated \ {s}
      /\ owned' = owned
  BY DEF IInv, Types, Free
<1>2. FreeingOne'
  BY <1>1 DEF LastInv, FreeingOne
<1>3. \A u \in Threads : \A r \in freeing[u] : r # s => r \in freeing'[u]
  BY <1>1 DEF LastInv, FreeingOne
<1>4. UnownedIsBeingFreed'
  BY <1>1, <1>3 DEF LastInv, UnownedIsBeingFreed
<1> QED  BY <1>2, <1>4 DEF LastInv

\* The other calls take away no reference and nothing a thread has to free.
LEMMA OthersAreNoticed ==
  ASSUME IInv, LastInv, NEW t \in Threads, NEW s \in Sets,
         freeing[t] = {}, Call(t, s), ~g_index_set_unref(t, s)
  PROVE  LastInv'
<1>0. MaxRefs \in Nat \ {0} /\ owned \in [Threads -> [Sets -> 0..MaxRefs]]
  BY ClientAssumption DEF IInv, Types
<1>1. CASE g_index_set_alloc(t, s)
  <2>1. /\ freeing' = freeing /\ allocated' = allocated \cup {s}
        /\ owned' = [owned EXCEPT ![t][s] = 1]
    BY <1>1 DEF g_index_set_alloc
  <2>2. owned'[t][s] = 1 /\ \A u \in Threads, r \in Sets : r # s => owned'[u][r] = owned[u][r]
    BY <1>0, <2>1
  <2>3. \A r \in allocated : r \in Sets
    BY DEF IInv, Types
  <2> QED  BY <2>1, <2>2, <2>3 DEF LastInv, FreeingOne, UnownedIsBeingFreed
<1>2. ASSUME NEW u \in Threads, g_index_set_ref(t, u, s)
      PROVE  LastInv'
  <2>1. /\ freeing' = freeing /\ allocated' = allocated
        /\ owned' = [owned EXCEPT ![u][s] = @ + 1]
    BY <1>2 DEF g_index_set_ref
  <2>2. ASSUME NEW v \in Threads, NEW r \in Sets, owned'[v][r] = 0
        PROVE  owned[v][r] = 0
    <3>1. owned[v][r] \in 0..MaxRefs
      BY <1>0
    <3>2. owned'[v][r] = IF v = u /\ r = s THEN owned[v][r] + 1 ELSE owned[v][r]
      BY <1>0, <2>1
    <3> QED  BY <1>0, <2>2, <3>1, <3>2
  <2>3. \A r \in allocated : r \in Sets
    BY DEF IInv, Types
  <2> QED  BY <2>1, <2>2, <2>3 DEF LastInv, FreeingOne, UnownedIsBeingFreed
<1>3. ASSUME NEW array, NEW set, NEW kind, Initialise(t, s, array, set, kind)
      PROVE  LastInv'
  BY <1>3 DEF Initialise, LastInv, FreeingOne, UnownedIsBeingFreed
<1> QED  BY <1>1, <1>2, <1>3 DEF Call, g_index_set_init, g_index_set_init_with_index,
         g_index_set_init_with_range, g_index_set_init_with_set

\* No set is forgotten: whatever threads take and give back concurrently, one that
\* nobody owns is about to be freed by one of them.  That the thread does it is
\* what UnownedIsFreed adds, from its fairness.
THEOREM UnownedSetsAreBeingFreed == Spec => []UnownedIsBeingFreed
<1>1. Init => LastInv
  BY DEF Init, LastInv, FreeingOne, UnownedIsBeingFreed
<1>2. IInv /\ LastInv /\ [Next]_vars => LastInv'
  <2> SUFFICES ASSUME IInv, LastInv, [Next]_vars PROVE LastInv'
    OBVIOUS
  <2>1. CASE UNCHANGED vars
    BY <2>1 DEF vars, LastInv, FreeingOne, UnownedIsBeingFreed
  <2>2. ASSUME NEW t \in Threads, NEW s \in Sets, Free(t, s) \/ (freeing[t] = {} /\ Call(t, s))
        PROVE  LastInv'
    BY <2>2, FreeIsNoticed, UnrefIsNoticed, OthersAreNoticed
  <2> QED  BY <2>1, <2>2 DEF Next
<1>3. LastInv => UnownedIsBeingFreed
  BY DEF LastInv
<1> QED  BY <1>1, <1>2, <1>3, InvariantHolds, PTL DEF Spec

-----------------------------------------------------------------------------
(* What a set holds, whatever ranges and copies are asked for.              *)

\* Wherever ranges are, and if sets are copied to themselves: unless a range was
\* put in a used set, a set may lack indices it was asked for, but holds no other
\* ones and none twice, and its order is right.
NothingInvented ==
  \A s \in Sets : Initialised(s) /\ init[s] # "range_again" =>
    Elements(Array(s)) \subseteq asked[s] /\ Ascending(Array(s))

\* A set that holds no more than it was asked for.
Sound(array, set) == Elements(array) \subseteq set /\ Ascending(array)

LEMMA InitialiseInvents ==
  ASSUME Types, NothingInvented, NEW t \in Threads, NEW s \in Sets, NEW array,
         NEW set, NEW kind, kind # "range_again" => Sound(array, set),
         Initialise(t, s, array, set, kind)
  PROVE  NothingInvented'
<1>1. /\ indices' = [indices EXCEPT ![s] = <<array>>] /\ asked' = [asked EXCEPT ![s] = set]
      /\ init' = [init EXCEPT ![s] = kind] /\ indices \in [Sets -> Arrays]
      /\ asked \in [Sets -> SUBSET guint]
      /\ init \in [Sets -> {"none", "other", "fresh_range", "range_again"}]
  BY DEF Types, Initialise
<1>2. indices'[s] = <<array>> /\ asked'[s] = set /\ init'[s] = kind
  BY <1>1
<1>3. \A r \in Sets \ {s} :
        indices'[r] = indices[r] /\ asked'[r] = asked[r] /\ init'[r] = init[r]
  BY <1>1
<1>4. init'[s] # "range_again" => Sound(Array(s)', asked'[s])
  <2>1. Array(s)' = array
    BY <1>2 DEF Array
  <2> QED  BY <1>2, <2>1
<1>5. ASSUME NEW r \in Sets, r # s, Initialised(r)', init'[r] # "range_again"
      PROVE  Sound(Array(r)', asked'[r])
  <2>1. Initialised(r) /\ Array(r)' = Array(r) /\ asked'[r] = asked[r] /\ init'[r] = init[r]
    BY <1>3, <1>5 DEF Initialised, Array
  <2> QED  BY <1>5, <2>1 DEF NothingInvented, Sound
<1> QED  BY <1>4, <1>5 DEF NothingInvented, Sound, Elements

\* Wherever a range is, the loop inserts indices of the range, in order.
LEMMA InsertedIsSound ==
  ASSUME NEW range \in GRange
  PROVE  Sound(Inserted(range), InRange(range))
<1> DEFINE l == range.location
           n == range.length
<1>1. l \in Nat /\ n \in Nat /\ n <= MaxIndex /\ MaxIndex \in Nat
  <2>1. MaxIndex \in Nat
    BY WidthAssumption
  <2>2. l \in 0..MaxIndex /\ n \in 0..MaxLength /\ MaxLength \in 0..MaxIndex
    BY RangeAssumption DEF GRange
  <2> QED  BY <2>1, <2>2
<1>2. CASE l < n
  <2> DEFINE f == [i \in 1 .. n - l |-> l + i - 1]
  <2>1. Inserted(range) = f
    BY <1>2 DEF Inserted
  <2>2. Ascending(f)
    BY <1>1 DEF Ascending
  <2>3. ASSUME NEW i \in 1 .. n - l
        PROVE  f[i] \in InRange(range)
    <3>1. f[i] = l + i - 1 /\ l <= f[i] /\ f[i] < n
      BY <1>1
    <3>2. f[i] \in guint /\ f[i] < l + n
      BY <1>1, <3>1 DEF guint
    <3> QED  BY <3>1, <3>2 DEF InRange
  <2> QED  BY <2>1, <2>2, <2>3 DEF Sound, Elements
<1>3. CASE ~(l < n)
  BY <1>3 DEF Inserted, Sound, Elements, Ascending
<1> QED  BY <1>2, <1>3

LEMMA CopyIsSound ==
  ASSUME Types, NothingInvented, NEW s \in Sets, NEW source \in Sets,
         Initialised(source), init[source] # "range_again"
  PROVE  Sound(Emptied(s) \o Copied(s, source), asked[source])
<1>1. CASE s = source
  <2>1. Emptied(s) \o Copied(s, source) = <<>>
    BY <1>1 DEF Emptied, Copied
  <2> QED  BY <2>1 DEF Sound, Elements, Ascending
<1>2. CASE s # source
  <2>1. Array(source) \in Seq(guint)
    BY ArrayTyped
  <2>2. Emptied(s) \o Copied(s, source) = Array(source)
    BY <1>2, <2>1 DEF Emptied, Copied
  <2>3. Sound(Array(source), asked[source])
    BY DEF NothingInvented, Sound
  <2> QED  BY <2>2, <2>3
<1> QED  BY <1>1, <1>2

LEMMA InitialisersInvent ==
  ASSUME Types, NothingInvented, NEW t \in Threads, NEW s \in Sets,
         \/ g_index_set_init(t, s)
         \/ \E index \in guint : g_index_set_init_with_index(t, s, index)
         \/ \E range \in GRange : g_index_set_init_with_range(t, s, range)
         \/ \E source \in Sets : g_index_set_init_with_set(t, s, source)
  PROVE  NothingInvented'
<1>1. CASE g_index_set_init(t, s)
  <2>1. Sound(<<>>, {}) /\ Initialise(t, s, <<>>, {}, "other")
    BY <1>1 DEF g_index_set_init, Emptied, Sound, Elements, Ascending
  <2> QED  BY <2>1, InitialiseInvents
<1>2. ASSUME NEW index \in guint, g_index_set_init_with_index(t, s, index)
      PROVE  NothingInvented'
  <2>1. <<index>> \o <<>> = <<index>>
    OBVIOUS
  <2>2. Sound(<<index>>, {index})
    BY DEF Sound, Elements, Ascending
  <2>3. Initialise(t, s, <<index>>, {index}, "other")
    BY <1>2, <2>1 DEF g_index_set_init_with_index, Emptied
  <2> QED  BY <2>2, <2>3, InitialiseInvents
<1>3. ASSUME NEW range \in GRange, g_index_set_init_with_range(t, s, range)
      PROVE  NothingInvented'
  <2>1. CASE Initialised(s)
    <3>1. PICK old \in LeftBehind(s, range.length) :
            Initialise(t, s, Inserted(range) \o old, InRange(range), "range_again")
      BY <1>3, <2>1 DEF g_index_set_init_with_range
    <3> QED  BY <3>1, InitialiseInvents
  <2>2. CASE ~Initialised(s)
    <3>1. Initialise(t, s, Inserted(range) \o <<>>, InRange(range), "fresh_range")
      BY <1>3, <2>2 DEF g_index_set_init_with_range, LeftBehind
    <3>2. Inserted(range) \o <<>> = Inserted(range)
      BY InsertedTyped
    <3> QED  BY <3>1, <3>2, InsertedIsSound, InitialiseInvents
  <2> QED  BY <2>1, <2>2
<1>4. ASSUME NEW source \in Sets, g_index_set_init_with_set(t, s, source)
      PROVE  NothingInvented'
  <2> DEFINE copy == Emptied(s) \o Copied(s, source)
  <2>1. CASE Initialised(source)
    <3>1. Initialise(t, s, copy, asked[source], init[source])
      BY <1>4, <2>1 DEF g_index_set_init_with_set
    <3>2. init[source] # "range_again" => Sound(copy, asked[source])
      BY <2>1, CopyIsSound
    <3> QED  BY <3>1, <3>2, InitialiseInvents
  <2>2. CASE ~Initialised(source)
    <3>1. Initialise(t, s, copy, {}, "other") /\ copy = <<>>
      BY <1>4, <2>2 DEF g_index_set_init_with_set, Emptied, Copied
    <3>2. Sound(copy, {})
      BY <3>1 DEF Sound, Elements, Ascending
    <3> QED  BY <3>1, <3>2, InitialiseInvents
  <2> QED  BY <2>1, <2>2
<1> QED  BY <1>1, <1>2, <1>3, <1>4

\* Where SetsHoldWhatWasAsked does not apply: a range elsewhere or a copy of a set
\* to itself loses indices, but nothing else gets into a set.
THEOREM SetsInventNothing == Spec => []NothingInvented
<1>1. Init => NothingInvented
  BY DEF Init, NothingInvented, Initialised
<1>2. IInv /\ NothingInvented /\ [Next]_vars => NothingInvented'
  <2> SUFFICES ASSUME Types, NothingInvented, [Next]_vars PROVE NothingInvented'
    BY DEF IInv
  <2>1. CASE UNCHANGED vars
    BY <2>1 DEF vars, NothingInvented, Initialised, Array
  <2>2. ASSUME NEW t \in Threads, NEW s \in Sets,
               \/ g_index_set_alloc(t, s) \/ Free(t, s) \/ g_index_set_unref(t, s)
               \/ \E u \in Threads : g_index_set_ref(t, u, s)
        PROVE  NothingInvented'
    <3>1. ASSUME NEW r \in Sets, Initialised(r)'
          PROVE  /\ Initialised(r) /\ Array(r)' = Array(r)
                 /\ asked'[r] = asked[r] /\ init'[r] = init[r]
      BY <2>2, <3>1 DEF Types, Initialised, Array, g_index_set_alloc, Free,
         g_index_set_unref, g_index_set_ref, Contents
    <3> QED  BY <3>1 DEF NothingInvented
  <2> QED  BY <2>1, <2>2, InitialisersInvent DEF Next, Call
<1> QED  BY <1>1, <1>2, InvariantHolds, PTL DEF Spec

-----------------------------------------------------------------------------
(* The contents, where ranges begin at zero and go into new sets only and   *)
(* where no set is copied to itself (the other cases are known to fail).    *)

PlainClients == ~Reuse /\ Locations \subseteq {0}

LEMMA InitialiseHolds ==
  ASSUME Types, HoldsWhatWasAsked, NEW t \in Threads, NEW s \in Sets, NEW array,
         NEW set, NEW kind, Elements(array) = set, Ascending(array),
         Initialise(t, s, array, set, kind)
  PROVE  HoldsWhatWasAsked'
<1>1. /\ indices' = [indices EXCEPT ![s] = <<array>>] /\ asked' = [asked EXCEPT ![s] = set]
      /\ indices \in [Sets -> Arrays] /\ asked \in [Sets -> SUBSET guint]
  BY DEF Types, Initialise
<1>2. indices'[s] = <<array>> /\ asked'[s] = set
  BY <1>1
<1>3. \A r \in Sets \ {s} : indices'[r] = indices[r] /\ asked'[r] = asked[r]
  BY <1>1
<1>4. Initialised(s)' => Elements(Array(s)') = asked'[s] /\ Ascending(Array(s)')
  BY <1>2 DEF Array
<1>5. ASSUME NEW r \in Sets, r # s, Initialised(r)'
      PROVE  Elements(Array(r)') = asked'[r] /\ Ascending(Array(r)')
  <2>1. Initialised(r) /\ Array(r)' = Array(r) /\ asked'[r] = asked[r]
    BY <1>3, <1>5 DEF Initialised, Array
  <2> QED  BY <2>1 DEF HoldsWhatWasAsked, Ascending
<1> QED  BY <1>4, <1>5 DEF HoldsWhatWasAsked, Ascending, Elements

LEMMA IndicesHold ==
  ASSUME Types, HoldsWhatWasAsked, NEW t \in Threads, NEW s \in Sets,
         \/ g_index_set_init(t, s)
         \/ \E index \in guint : g_index_set_init_with_index(t, s, index)
  PROVE  HoldsWhatWasAsked'
<1>1. CASE g_index_set_init(t, s)
  <2>1. Elements(<<>>) = {} /\ Ascending(<<>>)
    BY DEF Elements, Ascending
  <2>2. Initialise(t, s, <<>>, {}, "other")
    BY <1>1 DEF g_index_set_init, Emptied
  <2> QED  BY <2>1, <2>2, InitialiseHolds
<1>2. ASSUME NEW index \in guint, g_index_set_init_with_index(t, s, index)
      PROVE  HoldsWhatWasAsked'
  <2>1. <<index>> \o <<>> = <<index>>
    OBVIOUS
  <2>2. Elements(<<index>>) = {index} /\ Ascending(<<index>>)
    BY DEF Elements, Ascending
  <2>3. Initialise(t, s, <<index>>, {index}, "other")
    BY <1>2, <2>1 DEF g_index_set_init_with_index, Emptied
  <2> QED  BY <2>2, <2>3, InitialiseHolds
<1> QED  BY <1>1, <1>2

\* From location zero, the loop inserts what the range stands for.
LEMMA InsertedFromZero ==
  ASSUME NEW range \in GRange, range.location = 0
  PROVE  Elements(Inserted(range)) = InRange(range) /\ Ascending(Inserted(range))
<1> DEFINE n == range.length
<1>1. n \in Nat /\ n <= MaxIndex /\ MaxIndex \in Nat
  <2>1. MaxIndex \in Nat
    BY WidthAssumption
  <2>2. n \in 0..MaxLength /\ MaxLength \in 0..MaxIndex
    BY RangeAssumption DEF GRange
  <2> QED  BY <2>1, <2>2
<1>2. InRange(range) = 0 .. n - 1
  BY <1>1 DEF InRange, guint
<1>3. Inserted(range) = [i \in 1..n |-> i - 1]
  <2>1. CASE 0 < n
    BY <1>1, <2>1 DEF Inserted
  <2>2. CASE ~(0 < n)
    <3>1. n = 0 /\ Inserted(range) = <<>>
      BY <1>1, <2>2 DEF Inserted
    <3> QED  BY <3>1
  <2> QED  BY <2>1, <2>2
<1> HIDE DEF n
<1> DEFINE f == [i \in 1..n |-> i - 1]
<1>4. Ascending(f)
  BY <1>1 DEF Ascending
<1>5. Elements(f) = 0 .. n - 1
  <2>1. ASSUME NEW k \in 0 .. n - 1
        PROVE  k \in Elements(f)
    <3>1. k + 1 \in 1..n /\ f[k + 1] = k
      BY <1>1
    <3> QED  BY <3>1 DEF Elements
  <2>2. Elements(f) \subseteq 0 .. n - 1
    BY <1>1 DEF Elements
  <2> QED  BY <2>1, <2>2
<1> QED  BY <1>2, <1>3, <1>4, <1>5

LEMMA RangeHolds ==
  ASSUME PlainClients, Types, HoldsWhatWasAsked, NEW t \in Threads, NEW s \in Sets,
         NEW range \in GRange, g_index_set_init_with_range(t, s, range)
  PROVE  HoldsWhatWasAsked'
<1>1. ~Initialised(s) /\ range.location = 0
  BY DEF PlainClients, g_index_set_init_with_range, GRange
<1>2. Inserted(range) \in Seq(guint)
  BY InsertedTyped
<1>3. Initialise(t, s, Inserted(range) \o <<>>, InRange(range), "fresh_range")
  BY <1>1 DEF g_index_set_init_with_range, LeftBehind
<1>4. Inserted(range) \o <<>> = Inserted(range)
  BY <1>2
<1>5. Elements(Inserted(range)) = InRange(range) /\ Ascending(Inserted(range))
  BY <1>1, InsertedFromZero
<1> QED  BY <1>3, <1>4, <1>5, InitialiseHolds

LEMMA CopyHolds ==
  ASSUME PlainClients, Types, HoldsWhatWasAsked, NEW t \in Threads, NEW s \in Sets,
         NEW source \in Sets, g_index_set_init_with_set(t, s, source)
  PROVE  HoldsWhatWasAsked'
<1> DEFINE copy == Emptied(s) \o Copied(s, source)
           set == IF Initialised(source) THEN asked[source] ELSE {}
<1>1. s # source
  BY DEF PlainClients, g_index_set_init_with_set
<1>2. Elements(copy) = set /\ Ascending(copy)
  <2>1. CASE Initialised(source)
    <3>1. Array(source) \in Seq(guint)
      BY <2>1, ArrayTyped
    <3>2. copy = Array(source)
      BY <1>1, <2>1, <3>1 DEF Emptied, Copied
    <3> QED  BY <2>1, <3>2 DEF HoldsWhatWasAsked, Ascending
  <2>2. CASE ~Initialised(source)
    <3>1. copy = <<>> /\ set = {}
      BY <2>2 DEF Emptied, Copied
    <3> QED  BY <3>1 DEF Elements, Ascending
  <2> QED  BY <2>1, <2>2
<1>3. Initialise(t, s, copy, set, IF Initialised(source) THEN init[source] ELSE "other")
  BY DEF g_index_set_init_with_set
<1> QED  BY <1>2, <1>3, InitialiseHolds

\* The other calls leave the contents alone, or take the array away.
LEMMA OthersHold ==
  ASSUME Types, HoldsWhatWasAsked, NEW t \in Threads, NEW s \in Sets,
         \/ g_index_set_alloc(t, s) \/ Free(t, s) \/ g_index_set_unref(t, s)
         \/ \E u \in Threads : g_index_set_ref(t, u, s)
         \/ UNCHANGED vars
  PROVE  HoldsWhatWasAsked'
<1>1. ASSUME NEW r \in Sets, Initialised(r)'
      PROVE  Initialised(r) /\ Array(r)' = Array(r) /\ asked'[r] = asked[r]
  BY <1>1 DEF Types, Initialised, Array, g_index_set_alloc, Free, g_index_set_unref,
     g_index_set_ref, Contents, vars
<1> QED  BY <1>1 DEF HoldsWhatWasAsked

\* What the threads ask of a set is what it holds: the contents of a set after
\* any initialisers, called by any threads, are those of the last one.  (Not so
\* for ranges elsewhere or in used sets: RangeHasItsLength, ReuseHasItsLength.)
THEOREM SetsHoldWhatWasAsked == PlainClients => (Spec => []HoldsWhatWasAsked)
<1> SUFFICES ASSUME PlainClients PROVE Spec => []HoldsWhatWasAsked
  OBVIOUS
<1>1. Init => HoldsWhatWasAsked
  BY DEF Init, HoldsWhatWasAsked, Initialised
<1>2. IInv /\ HoldsWhatWasAsked /\ [Next]_vars => HoldsWhatWasAsked'
  <2> SUFFICES ASSUME Types, HoldsWhatWasAsked, [Next]_vars PROVE HoldsWhatWasAsked'
    BY DEF IInv
  <2>1. CASE UNCHANGED vars
    BY <2>1 DEF vars, HoldsWhatWasAsked, Initialised, Array
  <2>2. ASSUME NEW t \in Threads, NEW s \in Sets, Free(t, s) \/ Call(t, s)
        PROVE  HoldsWhatWasAsked'
    BY <2>2, IndicesHold, RangeHolds, CopyHolds, OthersHold DEF Call
  <2> QED  BY <2>1, <2>2 DEF Next
<1> QED  BY <1>1, <1>2, InvariantHolds, PTL DEF Spec

-----------------------------------------------------------------------------
(* The queries.                                                            *)

\* A nonempty set of natural numbers has a least element.
LEMMA LeastPosition ==
  ASSUME NEW T \in SUBSET Nat, T # {}
  PROVE  \E x \in T : \A y \in T : x <= y
<1>1. PICK x \in T : \A y \in T : ~(<<y, x>> \in OpToRel(<, Nat))
  BY WFMin, NatLessThanWellFounded
<1>2. ASSUME NEW y \in T, y < x
      PROVE  FALSE
  <2> DEFINE p == <<y, x>>
  <2>1. p \in Nat \X Nat /\ p[1] < p[2]
    BY <1>2
  <2>2. p \in OpToRel(<, Nat)
    BY <2>1 DEF OpToRel
  <2> QED  BY <1>1, <2>2
<1>3. \A y \in T : x <= y
  BY <1>2
<1> QED  BY <1>3

LEMMA GuintsAreIntegers ==
  ASSUME NEW seq \in Seq(guint)
  PROVE  /\ Len(seq) \in Nat /\ DOMAIN seq = 1..Len(seq)
         /\ \A i \in 1..Len(seq) : seq[i] \in Int
<1>1. Len(seq) \in Nat /\ DOMAIN seq = 1..Len(seq) /\ \A i \in 1..Len(seq) : seq[i] \in guint
  OBVIOUS
<1>2. \A x \in guint : x \in Int
  BY DEF guint
<1> QED  BY <1>1, <1>2

\* A sequence that ascends has as many elements as positions.
LEMMA AscendingCounts ==
  ASSUME NEW seq \in Seq(guint), Ascending(seq)
  PROVE  Len(seq) = Cardinality(Elements(seq))
<1> DEFINE n == Len(seq)
           S == Elements(seq)
<1>1. n \in Nat /\ DOMAIN seq = 1..n /\ seq \in [1..n -> S]
  BY DEF Elements
<1>2. IsFiniteSet(1..n) /\ Cardinality(1..n) = n
  BY <1>1, FS_Interval
<1>3. \A i \in 1..n : seq[i] \in Int
  BY GuintsAreIntegers
<1>4. \A i, j \in 1..n : seq[i] = seq[j] => i = j
  BY <1>1, <1>3 DEF Ascending
<1>5. \A x \in S : \E i \in 1..n : seq[i] = x
  BY <1>1 DEF Elements
<1> HIDE DEF n, S
<1>6. seq \in Surjection(1..n, S)
  BY <1>1, <1>5 DEF Surjection
<1>7. seq \in Injection(1..n, S)
  BY <1>1, <1>4 DEF Injection, IsInjective
<1>8. Cardinality(S) = n
  BY <1>2, <1>6, <1>7, FS_Surjection
<1> QED  BY <1>8 DEF n, S

\* get_index finds an element that satisfies the predicate if there is one.
LEMMA GetIndexFinds ==
  ASSUME Types, HoldsWhatWasAsked, NEW s \in Sets, Initialised(s),
         NEW predicate, NEW index
  PROVE  Finds(s, predicate, index, {k \in asked[s] : Holds(predicate, k, index)})
<1> DEFINE array == Array(s)
           found == {i \in DOMAIN array : Holds(predicate, array[i], index)}
           fitting == {k \in asked[s] : Holds(predicate, k, index)}
           least == CHOOSE i \in found : \A j \in found : i <= j
<1>1. array \in Seq(guint) /\ asked[s] = {array[i] : i \in DOMAIN array}
  BY ArrayTyped DEF HoldsWhatWasAsked, Elements
<1>2. g_index_set_get_index(s, predicate, index) =
        IF found = {} THEN G_INDEX_NOT_FOUND ELSE array[least]
  BY DEF g_index_set_get_index
<1>3. found = {} <=> fitting = {}
  <2> HIDE DEF array
  <2> QED  BY <1>1
<1>4. found # {} => least \in found
  <2>1. found \in SUBSET Nat
    <3>1. DOMAIN array = 1..Len(array)
      BY <1>1
    <3> QED  BY <3>1
  <2> HIDE DEF found
  <2> QED  BY <2>1, LeastPosition
<1>5. found # {} => array[least] \in fitting
  <2> HIDE DEF least, array
  <2> QED  BY <1>1, <1>4
<1> HIDE DEF least, found, fitting, array
<1>6. IF fitting = {} THEN g_index_set_get_index(s, predicate, index) = G_INDEX_NOT_FOUND
      ELSE g_index_set_get_index(s, predicate, index) \in fitting
  BY <1>2, <1>3, <1>5
<1> QED  BY <1>6 DEF Finds, fitting

LEMMA QueriesFollow ==
  ASSUME Types, HoldsWhatWasAsked
  PROVE  QueriesTellTheTruth
<1> SUFFICES ASSUME NEW s \in Sets, Initialised(s)
             PROVE  /\ g_index_set_count(s) = Cardinality(asked[s])
                    /\ \A i \in guint : g_index_set_contains_index(s, i) = (i \in asked[s])
                    /\ asked[s] # {} => \A i \in asked[s] :
                         g_index_set_first_index(s) <= i /\ i <= g_index_set_last_index(s)
                    /\ \A i \in guint :
                         /\ Finds(s, "LESS_THAN", i, {k \in asked[s] : k < i})
                         /\ Finds(s, "LESS_THAN_OR_EQUAL", i, {k \in asked[s] : k <= i})
                         /\ Finds(s, "GREATER_THAN_OR_EQUAL", i, {k \in asked[s] : k >= i})
                         /\ Finds(s, "GREATER_THAN", i, {k \in asked[s] : k > i})
  BY DEF QueriesTellTheTruth
<1>1. Array(s) \in Seq(guint) /\ Elements(Array(s)) = asked[s] /\ Ascending(Array(s))
  BY ArrayTyped DEF HoldsWhatWasAsked, Ascending
<1>2. g_index_set_count(s) = Cardinality(asked[s])
  BY <1>1, AscendingCounts DEF g_index_set_count
<1>3. \A i \in guint : g_index_set_contains_index(s, i) = (i \in asked[s])
  BY <1>1 DEF g_index_set_contains_index, Elements
<1>4. ASSUME NEW x \in asked[s]
      PROVE  g_index_set_first_index(s) <= x /\ x <= g_index_set_last_index(s)
  <2> DEFINE array == Array(s)
             n == Len(array)
  <2>1. PICK i \in DOMAIN array : x = array[i]
    BY <1>1 DEF Elements
  <2>2. n \in Nat /\ DOMAIN array = 1..n /\ \A j \in 1..n : array[j] \in Int
    BY <1>1, GuintsAreIntegers
  <2>3. /\ g_index_set_first_index(s) = array[1]
        /\ g_index_set_last_index(s) = array[n]
    BY DEF g_index_set_first_index, g_index_set_last_index
  <2> HIDE DEF n, array
  <2>4. Ascending(array)
    BY <1>1 DEF array
  <2>5. 1 \in 1..n /\ n \in 1..n /\ 1 <= i /\ i <= n
    BY <2>1, <2>2
  <2>6. array[1] <= array[i]
    BY <2>1, <2>2, <2>4, <2>5 DEF Ascending
  <2>7. array[i] <= array[n]
    BY <2>1, <2>2, <2>4, <2>5 DEF Ascending
  <2> QED  BY <2>1, <2>3, <2>6, <2>7
<1>5. ASSUME NEW i \in guint
      PROVE  /\ Finds(s, "LESS_THAN", i, {k \in asked[s] : k < i})
             /\ Finds(s, "LESS_THAN_OR_EQUAL", i, {k \in asked[s] : k <= i})
             /\ Finds(s, "GREATER_THAN_OR_EQUAL", i, {k \in asked[s] : k >= i})
             /\ Finds(s, "GREATER_THAN", i, {k \in asked[s] : k > i})
  <2>1. /\ {k \in asked[s] : Holds("LESS_THAN", k, i)} = {k \in asked[s] : k < i}
        /\ {k \in asked[s] : Holds("LESS_THAN_OR_EQUAL", k, i)} = {k \in asked[s] : k <= i}
        /\ {k \in asked[s] : Holds("GREATER_THAN_OR_EQUAL", k, i)} = {k \in asked[s] : k >= i}
        /\ {k \in asked[s] : Holds("GREATER_THAN", k, i)} = {k \in asked[s] : k > i}
    BY DEF Holds
  <2> QED  BY <2>1, GetIndexFinds
<1> QED  BY <1>2, <1>3, <1>4, <1>5

\* Whatever a set was asked for, count, contains_index, first_index, last_index
\* and get_index tell it.
THEOREM QueriesAreTrue == PlainClients => (Spec => []QueriesTellTheTruth)
<1> SUFFICES ASSUME PlainClients PROVE Spec => []QueriesTellTheTruth
  OBVIOUS
<1>1. IInv /\ HoldsWhatWasAsked => QueriesTellTheTruth
  BY QueriesFollow DEF IInv
<1>2. Spec => []HoldsWhatWasAsked
  BY SetsHoldWhatWasAsked
<1> QED  BY <1>1, <1>2, InvariantHolds, PTL

-----------------------------------------------------------------------------
(* Index sets implement SharedSets.                                        *)

\* What contains_index says, without the array.
ShownIsAsked ==
  Shown = [s \in Sets |-> IF Initialised(s) THEN asked[s] ELSE {}]

LEMMA ShownFollows ==
  ASSUME Types, HoldsWhatWasAsked
  PROVE  ShownIsAsked
<1>1. ASSUME NEW s \in Sets
      PROVE  {i \in guint : g_index_set_contains_index(s, i)}
               = IF Initialised(s) THEN asked[s] ELSE {}
  <2>1. CASE Initialised(s)
    <3>1. \A i : g_index_set_contains_index(s, i) <=> i \in asked[s]
      BY <2>1 DEF g_index_set_contains_index, HoldsWhatWasAsked, Elements
    <3>2. asked[s] \subseteq guint
      BY DEF Types
    <3> QED  BY <2>1, <3>1, <3>2
  <2>2. CASE ~Initialised(s)
    BY <2>2 DEF g_index_set_contains_index
  <2> QED  BY <2>1, <2>2
<1> QED  BY <1>1 DEF Shown, ShownIsAsked

\* An initialiser changes what is shown of its set, for the one thread that has it.
LEMMA InitialisePuts ==
  ASSUME IInv, ShownIsAsked, ShownIsAsked', NEW t \in Threads, NEW s \in Sets,
         NEW array, NEW set, NEW kind, Initialise(t, s, array, set, kind)
  PROVE  Abstract!Put(t, s, set)
<1>1. /\ indices' = [indices EXCEPT ![s] = <<array>>] /\ asked' = [asked EXCEPT ![s] = set]
      /\ indices \in [Sets -> Arrays] /\ asked \in [Sets -> SUBSET guint]
      /\ UNCHANGED <<allocated, owned>>
  BY DEF IInv, Types, Initialise
<1>2. indices'[s] = <<array>> /\ asked'[s] = set
  BY <1>1
<1>3. \A r \in Sets \ {s} : indices'[r] = indices[r] /\ asked'[r] = asked[r]
  BY <1>1
<1>4. Shown'[s] = set
  <2>1. Initialised(s)'
    BY <1>2 DEF Initialised, NoArray
  <2> QED  BY <1>2, <2>1 DEF ShownIsAsked
<1>5. \A r \in Sets \ {s} : Shown'[r] = Shown[r]
  BY <1>3 DEF ShownIsAsked, Initialised
<1>6. Shown' = [Shown EXCEPT ![s] = set]
  BY <1>4, <1>5 DEF Shown
<1>7. \A u \in Threads : s \in Owns[u] <=> u = t
  <2>1. \A u \in Threads : owned[u][s] \in 0..MaxRefs
    BY DEF IInv, Types
  <2> QED  BY <2>1 DEF Initialise, SoleOwner, Owns
<1>8. Owns' = Owns
  BY <1>1 DEF Owns
<1> QED  BY <1>1, <1>6, <1>7, <1>8 DEF Abstract!Put

LEMMA InitialisersFill ==
  ASSUME IInv, ShownIsAsked, ShownIsAsked', NEW t \in Threads, NEW s \in Sets,
         \/ g_index_set_init(t, s)
         \/ \E index \in guint : g_index_set_init_with_index(t, s, index)
         \/ \E range \in GRange : g_index_set_init_with_range(t, s, range)
         \/ \E source \in Sets : g_index_set_init_with_set(t, s, source)
  PROVE  Abstract!Fill(t, s)
<1>1. ASSUME NEW array, NEW kind, NEW set \in Requests, Initialise(t, s, array, set, kind)
      PROVE  Abstract!Fill(t, s)
  BY <1>1, InitialisePuts DEF Abstract!Fill
<1>2. ASSUME NEW source \in Sets, g_index_set_init_with_set(t, s, source)
      PROVE  Abstract!Fill(t, s)
  <2> DEFINE set == IF Initialised(source) THEN asked[source] ELSE {}
  <2>1. Shown[source] = set
    BY DEF ShownIsAsked
  <2>2. source \in Owns[t]
    BY <1>2 DEF g_index_set_init_with_set, Owns
  <2>3. PICK array, kind : Initialise(t, s, array, set, kind)
    BY <1>2 DEF g_index_set_init_with_set
  <2>4. Abstract!Put(t, s, Shown[source])
    BY <2>1, <2>3, InitialisePuts
  <2> QED  BY <2>2, <2>4 DEF Abstract!Fill
<1>3. /\ {} \in Requests
      /\ \A index \in guint : {index} \in Requests
      /\ \A range \in GRange : InRange(range) \in Requests
  BY DEF Requests
<1> QED  BY <1>1, <1>2, <1>3 DEF g_index_set_init, g_index_set_init_with_index,
         g_index_set_init_with_range

\* References move between threads; what a set shows stays.
LEMMA ReferencesMove ==
  ASSUME IInv, ShownIsAsked, ShownIsAsked', NEW t \in Threads, NEW s \in Sets
  PROVE  /\ g_index_set_alloc(t, s) => Abstract!Create(t, s)
         /\ \A u \in Threads : g_index_set_ref(t, u, s) => Abstract!Share(t, u, s)
         /\ g_index_set_unref(t, s) =>
              Abstract!GiveUp(t, s) \/ UNCHANGED <<allocated, Owns, Shown>>
         /\ Free(t, s) => Abstract!Reclaim(s)
<1>0. /\ MaxRefs \in Nat \ {0} /\ owned \in [Threads -> [Sets -> 0..MaxRefs]]
      /\ \A u \in Threads, r \in Sets : owned[u][r] \in Int
      /\ indices \in [Sets -> Arrays] /\ asked \in [Sets -> SUBSET guint]
  BY ClientAssumption DEF IInv, Types
<1>1. ASSUME g_index_set_alloc(t, s)
      PROVE  Abstract!Create(t, s)
  <2>1. /\ s \notin allocated /\ allocated' = allocated \cup {s}
        /\ owned' = [owned EXCEPT ![t][s] = 1]
        /\ indices' = [indices EXCEPT ![s] = NoArray] /\ asked' = [asked EXCEPT ![s] = {}]
    BY <1>1 DEF g_index_set_alloc
  <2>2. Owns' = [Owns EXCEPT ![t] = @ \cup {s}]
    <3>1. \A u \in Threads, r \in Sets :
            owned'[u][r] > 0 <=> owned[u][r] > 0 \/ (u = t /\ r = s)
      BY <1>0, <2>1
    <3> QED  BY <3>1 DEF Owns
  <2>3. Shown' = [Shown EXCEPT ![s] = {}]
    <3>1. ~Initialised(s)' /\ \A r \in Sets \ {s} : indices'[r] = indices[r] /\ asked'[r] = asked[r]
      BY <1>0, <2>1 DEF Initialised
    <3>2. Shown'[s] = {} /\ \A r \in Sets \ {s} : Shown'[r] = Shown[r]
      BY <3>1 DEF ShownIsAsked, Initialised
    <3> QED  BY <3>2 DEF Shown
  <2> QED  BY <2>1, <2>2, <2>3 DEF Abstract!Create
<1>2. ASSUME NEW u \in Threads, g_index_set_ref(t, u, s)
      PROVE  Abstract!Share(t, u, s)
  <2>1. /\ owned[t][s] > 0 /\ owned' = [owned EXCEPT ![u][s] = @ + 1]
        /\ UNCHANGED <<allocated, indices, asked>>
    BY <1>2 DEF g_index_set_ref, Contents
  <2>2. owned[u][s] + 1 > 0
    BY <1>0
  <2>3. \A v \in Threads, r \in Sets :
          owned'[v][r] > 0 <=> owned[v][r] > 0 \/ (v = u /\ r = s)
    BY <1>0, <2>1, <2>2
  <2>4. Owns' = [Owns EXCEPT ![u] = @ \cup {s}] /\ s \in Owns[t]
    BY <2>1, <2>3 DEF Owns
  <2> QED  BY <2>1, <2>4 DEF Abstract!Share, Shown, g_index_set_contains_index, Initialised, Array
<1>3. ASSUME g_index_set_unref(t, s)
      PROVE  Abstract!GiveUp(t, s) \/ UNCHANGED <<allocated, Owns, Shown>>
  <2>1. /\ owned[t][s] > 0 /\ owned' = [owned EXCEPT ![t][s] = @ - 1]
        /\ UNCHANGED <<allocated, indices, asked>>
    BY <1>3 DEF g_index_set_unref, Contents
  <2>2. s \in Owns[t] /\ Shown' = Shown
    BY <2>1 DEF Owns, Shown, g_index_set_contains_index, Initialised, Array
  <2>3. \A v \in Threads, r \in Sets :
          owned'[v][r] = IF v = t /\ r = s THEN owned[t][s] - 1 ELSE owned[v][r]
    BY <1>0, <2>1
  <2>4. CASE owned[t][s] - 1 > 0
    <3>1. \A v \in Threads, r \in Sets : owned'[v][r] > 0 <=> owned[v][r] > 0
      BY <1>0, <2>1, <2>3, <2>4
    <3>2. Owns' = Owns
      BY <3>1 DEF Owns
    <3> QED  BY <2>1, <2>2, <3>2
  <2>5. CASE ~(owned[t][s] - 1 > 0)
    <3>1. \A v \in Threads, r \in Sets :
            owned'[v][r] > 0 <=> owned[v][r] > 0 /\ ~(v = t /\ r = s)
      BY <1>0, <2>1, <2>3, <2>5
    <3>2. Owns' = [Owns EXCEPT ![t] = @ \ {s}]
      BY <3>1 DEF Owns
    <3> QED  BY <2>1, <2>2, <3>2 DEF Abstract!GiveUp
  <2> QED  BY <2>4, <2>5
<1>4. ASSUME Free(t, s)
      PROVE  Abstract!Reclaim(s)
  <2>1. /\ s \in freeing[t] /\ allocated' = allocated \ {s}
        /\ indices' = [indices EXCEPT ![s] = NoArray] /\ UNCHANGED <<owned, asked>>
    BY <1>4 DEF Free
  <2>2. s \in allocated /\ \A u \in Threads : s \notin Owns[u]
    BY <2>1 DEF IInv, FreeingLast, Owns
  <2>3. Shown' = [Shown EXCEPT ![s] = {}]
    <3>1. ~Initialised(s)' /\ \A r \in Sets \ {s} : indices'[r] = indices[r] /\ asked'[r] = asked[r]
      BY <1>0, <2>1 DEF Initialised
    <3>2. Shown'[s] = {} /\ \A r \in Sets \ {s} : Shown'[r] = Shown[r]
      BY <3>1 DEF ShownIsAsked, Initialised
    <3> QED  BY <3>2 DEF Shown
  <2> QED  BY <2>1, <2>2, <2>3 DEF Abstract!Reclaim, Owns
<1> QED  BY <1>1, <1>2, <1>3, <1>4

LEMMA ImplementsNext ==
  ASSUME IInv, ShownIsAsked, ShownIsAsked', [Next]_vars
  PROVE  [Abstract!Next]_<<allocated, Owns, Shown>>
<1>1. CASE UNCHANGED vars
  BY <1>1 DEF vars, Owns, Shown, g_index_set_contains_index, Initialised, Array
<1>2. ASSUME NEW t \in Threads, NEW s \in Sets, Free(t, s) \/ Call(t, s)
      PROVE  [Abstract!Next]_<<allocated, Owns, Shown>>
  BY <1>2, ReferencesMove, InitialisersFill DEF Call, Abstract!Next
<1> QED  BY <1>1, <1>2 DEF Next

\* To threads that ask for ranges from zero, in fresh sets, index sets are
\* SharedSets: for any number of threads, references and sets, and any width of
\* guint.
THEOREM SetsImplementSharedSets == PlainClients => (Spec => SetsAreShared)
<1> SUFFICES ASSUME PlainClients PROVE Spec => SetsAreShared
  OBVIOUS
<1>1. Init => Abstract!Init
  BY DEF Init, Abstract!Init, Owns, Shown, g_index_set_contains_index, Initialised
<1>2. IInv /\ HoldsWhatWasAsked => ShownIsAsked
  BY ShownFollows DEF IInv
<1>3. IInv /\ ShownIsAsked /\ ShownIsAsked' /\ [Next]_vars
        => [Abstract!Next]_Abstract!abstractVars
  BY ImplementsNext DEF Abstract!abstractVars
<1>4. Spec => []HoldsWhatWasAsked
  BY SetsHoldWhatWasAsked
<1> QED  BY <1>1, <1>2, <1>3, <1>4, InvariantHolds, PTL
         DEF Spec, SetsAreShared, Abstract!Spec
=============================================================================
