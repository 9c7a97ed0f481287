------------------------- MODULE SimpleModelProofs -------------------------
(***************************************************************************)
(* Proofs about SimpleModel, for any views, texts, arrays and bounds,        *)
(* wherever handlers call the model and views are connected.  The first part *)
(* is about the counts and the pointers (UsableInv), the second about what    *)
(* the views know that no such call has misled (IInv).                       *)
(***************************************************************************)
EXTENDS SimpleModel, SequenceTheorems, WellFoundedInduction, TLAPS

-----------------------------------------------------------------------------
(* Lemmas about sequences.                                                 *)

\* A nonempty set of natural numbers has a least element.
LEMMA LeastNatural ==
  ASSUME NEW T \in SUBSET Nat, T # {}
  PROVE  Min(T) \in T /\ \A y \in T : Min(T) <= y
<1>1. PICK x \in T : \A y \in T : ~ (<<y, x>> \in OpToRel(<, Nat))
  BY WFMin, NatLessThanWellFounded
<1>2. ASSUME NEW y \in T
      PROVE  x <= y
  <2>1. SUFFICES ASSUME y < x PROVE FALSE
    OBVIOUS
  <2> DEFINE p == <<y, x>>
  <2>2. p \in Nat \X Nat /\ p[1] < p[2]
    BY <2>1
  <2>3. p \in OpToRel(<, Nat)
    BY <2>2 DEF OpToRel
  <2> QED  BY <1>1, <2>3
<1> QED  BY <1>2 DEF Min

\* What RemoveAt returns.
LEMMA RemoveAtProperties ==
  ASSUME NEW S, NEW s \in Seq(S), NEW i \in 1..Len(s)
  PROVE  /\ RemoveAt(s, i) \in Seq(S)
         /\ Len(RemoveAt(s, i)) = Len(s) - 1
         /\ \A j \in 1..(Len(s) - 1) :
              RemoveAt(s, i)[j] = IF j < i THEN s[j] ELSE s[j + 1]
<1> DEFINE l == SubSeq(s, 1, i - 1)
           r == SubSeq(s, i + 1, Len(s))
<1>1. Len(s) \in Nat /\ \A j \in 1..Len(s) : s[j] \in S
  OBVIOUS
<1>2. /\ l \in Seq(S) /\ Len(l) = i - 1
      /\ \A j \in 1..(i - 1) : l[j] = s[j]
  BY <1>1, SubSeqProperties
<1>3. /\ r \in Seq(S) /\ Len(r) = Len(s) - i
      /\ \A j \in 1..(Len(s) - i) : r[j] = s[i + j]
  BY <1>1, SubSeqProperties
<1>4. RemoveAt(s, i) = l \o r
  BY DEF RemoveAt
<1> HIDE DEF l, r
<1>5. /\ l \o r \in Seq(S) /\ Len(l \o r) = Len(s) - 1
      /\ \A j \in 1..(Len(s) - 1) : (l \o r)[j] = IF j <= i - 1 THEN l[j] ELSE r[j - (i - 1)]
  <2>1. /\ l \o r \in Seq(S) /\ Len(l \o r) = Len(l) + Len(r)
        /\ \A j \in 1..Len(l) + Len(r) :
             (l \o r)[j] = IF j <= Len(l) THEN l[j] ELSE r[j - Len(l)]
    BY <1>2, <1>3, ConcatProperties
  <2> QED  BY <1>1, <1>2, <1>3, <2>1
<1>6. ASSUME NEW j \in 1..(Len(s) - 1)
      PROVE  (l \o r)[j] = IF j < i THEN s[j] ELSE s[j + 1]
  <2>1. CASE j < i
    BY <1>1, <1>2, <1>5, <2>1
  <2>2. CASE ~(j < i)
    <3>1. j - (i - 1) \in 1..(Len(s) - i) /\ i + (j - (i - 1)) = j + 1
      BY <1>1, <2>2
    <3> QED  BY <1>1, <1>3, <1>5, <2>2, <3>1
  <2> QED  BY <2>1, <2>2
<1> QED  BY <1>4, <1>5, <1>6

LEMMA RemoveFirstTyped ==
  ASSUME NEW S, NEW s \in Seq(S), NEW x
  PROVE  RemoveFirst(s, x) \in Seq(S)
<1> DEFINE I == {i \in 1..Len(s) : s[i] = x}
<1>1. Len(s) \in Nat
  OBVIOUS
<1>2. CASE ~\E i \in 1..Len(s) : s[i] = x
  BY <1>2 DEF RemoveFirst
<1>3. CASE \E i \in 1..Len(s) : s[i] = x
  <2>0. I \in SUBSET Nat /\ I # {}
    BY <1>1, <1>3
  <2>1. Min(I) \in 1..Len(s)
    BY <2>0, LeastNatural
  <2>2. RemoveFirst(s, x) = RemoveAt(s, Min(I))
    BY <1>3, <2>0 DEF RemoveFirst, SelectInSeq
  <2> HIDE DEF I
  <2> QED  BY <2>1, <2>2, RemoveAtProperties
<1> QED  BY <1>2, <1>3

LEMMA InsertAtTyped ==
  ASSUME NEW S, NEW s \in Seq(S), NEW i \in 1..(Len(s) + 1), NEW x \in S
  PROVE  InsertAt(s, i, x) \in Seq(S)
<1>1. Len(s) \in Nat /\ \A j \in 1..Len(s) : s[j] \in S
  OBVIOUS
<1>2. SubSeq(s, 1, i - 1) \in Seq(S) /\ SubSeq(s, i, Len(s)) \in Seq(S)
  BY <1>1, SubSeqProperties
<1> QED  BY <1>2 DEF InsertAt

\* Putting the last element of a sequence back gives the sequence.
LEMMA InsertLast ==
  ASSUME NEW S, NEW s \in Seq(S), s # <<>>
  PROVE  InsertAt(SubSeq(s, 1, Len(s) - 1), Len(s), s[Len(s)]) = s
<1> DEFINE f == SubSeq(s, 1, Len(s) - 1)
<1>1. Len(s) \in Nat \ {0} /\ s[Len(s)] \in S /\ \A j \in 1..Len(s) : s[j] \in S
  OBVIOUS
<1>2. f \in Seq(S) /\ Len(f) = Len(s) - 1 /\ \A j \in 1..(Len(s) - 1) : f[j] = s[j]
  BY <1>1
<1> HIDE DEF f
<1>3. SubSeq(f, 1, Len(s) - 1) = f
  BY <1>2, SubSeqFull
<1>4. SubSeq(f, Len(s), Len(f)) = <<>>
  BY <1>1, <1>2, SubSeqEmpty
<1>5. InsertAt(f, Len(s), s[Len(s)]) = f \o <<s[Len(s)]>> \o <<>>
  BY <1>3, <1>4 DEF InsertAt
<1>6. f \o <<s[Len(s)]>> \in Seq(S)
  BY <1>1, <1>2
<1>7. f \o <<s[Len(s)]>> \o <<>> = f \o <<s[Len(s)]>>
  BY <1>6, ConcatEmptySeq
<1>8. f \o <<s[Len(s)]>> = s
  BY <1>1, <1>2
<1> QED  BY <1>5, <1>7, <1>8 DEF f

\* The head of a sequence without repetitions is not in its tail.
LEMMA TailWithoutHead ==
  ASSUME NEW S, NEW s \in Seq(S), s # <<>>, IsInjective(s)
  PROVE  /\ Head(s) \in Range(s) /\ Head(s) \in S
         /\ Tail(s) \in Seq(S) /\ IsInjective(Tail(s))
         /\ Range(Tail(s)) = Range(s) \ {Head(s)}
<1>1. /\ Len(s) \in Nat \ {0} /\ DOMAIN s = 1..Len(s) /\ Head(s) = s[1]
      /\ Tail(s) \in Seq(S) /\ DOMAIN Tail(s) = 1..(Len(s) - 1)
      /\ \A i \in 1..(Len(s) - 1) : Tail(s)[i] = s[i + 1]
      /\ Head(s) \in S
  BY HeadTailProperties
<1>2. IsInjective(Tail(s))
  BY <1>1 DEF IsInjective
<1>3. Range(Tail(s)) \subseteq Range(s) \ {Head(s)}
  BY <1>1 DEF Range, IsInjective
<1>4. ASSUME NEW x \in Range(s), x # Head(s)
      PROVE  x \in Range(Tail(s))
  <2>1. PICK i \in 1..Len(s) : x = s[i]
    BY <1>1 DEF Range
  <2>2. i - 1 \in 1..(Len(s) - 1) /\ Tail(s)[i - 1] = x
    BY <1>1, <1>4, <2>1
  <2> QED  BY <1>1, <2>2 DEF Range
<1>5. Head(s) \in Range(s)
  BY <1>1 DEF Range
<1> QED  BY <1>1, <1>2, <1>3, <1>4, <1>5

\* Taking a view out of a sequence without repetitions takes it out for good.
LEMMA RemoveFirstProperties ==
  ASSUME NEW S, NEW s \in Seq(S), IsInjective(s), NEW v
  PROVE  /\ RemoveFirst(s, v) \in Seq(S) /\ IsInjective(RemoveFirst(s, v))
         /\ Range(RemoveFirst(s, v)) = Range(s) \ {v}
         /\ s = <<>> => RemoveFirst(s, v) = <<>>
<1>1. Len(s) \in Nat /\ DOMAIN s = 1..Len(s) /\ (s = <<>> => Len(s) = 0)
  OBVIOUS
<1>2. CASE ~\E i \in 1..Len(s) : s[i] = v
  BY <1>1, <1>2 DEF RemoveFirst, Range
<1>3. CASE \E i \in 1..Len(s) : s[i] = v
  <2>1. PICK i \in 1..Len(s) : s[i] = v
    BY <1>3
  <2>2. {j \in 1..Len(s) : s[j] = v} = {i}
    BY <1>1, <2>1 DEF IsInjective
  <2>3. Min({i}) = i
    BY <1>1 DEF Min
  <2>4. RemoveFirst(s, v) = RemoveAt(s, i)
    BY <1>3, <2>2, <2>3 DEF RemoveFirst, SelectInSeq
  <2> DEFINE t == RemoveAt(s, i)
  <2>5. /\ t \in Seq(S) /\ Len(t) = Len(s) - 1
        /\ \A j \in 1..(Len(s) - 1) : t[j] = IF j < i THEN s[j] ELSE s[j + 1]
    BY RemoveAtProperties
  <2> HIDE DEF t
  <2>6. DOMAIN t = 1..(Len(s) - 1)
    BY <2>5
  <2>7. IsInjective(t)
    <3> SUFFICES ASSUME NEW a \in 1..(Len(s) - 1), NEW b \in 1..(Len(s) - 1), t[a] = t[b]
                 PROVE  a = b
      BY <2>6 DEF IsInjective
    <3> DEFINE at(j) == IF j < i THEN j ELSE j + 1
    <3>1. at(a) \in 1..Len(s) /\ at(b) \in 1..Len(s) /\ s[at(a)] = s[at(b)]
      BY <1>1, <2>5
    <3>2. at(a) = at(b)
      BY <1>1, <3>1 DEF IsInjective
    <3> QED  BY <1>1, <3>2
  <2>8. ASSUME NEW x \in Range(t)
        PROVE  x \in Range(s) \ {v}
    <3>1. PICK j \in 1..(Len(s) - 1) : x = t[j]
      BY <2>6 DEF Range
    <3>2. PICK k \in 1..Len(s) : x = s[k] /\ k # i
      BY <1>1, <2>5, <3>1
    <3> QED  BY <1>1, <2>1, <3>2 DEF Range, IsInjective
  <2>9. ASSUME NEW x \in Range(s), x # v
        PROVE  x \in Range(t)
    <3>1. PICK k \in 1..Len(s) : x = s[k]
      BY <1>1 DEF Range
    <3>2. PICK j \in 1..(Len(s) - 1) : k = IF j < i THEN j ELSE j + 1
      <4>1. CASE k < i
        BY <1>1, <4>1
      <4>2. CASE k > i
        <5>1. k - 1 \in 1..(Len(s) - 1) /\ ~(k - 1 < i) /\ k = (k - 1) + 1
          BY <1>1, <4>2
        <5> QED  BY <5>1
      <4> QED  BY <1>1, <2>1, <2>9, <3>1, <4>1, <4>2
    <3>3. t[j] = x
      BY <2>5, <3>1, <3>2
    <3> QED  BY <2>6, <3>3 DEF Range
  <2>10. s # <<>>
    BY <1>1, <2>1
  <2> QED  BY <2>4, <2>5, <2>7, <2>8, <2>9, <2>10 DEF t
<1> QED  BY <1>2, <1>3

-----------------------------------------------------------------------------
(* Lemmas about the stack.                                                 *)

LEMMA Pushed ==
  ASSUME NEW s \in Seq(Frames), NEW f \in Frames
  PROVE  /\ Append(s, f) \in Seq(Frames) /\ Append(s, f) # <<>>
         /\ Len(s) \in Nat /\ Len(Append(s, f)) = Len(s) + 1
         /\ \A i \in 1..Len(s) : Append(s, f)[i] = s[i]
         /\ Append(s, f)[Len(s) + 1] = f
  OBVIOUS

LEMMA Popped ==
  ASSUME NEW s \in Seq(Frames), s # <<>>
  PROVE  /\ SubSeq(s, 1, Len(s) - 1) \in Seq(Frames)
         /\ Len(s) \in Nat \ {0} /\ s[Len(s)] \in Frames
         /\ Len(SubSeq(s, 1, Len(s) - 1)) = Len(s) - 1
         /\ \A i \in 1..(Len(s) - 1) : SubSeq(s, 1, Len(s) - 1)[i] = s[i]
<1>1. /\ Len(s) \in Nat \ {0} /\ s[Len(s)] \in Frames
      /\ \A i \in 1..(Len(s) - 1) : s[i] \in Frames
  OBVIOUS
<1>2. /\ SubSeq(s, 1, Len(s) - 1) \in Seq(Frames)
      /\ Len(SubSeq(s, 1, Len(s) - 1)) = Len(s) - 1
      /\ \A i \in 1..(Len(s) - 1) : SubSeq(s, 1, Len(s) - 1)[i] = s[i]
  <2> DEFINE n == Len(s) - 1
  <2>1. n \in Nat /\ \A i \in 1..n : s[i] \in Frames
    BY <1>1
  <2> HIDE DEF n
  <2>2. /\ SubSeq(s, 1, n) \in Seq(Frames)
        /\ Len(SubSeq(s, 1, n)) = n
        /\ \A i \in 1..n : SubSeq(s, 1, n)[i] = s[i]
    BY <2>1, SubSeqProperties
  <2> QED  BY <2>2 DEF n
<1> QED  BY <1>1, <1>2

-----------------------------------------------------------------------------
(* The inductive invariant.                                                *)

items == texts[modelArray]

\* Each emission in progress stands for one reference on the controller: the
\* events that removals leave behind make up for the references they take.
CountsMatch ==
  /\ events >= Len(stack)
  /\ alive => ctlRefs = Len(stack) + 1
  /\ ~alive => stack = <<>> /\ handlers = <<>> /\ seen = [v \in Views |-> <<>>]

\* The model and its controller have one array, which is allocated.
OneArray == alive => modelArray = ctlArray /\ arrayRefs[modelArray] > 0

\* What holds for every view, misled or not.
UsableInv == TypeOK /\ CountsMatch /\ OneArray

\* The views an emission has still to call are connected, and each waits once.
TodoConnected ==
  \A i \in 1..Len(stack) :
    IsInjective(stack[i].todo) /\ Range(stack[i].todo) \subseteq Range(handlers)

\* The innermost call was made from a handler of those below it: it misled the
\* views that waited there, and all of them if it interrupted a removal.
OnlyTopEmits ==
  \A i \in 1..Len(stack) - 1 :
    /\ Range(stack[i].todo) \subseteq misled
    /\ stack[i].action = "REMOVE" => Range(handlers) \subseteq misled

\* The views whose handler is still to be called for the last change.
Waits(v) == stack # <<>> /\ v \in Range(Top.todo)

\* The index of its event is right.
TopFits ==
  /\ Top.action = "ADD" => items # <<>> /\ Top.index = Len(items) - 1
  /\ Top.action = "REMOVE" => Top.index < Len(items)
  /\ Top.action = "CLEAR" => items = <<>>

\* What these views know: the contents before the change, of which a CLEAR
\* keeps nothing to compare with.
Before == IF Top.action = "ADD" THEN SubSeq(items, 1, Len(items) - 1) ELSE items

Synced ==
  \A v \in Watching :
    IF Waits(v) THEN TopFits /\ (Top.action # "CLEAR" => seen[v] = Before)
                ELSE seen[v] = Contents

IInv == UsableInv /\ TodoConnected /\ OnlyTopEmits /\ Synced

-----------------------------------------------------------------------------
(* Consequences of the invariant.                                          *)

LEMMA Types ==
  ASSUME TypeOK
  PROVE  /\ stack \in Seq(Frames) /\ Len(stack) \in Nat
         /\ (stack = <<>> <=> Len(stack) = 0)
         /\ items \in Seq(Texts) /\ Len(items) \in Nat
         /\ (stack # <<>> => Top \in Frames /\ Top = stack[Len(stack)])
<1>1. stack \in Seq(Frames) /\ items \in Seq(Texts)
  BY DEF TypeOK, items
<1> QED  BY <1>1 DEF Top

\* The views an emission has still to call are views.
LEMMA PendingTyped ==
  ASSUME TypeOK
  PROVE  Pending \subseteq Views
<1> SUFFICES ASSUME NEW i \in DOMAIN stack, NEW v \in Range(stack[i].todo)
             PROVE  v \in Views
  BY DEF Pending
<1>1. stack \in Seq(Frames) /\ stack[i] \in Frames
  BY DEF TypeOK
<1>2. stack[i].todo \in Seq(Views)
  BY <1>1 DEF Frames
<1> QED  BY <1>2 DEF Range

\* The search finds a position the model has.
LEMMA PositionFound ==
  ASSUME TypeOK, NEW text \in Range(items)
  PROVE  FirstPosition(text) \in Nat /\ FirstPosition(text) < Len(items)
<1> DEFINE I == {i \in 1..Len(items) : items[i] = text}
<1>1. Len(items) \in Nat /\ DOMAIN items = 1..Len(items)
  BY Types
<1>2. I # {} /\ I \subseteq Nat
  BY <1>1 DEF Range
<1>3. Min(I) \in I
  BY <1>2, LeastNatural
<1>4. FirstPosition(text) = Min(I) - 1
  BY <1>2 DEF FirstPosition, SelectInSeq, items
<1> QED  BY <1>1, <1>3, <1>4

\* Removing an index the model has.
LEMMA RemoveIndexTyped ==
  ASSUME NEW S, NEW s \in Seq(S), NEW pos \in Nat
  PROVE  RemoveIndex(s, pos) \in Seq(S)
<1>1. CASE pos < Len(s)
  <2>1. pos + 1 \in 1..Len(s)
    BY <1>1
  <2> QED  BY <1>1, <2>1, RemoveAtProperties DEF RemoveIndex
<1>2. CASE ~(pos < Len(s))
  BY <1>2 DEF RemoveIndex
<1> QED  BY <1>1, <1>2

-----------------------------------------------------------------------------
(* What the calls of the model have in common.                             *)

Emission(action, index) ==
  [action |-> action, index |-> index, view |-> NULL, todo |-> handlers]

\* A change that is being told stands for one more reference on the controller.
LEMMA EmissionBegins ==
  ASSUME TypeOK, CountsMatch, MayCall,
         NEW action \in {"ADD", "REMOVE", "CLEAR"}, NEW index \in Nat,
         CreateAndEmit(action, index)
  PROVE  /\ stack' \in Seq(Frames) /\ stack' # <<>> /\ Top' = Emission(action, index)
         /\ Len(stack') = Len(stack) + 1 /\ Len(stack) \in Nat
         /\ \A i \in 1..Len(stack) : stack'[i] = stack[i]
         /\ events' \in Nat /\ ctlRefs' \in Nat /\ CountsMatch' /\ misled' \subseteq Views
         /\ UNCHANGED <<alive, handlers, seen>>
<1>1. /\ stack \in Seq(Frames) /\ handlers \in Seq(Views)
      /\ events \in Nat /\ ctlRefs \in Nat /\ alive
  BY DEF TypeOK, MayCall
<1>2. /\ stack' = Append(stack, Emission(action, index)) /\ events' = events + 1
      /\ ctlRefs' = ctlRefs + 1 /\ UNCHANGED <<alive, handlers, seen>>
  BY DEF CreateAndEmit, Emission
<1>3. Emission(action, index) \in Frames
  BY <1>1 DEF Frames, Emission
<1>4. /\ stack' \in Seq(Frames) /\ stack' # <<>> /\ Len(stack') = Len(stack) + 1
      /\ Len(stack) \in Nat
      /\ \A i \in 1..Len(stack) : stack'[i] = stack[i]
      /\ stack'[Len(stack) + 1] = Emission(action, index)
  BY <1>1, <1>2, <1>3, Pushed
<1>5. Top' = Emission(action, index)
  BY <1>4 DEF Top
<1>6. CountsMatch'
  BY <1>1, <1>2, <1>4 DEF CountsMatch
<1>7. misled' \subseteq Views
  <2>1. misled \subseteq Views /\ Pending \subseteq Views /\ Range(handlers) \subseteq Views
    BY <1>1, PendingTyped DEF TypeOK, Range
  <2> QED  BY <2>1 DEF CreateAndEmit
<1> QED  BY <1>1, <1>2, <1>4, <1>5, <1>6, <1>7

\* A call that ends gives up the reference its emission stood for.
LEMMA EmissionEnds ==
  ASSUME TypeOK, CountsMatch, NEW action, Finish(action),
         ctlRefs' = ctlRefs - 1,
         \/ events' = events - 1
         \/ events' = events
  PROVE  /\ stack # <<>> /\ Top.action = action /\ Top.todo = <<>> /\ alive
         /\ stack' \in Seq(Frames) /\ Len(stack) \in Nat \ {0}
         /\ Len(stack') = Len(stack) - 1
         /\ \A i \in 1..(Len(stack) - 1) : stack'[i] = stack[i]
         /\ events' \in Nat /\ ctlRefs' \in Nat /\ CountsMatch'
         /\ UNCHANGED <<alive, storage, handlers, seen, misled>>
<1>1. /\ stack \in Seq(Frames) /\ stack # <<>> /\ stack' = Callers
      /\ Top.todo = <<>> /\ Top.action = action /\ events \in Nat /\ ctlRefs \in Nat
      /\ UNCHANGED <<alive, storage, handlers, seen, misled>>
  BY DEF TypeOK, Finish
<1>2. /\ stack' \in Seq(Frames) /\ Len(stack) \in Nat \ {0} /\ Len(stack') = Len(stack) - 1
      /\ \A i \in 1..(Len(stack) - 1) : stack'[i] = stack[i]
  BY <1>1, Popped DEF Callers
<1>3. alive
  BY <1>1 DEF CountsMatch
<1>4. events' \in Nat /\ ctlRefs' \in Nat /\ CountsMatch'
  BY <1>1, <1>2, <1>3 DEF CountsMatch
<1> QED  BY <1>1, <1>2, <1>3, <1>4

-----------------------------------------------------------------------------
(* The counts and the pointers.                                            *)

LEMMA InitUsable ==
  ASSUME Init
  PROVE  UsableInv
<1>1. TypeOK
  <2>1. <<>> \in Seq(Texts) /\ <<>> \in Seq(Views) /\ <<>> \in Seq(Texts \cup {NULL})
        /\ <<>> \in Seq(Frames)
    BY EmptySeq
  <2>2. IsInjective(<<>>)
    BY DEF IsInjective
  <2> QED  BY <2>1, <2>2 DEF Init, TypeOK
<1>2. Len(stack) = 0 /\ stack = <<>> /\ handlers = <<>>
  BY EmptySeq DEF Init
<1> QED  BY <1>1, <1>2 DEF Init, CountsMatch, OneArray, UsableInv

\* A handler, of whatever the model holds by now.
LEMMA PrintedTyped ==
  ASSUME TypeOK, NEW log \in Seq(Texts \cup {NULL}), NEW action, NEW index \in Nat
  PROVE  Printed(log, action, index) \in Seq(Texts \cup {NULL})
<1>1. Len(log) \in Nat /\ items \in Seq(Texts) /\ Len(items) \in Nat
      /\ <<>> \in Seq(Texts \cup {NULL})
  BY Types, EmptySeq
<1>2. my_simple_model_get_text(index) \in Texts \cup {NULL}
  BY <1>1 DEF my_simple_model_get_text, HasText, my_simple_model_get_size, items
<1>3. index <= Len(log) =>
        InsertAt(log, index + 1, my_simple_model_get_text(index)) \in Seq(Texts \cup {NULL})
  <2> SUFFICES ASSUME index <= Len(log)
               PROVE  InsertAt(log, index + 1, my_simple_model_get_text(index))
                        \in Seq(Texts \cup {NULL})
    OBVIOUS
  <2>1. index + 1 \in 1..(Len(log) + 1)
    BY <1>1
  <2> QED  BY <1>2, <2>1, InsertAtTyped
<1>4. index < Len(log) => RemoveAt(log, index + 1) \in Seq(Texts \cup {NULL})
  <2> SUFFICES ASSUME index < Len(log)
               PROVE  RemoveAt(log, index + 1) \in Seq(Texts \cup {NULL})
    OBVIOUS
  <2>1. index + 1 \in 1..Len(log)
    BY <1>1
  <2> QED  BY <2>1, RemoveAtProperties
<1> QED  BY <1>1, <1>3, <1>4 DEF Printed

\* Whatever handlers call, every step keeps the counts and the pointers.
LEMMA UsableKept ==
  ASSUME UsableInv, [Next]_vars
  PROVE  UsableInv'
<1> USE DEF UsableInv
<1>1. /\ stack \in Seq(Frames) /\ items \in Seq(Texts) /\ Len(items) \in Nat
      /\ modelArray \in ArrayAddresses /\ texts \in [ArrayAddresses -> Seq(Texts)]
      /\ arrayRefs \in [ArrayAddresses -> Nat]
      /\ seen \in [Views -> Seq(Texts \cup {NULL})]
      /\ handlers \in Seq(Views)
  BY Types DEF TypeOK
<1>2. ASSUME NEW text \in Texts, my_simple_model_add_text(text)
      PROVE  UsableInv'
  <2>1. /\ MayCall /\ CreateAndEmit("ADD", Len(items)) /\ UNCHANGED storage
        /\ texts' = [texts EXCEPT ![modelArray] = Append(@, text)]
    BY <1>2 DEF my_simple_model_add_text, my_simple_model_get_size, items
  <2>2. /\ stack' \in Seq(Frames) /\ events' \in Nat /\ ctlRefs' \in Nat /\ CountsMatch'
        /\ misled' \subseteq Views /\ UNCHANGED <<alive, handlers, seen>>
    BY <1>1, <2>1, EmissionBegins
  <2>3. Append(items, text) \in Seq(Texts)
    BY <1>1
  <2>4. texts' \in [ArrayAddresses -> Seq(Texts)]
    BY <1>1, <2>1, <2>3 DEF items
  <2> QED  BY <2>1, <2>2, <2>4 DEF TypeOK, OneArray, storage
<1>3. ASSUME NEW text \in Texts, my_simple_model_remove_text(text)
      PROVE  UsableInv'
  <2>1. /\ MayCall /\ CreateAndEmit("REMOVE", FirstPosition(text))
        /\ UNCHANGED <<storage, texts>> /\ text \in Range(items)
    BY <1>3 DEF my_simple_model_remove_text, items
  <2>2. FirstPosition(text) \in Nat
    BY <2>1, PositionFound
  <2>3. /\ stack' \in Seq(Frames) /\ events' \in Nat /\ ctlRefs' \in Nat /\ CountsMatch'
        /\ misled' \subseteq Views /\ UNCHANGED <<alive, handlers, seen>>
    BY <2>1, <2>2, EmissionBegins
  <2> QED  BY <2>1, <2>3 DEF TypeOK, OneArray, storage
<1>4. ASSUME my_simple_model_clear
      PROVE  UsableInv'
  <2>1. MayCall /\ CreateAndEmit("CLEAR", 0)
    BY <1>4 DEF my_simple_model_clear
  <2>2. PICK a \in ArrayAddresses :
          /\ arrayRefs[a] = 0 /\ ctlArray' = a /\ modelArray' = a
          /\ arrayRefs' = [arrayRefs EXCEPT ![a] = 2, ![ctlArray] = @ - 1]
          /\ texts' = [texts EXCEPT ![a] = <<>>, ![modelArray] = <<>>]
    BY <1>4 DEF my_simple_model_clear, SetArray
  <2>3. /\ stack' \in Seq(Frames) /\ events' \in Nat /\ ctlRefs' \in Nat /\ CountsMatch'
        /\ misled' \subseteq Views /\ UNCHANGED <<alive, handlers, seen>>
    BY <2>1, EmissionBegins
  <2>4. ctlArray \in ArrayAddresses /\ arrayRefs[ctlArray] > 0 /\ a # ctlArray
        /\ arrayRefs \in [ArrayAddresses -> Nat]
    BY <2>1, <2>2 DEF MayCall, OneArray, TypeOK
  <2>5. arrayRefs' \in [ArrayAddresses -> Nat] /\ arrayRefs'[a] = 2
    BY <2>2, <2>4
  <2>6. texts' \in [ArrayAddresses -> Seq(Texts)]
    BY <1>1, <2>2, EmptySeq
  <2>7. TypeOK'
    BY <2>2, <2>3, <2>5, <2>6 DEF TypeOK
  <2> QED  BY <2>2, <2>3, <2>5, <2>7 DEF OneArray
<1>5. ASSUME my_simple_model_dispose
      PROVE  UsableInv'
  <2>1. stack = <<>> /\ alive /\ ctlRefs = 1 /\ ctlArray \in ArrayAddresses
        /\ arrayRefs[ctlArray] > 0 /\ Len(stack) = 0
    BY <1>5, EmptySeq DEF my_simple_model_dispose, CountsMatch, OneArray, TypeOK
  <2>2. /\ alive' = FALSE /\ ctlRefs' = 0 /\ stack' = <<>> /\ handlers' = <<>>
        /\ arrayRefs' = [arrayRefs EXCEPT ![ctlArray] = @ - 1]
        /\ seen' = [v \in Views |-> <<>>]
        /\ UNCHANGED <<modelArray, ctlArray, texts, events, misled>>
    BY <1>5, <2>1 DEF my_simple_model_dispose
  <2>3. <<>> \in Seq(Views) /\ <<>> \in Seq(Texts \cup {NULL}) /\ <<>> \in Seq(Frames)
        /\ IsInjective(<<>>)
    BY EmptySeq DEF IsInjective
  <2>4. arrayRefs' \in [ArrayAddresses -> Nat]
    BY <1>1, <2>1, <2>2
  <2>5. TypeOK'
    BY <2>2, <2>3, <2>4 DEF TypeOK
  <2> QED  BY <2>1, <2>2, <2>5 DEF CountsMatch, OneArray
<1>6. ASSUME NEW v \in Views, Connect(v)
      PROVE  UsableInv'
  <2>1. /\ alive /\ v \notin Range(handlers) /\ handlers' = Append(handlers, v)
        /\ seen' = [seen EXCEPT ![v] = items]
        /\ misled' \subseteq misled \cup {v}
        /\ UNCHANGED <<alive, storage, counts, texts, stack>>
    BY <1>6 DEF Connect, items, my_simple_model_get_items
  <2>2. handlers' \in Seq(Views) /\ IsInjective(handlers')
    BY <1>1, <2>1 DEF TypeOK, IsInjective, Range
  <2>3. items \in Seq(Texts \cup {NULL})
    BY <1>1, SeqMonotonic
  <2>4. seen' \in [Views -> Seq(Texts \cup {NULL})]
    BY <1>1, <2>1, <2>3
  <2> QED  BY <2>1, <2>2, <2>4 DEF TypeOK, CountsMatch, OneArray, storage, counts
<1>7. ASSUME NEW v \in Views, Disconnect(v)
      PROVE  UsableInv'
  <2>1. /\ alive /\ handlers' = RemoveFirst(handlers, v)
        /\ seen' = [seen EXCEPT ![v] = <<>>]
        /\ stack' = [i \in DOMAIN stack |-> [stack[i] EXCEPT !.todo = RemoveFirst(@, v)]]
        /\ misled' \subseteq misled
        /\ UNCHANGED <<alive, storage, counts, texts>>
    BY <1>7 DEF Disconnect
  <2>2. handlers' \in Seq(Views) /\ IsInjective(handlers')
    BY <1>1, <2>1, RemoveFirstProperties DEF TypeOK
  <2>3. Len(stack) \in Nat /\ DOMAIN stack = 1..Len(stack)
        /\ \A i \in 1..Len(stack) : stack[i] \in Frames
    BY <1>1
  <2>4. ASSUME NEW i \in 1..Len(stack)
        PROVE  [stack[i] EXCEPT !.todo = RemoveFirst(@, v)] \in Frames
    <3>1. stack[i] \in Frames /\ stack[i].todo \in Seq(Views)
      BY <2>3 DEF Frames
    <3>2. RemoveFirst(stack[i].todo, v) \in Seq(Views)
      BY <3>1, RemoveFirstTyped
    <3> QED  BY <3>1, <3>2 DEF Frames
  <2>5. stack' \in Seq(Frames) /\ Len(stack') = Len(stack)
    <3>1. stack' \in [1..Len(stack) -> Frames]
      BY <2>1, <2>3, <2>4
    <3> QED  BY <2>3, <3>1
  <2>6. seen' \in [Views -> Seq(Texts \cup {NULL})]
    BY <1>1, <2>1, EmptySeq
  <2> QED  BY <2>1, <2>2, <2>5, <2>6 DEF TypeOK, CountsMatch, OneArray, storage, counts
<1>8. ASSUME on_model_changed
      PROVE  UsableInv'
  <2> DEFINE v == Head(Top.todo)
             next == [Top EXCEPT !.view = v, !.todo = Tail(@)]
  <2>1. /\ stack # <<>> /\ Top.todo # <<>>
        /\ seen' = [seen EXCEPT ![v] = Printed(@, Top.action, Top.index)]
        /\ stack' = Append(Callers, next)
        /\ UNCHANGED <<alive, storage, counts, texts, handlers, misled>>
    BY <1>8 DEF on_model_changed
  <2>2. Top \in Frames /\ Top.todo \in Seq(Views) /\ Top.index \in Nat
    BY <2>1, Types DEF Frames
  <2>3. v \in Views /\ Tail(Top.todo) \in Seq(Views)
    BY <2>1, <2>2, HeadTailProperties
  <2>4. next \in Frames
    BY <2>2, <2>3 DEF Frames
  <2>5. Printed(seen[v], Top.action, Top.index) \in Seq(Texts \cup {NULL})
    BY <1>1, <2>2, <2>3, PrintedTyped
  <2>6. seen' \in [Views -> Seq(Texts \cup {NULL})]
    BY <1>1, <2>1, <2>3, <2>5
  <2> HIDE DEF next, v
  <2>7. stack' \in Seq(Frames) /\ Len(stack') = Len(stack) /\ alive
    <3>1. Callers \in Seq(Frames) /\ Len(stack) \in Nat \ {0} /\ Len(Callers) = Len(stack) - 1
      BY <1>1, <2>1, Popped DEF Callers
    <3> QED  BY <2>1, <2>4, <3>1 DEF CountsMatch
  <2> QED  BY <2>1, <2>6, <2>7 DEF TypeOK, CountsMatch, OneArray, storage, counts
<1>9. ASSUME FinishAdd \/ FinishClear \/ FinishRemove
      PROVE  UsableInv'
  <2>1. PICK action :
          /\ Finish(action) /\ ctlRefs' = ctlRefs - 1
          /\ events' = events - 1 \/ events' = events
          /\ \/ UNCHANGED texts
             \/ texts' = [texts EXCEPT ![modelArray] = RemoveIndex(@, Top.index)]
    BY <1>9 DEF FinishAdd, FinishClear, FinishRemove, UnrefEvent
  <2>2. /\ stack # <<>> /\ stack' \in Seq(Frames)
        /\ events' \in Nat /\ ctlRefs' \in Nat /\ CountsMatch'
        /\ UNCHANGED <<alive, storage, handlers, seen, misled>>
    BY <2>1, EmissionEnds
  <2>3. Top.index \in Nat
    BY <2>2, Types DEF Frames
  <2>4. RemoveIndex(items, Top.index) \in Seq(Texts)
    BY <1>1, <2>3, RemoveIndexTyped
  <2>5. texts' \in [ArrayAddresses -> Seq(Texts)]
    BY <1>1, <2>1, <2>4 DEF items
  <2> QED  BY <2>2, <2>5 DEF TypeOK, OneArray, storage
<1>10. CASE UNCHANGED vars
  BY <1>10 DEF vars, storage, counts, TypeOK, CountsMatch, OneArray
<1> QED  BY <1>2, <1>3, <1>4, <1>5, <1>6, <1>7, <1>8, <1>9, <1>10
           DEF Next, Client, Return

-----------------------------------------------------------------------------
(* What the views know.                                                    *)

\* A call that changes the model leaves the views that know the contents, and
\* these wait to be told: the others are misled by it.
LEMMA Emits ==
  ASSUME IInv, MayCall,
         NEW action \in {"ADD", "REMOVE", "CLEAR"}, NEW index \in Nat,
         CreateAndEmit(action, index)
  PROVE  /\ stack' # <<>> /\ Top' = Emission(action, index)
         /\ TodoConnected' /\ OnlyTopEmits' /\ Watching' \subseteq Watching
         /\ \A v \in Watching' : Waits(v)' /\ seen[v] = Contents /\ Contents = items
         /\ UNCHANGED <<alive, handlers, seen>>
<1> USE DEF IInv, UsableInv
<1>1. /\ stack' \in Seq(Frames) /\ stack' # <<>> /\ Top' = Emission(action, index)
      /\ Len(stack') = Len(stack) + 1 /\ Len(stack) \in Nat
      /\ \A i \in 1..Len(stack) : stack'[i] = stack[i]
      /\ UNCHANGED <<alive, handlers, seen>>
  BY EmissionBegins
<1>2. /\ alive /\ IsInjective(handlers) /\ DOMAIN stack = 1..Len(stack)
      /\ misled' = misled \cup (IF RemovalPending THEN Range(handlers) ELSE Pending)
  BY DEF MayCall, TypeOK, CreateAndEmit
<1>3. ASSUME NEW i \in 1..Len(stack)
      PROVE  /\ Range(stack[i].todo) \subseteq misled'
             /\ stack[i].action = "REMOVE" => Range(handlers) \subseteq misled'
  <2>1. CASE RemovalPending
    BY <1>2, <2>1 DEF TodoConnected
  <2>2. CASE ~RemovalPending
    <3>1. Range(stack[i].todo) \subseteq Pending
      BY <1>2 DEF Pending
    <3> QED  BY <1>2, <2>2, <3>1 DEF RemovalPending
  <2> QED  BY <2>1, <2>2
<1>4. OnlyTopEmits'
  BY <1>1, <1>3 DEF OnlyTopEmits
<1>5. TodoConnected'
  <2> SUFFICES ASSUME NEW i \in 1..Len(stack')
               PROVE  /\ IsInjective(stack'[i].todo)
                      /\ Range(stack'[i].todo) \subseteq Range(handlers)
    BY <1>1 DEF TodoConnected
  <2>1. CASE i \in 1..Len(stack)
    BY <1>1, <2>1 DEF TodoConnected
  <2>2. CASE i = Len(stack')
    BY <1>1, <1>2, <2>2 DEF Top, Emission
  <2> QED  BY <1>1, <2>1, <2>2
<1>6. ASSUME NEW v \in Watching'
      PROVE  v \in Watching /\ Waits(v)' /\ seen[v] = Contents /\ Contents = items
  <2>1. v \in Range(handlers) /\ v \notin misled'
    BY <1>1 DEF Watching
  <2>2. v \in Watching /\ ~RemovalPending /\ v \notin Pending
    BY <1>2, <2>1 DEF Watching
  <2>3. Waits(v)'
    BY <1>1, <2>1 DEF Waits, Emission
  <2>4. stack # <<>> => Len(stack) \in DOMAIN stack
    BY <1>1, <1>2, Types
  <2>5. ~Waits(v)
    BY <2>2, <2>4 DEF Waits, Pending, Top
  <2>6. ~Removing
    BY <2>2, <2>4 DEF Removing, RemovalPending, Top
  <2>7. Contents = items
    BY <1>2, <2>6 DEF Contents, items, my_simple_model_get_items
  <2> QED  BY <2>2, <2>3, <2>5, <2>7 DEF Synced
<1> QED  BY <1>1, <1>4, <1>5, <1>6

\* A change that was made before its event is emitted: what the views know is
\* what was there before.
LEMMA AddKeeps ==
  ASSUME IInv, NEW text \in Texts, my_simple_model_add_text(text)
  PROVE  TodoConnected' /\ OnlyTopEmits' /\ Synced'
<1>1. /\ MayCall /\ CreateAndEmit("ADD", Len(items)) /\ UNCHANGED storage
      /\ texts' = [texts EXCEPT ![modelArray] = Append(@, text)]
  BY DEF my_simple_model_add_text, my_simple_model_get_size, items
<1>2. items \in Seq(Texts) /\ Len(items) \in Nat /\ modelArray \in ArrayAddresses
      /\ texts \in [ArrayAddresses -> Seq(Texts)]
  BY Types DEF IInv, UsableInv, TypeOK
<1>3. /\ Top' = Emission("ADD", Len(items)) /\ TodoConnected' /\ OnlyTopEmits'
      /\ \A v \in Watching' : Waits(v)' /\ seen'[v] = items
  BY <1>1, <1>2, Emits
<1>4. items' = Append(items, text)
  BY <1>1, <1>2 DEF items, storage
<1>5. /\ items' # <<>> /\ Len(items') = Len(items) + 1
      /\ SubSeq(items', 1, Len(items') - 1) = items
  BY <1>2, <1>4
<1>6. TopFits' /\ Before' = items
  BY <1>2, <1>3, <1>5 DEF TopFits, Before, Emission
<1> QED  BY <1>3, <1>6 DEF Synced

\* A removal is emitted before it is made: the views know the contents.
LEMMA RemoveKeeps ==
  ASSUME IInv, NEW text \in Texts, my_simple_model_remove_text(text)
  PROVE  TodoConnected' /\ OnlyTopEmits' /\ Synced'
<1> DEFINE pos == FirstPosition(text)
<1>1. /\ MayCall /\ CreateAndEmit("REMOVE", pos) /\ UNCHANGED <<storage, texts>>
      /\ text \in Range(items)
  BY DEF my_simple_model_remove_text, items
<1>2. pos \in Nat /\ pos < Len(items)
  BY <1>1, PositionFound DEF IInv, UsableInv
<1> HIDE DEF pos
<1>3. /\ Top' = Emission("REMOVE", pos) /\ TodoConnected' /\ OnlyTopEmits'
      /\ \A v \in Watching' : Waits(v)' /\ seen'[v] = items
  BY <1>1, <1>2, Emits
<1>4. items' = items
  BY <1>1 DEF items, storage
<1>5. TopFits' /\ Before' = items
  BY <1>2, <1>3, <1>4 DEF TopFits, Before, Emission
<1> QED  BY <1>3, <1>5 DEF Synced

\* The new array has no texts.
LEMMA ClearKeeps ==
  ASSUME IInv, my_simple_model_clear
  PROVE  TodoConnected' /\ OnlyTopEmits' /\ Synced'
<1>1. MayCall /\ CreateAndEmit("CLEAR", 0)
  BY DEF my_simple_model_clear
<1>2. PICK a \in ArrayAddresses :
        modelArray' = a /\ texts' = [texts EXCEPT ![a] = <<>>, ![modelArray] = <<>>]
  BY DEF my_simple_model_clear
<1>3. /\ Top' = Emission("CLEAR", 0) /\ TodoConnected' /\ OnlyTopEmits'
      /\ \A v \in Watching' : Waits(v)'
  BY <1>1, Emits
<1>4. items' = <<>>
  BY <1>2 DEF IInv, UsableInv, TypeOK, items
<1>5. TopFits' /\ Top'.action = "CLEAR"
  BY <1>3, <1>4 DEF TopFits, Emission
<1> QED  BY <1>3, <1>5 DEF Synced

LEMMA DisposeKeeps ==
  ASSUME IInv, my_simple_model_dispose
  PROVE  TodoConnected' /\ OnlyTopEmits' /\ Synced'
<1>1. stack' = <<>> /\ alive' = FALSE /\ Len(stack') = 0
  BY EmptySeq DEF my_simple_model_dispose
<1> QED  BY <1>1 DEF TodoConnected, OnlyTopEmits, Synced, Watching

\* When a call returns, whoever still follows the model knows what is left.
LEMMA FinishKeeps ==
  ASSUME IInv, FinishAdd \/ FinishClear \/ FinishRemove
  PROVE  /\ TodoConnected' /\ OnlyTopEmits' /\ Synced'
         /\ Watching' = Watching /\ UNCHANGED seen
         /\ Watching # {} => Contents' = Contents
<1> USE DEF IInv, UsableInv
<1>1. PICK action :
        /\ Finish(action) /\ ctlRefs' = ctlRefs - 1
        /\ events' = events - 1 \/ events' = events
        /\ IF action = "REMOVE"
           THEN texts' = [texts EXCEPT ![modelArray] = RemoveIndex(@, Top.index)]
           ELSE UNCHANGED texts
  BY DEF FinishAdd, FinishClear, FinishRemove, UnrefEvent
<1>2. /\ stack # <<>> /\ Top.action = action /\ Top.todo = <<>> /\ alive
      /\ Len(stack) \in Nat \ {0} /\ Len(stack') = Len(stack) - 1
      /\ stack' \in Seq(Frames)
      /\ \A i \in 1..(Len(stack) - 1) : stack'[i] = stack[i]
      /\ UNCHANGED <<alive, storage, handlers, seen, misled>>
  BY <1>1, EmissionEnds
<1>3. TodoConnected' /\ OnlyTopEmits' /\ Watching' = Watching
  BY <1>2 DEF TodoConnected, OnlyTopEmits, Watching
<1>4. ASSUME NEW v \in Watching, stack' # <<>>
      PROVE  ~Waits(v)' /\ ~Removing'
  <2>1. Len(stack') \in 1..(Len(stack) - 1)
    BY <1>2, <1>4
  <2>2. Top' = stack[Len(stack')]
    BY <1>2, <2>1 DEF Top
  <2>3. v \in Range(handlers) /\ v \notin misled
    BY DEF Watching
  <2> QED  BY <2>1, <2>2, <2>3 DEF OnlyTopEmits, Waits, Removing
<1>5. \A v \in Watching : ~Waits(v)' /\ ~Removing'
  BY <1>4 DEF Waits, Removing
<1>6. \A v \in Watching : seen[v] = Contents
  <2>1. \A v : ~Waits(v)
    BY <1>2 DEF Waits, Range
  <2> QED  BY <2>1 DEF Synced
<1>7. ASSUME Watching # {}
      PROVE  Contents' = Contents
  <2>1. Contents' = items'
    BY <1>2, <1>5, <1>7 DEF Contents, items, my_simple_model_get_items
  <2>2. items' = Contents
    BY <1>1, <1>2 DEF Contents, Removing, items, storage, my_simple_model_get_items, TypeOK
  <2> QED  BY <2>1, <2>2
<1>8. Synced'
  BY <1>2, <1>3, <1>5, <1>6, <1>7 DEF Synced
<1> QED  BY <1>2, <1>3, <1>7, <1>8

\* A view that is connected starts with the contents, unless it is misled: then
\* a removal is going on, and it is not among the views that follow the model.
LEMMA ConnectKeeps ==
  ASSUME IInv, NEW v \in Views, Connect(v)
  PROVE  /\ TodoConnected' /\ OnlyTopEmits' /\ Synced'
         /\ v \notin Watching
         /\ Watching' = Watching \cup ({v} \ misled')
         /\ v \notin misled' => seen'[v] = Contents
         /\ \A u \in Watching : seen'[u] = seen[u]
         /\ Contents' = Contents
<1> USE DEF IInv, UsableInv
<1>1. /\ alive /\ v \notin Range(handlers) /\ handlers' = Append(handlers, v)
      /\ seen' = [seen EXCEPT ![v] = items]
      /\ misled' = IF RemovalPending THEN misled \cup {v} ELSE misled
      /\ UNCHANGED <<alive, storage, counts, texts, stack>>
  BY DEF Connect, items, my_simple_model_get_items
<1>2. handlers \in Seq(Views) /\ Range(handlers') = Range(handlers) \cup {v}
  <2>1. handlers \in Seq(Views)
    BY DEF TypeOK
  <2> QED  BY <1>1, <2>1 DEF Range
<1>3. /\ stack \in Seq(Frames) /\ DOMAIN stack = 1..Len(stack) /\ Len(stack) \in Nat
      /\ stack # <<>> => Len(stack) \in 1..Len(stack)
      /\ seen \in [Views -> Seq(Texts \cup {NULL})]
  BY Types DEF TypeOK
<1>4. v \notin Watching /\ Watching' = Watching \cup ({v} \ misled')
  BY <1>1, <1>2 DEF Watching
<1>5. /\ items' = items /\ Contents' = Contents
      /\ stack # <<>> => Top' = Top /\ Before' = Before /\ (TopFits' <=> TopFits)
  BY <1>1 DEF items, storage, Contents, Removing, my_simple_model_get_items, Top, Before,
       TopFits
<1>6. v \notin misled' => Contents = items
  <2>1. v \notin misled' => ~Removing
    BY <1>1, <1>3 DEF Removing, RemovalPending, Top
  <2> QED  BY <1>1, <2>1 DEF Contents, items, my_simple_model_get_items
<1>7. TodoConnected'
  BY <1>1, <1>2 DEF TodoConnected
<1>8. OnlyTopEmits'
  <2> SUFFICES ASSUME NEW i \in 1..Len(stack) - 1
               PROVE  /\ Range(stack[i].todo) \subseteq misled'
                      /\ stack[i].action = "REMOVE" => Range(handlers') \subseteq misled'
    BY <1>1 DEF OnlyTopEmits
  <2>1. /\ Range(stack[i].todo) \subseteq misled
        /\ stack[i].action = "REMOVE" => Range(handlers) \subseteq misled
    BY DEF OnlyTopEmits
  <2>2. i \in DOMAIN stack
    BY <1>3
  <2>3. stack[i].action = "REMOVE" => v \in misled'
    BY <1>1, <2>2 DEF RemovalPending
  <2> QED  BY <1>1, <1>2, <2>1, <2>3
<1>9. \A u \in Watching : seen'[u] = seen[u]
  BY <1>1, <1>3, <1>4
<1>10. seen'[v] = items /\ ~Waits(v)'
  <2>1. stack # <<>> => v \notin Range(Top.todo)
    BY <1>1, <1>3 DEF TodoConnected, Top
  <2> QED  BY <1>1, <1>3, <1>5, <2>1 DEF Waits
<1>11. Synced'
  <2> SUFFICES ASSUME NEW u \in Watching'
               PROVE  IF Waits(u)' THEN TopFits' /\ (Top'.action # "CLEAR" => seen'[u] = Before')
                                   ELSE seen'[u] = Contents'
    BY DEF Synced
  <2>1. CASE u = v
    BY <1>4, <1>5, <1>6, <1>10, <2>1
  <2>2. CASE u # v
    <3>1. u \in Watching
      BY <1>4, <2>2
    <3>2. Waits(u)' <=> Waits(u)
      BY <1>1, <1>5 DEF Waits
    <3>3. CASE Waits(u)
      BY <1>5, <1>9, <3>1, <3>2, <3>3 DEF Synced, Waits
    <3>4. CASE ~Waits(u)
      BY <1>5, <1>9, <3>1, <3>2, <3>4 DEF Synced
    <3> QED  BY <3>3, <3>4
  <2> QED  BY <2>1, <2>2
<1> QED  BY <1>4, <1>5, <1>6, <1>7, <1>8, <1>9, <1>10, <1>11

\* A view that goes is taken out of every emission; nobody else is affected.
LEMMA DisconnectKeeps ==
  ASSUME IInv, UsableInv', NEW v \in Views, Disconnect(v)
  PROVE  /\ TodoConnected' /\ OnlyTopEmits' /\ Synced'
         /\ Watching' = Watching \ {v} /\ seen' = [seen EXCEPT ![v] = <<>>]
         /\ Contents' = Contents
<1> USE DEF IInv, UsableInv
<1>1. /\ alive /\ handlers' = RemoveFirst(handlers, v)
      /\ seen' = [seen EXCEPT ![v] = <<>>] /\ misled' = misled \ {v}
      /\ stack' = [i \in DOMAIN stack |-> [stack[i] EXCEPT !.todo = RemoveFirst(@, v)]]
      /\ UNCHANGED <<alive, storage, counts, texts>>
  BY DEF Disconnect
<1>2. /\ handlers \in Seq(Views) /\ IsInjective(handlers) /\ stack \in Seq(Frames)
      /\ Len(stack) \in Nat /\ DOMAIN stack = 1..Len(stack)
      /\ \A i \in 1..Len(stack) : stack[i] \in Frames
      /\ seen \in [Views -> Seq(Texts \cup {NULL})]
  <2>1. /\ handlers \in Seq(Views) /\ IsInjective(handlers) /\ stack \in Seq(Frames)
        /\ seen \in [Views -> Seq(Texts \cup {NULL})]
    BY DEF TypeOK
  <2>2. /\ Len(stack) \in Nat /\ DOMAIN stack = 1..Len(stack)
        /\ \A i \in 1..Len(stack) : stack[i] \in Frames
    BY <2>1
  <2> QED  BY <2>1, <2>2
<1>3. Range(handlers') = Range(handlers) \ {v}
  BY <1>1, <1>2, RemoveFirstProperties
<1>4. Watching' = Watching \ {v}
  BY <1>1, <1>3 DEF Watching
<1>5. ASSUME NEW i \in 1..Len(stack)
      PROVE  /\ IsInjective(stack'[i].todo)
             /\ stack'[i].action = stack[i].action /\ stack'[i].index = stack[i].index
             /\ Range(stack'[i].todo) = Range(stack[i].todo) \ {v}
  <2> DEFINE rest == RemoveFirst(stack[i].todo, v)
  <2>1. stack[i].todo \in Seq(Views) /\ IsInjective(stack[i].todo)
    BY <1>2 DEF Frames, TodoConnected
  <2>2. IsInjective(rest) /\ Range(rest) = Range(stack[i].todo) \ {v}
    BY <2>1, RemoveFirstProperties
  <2>3. stack'[i] = [stack[i] EXCEPT !.todo = rest] /\ stack[i] \in Frames
    BY <1>1, <1>2
  <2> HIDE DEF rest
  <2> QED  BY <2>2, <2>3 DEF Frames
<1>6. Len(stack') = Len(stack) /\ (stack' = <<>> <=> stack = <<>>)
  <2>1. stack' \in Seq(Frames) /\ DOMAIN stack' = 1..Len(stack)
    BY <1>1, <1>2 DEF TypeOK
  <2>2. Len(stack') \in Nat /\ DOMAIN stack' = 1..Len(stack')
    BY <2>1
  <2>3. Len(stack') = Len(stack)
    BY <1>2, <2>1, <2>2
  <2> QED  BY <1>2, <2>1, <2>3
<1>7. stack # <<>> => /\ Top'.action = Top.action /\ Top'.index = Top.index
                      /\ Range(Top'.todo) = Range(Top.todo) \ {v}
  <2>1. stack # <<>> => Len(stack) \in 1..Len(stack)
    BY <1>2
  <2>2. Top = stack[Len(stack)] /\ Top' = stack'[Len(stack)]
    BY <1>6 DEF Top
  <2> QED  BY <1>5, <2>1, <2>2
<1>8. /\ items' = items /\ Contents' = Contents
      /\ stack # <<>> => Before' = Before /\ (TopFits' <=> TopFits)
  BY <1>1, <1>6, <1>7
     DEF items, storage, Contents, Removing, my_simple_model_get_items, Before, TopFits
<1>9. TodoConnected'
  BY <1>3, <1>5, <1>6 DEF TodoConnected
<1>10. OnlyTopEmits'
  <2> SUFFICES ASSUME NEW i \in 1..Len(stack) - 1
               PROVE  /\ Range(stack'[i].todo) \subseteq misled'
                      /\ stack'[i].action = "REMOVE" => Range(handlers') \subseteq misled'
    BY <1>6 DEF OnlyTopEmits
  <2>1. i \in 1..Len(stack)
    BY <1>2
  <2>2. /\ Range(stack[i].todo) \subseteq misled
        /\ stack[i].action = "REMOVE" => Range(handlers) \subseteq misled
    BY DEF OnlyTopEmits
  <2> QED  BY <1>1, <1>3, <1>5, <2>1, <2>2
<1>11. Synced'
  <2> SUFFICES ASSUME NEW u \in Watching, u # v
               PROVE  IF Waits(u)' THEN TopFits' /\ (Top'.action # "CLEAR" => seen'[u] = Before')
                                   ELSE seen'[u] = Contents'
    BY <1>4 DEF Synced
  <2>1. seen'[u] = seen[u]
    BY <1>1, <1>2
  <2>2. Waits(u)' <=> Waits(u)
    BY <1>6, <1>7 DEF Waits
  <2>3. CASE Waits(u)
    BY <1>7, <1>8, <2>1, <2>2, <2>3 DEF Synced, Waits
  <2>4. CASE ~Waits(u)
    BY <1>8, <2>1, <2>2, <2>4 DEF Synced
  <2> QED  BY <2>3, <2>4
<1> QED  BY <1>1, <1>4, <1>8, <1>9, <1>10, <1>11

\* The handler of a view that follows the model brings it up to date.
LEMMA HandlerKeeps ==
  ASSUME IInv, on_model_changed
  PROVE  /\ TodoConnected' /\ OnlyTopEmits' /\ Synced'
         /\ Head(Top.todo) \in Views
         /\ Head(Top.todo) \in Watching => seen'[Head(Top.todo)] = Contents
         /\ \A u \in Views : u # Head(Top.todo) => seen'[u] = seen[u]
         /\ Watching' = Watching /\ Contents' = Contents
<1> USE DEF IInv, UsableInv
<1> DEFINE v == Head(Top.todo)
<1>1. /\ stack # <<>> /\ Top.todo # <<>>
      /\ seen' = [seen EXCEPT ![v] = Printed(@, Top.action, Top.index)]
      /\ stack' = Append(Callers, [Top EXCEPT !.view = v, !.todo = Tail(@)])
      /\ UNCHANGED <<alive, storage, counts, texts, handlers, misled>>
  BY DEF on_model_changed
<1>2. /\ alive /\ stack \in Seq(Frames) /\ Top \in Frames /\ Top.todo \in Seq(Views)
      /\ items \in Seq(Texts) /\ Len(items) \in Nat /\ Top.index \in Nat
      /\ Len(stack) \in 1..Len(stack) /\ seen \in [Views -> Seq(Texts \cup {NULL})]
  <2>1. alive /\ stack \in Seq(Frames) /\ seen \in [Views -> Seq(Texts \cup {NULL})]
    BY <1>1 DEF CountsMatch, TypeOK
  <2>2. Top \in Frames /\ items \in Seq(Texts) /\ Len(items) \in Nat
    BY <1>1, Types
  <2>3. Top.todo \in Seq(Views) /\ Top.index \in Nat
    BY <2>2 DEF Frames
  <2>4. Len(stack) \in 1..Len(stack)
    BY <1>1, <2>1
  <2> QED  BY <2>1, <2>2, <2>3, <2>4
<1>3. IsInjective(Top.todo) /\ Range(Top.todo) \subseteq Range(handlers)
  BY <1>2 DEF TodoConnected, Top
<1>4. /\ v \in Range(Top.todo) /\ v \in Views
      /\ Tail(Top.todo) \in Seq(Views) /\ IsInjective(Tail(Top.todo))
      /\ Range(Tail(Top.todo)) = Range(Top.todo) \ {v}
  BY <1>1, <1>2, <1>3, TailWithoutHead
<1> DEFINE next == [Top EXCEPT !.view = v, !.todo = Tail(@)]
<1>5. /\ next \in Frames /\ next.todo = Tail(Top.todo)
      /\ next.action = Top.action /\ next.index = Top.index
  BY <1>2, <1>4 DEF Frames
<1> HIDE DEF next
<1>6. /\ Callers \in Seq(Frames) /\ Len(stack) \in Nat \ {0}
      /\ Len(Callers) = Len(stack) - 1
      /\ \A i \in 1..(Len(stack) - 1) : Callers[i] = stack[i]
  BY <1>1, <1>2, Popped DEF Callers
<1>7. /\ stack' \in Seq(Frames) /\ Len(stack') = Len(stack) /\ stack' # <<>>
      /\ Top' = next /\ stack'[Len(stack)] = next
      /\ \A i \in 1..(Len(stack) - 1) : stack'[i] = stack[i]
  <2>1. stack' = Append(Callers, next)
    BY <1>1 DEF next
  <2> QED  BY <1>5, <1>6, <2>1, Pushed DEF Top
<1>8. /\ items' = items /\ Contents' = Contents /\ Before' = Before
      /\ (TopFits' <=> TopFits) /\ Watching' = Watching
  BY <1>1, <1>5, <1>7
     DEF items, storage, Contents, Removing, my_simple_model_get_items, Before, TopFits,
         Watching
<1>9. ASSUME v \in Watching
      PROVE  Printed(seen[v], Top.action, Top.index) = Contents
  <2>0. Waits(v) /\ TopFits /\ (Top.action # "CLEAR" => seen[v] = Before)
    BY <1>1, <1>4, <1>9 DEF Waits, Synced
  <2>1. CASE Top.action = "ADD"
    <3>1. items # <<>> /\ Top.index = Len(items) - 1
      BY <2>0, <2>1 DEF TopFits
    <3>2. my_simple_model_get_text(Top.index) = items[Len(items)]
      BY <1>2, <3>1
         DEF my_simple_model_get_text, HasText, my_simple_model_get_size, items, OneArray
    <3>3. seen[v] = SubSeq(items, 1, Len(items) - 1)
      BY <2>0, <2>1 DEF Before
    <3>4. Contents = items
      BY <1>1, <1>2, <2>1 DEF Contents, Removing, items, my_simple_model_get_items
    <3>5. InsertAt(SubSeq(items, 1, Len(items) - 1), Len(items), items[Len(items)]) = items
      BY <1>2, <3>1, InsertLast
    <3>6. Top.index + 1 = Len(items)
      BY <1>2, <3>1
    <3>7. Len(seen[v]) = Top.index
      <4>1. Len(items) \in Nat \ {0}
        BY <1>2, <3>1
      <4>2. Len(SubSeq(items, 1, Len(items) - 1)) = Len(items) - 1
        <5> DEFINE n == Len(items) - 1
        <5>1. n \in Nat /\ \A i \in 1..n : items[i] \in Texts
          BY <1>2, <4>1
        <5> HIDE DEF n
        <5>2. SubSeq(items, 1, n) \in Seq(Texts) /\ Len(SubSeq(items, 1, n)) = n
          BY <5>1, SubSeqProperties
        <5> QED  BY <5>2 DEF n
      <4> QED  BY <3>1, <3>3, <4>2
    <3>8. Top.index <= Len(seen[v])
      BY <1>2, <3>7
    <3> QED  BY <2>1, <3>2, <3>3, <3>4, <3>5, <3>6, <3>8 DEF Printed
  <2>2. CASE Top.action = "REMOVE"
    <3>1. Top.index < Len(items) /\ seen[v] = items
      BY <2>0, <2>2 DEF TopFits, Before
    <3>2. Contents = RemoveAt(items, Top.index + 1)
      BY <1>1, <1>2, <2>2, <3>1
         DEF Contents, Removing, items, my_simple_model_get_items, RemoveIndex
    <3> QED  BY <2>2, <3>1, <3>2 DEF Printed
  <2>3. CASE Top.action = "CLEAR"
    <3>1. items = <<>>
      BY <2>0, <2>3 DEF TopFits
    <3>2. Contents = <<>>
      BY <1>1, <1>2, <2>3, <3>1 DEF Contents, Removing, items, my_simple_model_get_items
    <3> QED  BY <2>3, <3>2 DEF Printed
  <2> QED  BY <1>2, <2>1, <2>2, <2>3 DEF Frames
<1>10. /\ v \in Watching => seen'[v] = Contents
       /\ \A u \in Views : u # v => seen'[u] = seen[u]
  BY <1>1, <1>2, <1>4, <1>9
<1>11. TodoConnected'
  <2> SUFFICES ASSUME NEW i \in 1..Len(stack)
               PROVE  /\ IsInjective(stack'[i].todo)
                      /\ Range(stack'[i].todo) \subseteq Range(handlers)
    BY <1>1, <1>7 DEF TodoConnected
  <2>1. CASE i = Len(stack)
    BY <1>3, <1>4, <1>5, <1>7, <2>1
  <2>2. CASE i # Len(stack)
    <3>1. i \in 1..(Len(stack) - 1)
      BY <1>6, <2>2
    <3> QED  BY <1>7, <3>1 DEF TodoConnected
  <2> QED  BY <2>1, <2>2
<1>12. OnlyTopEmits'
  BY <1>1, <1>7 DEF OnlyTopEmits
<1>13. Synced'
  <2> SUFFICES ASSUME NEW u \in Watching
               PROVE  IF Waits(u)' THEN TopFits' /\ (Top'.action # "CLEAR" => seen'[u] = Before')
                                   ELSE seen'[u] = Contents'
    BY <1>8 DEF Synced
  <2>1. CASE u = v
    <3>1. ~Waits(u)'
      BY <1>4, <1>5, <1>7, <2>1 DEF Waits
    <3> QED  BY <1>8, <1>10, <2>1, <3>1
  <2>2. CASE u # v
    <3>1. u \in Views
      BY DEF Watching, TypeOK, Range
    <3>2. seen'[u] = seen[u]
      BY <1>10, <2>2, <3>1
    <3>3. Waits(u)' <=> Waits(u)
      BY <1>1, <1>4, <1>5, <1>7, <2>2 DEF Waits
    <3>4. CASE Waits(u)
      BY <1>5, <1>7, <1>8, <3>2, <3>3, <3>4 DEF Synced
    <3>5. CASE ~Waits(u)
      BY <1>8, <3>2, <3>3, <3>5 DEF Synced
    <3> QED  BY <3>4, <3>5
  <2> QED  BY <2>1, <2>2
<1> QED  BY <1>4, <1>8, <1>10, <1>11, <1>12, <1>13

LEMMA InitKeeps ==
  ASSUME Init
  PROVE  IInv
<1>1. stack = <<>> /\ Len(stack) = 0 /\ handlers = <<>>
  BY EmptySeq DEF Init
<1>2. TodoConnected /\ OnlyTopEmits
  BY <1>1 DEF TodoConnected, OnlyTopEmits
<1>3. Synced
  BY <1>1 DEF Synced, Watching, Range
<1> QED  BY <1>2, <1>3, InitUsable DEF IInv

LEMMA NextKeeps ==
  ASSUME IInv, [Next]_vars
  PROVE  IInv'
<1>0. UsableInv'
  BY UsableKept DEF IInv
<1>1. ASSUME Client
      PROVE  TodoConnected' /\ OnlyTopEmits' /\ Synced'
  BY <1>0, <1>1, AddKeeps, RemoveKeeps, ClearKeeps, DisposeKeeps, ConnectKeeps,
     DisconnectKeeps
     DEF Client
<1>2. ASSUME Return
      PROVE  TodoConnected' /\ OnlyTopEmits' /\ Synced'
  BY <1>2, HandlerKeeps, FinishKeeps DEF Return
<1>3. ASSUME UNCHANGED vars
      PROVE  TodoConnected' /\ OnlyTopEmits' /\ Synced'
  BY <1>3 DEF vars, storage, counts, IInv, TodoConnected, OnlyTopEmits, TopFits, Synced,
       Waits, Before, items, Contents, Removing, Top, Watching, my_simple_model_get_items
<1> QED  BY <1>0, <1>1, <1>2, <1>3 DEF Next, IInv

-----------------------------------------------------------------------------
(* The theorems.                                                           *)

\* Whatever handlers call, the counts and the pointers are right.
THEOREM UsableHolds == Spec => []UsableInv
<1>1. Init => UsableInv
  BY InitUsable
<1>2. UsableInv /\ [Next]_vars => UsableInv'
  BY UsableKept
<1> QED  BY <1>1, <1>2, PTL DEF Spec

\* Wherever handlers call the model, views that no such call has misled know the
\* contents of the model or wait for an event whose index is right.
THEOREM InvariantHolds == Spec => []IInv
<1>1. Init => IInv
  BY InitKeeps
<1>2. IInv /\ [Next]_vars => IInv'
  BY NextKeeps
<1> QED  BY <1>1, <1>2, PTL DEF Spec

\* Every variable keeps its type: no count ever goes below zero.
THEOREM TypesHold == Spec => []TypeOK
<1>1. UsableInv => TypeOK
  BY DEF UsableInv
<1> QED  BY <1>1, UsableHolds, PTL

\* The model never loses its array or its controller, whatever the number of
\* removals and of calls nested in handlers, wherever these make them.
THEOREM ModelStaysUsable == Spec => []ModelUsable
<1>1. UsableInv => ModelUsable
  BY Types DEF UsableInv, CountsMatch, OneArray, ModelUsable
<1> QED  BY <1>1, UsableHolds, PTL

\* A view that is not misled and has been told of the last change has the
\* contents of the model: also when it was connected by a handler, and after
\* calls that other handlers made.
THEOREM ToldViewsAreInStep == Spec => []ToldIsInStep
<1>1. ASSUME IInv, NEW v \in Watching, stack # <<>> => v \notin Range(Top.todo)
      PROVE  seen[v] = Contents
  BY <1>1 DEF IInv, Synced, Waits
<1>2. IInv => ToldIsInStep
  BY <1>1 DEF ToldIsInStep
<1> QED  BY <1>2, InvariantHolds, PTL

\* The handler of a view that is not misled finds what its event is about,
\* whatever the handlers before it did.
THEOREM HandlersFindTexts == Spec => []TextsFound
<1>1. ASSUME IInv
      PROVE  TextsFound
  <2> USE <1>1 DEF IInv, UsableInv
  <2> SUFFICES ASSUME NEW i \in DOMAIN stack, NEW v \in Range(stack[i].todo) \ misled
               PROVE  /\ stack[i].action \in {"ADD", "REMOVE"} => HasText(stack[i].index)
                      /\ stack[i].action = "REMOVE" =>
                           /\ stack[i].index < Len(seen[v])
                           /\ seen[v][stack[i].index + 1] =
                                my_simple_model_get_text(stack[i].index)
    BY DEF TextsFound
  <2> DEFINE n == Len(stack)
  <2>1. n \in Nat /\ DOMAIN stack = 1..n /\ i \in 1..n /\ stack # <<>>
    BY Types
  <2>2. i \notin 1..n - 1
    BY DEF OnlyTopEmits
  <2> HIDE DEF n
  <2>3. i = n
    BY <2>1, <2>2
  <2>4. stack[i] = Top
    BY <2>3 DEF n, Top
  <2>5. alive /\ arrayRefs[modelArray] > 0
    BY <2>1 DEF CountsMatch, OneArray
  <2>6. v \in Watching /\ Waits(v)
    BY <2>1, <2>4, <2>5 DEF TodoConnected, Waits, Watching, n
  <2>7. Top.index \in Nat /\ Len(items) \in Nat
    BY <2>1, Types DEF Frames
  <2>8. TopFits /\ (Top.action # "CLEAR" => seen[v] = Before)
    BY <2>6 DEF Synced
  <2>9. Top.action \in {"ADD", "REMOVE"} => Top.index < Len(items)
    <3>1. items # <<>> => Len(items) > 0
      BY Types DEF TypeOK
    <3> QED  BY <2>7, <2>8, <3>1 DEF TopFits
  <2>10. Top.action = "REMOVE" => seen[v] = items
    BY <2>8 DEF Before
  <2> QED  BY <2>4, <2>5, <2>7, <2>9, <2>10
             DEF HasText, my_simple_model_get_text, my_simple_model_get_size, items
<1> QED  BY <1>1, InvariantHolds, PTL

-----------------------------------------------------------------------------
(* The model implements ViewsInStep.                                       *)

\* What the views that follow the model know.
Known == [v \in Views |-> IF v \in Watching THEN seen[v] ELSE <<>>]

LEMMA ContentsStayTyped ==
  ASSUME TypeOK'
  PROVE  Contents' \in Seq(Texts)
<1>1. items' \in Seq(Texts) /\ <<>> \in Seq(Texts) /\ stack' \in Seq(Frames)
  BY EmptySeq DEF TypeOK, items
<1>2. CASE Removing'
  <2>1. stack' # <<>> /\ Top' = stack'[Len(stack')]
    BY <1>2 DEF Removing, Top
  <2>2. stack'[Len(stack')] \in Frames
    BY <1>1, <2>1, Popped
  <2>3. Top' \in Frames
    BY <2>1, <2>2
  <2>4. Top'.index \in Nat
    BY <2>3 DEF Frames
  <2>5. RemoveIndex(items', Top'.index) \in Seq(Texts)
    BY <1>1, <2>4, RemoveIndexTyped
  <2>6. RemoveIndex(items, Top.index)' = RemoveIndex(items', Top'.index)
    BY DEF RemoveIndex
  <2> QED  BY <1>1, <1>2, <2>5, <2>6 DEF Contents, items, my_simple_model_get_items, RemoveIndex
<1>3. CASE ~Removing'
  BY <1>1, <1>3 DEF Contents, items, my_simple_model_get_items
<1> QED  BY <1>2, <1>3


LEMMA WatchingAreViews ==
  ASSUME TypeOK
  PROVE  Watching \subseteq Views
<1>1. handlers \in Seq(Views)
  BY DEF TypeOK
<1> QED  BY <1>1 DEF Watching, Range

\* A call of the model is a change: the views that it does not mislead know the
\* contents.
LEMMA CallsChange ==
  ASSUME IInv, UsableInv', MayCall,
         NEW action \in {"ADD", "REMOVE", "CLEAR"}, NEW index \in Nat,
         CreateAndEmit(action, index)
  PROVE  Abstract!Change
<1>1. /\ Watching' \subseteq Watching /\ UNCHANGED seen
      /\ \A v \in Watching' : seen[v] = Contents
  BY Emits
<1>2. Contents' \in Seq(Texts)
  BY ContentsStayTyped DEF UsableInv
<1> DEFINE left == Watching \ Watching'
<1>3. left \in SUBSET Watching /\ Watching' = Watching \ left
  BY <1>1
<1>4. \A v \in Watching \ left : Watching \subseteq Views => Known[v] = Contents
  BY <1>1, <1>3 DEF Known
<1>5. Known' = [v \in Views |-> IF v \in left THEN <<>> ELSE Known[v]]
  BY <1>1, <1>3 DEF Known
<1>6. Watching \subseteq Views
  BY WatchingAreViews DEF IInv, UsableInv
<1> HIDE DEF left
<1> QED  BY <1>2, <1>3, <1>4, <1>5, <1>6 DEF Abstract!Change, Known

LEMMA ImplementsNext ==
  ASSUME IInv, [Next]_vars
  PROVE  [Abstract!Next]_<<Contents, Watching, Known>>
<1>0. UsableInv' /\ Watching \subseteq Views /\ seen \in [Views -> Seq(Texts \cup {NULL})]
  <2>1. UsableInv'
    BY UsableKept DEF IInv
  <2>2. Watching \subseteq Views
    BY WatchingAreViews DEF IInv, UsableInv
  <2>3. seen \in [Views -> Seq(Texts \cup {NULL})]
    BY DEF IInv, UsableInv, TypeOK
  <2> QED  BY <2>1, <2>2, <2>3
<1>1. ASSUME NEW text \in Texts, my_simple_model_add_text(text)
      PROVE  Abstract!Change
  <2>1. MayCall /\ CreateAndEmit("ADD", Len(items)) /\ Len(items) \in Nat
    BY <1>1, Types
       DEF my_simple_model_add_text, my_simple_model_get_size, items, IInv, UsableInv
  <2> QED  BY <1>0, <2>1, CallsChange
<1>2. ASSUME NEW text \in Texts, my_simple_model_remove_text(text)
      PROVE  Abstract!Change
  <2>1. MayCall /\ CreateAndEmit("REMOVE", FirstPosition(text)) /\ text \in Range(items)
    BY <1>2 DEF my_simple_model_remove_text, items
  <2>2. FirstPosition(text) \in Nat
    BY <2>1, PositionFound DEF IInv, UsableInv
  <2> QED  BY <1>0, <2>1, <2>2, CallsChange
<1>3. ASSUME my_simple_model_clear
      PROVE  Abstract!Change
  <2>1. MayCall /\ CreateAndEmit("CLEAR", 0)
    BY <1>3 DEF my_simple_model_clear
  <2> QED  BY <1>0, <2>1, CallsChange
<1>4. ASSUME my_simple_model_dispose
      PROVE  Abstract!Close
  <2>1. alive' = FALSE
    BY <1>4 DEF my_simple_model_dispose
  <2>2. Contents' = <<>> /\ Watching' = {}
    BY <2>1 DEF Contents, Watching
  <2>3. Known' = [v \in Views |-> <<>>]
    BY <2>2 DEF Known
  <2> QED  BY <2>2, <2>3 DEF Abstract!Close, Known
<1>5. ASSUME NEW v \in Views, Connect(v)
      PROVE  Abstract!Join(v) \/ UNCHANGED <<Contents, Watching, Known>>
  <2>1. /\ v \notin Watching /\ Watching' = Watching \cup ({v} \ misled')
        /\ v \notin misled' => seen'[v] = Contents
        /\ \A u \in Watching : seen'[u] = seen[u]
        /\ Contents' = Contents
    BY <1>5, ConnectKeeps
  <2>2. CASE v \in misled'
    <3>1. Watching' = Watching /\ Known' = Known
      BY <2>1, <2>2 DEF Known
    <3> QED  BY <2>1, <3>1
  <2>3. CASE v \notin misled'
    <3>1. Watching' = Watching \cup {v}
      BY <2>1, <2>3
    <3>2. \A u \in Views : Known'[u] = [Known EXCEPT ![v] = Contents][u]
      BY <2>1, <2>3, <3>1 DEF Known
    <3>3. Known' = [Known EXCEPT ![v] = Contents]
      BY <3>2 DEF Known
    <3> QED  BY <2>1, <3>1, <3>3 DEF Abstract!Join, Known
  <2> QED  BY <2>2, <2>3
<1>6. ASSUME NEW v \in Views, Disconnect(v)
      PROVE  Abstract!Leave(v)
  <2>1. /\ Watching' = Watching \ {v} /\ seen' = [seen EXCEPT ![v] = <<>>]
        /\ Contents' = Contents
    BY <1>0, <1>6, DisconnectKeeps
  <2>2. \A u \in Views : Known'[u] = [Known EXCEPT ![v] = <<>>][u]
    BY <1>0, <2>1 DEF Known
  <2>3. Known' = [Known EXCEPT ![v] = <<>>]
    BY <2>2 DEF Known
  <2> QED  BY <2>1, <2>3 DEF Abstract!Leave, Known
<1>7. on_model_changed => Head(Top.todo) \in Views
  BY HandlerKeeps
<1>8. ASSUME NEW v \in Views, v = Head(Top.todo), on_model_changed
      PROVE  Abstract!CatchUp(v) \/ UNCHANGED <<Contents, Watching, Known>>
  <2>1. /\ Watching' = Watching /\ Contents' = Contents
        /\ v \in Watching => seen'[v] = Contents
        /\ \A u \in Views : u # v => seen'[u] = seen[u]
    BY <1>8, HandlerKeeps
  <2>2. CASE v \in Watching
    <3>1. \A u \in Views : Known'[u] = [Known EXCEPT ![v] = Contents][u]
      BY <2>1, <2>2 DEF Known
    <3>2. Known' = [Known EXCEPT ![v] = Contents]
      BY <3>1 DEF Known
    <3>3. Abstract!CatchUp(v)
      BY <2>1, <2>2, <3>2 DEF Abstract!CatchUp, Known
    <3> QED  BY <2>1, <3>3
  <2>3. CASE v \notin Watching
    <3>1. Known' = Known
      BY <2>1, <2>3 DEF Known
    <3> QED  BY <2>1, <3>1
  <2> QED  BY <2>2, <2>3
<1>9. ASSUME FinishAdd \/ FinishRemove \/ FinishClear
      PROVE  Abstract!Change \/ UNCHANGED <<Contents, Watching, Known>>
  <2>1. /\ Watching' = Watching /\ UNCHANGED seen
        /\ Watching # {} => Contents' = Contents
    BY <1>9, FinishKeeps
  <2>2. Known' = Known
    BY <2>1 DEF Known
  <2>3. CASE Watching # {}
    BY <2>1, <2>2, <2>3
  <2>4. CASE Watching = {}
    <3>1. Contents' \in Seq(Texts)
      BY <1>0, ContentsStayTyped DEF UsableInv
    <3>2. Known' = [v \in Views |-> IF v \in {} THEN <<>> ELSE Known[v]]
      BY <2>2 DEF Known
    <3> QED  BY <2>1, <2>4, <3>1, <3>2 DEF Abstract!Change, Known
  <2> QED  BY <2>3, <2>4
<1>10. ASSUME UNCHANGED vars
      PROVE  UNCHANGED <<Contents, Watching, Known>>
  BY <1>10 DEF vars, storage, counts, Contents, Watching, Known, Removing, Top,
       my_simple_model_get_items
<1> QED  BY <1>1, <1>2, <1>3, <1>4, <1>5, <1>6, <1>7, <1>8, <1>9, <1>10
           DEF Next, Client, Return, Abstract!Next

\* The model keeps the promise of ViewsInStep, for any number of views and any
\* nesting of calls: a call made in the middle of another change leaves behind
\* the views that wait for it, and nobody else.
THEOREM ModelKeepsViewsInStep == Spec => InStep
<1>1. Init => Abstract!Init
  BY DEF Init, Abstract!Init, Contents, Removing, Watching, my_simple_model_get_items, Range
<1>2. IInv /\ [Next]_vars => [Abstract!Next]_Abstract!abstractVars
  BY ImplementsNext DEF Abstract!abstractVars, Known
<1> QED  BY <1>1, <1>2, InvariantHolds, PTL DEF Spec, InStep, Abstract!Spec
=============================================================================
