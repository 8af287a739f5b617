------------------------- MODULE RuntimeHeapProofs -------------------------
(***************************************************************************)
(* The heap under the parser, the code generator and the compiled program, *)
(* for every set of addresses, every number of slots and literals and all  *)
(* thresholds: how large it gets, and up to which allocation nothing that  *)
(* is in use is lost.                                                      *)
(***************************************************************************)
EXTENDS RuntimeHeap, SequenceTheorems, FiniteSetTheorems, TLAPS

LEMMA ConstantFacts ==
    /\ InitialThreshold \in Nat \ {0} /\ MinThreshold \in 1..InitialThreshold
    /\ MaxLiterals \in Nat /\ MaxAllocs \in Nat /\ Nil \notin Obj
BY ThresholdAssumption, BoundsAssumption

\* Nothing is rooted, so nothing survives.
LEMMA NothingIsReachable == Reach(Roots, elems) = {}
<1>1. Closed({}, elems)
  BY DEF Closed
<1>. QED
  BY <1>1, ConstantFacts DEF Roots, Reach

LEMMA InitIInv == Init => IInv
<1>. SUFFICES ASSUME Init PROVE IInv
  OBVIOUS
<1>1. TypeOK
  BY ConstantFacts, EmptySeq DEF Init, TypeOK, Graphs
<1>2. CountInv /\ HeapStaysSmall
  BY ConstantFacts, FS_EmptySet DEF Init, CountInv, HeapStaysSmall
<1>3. LiteralsInv
  BY DEF Init, LiteralsInv, LiteralsSurvive
<1>4. HeldInv
  BY DEF Init, HeldInv, Closed
<1>. QED
  BY <1>1, <1>2, <1>3, <1>4 DEF IInv

\* What an allocation does to the heap: a collection, if there is one, leaves
\* nothing, and there is none up to allocation number InitialThreshold.
LEMMA AllocKeeps ==
    ASSUME IInv, NEW o \in Obj, NEW held \in SUBSET Obj, Alloc(o, held)
    PROVE  /\ o \in live' /\ live' \subseteq Obj /\ elems' \in Graphs
           /\ allocs' \in 0..MaxAllocs /\ allocs' = allocs + 1
           /\ CountInv' /\ HeapStaysSmall'
           /\ allocs < InitialThreshold =>
                 /\ live' = live \cup {o} /\ o \notin live
                 /\ Closed(live, elems) /\ held \subseteq live => Closed(live', elems')
<1>. USE ConstantFacts DEF Alloc, IInv, TypeOK
<1>1. /\ IsFiniteSet(live) /\ Cardinality(live) \in Nat
      /\ Cardinality(live) <= allocs /\ Cardinality(live) <= InitialThreshold
      /\ threshold = InitialThreshold
  BY FS_CardinalityType DEF CountInv, HeapStaysSmall
<1>2. o \in live' /\ live' \subseteq Obj /\ elems' \in Graphs
  BY DEF Survivors, Graphs
<1>3. allocs' \in 0..MaxAllocs /\ allocs' = allocs + 1
  OBVIOUS
<1>4. CASE MustCollect
  <2>1. Survivors = {}
    BY <1>4, NothingIsReachable DEF Survivors
  <2>2. Cardinality(Survivors) = 0 /\ live' = {o}
    BY <2>1, FS_EmptySet
  <2>3. threshold' = InitialThreshold
    BY <1>4, <2>2 DEF NewThreshold
  <2>4. IsFiniteSet(live') /\ Cardinality(live') = 1
    <3>1. IsFiniteSet({o}) /\ Cardinality({o}) = 1
      BY FS_Singleton, Zenon
    <3>. QED
      BY <2>2, <3>1, Zenon
  <2>5. ~(allocs < InitialThreshold)
    BY <1>1, <1>4 DEF MustCollect
  <2>. QED
    BY <1>1, <1>2, <1>3, <2>3, <2>4, <2>5 DEF CountInv, HeapStaysSmall
<1>5. CASE ~MustCollect
  <2>1. live' = live \cup {o} /\ o \notin live /\ threshold' = threshold
    BY <1>5 DEF Survivors
  <2>2. IsFiniteSet(live') /\ Cardinality(live') = Cardinality(live) + 1
    BY <1>1, <2>1, FS_AddElement
  <2>3. Cardinality(live) < InitialThreshold
    BY <1>1, <1>5 DEF MustCollect
  <2>4. CountInv' /\ HeapStaysSmall'
    BY <1>1, <1>3, <2>1, <2>2, <2>3 DEF CountInv, HeapStaysSmall
  <2>5. Closed(live, elems) /\ held \subseteq live => Closed(live', elems')
    BY <2>1 DEF Closed, Graphs
  <2>. QED
    BY <1>2, <1>3, <2>1, <2>4, <2>5
<1>. QED
  BY <1>4, <1>5

\* A running program that puts a new object into a slot.
LEMMA NewValueKeeps ==
    ASSUME IInv, NEW o \in Obj, NEW z \in Slots, NEW t \in {-1, 0}, NEW held \in SUBSET Obj,
           stage = "run", Alloc(o, held),
           allocs < InitialThreshold => held \subseteq live,
           text' = [text EXCEPT ![o] = t],
           slots' = [slots EXCEPT ![z] = o],
           UNCHANGED <<stage, ast, consts>>
    PROVE  IInv'
<1>. USE DEF IInv
<1>1. TypeOK'
  <2>1. threshold' \in Nat
    BY AllocKeeps, ConstantFacts DEF HeapStaysSmall
  <2>2. text' \in [Obj -> {-1} \cup 0..MaxLiterals]
    BY ConstantFacts DEF TypeOK
  <2>. QED
    BY <2>1, <2>2, AllocKeeps DEF TypeOK
<1>2. LiteralsInv'
  BY DEF LiteralsInv, LiteralsSurvive
<1>3. HeldInv'
  BY AllocKeeps, ConstantFacts DEF HeldInv, TypeOK
<1>. QED
  BY <1>1, <1>2, <1>3, AllocKeeps

LEMMA NextIInv == IInv /\ [Next]_vars => IInv'
<1>. SUFFICES ASSUME IInv, [Next]_vars PROVE IInv'
  OBVIOUS
<1>. USE DEF IInv
<1>1. ASSUME NEW o \in Obj, ParseString(o)
      PROVE  IInv'
  <2>. USE <1>1, ConstantFacts DEF ParseString
  <2>0. /\ ast \in Seq(Obj) /\ Len(ast) \in Nat /\ ast' \in Seq(Obj)
        /\ Len(ast') = Len(ast) + 1 /\ ast'[Len(ast) + 1] = o
        /\ \A i \in 1..Len(ast) : ast'[i] = ast[i]
    BY DEF TypeOK
  <2>1. TypeOK'
    <3>1. threshold' \in Nat
      BY AllocKeeps DEF HeapStaysSmall
    <3>2. text' \in [Obj -> {-1} \cup 0..MaxLiterals]
      BY <2>0 DEF TypeOK
    <3>. QED
      BY <2>0, <3>1, <3>2, AllocKeeps DEF TypeOK
  <2>2. LiteralsInv'
    <3>1. allocs' = Len(ast') /\ consts' = <<>>
      BY <2>0, AllocKeeps DEF LiteralsInv
    <3>2. ASSUME Len(ast') <= InitialThreshold, NEW i \in 1..Len(ast')
          PROVE  ast'[i] \in live' /\ text'[ast'[i]] = i
      <4>1. live' = live \cup {o} /\ o \notin live
        BY <2>0, <3>2, AllocKeeps DEF LiteralsInv, TypeOK
      <4>2. CASE i = Len(ast')
        BY <2>0, <4>1, <4>2 DEF TypeOK
      <4>3. CASE i # Len(ast')
        <5>1. i \in 1..Len(ast) /\ ast'[i] = ast[i]
          BY <2>0, <4>3
        <5>2. ast[i] \in live /\ text[ast[i]] = i
          BY <2>0, <3>2, <5>1 DEF LiteralsInv
        <5>. QED
          BY <4>1, <5>1, <5>2 DEF TypeOK
      <4>. QED
        BY <4>2, <4>3
    <3>3. LiteralsSurvive'
      BY <3>1 DEF LiteralsSurvive
    <3>. QED
      BY <3>1, <3>2, <3>3 DEF LiteralsInv
  <2>3. HeldInv'
    BY AllocKeeps DEF HeldInv, TypeOK
  <2>. QED
    BY <2>1, <2>2, <2>3, AllocKeeps
<1>2. CASE ParseEnds
  BY <1>2 DEF ParseEnds, TypeOK, CountInv, HeapStaysSmall, LiteralsInv, LiteralsSurvive, HeldInv, Closed
<1>3. CASE EmitString
  <2>. USE <1>3, ConstantFacts DEF EmitString
  <2>1. PICK t \in 0..MaxLiterals :
           /\ ast[Len(consts) + 1] \in live => t = text[ast[Len(consts) + 1]]
           /\ consts' = Append(consts, t)
    OBVIOUS
  <2>2. /\ Len(consts) \in Nat /\ Len(ast) \in Nat /\ consts' \in Seq(0..MaxLiterals)
        /\ Len(consts') = Len(consts) + 1 /\ consts'[Len(consts) + 1] = t
        /\ \A i \in 1..Len(consts) : consts'[i] = consts[i]
    BY <2>1 DEF TypeOK
  <2>3. TypeOK'
    BY <2>2 DEF TypeOK
  <2>4. LiteralsInv'
    <3>1. ASSUME Len(ast) <= InitialThreshold
          PROVE  LiteralsSurvive'
      <4>1. t = Len(consts) + 1
        BY <2>1, <2>2, <3>1 DEF LiteralsInv
      <4>. QED
        BY <2>2, <3>1, <4>1 DEF LiteralsInv, LiteralsSurvive
    <3>. QED
      BY <3>1 DEF LiteralsInv
  <2>5. CountInv' /\ HeapStaysSmall' /\ HeldInv'
    BY DEF CountInv, HeapStaysSmall, HeldInv, Closed
  <2>. QED
    BY <2>3, <2>4, <2>5
<1>4. CASE RunStarts
  BY <1>4 DEF RunStarts, TypeOK, CountInv, HeapStaysSmall, LiteralsInv, LiteralsSurvive, HeldInv, Closed
<1>5. CASE RunStartsAhead
  <2>1. TypeOK'
    BY <1>5, ConstantFacts DEF RunStartsAhead, TypeOK, Graphs
  <2>2. CountInv' /\ HeapStaysSmall'
    BY <1>5, ConstantFacts, FS_EmptySet DEF RunStartsAhead, CountInv, HeapStaysSmall
  <2>3. LiteralsInv'
    BY <1>5 DEF RunStartsAhead, LiteralsInv, LiteralsSurvive
  <2>4. HeldInv'
    BY <1>5 DEF RunStartsAhead, HeldInv, Closed
  <2>. QED
    BY <2>1, <2>2, <2>3, <2>4
<1>6. ASSUME NEW o \in Obj, NEW x \in Slots, NewString(x, o)
      PROVE  IInv'
  BY <1>6, NewValueKeeps DEF NewString
<1>7. ASSUME NEW o \in Obj, NEW x \in Slots, NEW y \in Slots, NEW z \in Slots, Concat(x, y, z, o)
      PROVE  IInv'
  BY <1>7, NewValueKeeps DEF Concat
<1>8. ASSUME NEW o \in Obj, NEW xs \in SUBSET Slots, NEW z \in Slots, BuildArray(xs, z, o)
      PROVE  IInv'
  <2>. DEFINE held == {slots[x] : x \in xs} \ {Nil}
  <2>1. held \in SUBSET Obj
    BY DEF TypeOK
  <2>2. allocs < InitialThreshold => held \subseteq live
    BY ConstantFacts DEF HeldInv, TypeOK
  <2>. QED
    BY <1>8, <2>1, <2>2, NewValueKeeps DEF BuildArray
<1>9. ASSUME NEW x \in Slots, NEW z \in Slots, Index(x, z)
      PROVE  IInv'
  <2>1. PICK o \in elems[slots[x]] : slots' = [slots EXCEPT ![z] = o]
    BY <1>9 DEF Index
  <2>2. slots[x] \in live /\ o \in Obj
    BY <1>9, <2>1 DEF Index, IsArray, TypeOK, Graphs
  <2>3. TypeOK'
    BY <1>9, <2>1, <2>2 DEF Index, TypeOK
  <2>4. HeldInv'
    BY <1>9, <2>1, <2>2 DEF Index, HeldInv, Closed, TypeOK
  <2>. QED
    BY <1>9, <2>3, <2>4 DEF Index, CountInv, HeapStaysSmall, LiteralsInv, LiteralsSurvive
<1>10. ASSUME NEW x \in Slots, NEW y \in Slots, IndexSet(x, y)
       PROVE  IInv'
  <2>1. PICK kept \in SUBSET elems[slots[x]] :
           elems' = [elems EXCEPT ![slots[x]] = kept \cup {slots[y]}]
    BY <1>10 DEF IndexSet
  <2>2. slots[x] \in live /\ slots[x] \in Obj /\ slots[y] \in Obj
    BY <1>10 DEF IndexSet, IsArray, TypeOK
  <2>3. TypeOK'
    BY <1>10, <2>1, <2>2 DEF IndexSet, TypeOK, Graphs
  <2>4. HeldInv'
    BY <1>10, <2>1, <2>2, ConstantFacts DEF IndexSet, HeldInv, Closed, TypeOK, Graphs
  <2>. QED
    BY <1>10, <2>3, <2>4 DEF IndexSet, CountInv, HeapStaysSmall, LiteralsInv, LiteralsSurvive
<1>11. ASSUME NEW x \in Slots, Forget(x)
       PROVE  IInv'
  BY <1>11 DEF Forget, TypeOK, CountInv, HeapStaysSmall, LiteralsInv, LiteralsSurvive, HeldInv, Closed
<1>12. CASE UNCHANGED vars
  BY <1>12 DEF vars, TypeOK, CountInv, HeapStaysSmall, LiteralsInv, LiteralsSurvive, HeldInv, Closed
<1>. QED
  BY <1>1, <1>2, <1>3, <1>4, <1>5, <1>6, <1>7, <1>8, <1>9, <1>10, <1>11, <1>12 DEF Next

LEMMA Invariance == Spec => []IInv
BY InitIInv, NextIInv, PTL DEF Spec
-----------------------------------------------------------------------------
\* Arrays refer to objects only, never to nil or to numbers, and slots to objects
\* or to none, whatever the program builds, indexes and stores.
THEOREM TypesAreRight == Spec => []TypeOK
<1>1. IInv => TypeOK
  BY DEF IInv
<1>. QED
  BY <1>1, Invariance, PTL

\* The heap of a druk process never holds more than kInitialThreshold objects, and
\* kGrowthFactor never applies: collect starts from g_globals, which is empty.
THEOREM HeapIsSmall == Spec => []HeapStaysSmall
<1>1. IInv => HeapStaysSmall
  BY DEF IInv
<1>. QED
  BY <1>1, Invariance, PTL

\* Up to allocation number kInitialThreshold no literal of the source and no value
\* the compiled program holds is lost.
THEOREM SafeUntilThen == Spec => []SafeUntilFirstCollection
<1>1. IInv => SafeUntilFirstCollection
  <2>. SUFFICES ASSUME IInv, allocs <= InitialThreshold
                PROVE  HeldValuesAreLive
    BY DEF SafeUntilFirstCollection, IInv, LiteralsInv
  <2>1. Range(slots) \ {Nil} \subseteq live /\ Closed(live, elems) /\ live \in SUBSET Obj
    BY DEF IInv, HeldInv, TypeOK, Range
  <2>. QED
    BY <2>1 DEF HeldValuesAreLive, Reach
<1>. QED
  BY <1>1, Invariance, PTL
=============================================================================
