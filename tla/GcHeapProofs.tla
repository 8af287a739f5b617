---------------------------- MODULE GcHeapProofs ----------------------------
(***************************************************************************)
(* The heap of GcHeap is correct for every set of addresses and every      *)
(* choice of thresholds that ThresholdAssumption allows: IInv is inductive *)
(* and gives the safety properties, each step of the heap is a step of     *)
(* Memory or leaves it alone, and a collection frees exactly the garbage.  *)
(***************************************************************************)
EXTENDS GcHeap, SequenceTheorems, TLAPS

\* What is reachable contains its starting points and is closed.
LEMMA ReachIsClosed ==
    ASSUME NEW from \in SUBSET Obj, NEW r \in Graphs
    PROVE  /\ from \subseteq Reach(from, r)
           /\ Closed(Reach(from, r), r)
           /\ Reach(from, r) \subseteq Obj
BY DEF Reach, Closed, Graphs

\* It is the least such set: one closed set with the starting points bounds it.
LEMMA ReachIsLeast ==
    ASSUME NEW from, NEW r, NEW S \in SUBSET Obj,
           from \subseteq S, Closed(S, r)
    PROVE  Reach(from, r) \subseteq S
BY DEF Reach

\* Changing what unreachable objects refer to leaves reachability alone.
LEMMA ReachIgnoresGarbage ==
    ASSUME NEW from \in SUBSET Obj, NEW r1 \in Graphs, NEW r2 \in Graphs,
           \A o \in Reach(from, r1) : r2[o] = r1[o]
    PROVE  Reach(from, r2) = Reach(from, r1)
<1>1. Reach(from, r2) \subseteq Reach(from, r1)
  <2>1. Closed(Reach(from, r1), r2)
    BY ReachIsClosed DEF Closed
  <2>. QED
    BY <2>1, ReachIsClosed, ReachIsLeast
<1>2. Reach(from, r1) \subseteq Reach(from, r2)
  <2>1. Closed(Reach(from, r2), r1)
    BY <1>1, ReachIsClosed DEF Closed
  <2>. QED
    BY <2>1, ReachIsClosed, ReachIsLeast
<1>. QED
  BY <1>1, <1>2
-----------------------------------------------------------------------------
\* Taking the first element off a list.
LEMMA RangeOfTail ==
    ASSUME NEW S, NEW s \in Seq(S), s # <<>>
    PROVE  /\ Head(s) \in S
           /\ Tail(s) \in Seq(S)
           /\ Range(s) = Range(Tail(s)) \cup {Head(s)}
           /\ IsInjective(s) => IsInjective(Tail(s)) /\ Head(s) \notin Range(Tail(s))
<1>1. /\ Head(s) \in S /\ Tail(s) \in Seq(S)
      /\ Len(s) \in Nat \ {0}
      /\ Len(Tail(s)) = Len(s) - 1
      /\ \A i \in 1..Len(Tail(s)) : Tail(s)[i] = s[i + 1]
      /\ Head(s) = s[1]
      /\ DOMAIN s = 1..Len(s)
      /\ DOMAIN Tail(s) = 1..(Len(s) - 1)
  BY HeadTailProperties, EmptySeq, LenProperties
<1>2. Range(s) \subseteq Range(Tail(s)) \cup {Head(s)}
  <2>. SUFFICES ASSUME NEW i \in 1..Len(s), s[i] # Head(s)
                PROVE  s[i] \in Range(Tail(s))
    BY <1>1 DEF Range
  <2>1. i - 1 \in 1..(Len(s) - 1) /\ Tail(s)[i - 1] = s[i]
    BY <1>1
  <2>. QED
    BY <1>1, <2>1 DEF Range
<1>3. Range(Tail(s)) \cup {Head(s)} \subseteq Range(s)
  <2>1. \A i \in 1..(Len(s) - 1) : Tail(s)[i] = s[i + 1] /\ i + 1 \in 1..Len(s)
    BY <1>1
  <2>2. 1 \in 1..Len(s)
    BY <1>1
  <2>. QED
    BY <1>1, <2>1, <2>2 DEF Range
<1>4. ASSUME IsInjective(s)
      PROVE  IsInjective(Tail(s)) /\ Head(s) \notin Range(Tail(s))
  <2>1. \A i, j \in 1..Len(s) : s[i] = s[j] => i = j
    BY <1>1, <1>4 DEF IsInjective
  <2>2. \A i, j \in 1..(Len(s) - 1) : Tail(s)[i] = Tail(s)[j] => i = j
    BY <1>1, <2>1
  <2>3. \A i \in 1..(Len(s) - 1) : Tail(s)[i] # Head(s)
    BY <1>1, <2>1
  <2>. QED
    BY <1>1, <2>2, <2>3 DEF IsInjective, Range
<1>. QED
  BY <1>1, <1>2, <1>3, <1>4

\* Adding an element at the end.
LEMMA RangeOfAppend ==
    ASSUME NEW S, NEW s \in Seq(S), NEW e \in S
    PROVE  /\ Append(s, e) \in Seq(S)
           /\ Len(Append(s, e)) = Len(s) + 1
           /\ Range(Append(s, e)) = Range(s) \cup {e}
           /\ IsInjective(s) /\ e \notin Range(s) => IsInjective(Append(s, e))
<1>1. /\ Append(s, e) \in Seq(S)
      /\ Len(s) \in Nat
      /\ Len(Append(s, e)) = Len(s) + 1
      /\ \A i \in 1..Len(s) : Append(s, e)[i] = s[i]
      /\ Append(s, e)[Len(s) + 1] = e
      /\ DOMAIN s = 1..Len(s)
      /\ DOMAIN Append(s, e) = 1..(Len(s) + 1)
  BY AppendProperties, LenProperties
<1>2. 1..(Len(s) + 1) = 1..Len(s) \cup {Len(s) + 1}
  BY <1>1
<1>3. Range(Append(s, e)) = Range(s) \cup {e}
  BY <1>1, <1>2 DEF Range
<1>4. ASSUME IsInjective(s), e \notin Range(s)
      PROVE  IsInjective(Append(s, e))
  BY <1>1, <1>2, <1>4 DEF IsInjective, Range
<1>. QED
  BY <1>1, <1>3, <1>4

\* Adding an element at the head.
LEMMA RangeOfCons ==
    ASSUME NEW S, NEW s \in Seq(S), NEW e \in S
    PROVE  /\ <<e>> \o s \in Seq(S)
           /\ Len(<<e>> \o s) = Len(s) + 1
           /\ Range(<<e>> \o s) = Range(s) \cup {e}
           /\ IsInjective(s) /\ e \notin Range(s) => IsInjective(<<e>> \o s)
<1>. DEFINE t == <<e>> \o s
<1>1. /\ t \in Seq(S)
      /\ Len(s) \in Nat
      /\ Len(t) = Len(s) + 1
      /\ t[1] = e
      /\ \A i \in 2..(Len(s) + 1) : t[i] = s[i - 1]
      /\ DOMAIN s = 1..Len(s)
      /\ DOMAIN t = 1..(Len(s) + 1)
  <2>1. <<e>> \in Seq(S) /\ Len(<<e>>) = 1
    OBVIOUS
  <2>. QED
    BY <2>1, ConcatProperties, LenProperties
<1>. HIDE DEF t
<1>2. \A i \in 1..Len(s) : i + 1 \in 2..(Len(s) + 1) /\ t[i + 1] = s[i]
  BY <1>1
<1>3. 1..(Len(s) + 1) = {1} \cup 2..(Len(s) + 1)
  BY <1>1
<1>4. Range(t) = Range(s) \cup {e}
  <2>1. Range(t) \subseteq Range(s) \cup {e}
    <3>1. \A i \in 2..(Len(s) + 1) : i - 1 \in 1..Len(s)
      BY <1>1
    <3>. QED
      BY <1>1, <1>3, <3>1 DEF Range
  <2>2. Range(s) \cup {e} \subseteq Range(t)
    BY <1>1, <1>2, <1>3 DEF Range
  <2>. QED
    BY <2>1, <2>2
<1>5. ASSUME IsInjective(s), e \notin Range(s)
      PROVE  IsInjective(t)
  <2>1. \A i \in 2..(Len(s) + 1) : i - 1 \in 1..Len(s) /\ t[i] # e
    BY <1>1, <1>5 DEF Range
  <2>2. \A i, j \in 2..(Len(s) + 1) : t[i] = t[j] => i = j
    BY <1>1, <1>5, <2>1 DEF IsInjective
  <2>. QED
    BY <1>1, <1>3, <2>1, <2>2 DEF IsInjective
<1>. QED
  BY <1>1, <1>4, <1>5 DEF t
-----------------------------------------------------------------------------
LEMMA ConstantFacts ==
    /\ InitialThreshold \in Nat \ {0}
    /\ GrowthFactor \in Nat \ {0, 1}
    /\ MinThreshold \in 1..InitialThreshold
BY ThresholdAssumption

\* After a collection the survivors are fewer than the new threshold.
LEMMA NewThresholdMakesRoom ==
    ASSUME NEW n \in Nat
    PROVE  NewThreshold(n) \in Nat /\ n < NewThreshold(n)
<1>1. CASE n < MinThreshold
  BY <1>1, ConstantFacts DEF NewThreshold
<1>2. CASE ~(n < MinThreshold)
  <2>1. n \in Nat \ {0}
    BY <1>2, ConstantFacts
  <2>2. \A g \in Nat \ {0, 1} : n * g \in Nat /\ n < n * g
    <3>. TAKE g \in Nat \ {0, 1}
    <3>1. n * g = n + n * (g - 1) /\ n * (g - 1) \in Nat /\ n * (g - 1) >= n
      BY <2>1
    <3>. QED
      BY <2>1, <3>1
  <2>. QED
    BY <1>2, <2>2, ConstantFacts DEF NewThreshold
<1>. QED
  BY <1>1, <1>2
-----------------------------------------------------------------------------
LEMMA InitIInv == Init => IInv
<1>. SUFFICES ASSUME Init PROVE IInv
  OBVIOUS
<1>1. TypeOK
  BY ConstantFacts, EmptySeq DEF Init, TypeOK, Phases, Graphs
<1>2. Range(unswept) = {} /\ Range(swept) = {} /\ Len(unswept) = 0
  BY DEF Init, Range
<1>3. InUse = {}
  BY ReachIsLeast DEF Init, InUse, Closed
<1>. QED
  BY <1>1, <1>2, <1>3
  DEF Init, IInv, RootedIsLive, LinkedOnce, MarksAreClear, CountIsExact,
      CollectionMakesRoom, MarkInv, SweepInv, IsInjective

\* What the sweep's cursor does to the list, whether the object is kept or not.
LEMMA CursorStep ==
    ASSUME TypeOK, LinkedOnce, unswept # <<>>
    PROVE  /\ Head(unswept) \in Obj
           /\ Tail(unswept) \in Seq(Obj)
           /\ Range(unswept) = Range(Tail(unswept)) \cup {Head(unswept)}
           /\ IsInjective(Tail(unswept))
           /\ Head(unswept) \notin Range(Tail(unswept))
           /\ Head(unswept) \notin Range(swept)
BY RangeOfTail DEF TypeOK, LinkedOnce

LEMMA NextIInv == IInv /\ [Next]_vars => IInv'
<1>. SUFFICES ASSUME IInv, [Next]_vars PROVE IInv'
  OBVIOUS
<1>. USE DEF IInv, Phases
<1>a. /\ roots \in SUBSET Obj /\ refs \in Graphs
      /\ roots \subseteq InUse /\ Closed(InUse, refs) /\ InUse \subseteq Obj
  BY ReachIsClosed DEF TypeOK, InUse
<1>1. CASE AllocCollects
  <2>1. TypeOK' /\ InUse' = InUse /\ Live' = Live
    BY <1>1 DEF AllocCollects, TypeOK, InUse, Live
  <2>2. MarkInv'
    BY <1>1, <1>a, <2>1 DEF AllocCollects, MarkInv, MarksAreClear
  <2>. QED
    BY <1>1, <2>1, <2>2 DEF AllocCollects, RootedIsLive, LinkedOnce, MarksAreClear,
       CountIsExact, CollectionMakesRoom, SweepInv
<1>2. CASE AllocGoesOn
  <2>1. TypeOK' /\ InUse' = InUse /\ Live' = Live
    BY <1>2 DEF AllocGoesOn, heapVars, TypeOK, InUse, Live
  <2>. QED
    BY <1>2, <2>1 DEF AllocGoesOn, heapVars, RootedIsLive, LinkedOnce, MarksAreClear,
       CountIsExact, CollectionMakesRoom, MarkInv, SweepInv
<1>3. ASSUME NEW o \in Obj, MarkAgain(o)
      PROVE  IInv'
  <2>1. TypeOK' /\ InUse' = InUse /\ Live' = Live
    BY <1>3 DEF MarkAgain, TypeOK, InUse, Live
  <2>2. MarkInv'
    BY <1>3, <2>1 DEF MarkAgain, MarkInv
  <2>. QED
    BY <1>3, <2>1, <2>2 DEF MarkAgain, RootedIsLive, LinkedOnce, MarksAreClear,
       CountIsExact, CollectionMakesRoom, SweepInv
<1>4. ASSUME NEW o \in Obj, MarkObject(o)
      PROVE  IInv'
  <2>1. TypeOK' /\ InUse' = InUse /\ Live' = Live
    BY <1>4 DEF MarkObject, TypeOK, InUse, Live, Graphs
  <2>2. refs[o] \subseteq InUse
    BY <1>4, <1>a DEF MarkObject, MarkInv, Closed
  <2>3. MarkInv'
    BY <1>4, <2>1, <2>2 DEF MarkObject, MarkInv
  <2>. QED
    BY <1>4, <2>1, <2>3 DEF MarkObject, RootedIsLive, LinkedOnce, MarksAreClear,
       CountIsExact, CollectionMakesRoom, SweepInv
<1>5. CASE MarkPhaseEnds
  <2>1. TypeOK' /\ InUse' = InUse /\ Live' = Live
    BY <1>5 DEF MarkPhaseEnds, TypeOK, InUse, Live
  <2>2. marked = InUse
    <3>1. InUse \subseteq marked
      BY <1>5, ReachIsLeast DEF MarkPhaseEnds, MarkInv, Closed, InUse, TypeOK
    <3>. QED
      BY <1>5, <3>1 DEF MarkPhaseEnds, MarkInv
  <2>3. Live = Range(unswept) /\ Range(swept) = {} /\ Len(swept) = 0
    BY <1>5 DEF MarkPhaseEnds, CountIsExact, Live, Range
  <2>4. SweepInv'
    BY <1>5, <2>1, <2>2, <2>3 DEF MarkPhaseEnds, SweepInv, RootedIsLive
  <2>. QED
    BY <1>5, <2>1, <2>4 DEF MarkPhaseEnds, RootedIsLive, LinkedOnce, MarksAreClear,
       CountIsExact, CollectionMakesRoom, MarkInv
<1>6. CASE SweepKeeps
  <2>. DEFINE o == Head(unswept)
  <2>1. unswept # <<>> /\ o \in InUse
    BY <1>6, CursorStep DEF SweepKeeps, SweepInv
  <2>2. /\ swept' \in Seq(Obj) /\ Len(swept') = Len(swept) + 1
        /\ Range(swept') = Range(swept) \cup {o}
        /\ IsInjective(swept')
    BY <1>6, <2>1, CursorStep, RangeOfAppend DEF SweepKeeps, TypeOK, LinkedOnce
  <2>3. TypeOK' /\ InUse' = InUse
    BY <1>6, <2>1, <2>2, CursorStep DEF SweepKeeps, TypeOK, InUse
  <2>4. Live' = Live /\ LinkedOnce'
    BY <1>6, <2>1, <2>2, CursorStep DEF SweepKeeps, Live, LinkedOnce
  <2>5. SweepInv'
    <3>1. alive' = Len(swept)'
      BY <1>6, <2>2 DEF SweepKeeps, SweepInv
    <3>2. Range(swept)' \subseteq InUse' /\ marked' \subseteq Range(unswept)'
      BY <1>6, <2>1, <2>2, <2>3, CursorStep DEF SweepKeeps, SweepInv
    <3>3. \A p \in Range(unswept)' : p \in marked' <=> p \in InUse'
      BY <1>6, <2>1, <2>3, CursorStep DEF SweepKeeps, SweepInv
    <3>. QED
      BY <3>1, <3>2, <3>3 DEF SweepInv
  <2>. QED
    BY <1>6, <2>3, <2>4, <2>5 DEF SweepKeeps, RootedIsLive, MarksAreClear,
       CountIsExact, CollectionMakesRoom, MarkInv
<1>7. CASE SweepFrees
  <2>. DEFINE o == Head(unswept)
  <2>1. unswept # <<>> /\ o \notin InUse
    BY <1>7, CursorStep DEF SweepFrees, SweepInv
  <2>2. TypeOK'
    BY <1>7, <2>1, CursorStep DEF SweepFrees, TypeOK, Graphs
  <2>3. InUse' = InUse
    <3>1. \A p \in Reach(roots, refs) : refs'[p] = refs[p]
      BY <1>7, <1>a, <2>1, CursorStep DEF SweepFrees, InUse, Graphs
    <3>. QED
      BY <1>7, <1>a, <2>2, <3>1, ReachIgnoresGarbage DEF SweepFrees, InUse, TypeOK
  <2>4. RootedIsLive' /\ LinkedOnce'
    BY <1>7, <2>1, <2>3, CursorStep DEF SweepFrees, RootedIsLive, Live, LinkedOnce
  <2>5. SweepInv'
    BY <1>7, <2>1, <2>3, CursorStep DEF SweepFrees, SweepInv
  <2>. QED
    BY <1>7, <2>2, <2>4, <2>5 DEF SweepFrees, MarksAreClear,
       CountIsExact, CollectionMakesRoom, MarkInv
<1>8. CASE CollectEnds
  <2>1. Range(unswept) = {} /\ marked = {}
    BY <1>8 DEF CollectEnds, SweepInv, Range
  <2>2. NewThreshold(alive) \in Nat /\ alive < NewThreshold(alive)
    BY NewThresholdMakesRoom DEF TypeOK
  <2>3. TypeOK' /\ InUse' = InUse
    BY <1>8, <2>2, EmptySeq DEF CollectEnds, TypeOK, InUse
  <2>4. Range(swept') = {} /\ Live' = Live
    BY <1>8, <2>1 DEF CollectEnds, Live, Range
  <2>5. LinkedOnce'
    BY <1>8, <2>4 DEF CollectEnds, LinkedOnce, IsInjective
  <2>. QED
    BY <1>8, <2>1, <2>2, <2>3, <2>4, <2>5 DEF CollectEnds, RootedIsLive, MarksAreClear,
       CountIsExact, CollectionMakesRoom, MarkInv, SweepInv
<1>9. ASSUME NEW o \in Obj, Link(o)
      PROVE  IInv'
  <2>1. /\ unswept' \in Seq(Obj) /\ Len(unswept') = Len(unswept) + 1
        /\ Range(unswept') = Range(unswept) \cup {o}
        /\ IsInjective(unswept')
    BY <1>9, RangeOfCons DEF Link, TypeOK, LinkedOnce, Live
  <2>2. TypeOK'
    BY <1>9, <2>1 DEF Link, TypeOK, Graphs
  <2>3. InUse' \subseteq InUse \cup {o}
    <3>1. Closed(InUse \cup {o}, refs') /\ roots' \subseteq InUse \cup {o}
      BY <1>9, <1>a DEF Link, Closed, Graphs
    <3>. QED
      BY <3>1, <1>a, ReachIsLeast DEF InUse
  <2>4. Live' = Live \cup {o} /\ o \notin Live
    BY <1>9, <2>1 DEF Link, Live
  <2>5. RootedIsLive' /\ LinkedOnce'
    BY <1>9, <2>1, <2>3, <2>4 DEF Link, RootedIsLive, LinkedOnce, Live
  <2>6. CountIsExact'
    BY <1>9, <2>1 DEF Link, CountIsExact
  <2>. QED
    BY <1>9, <2>2, <2>5, <2>6 DEF Link, MarksAreClear, CollectionMakesRoom, MarkInv, SweepInv
<1>10. ASSUME NEW p \in Obj, NEW o \in Obj, Store(p, o)
       PROVE  IInv'
  <2>1. TypeOK' /\ Live' = Live
    BY <1>10 DEF Store, heapVars, TypeOK, Live, Graphs
  <2>2. InUse' \subseteq InUse
    <3>1. Closed(InUse, refs')
      BY <1>10, <1>a DEF Store, Closed, Graphs
    <3>. QED
      BY <1>10, <3>1, <1>a, ReachIsLeast DEF Store, InUse
  <2>. QED
    BY <1>10, <2>1, <2>2 DEF Store, heapVars, RootedIsLive, LinkedOnce, MarksAreClear,
       CountIsExact, CollectionMakesRoom, MarkInv, SweepInv
<1>11. ASSUME NEW p \in Obj, NEW o \in Obj, Remove(p, o)
       PROVE  IInv'
  <2>1. TypeOK' /\ Live' = Live
    BY <1>11 DEF Remove, heapVars, TypeOK, Live, Graphs
  <2>2. InUse' \subseteq InUse
    <3>1. Closed(InUse, refs')
      BY <1>11, <1>a DEF Remove, Closed, Graphs
    <3>. QED
      BY <1>11, <3>1, <1>a, ReachIsLeast DEF Remove, InUse
  <2>. QED
    BY <1>11, <2>1, <2>2 DEF Remove, heapVars, RootedIsLive, LinkedOnce, MarksAreClear,
       CountIsExact, CollectionMakesRoom, MarkInv, SweepInv
<1>12. ASSUME NEW o \in Obj, Root(o) \/ Unroot(o)
       PROVE  IInv'
  <2>1. TypeOK' /\ Live' = Live
    BY <1>12 DEF Root, Unroot, heapVars, TypeOK, Live
  <2>2. InUse' \subseteq InUse
    <3>1. roots' \subseteq InUse /\ refs' = refs
      BY <1>12, <1>a DEF Root, Unroot
    <3>. QED
      BY <3>1, <1>a, ReachIsLeast DEF InUse
  <2>. QED
    BY <1>12, <2>1, <2>2 DEF Root, Unroot, heapVars, RootedIsLive, LinkedOnce, MarksAreClear,
       CountIsExact, CollectionMakesRoom, MarkInv, SweepInv
<1>13. CASE UNCHANGED vars
  <2>1. InUse' = InUse /\ Live' = Live
    BY <1>13 DEF vars, heapVars, InUse, Live
  <2>. QED
    BY <1>13, <2>1 DEF vars, heapVars, TypeOK, RootedIsLive, LinkedOnce, MarksAreClear,
       CountIsExact, CollectionMakesRoom, MarkInv, SweepInv
<1>. QED
  BY <1>1, <1>2, <1>3, <1>4, <1>5, <1>6, <1>7, <1>8, <1>9, <1>10, <1>11, <1>12, <1>13
  DEF Next, Alloc, Collector, Mark, Sweep, Client

LEMMA Invariance == Spec => []IInv
BY InitIInv, NextIInv, PTL DEF Spec
-----------------------------------------------------------------------------
\* The variables keep their types: no list, counter or graph of gc_heap.h
\* ever holds anything but addresses and natural numbers.
THEOREM TypeCorrect == Spec => []TypeOK
BY Invariance, PTL DEF IInv

\* gc_heap_collect.cpp frees no object the client can reach from its roots.
THEOREM NoReachableObjectIsFreed == Spec => []RootedIsLive
BY Invariance, PTL DEF IInv

\* Every collection starts from clear marks.
THEOREM CollectionsStartUnmarked == Spec => []MarksAreClear
BY Invariance, PTL DEF IInv

\* No object is on the intrusive list twice, whatever alloc links and the sweep
\* unlinks.
THEOREM ListIsLinkedOnce == Spec => []LinkedOnce
BY Invariance, PTL DEF IInv

\* count_, which alloc raises by one and collect sets to the survivors the sweep has
\* counted, is the number of objects on the list whenever no sweep is under way.
THEOREM CountIsTrue == Spec => []CountIsExact
BY Invariance, PTL DEF IInv

\* The object whose allocation triggered a collection always fits under the
\* threshold that collection computed.
THEOREM CollectingMakesRoom == Spec => []CollectionMakesRoom
BY Invariance, PTL DEF IInv

\* When collect returns, the list holds exactly the reachable objects.
THEOREM CollectingIsExact == Spec => CollectionIsExact
<1>1. IInv /\ [Next]_vars => [CollectEnds => Live = InUse]_vars
  <2>. SUFFICES ASSUME IInv, CollectEnds PROVE Live = InUse
    OBVIOUS
  <2>1. Range(unswept) = {}
    BY DEF CollectEnds, Range
  <2>. QED
    BY <2>1 DEF CollectEnds, IInv, SweepInv, RootedIsLive, Live
<1>. QED
  BY <1>1, Invariance, PTL DEF Spec, CollectionIsExact
-----------------------------------------------------------------------------
\* Memory, as instantiated by GcHeap, speaks of the same reachable set.
LEMMA SameInUse == M!InUse = InUse
BY DEF M!InUse, M!Reach, M!Closed, InUse, Reach, Closed

LEMMA InitMaps == Init => M!Init
BY DEF Init, M!Init, Live, Range

LEMMA StepMaps == IInv /\ [Next]_vars => [M!Next]_(M!vars)
<1>. SUFFICES ASSUME IInv, [Next]_vars PROVE [M!Next]_(M!vars)
  OBVIOUS
<1>. USE DEF IInv
<1>1. CASE Live' = Live /\ UNCHANGED <<refs, roots>>
  BY <1>1 DEF M!vars
<1>2. CASE AllocCollects \/ AllocGoesOn \/ MarkPhaseEnds \/ Mark
  <2>1. Live' = Live /\ UNCHANGED <<refs, roots>>
    BY <1>2 DEF AllocCollects, AllocGoesOn, MarkPhaseEnds, Mark, MarkAgain, MarkObject,
       heapVars, Live
  <2>. QED
    BY <1>1, <2>1
<1>3. CASE SweepKeeps
  <2>1. Range(swept') = Range(swept) \cup {Head(unswept)}
    BY <1>3, CursorStep, RangeOfAppend DEF SweepKeeps, TypeOK
  <2>2. Live' = Live /\ UNCHANGED <<refs, roots>>
    BY <1>3, <2>1, CursorStep DEF SweepKeeps, Live
  <2>. QED
    BY <1>1, <2>2
<1>4. CASE SweepFrees
  <2>. DEFINE o == Head(unswept)
  <2>1. o \in Obj /\ o \notin InUse /\ o \in Live
    BY <1>4, CursorStep DEF SweepFrees, SweepInv, Live
  <2>2. Live' = Live \ {o}
    BY <1>4, CursorStep DEF SweepFrees, Live
  <2>3. M!Free(o)
    BY <1>4, <2>1, <2>2, SameInUse DEF SweepFrees, M!Free
  <2>. QED
    BY <2>1, <2>3 DEF M!Next
<1>5. CASE CollectEnds
  <2>1. Range(unswept) = {} /\ Range(swept') = {}
    BY <1>5 DEF CollectEnds, Range
  <2>2. Live' = Live /\ UNCHANGED <<refs, roots>>
    BY <1>5, <2>1 DEF CollectEnds, Live
  <2>. QED
    BY <1>1, <2>2
<1>6. ASSUME NEW o \in Obj, Link(o)
      PROVE  M!Next
  <2>1. Range(unswept') = Range(unswept) \cup {o}
    BY <1>6, RangeOfCons DEF Link, TypeOK
  <2>2. M!New(o)
    BY <1>6, <2>1 DEF Link, M!New, Live
  <2>. QED
    BY <2>2 DEF M!Next
<1>7. ASSUME NEW o \in Obj, Root(o) \/ Unroot(o)
      PROVE  M!Next
  <2>1. M!Root(o) \/ M!Unroot(o)
    BY <1>7, SameInUse DEF Root, Unroot, M!Root, M!Unroot, heapVars, Live
  <2>. QED
    BY <2>1 DEF M!Next
<1>8. ASSUME NEW p \in Obj, NEW o \in Obj, Store(p, o) \/ Remove(p, o)
      PROVE  M!Next
  <2>1. M!Store(p, o) \/ M!Remove(p, o)
    BY <1>8, SameInUse DEF Store, Remove, M!Store, M!Remove, heapVars, Live
  <2>. QED
    BY <2>1 DEF M!Next
<1>9. CASE UNCHANGED vars
  BY <1>1, <1>9 DEF vars, heapVars, Live
<1>. QED
  BY <1>2, <1>3, <1>4, <1>5, <1>6, <1>7, <1>8, <1>9
  DEF Next, Alloc, Collector, Sweep, Client

\* The mark-and-sweep heap implements the memory its clients are promised.
THEOREM HeapImplementsMemory == Spec => ImplementsMemory
BY InitMaps, StepMaps, Invariance, PTL DEF Spec, ImplementsMemory, M!Spec
=============================================================================
