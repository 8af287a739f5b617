------------------------------- MODULE GcHeap -------------------------------
(***************************************************************************)
(* The mark-and-sweep heap of include/druk/gc/gc_heap.h and src/gc.        *)
(*                                                                         *)
(* Every object is linked on one intrusive list (head_ and GcObject::next).*)
(* alloc collects first when the number of objects has reached the         *)
(* threshold; a collection marks from the registered root sources and then *)
(* walks the list with a cursor, unlinking what is not marked and clearing *)
(* the mark of what is.  The whole program runs on one thread, so the      *)
(* client's operations happen only between two calls of alloc; inside a    *)
(* collection each object visited is a step of its own, because the        *)
(* invariants the algorithm rests on live there.                           *)
(*                                                                         *)
(* The client here is one that keeps everything it uses reachable from     *)
(* g_globals, the single root source the runtime registers.  RuntimeHeap   *)
(* models the clients the program really has.                              *)
(***************************************************************************)
EXTENDS Sequences, Functions, GcConfig, Reachability

VARIABLES
    phase,      \* where the thread is: see Phases
    unswept,    \* the list from the sweep cursor on; the whole list otherwise
    swept,      \* the part of the list the sweep cursor has passed
    marked,     \* the objects whose mark bit is set
    grey,       \* references markObject has still to follow
    alive,      \* the local counter of sweepPhase
    count,      \* count_
    threshold,  \* threshold_
    refs,       \* the references held in elements and fields
    roots       \* the objects the root source reports

heapVars == <<unswept, swept, marked, grey, alive, count, threshold>>
vars == <<phase, heapVars, refs, roots>>

\* "client": no call in progress; "mark" and "sweep": the two phases of
\* collect; "link": alloc, past maybeCollect.
Phases == {"client", "mark", "sweep", "link"}

Live == Range(swept) \cup Range(unswept)
InUse == Reach(roots, refs)

Init ==
    /\ phase = "client"
    /\ unswept = <<>> /\ swept = <<>>
    /\ marked = {} /\ grey = {}
    /\ alive = 0 /\ count = 0
    /\ threshold = InitialThreshold
    /\ refs = [o \in Obj |-> {}]
    /\ roots = {}
-----------------------------------------------------------------------------
\* alloc calls maybeCollect, which enters collect when count_ has reached
\* threshold_: the mark phase starts from the root sources.
AllocCollects ==
    /\ phase = "client"
    /\ count >= threshold
    /\ phase' = "mark"
    /\ grey' = roots
    /\ UNCHANGED <<unswept, swept, marked, alive, count, threshold, refs, roots>>

AllocGoesOn ==
    /\ phase = "client"
    /\ count < threshold
    /\ phase' = "link"
    /\ UNCHANGED <<heapVars, refs, roots>>

\* markObject on a reference whose object is already marked returns at once.
MarkAgain(o) ==
    /\ phase = "mark"
    /\ o \in grey \cap marked
    /\ grey' = grey \ {o}
    /\ UNCHANGED <<phase, unswept, swept, marked, alive, count, threshold, refs, roots>>

\* Mutant: markObject does not trace what it marks.
MarkWithoutTracing(o) ==
    /\ phase = "mark"
    /\ o \in grey \ marked
    /\ marked' = marked \cup {o}
    /\ grey' = grey \ {o}
    /\ UNCHANGED <<phase, unswept, swept, alive, count, threshold, refs, roots>>

\* Mutant: markObject traces an object again whenever it meets it.
MarkWithoutTest(o) ==
    /\ phase = "mark"
    /\ o \in grey
    /\ marked' = marked \cup {o}
    /\ grey' = (grey \ {o}) \cup refs[o]
    /\ UNCHANGED <<phase, unswept, swept, alive, count, threshold, refs, roots>>

\* markObject sets the mark and then traces.  The recursion follows the
\* references of o depth first; the order does not matter to the result, so
\* they join the references still to be followed.
MarkObject(o) ==
    /\ phase = "mark"
    /\ o \in grey \ marked
    /\ marked' = marked \cup {o}
    /\ grey' = (grey \ {o}) \cup refs[o]
    /\ UNCHANGED <<phase, unswept, swept, alive, count, threshold, refs, roots>>

\* Mutant: the sweep begins although references are still to be followed.
MarkPhaseEndsEarly ==
    /\ phase = "mark"
    /\ phase' = "sweep"
    /\ alive' = 0
    /\ UNCHANGED <<unswept, swept, marked, grey, count, threshold, refs, roots>>

MarkPhaseEnds ==
    /\ phase = "mark"
    /\ grey = {}
    /\ phase' = "sweep"
    /\ alive' = 0
    /\ UNCHANGED <<unswept, swept, marked, grey, count, threshold, refs, roots>>

\* Mutant: the mark of a kept object is not cleared.
SweepKeepsMark ==
    /\ phase = "sweep"
    /\ unswept # <<>>
    /\ Head(unswept) \in marked
    /\ swept' = Append(swept, Head(unswept))
    /\ unswept' = Tail(unswept)
    /\ alive' = alive + 1
    /\ UNCHANGED <<phase, marked, grey, count, threshold, refs, roots>>

\* Mutant: the cursor does not go past a kept object.
SweepKeepsCursor ==
    /\ phase = "sweep"
    /\ unswept # <<>>
    /\ Head(unswept) \in marked
    /\ marked' = marked \ {Head(unswept)}
    /\ swept' = Append(swept, Head(unswept))
    /\ alive' = alive + 1
    /\ UNCHANGED <<phase, unswept, grey, count, threshold, refs, roots>>

\* The cursor is on a marked object: clear the mark and go past it.
SweepKeeps ==
    /\ phase = "sweep"
    /\ unswept # <<>>
    /\ Head(unswept) \in marked
    /\ marked' = marked \ {Head(unswept)}
    /\ swept' = Append(swept, Head(unswept))
    /\ unswept' = Tail(unswept)
    /\ alive' = alive + 1
    /\ UNCHANGED <<phase, grey, count, threshold, refs, roots>>

\* The cursor is on an unmarked object: unlink and delete it.
SweepFrees ==
    /\ phase = "sweep"
    /\ unswept # <<>>
    /\ Head(unswept) \notin marked
    /\ unswept' = Tail(unswept)
    /\ refs' = [refs EXCEPT ![Head(unswept)] = {}]
    /\ UNCHANGED <<phase, swept, marked, grey, alive, count, threshold, roots>>

\* Mutant: count_ keeps the value it had before the sweep.
CollectEndsStaleCount ==
    /\ phase = "sweep"
    /\ unswept = <<>>
    /\ threshold' = NewThreshold(alive)
    /\ unswept' = swept
    /\ swept' = <<>>
    /\ phase' = "link"
    /\ UNCHANGED <<marked, grey, alive, count, refs, roots>>

\* Mutant: the survivors are counted one short.
CollectEndsOneShort ==
    /\ phase = "sweep"
    /\ unswept = <<>>
    /\ count' = alive - 1
    /\ threshold' = NewThreshold(alive)
    /\ unswept' = swept
    /\ swept' = <<>>
    /\ phase' = "link"
    /\ UNCHANGED <<marked, grey, alive, refs, roots>>

\* collect after the sweep: count_ and threshold_ for the next collection.
CollectEnds ==
    /\ phase = "sweep"
    /\ unswept = <<>>
    /\ count' = alive
    /\ threshold' = NewThreshold(alive)
    /\ unswept' = swept
    /\ swept' = <<>>
    /\ phase' = "link"
    /\ UNCHANGED <<marked, grey, alive, refs, roots>>

\* alloc links a new, empty object at the head of the list and returns it;
\* the client roots it before it calls alloc again.  When no address is free
\* operator new throws and the program ends: Link is then disabled.
Link(o) ==
    /\ phase = "link"
    /\ o \notin Live
    /\ unswept' = <<o>> \o unswept
    /\ count' = count + 1
    /\ refs' = [refs EXCEPT ![o] = {}]
    /\ roots' = roots \cup {o}
    /\ phase' = "client"
    /\ UNCHANGED <<swept, marked, grey, alive, threshold>>
-----------------------------------------------------------------------------
\* The client: druk_jit_push, _index_set and _set_field store a reference,
\* druk_jit_pop_array and _index_set drop one, druk_jit_define_global and
\* _set_global overwrite what a global refers to.
Store(p, o) ==
    /\ phase = "client"
    /\ {p, o} \subseteq InUse
    /\ refs' = [refs EXCEPT ![p] = @ \cup {o}]
    /\ UNCHANGED <<phase, heapVars, roots>>

Remove(p, o) ==
    /\ phase = "client"
    /\ p \in InUse
    /\ refs' = [refs EXCEPT ![p] = @ \ {o}]
    /\ UNCHANGED <<phase, heapVars, roots>>

Root(o) ==
    /\ phase = "client"
    /\ o \in InUse
    /\ roots' = roots \cup {o}
    /\ UNCHANGED <<phase, heapVars, refs>>

Unroot(o) ==
    /\ phase = "client"
    /\ roots' = roots \ {o}
    /\ UNCHANGED <<phase, heapVars, refs>>
-----------------------------------------------------------------------------
Mark == \E o \in Obj : MarkAgain(o) \/ MarkObject(o)
Sweep == SweepKeeps \/ SweepFrees
Collector == Mark \/ MarkPhaseEnds \/ Sweep \/ CollectEnds
Alloc == AllocCollects \/ AllocGoesOn \/ \E o \in Obj : Link(o)
Client ==
    \/ \E o \in Obj : Root(o) \/ Unroot(o)
    \/ \E p, o \in Obj : Store(p, o) \/ Remove(p, o)

Next == Alloc \/ Collector \/ Client

Spec == Init /\ [][Next]_vars

\* Once entered, collect runs to its end: the thread does nothing else.
FairSpec == Spec /\ WF_vars(Collector)
-----------------------------------------------------------------------------
TypeOK ==
    /\ phase \in Phases
    /\ unswept \in Seq(Obj) /\ swept \in Seq(Obj)
    /\ marked \subseteq Obj /\ grey \subseteq Obj
    /\ alive \in Nat /\ count \in Nat /\ threshold \in Nat
    /\ refs \in Graphs
    /\ roots \subseteq Obj

\* No object the client can reach is ever off the list: neither a collection
\* cut short by a wrong mark nor the address of a dead object handed out
\* again can pull an object from under the client.
RootedIsLive == InUse \subseteq Live

\* Every collection starts with all marks clear.  A mark left over from the
\* last one would both keep a dead object and hide the children of a live
\* one, which markObject would not trace again.
MarksAreClear == phase \in {"client", "link"} => marked = {}

\* count_ is the length of the list whenever alloc reads it, however many
\* objects collections have removed, and until the sweep begins to unlink.
\* Nothing is said of the sweep: collect corrects count_ when it is over.
CountIsExact == phase # "sweep" => count = Len(unswept) /\ swept = <<>>

\* A collection always makes room: the object that triggered it is linked
\* without reaching the new threshold first, so alloc never collects twice
\* in a row with nothing allocated between.
CollectionMakesRoom == phase = "link" => count < threshold

\* A collection frees everything that was out of reach when it began and
\* nothing else: when it ends the list holds exactly the reachable objects.
\* (Cycles of garbage included, which is what reference counts would miss.)
CollectionIsExact == [][CollectEnds => Live = InUse]_vars

\* Every object is linked at most once, on one side of the cursor; otherwise
\* the sweep would meet it again with its mark already cleared and free it.
LinkedOnce ==
    /\ IsInjective(unswept) /\ IsInjective(swept)
    /\ Range(swept) \cap Range(unswept) = {}

\* The mark phase works outward from the roots and stays within reach.
MarkInv ==
    phase = "mark" =>
        /\ roots \subseteq marked \cup grey
        /\ \A o \in marked : refs[o] \subseteq marked \cup grey
        /\ marked \cup grey \subseteq InUse

\* The sweep has kept reachable objects only, and what it has still to visit
\* is marked exactly when it is reachable.
SweepInv ==
    phase = "sweep" =>
        /\ alive = Len(swept)
        /\ Range(swept) \subseteq InUse
        /\ marked \subseteq Range(unswept)
        /\ \A o \in Range(unswept) : o \in marked <=> o \in InUse

\* The inductive invariant from which GcHeapProofs derives the others.
IInv ==
    /\ TypeOK
    /\ RootedIsLive
    /\ LinkedOnce
    /\ MarksAreClear
    /\ CountIsExact
    /\ CollectionMakesRoom
    /\ MarkInv
    /\ SweepInv

\* collect comes to its end, whatever the shape of the graph, cycles too.
CollectionEnds == (phase = "mark") ~> (phase = "link")

\* The heap keeps the promise of Memory: the linked objects are the live
\* ones and the collector frees one object at a time, each out of reach.
M == INSTANCE Memory WITH live <- Live
ImplementsMemory == M!Spec
=============================================================================
