------------------------------- MODULE Memory -------------------------------
(***************************************************************************)
(* What a garbage-collected memory promises its clients, with nothing of   *)
(* how it is kept.  Objects are created, linked to one another and rooted; *)
(* an object nobody can reach may disappear at any time and no other       *)
(* object ever does.  GcHeap is shown to implement this specification.     *)
(***************************************************************************)
EXTENDS Reachability

VARIABLES
    live,      \* the objects that have been created and not freed
    refs,      \* the references each object holds
    roots      \* the objects the client has rooted (the values of g_globals)

vars == <<live, refs, roots>>

InUse == Reach(roots, refs)

Init ==
    /\ live = {}
    /\ refs = [o \in Obj |-> {}]
    /\ roots = {}

\* A new object, at an address no live object has, is handed out rooted.
New(o) ==
    /\ o \notin live
    /\ live' = live \cup {o}
    /\ refs' = [refs EXCEPT ![o] = {}]
    /\ roots' = roots \cup {o}

\* The client stores a reference it can reach in an object it can reach, or
\* removes one.
Store(p, o) ==
    /\ {p, o} \subseteq InUse
    /\ refs' = [refs EXCEPT ![p] = @ \cup {o}]
    /\ UNCHANGED <<live, roots>>

Remove(p, o) ==
    /\ p \in InUse
    /\ refs' = [refs EXCEPT ![p] = @ \ {o}]
    /\ UNCHANGED <<live, roots>>

\* The client roots an object it can reach, or drops a root.
Root(o) ==
    /\ o \in InUse
    /\ roots' = roots \cup {o}
    /\ UNCHANGED <<live, refs>>

Unroot(o) ==
    /\ roots' = roots \ {o}
    /\ UNCHANGED <<live, refs>>

\* An object leaves the memory only when it is out of reach.
Free(o) ==
    /\ o \in live \ InUse
    /\ live' = live \ {o}
    /\ refs' = [refs EXCEPT ![o] = {}]
    /\ UNCHANGED roots

Next ==
    \/ \E o \in Obj : New(o) \/ Root(o) \/ Unroot(o) \/ Free(o)
    \/ \E p, o \in Obj : Store(p, o) \/ Remove(p, o)

Spec == Init /\ [][Next]_vars
=============================================================================
