---------------------------- MODULE Reachability ----------------------------
(***************************************************************************)
(* Which heap objects a set of references leads to.                        *)
(*                                                                         *)
(* An object graph r gives, for every address, the set of addresses its    *)
(* elements or fields refer to (the order and the number of the references *)
(* do not matter to a tracing collector).  Reach is stated as the least    *)
(* closed set rather than by following edges one at a time, which is the   *)
(* form the proofs need: to bound Reach it is enough to exhibit one set    *)
(* that contains the start and is closed.                                  *)
(***************************************************************************)
CONSTANT Obj          \* the addresses operator new can return

Graphs == [Obj -> SUBSET Obj]

\* S keeps every object its members refer to.
Closed(S, r) == \A o \in S : r[o] \subseteq S

\* What can be reached from the references in `from` through r: what
\* GcObject::trace visits, array by array and struct by struct.
Reach(from, r) ==
    {o \in Obj : \A S \in SUBSET Obj : from \subseteq S /\ Closed(S, r) => o \in S}
=============================================================================
