----------------------------- MODULE RuntimeHeap -----------------------------
(***************************************************************************)
(* The clients the heap really has in a druk process (src/main.cpp): the   *)
(* parser, which keeps the text of every string literal in a GcString the  *)
(* AST points to; the code generator, which reads those strings back; and  *)
(* the compiled program, whose values live in stack slots (PackedValue).   *)
(* All three share the one GcHeap.                                         *)
(*                                                                         *)
(* GcHeap shows that nothing reachable from the root sources is freed.     *)
(* The only source ever registered reports g_globals, and no code the      *)
(* compiler emits puts anything there, so here a collection starts from    *)
(* Roots.  A collection is one step: GcHeap refines it.                    *)
(***************************************************************************)
EXTENDS Sequences, FiniteSets, Functions, GcConfig, Reachability

CONSTANTS
    MaxLiterals,    \* bound: string literals in the source
    MaxAllocs,      \* bound: objects allocated in all
    Slots,          \* the value slots of the running program
    Nil             \* what a slot holds when it refers to no object

ASSUME BoundsAssumption == MaxLiterals \in Nat /\ MaxAllocs \in Nat /\ Nil \notin Obj

VARIABLES
    stage,      \* "parse", "codegen" or "run"
    live,       \* the objects linked in the heap; count_ is their number
    elems,      \* the references held by arrays
    threshold,  \* threshold_
    text,       \* which literal's text a string object holds; 0: another text
    ast,        \* LiteralExpr::literalValue of each string literal, in order
    consts,     \* the text of each ConstantString emitted, in order
    slots,      \* the reference in each slot of the compiled program
    allocs      \* how many objects this process has allocated

vars == <<stage, live, elems, threshold, text, ast, consts, slots, allocs>>

\* What the registered sources report: the values of g_globals.  The IR has no
\* instruction that defines a global and main.cpp passes no arguments.
Roots == {}

Init ==
    /\ stage = "parse"
    /\ live = {}
    /\ elems = [o \in Obj |-> {}]
    /\ threshold = InitialThreshold
    /\ text = [o \in Obj |-> 0]
    /\ ast = <<>> /\ consts = <<>>
    /\ slots = [x \in Slots |-> Nil]
    /\ allocs = 0
-----------------------------------------------------------------------------
\* Mutants of maybeCollect: one object too early, and never.
MustCollectEarly == Cardinality(live) + 1 >= threshold
MustCollectNever == FALSE

MustCollect == Cardinality(live) >= threshold

Survivors == IF MustCollect THEN live \cap Reach(Roots, elems) ELSE live

\* GcHeap::alloc: maybeCollect, then link a new object that holds `held`.
Alloc(o, held) ==
    /\ allocs < MaxAllocs
    /\ o \notin Survivors
    /\ live' = Survivors \cup {o}
    /\ threshold' = IF MustCollect THEN NewThreshold(Cardinality(Survivors)) ELSE threshold
    /\ elems' = [elems EXCEPT ![o] = held]
    /\ allocs' = allocs + 1

\* parsePrimary on a string token allocates its text.
ParseString(o) ==
    /\ stage = "parse"
    /\ Len(ast) < MaxLiterals
    /\ Alloc(o, {})
    /\ text' = [text EXCEPT ![o] = Len(ast) + 1]
    /\ ast' = Append(ast, o)
    /\ UNCHANGED <<stage, consts, slots>>

ParseEnds ==
    /\ stage = "parse"
    /\ stage' = "codegen"
    /\ UNCHANGED <<live, elems, threshold, text, ast, consts, slots, allocs>>

\* visitLiteral copies the text of the string the AST points to.  Reading an
\* object that has been freed is undefined: any text may come out.
EmitString ==
    /\ stage = "codegen"
    /\ Len(consts) < Len(ast)
    /\ LET o == ast[Len(consts) + 1]
       IN  \E t \in 0..MaxLiterals :
             /\ o \in live => t = text[o]
             /\ consts' = Append(consts, t)
    /\ UNCHANGED <<stage, live, elems, threshold, text, ast, slots, allocs>>

\* jit.execute runs the program in the same process, on the same heap.
RunStarts ==
    /\ stage = "codegen"
    /\ Len(consts) = Len(ast)
    /\ stage' = "run"
    /\ UNCHANGED <<live, elems, threshold, text, ast, consts, slots, allocs>>

\* A program compiled ahead of time runs in a process of its own.
RunStartsAhead ==
    /\ stage = "codegen"
    /\ Len(consts) = Len(ast)
    /\ stage' = "run"
    /\ live' = {}
    /\ elems' = [o \in Obj |-> {}]
    /\ threshold' = InitialThreshold
    /\ allocs' = 0
    /\ text' = [o \in Obj |-> 0]
    /\ UNCHANGED <<ast, consts, slots>>
-----------------------------------------------------------------------------
\* The compiled program.  An operation that looks inside an object is enabled
\* while the object is there: past a dangling read the program has no defined
\* behaviour to model.
IsArray(o) == o \in live /\ text[o] = -1

\* druk_jit_string_literal, and druk_jit_to_string on a value that is not a
\* string: a new string in slot x.
NewString(x, o) ==
    /\ stage = "run"
    /\ Alloc(o, {})
    /\ text' = [text EXCEPT ![o] = 0]
    /\ slots' = [slots EXCEPT ![x] = o]
    /\ UNCHANGED <<stage, ast, consts>>

\* druk_jit_string_concat copies both texts before it allocates the result.
Concat(x, y, z, o) ==
    /\ stage = "run"
    /\ {slots[x], slots[y]} \subseteq live
    /\ Alloc(o, {})
    /\ text' = [text EXCEPT ![o] = 0]
    /\ slots' = [slots EXCEPT ![z] = o]
    /\ UNCHANGED <<stage, ast, consts>>

\* druk_jit_build_array allocates first and copies the elements afterwards.
BuildArray(xs, z, o) ==
    /\ stage = "run"
    /\ Alloc(o, {slots[x] : x \in xs} \ {Nil})
    /\ text' = [text EXCEPT ![o] = -1]
    /\ slots' = [slots EXCEPT ![z] = o]
    /\ UNCHANGED <<stage, ast, consts>>

\* druk_jit_index and druk_jit_index_set, on an index within bounds.
Index(x, z) ==
    /\ stage = "run"
    /\ IsArray(slots[x])
    /\ \E o \in elems[slots[x]] : slots' = [slots EXCEPT ![z] = o]
    /\ UNCHANGED <<stage, live, elems, threshold, text, ast, consts, allocs>>

IndexSet(x, y) ==
    /\ stage = "run"
    /\ IsArray(slots[x])
    /\ slots[y] # Nil
    /\ \E kept \in SUBSET elems[slots[x]] :     \* the other elements
         elems' = [elems EXCEPT ![slots[x]] = kept \cup {slots[y]}]
    /\ UNCHANGED <<stage, live, threshold, text, ast, consts, slots, allocs>>

\* A store of a number, or a slot that goes out of use.
Forget(x) ==
    /\ stage = "run"
    /\ slots' = [slots EXCEPT ![x] = Nil]
    /\ UNCHANGED <<stage, live, elems, threshold, text, ast, consts, allocs>>

Next ==
    \/ ParseEnds \/ EmitString \/ RunStarts \/ RunStartsAhead
    \/ \E o \in Obj :
         \/ ParseString(o)
         \/ \E x \in Slots : NewString(x, o)
         \/ \E x, y, z \in Slots : Concat(x, y, z, o)
         \/ \E xs \in SUBSET Slots, z \in Slots : BuildArray(xs, z, o)
    \/ \E x, y \in Slots : Index(x, y) \/ IndexSet(x, y)
    \/ \E x \in Slots : Forget(x)

Spec == Init /\ [][Next]_vars
-----------------------------------------------------------------------------
\* Every variable keeps its type: arrays refer to objects, slots to objects or
\* to none, the AST to the string objects the parser made.
TypeOK ==
    /\ stage \in {"parse", "codegen", "run"}
    /\ live \subseteq Obj
    /\ elems \in Graphs
    /\ threshold \in Nat
    /\ text \in [Obj -> {-1} \cup 0..MaxLiterals]
    /\ ast \in Seq(Obj) /\ consts \in Seq(0..MaxLiterals)
    /\ slots \in [Slots -> Obj \cup {Nil}]
    /\ allocs \in 0..MaxAllocs

\* The text compiled into the program is the text of the source, literal by
\* literal.
LiteralsSurvive == \A i \in 1..Len(consts) : consts[i] = i

\* Every object a slot of the running program refers to, directly or through
\* arrays, is in the heap.
HeldValuesAreLive ==
    stage = "run" => Reach(Range(slots) \ {Nil}, elems) \subseteq live

\* As long as no more than kInitialThreshold objects have been allocated no
\* collection has run, and both hold: the first object to be lost is lost by
\* allocation number kInitialThreshold + 1, and not earlier.
SafeUntilFirstCollection ==
    /\ Len(ast) <= InitialThreshold => LiteralsSurvive
    /\ allocs <= InitialThreshold => HeldValuesAreLive

\* With nothing rooted a collection empties the heap, so the heap never holds
\* more than kInitialThreshold objects and the growth rule never applies: a
\* program cannot have more live data than that, whatever it keeps in use.
HeapStaysSmall ==
    Cardinality(live) <= InitialThreshold /\ threshold = InitialThreshold
-----------------------------------------------------------------------------
\* What an inductive proof needs beyond the properties.  The heap has no more
\* objects than were allocated, so allocation number InitialThreshold still finds
\* room.
CountInv == IsFiniteSet(live) /\ Cardinality(live) <= allocs

\* The parser allocates literals and nothing else; until one is lost the AST points
\* to their texts.
LiteralsInv ==
    /\ stage = "parse" => allocs = Len(ast) /\ consts = <<>>
    /\ Len(ast) <= InitialThreshold =>
          /\ LiteralsSurvive
          /\ stage # "run" => \A i \in 1..Len(ast) : ast[i] \in live /\ text[ast[i]] = i

\* Until a collection slots and arrays refer to objects in the heap.
HeldInv ==
    /\ stage # "run" => \A x \in Slots : slots[x] = Nil
    /\ allocs <= InitialThreshold =>
          Closed(live, elems) /\ \A x \in Slots : slots[x] \in live \cup {Nil}

IInv == TypeOK /\ CountInv /\ HeapStaysSmall /\ LiteralsInv /\ HeldInv
=============================================================================
