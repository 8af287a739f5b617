------------------------------- MODULE DrukVM -------------------------------
(***************************************************************************)
(* The bytecode machine of src/vm: one value stack shared by all calls, a  *)
(* stack of call frames that are windows on it, and the globals with their *)
(* one-entry cache.                                                        *)
(*                                                                         *)
(* The instruction stream is any that a compiler may emit for functions    *)
(* whose code is balanced: an instruction finds its operands above the     *)
(* parameters of the running call (Operands), and a call never holds more  *)
(* than the FrameSlots values its one-byte slot numbers can name (Room).   *)
(* Neither is checked by the machine.  Which number an arithmetic          *)
(* instruction yields, what is inside an array or a struct and what is     *)
(* printed is left open.                                                   *)
(***************************************************************************)
EXTENDS Integers, Sequences, FiniteSets

CONSTANTS
    Fn,           \* the functions of the program
    Arity,        \* ObjFunction::arity of each
    Name,         \* the names of globals
    ArgNames,     \* the names set_args defines (argv, argc, ...)
    Number,       \* the integers a program computes with
    MaxFrames,    \* the capacity of frames_ (64)
    FrameSlots,   \* what a call may hold on the stack (256)
    MaxIp         \* bound: positions in a function's code

ASSUME VMAssumption ==
    /\ Arity \in [Fn -> Nat]
    /\ \A f \in Fn : Arity[f] + 1 < FrameSlots
    /\ ArgNames \subseteq Name /\ IsFiniteSet(ArgNames)
    /\ Number \subseteq Int
    /\ MaxFrames \in Nat \ {0}
    /\ FrameSlots \in Nat \ {0}
    /\ MaxIp \in Nat \ {0}

\* kStackMax = 256 * 64.
StackMax == FrameSlots * MaxFrames

Nil == [type |-> "nil"]
BoolValue(b) == [type |-> "bool", b |-> b]
IntValue(i) == [type |-> "int", i |-> i]
FnValue(f) == [type |-> "function", f |-> f]
Object == [type |-> "object"]         \* a string, an array or a struct

Value ==
    {Nil, Object} \cup {BoolValue(b) : b \in BOOLEAN}
    \cup {IntValue(i) : i \in Number} \cup {FnValue(f) : f \in Fn}

Frame == [fn : Fn, ip : 0..MaxIp, slots : Nat]
NoCache == [name |-> {}, slot |-> {}, version |-> 0]

VARIABLES
    status,      \* "idle", "running", or what interpret last returned
    stack,       \* the values between stackBase_ and stackTop_
    frames,      \* frames_; the last one is *frame_
    ip,          \* the local ip of run
    globals,     \* globals_, a function on the names defined so far
    version,     \* globalsVersion_
    cache,       \* globalCache_; slot is the name whose node it points into
    lastResult,  \* lastResult_
    trace,       \* the position printed for each call by the last error
    pending      \* history: for each call, where its caller should go on and
                 \* what the stack held below the callee

registers == <<stack, frames, ip, pending>>
store == <<globals, version, cache>>
vars == <<status, registers, store, lastResult, trace>>

Init ==
    /\ status = "idle"
    /\ stack = <<>> /\ frames = <<>> /\ ip = 0 /\ pending = <<>>
    /\ globals = [n \in {} |-> Nil] /\ version = 0 /\ cache = NoCache
    /\ lastResult = Nil /\ trace = <<>>

Running == status = "running"
Last(s) == s[Len(s)]
Front(s) == SubSeq(s, 1, Len(s) - 1)
Frame_ == Last(frames)
Top(n) == stack[Len(stack) - n]                   \* peek(n)
Popped(n) == SubSeq(stack, 1, Len(stack) - n)

\* What the emitted code guarantees of the running call.
Operands(n) == Len(stack) - (Frame_.slots + 1 + Arity[Frame_.fn]) >= n
Room == Len(stack) - Frame_.slots < FrameSlots
-----------------------------------------------------------------------------
\* VM::set_args, before or between runs: four globals, new or overwritten.
SetArgs(v, n) ==
    /\ ~Running
    /\ globals' = [m \in DOMAIN globals \cup ArgNames |->
                     IF m \in ArgNames THEN (IF m = n THEN v ELSE Object) ELSE globals[m]]
    /\ version' = version + Cardinality(ArgNames \ DOMAIN globals)
    /\ UNCHANGED <<status, registers, cache, lastResult, trace>>

\* VM::interpret.
Interpret(f) ==
    /\ ~Running
    /\ Arity[f] = 0
    /\ status' = "running"
    /\ stack' = <<FnValue(f)>>
    /\ frames' = <<[fn |-> f, ip |-> 0, slots |-> 0]>>
    /\ ip' = 0
    /\ pending' = <<>>
    /\ lastResult' = Nil /\ trace' = <<>>
    /\ UNCHANGED store

\* runtimeError prints, for each call, the line of the instruction before its
\* saved ip, and clears both stacks; run returns RuntimeError.  Each
\* instruction that fails has saved its own ip first.
RuntimeError ==
    /\ Running /\ ip < MaxIp
    /\ status' = "error"
    /\ trace' = Append([i \in 1..(Len(frames) - 1) |-> frames[i].ip], ip + 1)
    /\ stack' = <<>> /\ frames' = <<>> /\ pending' = <<>>
    /\ UNCHANGED <<ip, store, lastResult>>

\* The next instruction of the running call.
Step ==
    /\ Running
    /\ ip < MaxIp
    /\ ip' = ip + 1
    /\ UNCHANGED <<status, frames, pending, lastResult, trace>>
-----------------------------------------------------------------------------
\* Constant, Nil, True, False, GetLocal: one more value on the stack.
PushValue(v) ==
    /\ Step /\ Room
    /\ stack' = Append(stack, v)
    /\ UNCHANGED store

GetLocal(slot) ==
    /\ slot < Len(stack) - Frame_.slots
    /\ PushValue(stack[Frame_.slots + slot + 1])

\* Mutant of SetLocal: the slot number is taken from the bottom of the stack.
SetLocalAbsolute(slot) ==
    /\ Step /\ Operands(1)
    /\ slot < Len(stack) - Frame_.slots
    /\ stack' = [stack EXCEPT ![slot + 1] = Top(0)]
    /\ UNCHANGED store

SetLocal(slot) ==
    /\ Step /\ Operands(1)
    /\ slot < Len(stack) - Frame_.slots
    /\ stack' = [stack EXCEPT ![Frame_.slots + slot + 1] = Top(0)]
    /\ UNCHANGED store

\* Pop and Print.
Drop ==
    /\ Step /\ Operands(1)
    /\ stack' = Popped(1)
    /\ UNCHANGED store

Equal ==
    /\ Step /\ Operands(2)
    /\ \E r \in BOOLEAN :
         /\ r = (Top(1) = Top(0)) \/ (Top(1) = Object /\ Top(0) = Object)
         /\ stack' = Append(Popped(2), BoolValue(r))
    /\ UNCHANGED store

Numbers(n) == \A i \in 0..(n - 1) : Top(i).type = "int"

\* Add, Subtract, Multiply, Divide and Negate on n operands; Greater and Less.
Arithmetic(n) ==
    /\ Step /\ Operands(n) /\ Numbers(n)
    /\ \E r \in Number : stack' = Append(Popped(n), IntValue(r))
    /\ UNCHANGED store

Compare ==
    /\ Step /\ Operands(2) /\ Numbers(2)
    /\ \E r \in BOOLEAN :
         /\ r = (Top(1).i < Top(0).i) \/ r = (Top(1).i > Top(0).i)
         /\ stack' = Append(Popped(2), BoolValue(r))
    /\ UNCHANGED store

\* "Operands must be numbers.", "Operand must be a number.",
\* "Division by zero."
ArithmeticFails(n) ==
    /\ Running /\ Operands(n)
    /\ Numbers(n) => (n = 2 /\ Top(0).i = 0)
    /\ RuntimeError

Not ==
    /\ Step /\ Operands(1)
    /\ \E r \in BOOLEAN :
         /\ r = (Top(0) \in {Nil, BoolValue(FALSE)})
         /\ stack' = Append(Popped(1), BoolValue(r))
    /\ UNCHANGED store

\* Jump and Loop go anywhere in the code; JumpIfFalse does so when the value
\* on top, which it leaves there, is false or nil.
Jump ==
    /\ Running
    /\ ip' \in 0..MaxIp
    /\ UNCHANGED <<status, stack, frames, pending, store, lastResult, trace>>

JumpIfFalse ==
    /\ Operands(1)
    /\ \/ Top(0) \in {Nil, BoolValue(FALSE)} /\ Jump
       \/ Top(0) \notin {Nil, BoolValue(FALSE)} /\ Step /\ UNCHANGED <<stack, store>>

\* The collection and built-in instructions: n operands are popped and either
\* a result is pushed or the operands are refused.  BuildArray and BuildStruct
\* with no operands, and Input, pop nothing.
Builtin(n, v) ==
    /\ Step /\ Operands(n)
    /\ n = 0 => Room
    /\ stack' = Append(Popped(n), v)
    /\ UNCHANGED store

BuiltinFails(n) ==
    /\ Running /\ Operands(n)
    /\ RuntimeError
-----------------------------------------------------------------------------
\* Mutant of the cache test: the name is not compared.
CacheHitAnyName(n) == cache # NoCache /\ cache.version = version

\* The cache is used when it was filled at this version and for this name.
CacheHit(n) == cache # NoCache /\ cache.version = version /\ cache.name = n
Cached(n, ver) == [name |-> n, slot |-> n, version |-> ver]

GetGlobal(n) ==
    /\ Step /\ Room
    /\ \/ /\ CacheHit(n)
          /\ stack' = Append(stack, globals[cache.slot])
          /\ UNCHANGED store
       \/ /\ ~CacheHit(n)
          /\ n \in DOMAIN globals
          /\ stack' = Append(stack, globals[n])
          /\ cache' = Cached(n, version)
          /\ UNCHANGED <<globals, version>>

SetGlobal(n) ==
    /\ Step /\ Operands(1)
    /\ \/ /\ CacheHit(n)
          /\ globals' = [globals EXCEPT ![cache.slot] = Top(0)]
          /\ UNCHANGED cache
       \/ /\ ~CacheHit(n)
          /\ n \in DOMAIN globals
          /\ globals' = [globals EXCEPT ![n] = Top(0)]
          /\ cache' = Cached(n, version)
    /\ UNCHANGED <<stack, version>>

DefineGlobal(n) ==
    /\ Step /\ Operands(1)
    /\ globals' = [m \in DOMAIN globals \cup {n} |-> IF m = n THEN Top(0) ELSE globals[m]]
    /\ version' = IF n \in DOMAIN globals THEN version ELSE version + 1
    /\ cache' = Cached(n, version')
    /\ stack' = Popped(1)

\* "Undefined variable": found out on a cache miss only.
UndefinedGlobal(n) ==
    /\ ~CacheHit(n)
    /\ n \notin DOMAIN globals
    /\ RuntimeError
-----------------------------------------------------------------------------
\* Mutants of Call: the frame limit is off by one; the position to return to
\* is not saved.
CallOneTooMany(n) ==
    /\ Running /\ Operands(n + 1) /\ ip < MaxIp
    /\ Top(n).type = "function" /\ Arity[Top(n).f] = n
    /\ Len(frames) # MaxFrames + 1
    /\ frames' = Append([frames EXCEPT ![Len(frames)].ip = ip + 1],
                        [fn |-> Top(n).f, ip |-> 0, slots |-> Len(stack) - n - 1])
    /\ pending' = Append(pending, [ip |-> ip + 1, below |-> Popped(n + 1)])
    /\ ip' = 0
    /\ UNCHANGED <<status, stack, store, lastResult, trace>>

CallForgetsIp(n) ==
    /\ Running /\ Operands(n + 1) /\ ip < MaxIp
    /\ Top(n).type = "function" /\ Arity[Top(n).f] = n
    /\ Len(frames) # MaxFrames
    /\ frames' = Append(frames,
                        [fn |-> Top(n).f, ip |-> 0, slots |-> Len(stack) - n - 1])
    /\ pending' = Append(pending, [ip |-> ip + 1, below |-> Popped(n + 1)])
    /\ ip' = 0
    /\ UNCHANGED <<status, stack, store, lastResult, trace>>

\* Call with n arguments: the window of the new frame starts at the callee.
Call(n) ==
    /\ Running /\ Operands(n + 1) /\ ip < MaxIp
    /\ Top(n).type = "function" /\ Arity[Top(n).f] = n
    /\ Len(frames) # MaxFrames
    /\ frames' = Append([frames EXCEPT ![Len(frames)].ip = ip + 1],
                        [fn |-> Top(n).f, ip |-> 0, slots |-> Len(stack) - n - 1])
    /\ pending' = Append(pending, [ip |-> ip + 1, below |-> Popped(n + 1)])
    /\ ip' = 0
    /\ UNCHANGED <<status, stack, store, lastResult, trace>>

\* "Can only call functions.", "Expected %d arguments", "Stack overflow."
CallFails(n) ==
    /\ Running /\ Operands(n + 1)
    /\ \/ Top(n).type # "function"
       \/ Top(n).type = "function" /\ Arity[Top(n).f] # n
       \/ Len(frames) = MaxFrames
    /\ RuntimeError

\* Mutant of Return: the callee's window is not dropped.
ReturnKeepsWindow ==
    /\ Running /\ Operands(1) /\ Len(frames) > 1
    /\ frames' = Front(frames)
    /\ pending' = Front(pending)
    /\ ip' = Last(frames').ip
    /\ UNCHANGED <<status, stack, store, lastResult, trace>>

\* Return to the caller: the window, callee included, gives way to the result.
Return ==
    /\ Running /\ Operands(1) /\ Len(frames) > 1
    /\ frames' = Front(frames)
    /\ stack' = Append(SubSeq(stack, 1, Frame_.slots), Top(0))
    /\ pending' = Front(pending)
    /\ ip' = Last(frames').ip
    /\ UNCHANGED <<status, store, lastResult, trace>>

\* Return from the script: interpret returns Ok with the result.
ReturnFromScript ==
    /\ Running /\ Operands(1) /\ Len(frames) = 1
    /\ frames' = <<>>
    /\ lastResult' = Top(0)
    /\ stack' = <<Top(0)>>
    /\ status' = "ok"
    /\ UNCHANGED <<ip, pending, store, trace>>
-----------------------------------------------------------------------------
Data ==
    \/ \E v \in Value : PushValue(v)
    \/ \E s \in 0..(FrameSlots - 1) : GetLocal(s) \/ SetLocal(s)
    \/ Drop \/ Equal \/ Compare \/ Not
    \/ \E n \in 1..2 : Arithmetic(n) \/ ArithmeticFails(n)
    \/ \E n \in 0..FrameSlots : BuiltinFails(n) \/ \E v \in Value : Builtin(n, v)
Globals == \E n \in Name : GetGlobal(n) \/ SetGlobal(n) \/ DefineGlobal(n) \/ UndefinedGlobal(n)
Control ==
    \/ Jump \/ JumpIfFalse \/ Return \/ ReturnFromScript
    \/ \E n \in 0..FrameSlots : Call(n) \/ CallFails(n)
Api == \E v \in Value, n \in ArgNames : SetArgs(v, n)

Next ==
    \/ Running /\ (Data \/ Globals \/ Control)
    \/ (\E f \in Fn : Interpret(f)) \/ Api

Spec == Init /\ [][Next]_vars
-----------------------------------------------------------------------------
\* Every register keeps its type; calls never nest deeper than frames_ holds.
TypeOK ==
    /\ status \in {"idle", "running", "ok", "error"}
    /\ stack \in Seq(Value)
    /\ frames \in Seq(Frame) /\ Len(frames) <= MaxFrames
    /\ ip \in 0..MaxIp
    /\ DOMAIN globals \subseteq Name /\ globals \in [DOMAIN globals -> Value]
    /\ version \in Nat
    /\ cache = NoCache \/ cache \in [name : Name, slot : Name, version : Nat]
    /\ lastResult \in Value
    /\ trace \in Seq(1..MaxIp)
    /\ pending \in Seq([ip : 1..MaxIp, below : Seq(Value)])

\* push does not check stackTop_: the 64-frame limit alone has to keep every
\* nesting of calls inside the kStackMax values that were allocated.
StackInBounds == Len(stack) <= StackMax

\* The windows of all calls share one stack.  Whatever a callee pushes, pops or
\* stores in its locals, the values its callers left below it stay as they were.
CallersAreUntouched ==
    \A i \in DOMAIN pending :
        /\ Len(pending[i].below) <= Len(stack)
        /\ pending[i].below = SubSeq(stack, 1, Len(pending[i].below))

\* A call is one operation to its caller: it goes on behind the Call with callee
\* and arguments replaced by the result.
CallsReturnBalanced ==
    [][Return => /\ ip' = Last(pending).ip
                 /\ stack' = Append(Last(pending).below, Top(0))]_vars

\* The stack trace of a run-time error names the position of every call under
\* way: the failing instruction and, below it, each Call.
TraceIsTrue ==
    [][status = "running" /\ status' = "error" =>
         trace' = Append([i \in DOMAIN pending |-> pending[i].ip], ip + 1)]_vars

\* The one-entry cache is invisible: whatever was defined, assigned and read
\* before, GetGlobal yields and SetGlobal assigns the variable it names, and both
\* are refused for one that was never defined.
CacheIsTransparent ==
    [][\A n \in Name :
         /\ GetGlobal(n) => n \in DOMAIN globals /\ stack' = Append(stack, globals[n])
         /\ SetGlobal(n) => n \in DOMAIN globals /\ globals' = [globals EXCEPT ![n] = Top(0)]]_vars
-----------------------------------------------------------------------------
\* Why these hold.  The window of a call starts above its caller's parameters
\* and at most FrameSlots - 1 values above the caller's own start.
Base(i) == frames[i].slots + 1 + Arity[frames[i].fn]
WindowsInv ==
    Running =>
        /\ Len(frames) >= 1
        /\ \A i \in 1..Len(frames) : frames[i].slots <= (i - 1) * (FrameSlots - 1)
        /\ \A i, j \in 1..Len(frames) : i < j => Base(i) <= frames[j].slots
        /\ \A i \in 1..(Len(frames) - 1) : frames[i + 1].slots < frames[i].slots + FrameSlots
        /\ Base(Len(frames)) <= Len(stack)
        /\ Len(stack) <= Frame_.slots + FrameSlots

\* What the history says of a call is what its frame and the stack say.
PendingInv ==
    Running =>
        /\ Len(pending) = Len(frames) - 1
        /\ \A i \in 1..Len(pending) :
             /\ pending[i].ip = frames[i].ip
             /\ Len(pending[i].below) = frames[i + 1].slots
             /\ \A j \in 1..frames[i + 1].slots : pending[i].below[j] = stack[j]

RestInv == ~Running => Len(stack) <= 1 /\ frames = <<>> /\ pending = <<>>

\* A filled cache points to the variable it is filled for, which exists.
CacheInv == cache # NoCache => cache.slot = cache.name /\ cache.name \in DOMAIN globals

IInv == TypeOK /\ WindowsInv /\ PendingInv /\ RestInv /\ CacheInv
=============================================================================
