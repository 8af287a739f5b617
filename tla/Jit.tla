--------------------------------- MODULE Jit ---------------------------------
(***************************************************************************)
(* A compiled program at work: the native stack with the slots of each     *)
(* activation, and the runtime's g_call_frames, over which the arguments   *)
(* of calls through a value travel.                                        *)
(*                                                                         *)
(* Every instruction that has a value keeps it in a slot of its own in the *)
(* entry block, so one per activation; operands travel as the addresses of *)
(* slots, also to the functions that are called.  An address is <<depth,   *)
(* <<instruction, operand>>>>: operand 0 is the instruction's result.      *)
(***************************************************************************)
EXTENDS JitCode, Meaning

CONSTANT Programs  \* the programs that are compiled, each a sequence of functions

VARIABLES
    program,     \* the program that runs: its text and the engine's code of it
    stack,       \* the activations, the host's first: fn, part, pc, slots, params, out
    callFrames,  \* g_call_frames: the callee and arguments of each call by value
    arrays,      \* the arrays made so far
    output,      \* the lines printed
    status       \* "running", "done" or "aborted"

vars == <<program, stack, callFrames, arrays, output, status>>

Activation(fn, part, params, out) ==
    [fn |-> fn, part |-> part, pc |-> 1, slots |-> [i \in {} |-> NilV], params |-> params, out |-> out]

HostResult == <<1, <<0, 0>>>>

\* The engine calls the wrapper of the script with a place for the result.
Init ==
    /\ \E p \in DOMAIN Programs :
           program = [text |-> Programs[p], code |-> Compiled(Programs[p])]
    /\ stack = << [Activation(0, "host", <<>>, <<>>) EXCEPT !.slots = (<<0, 0>> :> NilV)],
                  Activation(1, "wrapper", <<>>, HostResult) >>
    /\ callFrames = <<>>
    /\ arrays = <<>>
    /\ output = <<>>
    /\ status = "running"

Depth == Len(stack)
Top == stack[Depth]
Instruction == program.code[Top.fn][Top.part][Top.pc]
Running == status = "running"
At(op) == Running /\ Instruction.op = op

\* The address of operand k; a constant is put in a slot of its own at each use.
Pointer(o, k) ==
    CASE o.k = "const" -> <<Depth, <<Top.pc, k>>>>
      [] o.k = "param" -> Top.params[o.i]
      [] o.k = "inst" -> <<Depth, <<o.i, 0>>>>

Operand(k) ==
    LET o == Instruction.args[k]
        a == Pointer(o, k)
    IN  IF o.k = "const" THEN o.v ELSE stack[a[1]].slots[a[2]]

Operands == [k \in DOMAIN Instruction.args |-> Operand(k)]

Result == <<Depth, <<Top.pc, 0>>>>

Put(a, v, st) == [st EXCEPT ![a[1]].slots = (a[2] :> v) @@ @]

Goto(pc) == [stack EXCEPT ![Depth].pc = pc]
Passed == Goto(Top.pc + 1)

Alloca ==
    /\ At("Alloca")
    /\ stack' = Passed
    /\ UNCHANGED <<program, callFrames, arrays, output, status>>

Load ==
    /\ At("Load")
    /\ stack' = Put(Result, Operand(1), Passed)
    /\ UNCHANGED <<program, callFrames, arrays, output, status>>

Store ==
    /\ At("Store")
    /\ stack' = Put(Pointer(Instruction.args[2], 2), Operand(1), Passed)
    /\ UNCHANGED <<program, callFrames, arrays, output, status>>

\* One call of a runtime function that only computes.
Compute ==
    /\ Running
    /\ \E v \in Results(Instruction.op, Operands) : stack' = Put(Result, v, Passed)
    /\ UNCHANGED <<program, callFrames, arrays, output, status>>

BuildArray ==
    /\ At("BuildArray")
    /\ arrays' = Append(arrays, Operands)
    /\ stack' = Put(Result, ArrayV(Len(arrays) + 1), Passed)
    /\ UNCHANGED <<program, callFrames, output, status>>

IndexGet ==
    /\ At("IndexGet")
    /\ stack' = Put(Result, Indexed(arrays, Operand(1), Operand(2)), Passed)
    /\ UNCHANGED <<program, callFrames, arrays, output, status>>

IndexSet ==
    /\ At("IndexSet")
    /\ arrays' = WithElement(arrays, Operand(1), Operand(2), Operand(3))
    /\ stack' = Passed
    /\ UNCHANGED <<program, callFrames, output, status>>

ArrayLen ==
    /\ At("Len")
    /\ stack' = Put(Result, Length(arrays, Operand(1)), Passed)
    /\ UNCHANGED <<program, callFrames, arrays, output, status>>

PrintLine ==
    /\ At("Print")
    /\ output' = Append(output, Shown(arrays, Operand(1)))
    /\ stack' = Passed
    /\ UNCHANGED <<program, callFrames, arrays, status>>

Branch ==
    /\ At("Branch")
    /\ stack' = Goto(Instruction.to[1])
    /\ UNCHANGED <<program, callFrames, arrays, output, status>>

CondBranch ==
    /\ At("CondBranch")
    /\ stack' = Goto(Instruction.to[IF AsBoolInt(Operand(1)) THEN 1 ELSE 2])
    /\ UNCHANGED <<program, callFrames, arrays, output, status>>

\* An unwrap is its operand's slot; of nil, it prints a message and aborts.
Unwrap ==
    /\ At("Unwrap")
    /\ IF Operand(1).t = "Nil"
       THEN status' = "aborted" /\ UNCHANGED stack
       ELSE stack' = Passed /\ UNCHANGED status
    /\ UNCHANGED <<program, callFrames, arrays, output>>
-----------------------------------------------------------------------------
\* The stack at a call: past the instruction, its constants in their slots.
Calling ==
    LET args == Instruction.args
        consts == {k \in DOMAIN args : args[k].k = "const"}
    IN  [Passed EXCEPT ![Depth].slots =
            [s \in {<<Top.pc, k>> : k \in consts} |-> args[s[2]].v] @@ @]

\* A call by name hands over the addresses of its operands.
Call ==
    /\ At("Call")
    /\ LET args == Instruction.args
           params == [k \in DOMAIN args |-> Pointer(args[k], k)]
           callee == Activation(Instruction.fn, "impl", params, Result)
       IN  stack' = Append(Calling, callee)
    /\ UNCHANGED <<program, callFrames, arrays, output, status>>

\* druk_jit_call: a frame with the callee and copies of the arguments, and the
\* callee's wrapper.  Nothing but the function of a program can be called.
DynamicCall ==
    /\ At("DynamicCall")
    /\ LET callee == Operand(1)
       IN  IF callee.t = "RawFunction"
           THEN /\ callFrames' = Append(callFrames, Operands)
                /\ stack' = Append(Calling, Activation(Number(callee), "wrapper", <<>>, Result))
           ELSE /\ stack' = Put(Result, NilV, Passed)
                /\ UNCHANGED callFrames
    /\ UNCHANGED <<program, arrays, output, status>>

FetchedOldest(i) ==
    IF callFrames # <<>> /\ i + 1 \in DOMAIN Head(callFrames)
    THEN Head(callFrames)[i + 1] ELSE NilV

\* druk_jit_get_arg: argument i of the last call; the callee is argument 0.
Fetched(i) ==
    IF callFrames # <<>> /\ i + 1 \in DOMAIN Last(callFrames)
    THEN Last(callFrames)[i + 1] ELSE NilV

GetArg ==
    /\ At("GetArg")
    /\ stack' = Put(Result, Fetched(Instruction.fn), Passed)
    /\ UNCHANGED <<program, callFrames, arrays, output, status>>

\* The wrapper hands its own result place on to the implementation.
CallImpl ==
    /\ At("CallImpl")
    /\ LET args == Instruction.args
           params == [k \in DOMAIN args |-> Pointer(args[k], k)]
           callee == Activation(Instruction.fn, "impl", params, Top.out)
       IN  stack' = Append(Passed, callee)
    /\ UNCHANGED <<program, callFrames, arrays, output, status>>

\* An implementation writes its result where it was told, or nil.
Return ==
    /\ At("Return")
    /\ LET v == IF Instruction.args = <<>> THEN NilV ELSE Operand(1)
       IN  stack' = Put(Top.out, v, Front(stack))
    /\ UNCHANGED <<program, callFrames, arrays, output, status>>

\* A wrapper returns to druk_jit_call, which drops the frame, or to the engine.
Leave ==
    /\ At("Leave")
    /\ stack' = Front(stack)
    /\ IF Depth = 2
       THEN status' = "done" /\ UNCHANGED callFrames
       ELSE callFrames' = Front(callFrames) /\ UNCHANGED status
    /\ UNCHANGED <<program, arrays, output>>

\* The program has ended: the engine has the result, or the process is gone.
Ended == ~Running /\ UNCHANGED vars

Next ==
    \/ Alloca \/ Load \/ Store \/ Compute
    \/ BuildArray \/ IndexGet \/ IndexSet \/ ArrayLen
    \/ PrintLine \/ Branch \/ CondBranch \/ Unwrap
    \/ Call \/ DynamicCall \/ GetArg \/ CallImpl \/ Return \/ Leave
    \/ Ended

Spec == Init /\ [][Next]_vars
-----------------------------------------------------------------------------
EndedAs(meant) ==
    \/ meant.odd
    \/ /\ (status = "aborted") = meant.dead
       /\ output = meant.out
       /\ status = "done" => stack[1].slots[<<0, 0>>] = meant.val

\* Whatever calls run inside each other, by name, by value, of a function by
\* itself or by one it was given, a program that has ended has printed and
\* returned what its text means, and aborts where an unwrap of nil stands: each
\* argument reached the call it was written for, and every value its use.  Left
\* out are the programs that met a case listed under Odd.
ComputesAsWritten == ~Running => EndedAs(Meant(program.text))

\* What runs may read every slot below it, since its parameters are addresses,
\* but a step changes no slot of a caller except the place of its own result,
\* and that only as it returns: arguments are passed by value.
CallersKeepTheirSlots ==
    [][\A d \in 1 .. Len(stack) - 1 :
          LET Slots(st) == st[d].slots
          IN  \/ Slots(stack') = Slots(stack)
              \/ /\ Len(stack') < Len(stack) /\ d = Top.out[1]
                 /\ \A s \in DOMAIN Slots(stack) \ {Top.out[2]} :
                        Slots(stack')[s] = Slots(stack)[s]]_vars
=============================================================================
