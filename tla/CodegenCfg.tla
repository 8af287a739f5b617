----------------------------- MODULE CodegenCfg -----------------------------
(***************************************************************************)
(* CodeGenerator: from statements to the basic blocks of the IR, and what  *)
(* becomes of them.  The recursion of the visitors is the list todo of     *)
(* what they have still to do; `at` is the insertion point of IRBuilder.   *)
(* The back end translates the blocks one function at a time and leaves    *)
(* out what it has no value for.  LLVM's verifier accepts what is left or  *)
(* the compilation fails; any function of accepted code is then run next   *)
(* to the source it came from.                                             *)
(*                                                                         *)
(* The instructions that compute an expression go where the instruction    *)
(* using it goes, so only the latter is there: act, or a branch on it.     *)
(***************************************************************************)
EXTENDS Statements, FiniteSets

CONSTANT Programs    \* the programs compiled

ASSUME ProgramsAssumption == Programs \subseteq {p \in ProgramTable : HasParts(p)}

VARIABLES
    phase,     \* "emit", "verify", then "rejected" or "run", and "done"
    prog,      \* the program
    blocks,    \* the instructions of each block, in the order of creation
    owner,     \* the function each block belongs to: its statement, or "main"
    at,        \* the block instructions are appended to
    todo,      \* what the visitors have still to do
    pc,        \* the running function: a block and a position in it
    rest       \* the source: what a reader expects next

emitted == <<blocks, owner, at, todo>>
vars == <<phase, prog, emitted, pc, rest>>

Act(n, i) == [op |-> "act", n |-> n, i |-> i, to |-> <<>>]
Branch(b) == [op |-> "br", n |-> "none", i |-> 0, to |-> <<b>>]
CondBranch(n, i, yes, no) == [op |-> "cbr", n |-> n, i |-> i, to |-> <<yes, no>>]
Ret(n) == [op |-> "ret", n |-> n, i |-> 0, to |-> <<>>]
Terminators == {"br", "cbr", "ret"}

HasTerminator(b) == blocks[b] # <<>> /\ blocks[b][Len(blocks[b])].op \in Terminators

\* A visit of a list of statements, and what follows a visit.
Visit(list) == [do |-> "visit", list |-> list, n |-> "none", i |-> 0, at |-> <<>>]
Then(do, n, i, ptrs) == [do |-> do, list |-> <<>>, n |-> n, i |-> i, at |-> ptrs]

Init ==
    /\ phase = "emit"
    /\ prog \in Programs
    /\ blocks = <<<<>>>> /\ owner = <<"main">> /\ at = 1
    /\ todo = <<Visit(prog.top)>>
    /\ pc = <<1, 1>>
    /\ rest = Items(prog.top)
-----------------------------------------------------------------------------
\* `code` says what is appended to each block; `new` blocks are created first.
Emit(new, code) ==
    LET bs == blocks \o [i \in 1..new |-> <<>>]
    IN blocks' = [b \in DOMAIN bs |-> IF b \in DOMAIN code THEN bs[b] \o code[b] ELSE bs[b]]
At(b, ins) == [x \in {b} |-> ins]

NewBlock(i) == Len(blocks) + i
Own(new, f) == owner' = owner \o [i \in 1..new |-> f]

\* The visitors' turn, with `do` next; what they leave is `tasks` and the rest.
Doing(do) == phase = "emit" /\ todo # <<>> /\ Head(todo).do = do
Proceed(tasks) == todo' = tasks \o Tail(todo) /\ UNCHANGED <<phase, prog, pc, rest>>

\* The next statement of the list being visited, and what to do about it.
Stmt(k) == Doing("visit") /\ Head(todo).list # <<>> /\ prog.kind[Head(Head(todo).list)] \in k
Node_ == Head(Head(todo).list)
Others == Visit(Tail(Head(todo).list))
Part(n, i) == Visit(prog.parts[n][i])
Valued == prog.valued[Node_]

VisitsEnd ==
    /\ Doing("visit") /\ Head(todo).list = <<>>
    /\ Proceed(<<>>)
    /\ UNCHANGED <<blocks, owner, at>>

\* visitPrint, visitVar, visitExprStmt.
VisitAct ==
    /\ Stmt({"act"}) /\ Valued
    /\ Emit(0, At(at, <<Act(Node_, 0)>>))
    /\ Proceed(<<Others>>)
    /\ UNCHANGED <<owner, at>>

VisitReturn ==
    /\ Stmt({"return"}) /\ Valued
    /\ Emit(0, At(at, <<Ret(Node_)>>))
    /\ Proceed(<<Others>>)
    /\ UNCHANGED <<owner, at>>

\* A statement whose expression leaves lastValue_ null is dropped, with all it
\* contains; visitLoop is empty.
VisitNothing ==
    /\ \/ Stmt({"act", "return", "if", "ifElse", "match", "matchElse"}) /\ ~Valued
       \/ Stmt({"loop"})
    /\ Proceed(<<Others>>)
    /\ UNCHANGED <<blocks, owner, at>>

VisitIf ==
    /\ Stmt({"if", "ifElse"}) /\ Valued
    /\ Emit(2, At(at, <<CondBranch(Node_, 0, NewBlock(1), NewBlock(2))>>))
    /\ Own(2, owner[at])
    /\ at' = NewBlock(1)
    /\ Proceed(<<Part(Node_, 1), Then("endThen", Node_, 0, <<NewBlock(2)>>), Others>>)

EndThen ==
    /\ Doing("endThen")
    /\ at' = Head(todo).at[1]
    /\ LET n == Head(todo).n
           end == Then("endIf", n, 0, <<at>>)
       IN Proceed(IF prog.kind[n] = "ifElse" THEN <<Part(n, 2), end>> ELSE <<end>>)
    /\ UNCHANGED <<blocks, owner>>

\* Mutant of EndIf: a branch that has returned is not left alone.
EndIfAlways ==
    /\ Doing("endIf")
    /\ Emit(1, [b \in {at, Head(todo).at[1]} |-> <<Branch(NewBlock(1))>>])
    /\ Own(1, owner[at])
    /\ at' = NewBlock(1)
    /\ Proceed(<<>>)

\* The ends of both branches go on in a merge block, unless they have returned.
EndIf ==
    /\ Doing("endIf")
    /\ Emit(1, [b \in {x \in {at, Head(todo).at[1]} : ~HasTerminator(x)} |-> <<Branch(NewBlock(1))>>])
    /\ Own(1, owner[at])
    /\ at' = NewBlock(1)
    /\ Proceed(<<>>)

\* Blocks: header, body, exit.  Without a value for the condition, the exit.
VisitWhile ==
    /\ Stmt({"while"})
    /\ LET header == NewBlock(1)  body == NewBlock(2)  exit == NewBlock(3)
           test == IF Valued THEN CondBranch(Node_, 0, body, exit) ELSE Branch(exit)
       IN /\ Emit(3, [b \in {at, header} |-> IF b = at THEN <<Branch(header)>> ELSE <<test>>])
          /\ Proceed(<<Part(Node_, 1), Then("endWhile", Node_, 0, <<header, exit>>), Others>>)
    /\ Own(3, owner[at])
    /\ at' = NewBlock(2)

\* Mutant of EndWhile: the body goes on behind the loop.
EndWhileOnce ==
    /\ Doing("endWhile")
    /\ Emit(0, At(at, <<Branch(Head(todo).at[2])>>))
    /\ at' = Head(todo).at[2]
    /\ Proceed(<<>>)
    /\ UNCHANGED owner

EndWhile ==
    /\ Doing("endWhile")
    /\ Emit(0, At(at, <<Branch(Head(todo).at[1])>>))
    /\ at' = Head(todo).at[2]
    /\ Proceed(<<>>)
    /\ UNCHANGED owner

\* Mutant of VisitFor: without a condition the header goes to itself.
VisitForSpins ==
    /\ Stmt({"for", "forEver"})
    /\ LET header == NewBlock(1)  body == NewBlock(2)  exit == NewBlock(4)
           full == prog.kind[Node_] = "for"
           init == IF full THEN <<Act(Node_, 0)>> ELSE <<>>
           test == IF full THEN CondBranch(Node_, 1, body, exit) ELSE Branch(header)
       IN /\ Emit(4, [b \in {at, header} |->
                        IF b = at THEN init \o <<Branch(header)>> ELSE <<test>>])
          /\ Proceed(<<Part(Node_, 1),
                       Then("endFor", Node_, 0, <<header, NewBlock(3), exit>>), Others>>)
    /\ Own(4, owner[at])
    /\ at' = NewBlock(2)

\* Blocks: header, body, step, exit.
VisitFor ==
    /\ Stmt({"for", "forEver"})
    /\ LET header == NewBlock(1)  body == NewBlock(2)  exit == NewBlock(4)
           full == prog.kind[Node_] = "for"
           init == IF full THEN <<Act(Node_, 0)>> ELSE <<>>
           test == IF ~full THEN Branch(body)
                   ELSE IF Valued THEN CondBranch(Node_, 1, body, exit) ELSE Branch(exit)
       IN /\ Emit(4, [b \in {at, header} |->
                        IF b = at THEN init \o <<Branch(header)>> ELSE <<test>>])
          /\ Proceed(<<Part(Node_, 1),
                       Then("endFor", Node_, 0, <<header, NewBlock(3), exit>>), Others>>)
    /\ Own(4, owner[at])
    /\ at' = NewBlock(2)

EndFor ==
    /\ Doing("endFor")
    /\ LET n == Head(todo).n  header == Head(todo).at[1]  step == Head(todo).at[2]
           last == IF prog.kind[n] = "for" THEN <<Act(n, 2)>> ELSE <<>>
       IN Emit(0, [b \in {at, step} |->
                     IF b = at THEN <<Branch(step)>> ELSE last \o <<Branch(header)>>])
    /\ at' = Head(todo).at[3]
    /\ Proceed(<<>>)
    /\ UNCHANGED owner

\* The exit block is created first, and added to the function last.
VisitMatch ==
    /\ Stmt({"match", "matchElse"}) /\ Valued
    /\ Emit(1, <<>>)
    /\ Own(1, owner[at])
    /\ Proceed(<<Then("arm", Node_, 1, <<NewBlock(1)>>), Others>>)
    /\ UNCHANGED at

\* One arm: a test that goes to the arm or to the next one; `_` has no test.
VisitArm ==
    /\ Doing("arm")
    /\ Head(todo).i <= Len(prog.parts[Head(todo).n])
    /\ LET n == Head(todo).n  i == Head(todo).i  exit == Head(todo).at[1]
           arm == NewBlock(1)  next == NewBlock(2)
       IN /\ Emit(2, At(at, <<IF ArmIsDefault(prog, n, i) THEN Branch(arm)
                               ELSE CondBranch(n, i, arm, next)>>))
          /\ Own(2, owner[at])
          /\ at' = arm
          /\ Proceed(<<Part(n, i), Then("endArm", n, i, <<arm, next, exit>>),
                       Then("arm", n, i + 1, <<exit>>)>>)

\* It is the first block of the arm whose terminator is looked for, and the
\* block the arm has ended in that gets the branch.
EndArm ==
    /\ Doing("endArm")
    /\ LET arm == Head(todo).at[1]  exit == Head(todo).at[3]
       IN Emit(0, IF HasTerminator(arm) THEN <<>> ELSE At(at, <<Branch(exit)>>))
    /\ at' = Head(todo).at[2]
    /\ Proceed(<<>>)
    /\ UNCHANGED owner

EndMatch ==
    /\ Doing("arm")
    /\ Head(todo).i > Len(prog.parts[Head(todo).n])
    /\ Emit(0, At(at, <<Branch(Head(todo).at[1])>>))
    /\ at' = Head(todo).at[1]
    /\ Proceed(<<>>)
    /\ UNCHANGED owner

\* visitFunc and visitLambda: a function of its own, the insertion point saved.
VisitFunc ==
    /\ Stmt({"func"})
    /\ Emit(1, <<>>)
    /\ Own(1, Node_)
    /\ at' = NewBlock(1)
    /\ Proceed(<<Part(Node_, 1), Then("endFunc", Node_, 0, <<at>>), Others>>)

\* Mutant of EndFunc: the insertion point is not restored.
EndFuncStays ==
    /\ Doing("endFunc")
    /\ Emit(0, IF HasTerminator(at) THEN <<>> ELSE At(at, <<Ret("none")>>))
    /\ Proceed(<<>>)
    /\ UNCHANGED <<owner, at>>

EndFunc ==
    /\ Doing("endFunc")
    /\ Emit(0, IF HasTerminator(at) THEN <<>> ELSE At(at, <<Ret("none")>>))
    /\ at' = Head(todo).at[1]
    /\ Proceed(<<>>)
    /\ UNCHANGED owner
-----------------------------------------------------------------------------
\* compile_single_function forgets the values of the functions before: an
\* instruction uses one that is of another function.
Lacks(ins) == IF ins.n = "none" THEN FALSE ELSE ins.i \in prog.lost[ins.n]

\* Mutant of IsDropped: a branch on no value is translated all the same.
IsDroppedUnlessBranch(ins) == ins.op = "act" /\ Lacks(ins)

\* Such an instruction is left out, and a branch is as well.
IsDropped(ins) == ins.op \in {"act", "cbr"} /\ Lacks(ins)

\* A call that is short of an argument is rejected by LLVM; the compiler itself
\* does not survive a copy from nowhere, as of the value of a return.
IsFatal(ins) ==
    IF ins.n = "none" THEN FALSE
    ELSE ins.i \in prog.fatal[ins.n] \/ (ins.op = "ret" /\ Lacks(ins))

\* llvm::verifyFunction: in what the back end has made of a block one terminator
\* stands, at its end, and branches stay in the function.  What is left out may
\* leave a part of its expression behind.
EndsBlock(ins) == ins.op \in Terminators /\ ~IsDropped(ins)
Verifies(b, left) ==
    LET ins == blocks[b] IN
    /\ \A i \in DOMAIN ins : ~IsFatal(ins[i])
    /\ \E k \in DOMAIN ins :
         /\ EndsBlock(ins[k])
         /\ \A i \in 1..(k - 1) : ~EndsBlock(ins[i])
         /\ \A i \in (k + 1)..Len(ins) : IsDropped(ins[i]) /\ ~left
StaysInside(b) ==
    \A i \in DOMAIN blocks[b] : \A j \in DOMAIN blocks[b][i].to :
        owner[blocks[b][i].to[j]] = owner[b]

\* generate ends main with a return; compileFunction and emitObjectFile give
\* up on the program when one function does not verify.
Generated ==
    /\ phase = "emit" /\ todo = <<>>
    /\ LET last == IF HasTerminator(at) THEN <<>> ELSE At(at, <<Ret("none")>>)
       IN Emit(0, last)
    /\ phase' = "verify"
    /\ UNCHANGED <<prog, owner, at, todo, pc, rest>>

\* The functions of the program: where the code of each begins, and its source.
Functions == {owner[b] : b \in DOMAIN owner}
Entry(f) ==
    CHOOSE b \in DOMAIN owner : owner[b] = f /\ \A c \in DOMAIN owner : owner[c] = f => b <= c
Body(f) == IF f = "main" THEN prog.top ELSE prog.parts[f][1]

\* A compiler that does not survive has rejected the program, too.
Verify ==
    /\ phase = "verify"
    /\ \E left \in BOOLEAN :
         IF \A b \in DOMAIN blocks : Verifies(b, left) /\ StaysInside(b)
         THEN /\ phase' = "run"
              /\ \E f \in Functions : pc' = <<Entry(f), 1>> /\ rest' = Items(Body(f))
         ELSE phase' = "rejected" /\ UNCHANGED <<pc, rest>>
    /\ UNCHANGED <<prog, emitted>>

\* The instruction the program is at.
Instr == blocks[pc[1]][pc[2]]

\* A step of the program that has no effect, and one of the source.
RunBranch ==
    /\ phase = "run"
    /\ \/ Instr.op = "br" /\ pc' = <<Instr.to[1], 1>>
       \/ IsDropped(Instr) /\ pc' = <<pc[1], pc[2] + 1>>
    /\ UNCHANGED <<phase, prog, emitted, rest>>

ReadOn ==
    /\ phase = "run" /\ ~HasEffect(prog, rest)
    /\ rest' = Quietly(prog, rest)
    /\ UNCHANGED <<phase, prog, emitted, pc>>

\* The code, and its source, have come to an effect.
CodeActs == IF phase = "run" THEN Instr.op # "br" /\ ~IsDropped(Instr) ELSE FALSE
SourceActs == phase = "run" /\ HasEffect(prog, rest)
BothHaveEffect == CodeActs /\ SourceActs

\* The effect of the instruction is the one a reader expects.
SameEffect ==
    IF rest = <<>> THEN Instr.op = "ret" /\ Instr.n = "none"
    ELSE /\ Instr.op = IF IsTest(prog, rest) THEN "cbr"
                       ELSE IF prog.kind[Head(rest).n] = "return" THEN "ret" ELSE "act"
         /\ Instr.n = Head(rest).n /\ Instr.i = Head(rest).i

RunEffect ==
    /\ BothHaveEffect /\ SameEffect /\ Instr.op # "ret"
    /\ \E yes \in BOOLEAN :
         /\ Instr.op = "act" => yes
         /\ pc' = IF Instr.op = "act" THEN <<pc[1], pc[2] + 1>>
                  ELSE <<Instr.to[IF yes THEN 1 ELSE 2], 1>>
         /\ rest' = After(prog, rest, yes)
    /\ UNCHANGED <<phase, prog, emitted>>

RunReturn ==
    /\ BothHaveEffect /\ SameEffect /\ Instr.op = "ret"
    /\ phase' = "done"
    /\ rest' = <<>>
    /\ UNCHANGED <<prog, emitted, pc>>
-----------------------------------------------------------------------------
Visitors ==
    \/ VisitsEnd \/ VisitAct \/ VisitReturn \/ VisitNothing
    \/ VisitIf \/ EndThen \/ EndIf
    \/ VisitWhile \/ EndWhile \/ VisitFor \/ EndFor
    \/ VisitMatch \/ VisitArm \/ EndArm \/ EndMatch
    \/ VisitFunc \/ EndFunc

Next ==
    \/ Visitors \/ Generated \/ Verify
    \/ RunBranch \/ ReadOn \/ RunEffect \/ RunReturn

Spec == Init /\ [][Next]_vars

\* The compiler and the program run to the end of what they have to do.
FairSpec == Spec /\ WF_vars(Next) /\ WF_vars(RunBranch) /\ WF_vars(ReadOn)
-----------------------------------------------------------------------------
\* A statement of a list that emits code where the list is, and one whose parts
\* are visited.
EmitsCode(n) ==
    \/ prog.kind[n] \in {"while", "for", "forEver"}
    \/ prog.kind[n] \notin {"func", "loop"} /\ prog.valued[n]
IsOpened(n) ==
    \/ prog.kind[n] \in {"while", "for", "forEver", "func"}
    \/ prog.kind[n] \in {"if", "ifElse", "match", "matchElse"} /\ prog.valued[n]
IsReturn(n) == prog.kind[n] = "return" /\ prog.valued[n]

\* The first m statements of a list: none with code behind a return; one that
\* returns; none with a branch.
NoDeadCode(list, m) ==
    \A i, j \in 1..m : i < j /\ IsReturn(list[i]) => ~EmitsCode(list[j])
Returns(list, m) == \E i \in 1..m : IsReturn(list[i])
Straight(list, m) ==
    \A i \in 1..m : EmitsCode(list[i]) => prog.kind[list[i]] \in {"act", "return"}

\* The statements the visitors come to: those of the program's list, and of the
\* parts of one that is opened.
Closed(S) ==
    /\ \A i \in DOMAIN prog.top : prog.top[i] \in S
    /\ \A n \in S : IsOpened(n) =>
         \A j \in DOMAIN prog.parts[n] : \A i \in DOMAIN prog.parts[n][j] : prog.parts[n][j][i] \in S
Reached == {n \in Node : \A S \in SUBSET Node : Closed(S) => n \in S}

\* What the visitors can cope with: no code behind a return, no loop body that
\* ends in a return, no arm with a branch in it, unless it ends in a return.
PartIsClean(n, j) ==
    LET part == prog.parts[n][j]  m == Len(part) IN
    /\ NoDeadCode(part, m)
    /\ prog.kind[n] \in {"while", "for", "forEver"} => ~Returns(part, m)
    /\ IsMatch(prog.kind[n]) => Straight(part, m) \/ Returns(part, m)
Clean ==
    /\ NoDeadCode(prog.top, Len(prog.top))
    /\ \A n \in Reached : IsOpened(n) => \A j \in DOMAIN prog.parts[n] : PartIsClean(n, j)

\* Nested function definitions, wherever they stand, leave the function around
\* them as it was: no block branches into another function.
BranchesStayInside == \A b \in DOMAIN blocks : StaysInside(b)

\* The back end has every value the program uses.
HasAllValues == \A n \in Node : prog.lost[n] = {} /\ prog.fatal[n] = {}

\* LLVM accepts exactly the clean programs of those: returns in the branches of
\* an if never spoil a block, returns in loops and branches in arms always do.
VerifiesExactlyWhenClean ==
    HasAllValues =>
        /\ phase \in {"run", "done"} => Clean
        /\ phase = "rejected" => ~Clean

\* A variable of a function around costs a clean program its compilation where
\* it is tested, returned, called, passed on, unwrapped or put in a string; other
\* uses go unnoticed.
Survives(n) ==
    /\ prog.fatal[n] = {}
    /\ \A i \in prog.lost[n] : prog.kind[n] = "act" \/ (prog.kind[n] = "for" /\ i # 1)
CleanFailsForLostValues ==
    Clean =>
        /\ phase \in {"run", "done"} => \A n \in Reached : Survives(n)
        /\ phase = "rejected" => \E n \in Reached : ~Survives(n)

\* visitLoop is empty, and a print or an expression without code is dropped; the
\* other programs are translated whole.
TranslatedWhole ==
    HasAllValues /\ \A n \in Node : prog.kind[n] # "loop" /\ prog.valued[n]

\* Each function of accepted code does what its source says, effect by effect,
\* whatever the outcome of each condition.
RunsAsWritten == TranslatedWhole /\ BothHaveEffect => SameEffect

\* Neither gets lost between two effects: if one of them has come to an effect,
\* so will the other, whatever empty loops and joins lie in between.
KeepsPace ==
    /\ (TranslatedWhole /\ CodeActs) ~> (phase = "done" \/ SourceActs)
    /\ (TranslatedWhole /\ SourceActs) ~> (phase = "done" \/ CodeActs)
-----------------------------------------------------------------------------
\* What the visitors leave for later holds the blocks of the function it will be
\* done in: up to an endFunc that of the insertion point, behind it that of the
\* block the endFunc goes back to.
Blocks == DOMAIN blocks
Owners == Node \union {"main"}
Instructions ==
    [op : {"act"} \union Terminators, n : Node \union {"none"}, i : Nat, to : Seq(Blocks)]

\* How many blocks each kind of task holds.
Held ==
    [do \in {"visit", "endThen", "endIf", "endWhile", "endFor", "arm", "endArm", "endFunc"} |->
        CASE do = "visit" -> 0 [] do \in {"endFor", "endArm"} -> 3 [] do = "endWhile" -> 2 [] OTHER -> 1]
Tasks ==
    {t \in [do : DOMAIN Held, list : Seq(Node), n : Node \union {"none"}, i : Nat, at : Seq(Blocks)] :
        /\ Len(t.at) = Held[t.do]
        /\ t.do # "visit" => t.n \in Node
        /\ t.do = "endThen" => prog.kind[t.n] \in {"if", "ifElse"}
        /\ t.do = "arm" => t.i > 0}

\* Of the list t, task j is done in the function task k goes back to, or in the
\* present one if k is 0.
DoneAfter(t, k, j) ==
    /\ k < j /\ (k = 0 \/ t[k].do = "endFunc")
    /\ \A l \in (k + 1)..(j - 1) : t[l].do # "endFunc"
Back(o, f, t, k) == IF k = 0 THEN f ELSE o[t[k].at[1]]
HoldsOwn(o, f, t) ==
    \A k \in 0..Len(t) : \A j \in 1..Len(t) :
        DoneAfter(t, k, j) /\ t[j].do # "endFunc" =>
            \A x \in DOMAIN t[j].at : o[t[j].at[x]] = Back(o, f, t, k)

IInv ==
    /\ prog \in Programs
    /\ owner \in Seq(Owners) /\ Len(owner) = Len(blocks) /\ at \in Blocks
    /\ blocks \in Seq(Seq(Instructions))
    /\ todo \in Seq(Tasks)
    /\ HoldsOwn(owner, owner[at], todo)
    /\ BranchesStayInside
-----------------------------------------------------------------------------
\* What becomes of a block: code may still come, or it ends in its only terminator.
WellFormed(b) ==
    /\ HasTerminator(b)
    /\ \A i \in 1..(Len(blocks[b]) - 1) : blocks[b][i].op \notin Terminators
IsOpen(b) == \A i \in DOMAIN blocks[b] : blocks[b][i].op \notin Terminators
Settled(b) == IsOpen(b) \/ WellFormed(b)

\* The blocks a task keeps for code to come; the others of a task are only
\* targets.  Code may come to the blocks kept, and to the insertion point.
Keeps(t) ==
    CASE t.do \in {"endThen", "endIf", "arm", "endFunc"} -> {t.at[1]}
      [] t.do \in {"endWhile", "endArm"} -> {t.at[2]}
      [] t.do = "endFor" -> {t.at[2], t.at[3]}
      [] OTHER -> {}
KeptAt(k) == IF k = 0 THEN {at} ELSE Keeps(todo[k])
InUse(b) == \E k \in 0..Len(todo) : b \in KeptAt(k)

\* The program will be rejected: for a block that it is too late for, or for the
\* insertion point, when a match behind a return goes on.
Spoilt == \E b \in Blocks : ~Settled(b) \/ (~InUse(b) /\ ~WellFormed(b))
Doomed == IF todo # <<>> THEN todo[1].do = "arm" /\ HasTerminator(at) ELSE FALSE

\* The tasks: behind a list there is the end it is for, and behind an end the
\* rest of the list around it.  V are the statements opened.
IsEnd(t) == t.do \notin {"visit", "arm"}
EndKinds(t) ==
    CASE t.do \in {"endThen", "endIf"} -> {"if", "ifElse"}
      [] t.do = "endWhile" -> {"while"}
      [] t.do = "endFor" -> {"for", "forEver"}
      [] t.do = "endFunc" -> {"func"}
      [] OTHER -> {"match", "matchElse"}
TaskFits(t, V) ==
    /\ t.do # "visit" => t.n \in V /\ prog.kind[t.n] \in EndKinds(t)
    /\ t.do = "endArm" => t.i \in 1..Len(prog.parts[t.n])
    /\ t.do = "endFor" => t.at[2] # t.at[3]
Follows(s, t) ==
    CASE s.do = "visit" -> IsEnd(t)
      [] s.do = "endArm" -> t.do = "arm" /\ t.n = s.n /\ t.i = s.i + 1
      [] OTHER -> t.do = "visit"
ChainIsRight(V) ==
    \A k \in 1..Len(todo) :
        /\ TaskFits(todo[k], V)
        /\ IF k = Len(todo) THEN todo[k].do = "visit" ELSE Follows(todo[k], todo[k + 1])

\* A frame is a list under way: that of the end at k, or that of the program.
\* What is left of it, and the block it goes on in, 0 if that is still to be made.
IsFrame(k) == IF k \in 1..Len(todo) THEN IsEnd(todo[k]) ELSE k = Len(todo) + 1
ListAt(k) ==
    IF k > Len(todo) THEN prog.top
    ELSE LET t == todo[k]  p == prog.parts[t.n]
         IN CASE t.do = "endIf" -> IF prog.kind[t.n] = "ifElse" THEN p[2] ELSE <<>>
              [] t.do = "endArm" -> p[t.i]
              [] OTHER -> p[1]
LeftAt(k) == IF k = 1 THEN <<>> ELSE todo[k - 1].list
BlockAt(k) == IF k <= 2 THEN at ELSE IF todo[k - 2].do = "endFunc" THEN todo[k - 2].at[1] ELSE 0

\* m statements of list L are done, without code behind a return, and left is
\* what is left: its block b ends in a terminator if one of them is a return.
Passed(L, left, m, V) ==
    /\ Len(L) = m + Len(left) /\ \A i \in 1..Len(left) : left[i] = L[m + i]
    /\ \A i \in 1..m : IsOpened(L[i]) => L[i] \in V
    /\ NoDeadCode(L, m)
GoesOnIn(b, L, m) == IF b = 0 THEN ~Returns(L, m) ELSE Returns(L, m) <=> HasTerminator(b)

\* An arm is in its first block, a, if it has no branch, and the other way round.
ArmGoesOn(k, a, L, b, m) ==
    IF Straight(L, m) THEN b = a ELSE ~InUse(a) \/ (k = 3 /\ todo[1].do = "arm" /\ a = at)
Frame(k, L, left, b, V) ==
    \E m \in 0..Len(L) :
        /\ Passed(L, left, m, V) /\ GoesOnIn(b, L, m)
        /\ k <= Len(todo) => (todo[k].do = "endArm" => ArmGoesOn(k, todo[k].at[1], L, b, m))
FrameIsRight(k, V) == Frame(k, ListAt(k), LeftAt(k), BlockAt(k), V)
FramesAreRight(V) == \A k \in 1..(Len(todo) + 1) : IsFrame(k) => FrameIsRight(k, V)

\* A block is kept for one purpose, and is open; the branches of an if and the
\* function around another may have returned.
KeptApart == \A j, k \in 0..Len(todo) : j # k => KeptAt(j) \cap KeptAt(k) = {}
KeptOpen ==
    /\ \A k \in 1..Len(todo) : todo[k].do \notin {"endIf", "endFunc"} => \A b \in Keeps(todo[k]) : IsOpen(b)
    /\ IF todo # <<>> THEN todo[1].do = "arm" => IsOpen(at) ELSE TRUE
BlocksAreRight == \A b \in Blocks : Settled(b) /\ (InUse(b) \/ WellFormed(b))

\* Of a statement opened each part is clean, or still to be done.
Pends(t, n, j) ==
    /\ t.n = n
    /\ \/ t.do = "endThen"
       \/ t.do \in {"endWhile", "endFor", "endFunc"} /\ j = 1
       \/ t.do = "endIf" /\ j = 2
       \/ t.do = "endArm" /\ j = t.i
       \/ t.do = "arm" /\ j >= t.i
Pending(n, j) == \E k \in 1..Len(todo) : Pends(todo[k], n, j)
PartIsDone(n, j, V) ==
    /\ PartIsClean(n, j)
    /\ \A i \in DOMAIN prog.parts[n][j] : IsOpened(prog.parts[n][j][i]) => prog.parts[n][j][i] \in V
OpenedAreRight(V) ==
    \A n \in V :
        /\ n \in Reached /\ IsOpened(n)
        /\ \A j \in DOMAIN prog.parts[n] : Pending(n, j) \/ PartIsDone(n, j, V)

\* So far the program is clean, and its code without fault.
Neat(V) ==
    /\ ChainIsRight(V) /\ FramesAreRight(V) /\ OpenedAreRight(V)
    /\ KeptApart /\ KeptOpen /\ BlocksAreRight

VerifyInv ==
    /\ phase \in {"emit", "verify", "rejected", "run", "done"}
    /\ phase = "emit" => (~Clean /\ (Spoilt \/ Doomed)) \/ (\E V \in SUBSET Node : Neat(V))
    /\ phase = "verify" => (Clean <=> \A b \in Blocks : WellFormed(b))
    /\ VerifiesExactlyWhenClean
=============================================================================
