------------------------------- MODULE Scopes -------------------------------
(***************************************************************************)
(* The three visitors that bind names: NameResolver, TypeChecker and       *)
(* CodeGenerator.  All walk the same tree in the same order, so a program  *)
(* is the sequence of marks they pass, an opening mark and an "end" around *)
(* what has something inside:                                              *)
(*   block, for, fn, lambda   what opens a scope; the last two have a      *)
(*                            parameter, fn a name too                     *)
(*   match, arms              the value matched, then the arms             *)
(*   text, unwrap             an interpolated string; the postfix `!`      *)
(*   declare, declared        around the initializer of a variable         *)
(*   use, target, callee      a variable read, assigned; a function called *)
(*   literal, call, binary, assign, drop   after their operands            *)
(* The parser makes functions at the top of a program only.                *)
(***************************************************************************)
EXTENDS Integers, Sequences, FiniteSets, FiniteSetsExt

CONSTANTS Names, Programs

VARIABLES
    prog,
    pass,       \* "resolve", "check", "generate", "done" or "rejected"
    at,         \* the mark the visitor has come to
    scopes,     \* table_ of the analyzer, then variables_stack_: outermost first
    results,    \* what the visitors of the operands have returned: types, then
                \* values, of which only the null pointer, 0, matters
    errors,     \* the marks with an error
    functions,  \* functions_: the declaration of each name
    bound       \* what the code generator has bound each use to

vars == <<prog, pass, at, scopes, results, errors, functions, bound>>

\* A binding is the mark that declares a variable, or -i for the function at i.
Nothing == 0
Mark == prog[at]
Scoped == {"block", "for", "fn", "lambda"}
Open == Scoped \union {"match", "text", "unwrap"}

Depth(p, i) ==               \* how many marks are open before i
    Cardinality({j \in 1..(i - 1) : p[j].mark \in Open})
      - Cardinality({j \in 1..(i - 1) : p[j].mark = "end"})
Level(i) == Depth(prog, i)
Opener(i) == Max({j \in 1..(i - 1) : prog[j].mark \in Open /\ Level(j) = Level(i) - 1})
Close(i) == Min({j \in (i + 1)..Len(prog) : prog[j].mark = "end" /\ Level(j) = Level(i) + 1})

\* The programs the parser makes: what is opened is closed; what a declaration,
\* a string or an unwrapped operand declares inside, a lambda there declares; and
\* the target of an assignment is a name.
Encloses(p, o, i) ==
    o < i /\ p[o].mark \in Open /\ \A j \in (o + 1)..i : Depth(p, j) > Depth(p, o)
InLambda(p, o, i) == \E l \in (o + 1)..(i - 1) : p[l].mark = "lambda" /\ Encloses(p, l, i)
Initializes(p, d, e) ==      \* what is between d and e is the initializer of d
    /\ d < e /\ p[d].mark = "declare" /\ p[e].mark = "declared"
    /\ p[d].name = p[e].name /\ p[d].type = p[e].type /\ Depth(p, d) = Depth(p, e)
    /\ \A j \in (d + 1)..(e - 1) :
          /\ Depth(p, j) >= Depth(p, d)
          /\ p[j].mark \in {"declare", "declared"} => InLambda(p, d, j)
WellFormed(p) ==
    /\ p \in Seq([mark : STRING, name : Names \union {""}, type : STRING, count : Nat,
                   param : Names \union {""}])
    /\ \A i \in 1..(Len(p) + 1) : Depth(p, i) >= 0
    /\ Depth(p, Len(p) + 1) = 0
    /\ \A i \in DOMAIN p :
          /\ p[i].mark \in {"use", "target", "callee"} => p[i].name \in Names
          /\ p[i].mark \notin {"fn", "lambda"} => p[i].param = ""
          /\ p[i].mark = "declare" => p[i].name \in Names /\ \E e \in DOMAIN p : Initializes(p, i, e)
          /\ p[i].mark = "declared" => \E d \in DOMAIN p : Initializes(p, d, i)
          /\ p[i].mark \in {"text", "unwrap"} =>
               \A j \in DOMAIN p : p[j].mark = "declare" /\ Encloses(p, i, j) => InLambda(p, i, j)
          /\ p[i].mark = "arms" =>
               \E m \in DOMAIN p : p[m].mark = "match" /\ Encloses(p, m, i) /\ Depth(p, i) = Depth(p, m) + 1
          /\ p[i].mark = "assign" => i > 2 /\ (p[i - 1].mark = "literal" => p[i - 2].mark = "target")

ASSUME ProgramsAssumption == "" \notin Names /\ \A p \in Programs : WellFormed(p)

Empty == [n \in {} |-> 0]
With(scope, n, entry) == [m \in DOMAIN scope \union {n} |-> IF m = n THEN entry ELSE scope[m]]
Entry(decl, type) == [decl |-> decl, type |-> type]
Top == scopes[Len(scopes)]
SetTop(scope) == scopes' = [scopes EXCEPT ![Len(scopes)] = scope]
Holding(n) == {i \in DOMAIN scopes : n \in DOMAIN scopes[i]}
Bound(n) == Holding(n) # {}
\* Mutant of Resolve: the outermost scope wins.
ResolveOutermost(n) == scopes[Min(Holding(n))][n]
Resolve(n) == scopes[Max(Holding(n))][n]

Functions == {i \in DOMAIN prog : prog[i].mark = "fn"}
Params(type) == IF Mark.param = "" THEN Empty ELSE With(Empty, Mark.param, Entry(at, type))

\* defineSymbols: the functions, whatever stands between them.
Init ==
    /\ prog \in Programs
    /\ pass = "resolve" /\ at = 1
    /\ scopes = <<[n \in {prog[i].name : i \in Functions} |->
                     Entry(-Min({i \in Functions : prog[i].name = n}), "number")]>>
    /\ results = <<>> /\ errors = {}
    /\ functions = Empty /\ bound = [i \in {} |-> Nothing]

Go(to) == at' = to /\ UNCHANGED <<prog, pass>>
On(p, marks) == pass = p /\ at <= Len(prog) /\ Mark.mark \in marks
Ended(p) == pass = p /\ at > Len(prog)
Error(yes) == errors' = errors \union (IF yes THEN {at} ELSE {})

Enter(type) == scopes' = Append(scopes, Params(type))
\* Mutant of Leave: the scope stays.
LeaveNot == scopes' = scopes
Leave == scopes' = SubSeq(scopes, 1, Len(scopes) - 1)
-----------------------------------------------------------------------------
\* NameResolver.
Resolved(to) == Go(to) /\ UNCHANGED <<results, functions, bound>>

ResolveScope ==
    \/ On("resolve", Scoped) /\ Enter("error") /\ Resolved(at + 1) /\ UNCHANGED errors
    \/ On("resolve", {"end"}) /\ Leave /\ Resolved(at + 1) /\ UNCHANGED errors

\* What the resolver has no case for, it does not look into.
ResolveNothing ==
    /\ On("resolve", {"match", "text", "unwrap"})
    /\ Resolved(Close(at) + 1) /\ UNCHANGED <<scopes, errors>>

ResolveDeclaration ==
    /\ On("resolve", {"declare"})
    /\ IF Mark.name \in DOMAIN Top THEN UNCHANGED scopes
       ELSE SetTop(With(Top, Mark.name, Entry(at, "error")))
    /\ Resolved(at + 1) /\ UNCHANGED errors

ResolveName ==
    /\ On("resolve", {"use", "target", "callee"})
    /\ Error(~Bound(Mark.name))
    /\ Resolved(at + 1) /\ UNCHANGED scopes

ResolveOther ==
    /\ On("resolve", {"declared", "literal", "call", "binary", "assign", "drop"})
    /\ Resolved(at + 1) /\ UNCHANGED <<scopes, errors>>
-----------------------------------------------------------------------------
\* TypeChecker.
Result(k) == results[Len(results) + 1 - k]         \* the kth from the end
Return(pops, type) == results' = Append(SubSeq(results, 1, Len(results) - pops), type)
Checked == Go(at + 1) /\ UNCHANGED <<functions, bound>>

Option(type) == type = "number?"
Element(type) == "number"

EndOf(p, marks) == On(p, {"end"}) /\ prog[Opener(at)].mark \in marks
Typed == Checked /\ UNCHANGED <<scopes, errors>>

CheckEnter ==
    /\ On("check", Scoped) /\ Enter("number")
    /\ Checked /\ UNCHANGED <<results, errors>>

CheckLeave ==
    /\ EndOf("check", Scoped) /\ Leave
    /\ IF prog[Opener(at)].mark = "lambda" THEN Return(0, "function") ELSE UNCHANGED results
    /\ Checked /\ UNCHANGED errors

CheckText == EndOf("check", {"text"}) /\ Return(1, "string") /\ Typed

CheckUnwrap ==
    /\ EndOf("check", {"unwrap"})
    /\ Return(1, IF Option(Result(1)) THEN Element(Result(1)) ELSE "error")
    /\ Error(~Option(Result(1)) /\ Result(1) # "error")
    /\ Checked /\ UNCHANGED scopes

CheckName ==
    /\ On("check", {"use", "target", "callee"})
    /\ Return(0, IF Bound(Mark.name) THEN Resolve(Mark.name).type ELSE "error")
    /\ Typed

CheckLiteral == On("check", {"literal"}) /\ Return(0, Mark.type) /\ Typed

CheckCall == On("check", {"call"}) /\ Return(1 + Mark.count, "number") /\ Typed

CheckBinary ==
    /\ On("check", {"binary"})
    /\ Return(2, IF {Result(1), Result(2)} = {"number"} THEN "number" ELSE "error")
    /\ Typed

CheckOther ==
    \/ On("check", {"drop", "arms"}) /\ results' = SubSeq(results, 1, Len(results) - 1) /\ Typed
    \/ /\ On("check", {"match", "text", "unwrap", "declare"}) \/ EndOf("check", {"match"})
       /\ Typed /\ UNCHANGED results

\* visitAssignment: only a nil is an error.
CheckAssignment ==
    /\ On("check", {"assign"})
    /\ Error(Result(1) = "void" /\ ~Option(Result(2)))
    /\ Return(2, Result(2))
    /\ Checked /\ UNCHANGED scopes

\* Mutant of Mismatch: nil is let pass.
MismatchNotNil(expected, given) ==
    /\ given \notin {"void", "error", expected}
    /\ ~(Option(expected) /\ given = Element(expected)) /\ ~(given = "number[]" /\ expected = "number")
Mismatch(expected, given) ==
    \/ given = "void" /\ ~Option(expected)
    \/ /\ given \notin {"void", "error", expected}
       /\ ~(Option(expected) /\ given = Element(expected))
       /\ ~(given = "number[]" /\ expected = "number")      \* the declaration becomes one of an array

\* visitVar, behind the initializer, if there is one.
CheckDeclaration ==
    /\ On("check", {"declared"})
    /\ LET given == IF Mark.count = 0 THEN Mark.type ELSE Result(1)
           type == IF given = "number[]" /\ Mark.type = "number" THEN given ELSE Mark.type
           old == IF Mark.name \in DOMAIN Top THEN Top[Mark.name].decl ELSE at
       IN /\ Error(Mismatch(Mark.type, given))
          /\ SetTop(With(Top, Mark.name, Entry(old, type)))
    /\ results' = SubSeq(results, 1, Len(results) - Mark.count)
    /\ Checked
-----------------------------------------------------------------------------
\* CodeGenerator.
Generated(to) == Go(to) /\ UNCHANGED functions

Valued == Generated(at + 1) /\ UNCHANGED <<scopes, errors, bound>>

\* visitFor opens no scope.
GenerateEnter ==
    /\ On("generate", Scoped \ {"for"}) /\ Enter("number")
    /\ Generated(at + 1) /\ UNCHANGED <<results, errors, bound>>

GenerateLeave ==
    /\ EndOf("generate", {"block", "fn"}) /\ Leave
    /\ Generated(at + 1) /\ UNCHANGED <<results, errors, bound>>

GenerateLambda ==
    /\ EndOf("generate", {"lambda"}) /\ Leave /\ Return(0, at)
    /\ Generated(at + 1) /\ UNCHANGED <<errors, bound>>

GenerateText == EndOf("generate", {"text"}) /\ Return(1, at) /\ Valued

GenerateDeclaration ==
    \/ /\ On("generate", {"declare"})
       /\ SetTop(With(Top, Mark.name, Entry(at, "number")))
       /\ Generated(at + 1) /\ UNCHANGED <<results, errors, bound>>
    \/ /\ On("generate", {"declared"})
       /\ results' = SubSeq(results, 1, Len(results) - Mark.count)
       /\ Generated(at + 1) /\ UNCHANGED <<scopes, errors, bound>>

Function(n) == IF n \in DOMAIN functions THEN functions[n] ELSE Nothing

Variable(n) == IF Bound(n) THEN Resolve(n).decl ELSE Nothing
First(x, y) == IF x # Nothing THEN x ELSE y
Bind(b) ==
    /\ bound' = [i \in DOMAIN bound \union {at} |-> IF i = at THEN b ELSE bound[i]]
    /\ Return(0, b)
    /\ Generated(at + 1) /\ UNCHANGED <<scopes, errors>>

\* visitVariable looks for a variable, then for a function, visitAssignment for a
\* variable only, visitCall for a function, then for a variable.
GenerateUse == On("generate", {"use"}) /\ Bind(First(Variable(Mark.name), Function(Mark.name)))
GenerateTarget == On("generate", {"target"}) /\ Bind(Variable(Mark.name))
GenerateCallee == On("generate", {"callee"}) /\ Bind(First(Function(Mark.name), Variable(Mark.name)))

\* The number of arguments is only compared for a function found by its name.
Arity(f) == IF prog[f].param = "" THEN 0 ELSE 1
GenerateCall ==
    /\ On("generate", {"call"})
    /\ LET callee == Result(Mark.count + 1)
           missing == \E k \in 1..Mark.count : Result(k) = Nothing
           wrong == IF callee < 0 THEN Arity(-callee) # Mark.count ELSE FALSE
       IN /\ Error(callee # Nothing /\ (missing \/ wrong))
          /\ Return(1 + Mark.count, IF missing \/ wrong THEN Nothing ELSE callee)
    /\ Generated(at + 1) /\ UNCHANGED <<scopes, bound>>

Both == IF Nothing \in {Result(1), Result(2)} THEN Nothing ELSE at
GenerateLiteral == On("generate", {"literal"}) /\ Return(0, at) /\ Valued

GenerateBinary == On("generate", {"binary", "assign"}) /\ Return(2, Both) /\ Valued

GenerateOther ==
    \/ On("generate", {"drop"}) /\ results' = SubSeq(results, 1, Len(results) - 1) /\ Valued
    \/ /\ On("generate", {"for", "match", "text", "unwrap"}) \/ EndOf("generate", {"for", "match", "unwrap"})
       /\ Valued /\ UNCHANGED results

\* visitMatch gives up when there is nothing to match.
GenerateArms ==
    /\ On("generate", {"arms"})
    /\ results' = SubSeq(results, 1, Len(results) - 1)
    /\ Generated(IF Result(1) # Nothing THEN at + 1 ELSE Close(Opener(at)))
    /\ UNCHANGED <<scopes, errors, bound>>
-----------------------------------------------------------------------------
\* Analyzer::analyze, and main: the next pass runs if the one before had no error.
NextPass ==
    \/ /\ Ended("resolve") /\ pass' = IF errors = {} THEN "check" ELSE "rejected"
       /\ at' = 1 /\ UNCHANGED <<scopes, functions>>
    \/ /\ Ended("check") /\ pass' = IF errors = {} THEN "generate" ELSE "rejected"
       /\ at' = 1 /\ scopes' = <<Empty>>
       /\ functions' = [n \in {prog[i].name : i \in Functions} |->
                          -Max({i \in Functions : prog[i].name = n})]
    \/ /\ Ended("generate") /\ pass' = IF errors = {} THEN "done" ELSE "rejected"
       /\ UNCHANGED <<at, scopes, functions>>
NextPasses == NextPass /\ UNCHANGED <<prog, results, errors, bound>>

Stop == pass \in {"done", "rejected"} /\ UNCHANGED vars

Next ==
    \/ ResolveScope \/ ResolveNothing \/ ResolveDeclaration \/ ResolveName \/ ResolveOther
    \/ CheckEnter \/ CheckLeave \/ CheckText \/ CheckUnwrap \/ CheckName \/ CheckLiteral
    \/ CheckCall \/ CheckBinary \/ CheckAssignment \/ CheckDeclaration \/ CheckOther
    \/ GenerateEnter \/ GenerateLeave \/ GenerateLambda \/ GenerateText \/ GenerateDeclaration
    \/ GenerateUse \/ GenerateTarget \/ GenerateCallee \/ GenerateCall \/ GenerateLiteral
    \/ GenerateBinary \/ GenerateArms \/ GenerateOther
    \/ NextPasses \/ Stop

Spec == Init /\ [][Next]_vars
-----------------------------------------------------------------------------
\* What a name means to a reader: the last declaration before it in the
\* innermost block, function or statement that has one, or else a function.
Around(i) == {o \in 1..(i - 1) : prog[o].mark \in {"block", "for", "fn", "lambda", "match"} /\ i < Close(o)}
Home(i) ==                 \* the scope a variable belongs to, 0 for the whole program
    IF prog[i].mark \in {"fn", "lambda"} THEN i ELSE Max({0} \union Around(i))
Declares(i, n) ==
    \/ prog[i].mark = "declare" /\ prog[i].name = n
    \/ prog[i].mark \in {"fn", "lambda"} /\ prog[i].param = n
Visible(i) ==
    {d \in 1..(i - 1) : Declares(d, prog[i].name) /\ Home(d) \in {0} \union Around(i)}
Meant(i) ==
    LET homes == {Home(d) : d \in Visible(i)}
        named == {f \in Functions : prog[f].name = prog[i].name}
    IN IF homes # {} THEN Max({d \in Visible(i) : Home(d) = Max(homes)})
       ELSE IF named # {} THEN -Max(named) ELSE Nothing

Uses == {i \in DOMAIN prog : prog[i].mark \in {"use", "target", "callee"}}
Unseen(i) == \E o \in 1..(i - 1) : prog[o].mark \in {"match", "text", "unwrap"} /\ i < Close(o)

\* The resolver's errors are the names that mean nothing, and no others, as far
\* as it looks: it does not look into matches, strings and unwrapped operands.
ErrorsAreUnboundNames ==
    Ended("resolve") => errors = {i \in Uses : Meant(i) = Nothing /\ ~Unseen(i)}

\* A program that is accepted means what it says, but for four names: one
\* called that is a function's, though a variable hides the function; one
\* assigned that is a function's; one of a variable of a for or a match statement
\* that has ended; one nothing declares, where the resolver did not look.
HasEnded(d, i) ==
    IF d > 0 /\ Home(d) > 0 THEN prog[Home(d)].mark \in {"for", "match"} /\ Close(Home(d)) < i ELSE FALSE
BindsAsWritten ==
    pass = "done" => \A i \in DOMAIN bound :
        \/ bound[i] = Meant(i) /\ (bound[i] = Nothing => Unseen(i))
        \/ prog[i].mark = "callee" /\ bound[i] < 0 /\ Meant(i) > 0
        \/ prog[i].mark = "target" /\ bound[i] = Nothing /\ Meant(i) < 0
        \/ HasEnded(bound[i], i)

\* No accepted program assigns the literal nil to a variable that is not
\* optional, but for two the checker takes for another one, which is: one assigned
\* in its own initializer, for which the checker has only what it hides; and one
\* hidden by a declaration of a match statement that has ended.
Initialized(d, i) == \E e \in d..i : Initializes(prog, d, e)
HiddenByMatch(d, i) ==
    \E c \in 1..i : /\ prog[c].mark = "declare" /\ prog[c].name = prog[d].name /\ Option(prog[c].type)
                   /\ Home(c) > 0 /\ prog[Home(c)].mark = "match" /\ Close(Home(c)) < i
NilAt(i) == prog[i].mark = "literal" /\ prog[i].type = "void"
NilOnlyToOptions ==
    pass = "done" => \A i \in DOMAIN prog :
        /\ prog[i].mark = "declared" /\ prog[i].count = 1 /\ NilAt(i - 1) => Option(prog[i].type)
        /\ prog[i].mark = "assign" /\ NilAt(i - 1) =>
             \A d \in {Meant(i - 2)} \intersect {c \in DOMAIN prog : prog[c].mark = "declare"} :
                Option(prog[d].type) \/ ~Initialized(d, i) \/ HiddenByMatch(d, i)
=============================================================================
