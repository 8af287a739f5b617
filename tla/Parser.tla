------------------------------- MODULE Parser -------------------------------
(***************************************************************************)
(* The recursive-descent parser.  The C++ stack is the list `stack` of     *)
(* what the active functions have still to do; a function is the list of   *)
(* its steps (Body), written with the four tests the code is made of:      *)
(*    When    if (match(..)) {..}       Loop    while (match(..)) {..}     *)
(*    Unless  if (!check(..)) {..}      Until   while (!check(..)) {..}    *)
(* and consume.  The tree is kept as the list `out` of its nodes in the    *)
(* order they are completed, which is its postfix form.                    *)
(*                                                                         *)
(* The text is a sequence of tokens: FrontEnd takes them from the lexer.   *)
(* Past its end every token is end of file.                                *)
(***************************************************************************)
EXTENDS Naturals, Sequences, SequencesExt, FiniteSetsExt

VARIABLES
    text,      \* the tokens the lexer has returned
    pos,        \* the position of current_ in it
    stack,      \* what is still to be done, innermost first
    val,        \* the kind of the node last returned; "null" for a null pointer
    out,        \* the nodes made
    panicMode,  \* panicMode_
    reported,   \* a diagnostic was reported
    faulty,     \* error() was called, reported or not
    hole,       \* a null pointer was returned for an expression or a type
    crashed     \* a null pointer was dereferenced

lex == <<pos, text>>
diag == <<panicMode, reported, faulty>>
tree == <<val, out, hole, crashed>>
parserVars == <<lex, stack, tree, diag>>

\* peek, peekNext and peekNextNext: the parser holds two tokens of lookahead.
Tok(i) == IF pos + i <= Len(text) THEN text[pos + i] ELSE "EOF"
IsAtEnd == Tok(0) = "EOF"

Item(do, on, run, kind) == [do |-> do, on |-> on, run |-> run, kind |-> kind]
Consume(t) == Item("consume", {t}, <<>>, "")
When(on, run) == Item("when", on, run, "")
Loop(on, run) == Item("loop", on, run, "")
Unless(t, run) == Item("unless", {t}, run, "")
Until(on, run) == Item("until", on, run, "")
Operators(on, run) == Item("operators", on, run, "")   \* a Loop whose node is named after its token
Make(kind) == Item("make", {}, <<>>, kind)
Call(f) == Item("call", {}, <<>>, f)
Act(a) == Item(a, {}, <<>>, "")
List(run) == run \o <<Loop({","}, run)>>               \* do run while (match(","))

Expr == Call("expression")
Stmt == Call("statement")
Type == Call("type")
-----------------------------------------------------------------------------
\* Statements.
BuiltinTypes == {"number", "string", "boolean"}

Declaration ==
    CASE Tok(0) = "fn" /\ Tok(1) = "id" /\ Tok(2) = "(" -> <<Consume("fn"), Call("function")>>
      [] Tok(0) \in BuiltinTypes \union {"void"} \/ (Tok(0) = "fn" /\ Tok(1) = "id")
           -> <<Call("variable")>>
      [] OTHER -> <<Stmt>>

VarDeclaration ==
    <<Type, Consume("id"), When({"="}, <<Expr>>), Consume(";"), Make("Variable")>>

Parameters(param) == Unless(")", List(param))

\* parse: the declarations of a file.
Program == Until({}, <<Call("declaration"), Act("synchronizeIfNull")>>)

Function ==
    <<Consume("id"), Consume("("), Parameters(<<Type, Consume("id")>>), Consume(")"),
      When({"->"}, <<Type>>), Call("block"), Make("Function")>>

Statements == <<Stmt, Act("synchronizeIfNull")>>

Block == <<Consume("{"), Until({"}"}, Statements), Consume("}"), Make("Block")>>

\* Mutant of ExpressionStatement: a null expression is handed on, whatever follows.
ExpressionStatementNull == <<Expr, When({";"}, <<>>)>>
ExpressionStatement == <<Expr, Consume(";"), Make("ExpressionStmt")>>

Condition == <<Consume("("), Expr, Consume(")")>>

IfStatement ==
    Condition \o <<Stmt, When({"else"}, <<Call("else")>>), Make("If")>>

Else == IF Tok(0) = "if" THEN <<Consume("if"), Call("if")>> ELSE <<Stmt>>

LoopStatement == Condition \o <<Stmt, Make("Loop")>>

WhileStatement == Condition \o <<Stmt, Make("While")>>

ForInit ==
    CASE Tok(0) \in BuiltinTypes -> <<Call("variable")>>
      [] Tok(0) = ";" -> <<Consume(";")>>
      [] OTHER -> ExpressionStatement

ForStatement ==
    <<Consume("("), Call("forInit"), Unless(";", <<Expr>>), Consume(";"),
      Unless(")", <<Expr>>), Consume(")"), Call("block"), Make("For")>>

ReturnStatement == <<Unless(";", <<Expr>>), Consume(";"), Make("Return")>>

PrintStatement == <<Expr, Consume(";"), Make("Print")>>

MatchStatement ==
    <<Expr, Consume("{"), Until({"}"}, <<Call("pattern"), Consume("->"), Stmt>>), Consume("}"),
      Make("Match")>>

Pattern == IF Tok(0) = "_" THEN <<Consume("_")>> ELSE <<Expr>>

Statement ==
    CASE Tok(0) = "if" -> <<Consume("if"), Call("if")>>
      [] Tok(0) = "match" -> <<Consume("match")>> \o MatchStatement
      [] Tok(0) = "loop" -> <<Consume("loop")>> \o LoopStatement
      [] Tok(0) = "while" -> <<Consume("while")>> \o WhileStatement
      [] Tok(0) = "for" -> <<Consume("for")>> \o ForStatement
      [] Tok(0) = "return" -> <<Consume("return")>> \o ReturnStatement
      [] Tok(0) = "print" -> <<Consume("print")>> \o PrintStatement
      [] Tok(0) = "{" -> Block
      [] Tok(0) \in BuiltinTypes -> VarDeclaration
      [] OTHER -> ExpressionStatement
-----------------------------------------------------------------------------
\* Types.
TypeSuffix ==
    <<Loop({"["}, <<Consume("]"), Make("ArrayType")>>), Loop({"?"}, <<Make("OptionType")>>)>>

FunctionType ==
    <<Consume("("), Parameters(<<Type>>), Consume(")"), Consume("->"), Type, Make("FunctionType")>>

ParseType ==
    CASE Tok(0) = "fn" -> <<Consume("fn"), Call("typeAfterFn")>>
      [] Tok(0) = "(" -> FunctionType \o TypeSuffix
      [] Tok(0) \in BuiltinTypes \union {"void"}
           -> <<Consume(Tok(0)), Make("BuiltinType")>> \o TypeSuffix
      [] OTHER -> <<Act("missing")>>

TypeAfterFn ==
    (IF Tok(0) = "(" THEN FunctionType ELSE <<Make("BuiltinType")>>) \o TypeSuffix
-----------------------------------------------------------------------------
\* Expressions.
\* Mutant of OperatorsAt: a term binds tighter than a factor.
OperatorsAtSwapped ==
    <<{"or"}, {"and"}, {"==", "!="}, {"<", "<=", ">", ">="}, {"*", "/"}, {"-", "+"}>>

\* The binary operators, the loosest first, and the functions that parse them.
OperatorsAt == <<{"or"}, {"and"}, {"==", "!="}, {"<", "<=", ">", ">="}, {"-", "+"}, {"*", "/"}>>
Levels == <<"or", "and", "equality", "comparison", "term", "factor", "unary">>

\* parseLogicalOr and the functions below it: each parses an operand with the
\* next, then loops on its operators.
Level(l) ==
    <<Call("unary")>> \o
    [i \in 1..(7 - l) |-> Operators(OperatorsAt[7 - i], <<Call(Levels[8 - i])>>)]

Expression == Level(1) \o <<Act("assignment")>>

Unary ==
    IF Tok(0) \in {"!", "-"} THEN <<Consume(Tok(0)), Call("unary"), Make("Unary")>>
    ELSE <<Call("primary"), Call("postfix")>>

Arguments == <<Consume("("), Unless(")", List(<<Expr>>)), Consume(")"), Make("Call")>>

Postfix ==
    CASE Tok(0) = "(" -> Arguments \o <<Call("postfix")>>
      [] Tok(0) = "[" -> <<Consume("["), Expr, Consume("]"), Make("Index"), Call("postfix")>>
      [] Tok(0) = "." -> <<Consume("."), Consume("id"), Make("MemberAccess"), Call("postfix")>>
      [] Tok(0) = "!" -> <<Consume("!"), Make("UnwrapExpr"), Call("postfix")>>
      [] OTHER -> <<>>

ArrayLiteral == <<Consume("["), Unless("]", List(<<Expr>>)), Consume("]"), Make("ArrayLiteral")>>

StructLiteral ==
    <<Consume("{"), Unless("}", List(<<Consume("id"), Consume(":"), Expr>>)), Consume("}"),
      Make("StructLiteral")>>

Lambda ==
    <<When({"("}, <<Parameters(<<Call("lambdaParameter")>>), Consume(")")>>),
      When({"->"}, <<Call("lambdaType")>>), Call("lambdaBody"), Make("Lambda")>>

LambdaParameter ==
    (IF Tok(0) \in BuiltinTypes \union {"void", "(", "fn"} THEN <<Type>> ELSE <<>>)
        \o <<Consume("id")>>

LambdaType ==
    IF Tok(0) \in BuiltinTypes \union {"void", "("} /\ Tok(1) = "{" THEN <<Type>> ELSE <<>>

LambdaBody == IF Tok(0) = "{" THEN Block ELSE <<Expr, Make("ExpressionStmt")>>

IsLambda ==
    \/ Tok(1) = ")" /\ Tok(2) = "->"
    \/ Tok(1) = "id" /\ Tok(2) \in {",", ")"}

\* Mutant of Grouping: the closing parenthesis is optional.
GroupingOpen == <<Consume("("), Expr, When({")"}, <<>>), Make("Grouping")>>
Grouping == <<Consume("("), Expr, Consume(")"), Make("Grouping")>>

Literals == {"true", "false", "nil", "number literal", "string literal"}

InterpolatedString ==
    <<Consume("part"), Make("Literal"), Expr, Call("nextPart"), Make("InterpolatedString")>>

NextPart ==
    CASE Tok(0) = "part" -> <<Consume("part"), Make("Literal"), Expr, Call("nextPart")>>
      [] Tok(0) = "end" -> <<Consume("end"), Make("Literal")>>
      [] OTHER -> <<Act("fault")>>

Primary ==
    CASE Tok(0) \in Literals -> <<Consume(Tok(0)), Make("Literal")>>
      [] Tok(0) = "part" -> InterpolatedString
      [] Tok(0) = "id" -> <<Consume("id"), Call("afterIdentifier")>>
      [] Tok(0) = "(" -> IF IsLambda THEN Lambda ELSE Grouping
      [] Tok(0) = "fn" -> <<Consume("fn")>> \o Lambda
      [] Tok(0) = "[" -> ArrayLiteral
      [] Tok(0) = "{" -> StructLiteral
      [] OTHER -> <<Act("missing")>>

AfterIdentifier ==
    IF Tok(0) = "->" THEN <<Consume("->"), Call("lambdaBody"), Make("Lambda")>>
    ELSE <<Make("VariableExpr")>>

Body(f) ==
    CASE f = "declaration" -> Declaration
      [] f = "variable" -> VarDeclaration
      [] f = "function" -> Function
      [] f = "statement" -> Statement
      [] f = "block" -> Block
      [] f = "if" -> IfStatement
      [] f = "else" -> Else
      [] f = "forInit" -> ForInit
      [] f = "pattern" -> Pattern
      [] f = "type" -> ParseType
      [] f = "typeAfterFn" -> TypeAfterFn
      [] f = "expression" -> Expression
      [] f \in {Levels[l] : l \in 1..6} -> Level(CHOOSE l \in 1..6 : Levels[l] = f)
      [] f = "unary" -> Unary
      [] f = "primary" -> Primary
      [] f = "postfix" -> Postfix
      [] f = "afterIdentifier" -> AfterIdentifier
      [] f = "nextPart" -> NextPart
      [] f = "lambdaParameter" -> LambdaParameter
      [] f = "lambdaType" -> LambdaType
      [] f = "lambdaBody" -> LambdaBody
-----------------------------------------------------------------------------
ParserInit ==
    /\ text = <<>> /\ pos = 1
    /\ stack = <<Program>>
    /\ val = "null" /\ out = <<>> /\ hole = FALSE /\ crashed = FALSE
    /\ panicMode = FALSE /\ reported = FALSE /\ faulty = FALSE

Next_(do) == ~crashed /\ stack # <<>> /\ Head(stack).do = do
Top == Head(stack)
Do(run) == stack' = run \o Tail(stack)
Keep(run) == stack' = run \o stack
Advance == pos' = pos + 1 /\ UNCHANGED text
Error ==
    /\ panicMode' = TRUE /\ faulty' = TRUE
    /\ reported' = (reported \/ ~panicMode)

Consumed ==
    /\ Next_("consume") /\ Tok(0) \in Top.on
    /\ Advance /\ Do(<<>>)
    /\ UNCHANGED <<tree, diag>>

SkipOne == IF IsAtEnd THEN UNCHANGED lex ELSE Advance

\* consume() of another token than the one it wants.
NotConsumed ==
    /\ Next_("consume") /\ Tok(0) \notin Top.on
    /\ Error /\ SkipOne /\ Do(<<>>)
    /\ UNCHANGED tree

Enter ==
    /\ Next_("call")
    /\ Do(Body(Top.kind))
    /\ UNCHANGED <<lex, tree, diag>>

\* Tests that succeed; a token that matches is consumed.
Taken(item) ==
    CASE item.do \in {"when", "loop", "operators"} -> Tok(0) \in item.on
      [] item.do = "unless" -> Tok(0) \notin item.on
      [] item.do = "until" -> Tok(0) \notin item.on /\ ~IsAtEnd
      [] OTHER -> FALSE

Matched ==
    /\ \/ Next_("when") /\ Do(Top.run)
       \/ Next_("loop") /\ Keep(Top.run)
       \/ Next_("operators") /\ Keep(Top.run \o <<Make(Tok(0))>>)
    /\ Taken(Top) /\ Advance
    /\ UNCHANGED <<tree, diag>>

Entered ==
    /\ \/ Next_("unless") /\ Do(Top.run)
       \/ Next_("until") /\ Keep(Top.run)
    /\ Taken(Top)
    /\ UNCHANGED <<lex, tree, diag>>

\* All the tests that fail, up to the first step that does something.
Tests == {"when", "loop", "operators", "unless", "until"}
Fails(item) == item.do \in Tests /\ ~Taken(item)

NotTaken ==
    /\ ~crashed /\ stack # <<>> /\ Fails(Top)
    /\ LET kept == {i \in DOMAIN stack : ~Fails(stack[i])}
       IN stack' = IF kept = {} THEN <<>> ELSE SubSeq(stack, Min(kept), Len(stack))
    /\ UNCHANGED <<lex, tree, diag>>

MakeNode ==
    /\ Next_("make") /\ Do(<<>>)
    /\ val' = Top.kind /\ out' = Append(out, Top.kind)
    /\ UNCHANGED <<lex, diag, hole, crashed>>

Fault ==
    /\ Next_("fault") /\ Do(<<>>) /\ Error
    /\ UNCHANGED <<lex, tree>>

\* Mutant of Missing: no diagnostic.
MissingSilently ==
    /\ Next_("missing") /\ Do(<<>>)
    /\ val' = "null" /\ hole' = TRUE
    /\ UNCHANGED <<lex, out, crashed, diag>>

\* The end of parsePrimary and of parseType: an error, nullptr, and the token
\* stays where it is.
Missing ==
    /\ Next_("missing") /\ Do(<<>>) /\ Error
    /\ val' = "null" /\ hole' = TRUE
    /\ UNCHANGED <<lex, out, crashed>>

\* parseAssignment: the left side is kept while the right side is parsed.
Assign ==
    /\ Next_("assignment")
    /\ IF Tok(0) = "="
       THEN Advance /\ Do(<<Expr, Item("assignTo", {}, <<>>, val)>>)
       ELSE Do(<<>>) /\ UNCHANGED lex
    /\ UNCHANGED <<tree, diag>>

AssignTo ==
    /\ Next_("assignTo")
    /\ CASE Top.kind = "null" ->
              /\ crashed' = TRUE
              /\ UNCHANGED <<stack, val, out, diag>>
         [] Top.kind \in {"VariableExpr", "Index", "MemberAccess"} ->
              /\ Do(<<Make("Assignment")>>)
              /\ UNCHANGED <<val, out, crashed, diag>>
         [] OTHER ->
              /\ Error /\ Do(<<>>) /\ val' = Top.kind
              /\ UNCHANGED <<out, crashed>>
    /\ UNCHANGED <<lex, hole>>

\* synchronize, from where it goes on: the end of a statement or the start of one.
Stops ==
    \/ IsAtEnd
    \/ pos > 1 /\ text[pos - 1] = ";"
    \/ Tok(0) \in {"fn", "if", "loop", "return", "print"}

\* parse and parseBlock, after a declaration or a statement.
SynchronizeIfNull ==
    /\ Next_("synchronizeIfNull")
    /\ panicMode' = (panicMode /\ val # "null")
    /\ IF val = "null" /\ ~Stops THEN Advance /\ UNCHANGED stack ELSE Do(<<>>) /\ UNCHANGED lex
    /\ UNCHANGED <<tree, reported, faulty>>

ParserNext ==
    \/ Consumed \/ NotConsumed \/ Enter \/ Matched \/ Entered \/ NotTaken
    \/ MakeNode \/ Fault \/ Missing \/ Assign \/ AssignTo \/ SynchronizeIfNull
=============================================================================
