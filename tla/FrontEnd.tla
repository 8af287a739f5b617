------------------------------ MODULE FrontEnd ------------------------------
(***************************************************************************)
(* The lexer and the parser at work together.  The parser calls next() to  *)
(* keep three tokens in current_, next_ and nextNext_; once it has been    *)
(* given the end of the file it asks no more.                              *)
(***************************************************************************)
EXTENDS Lexer, Parser

CONSTANT Unknown    \* of a source for which no meaning is claimed

vars == <<lexVars, parserVars>>

Init == LexInit /\ ParserInit

Lookahead == Lexed \/ pos + 2 <= Len(text)

Pull ==
    /\ ~Lookahead /\ Next_token
    /\ text' = IF token'.type = "EOF" THEN text ELSE Append(text, token'.type)
    /\ UNCHANGED <<pos, stack, tree, diag>>

Parse == Lookahead /\ ParserNext /\ UNCHANGED lexVars

Next == Pull \/ Parse

\* One thread: it goes on as long as it can.
Spec == Init /\ [][Next]_vars /\ WF_vars(Next)
-----------------------------------------------------------------------------
Parsed == Lexed /\ stack = <<>>
HasErrors == reported \/ unterminated
Clean == Parsed /\ ~HasErrors

\* Whatever the bytes, parse() ends: every loop of the parser either consumes a
\* token or gives up, though parsePrimary and parseType return on a token they
\* cannot use without consuming it, and the lexer comes to the end of the file.
Terminates == <>(Parsed \/ crashed)

\* A program of the grammar gets no diagnostic and the tree it is written for:
\* operators bind by their level and to the left, an else belongs to the nearest
\* if, parentheses group, braces inside a string belong to the string.
ParsesAsWritten == Parsed /\ source.means # Unknown => Clean /\ out = source.means

\* Analysis runs when no error was reported, and dereferences what the parser
\* built: no null pointer is left in a tree without a diagnostic, although error()
\* drops every message while panicMode_ is set.
HolesAreReported == Parsed /\ hole => HasErrors

\* Its inductive form: error() is never silent before something was reported.
FaultsAreReported == panicMode \/ hole \/ faulty => reported

\* A text accepted without a diagnostic has matching brackets.
Opening == [t \in {")", "]", "}"} |-> IF t = ")" THEN "(" ELSE IF t = "]" THEN "[" ELSE "{"]
\* The brackets open behind a token, the innermost first.
Meets(open_, t) ==
    IF t \in {"(", "[", "{"} THEN <<t>> \o open_
    ELSE IF t \notin DOMAIN Opening THEN open_
    ELSE IF open_ # <<>> /\ Head(open_) = Opening[t] THEN Tail(open_)
    ELSE <<"unmatched">> \o open_
\* The brackets open behind the first n tokens.
Nesting(open_, tokens) ==
    LET after[n \in Nat] == IF n = 0 THEN open_ ELSE Meets(after[n - 1], tokens[n])
    IN after
CleanIsBalanced == Clean => Nesting(<<>>, text)[Len(text)] = <<>>

\* tests/unit/parser/test_parser_errors.cpp:16 - "Parser must not crash on any
\* malformed input."
Survives == ~crashed
-----------------------------------------------------------------------------
\* Why CleanIsBalanced holds.  What the stack can hold:
Names ==
    {"declaration", "variable", "function", "statement", "block", "if", "else", "forInit", "pattern",
     "type", "typeAfterFn", "expression", "or", "and", "equality", "comparison", "term", "factor",
     "unary", "primary", "postfix", "afterIdentifier", "nextPart", "lambdaParameter", "lambdaType",
     "lambdaBody"}

Terminals ==
    {"fn", "if", "match", "loop", "while", "for", "return", "print", "number", "string", "boolean", "void",
     "id", "_", "true", "false", "nil", "number literal", "string literal", "part", "end",
     "(", ")", "{", "}", "[", "]", ",", ";", ":", ".", "!", "-", "->"}

NodeKinds ==
    {"Variable", "Function", "Block", "ExpressionStmt", "If", "Loop", "While", "For", "Return", "Print",
     "Match", "ArrayType", "OptionType", "FunctionType", "BuiltinType", "Unary", "Call", "Index",
     "MemberAccess", "UnwrapExpr", "ArrayLiteral", "StructLiteral", "Lambda", "Grouping", "Literal",
     "InterpolatedString", "VariableExpr", "Assignment"}
    \cup UNION {OperatorsAt[i] : i \in 1..6}

Atomic ==
    {Consume(t) : t \in Terminals} \cup {Call(f) : f \in Names} \cup {Make(k) : k \in NodeKinds}
    \cup {Act(a) : a \in {"assignment", "fault", "missing", "synchronizeIfNull"}}
    \cup {Item("assignTo", {}, <<>>, k) : k \in NodeKinds \cup {"null"}}

Separated ==
    {<<Type, Consume("id")>>, <<Type>>, <<Call("lambdaParameter")>>, <<Expr>>,
     <<Consume("id"), Consume(":"), Expr>>}
ListEnds == {")", "]", "}"}

Separators == {Loop({","}, r) : r \in Separated}
Lists == {Unless(t, List(r)) : t \in ListEnds, r \in Separated}
Clauses == {Unless(t, <<Expr>>) : t \in {")", ";"}}
Options ==
    {When({"="}, <<Expr>>), When({"->"}, <<Type>>), When({"else"}, <<Call("else")>>),
     When({"->"}, <<Call("lambdaType")>>)}
LambdaParameters == {When({"("}, <<Parameters(<<Call("lambdaParameter")>>), Consume(")")>>)}
TypeSuffixes == {Loop({"["}, <<Consume("]"), Make("ArrayType")>>), Loop({"?"}, <<Make("OptionType")>>)}
LevelLoops == {Operators(OperatorsAt[i], <<Call(Levels[i + 1])>>) : i \in 1..6}
Patterns == <<Call("pattern"), Consume("->"), Stmt>>
Repeats == {Until({"}"}, Statements), Until({"}"}, Patterns), Program}

Compound ==
    Separators \cup Lists \cup Clauses \cup Options \cup LambdaParameters \cup TypeSuffixes
    \cup LevelLoops \cup Repeats

Steps == Atomic \cup Compound

TokenTypes ==
    Single \cup {Joined[c] : c \in DOMAIN Joined} \cup Keywords
    \cup {"_", "id", "number literal", "string literal", "part", "end", "invalid"}

StackInv ==
    /\ stack \in Seq(Steps) /\ val \in NodeKinds \cup {"null"}
    /\ text \in Seq(TokenTypes) /\ pos \in Nat \ {0}

\* The tokens a list of steps is going to consume, and the brackets that are open
\* when it has.
TokenOf(x) == IF x.do = "consume" THEN CHOOSE t \in x.on : TRUE ELSE "none"
OpenBehind(open_, steps) ==
    Nesting(open_, [i \in 1..Len(steps) |-> TokenOf(steps[i])])[Len(steps)]

\* What has been consumed and what is still expected match.
BracketsInv ==
    ~faulty =>
      /\ pos - 1 <= Len(text)
      /\ OpenBehind(Nesting(<<>>, text)[pos - 1], stack) = <<>>

\* A call that makes a node, or an error, before it returns.
Maker(x) ==
    \/ x.do \in {"make", "missing", "fault"}
    \/ x.do = "call" /\ x.kind \notin {"postfix", "lambdaType", "lambdaParameter", "forInit", "pattern"}

\* No token is skipped before there was an error: a node is made before
\* synchronize asks for it.
NodeInv ==
    val = "null" /\ ~faulty =>
      \A i \in 1..Len(stack) :
         stack[i].do = "synchronizeIfNull" => \E j \in 1..(i - 1) : Maker(stack[j])

EndInv ==
    /\ \A i \in 1..Len(text) : text[i] # "EOF"
    /\ IF stack = <<>> THEN IsAtEnd /\ Lexed ELSE stack[Len(stack)] = Program

BalanceInv == StackInv /\ BracketsInv /\ NodeInv /\ EndInv
=============================================================================
