----------------------------- MODULE MCFrontEnd -----------------------------
(***************************************************************************)
(* Sources for the front end: sentences of the language, written from the  *)
(* grammar its tests and documentation show, with their postfix forms, and *)
(* the faulty texts one edit away from them.                               *)
(***************************************************************************)
EXTENDS FrontEnd

CONSTANTS
    Operands,          \* the number of operands of the longest expression
    LongestEdited,     \* the tokens of a text that are edited
    LongestBytes       \* the bytes of the longest source of arbitrary bytes

P(t, m) == [text |-> t, means |-> m]

Id == P(<<"id">>, <<"VariableExpr">>)
Number == P(<<"number literal">>, <<"Literal">>)

\* Expressions of n operands over binary operators, each with the level of its
\* operator; an operand that binds less tightly than it must is in parentheses.
BinaryOps == {"or", "==", "<", "+", "-", "*"}
LevelOf(op) == CHOOSE l \in 1..6 : op \in <<{"or"}, {"and"}, {"=="}, {"<"}, {"+", "-"}, {"*"}>>[l]
Grouped(e, yes) ==
    IF yes THEN P(<<"(">> \o e.p.text \o <<")">>, Append(e.p.means, "Grouping")) ELSE e.p
Combined(l, op, r) ==
    LET lhs == Grouped(l, l.level < LevelOf(op))
        rhs == Grouped(r, r.level <= LevelOf(op))
    IN [p |-> P(lhs.text \o <<op>> \o rhs.text, lhs.means \o rhs.means \o <<op>>),
        level |-> LevelOf(op)]
RECURSIVE Trees(_)
Trees(n) ==
    IF n = 1 THEN {[p |-> Id, level |-> 7]}
    ELSE UNION {{Combined(l, op, r) : op \in BinaryOps, l \in Trees(k), r \in Trees(n - k)} : k \in 1..(n - 1)}

Ends(e) == P(Append(e.text, ";"), Append(e.means, "ExpressionStmt"))
MCExpressions == {Ends(t.p) : t \in UNION {Trees(n) : n \in 1..Operands}}
-----------------------------------------------------------------------------
\* One of each other form of expression, with e inside it.
Forms(e) ==
    {P(<<"-">> \o e.text, Append(e.means, "Unary")),
     P(<<"id", "(">> \o e.text \o <<",", "id", ")">>,
       <<"VariableExpr">> \o e.means \o <<"VariableExpr", "Call">>),
     P(<<"id", "[">> \o e.text \o <<"]", ".", "id", "!">>,
       <<"VariableExpr">> \o e.means \o <<"Index", "MemberAccess", "UnwrapExpr">>),
     P(<<"id", "=">> \o e.text, <<"VariableExpr">> \o e.means \o <<"Assignment">>),
     P(<<"[">> \o e.text \o <<"]">>, Append(e.means, "ArrayLiteral")),
     P(<<"(", "{", "id", ":">> \o e.text \o <<"}", ")">>, e.means \o <<"StructLiteral", "Grouping">>),
     P(<<"(", "id", ",", "number", "id", ")", "->">> \o e.text,
       <<"BuiltinType">> \o e.means \o <<"ExpressionStmt", "Lambda">>),
     P(<<"id", "->">> \o e.text, e.means \o <<"ExpressionStmt", "Lambda">>),
     P(<<"(", ")", "->", "number", "{", "return">> \o e.text \o <<";", "}">>,
       <<"BuiltinType">> \o e.means \o <<"Return", "Block", "Lambda">>)}
  \union   \* one string with braces inside another is beyond the lexer
    {x \in {P(<<"begin">> \o e.text \o <<"part">> \o e.text \o <<"end">>,
             <<"Literal">> \o e.means \o <<"Literal">> \o e.means \o <<"Literal", "InterpolatedString">>)} :
        ~Contains(e.text, "begin")}

Simplest == Ends(Number)
Paren(e) == <<"(">> \o e.text \o <<")">>
\* One of each form of statement, with e and s inside it.  A pattern that is a
\* name is left out: with the arrow behind it the parser makes it a lambda.
Nested(e, s) ==
    {P(<<"if">> \o Paren(e) \o s.text, e.means \o s.means \o <<"If">>),
     P(<<"if">> \o Paren(e) \o <<"{">> \o s.text \o <<"}", "else">> \o s.text,
       e.means \o s.means \o <<"Block">> \o s.means \o <<"If">>),
     P(<<"if">> \o Paren(e) \o <<"{">> \o s.text \o <<"}", "else", "if">> \o Paren(e) \o s.text,
       e.means \o s.means \o <<"Block">> \o e.means \o s.means \o <<"If", "If">>),
     P(<<"if">> \o Paren(e) \o <<"if">> \o Paren(e) \o Simplest.text \o <<"else">> \o s.text,
       e.means \o e.means \o Simplest.means \o s.means \o <<"If", "If">>),
     P(<<"while">> \o Paren(e) \o s.text, e.means \o s.means \o <<"While">>),
     P(<<"loop">> \o Paren(e) \o s.text, e.means \o s.means \o <<"Loop">>),
     P(<<"for", "(", "number", "id", ";">> \o e.text \o <<";">> \o e.text \o <<")", "{">> \o s.text \o <<"}">>,
       <<"BuiltinType", "Variable">> \o e.means \o e.means \o s.means \o <<"Block", "For">>),
     P(<<"for", "(", ";", ";", ")", "{">> \o s.text \o <<"}">>, s.means \o <<"Block", "For">>),
     P(<<"match", "id", "{">> \o Number.text \o <<"->">> \o s.text \o <<"_", "->">> \o s.text \o <<"}">>,
       <<"VariableExpr">> \o Number.means \o s.means \o s.means \o <<"Match">>),
     P(<<"{">> \o s.text \o s.text \o <<"}">>, s.means \o s.means \o <<"Block">>)}
Simple(e) ==
    {Ends(e), P(<<"print">> \o e.text \o <<";">>, Append(e.means, "Print")),
     P(<<"return">> \o e.text \o <<";">>, Append(e.means, "Return")), P(<<"return", ";">>, <<"Return">>),
     P(<<"string", "[", "]", "?", "id", "=">> \o e.text \o <<";">>,
       <<"BuiltinType", "ArrayType", "OptionType">> \o e.means \o <<"Variable">>)}
\* What only stands at the top of a program.
Top_(s) ==
    {P(<<"fn", "id", "(", "fn", "(", "number", ")", "->", "void", "id", ",", "fn", "id", ")", "->", "number", "{">>
         \o s.text \o <<"}">>,
       <<"BuiltinType", "BuiltinType", "FunctionType", "BuiltinType", "BuiltinType">>
         \o s.means \o <<"Block", "Function">>),
     P(<<"fn", "id", "=", "fn", "(", "id", ")", "{">> \o s.text \o <<"}", ";">>,
       <<"BuiltinType">> \o s.means \o <<"Block", "Lambda", "Variable">>)}

Simples == UNION {Simple(e) : e \in {Number} \union Forms(Id)}
\* Two statements at most inside each other.  `{id: ..}` begins a block where a
\* statement may, so a struct is in parentheses.
MCSentences ==
    Simples \union UNION {Nested(e, s) : e \in {Id, Number}, s \in Simples}
      \union UNION {Nested(Number, s) \union Top_(s) : s \in Nested(Number, Simplest)}
      \union UNION {Simple(e) : e \in UNION {Forms(Grouped([p |-> f], TRUE)) : f \in Forms(Id)}}

Edited ==
    {Simplest} \union Nested(Number, Simplest) \union Forms(Number) \union Top_(Simplest)
Alphabet ==
    {"id", "(", ")", "{", "}", "[", ",", ";", "=", "->", "fn", "number", "else", "begin", "end", "*", "@"}
\* A text with one token deleted, replaced or inserted, behind which a plain
\* statement stands; a position past the end changes the last token.
Edit(t, pos_, how, x) ==
    LET i == IF pos_ > Len(t) THEN Len(t) ELSE pos_
    IN SubSeq(t, 1, i - 1) \o (IF how = "delete" THEN <<>> ELSE <<x>>)
         \o SubSeq(t, IF how = "insert" THEN i ELSE i + 1, Len(t)) \o Simplest.text
MCFaulty ==
    {P(Edit(e.text, i, how, x), Unknown) :
        e \in Edited, i \in 1..LongestEdited, how \in {"delete", "replace", "insert"}, x \in Alphabet}
-----------------------------------------------------------------------------
\* Tokens as bytes: a blank behind each, a line break behind a semicolon.
MCKeywords ==
    {"fn", "number", "string", "if", "else", "while", "for", "loop", "return", "print", "match", "void"}
Spelling(t) ==
    CASE t = "id" -> <<"a">>
      [] t = "number literal" -> <<"E0", "BC", "A0", "0">>
      [] t = "begin" -> <<"\"", "a", "{">>
      [] t = "part" -> <<"}", "{">>
      [] t = "end" -> <<"}", "\"">>
      [] t = ";" -> <<";", "\n">>
      [] \E c \in DOMAIN Joined : Joined[c] = t ->
           LET c == CHOOSE x \in DOMAIN Joined : Joined[x] = t IN <<c, Second[c]>>
      [] OTHER -> <<t>>
Spelled(p) ==
    [bytes |-> FlattenSeq([i \in DOMAIN p.text |-> Spelling(p.text[i]) \o <<" ">>]), means |-> p.means]

\* Every source of a few bytes.
SomeBytes == {"\"", "{", "}", "a", "\n", "E0"}
MCBytes ==
    {[bytes |-> b, means |-> Unknown] :
        b \in UNION {[1..n -> SomeBytes] : n \in 0..LongestBytes} \union
              {<<"EF", "BB", "BF", ";">>, <<"a", "E0", "BC", "8B", "E0", "BC", "8B", "&">>,
               <<"|", "E0", "BC", "8B", "a">>, <<"0", "E0", "BC">>, <<"\n", "=", "=">>, <<"\n", "-", ">">>, <<"E0", "BC", "8B", "-", ">", "?", ":", "/", "0", "a">>}}
MCSources ==
    {Spelled(p) : p \in MCSentences} \union {Spelled(p) : p \in MCExpressions}
      \union {Spelled(p) : p \in MCFaulty} \union MCBytes

MCEqual == {Spelled(P(<<"=", "id", ";">>, Unknown))}
=============================================================================
