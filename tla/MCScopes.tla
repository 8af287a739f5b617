------------------------------ MODULE MCScopes ------------------------------
(***************************************************************************)
(* Every program of so many statements: with all forms over two names, and *)
(* longer ones with fewer forms over one.                                  *)
(***************************************************************************)
EXTENDS Scopes, SequencesExt

CONSTANTS Long, Short     \* the number of statements of the two kinds of programs

M(mark, name, type, count, param) ==
    [mark |-> mark, name |-> name, type |-> type, count |-> count, param |-> param]
Plain(mark) == M(mark, "", "", 0, "")
Named(mark, n) == M(mark, n, "", 0, "")
Literal(type) == <<M("literal", "", type, 0, "")>>
Use(n) == <<Named("use", n)>>
Drop(e) == Append(e, Plain("drop"))
Declare(n, type, init) ==
    <<M("declare", n, type, 0, "")>> \o init \o <<M("declared", n, type, IF init = <<>> THEN 0 ELSE 1, "")>>
Assigned(n, e) == <<Named("target", n)>> \o e \o <<Plain("assign")>>
Assign(n, e) == Drop(Assigned(n, e))
Nil(n) == Assigned(n, Literal("void"))
Call(n, args) == <<Named("callee", n)>> \o FlattenSeq(args) \o <<M("call", "", "", Len(args), "")>>
In(mark, n, p, body) == <<M(mark, n, "", 0, p)>> \o body \o <<Plain("end")>>

Arms(value, body) == In("match", "", "", value \o <<Plain("arms")>> \o body)
Few(n) ==
    {Drop(Use(n)), Drop(Call(n, <<>>)), Declare(n, "number", Literal("number")),
     Declare(n, "number?", Literal("void")), Drop(Nil(n)),
     Arms(Literal("number"), Declare(n, "number", Literal("number"))),
     Arms(Literal("number"), Declare(n, "number?", Literal("void")))}
All(n) ==
    Few(n) \union
    {Drop(Call(n, <<Use(n)>>)), Drop(In("text", "", "", Use(n))), Drop(In("unwrap", "", "", Use(n))),
     Declare(n, "number", In("unwrap", "", "", Use(n))), Declare(n, "number", In("unwrap", "", "", Nil(n))),
     Declare(n, "number", <<>>), Declare(n, "number", Literal("void")),
     Declare(n, "number", Literal("number[]")), Assign(n, Use(n) \o Literal("number") \o <<Plain("binary")>>)}

Nested(names, body) ==
    {In("block", "", "", body)}
      \union {In("for", "", "", Declare(n, "number", Literal("number")) \o In("block", "", "", body)) : n \in names}
      \union {Drop(In("lambda", "", p, body)) : p \in names \union {""}}
      \union {Arms(Use(n), In("block", "", "", body)) : n \in names}
TopOnly(names, body) ==
    {In("fn", n, p, In("block", "", "", body)) : n \in names, p \in names \union {""}}

RECURSIVE Lists(_, _, _, _)
\* Lists of k statements.
Lists(k, forms, names, top) ==
    IF k = 0 THEN {<<>>}
    ELSE UNION {{first \o rest :
                    first \in (IF j = 1 THEN forms ELSE {})
                                \union UNION {Nested(names, b) \union (IF top THEN TopOnly(names, b) ELSE {}) :
                                                b \in Lists(j - 1, forms, names, FALSE)},
                    rest \in Lists(k - j, forms, names, top)} :
                 j \in 1..k}

\* Two statements, and two in a block.
Shadowing(forms) == {x \o y \o In("block", "", "", v \o w) : x, y, v, w \in forms}

MCPrograms ==
    Lists(Long, Few("a"), {"a"}, TRUE) \union Shadowing(Few("a")) \union Lists(Short, UNION {All(n) : n \in Names}, Names, TRUE)
=============================================================================
