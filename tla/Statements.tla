----------------------------- MODULE Statements -----------------------------
(***************************************************************************)
(* Programs as the parser builds them, reduced to their statements, and    *)
(* what a reader of a program expects it to do.                            *)
(*                                                                         *)
(* A program is a table: the kind of each statement, the lists of          *)
(* statements inside it (parts: the branches of an if, the body of a loop  *)
(* or of a function, the arms of a match), whether its expression is one   *)
(* the code generator can evaluate (valued), and the list at the top.      *)
(* Blocks are lists, so a block statement has no entry of its own.         *)
(*                                                                         *)
(* A function that uses a variable of a function around it uses a value    *)
(* the back end does not have.  The points at which a statement does so    *)
(* are in one of two sets: lost, where the use is left out, and fatal,     *)
(* where a call, a string or an unwrapping is made of it, which spoils the *)
(* function.                                                               *)
(***************************************************************************)
EXTENDS Naturals, Sequences

CONSTANT Node     \* the statements of a program

\* Names kept for other things than statements.
ASSUME NodeAssumption == {"none", "main"} \cap Node = {}

\* "act": a declaration or a print, or an expression with a call or an
\* assignment; one that is not valued is a print or an expression.  "forEver" is
\* for (;;), "for" has all three of its parts; "match" has patterns only and
\* the last arm of "matchElse" is `_`.
Kinds == {"act", "return", "if", "ifElse", "while", "for", "forEver",
          "match", "matchElse", "loop", "func"}

IsMatch(k) == k \in {"match", "matchElse"}

ProgramTable ==
    [kind : [Node -> Kinds], parts : [Node -> Seq(Seq(Node))],
     valued : [Node -> BOOLEAN], top : Seq(Node),
     lost : [Node -> SUBSET Nat], fatal : [Node -> SUBSET Nat]]

\* `_` is the last arm.
ArmIsDefault(p, n, i) == p.kind[n] = "matchElse" /\ i = Len(p.parts[n])

\* The points of a statement at which the code generator uses a value: the
\* parts of a "for", the patterns of a match, or the expression it has.
UsesOf(p, n) ==
    LET k == p.kind[n]
    IN CASE k = "for" -> IF p.valued[n] THEN 0..2 ELSE {0, 2}
         [] k \in {"forEver", "loop", "func"} \/ (k # "for" /\ ~p.valued[n]) -> {}
         [] IsMatch(k) /\ p.valued[n] -> {i \in 1..Len(p.parts[n]) : ~ArmIsDefault(p, n, i)}
         [] OTHER -> {0}

\* Both branches of an if with an else, the branch of one without, a body.
HasParts(p) ==
    \A n \in Node :
        /\ p.kind[n] \in {"if", "while", "for", "forEver", "func"} => Len(p.parts[n]) = 1
        /\ p.kind[n] = "ifElse" => Len(p.parts[n]) = 2
        /\ p.lost[n] \union p.fatal[n] \subseteq UsesOf(p, n)
-----------------------------------------------------------------------------
(***************************************************************************)
(* The meaning of a program: a list of what is still to be done.  An item  *)
(* is a statement and the point reached in it: 0 at its start; for a       *)
(* "for", 1 before the condition and 2 before the step; for a match, the   *)
(* number of the next arm to test.  The effects of a program are events,   *)
(* a statement with the part of it that has an effect and, for a           *)
(* condition, its outcome.                                                 *)
(***************************************************************************)
Item(n, i) == [n |-> n, i |-> i]
Items(list) == [j \in DOMAIN list |-> Item(list[j], 0)]

\* The effect the head of the list is about to have; only kinds that act or
\* test something have one.
HasEffect(p, rest) ==          \* the end of the program is one
    rest # <<>> =>
      LET n == Head(rest).n  i == Head(rest).i
      IN IF IsMatch(p.kind[n]) THEN i \in 1..Len(p.parts[n]) /\ ~ArmIsDefault(p, n, i)
         ELSE p.kind[n] \notin {"forEver", "func"}

\* Where execution goes from an effect with outcome `yes`.
After(p, rest, yes) ==
    LET n == Head(rest).n  i == Head(rest).i  k == p.kind[n]
        body(j) == Items(p.parts[n][j])
    IN CASE k = "act" -> Tail(rest)
         [] k = "return" -> <<>>
         [] k \in {"if", "ifElse"} ->
              (IF yes THEN body(1) ELSE IF k = "ifElse" THEN body(2) ELSE <<>>) \o Tail(rest)
         [] k \in {"while", "loop"} -> IF yes THEN body(1) \o rest ELSE Tail(rest)
         [] k = "for" /\ i \in {0, 2} -> <<Item(n, 1)>> \o Tail(rest)
         [] k = "for" /\ i = 1 ->
              IF yes THEN body(1) \o <<Item(n, 2)>> \o Tail(rest) ELSE Tail(rest)
         [] OTHER ->        \* a pattern
              IF yes THEN body(i) \o Tail(rest) ELSE <<Item(n, i + 1)>> \o Tail(rest)

\* Where it goes from a head that has no effect of its own: for (;;), a
\* function that is only declared here, a match before its first arm, at `_`
\* or past its last arm.
Quietly(p, rest) ==
    LET n == Head(rest).n  i == Head(rest).i  k == p.kind[n]
    IN CASE k = "forEver" -> Items(p.parts[n][1]) \o rest
         [] k = "func" -> Tail(rest)
         [] IsMatch(k) /\ i = 0 -> <<Item(n, 1)>> \o Tail(rest)
         [] IsMatch(k) /\ i \in 1..Len(p.parts[n]) -> Items(p.parts[n][i]) \o Tail(rest)
         [] OTHER -> Tail(rest)

\* Conditions have two outcomes, other effects one.
IsTest(p, rest) ==
    /\ rest # <<>>
    /\ LET k == p.kind[Head(rest).n] IN
         k \notin {"act", "return"} /\ (k = "for" => Head(rest).i = 1)
=============================================================================
