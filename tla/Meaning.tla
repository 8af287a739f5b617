------------------------------- MODULE Meaning -------------------------------
(***************************************************************************)
(* What a program means, by evaluation of its expressions: operands from   *)
(* left to right, arguments by value, arrays by reference, a missing       *)
(* argument is nil, plus joins texts when either operand is one, and nil   *)
(* stands for the result of what cannot be computed.  There are no slots,  *)
(* addresses or frames here.                                               *)
(*                                                                         *)
(* A state is [env, arrays, out, val, done, dead, odd]: variables, arrays, *)
(* lines printed, the last value, whether the function returned, whether   *)
(* an unwrap of nil ended the program, and whether it met one of the cases *)
(* the generated code is known to treat otherwise.                         *)
(***************************************************************************)
EXTENDS Integers, Sequences, SequencesExt

R == INSTANCE JitRuntime

Fresh == [env |-> [n \in {} |-> R!NilV], arrays |-> <<>>, out |-> <<>>, val |-> R!NilV,
          done |-> FALSE, dead |-> FALSE, odd |-> FALSE]

With(env, n, v) == [x \in DOMAIN env \cup {n} |-> IF x = n THEN v ELSE env[x]]

Plus(a, b) ==
    IF "String" \in {a.t, b.t}
    THEN R!StringV(R!AsText(a).d \o R!AsText(b).d)
    ELSE IF R!Numbers(a, b) THEN R!IntV(R!Number(a) + R!Number(b)) ELSE R!NilV

\* The operands of a plus whose texts only their values tell: no literal, no
\* interpolation and nothing computed from one stands on either side.
RECURSIVE TextInSight(_)
TextInSight(e) ==
    CASE e.k = "literal" -> e.v.t = "String"
      [] e.k = "text" -> TRUE
      [] e.k = "binary" /\ e.op = "Add" -> \E i \in DOMAIN e.sub : TextInSight(e.sub[i])
      [] e.k \in {"binary", "unary", "unwrap", "assign", "assignIndex"} -> TextInSight(e.sub[1])
      [] OTHER -> FALSE

\* The results the language gives an operator; && and || are those of truth.
Apply(op, v) ==
    CASE op = "Add" -> Plus(v[1], v[2])
      [] op = "And" -> R!BoolV(R!AsBoolInt(v[1]) /\ R!AsBoolInt(v[2]))
      [] op = "Or" -> R!BoolV(R!AsBoolInt(v[1]) \/ R!AsBoolInt(v[2]))
      [] op = "Not" -> R!BoolV(~R!AsBoolInt(v[1]))
      [] op = "NotEqual" -> R!BoolV(v[1] # v[2])
      [] OTHER -> CHOOSE r \in R!Results(op, v) : TRUE

\* An operator meets a known exception: a plus of texts out of sight, or of
\* what looks like a text and is none (a comparison of texts), and truth taken
\* of something that is neither a truth value nor nil.
Odd(e, v) ==
    \/ /\ e.op = "Add" /\ "String" \in {v[1].t, v[2].t}
       /\ ~TextInSight(e.sub[1]) /\ ~TextInSight(e.sub[2])
    \/ /\ e.op = "Add"
       /\ \E i \in 1 .. 2 : TextInSight(e.sub[i]) /\ v[i].t # "String"
    \/ /\ e.op \in {"And", "Or"}
       /\ \E i \in 1 .. 2 : v[i].t \notin {"Nil", "Bool"}

RECURSIVE Value(_, _, _), Run(_, _, _)

\* The values of es in order, and the state after them.
Values(es, s, fs) ==
    FoldLeft(LAMBDA r, e : IF r.s.dead THEN r
                           ELSE LET g == Value(e, r.s, fs)
                                IN  [s |-> g, vals |-> Append(r.vals, g.val)],
             [s |-> s, vals |-> <<>>], es)

Called(f, args, s, fs) ==
    LET env == [n \in {f.params[i] : i \in DOMAIN f.params} |->
                   LET i == CHOOSE j \in DOMAIN f.params : f.params[j] = n
                   IN  IF i \in DOMAIN args THEN args[i] ELSE R!NilV]
        r == Run(f.body, [s EXCEPT !.env = env, !.done = FALSE], fs)
    IN  [r EXCEPT !.env = s.env, !.done = FALSE, !.val = IF r.done THEN @ ELSE R!NilV]

\* The value of e in state s, its operands having the values v.
Valued(e, s, v, fs) ==
    LET Give(x) == [s EXCEPT !.val = x]
    IN  CASE s.dead -> s
          [] e.k = "literal" -> Give(e.v)
          [] e.k = "variable" -> Give(s.env[e.n])
          [] e.k = "binary" -> [Give(Apply(e.op, v)) EXCEPT !.odd = @ \/ Odd(e, v)]
          [] e.k = "unary" -> Give(Apply(e.op, v))
          [] e.k = "assign" -> [Give(v[1]) EXCEPT !.env = With(@, e.n, v[1])]
          [] e.k = "assignIndex" ->
                 [Give(v[1]) EXCEPT !.arrays = R!WithElement(@, v[2], v[3], v[1])]
          [] e.k = "text" ->
                 Give(R!StringV(FoldLeft(LAMBDA t, x : t \o R!AsText(x).d, <<>>, v)))
          [] e.k = "unwrap" -> IF v[1] = R!NilV THEN [s EXCEPT !.dead = TRUE] ELSE Give(v[1])
          [] e.k = "array" /\ e.op = "BuildArray" ->
                 [Give(R!ArrayV(Len(s.arrays) + 1)) EXCEPT !.arrays = Append(@, v)]
          [] e.k = "array" /\ e.op = "IndexGet" -> Give(R!Indexed(s.arrays, v[1], v[2]))
          [] e.k = "array" /\ e.op = "Len" -> Give(R!Length(s.arrays, v[1]))
          [] e.k = "call" -> Called(fs[R!Number(e.v)], v, s, fs)
          [] e.k = "callValue" -> IF v[1].t = "RawFunction"
                                  THEN Called(fs[R!Number(v[1])], Tail(v), s, fs)
                                  ELSE Give(R!NilV)

From(e, r, fs) == Valued(e, r.s, r.vals, fs)

Value(e, s, fs) == From(e, Values(e.sub, s, fs), fs)

\* A statement, after its expression has been evaluated in state g.
Done(st, g, fs) ==
    CASE g.dead -> g
      [] st.k = "expr" -> g
      [] st.k = "var" -> [g EXCEPT !.env = With(@, st.n, g.val)]
      [] st.k = "print" -> [g EXCEPT !.out = Append(@, R!Shown(g.arrays, g.val))]
      [] st.k = "return" -> [g EXCEPT !.done = TRUE]
      [] st.k = "if" -> Run(IF R!AsBoolInt(g.val) THEN st.then ELSE st.else, g, fs)

Run(sts, s, fs) ==
    LET One(r, st) == IF r.dead \/ r.done THEN r ELSE Done(st, Value(st.e, r, fs), fs)
    IN  FoldLeft(One, s, sts)

\* The whole program fs, whose first function is its script.
Meant(fs) == Called(fs[1], <<>>, Fresh, fs)
=============================================================================
