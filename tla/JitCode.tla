------------------------------- MODULE JitCode -------------------------------
(***************************************************************************)
(* The code generator's visits of expressions and of the statements that   *)
(* hold them, up to the code the LLVM back end makes of a function: its    *)
(* implementation, void(out, parameters), and its wrapper, void(out),      *)
(* which fetches the arguments of a call through a value.                  *)
(*                                                                         *)
(* An expression is [k, op, n, v, sub]: its kind, operator, the variable   *)
(* it names, its literal, its operands.  A call of a function by its name  *)
(* has the function as v; any other call has the callee as sub[1].  A      *)
(* statement is [k, n, e, then, else].                                     *)
(*                                                                         *)
(* An operand of an instruction is [k, i, v, ptr]: a constant, a parameter *)
(* or the result of instruction i; ptr is whether its IR type is a pointer,*)
(* which is how strings are told from the rest.                            *)
(***************************************************************************)
EXTENDS JitRuntime, SequencesExt

Const(v) == [k |-> "const", i |-> 0, v |-> v, ptr |-> v.t = "String"]
Param(i) == [k |-> "param", i |-> i, v |-> NilV, ptr |-> FALSE]
ResultOf(i, ptr) == [k |-> "inst", i |-> i, v |-> NilV, ptr |-> ptr]

\* The generator's state: the code so far, whether its last block is open,
\* the variables (innermost scope merged in) and lastValue_.
NoCode == [code |-> <<>>, open |-> TRUE, env |-> <<>>, val |-> Const(NilV)]

Emit(s, op, args, fn, ptr) ==
    [s EXCEPT !.code = Append(@, [op |-> op, args |-> args, fn |-> fn, to |-> <<>>]),
              !.val = ResultOf(Len(s.code) + 1, ptr)]

RECURSIVE GenExpr(_, _)

\* The operands of e in order: the state after them, and their values.
GenAll(es, s) ==
    FoldLeft(LAMBDA r, e : LET g == GenExpr(e, r.s)
                           IN  [s |-> g, vals |-> Append(r.vals, g.val)],
             [s |-> s, vals |-> <<>>], es)

\* A constant, or the function a variable or a lambda names.
VisitLiteral(e, s) == [s EXCEPT !.val = Const(e.v)]

VisitVariable(e, s) == Emit(s, "Load", <<s.env[e.n]>>, 0, FALSE)

Told(r, o) ==
    IF o.ptr THEN [r EXCEPT !.vals = Append(@, o)]
    ELSE LET g == Emit(r.s, "ToString", <<o>>, 0, TRUE)
         IN  [s |-> g, vals |-> Append(r.vals, g.val)]

\* The operands that are no texts by their type are made into ones.
EmitConcat(r) == Emit(r.s, "StringConcat", r.vals, 0, TRUE)
Texts(r) == FoldLeft(Told, [r EXCEPT !.vals = <<>>], r.vals)

\* Plus is a concatenation when the type of an operand says so, which those of
\* a literal, of a concatenation and of what is computed from them do.
EmitBinary(op, r) ==
    IF op = "Add" /\ \E i \in 1 .. 2 : r.vals[i].ptr
    THEN EmitConcat(Texts(r))
    ELSE Emit(r.s, op, r.vals, 0, r.vals[1].ptr)

VisitBinary(e, s) == EmitBinary(e.op, GenAll(e.sub, s))

VisitUnary(e, s) ==
    LET r == GenExpr(e.sub[1], s) IN Emit(r, e.op, <<r.val>>, 0, r.val.ptr)

\* Both targets leave the value assigned as the value of the expression.
VisitAssignment(e, s) ==
    LET r == GenExpr(e.sub[1], s)
    IN  [Emit(r, "Store", <<r.val, r.env[e.n]>>, 0, FALSE) EXCEPT !.val = r.val]

VisitIndexAssignment(e, s) ==
    LET r == GenAll(e.sub, s)
        v == r.vals
    IN  [Emit(r.s, "IndexSet", <<v[2], v[3], v[1]>>, 0, FALSE) EXCEPT !.val = v[1]]

VisitInterpolatedString(e, s) ==
    LET first == GenExpr(e.sub[1], s)
        Part(r, p) ==
            LET g == GenExpr(p, r)
                t == Emit(g, "ToString", <<g.val>>, 0, TRUE)
            IN  Emit(t, "StringConcat", <<r.val, t.val>>, 0, TRUE)
    IN  FoldLeft(Part, Emit(first, "ToString", <<first.val>>, 0, TRUE), Tail(e.sub))

VisitUnwrap(e, s) ==
    LET r == GenExpr(e.sub[1], s)
    IN  [Emit(r, "Unwrap", <<r.val>>, 0, FALSE) EXCEPT !.val = r.val]

VisitArray(e, s) ==
    LET r == GenAll(e.sub, s)
    IN  Emit(r.s, e.op, r.vals, 0, FALSE)

VisitCall(e, s) == LET r == GenAll(e.sub, s) IN Emit(r.s, "Call", r.vals, Number(e.v), FALSE)

VisitDynamicCall(e, s) == LET r == GenAll(e.sub, s) IN Emit(r.s, "DynamicCall", r.vals, 0, FALSE)

GenExpr(e, s) ==
    CASE e.k = "literal" -> VisitLiteral(e, s)
      [] e.k = "variable" -> VisitVariable(e, s)
      [] e.k = "binary" -> VisitBinary(e, s)
      [] e.k = "unary" -> VisitUnary(e, s)
      [] e.k = "assign" -> VisitAssignment(e, s)
      [] e.k = "assignIndex" -> VisitIndexAssignment(e, s)
      [] e.k = "text" -> VisitInterpolatedString(e, s)
      [] e.k = "unwrap" -> VisitUnwrap(e, s)
      [] e.k = "array" -> VisitArray(e, s)
      [] e.k = "call" -> VisitCall(e, s)
      [] e.k = "callValue" -> VisitDynamicCall(e, s)
-----------------------------------------------------------------------------
RECURSIVE GenStmts(_, _)

Bind(s, n, o) ==
    [s EXCEPT !.env = [x \in DOMAIN @ \cup {n} |-> IF x = n THEN o ELSE @[x]]]

\* The declaration's slot is known to its own initializer.
VisitVar(st, s) ==
    LET a == Emit(s, "Alloca", <<>>, 0, FALSE)
        r == GenExpr(st.e, Bind(a, st.n, a.val))
    IN  Emit(r, "Store", <<r.val, a.val>>, 0, FALSE)

VisitPrint(st, s) == LET r == GenExpr(st.e, s) IN Emit(r, "Print", <<r.val>>, 0, FALSE)

VisitReturn(st, s) ==
    LET r == GenExpr(st.e, s)
    IN  [Emit(r, "Return", <<r.val>>, 0, FALSE) EXCEPT !.open = FALSE]

Closed(s) == IF s.open THEN Emit(s, "Branch", <<>>, 0, FALSE) ELSE s

\* The branches of an if, from its condition c and the states at the end of its
\* arms: an arm that is still open goes to the code after both.
EndIf(c, then, else, no) ==
    LET test == Len(c.code) + 1
        arm == Len(Closed(then).code) + 1
        after == Len(no.code) + 1
        Target(i) == CASE i = test -> <<test + 1, arm>>
                       [] then.open /\ i = arm - 1 -> <<after>>
                       [] else.open /\ i = after - 1 -> <<after>>
                       [] OTHER -> no.code[i].to
    IN  [no EXCEPT !.code = [i \in DOMAIN @ |-> [@[i] EXCEPT !.to = Target(i)]],
                   !.env = c.env, !.open = TRUE]

VisitElse(c, then, else) == EndIf(c, then, else, Closed(else))

VisitThen(st, c, then) ==
    VisitElse(c, then, GenStmts(st.else, [Closed(then) EXCEPT !.env = c.env, !.open = TRUE]))

\* The blocks of an if follow each other in the code: condition, then, else.
VisitCondition(st, c) == VisitThen(st, c, GenStmts(st.then, Emit(c, "CondBranch", <<c.val>>, 0, FALSE)))
VisitIf(st, s) == VisitCondition(st, GenExpr(st.e, s))

GenStmt(s, st) ==
    CASE st.k = "var" -> VisitVar(st, s)
      [] st.k = "print" -> VisitPrint(st, s)
      [] st.k = "expr" -> GenExpr(st.e, s)
      [] st.k = "return" -> VisitReturn(st, s)
      [] st.k = "if" -> VisitIf(st, s)

GenStmts(sts, s) == FoldLeft(GenStmt, s, sts)

BindParamInPlace(s, i, n) == Bind(s, n, Param(i))

\* A parameter is copied to a slot of the function before anything else.
BindParam(s, i, n) ==
    LET a == Emit(s, "Alloca", <<>>, 0, FALSE)
        l == Emit(a, "Load", <<Param(i)>>, 0, FALSE)
        t == Emit(l, "Store", <<l.val, a.val>>, 0, FALSE)
    IN  Bind(t, n, a.val)

Implementation(f) ==
    LET entry == FoldLeft(LAMBDA s, i : BindParam(s, i, f.params[i]), NoCode,
                          [i \in DOMAIN f.params |-> i])
        body == GenStmts(f.body, entry)
    IN  IF body.open THEN Emit(body, "Return", <<>>, 0, FALSE).code ELSE body.code

\* The arguments of the current call one by one, then the implementation with
\* the slots they were fetched to.  fn is the argument's place in the frame.
Wrapper(f, k) ==
    LET Fetch(s, i) == Emit(s, "GetArg", <<>>, i, FALSE)
        fetched == FoldLeft(Fetch, NoCode, [i \in DOMAIN f.params |-> i])
        args == [i \in DOMAIN f.params |-> ResultOf(i, FALSE)]
    IN  Emit(Emit(fetched, "CallImpl", args, k, FALSE), "Leave", <<>>, 0, FALSE).code

\* What the module holds of each function k.
Compiled(fs) ==
    [k \in DOMAIN fs |-> [impl |-> Implementation(fs[k]), wrapper |-> Wrapper(fs[k], k)]]
=============================================================================
