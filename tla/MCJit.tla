-------------------------------- MODULE MCJit --------------------------------
EXTENDS Jit

E(k, op, n, v, sub) == [k |-> k, op |-> op, n |-> n, v |-> v, sub |-> sub]
Lit(v) == E("literal", "", "", v, <<>>)
N(i) == Lit(IntV(i))
S == Lit(StringV(<<500>>))
V(n) == E("variable", "", n, NilV, <<>>)
B(op, a, b) == E("binary", op, "", NilV, <<a, b>>)
U(op, a) == E("unary", op, "", NilV, <<a>>)
Assign(n, e) == E("assign", "", n, NilV, <<e>>)
AssignAt(a, i, e) == E("assignIndex", "", "", NilV, <<e, a, i>>)
Array(es) == E("array", "BuildArray", "", NilV, es)
ItemAt(a, i) == E("array", "IndexGet", "", NilV, <<a, i>>)
LengthOf(a) == E("array", "Len", "", NilV, <<a>>)
ByName(f, es) == E("call", "", "", FunctionV(f), es)
ByValue(e, es) == E("callValue", "", "", NilV, <<e>> \o es)
Fn(f) == Lit(FunctionV(f))

St(k, n, e, then, else) == [k |-> k, n |-> n, e |-> e, then |-> then, else |-> else]
Var(n, e) == St("var", n, e, <<>>, <<>>)
Say(e) == St("print", "", e, <<>>, <<>>)
Do(e) == St("expr", "", e, <<>>, <<>>)
Ret(e) == St("return", "", e, <<>>, <<>>)
If(e, then, else) == St("if", "", e, then, else)

Fun(params, body) == [params |-> params, body |-> body]

(* The functions every script can call, from place 2 on. *)
Inc == 2
Twice == 3
Sum == 4
After == 5
Again == 6
Fill == 7
Pick == 8

Functions ==
  << Fun(<<"x">>, <<Do(Assign("x", B("Add", V("x"), N(1)))), Ret(V("x"))>>),
     Fun(<<"f", "x">>, <<Ret(ByValue(V("f"), <<ByValue(V("f"), <<V("x")>>)>>))>>),
     Fun(<<"n">>, <<If(B("LessThan", V("n"), N(1)), <<Ret(N(0))>>, <<>>),
                    Ret(B("Add", V("n"), ByName(Sum, <<B("Sub", V("n"), N(1))>>)))>>),
     Fun(<<"f", "x", "y">>, <<Var("z", ByValue(V("f"), <<V("y")>>)),
                              Ret(B("Sub", B("Mul", V("x"), N(4)), B("Add", V("z"), V("y"))))>>),
     Fun(<<"f", "n">>, <<If(B("GreaterThan", V("n"), N(0)),
                            <<Ret(B("Add", ByValue(V("f"), <<V("f"), B("Sub", V("n"), N(1))>>),
                                    B("Mul", V("n"), V("n"))))>>,
                            <<Ret(U("Neg", V("n")))>>)>>),
     Fun(<<"a", "x">>, <<Do(AssignAt(V("a"), N(0), V("x"))), Say(V("a"))>>),
     Fun(<<"x", "y">>, <<If(V("x"), <<Do(Assign("x", V("y")))>>, <<Say(S)>>), Ret(V("x"))>>) >>

(* What a script computes: calls by name and by value, with missing and spare
   arguments, of what is no function, inside each other and of themselves. *)
Terms ==
  << N(0), V("n"), V("s"), S, Lit(NilV), Lit(BoolV(TRUE)),
     Assign("n", N(7)),
     ByName(Inc, <<V("n")>>), ByName(Inc, <<N(3)>>), ByName(Inc, <<Assign("n", N(9))>>),
     ByValue(Fn(Inc), <<V("n")>>), ByValue(Fn(Inc), <<>>), ByValue(Fn(Inc), <<N(4), N(5)>>),
     ByValue(V("n"), <<N(1)>>),
     ByName(Twice, <<Fn(Inc), V("n")>>), ByValue(Fn(Twice), <<Fn(Inc), N(2)>>),
     ByName(Sum, <<N(2)>>), ByValue(Fn(Sum), <<ByValue(Fn(Inc), <<N(1)>>)>>),
     ByName(After, <<Fn(Inc), N(3), V("n")>>), ByValue(Fn(After), <<Fn(Sum), V("n"), N(2)>>),
     ByName(Again, <<Fn(Again), N(2)>>), ByValue(Fn(Again), <<Fn(Again), N(1)>>),
     ByName(Fill, <<V("a"), V("n")>>), ByValue(Fn(Fill), <<V("a")>>),
     ByName(Pick, <<V("b"), N(6)>>), ByValue(Fn(Pick), <<V("b")>>), ByValue(Fn(Pick), <<>>),
     ItemAt(V("a"), V("n")), ItemAt(V("a"), U("Neg", N(1))), LengthOf(V("a")),
     Array(<<V("n"), Assign("n", N(8))>>),
     B("Add", V("s"), S), U("Not", V("b")),
     E("text", "", "", NilV, <<S, V("n"), V("b")>>),
     E("unwrap", "", "", NilV, <<ItemAt(V("a"), V("n"))>>),
     B("Div", N(7), U("Neg", N(2))), B("GreaterEqual", V("n"), N(1)), B("LessEqual", V("n"), N(0)) >>

Operators == <<"Add", "And", "NotEqual", "Div">>

Script(op, a, b) ==
  Fun(<<>>, <<Var("n", N(1)), Var("s", S), Var("b", Lit(BoolV(FALSE))),
              Var("a", Array(<<N(2), N(5)>>)), Say(B(op, a, b)),
              If(V("b"), <<>>, <<Say(ItemAt(V("a"), N(0)))>>), Say(V("n")), Ret(V("n"))>>)

MCPrograms ==
  LET t == Len(Terms)
  IN  [i \in 1 .. t * t * Len(Operators) |->
          << Script(Operators[1 + (i - 1) \div (t * t)],
                    Terms[1 + (((i - 1) \div t) % t)], Terms[1 + ((i - 1) % t)]) >> \o Functions]
=============================================================================
