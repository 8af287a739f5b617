----------------------------- MODULE JitRuntime -----------------------------
(***************************************************************************)
(* The values of a compiled program and the functions its code calls on    *)
(* them: PackedValue, a type with a word of data, and the druk_jit_*       *)
(* functions over it.  A word is a tuple of numbers, so that values of     *)
(* different types can be compared: a number, a truth value, the place of  *)
(* an array or of a function; a string is the sequence of its parts, each  *)
(* a number.  Numbers stay far from 2^63: overflow is not modelled.        *)
(***************************************************************************)
EXTENDS Integers, Sequences

NilV == [t |-> "Nil", d |-> <<>>]
IntV(n) == [t |-> "Int", d |-> <<n>>]
BoolV(b) == [t |-> "Bool", d |-> <<IF b THEN 1 ELSE 0>>]
StringV(s) == [t |-> "String", d |-> s]
ArrayV(a) == [t |-> "Array", d |-> <<a>>]
FunctionV(f) == [t |-> "RawFunction", d |-> <<f>>]

\* The parts that stand for the fixed texts: no number of a program reaches them.
Text == [nil |-> 901, true |-> 902, false |-> 903, array |-> 904, function |-> 905]

IsInt(v) == v.t = "Int"
Number(v) == v.d[1]
Numbers(a, b) == IsInt(a) /\ IsInt(b)

\* The condition of a branch: only nil and false fail it.
AsBoolInt(v) == v.t # "Nil" /\ v # BoolV(FALSE)

\* The operand of && and ||: the low byte of the word, taken as a bool.  The
\* byte of a pointer, and one other than 0 and 1, may be taken for either.
AsBool(v) ==
    CASE v.t = "Nil" -> {FALSE}
      [] v.t = "Bool" -> {Number(v) = 1}
      [] IsInt(v) /\ Number(v) % 256 = 0 -> {FALSE}
      [] IsInt(v) /\ Number(v) % 256 = 1 -> {TRUE}
      [] OTHER -> BOOLEAN

\* Division of C++: towards zero.
Quotient(m, n) ==
    LET Magnitude(i) == IF i < 0 THEN -i ELSE i
        q == Magnitude(m) \div Magnitude(n)
    IN  IF (m < 0) = (n < 0) THEN q ELSE -q

Arithmetic(op, a, b) ==
    CASE ~Numbers(a, b) -> NilV
      [] op = "Add" -> IntV(Number(a) + Number(b))
      [] op = "Sub" -> IntV(Number(a) - Number(b))
      [] op = "Mul" -> IntV(Number(a) * Number(b))
      [] op = "Div" /\ Number(b) # 0 -> IntV(Quotient(Number(a), Number(b)))
      [] OTHER -> NilV

Negated(v) == IF IsInt(v) THEN IntV(-Number(v)) ELSE NilV

Not(v) == BoolV(v \in {NilV, BoolV(FALSE)})

\* Strings are equal by content, arrays and functions by place.
Equal(a, b) == BoolV(a = b)

Comparison(op, a, b) ==
    BoolV(/\ Numbers(a, b)
          /\ CASE op = "LessThan" -> Number(a) < Number(b)
               [] op = "LessEqual" -> Number(a) <= Number(b)
               [] op = "GreaterThan" -> Number(a) > Number(b)
               [] op = "GreaterEqual" -> Number(a) >= Number(b))

\* What a value reads as in a string: a part of its own for every number, and
\* one for each of the fixed texts.
AsText(v) ==
    CASE v.t = "String" -> v
      [] IsInt(v) -> StringV(<<Number(v)>>)
      [] v.t = "Nil" -> StringV(<<Text.nil>>)
      [] v = BoolV(TRUE) -> StringV(<<Text.true>>)
      [] v = BoolV(FALSE) -> StringV(<<Text.false>>)
      [] v.t = "Array" -> StringV(<<Text.array>>)
      [] OTHER -> StringV(<<Text.function>>)

\* A value that is not a string adds nothing.
StringConcat(a, b) ==
    LET Chars(v) == IF v.t = "String" THEN v.d ELSE <<>>
    IN  StringV(Chars(a) \o Chars(b))

\* The results an operation without effects may have.
Results(op, v) ==
    CASE op \in {"Add", "Sub", "Mul", "Div"} -> {Arithmetic(op, v[1], v[2])}
      [] op = "Equal" -> {Equal(v[1], v[2])}
      [] op = "NotEqual" -> {Not(Equal(v[1], v[2]))}
      [] op \in {"LessThan", "LessEqual", "GreaterThan", "GreaterEqual"} ->
             {Comparison(op, v[1], v[2])}
      [] op = "And" -> {BoolV(x /\ y) : x \in AsBool(v[1]), y \in AsBool(v[2])}
      [] op = "Or" -> {BoolV(x \/ y) : x \in AsBool(v[1]), y \in AsBool(v[2])}
      [] op = "Neg" -> {Negated(v[1])}
      [] op = "Not" -> {Not(v[1])}
      [] op = "ToString" -> {AsText(v[1])}
      [] op = "StringConcat" -> {StringConcat(v[1], v[2])}
      [] OTHER -> {}

\* Whether the array value a has an element at i (elements count from 0).
Within(arrays, a, i) ==
    /\ a.t = "Array" /\ IsInt(i)
    /\ Number(i) \in 0 .. Len(arrays[Number(a)]) - 1

Indexed(arrays, a, i) ==
    IF Within(arrays, a, i) THEN arrays[Number(a)][Number(i) + 1] ELSE NilV

\* A store outside the array is ignored.
WithElement(arrays, a, i, v) ==
    IF Within(arrays, a, i)
    THEN [arrays EXCEPT ![Number(a)][Number(i) + 1] = v]
    ELSE arrays

Length(arrays, v) == IF v.t = "Array" THEN IntV(Len(arrays[Number(v)])) ELSE NilV

\* The line that is printed: an array shows its length.
Shown(arrays, v) ==
    CASE v.t = "Array" -> <<Text.array, Len(arrays[Number(v)])>>
      [] v.t = "RawFunction" -> <<Text.function>>
      [] OTHER -> AsText(v).d
=============================================================================
