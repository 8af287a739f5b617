--------------------------- MODULE FrontEndProofs ---------------------------
(***************************************************************************)
(* Theorems about the lexer and the parser at work together.               *)
(*                                                                         *)
(* BracesAreCounted: interpolationDepth_ is the place of the only string   *)
(* among the braces that are open (OnlyText).                              *)
(*                                                                         *)
(* HolesAreKnown: panicMode_ is set only behind a report                   *)
(* (FaultsAreReported).                                                    *)
(*                                                                         *)
(* SourceIsTiled, PositionsAreCounted: blanks are a loop that each round   *)
(* leaves less of the source to (ForwardIs), so what it skips is known     *)
(* from its rounds; each scanner goes on by some bytes, and the line is    *)
(* counted where bytes may be line breaks (Goes).                          *)
(*                                                                         *)
(* CleanIsSound: what the stack is going to consume closes what the        *)
(* consumed tokens have opened (BalanceInv).  Nesting, which follows the   *)
(* brackets of a text token by token, is a recursive function: it is shown *)
(* to exist, and one list of tokens behind another one to nest like the    *)
(* two in turn.  Then each list of steps the parser has leaves the         *)
(* brackets as they were: those of the tests (TestsAreKept) and those of   *)
(* the functions (BodiesAreFine).  Then one lemma per action.              *)
(***************************************************************************)
EXTENDS FrontEnd, SequenceTheorems, FiniteSetTheorems, WellFoundedInduction, TLAPS

\* Recursion and induction over numbers, without an operator as an argument: a property
\* is the set of what has it, and the step of a recursion is a function.

\* A set of natural numbers that is not empty has a least one.
LEMMA MinIs ==
    ASSUME NEW S \in SUBSET Nat, S # {}
    PROVE  Min(S) \in S /\ \A x \in S : Min(S) <= x
<1>. DEFINE R == OpToRel(<, Nat)
<1>1. IsWellFoundedOn(R, Nat)
  BY NatLessThanWellFounded
<1>2. \A x, y \in Nat : y < x => <<y, x>> \in R
  BY DEF OpToRel
<1>. HIDE DEF R
<1>3. PICK m \in S : \A y \in S : ~(<<y, m>> \in R)
  BY <1>1, WFMin
<1>4. \A y \in S : m <= y
  <2>. TAKE y \in S
  <2>1. m \in Nat /\ y \in Nat /\ ~(y < m)
    BY <1>2, <1>3
  <2>. QED
    BY <2>1
<1>. QED
  BY <1>4, Zenon DEF Min

\* Induction: what holds of 0 and of the number behind each number it holds of.
LEMMA NatClosed ==
    ASSUME NEW T, 0 \in T, \A n \in Nat : n \in T => n + 1 \in T
    PROVE  Nat \subseteq T
<1>. DEFINE Out == {n \in Nat : n \notin T}
<1>1. SUFFICES ASSUME Out # {} PROVE FALSE
  OBVIOUS
<1>2. Min(Out) \in Out /\ \A n \in Out : Min(Out) <= n
  BY <1>1, MinIs
<1>3. PICK x \in Out : \A n \in Out : x <= n
  BY <1>2
<1>4. x # 0 /\ x - 1 \in Nat /\ (x - 1) + 1 = x
  BY <1>3
<1>5. x - 1 \notin Out
  BY <1>3, <1>4
<1>. QED
  BY <1>3, <1>4, <1>5

\* What the first n steps of a function defined by recursion are.
Beginnings(S, a, G, n) ==
    {g \in [0..n -> S] : g[0] = a /\ \A i \in 0..(n - 1) : g[i + 1] = G[<<g[i], i>>]}

\* There are such steps.
LEMMA BeginningsExist ==
    ASSUME NEW S, NEW a \in S, NEW G \in [S \X Nat -> S], NEW n \in Nat
    PROVE  \E g : g \in Beginnings(S, a, G, n)
<1>. DEFINE T == {m \in Nat : \E g : g \in Beginnings(S, a, G, m)}
<1>1. 0 \in T
  <2>. DEFINE g == [i \in 0..0 |-> a]
  <2>1. g \in Beginnings(S, a, G, 0)
    BY DEF Beginnings
  <2>. QED
    BY <2>1
<1>2. ASSUME NEW m \in Nat, m \in T
      PROVE  m + 1 \in T
  <2>1. PICK g : g \in Beginnings(S, a, G, m)
    BY <1>2
  <2>2. /\ g \in [0..m -> S] /\ g[0] = a
        /\ \A i \in 0..(m - 1) : g[i + 1] = G[<<g[i], i>>]
    BY <2>1 DEF Beginnings
  <2>. DEFINE h == [i \in 0..(m + 1) |-> IF i <= m THEN g[i] ELSE G[<<g[m], m>>]]
  <2>3. G[<<g[m], m>>] \in S
    BY <2>2
  <2>4. h \in [0..(m + 1) -> S] /\ h[0] = a
    BY <2>2, <2>3
  <2>7. h[m + 1] = G[<<g[m], m>>] /\ \A k \in 0..m : h[k] = g[k]
    OBVIOUS
  <2>. HIDE DEF h
  <2>5. ASSUME NEW i \in 0..((m + 1) - 1)
        PROVE  h[i + 1] = G[<<h[i], i>>]
    <3>1. CASE i = m
      BY <2>7, <3>1
    <3>2. CASE i # m
      <4>1. i \in 0..(m - 1) /\ i + 1 \in 0..m
        BY <3>2
      <4>. QED
        BY <2>2, <2>7, <4>1
    <3>. QED
      BY <3>1, <3>2
  <2>6. h \in Beginnings(S, a, G, m + 1)
    BY <2>4, <2>5 DEF Beginnings
  <2>. QED
    BY <2>6
<1>. HIDE DEF T
<1>3. n \in T
  BY <1>1, <1>2, NatClosed
<1>. QED
  BY <1>3 DEF T

\* Where two of them have steps, the steps are the same.
LEMMA BeginningsAgree ==
    ASSUME NEW S, NEW a \in S, NEW G \in [S \X Nat -> S], NEW m \in Nat, NEW n \in Nat,
           NEW g \in Beginnings(S, a, G, m), NEW h \in Beginnings(S, a, G, n), NEW i \in Nat, i <= m,
           i <= n
    PROVE  g[i] = h[i]
<1>. DEFINE T == {j \in Nat : j <= m /\ j <= n => g[j] = h[j]}
<1>1. /\ g[0] = a /\ \A j \in 0..(m - 1) : g[j + 1] = G[<<g[j], j>>]
      /\ h[0] = a /\ \A j \in 0..(n - 1) : h[j + 1] = G[<<h[j], j>>]
  BY DEF Beginnings
<1>2. 0 \in T
  BY <1>1
<1>3. ASSUME NEW j \in Nat, j \in T
      PROVE  j + 1 \in T
  <2>1. SUFFICES ASSUME j + 1 <= m, j + 1 <= n PROVE g[j + 1] = h[j + 1]
    OBVIOUS
  <2>2. j \in 0..(m - 1) /\ j \in 0..(n - 1) /\ g[j] = h[j]
    BY <1>3, <2>1
  <2>. QED
    BY <1>1, <2>2
<1>. HIDE DEF T
<1>4. i \in T
  BY <1>2, <1>3, NatClosed
<1>. QED
  BY <1>4 DEF T

\* A function that starts with a and goes on as G says.
IsRecursion(f, a, G) == f[0] = a /\ \A n \in Nat : f[n + 1] = G[<<f[n], n>>]

\* Recursion, for a step that is a function.
LEMMA RecursionExists ==
    ASSUME NEW S, NEW a \in S, NEW G \in [S \X Nat -> S]
    PROVE  \E f \in [Nat -> S] : IsRecursion(f, a, G)
<1>. DEFINE B(n) == CHOOSE g : g \in Beginnings(S, a, G, n)
            f == [n \in Nat |-> B(n)[n]]
<1>1. ASSUME NEW n \in Nat
      PROVE  B(n) \in Beginnings(S, a, G, n)
  BY BeginningsExist
<1>2. ASSUME NEW n \in Nat
      PROVE  /\ B(n) \in [0..n -> S] /\ B(n)[0] = a
             /\ \A i \in 0..(n - 1) : B(n)[i + 1] = G[<<B(n)[i], i>>]
  BY <1>1 DEF Beginnings
<1>3. \A n \in Nat : f[n] = B(n)[n]
  OBVIOUS
<1>4. ASSUME NEW n \in Nat
      PROVE  f[n + 1] = G[<<f[n], n>>]
  <2>1. B(n) \in Beginnings(S, a, G, n) /\ B(n + 1) \in Beginnings(S, a, G, n + 1)
    BY <1>1
  <2>. HIDE DEF B
  <2>2. B(n)[n] = B(n + 1)[n]
    BY <2>1, BeginningsAgree
  <2>3. B(n + 1)[n + 1] = G[<<B(n + 1)[n], n>>]
    BY <1>2
  <2>. QED
    BY <1>3, <2>2, <2>3
<1>5. f \in [Nat -> S]
  <2>. HIDE DEF B
  <2>. QED
    BY <1>2
<1>. QED
  BY <1>2, <1>3, <1>4, <1>5 DEF IsRecursion
\* A loop that takes one step after the other until it stops, each towards its end.
Loops(P, Stop, N, M) ==
    N \in [P -> P] /\ M \in [P -> Nat] /\ \A x \in P \ Stop : M[N[x]] < M[x]

\* What holds where a loop stops, and before a step to where it holds.
LEMMA LoopInduction ==
    ASSUME NEW P, NEW Stop, NEW N, NEW M, Loops(P, Stop, N, M), NEW T,
           \A x \in P : x \in Stop \/ N[x] \in T => x \in T
    PROVE  P \subseteq T
<1>. DEFINE U == {n \in Nat : \A x \in P : M[x] <= n => x \in T}
<1>0. N \in [P -> P] /\ M \in [P -> Nat] /\ \A x \in P \ Stop : M[N[x]] < M[x]
  BY DEF Loops
<1>1. 0 \in U
  BY <1>0
<1>2. ASSUME NEW n \in Nat, n \in U
      PROVE  n + 1 \in U
  <2>. SUFFICES ASSUME NEW x \in P, M[x] <= n + 1, x \notin Stop
                PROVE  N[x] \in T
    OBVIOUS
  <2>1. N[x] \in P /\ M[N[x]] <= n
    BY <1>0
  <2>. QED
    BY <1>2, <2>1
<1>. HIDE DEF U
<1>3. Nat \subseteq U
  BY <1>1, <1>2, NatClosed
<1>. QED
  BY <1>0, <1>3 DEF U

\* Where a loop ends, as a function.
LEMMA LoopExists ==
    ASSUME NEW P, NEW Stop, NEW N, NEW M, Loops(P, Stop, N, M)
    PROVE  \E f \in [P -> P] : \A x \in P : f[x] = IF x \in Stop THEN x ELSE f[N[x]]
<1>. DEFINE S == [P -> P]
            a == [x \in P |-> x]
            Step(g) == [x \in P |-> IF x \in Stop THEN x ELSE g[N[x]]]
            G == [y \in S \X Nat |-> Step(y[1])]
<1>0. N \in [P -> P] /\ M \in [P -> Nat] /\ \A x \in P \ Stop : M[N[x]] < M[x]
  BY DEF Loops
<1>1. a \in S /\ G \in [S \X Nat -> S]
  BY <1>0
<1>2. \A g \in S, n \in Nat : G[<<g, n>>] = Step(g)
  OBVIOUS
<1>. HIDE DEF a, G
<1>3. PICK F \in [Nat -> S] : IsRecursion(F, a, G)
  <2>. HIDE DEF S
  <2>. QED
    BY <1>1, RecursionExists
<1>4. ASSUME NEW n \in Nat, NEW x \in P
      PROVE  F[n + 1][x] = IF x \in Stop THEN x ELSE F[n][N[x]]
  <2>1. F[n + 1] = Step(F[n])
    BY <1>2, <1>3 DEF IsRecursion
  <2>. QED
    BY <2>1
\* Once there have been enough steps more of them change nothing.
<1>. DEFINE Same(n, x) == \A m, k \in Nat : m > n /\ k > n => F[m][x] = F[k][x]
            T == {n \in Nat : \A x \in P : M[x] <= n => Same(n, x)}
<1>. HIDE DEF S
<1>5. 0 \in T
  <2>. SUFFICES ASSUME NEW x \in P, M[x] <= 0, NEW m \in Nat, NEW k \in Nat, m > 0, k > 0
                PROVE  F[m][x] = F[k][x]
    OBVIOUS
  <2>1. x \in Stop
    BY <1>0
  <2>2. m - 1 \in Nat /\ (m - 1) + 1 = m /\ k - 1 \in Nat /\ (k - 1) + 1 = k
    OBVIOUS
  <2>3. F[(m - 1) + 1][x] = x /\ F[(k - 1) + 1][x] = x
    BY <1>4, <2>1, <2>2
  <2>. QED
    BY <2>2, <2>3
<1>6. ASSUME NEW n \in Nat, n \in T
      PROVE  n + 1 \in T
  <2>. SUFFICES ASSUME NEW x \in P, M[x] <= n + 1, NEW m \in Nat, NEW k \in Nat, m > n + 1, k > n + 1
                PROVE  F[m][x] = F[k][x]
    OBVIOUS
  <2>2. /\ m - 1 \in Nat /\ (m - 1) + 1 = m /\ k - 1 \in Nat /\ (k - 1) + 1 = k
        /\ m - 1 > n /\ k - 1 > n
    OBVIOUS
  <2>3. /\ F[(m - 1) + 1][x] = IF x \in Stop THEN x ELSE F[m - 1][N[x]]
        /\ F[(k - 1) + 1][x] = IF x \in Stop THEN x ELSE F[k - 1][N[x]]
    BY <1>4, <2>2
  <2>4. ASSUME x \notin Stop
        PROVE  F[m - 1][N[x]] = F[k - 1][N[x]]
    <3>1. N[x] \in P /\ M[N[x]] <= n
      BY <1>0, <2>4
    <3>2. Same(n, N[x])
      BY <1>6, <3>1
    <3>. QED
      BY <2>2, <3>2
  <2>. QED
    BY <2>2, <2>3, <2>4
<1>7. ASSUME NEW x \in P, NEW m \in Nat, NEW k \in Nat, m > M[x], k > M[x]
      PROVE  F[m][x] = F[k][x]
  <2>. HIDE DEF T
  <2>1. M[x] \in Nat /\ M[x] \in T
    BY <1>0, <1>5, <1>6, NatClosed
  <2>2. Same(M[x], x)
    BY <2>1 DEF T
  <2>. QED
    BY <1>7, <2>2
<1>. HIDE DEF T, Same
<1>. DEFINE f == [x \in P |-> F[M[x] + 1][x]]
<1>8. f \in [P -> P]
  BY <1>0 DEF S
<1>9. ASSUME NEW x \in P
      PROVE  f[x] = IF x \in Stop THEN x ELSE f[N[x]]
  <2>1. M[x] \in Nat /\ N[x] \in P /\ M[N[x]] \in Nat
    BY <1>0
  <2>2. f[x] = F[M[x] + 1][x] /\ f[N[x]] = F[M[N[x]] + 1][N[x]]
    BY <2>1
  <2>3. f[x] = IF x \in Stop THEN x ELSE F[M[x]][N[x]]
    BY <1>4, <2>1, <2>2
  <2>4. x \notin Stop => F[M[x]][N[x]] = F[M[N[x]] + 1][N[x]]
    BY <1>0, <1>7, <2>1
  <2>. QED
    BY <2>2, <2>3, <2>4
<1>. HIDE DEF f
<1>. QED
  BY <1>8, <1>9
-----------------------------------------------------------------------------

\* What a brace does to the list of open ones.
LEMMA Pushed ==
    ASSUME NEW o \in Seq({"brace", "text"}), NEW b \in {"brace", "text"}
    PROVE  /\ <<b>> \o o \in Seq({"brace", "text"}) /\ Len(<<b>> \o o) = Len(o) + 1
           /\ (<<b>> \o o)[1] = b
           /\ \A i \in 1..Len(o) : (<<b>> \o o)[i + 1] = o[i]
<1>. DEFINE B == {"brace", "text"}
            a == <<b>>
<1>1. a \in Seq(B) /\ Len(a) = 1 /\ a[1] = b
  OBVIOUS
<1>2. Len(o) \in Nat
  OBVIOUS
<1>. HIDE DEF a, B
<1>3. /\ a \o o \in Seq(B) /\ Len(a \o o) = Len(a) + Len(o)
      /\ \A i \in 1..(Len(a) + Len(o)) : (a \o o)[i] = IF i <= Len(a) THEN a[i] ELSE o[i - Len(a)]
  BY <1>1, ConcatProperties DEF B
<1>. QED
  BY <1>1, <1>2, <1>3 DEF a, B

LEMMA Popped ==
    ASSUME NEW o \in Seq({"brace", "text"}), o # <<>>
    PROVE  /\ Tail(o) \in Seq({"brace", "text"}) /\ Len(Tail(o)) = Len(o) - 1 /\ Len(o) \in Nat \ {0}
           /\ \A i \in 1..Len(Tail(o)) : Tail(o)[i] = o[i + 1]
OBVIOUS

\* The place of the only "text" in a list is what SelectInSeq finds, 0 if there is none.
LEMMA PlaceOfText ==
    ASSUME NEW o \in Seq({"brace", "text"}), NEW d \in Nat,
           \A i \in Nat \ {0} : (i \in 1..Len(o) /\ o[i] = "text") <=> i = d
    PROVE  d = SelectInSeq(o, LAMBDA x : x = "text")
<1>. DEFINE I == {i \in 1..Len(o) : o[i] = "text"}
<1>1. SelectInSeq(o, LAMBDA x : x = "text") = IF I # {} THEN Min(I) ELSE 0
  BY DEF SelectInSeq
<1>2. CASE d = 0
  <2>1. I = {}
    BY <1>2
  <2>. QED
    BY <1>1, <1>2, <2>1
<1>3. CASE d # 0
  <2>1. I = {d}
    BY <1>3
  <2>2. Min({d}) = d
    BY DEF Min
  <2>. QED
    BY <1>1, <2>1, <2>2
<1>. QED
  BY <1>2, <1>3
-----------------------------------------------------------------------------
\* A string that begins at depth d, with the braces o open around it.
LEMMA StringKeeps ==
    ASSUME NEW d \in Nat, NEW o \in Seq({"brace", "text"}), NEW resumed,
           ~nested => \A i \in Nat \ {0} : (i \in 1..Len(o) /\ o[i] = "text") <=> i = d,
           String(resumed, d, o)
    PROVE  OnlyText'
<1>1. CASE depth' = d /\ open' = o /\ (nested' <=> nested)
  BY <1>1 DEF OnlyText
<1>2. CASE depth' = d + 1 /\ open' = <<"text">> \o o /\ (nested' <=> nested \/ Contains(o, "text"))
  <2>1. SUFFICES ASSUME ~nested'
                 PROVE  \A i \in Nat \ {0} : (i \in 1..Len(open') /\ open'[i] = "text") <=> i = depth'
    BY <1>2, Pushed DEF OnlyText
  <2>2. d = 0
    BY <1>2, <2>1 DEF Contains
  <2>3. ~Contains(o, "text") /\ Len(o) \in Nat
    BY <1>2, <2>1
  <2>4. \A i \in 1..Len(o) : o[i] # "text"
    BY <2>3 DEF Contains
  <2>. DEFINE p == <<"text">> \o o
  <2>5. /\ Len(p) = Len(o) + 1 /\ p[1] = "text"
        /\ \A i \in 1..Len(o) : p[i + 1] = o[i]
    BY Pushed
  <2>. HIDE DEF p
  <2>6. ASSUME NEW i \in Nat \ {0}
        PROVE  (i \in 1..Len(p) /\ p[i] = "text") <=> i = 1
    <3>1. CASE i = 1
      BY <2>3, <2>5, <3>1
    <3>2. CASE i # 1
      <4>1. i \in 1..Len(p) => i - 1 \in 1..Len(o) /\ p[(i - 1) + 1] = o[i - 1] /\ (i - 1) + 1 = i
        BY <2>3, <2>5, <3>2
      <4>. QED
        BY <2>4, <3>2, <4>1
    <3>. QED
      BY <3>1, <3>2
  <2>. QED
    BY <1>2, <2>2, <2>6 DEF p
<1>. QED
  BY <1>1, <1>2 DEF String

\* An opening brace of the program.
LEMMA BraceOpens ==
    ASSUME OnlyText, open' = <<"brace">> \o open, nested' = nested,
           depth' = IF depth > 0 THEN depth + 1 ELSE depth
    PROVE  OnlyText'
<1>. DEFINE p == <<"brace">> \o open
<1>1. /\ p \in Seq({"brace", "text"}) /\ Len(p) = Len(open) + 1 /\ p[1] = "brace"
      /\ \A i \in 1..Len(open) : p[i + 1] = open[i]
  BY Pushed DEF OnlyText
<1>2. Len(open) \in Nat /\ depth \in Nat
  BY DEF OnlyText
<1>. HIDE DEF p
<1>3. ASSUME ~nested, NEW i \in Nat \ {0}
      PROVE  (i \in 1..Len(p) /\ p[i] = "text") <=> i = depth'
  <2>1. \A j \in Nat \ {0} : (j \in 1..Len(open) /\ open[j] = "text") <=> j = depth
    BY <1>3 DEF OnlyText
  <2>2. CASE i = 1
    BY <1>1, <1>2, <2>2
  <2>3. CASE i # 1
    <3>. DEFINE j == i - 1
    <3>1. j \in Nat \ {0} /\ j + 1 = i
      BY <2>3
    <3>2. j \in 1..Len(open) <=> i \in 1..Len(p)
      BY <1>1, <1>2, <3>1
    <3>. HIDE DEF j
    <3>3. j \in 1..Len(open) => p[i] = open[j]
      BY <1>1, <3>1
    <3>. QED
      BY <1>2, <2>1, <3>1, <3>2, <3>3
  <2>. QED
    BY <2>2, <2>3
<1>. QED
  BY <1>1, <1>2, <1>3 DEF OnlyText, p

\* The braces that are open when the innermost has been closed, and their depth.
LEMMA BraceCloses ==
    ASSUME OnlyText
    PROVE  LET o == IF open = <<>> THEN open ELSE Tail(open)
           IN  /\ o \in Seq({"brace", "text"}) /\ CloseBrace.depth \in Nat
               /\ ~nested => \A i \in Nat \ {0} : (i \in 1..Len(o) /\ o[i] = "text") <=> i = CloseBrace.depth
<1>. DEFINE o == IF open = <<>> THEN open ELSE Tail(open)
            d == CloseBrace.depth
<1>1. /\ d = IF depth > 0 THEN depth - 1 ELSE 0
      /\ depth \in Nat /\ d \in Nat
  BY DEF CloseBrace, OnlyText
<1>2. CASE open = <<>>
  <2>1. ~nested => depth = 0
    BY <1>1, <1>2 DEF OnlyText
  <2>. QED
    BY <1>1, <1>2, <2>1 DEF OnlyText
<1>3. CASE open # <<>>
  <2>1. /\ o \in Seq({"brace", "text"}) /\ Len(o) = Len(open) - 1 /\ Len(open) \in Nat \ {0}
        /\ \A i \in 1..Len(o) : o[i] = open[i + 1]
    BY <1>3, Popped DEF OnlyText
  <2>. HIDE DEF o, d
  <2>2. ASSUME ~nested, NEW i \in Nat \ {0}
        PROVE  (i \in 1..Len(o) /\ o[i] = "text") <=> i = d
    <3>1. \A j \in Nat \ {0} : (j \in 1..Len(open) /\ open[j] = "text") <=> j = depth
      BY <2>2 DEF OnlyText
    <3>. DEFINE j == i + 1
    <3>2. j \in Nat \ {0} /\ (j \in 1..Len(open) <=> i \in 1..Len(o)) /\ (i = d <=> j = depth)
      BY <1>1, <2>1
    <3>3. i \in 1..Len(o) => o[i] = open[j]
      BY <2>1
    <3>. HIDE DEF j
    <3>. QED
      BY <3>1, <3>2, <3>3
  <2>. QED
    BY <1>1, <2>1, <2>2 DEF o, d
<1>. QED
  BY <1>2, <1>3

LEMMA NextTokenKeeps ==
    ASSUME OnlyText, Next_token
    PROVE  OnlyText'
<1>1. CASE NextEnd \/ NextWord \/ NextUnknown
  <2>1. UNCHANGED <<depth, open, nested>>
    BY <1>1 DEF NextEnd, NextWord, NextUnknown, Plain
  <2>. QED
    BY <2>1 DEF OnlyText
<1>2. CASE NextSign
  <2>1. CASE First = "{"
    BY <1>2, <2>1, BraceOpens DEF NextSign
  <2>2. CASE First = "}"
    <3>1. depth' = CloseBrace.depth /\ nested' = nested
          /\ open' = IF open = <<>> THEN open ELSE Tail(open)
      BY <1>2, <2>2 DEF NextSign
    <3>. QED
      BY <3>1, BraceCloses DEF OnlyText
  <2>3. CASE First \notin {"{", "}"}
    <3>1. UNCHANGED <<depth, open, nested>>
      BY <1>2, <2>3 DEF NextSign
    <3>. QED
      BY <3>1 DEF OnlyText
  <2>. QED
    BY <2>1, <2>2, <2>3
<1>3. CASE NextString
  BY <1>3, StringKeeps DEF NextString, OnlyText
<1>4. CASE NextResumed
  BY <1>4, StringKeeps, BraceCloses DEF NextResumed
<1>. QED
  BY <1>1, <1>2, <1>3, <1>4 DEF Next_token

\* Strings of the lexer with expressions in braces: interpolationDepth_ says which
\* brace ends the expression, for every source whose such strings do not nest.
THEOREM BracesAreCounted == Spec => []DepthIsTrue
<1>1. Init => OnlyText
  BY DEF Init, LexInit, OnlyText
<1>2. OnlyText /\ [Next]_vars => OnlyText'
  <2>. SUFFICES ASSUME OnlyText, [Next]_vars PROVE OnlyText'
    OBVIOUS
  <2>1. CASE Pull
    BY <2>1, NextTokenKeeps DEF Pull
  <2>2. CASE UNCHANGED lexVars
    BY <2>2 DEF lexVars, OnlyText
  <2>. QED
    BY <2>1, <2>2 DEF Next, Parse, vars
<1>3. OnlyText => DepthIsTrue
  <2>. SUFFICES ASSUME OnlyText, ~nested
                PROVE  depth = SelectInSeq(open, LAMBDA x : x = "text")
    BY DEF DepthIsTrue
  <2>. QED
    BY PlaceOfText DEF OnlyText
<1>. QED
  BY <1>1, <1>2, <1>3, PTL DEF Spec
-----------------------------------------------------------------------------
LEMMA ErrorReports ==
    ASSUME FaultsAreReported, Error
    PROVE  reported'
BY DEF FaultsAreReported, Error

LEMMA FaultsStayReported ==
    ASSUME FaultsAreReported, [Next]_vars
    PROVE  FaultsAreReported'
<1>1. CASE UNCHANGED <<hole, diag>>
  BY <1>1 DEF diag, FaultsAreReported
<1>2. CASE NotConsumed \/ Fault \/ Missing
  <2>1. Error
    BY <1>2 DEF NotConsumed, Fault, Missing
  <2>. QED
    BY <2>1, ErrorReports DEF FaultsAreReported
<1>3. CASE AssignTo
  <2>1. Error \/ UNCHANGED <<hole, diag>>
    BY <1>3 DEF AssignTo
  <2>. QED
    BY <1>1, <2>1, ErrorReports DEF FaultsAreReported
<1>4. CASE SynchronizeIfNull
  BY <1>4 DEF SynchronizeIfNull, tree, FaultsAreReported
<1>. QED
  BY <1>1, <1>2, <1>3, <1>4 DEF Next, vars, Pull, Parse, ParserNext, parserVars, tree, Consumed, Enter,
     Matched, Entered, NotTaken, MakeNode, Assign

\* The parser (parsePrimary, parseType, error): a null pointer in the tree never goes
\* unreported, for every source, although panicMode_ drops messages: when it is set
\* something has been reported, and nothing takes a report back.
THEOREM HolesAreKnown == Spec => []HolesAreReported
<1>1. Init => FaultsAreReported
  BY DEF Init, ParserInit, FaultsAreReported
<1>2. FaultsAreReported /\ [Next]_vars => FaultsAreReported'
  BY FaultsStayReported
<1>3. FaultsAreReported => HolesAreReported
  BY DEF FaultsAreReported, HolesAreReported, HasErrors
<1>. QED
  BY <1>1, <1>2, <1>3, PTL DEF Spec
-----------------------------------------------------------------------------
\* The bytes of the source, and the end behind the last one.
LEMMA SourceIs ==
    ASSUME source \in Sources
    PROVE  /\ Len(source.bytes) \in Nat
           /\ \A i \in Nat : Byte(i) = "EOF" <=> i >= Len(source.bytes)
           /\ \A i \in 1..Len(source.bytes) : source.bytes[i] = Byte(i - 1)
<1>1. source.bytes \in Seq(ToSet(source.bytes)) /\ "EOF" \notin ToSet(source.bytes)
  BY SourcesAssumption, Zenon
<1>2. Len(source.bytes) \in Nat /\ DOMAIN source.bytes = 1..Len(source.bytes)
  BY <1>1
<1>3. \A i \in 1..Len(source.bytes) : source.bytes[i] # "EOF"
  BY <1>1, <1>2 DEF ToSet
<1>. QED
  BY <1>2, <1>3 DEF Byte

\* The number of bytes c of b between two offsets.
Count(b, c, from, to) == Cardinality({i \in (from + 1)..to : b[i] = c})

\* Counting up to an offset between, and on from there.
LEMMA CountAdds ==
    ASSUME NEW b, NEW c, NEW x \in Nat, NEW y \in Nat, NEW z \in Nat, x <= y, y <= z
    PROVE  /\ Count(b, c, x, y) \in Nat /\ Count(b, c, y, z) \in Nat
           /\ Count(b, c, x, z) = Count(b, c, x, y) + Count(b, c, y, z)
<1>. DEFINE S == {i \in (x + 1)..y : b[i] = c}
            T == {i \in (y + 1)..z : b[i] = c}
<1>1. IsFiniteSet((x + 1)..y) /\ IsFiniteSet((y + 1)..z)
  BY FS_Interval
<1>2. IsFiniteSet(S) /\ IsFiniteSet(T)
  <2>1. S \subseteq (x + 1)..y /\ T \subseteq (y + 1)..z
    OBVIOUS
  <2>. HIDE DEF S, T
  <2>. QED
    BY <1>1, <2>1, FS_Subset
<1>3. {i \in (x + 1)..z : b[i] = c} = S \cup T /\ S \cap T = {}
  OBVIOUS
<1>4. Count(b, c, x, y) = Cardinality(S) /\ Count(b, c, y, z) = Cardinality(T)
      /\ Count(b, c, x, z) = Cardinality(S \cup T)
  BY <1>3 DEF Count
<1>. HIDE DEF S, T
<1>5. Cardinality(S) \in Nat /\ Cardinality(T) \in Nat
  BY <1>2, FS_CardinalityType
<1>6. Cardinality(S \cup T) = Cardinality(S) + Cardinality(T) - Cardinality({})
  BY <1>2, <1>3, FS_Union
<1>7. Cardinality({}) = 0
  BY FS_EmptySet
<1>. QED
  BY <1>4, <1>5, <1>6, <1>7

LEMMA CountNone ==
    ASSUME NEW b, NEW c, NEW x \in Nat, NEW y \in Nat, \A i \in (x + 1)..y : b[i] # c
    PROVE  Count(b, c, x, y) = 0
<1>1. {i \in (x + 1)..y : b[i] = c} = {}
  OBVIOUS
<1>. QED
  BY <1>1, FS_EmptySet DEF Count

LEMMA CountOne ==
    ASSUME NEW b, NEW c, NEW x \in Nat, b[x + 1] = c
    PROVE  Count(b, c, x, x + 1) = 1
<1>1. {i \in (x + 1)..(x + 1) : b[i] = c} = {x + 1}
  OBVIOUS
<1>2. Cardinality({x + 1}) = 1
  BY FS_Singleton, Zenon
<1>. QED
  BY <1>1, <1>2 DEF Count

\* From position a to position e, over whole lines and within one line.
Goes(a, e) ==
    /\ e \in Position /\ a.offset <= e.offset /\ e.offset <= Len(source.bytes)
    /\ e.line = a.line + LineBreaks(a.offset, e.offset)
    /\ a.column > 0 => e.column > 0
Straight(a, e) == e.column = a.column + (e.offset - a.offset)
IsBreak(i) == Byte(i) = "\n"

\* LineBreaks counts so.
LEMMA LineBreaksAre ==
    ASSUME source \in Sources, NEW x \in Nat, NEW y \in Nat, x <= y, y <= Len(source.bytes)
    PROVE  /\ LineBreaks(x, y) \in Nat
           /\ \A z \in Nat : y <= z /\ z <= Len(source.bytes) =>
                 LineBreaks(y, z) \in Nat /\ LineBreaks(x, z) = LineBreaks(x, y) + LineBreaks(y, z)
           /\ (\A i \in x..(y - 1) : ~IsBreak(i)) => LineBreaks(x, y) = 0
           /\ y = x + 1 /\ IsBreak(x) => LineBreaks(x, y) = 1
<1>. DEFINE b == source.bytes
<1>1. PICK c : c = "\n"
  OBVIOUS
<1>2. \A i, j : LineBreaks(i, j) = Count(b, c, i, j)
  BY <1>1, Zenon DEF LineBreaks, Count
<1>3. \A i : IsBreak(i) <=> Byte(i) = c
  BY <1>1, Zenon DEF IsBreak
<1>4. Len(b) \in Nat /\ \A i \in 1..Len(b) : b[i] = Byte(i - 1)
  BY SourceIs
<1>. HIDE DEF b
<1>5. ASSUME \A i \in x..(y - 1) : ~IsBreak(i)
      PROVE  Count(b, c, x, y) = 0
  <2>1. \A i \in (x + 1)..y : b[i] # c
    BY <1>3, <1>4, <1>5 DEF b
  <2>. QED
    BY <2>1, CountNone
<1>6. ASSUME y = x + 1, IsBreak(x)
      PROVE  Count(b, c, x, y) = 1
  <2>1. b[x + 1] = c
    BY <1>3, <1>4, <1>6 DEF b
  <2>. QED
    BY <1>6, <2>1, CountOne
<1>7. /\ Count(b, c, x, y) \in Nat
      /\ \A z \in Nat : y <= z /\ z <= Len(b) =>
            Count(b, c, y, z) \in Nat /\ Count(b, c, x, z) = Count(b, c, x, y) + Count(b, c, y, z)
  <2>1. Count(b, c, x, y) \in Nat
    <3>1. y <= y
      OBVIOUS
    <3>. QED
      BY <3>1, CountAdds, Zenon
  <2>2. ASSUME NEW z \in Nat, y <= z
        PROVE  Count(b, c, y, z) \in Nat /\ Count(b, c, x, z) = Count(b, c, x, y) + Count(b, c, y, z)
    BY <2>2, CountAdds
  <2>. QED
    BY <2>1, <2>2
<1>. QED
  BY <1>2, <1>5, <1>6, <1>7 DEF b

\* Going on, and on from there.
LEMMA GoesOn ==
    ASSUME source \in Sources, NEW a \in Position, NEW e, NEW f, Goes(a, e), Goes(e, f)
    PROVE  Goes(a, f)
<1>1. /\ a.offset \in Nat /\ e.offset \in Nat /\ f.offset \in Nat
      /\ a.line \in Nat /\ e.line \in Nat /\ f.line \in Nat
      /\ a.column \in Nat /\ e.column \in Nat /\ f.column \in Nat
  BY DEF Goes, Position
<1>2. LineBreaks(a.offset, f.offset) = LineBreaks(a.offset, e.offset) + LineBreaks(e.offset, f.offset)
      /\ LineBreaks(a.offset, e.offset) \in Nat /\ LineBreaks(e.offset, f.offset) \in Nat
  BY <1>1, LineBreaksAre DEF Goes
<1>. QED
  BY <1>1, <1>2 DEF Goes

LEMMA StaysThere ==
    ASSUME source \in Sources, NEW a \in Position, a.offset <= Len(source.bytes)
    PROVE  Goes(a, a) /\ Straight(a, a)
<1>1. a.offset \in Nat /\ a.line \in Nat /\ a.column \in Nat
  BY DEF Position
<1>2. LineBreaks(a.offset, a.offset) = 0
  BY <1>1, LineBreaksAre
<1>. QED
  BY <1>1, <1>2 DEF Goes, Straight

\* What each way ahead makes of a position.
LEMMA BytesAre ==
    ASSUME NEW a \in Position, NEW n \in Nat
    PROVE  /\ a.offset \in Nat /\ a.line \in Nat /\ a.column \in Nat
           /\ Bytes(n, a) \in Position /\ Bytes(n, a).offset = a.offset + n
           /\ Bytes(n, a).line = a.line /\ Bytes(n, a).column = a.column + n
BY DEF Position, Bytes

\* A few bytes of one line.
LEMMA BytesGo ==
    ASSUME source \in Sources, NEW a \in Position, NEW n \in Nat, a.offset + n <= Len(source.bytes),
           \A i \in a.offset..(a.offset + n - 1) : ~IsBreak(i)
    PROVE  Goes(a, Bytes(n, a)) /\ Straight(a, Bytes(n, a)) /\ Bytes(n, a).offset = a.offset + n
<1>1. /\ a.offset \in Nat /\ a.line \in Nat /\ a.column \in Nat
      /\ Bytes(n, a) \in Position /\ Bytes(n, a).offset = a.offset + n
      /\ Bytes(n, a).line = a.line /\ Bytes(n, a).column = a.column + n
  BY BytesAre
<1>2. PICK e \in Nat : e = a.offset + n
  BY <1>1
<1>3. LineBreaks(a.offset, e) = 0
  <2>1. PICK x \in Nat : x = a.offset
    BY <1>1
  <2>2. \A i \in x..(e - 1) : ~IsBreak(i)
    BY <1>2, <2>1
  <2>3. x <= e /\ e <= Len(source.bytes)
    BY <1>2, <2>1
  <2>. QED
    BY <2>1, <2>2, <2>3, LineBreaksAre
<1>. QED
  BY <1>1, <1>2, <1>3 DEF Goes, Straight

LEMMA ToIs ==
    ASSUME source \in Sources, NEW a \in Position, a.offset <= Len(source.bytes),
           NEW S \in SUBSET Ahead(a), Len(source.bytes) \in S
    PROVE  /\ Min(S) \in S /\ To(S, a).offset = Min(S) /\ To(S, a) \in Position
           /\ To(S, a).line = a.line
           /\ a.offset <= Min(S) /\ Min(S) <= Len(source.bytes) /\ Straight(a, To(S, a))
           /\ \A i \in a.offset..(Min(S) - 1) : i \notin S /\ i \in Ahead(a)
<1>1. a.offset \in Nat /\ a.line \in Nat /\ a.column \in Nat /\ Len(source.bytes) \in Nat
  BY SourceIs DEF Position
<1>2. S \in SUBSET Nat /\ S # {}
  BY <1>1 DEF Ahead
<1>3. Min(S) \in S /\ \A i \in S : Min(S) <= i
  BY <1>2, MinIs
<1>m. PICK m : m = Min(S)
  OBVIOUS
<1>4. m \in Nat /\ m \in S /\ a.offset <= m /\ m <= Len(source.bytes) /\ \A i \in S : m <= i
  <2>1. m \in S /\ \A i \in S : m <= i
    BY <1>m, <1>3, Zenon
  <2>2. m \in a.offset..Len(source.bytes)
    BY <2>1 DEF Ahead
  <2>. QED
    BY <1>1, <2>1, <2>2
<1>5. m - a.offset \in Nat /\ To(S, a) = Bytes(m - a.offset, a)
  BY <1>m, <1>1, <1>4 DEF To
<1>6. /\ To(S, a).offset = m /\ To(S, a) \in Position /\ To(S, a).line = a.line
      /\ To(S, a).column = a.column + (m - a.offset)
  <2>1. PICK n \in Nat : n = m - a.offset
    BY <1>5
  <2>2. To(S, a) = Bytes(n, a) /\ a.offset + n = m
    BY <1>1, <1>4, <1>5, <2>1
  <2>3. /\ Bytes(n, a) \in Position /\ Bytes(n, a).offset = a.offset + n
        /\ Bytes(n, a).line = a.line /\ Bytes(n, a).column = a.column + n
    BY BytesAre
  <2>. QED
    BY <2>1, <2>2, <2>3
<1>7. \A i \in a.offset..(m - 1) : i \notin S /\ i \in Ahead(a)
  BY <1>1, <1>4 DEF Ahead
<1>. QED
  BY <1>m, <1>1, <1>4, <1>6, <1>7 DEF Straight

\* Ahead over bytes none of which is a line break.
LEMMA ToGoes ==
    ASSUME source \in Sources, NEW a \in Position, a.offset <= Len(source.bytes),
           NEW S \in SUBSET Ahead(a), Len(source.bytes) \in S,
           \A i \in Ahead(a) : IsBreak(i) => i \in S
    PROVE  Goes(a, To(S, a))
<1>1. a.offset \in Nat /\ a.line \in Nat /\ a.column \in Nat /\ Len(source.bytes) \in Nat
      /\ Min(S) \in Nat
  BY SourceIs, ToIs DEF Position, Ahead
<1>2. \A i \in a.offset..(Min(S) - 1) : ~IsBreak(i)
  BY ToIs
<1>3. LineBreaks(a.offset, Min(S)) = 0
  BY <1>1, <1>2, ToIs, LineBreaksAre
<1>. QED
  BY <1>1, <1>3, ToIs DEF Goes, Straight

-----------------------------------------------------------------------------
\* Blanks.  What stands at an offset:
IsSpace(i) == Byte(i) = " "
IsComment(i) == Byte(i) = "/" /\ Byte(i + 1) = "/"

\* The cases of a blank, one after the other.
LEMMA PastBlankIs ==
    ASSUME NEW a
    PROVE  /\ IsSpace(a.offset) => PastBlank(a) = Bytes(1, a)
           /\ IsBreak(a.offset) => PastBlank(a) = NewLine(a)
           /\ IsComment(a.offset) => PastBlank(a) = SkipComment(a)
           /\ Tsheg(a.offset) => PastBlank(a) = Bytes(3, a)
           /\ \/ IsSpace(a.offset) \/ IsBreak(a.offset) \/ IsComment(a.offset) \/ Tsheg(a.offset)
              \/ PastBlank(a) = a
<1>1. CASE IsSpace(a.offset)
  BY <1>1, Zenon DEF IsSpace, IsBreak, IsComment, Tsheg, PastBlank
<1>2. CASE IsBreak(a.offset)
  BY <1>2, Zenon DEF IsSpace, IsBreak, IsComment, Tsheg, PastBlank
<1>3. CASE IsComment(a.offset)
  BY <1>3, Zenon DEF IsSpace, IsBreak, IsComment, Tsheg, PastBlank
<1>4. CASE Tsheg(a.offset)
  BY <1>4, Zenon DEF IsSpace, IsBreak, IsComment, Tsheg, PastBlank
<1>5. CASE ~(IsSpace(a.offset) \/ IsBreak(a.offset) \/ IsComment(a.offset) \/ Tsheg(a.offset))
  BY <1>5, Zenon DEF IsSpace, IsBreak, IsComment, Tsheg, PastBlank
<1>. QED
  BY <1>1, <1>2, <1>3, <1>4, <1>5

\* A byte that is another one's is not the end, nor a line break.
LEMMA BytesDiffer ==
    ASSUME NEW i
    PROVE  /\ IsSpace(i) \/ IsComment(i) \/ Tsheg(i) => ~IsBreak(i) /\ Byte(i) # "EOF"
           /\ IsBreak(i) => Byte(i) # "EOF"
           /\ IsComment(i) => Byte(i + 1) # "EOF"
           /\ Tsheg(i) => /\ ~IsBreak(i + 1) /\ Byte(i + 1) # "EOF"
                          /\ ~IsBreak(i + 2) /\ Byte(i + 2) # "EOF"
<1>1. IsSpace(i) => ~IsBreak(i) /\ Byte(i) # "EOF"
  BY Zenon DEF IsSpace, IsBreak
<1>2. IsComment(i) => ~IsBreak(i) /\ Byte(i) # "EOF" /\ Byte(i + 1) # "EOF"
  BY Zenon DEF IsComment, IsBreak
<1>3. Tsheg(i) => /\ ~IsBreak(i) /\ Byte(i) # "EOF"
                  /\ ~IsBreak(i + 1) /\ Byte(i + 1) # "EOF"
                  /\ ~IsBreak(i + 2) /\ Byte(i + 2) # "EOF"
  BY Zenon DEF Tsheg, IsBreak
<1>4. IsBreak(i) => Byte(i) # "EOF"
  BY Zenon DEF IsBreak
<1>. QED
  BY <1>1, <1>2, <1>3, <1>4

\* A blank, whichever it is, leads on, or there is none.
LEMMA CommentGoes ==
    ASSUME source \in Sources, NEW a \in Position, IsComment(a.offset)
    PROVE  Goes(a, SkipComment(a)) /\ a.offset < SkipComment(a).offset
<1>. DEFINE S == {i \in Ahead(a) : Byte(i) \in {"\n", "EOF"}}
<1>1. a.offset \in Nat /\ Len(source.bytes) \in Nat
  BY SourceIs DEF Position
<1>2. a.offset < Len(source.bytes)
  BY <1>1, BytesDiffer, SourceIs
<1>3. Byte(Len(source.bytes)) = "EOF"
  BY <1>1, SourceIs
<1>4. Len(source.bytes) \in Ahead(a)
  BY <1>1, <1>2 DEF Ahead
<1>5. Len(source.bytes) \in S
  BY <1>3, <1>4, Zenon
<1>6. \A i \in Ahead(a) : IsBreak(i) => i \in S
  BY Zenon DEF IsBreak
<1>7. a.offset \notin S
  BY Zenon DEF IsComment
<1>8. SkipComment(a) = To(S, a)
  BY DEF SkipComment
<1>9. S \in SUBSET Ahead(a)
  BY Zenon
<1>. HIDE DEF S
<1>10. Goes(a, To(S, a))
  BY <1>2, <1>1, <1>5, <1>6, <1>9, ToGoes
<1>11. To(S, a).offset \in S /\ a.offset <= To(S, a).offset
  BY <1>2, <1>1, <1>5, <1>9, ToIs
<1>12. To(S, a).offset \in Nat
  <2>1. To(S, a) \in Position
    BY <1>2, <1>1, <1>5, <1>9, ToIs
  <2>. QED
    BY <2>1 DEF Position
<1>. QED
  BY <1>1, <1>7, <1>8, <1>10, <1>11, <1>12

LEMMA PastBlankGoes ==
    ASSUME source \in Sources, NEW a \in Position
    PROVE  /\ PastBlank(a) \in Position
           /\ a.offset >= Len(source.bytes) => PastBlank(a) = a
           /\ PastBlank(a) # a => Goes(a, PastBlank(a)) /\ a.offset < PastBlank(a).offset
<1>0. /\ a.offset \in Nat /\ a.line \in Nat /\ a.column \in Nat /\ Len(source.bytes) \in Nat
      /\ a.offset + 1 \in Nat /\ a.offset + 2 \in Nat
  BY SourceIs DEF Position
<1>s. \A i \in Nat : Byte(i) # "EOF" => i < Len(source.bytes)
  BY SourceIs
<1>1. CASE IsSpace(a.offset)
  <2>1. a.offset < Len(source.bytes) /\ ~IsBreak(a.offset)
    BY <1>0, <1>1, <1>s, BytesDiffer
  <2>2. a.offset + 1 <= Len(source.bytes) /\ \A i \in a.offset..(a.offset + 1 - 1) : ~IsBreak(i)
    BY <1>0, <2>1
  <2>3. PastBlank(a) = Bytes(1, a)
    BY <1>1, PastBlankIs
  <2>4. Goes(a, Bytes(1, a)) /\ Bytes(1, a).offset = a.offset + 1
    BY <1>0, <2>2, BytesGo
  <2>. QED
    BY <1>0, <2>1, <2>3, <2>4 DEF Goes
<1>2. CASE IsBreak(a.offset)
  <2>1. a.offset < Len(source.bytes)
    BY <1>0, <1>2, <1>s, BytesDiffer
  <2>2. PICK o \in Nat : o = a.offset
    BY <1>0
  <2>3. LineBreaks(o, o + 1) = 1
    <3>1. PICK e \in Nat : e = o + 1
      OBVIOUS
    <3>2. o <= e /\ e <= Len(source.bytes)
      BY <1>0, <2>1, <2>2, <3>1
    <3>3. LineBreaks(o, e) = 1
      BY <1>2, <2>2, <3>1, <3>2, LineBreaksAre
    <3>. QED
      BY <3>1, <3>3
  <2>4. PastBlank(a) = NewLine(a)
    BY <1>2, PastBlankIs
  <2>. QED
    BY <1>0, <2>1, <2>2, <2>3, <2>4 DEF Goes, NewLine, Position
<1>3. CASE IsComment(a.offset)
  <2>1. a.offset < Len(source.bytes)
    BY <1>0, <1>3, <1>s, BytesDiffer
  <2>2. PastBlank(a) = SkipComment(a)
    BY <1>3, PastBlankIs
  <2>. QED
    BY <1>0, <1>3, <2>1, <2>2, CommentGoes DEF Goes
<1>4. CASE Tsheg(a.offset)
  <2>1. /\ a.offset < Len(source.bytes) /\ ~IsBreak(a.offset)
        /\ a.offset + 1 < Len(source.bytes) /\ ~IsBreak(a.offset + 1)
        /\ a.offset + 2 < Len(source.bytes) /\ ~IsBreak(a.offset + 2)
    BY <1>0, <1>4, <1>s, BytesDiffer
  <2>2. a.offset + 3 <= Len(source.bytes)
    BY <1>0, <2>1
  <2>5. \A i \in a.offset..(a.offset + 3 - 1) : i = a.offset \/ i = a.offset + 1 \/ i = a.offset + 2
    BY <1>0
  <2>6. \A i \in a.offset..(a.offset + 3 - 1) : ~IsBreak(i)
    BY <2>1, <2>5
  <2>3. PastBlank(a) = Bytes(3, a)
    BY <1>4, PastBlankIs
  <2>4. Goes(a, Bytes(3, a)) /\ Bytes(3, a).offset = a.offset + 3
    BY <1>0, <2>2, <2>6, BytesGo
  <2>. QED
    BY <1>0, <2>1, <2>3, <2>4 DEF Goes
<1>5. CASE PastBlank(a) = a
  BY <1>5
<1>. QED
  BY <1>1, <1>2, <1>3, <1>4, <1>5, PastBlankIs

\* Where blanks end does not depend on lines and columns.
LEMMA PastBlankOffset ==
    ASSUME source \in Sources, NEW a \in Position, NEW b \in Position, a.offset = b.offset
    PROVE  PastBlank(a).offset = PastBlank(b).offset
<1>0. a.offset \in Nat
  BY DEF Position
<1>1. CASE IsSpace(a.offset) \/ IsBreak(a.offset) \/ Tsheg(a.offset)
  <2>1. /\ IsSpace(a.offset) => PastBlank(a) = Bytes(1, a) /\ PastBlank(b) = Bytes(1, b)
        /\ IsBreak(a.offset) => PastBlank(a) = NewLine(a) /\ PastBlank(b) = NewLine(b)
        /\ Tsheg(a.offset) => PastBlank(a) = Bytes(3, a) /\ PastBlank(b) = Bytes(3, b)
    BY PastBlankIs
  <2>. QED
    BY <1>1, <2>1 DEF Bytes, NewLine
<1>2. CASE IsComment(a.offset)
  <2>. DEFINE S == {i \in Ahead(a) : Byte(i) \in {"\n", "EOF"}}
  <2>1. {i \in Ahead(b) : Byte(i) \in {"\n", "EOF"}} = S
    BY Zenon DEF Ahead
  <2>2. SkipComment(a) = To(S, a) /\ SkipComment(b) = To(S, b)
    BY <2>1, Zenon DEF SkipComment
  <2>. HIDE DEF S
  <2>. QED
    BY <1>2, <2>2, PastBlankIs DEF To, Bytes
<1>3. CASE ~(IsSpace(a.offset) \/ IsBreak(a.offset) \/ IsComment(a.offset) \/ Tsheg(a.offset))
  BY <1>3, PastBlankIs
<1>. QED
  BY <1>1, <1>2, <1>3

-----------------------------------------------------------------------------
\* The loops.  What is left of the source in front of a position:
Rest == [a \in Position |-> IF a.offset <= Len(source.bytes) THEN Len(source.bytes) - a.offset ELSE 0]

\* A loop each round of which leads on ends, at the latest where the source does.
LEMMA ForwardLoops ==
    ASSUME source \in Sources, NEW N \in [Position -> Position],
           \A a \in Position : N[a] # a => a.offset < N[a].offset /\ N[a].offset <= Len(source.bytes)
    PROVE  Loops(Position, {a \in Position : N[a] = a}, N, Rest)
<1>1. Len(source.bytes) \in Nat /\ \A a \in Position : a.offset \in Nat
  BY SourceIs DEF Position
<1>2. Rest \in [Position -> Nat]
  <2>1. ASSUME NEW a \in Position
        PROVE  (IF a.offset <= Len(source.bytes) THEN Len(source.bytes) - a.offset ELSE 0) \in Nat
    BY <1>1
  <2>. QED
    BY <2>1 DEF Rest
<1>3. ASSUME NEW a \in Position, N[a] # a
      PROVE  Rest[N[a]] < Rest[a]
  <2>1. N[a] \in Position /\ a.offset \in Nat /\ N[a].offset \in Nat
    BY <1>1
  <2>2. /\ Rest[a] = IF a.offset <= Len(source.bytes) THEN Len(source.bytes) - a.offset ELSE 0
        /\ Rest[N[a]] = IF N[a].offset <= Len(source.bytes) THEN Len(source.bytes) - N[a].offset ELSE 0
    BY <2>1 DEF Rest
  <2>. QED
    BY <1>1, <1>3, <2>1, <2>2
<1>. QED
  BY <1>2, <1>3 DEF Loops

\* A function that goes on as long as N does.
LEMMA ForwardIs ==
    ASSUME source \in Sources, NEW N \in [Position -> Position],
           \A a \in Position : N[a] # a => a.offset < N[a].offset /\ N[a].offset <= Len(source.bytes),
           NEW f, f = CHOOSE g : g = [a \in Position |-> IF N[a] = a THEN a ELSE g[N[a]]]
    PROVE  f = [a \in Position |-> IF N[a] = a THEN a ELSE f[N[a]]]
<1>. DEFINE Stop == {a \in Position : N[a] = a}
<1>1. Loops(Position, Stop, N, Rest)
  BY ForwardLoops
<1>2. \A a \in Position : a \in Stop <=> N[a] = a
  OBVIOUS
<1>. HIDE DEF Stop
<1>3. PICK h \in [Position -> Position] : \A a \in Position : h[a] = IF a \in Stop THEN a ELSE h[N[a]]
  BY <1>1, LoopExists
<1>4. h = [a \in Position |-> IF N[a] = a THEN a ELSE h[N[a]]]
  BY <1>2, <1>3
<1>. QED
  BY <1>4, Zenon

\* Where it ends, if each step is one of those that T allows.
LEMMA ForwardEnds ==
    ASSUME source \in Sources, NEW N \in [Position -> Position],
           \A a \in Position : N[a] # a => a.offset < N[a].offset /\ N[a].offset <= Len(source.bytes),
           NEW T, \A a \in Position : N[a] = a \/ N[a] \in T => a \in T
    PROVE  Position \subseteq T
<1>1. Loops(Position, {a \in Position : N[a] = a}, N, Rest)
  BY ForwardLoops
<1>2. \A a \in Position : a \in {b \in Position : N[b] = b} \/ N[a] \in T => a \in T
  OBVIOUS
<1>. QED
  BY <1>1, <1>2, LoopInduction

Blanks == [a \in Position |-> PastBlank(a)]

\* Blanks are skipped by such a loop.
LEMMA BlanksAre ==
    ASSUME source \in Sources
    PROVE  /\ Blanks \in [Position -> Position]
           /\ \A a \in Position : Blanks[a] = PastBlank(a)
           /\ \A a \in Position : Blanks[a] # a =>
                 /\ a.offset < Blanks[a].offset /\ Blanks[a].offset <= Len(source.bytes)
                 /\ Goes(a, Blanks[a])
<1>1. \A a \in Position : PastBlank(a) \in Position
  BY PastBlankGoes
<1>. QED
  BY <1>1, PastBlankGoes DEF Blanks, Goes

LEMMA SkipWhitespaceIs ==
    ASSUME source \in Sources, NEW a \in Position
    PROVE  SkipWhitespace[a] = IF Blanks[a] = a THEN a ELSE SkipWhitespace[Blanks[a]]
<1>1. SkipWhitespace = CHOOSE g : g = [b \in Position |-> IF PastBlank(b) = b THEN b ELSE g[PastBlank(b)]]
  BY DEF SkipWhitespace
<1>2. ASSUME NEW g
      PROVE  [b \in Position |-> IF PastBlank(b) = b THEN b ELSE g[PastBlank(b)]]
               = [b \in Position |-> IF Blanks[b] = b THEN b ELSE g[Blanks[b]]]
  BY BlanksAre
<1>3. SkipWhitespace = CHOOSE g : g = [b \in Position |-> IF Blanks[b] = b THEN b ELSE g[Blanks[b]]]
  BY <1>1, <1>2
<1>. DEFINE f == SkipWhitespace
<1>. HIDE DEF f
<1>4. f = [b \in Position |-> IF Blanks[b] = b THEN b ELSE f[Blanks[b]]]
  BY <1>3, BlanksAre, ForwardIs DEF f
<1>. QED
  BY <1>4 DEF f

LEMMA BlanksAreSkipped ==
    ASSUME source \in Sources, NEW a \in Position, a.offset <= Len(source.bytes)
    PROVE  Goes(a, SkipWhitespace[a])
<1>. DEFINE T == {b \in Position : b.offset <= Len(source.bytes) => Goes(b, SkipWhitespace[b])}
<1>1. ASSUME NEW b \in Position, Blanks[b] = b \/ Blanks[b] \in T, b.offset <= Len(source.bytes)
      PROVE  Goes(b, SkipWhitespace[b])
  <2>1. CASE Blanks[b] = b
    BY <1>1, <2>1, SkipWhitespaceIs, StaysThere
  <2>2. CASE Blanks[b] # b
    <3>1. Goes(b, Blanks[b]) /\ Blanks[b].offset <= Len(source.bytes) /\ Blanks[b] \in T
      BY <1>1, <2>2, BlanksAre
    <3>2. Goes(Blanks[b], SkipWhitespace[Blanks[b]])
      BY <3>1
    <3>3. SkipWhitespace[b] = SkipWhitespace[Blanks[b]]
      BY <2>2, SkipWhitespaceIs
    <3>. QED
      BY <3>1, <3>2, <3>3, GoesOn
  <2>. QED
    BY <2>1, <2>2
<1>2. \A b \in Position : Blanks[b] = b \/ Blanks[b] \in T => b \in T
  BY <1>1
<1>. HIDE DEF T
<1>3. Position \subseteq T
  BY <1>2, BlanksAre, ForwardEnds
<1>. QED
  BY <1>3 DEF T

\* No blank is left.
LEMMA NoBlankIsLeft ==
    ASSUME source \in Sources, NEW a \in Position
    PROVE  ~IsBreak(SkipWhitespace[a].offset)
<1>. DEFINE T == {b \in Position : SkipWhitespace[b] \in Position /\ Blanks[SkipWhitespace[b]] = SkipWhitespace[b]}
<1>1. \A b \in Position : Blanks[b] = b \/ Blanks[b] \in T => b \in T
  BY SkipWhitespaceIs
<1>. HIDE DEF T
<1>2. Position \subseteq T
  BY <1>1, BlanksAre, ForwardEnds
<1>. DEFINE e == SkipWhitespace[a]
<1>3. e \in Position /\ PastBlank(e) = e
  BY <1>2, BlanksAre DEF T
<1>. HIDE DEF e
<1>4. e.offset \in Nat /\ NewLine(e).offset # e.offset
  BY <1>3 DEF Position, NewLine
<1>5. ~IsBreak(e.offset)
  BY <1>3, <1>4, PastBlankIs
<1>. QED
  BY <1>5 DEF e

LEMMA BlanksEndAtAnOffset ==
    ASSUME source \in Sources, NEW a \in Position, NEW b \in Position, a.offset = b.offset
    PROVE  SkipWhitespace[a].offset = SkipWhitespace[b].offset
<1>. DEFINE T == {x \in Position : \A y \in Position :
                    x.offset = y.offset => SkipWhitespace[x].offset = SkipWhitespace[y].offset}
<1>1. ASSUME NEW x \in Position, Blanks[x] = x \/ Blanks[x] \in T, NEW y \in Position, x.offset = y.offset
      PROVE  SkipWhitespace[x].offset = SkipWhitespace[y].offset
  <2>0. x.offset \in Nat /\ y.offset \in Nat /\ Blanks[x] \in Position /\ Blanks[y] \in Position
    BY BlanksAre DEF Position
  <2>1. Blanks[x].offset = Blanks[y].offset
    BY <1>1, BlanksAre, PastBlankOffset
  <2>2. Blanks[x] = x <=> Blanks[y] = y
    <3>1. Blanks[x].offset \in Nat /\ Blanks[y].offset \in Nat
      BY <2>0 DEF Position
    <3>2. /\ Blanks[x] # x => x.offset < Blanks[x].offset
          /\ Blanks[y] # y => y.offset < Blanks[y].offset
      BY BlanksAre
    <3>. QED
      BY <1>1, <2>0, <2>1, <3>1, <3>2
  <2>3. CASE Blanks[x] = x
    BY <1>1, <2>2, <2>3, SkipWhitespaceIs
  <2>4. CASE Blanks[x] # x
    <3>1. SkipWhitespace[x] = SkipWhitespace[Blanks[x]] /\ SkipWhitespace[y] = SkipWhitespace[Blanks[y]]
      BY <2>2, <2>4, SkipWhitespaceIs
    <3>2. Blanks[x] \in T
      BY <1>1, <2>4
    <3>. QED
      BY <2>0, <2>1, <3>1, <3>2
  <2>. QED
    BY <2>3, <2>4
<1>2. \A x \in Position : Blanks[x] = x \/ Blanks[x] \in T => x \in T
  BY <1>1
<1>. HIDE DEF T
<1>3. Position \subseteq T
  BY <1>2, BlanksAre, ForwardEnds
<1>. QED
  BY <1>3 DEF T

-----------------------------------------------------------------------------
\* What a token is made of.

\* The scanners of words, numbers and strings lead on too.
LEMMA LettersAre ==
    ASSUME NEW i
    PROVE  /\ IsAlpha(Byte(i)) => Byte(i) # "EOF" /\ ~IsBreak(i)
           /\ IsDigit(Byte(i)) => Byte(i) # "EOF" /\ ~IsBreak(i)
           /\ TibetanDigit(i) => /\ Byte(i) # "EOF" /\ ~IsBreak(i)
                                 /\ Byte(i + 1) # "EOF" /\ ~IsBreak(i + 1)
                                 /\ Byte(i + 2) # "EOF" /\ ~IsBreak(i + 2)
<1>1. IsAlpha(Byte(i)) => Byte(i) # "EOF" /\ ~IsBreak(i)
  <2>1. "EOF" \notin Keywords /\ "\n" \notin Keywords
    BY SourcesAssumption, Zenon
  <2>2. "EOF" \notin {"a", "_", "E0", "BC", "A0", "8B"} /\ "\n" \notin {"a", "_", "E0", "BC", "A0", "8B"}
    BY Zenon
  <2>. QED
    BY <2>1, <2>2, Zenon DEF IsAlpha, IsBreak
<1>2. IsDigit(Byte(i)) => Byte(i) # "EOF" /\ ~IsBreak(i)
  BY Zenon DEF IsDigit, IsBreak
<1>3. TibetanDigit(i) => /\ Byte(i) # "EOF" /\ ~IsBreak(i)
                         /\ Byte(i + 1) # "EOF" /\ ~IsBreak(i + 1)
                         /\ Byte(i + 2) # "EOF" /\ ~IsBreak(i + 2)
  BY Zenon DEF TibetanDigit, IsBreak
<1>. QED
  BY <1>1, <1>2, <1>3

LEMMA StraightOn ==
    ASSUME NEW a \in Position, NEW e \in Position, NEW f \in Position, Straight(a, e), Straight(e, f)
    PROVE  Straight(a, f)
BY DEF Straight, Position

\* One byte that is not a line break; three that are none.
LEMMA ByteGoes ==
    ASSUME source \in Sources, NEW a \in Position, Byte(a.offset) # "EOF", ~IsBreak(a.offset)
    PROVE  Goes(a, Bytes(1, a)) /\ Straight(a, Bytes(1, a)) /\ a.offset < Bytes(1, a).offset
<1>1. a.offset \in Nat /\ Len(source.bytes) \in Nat /\ a.offset < Len(source.bytes)
  BY SourceIs DEF Position
<1>2. a.offset + 1 <= Len(source.bytes) /\ \A i \in a.offset..(a.offset + 1 - 1) : ~IsBreak(i)
  BY <1>1
<1>3. Goes(a, Bytes(1, a)) /\ Straight(a, Bytes(1, a)) /\ Bytes(1, a).offset = a.offset + 1
  BY <1>2, BytesGo
<1>. QED
  BY <1>1, <1>3

LEMMA TibetanGoes ==
    ASSUME source \in Sources, NEW a \in Position, TibetanDigit(a.offset)
    PROVE  Goes(a, Bytes(3, a)) /\ Straight(a, Bytes(3, a)) /\ a.offset < Bytes(3, a).offset
<1>0. a.offset \in Nat /\ Len(source.bytes) \in Nat /\ a.offset + 1 \in Nat /\ a.offset + 2 \in Nat
  BY SourceIs DEF Position
<1>1. /\ ~IsBreak(a.offset) /\ ~IsBreak(a.offset + 1)
      /\ ~IsBreak(a.offset + 2) /\ a.offset + 2 < Len(source.bytes)
  BY <1>0, LettersAre, SourceIs
<1>2. a.offset + 3 <= Len(source.bytes)
  BY <1>0, <1>1
<1>3. \A i \in a.offset..(a.offset + 3 - 1) : i = a.offset \/ i = a.offset + 1 \/ i = a.offset + 2
  BY <1>0
<1>4. \A i \in a.offset..(a.offset + 3 - 1) : ~IsBreak(i)
  BY <1>1, <1>3
<1>5. Goes(a, Bytes(3, a)) /\ Straight(a, Bytes(3, a)) /\ Bytes(3, a).offset = a.offset + 3
  BY <1>2, <1>4, BytesGo
<1>. QED
  BY <1>0, <1>5

LEMMA PastDigitGoes ==
    ASSUME source \in Sources, NEW a \in Position
    PROVE  /\ PastDigit(a) \in Position
           /\ PastDigit(a) # a => /\ Goes(a, PastDigit(a)) /\ Straight(a, PastDigit(a))
                                  /\ a.offset < PastDigit(a).offset
<1>1. CASE IsDigit(Byte(a.offset))
  <2>1. PastDigit(a) = Bytes(1, a)
    BY <1>1, Zenon DEF PastDigit, IsDigit, TibetanDigit
  <2>. QED
    BY <1>1, <2>1, LettersAre, ByteGoes DEF Goes
<1>2. CASE TibetanDigit(a.offset)
  <2>1. PastDigit(a) = Bytes(3, a)
    BY <1>2, Zenon DEF PastDigit, IsDigit, TibetanDigit
  <2>. QED
    BY <1>2, <2>1, TibetanGoes DEF Goes
<1>3. CASE ~IsDigit(Byte(a.offset)) /\ ~TibetanDigit(a.offset)
  <2>1. PastDigit(a) = a
    BY <1>3, Zenon DEF PastDigit
  <2>. QED
    BY <2>1
<1>. QED
  BY <1>1, <1>2, <1>3

Digits == [a \in Position |-> PastDigit(a)]

LEMMA DigitsAre ==
    ASSUME source \in Sources
    PROVE  /\ Digits \in [Position -> Position]
           /\ \A a \in Position : Digits[a] # a =>
                 /\ a.offset < Digits[a].offset /\ Digits[a].offset <= Len(source.bytes)
                 /\ Goes(a, Digits[a]) /\ Straight(a, Digits[a])
<1>1. \A a \in Position : PastDigit(a) \in Position
  BY PastDigitGoes
<1>. QED
  BY <1>1, PastDigitGoes DEF Digits, Goes

LEMMA ScanNumberIs ==
    ASSUME source \in Sources, NEW a \in Position
    PROVE  ScanNumber[a] = IF Digits[a] = a THEN a ELSE ScanNumber[Digits[a]]
<1>1. ScanNumber = CHOOSE g : g = [b \in Position |-> IF PastDigit(b) = b THEN b ELSE g[PastDigit(b)]]
  BY DEF ScanNumber
<1>2. ASSUME NEW g
      PROVE  [b \in Position |-> IF PastDigit(b) = b THEN b ELSE g[PastDigit(b)]]
               = [b \in Position |-> IF Digits[b] = b THEN b ELSE g[Digits[b]]]
  BY DEF Digits
<1>3. ScanNumber = CHOOSE g : g = [b \in Position |-> IF Digits[b] = b THEN b ELSE g[Digits[b]]]
  BY <1>1, <1>2
<1>. DEFINE f == ScanNumber
<1>. HIDE DEF f
<1>4. f = [b \in Position |-> IF Digits[b] = b THEN b ELSE f[Digits[b]]]
  BY <1>3, DigitsAre, ForwardIs DEF f
<1>. QED
  BY <1>4 DEF f

LEMMA ScanNumberGoes ==
    ASSUME source \in Sources, NEW a \in Position, a.offset <= Len(source.bytes)
    PROVE  Goes(a, ScanNumber[a]) /\ Straight(a, ScanNumber[a])
<1>. DEFINE T == {b \in Position : b.offset <= Len(source.bytes) =>
                    Goes(b, ScanNumber[b]) /\ Straight(b, ScanNumber[b])}
<1>1. ASSUME NEW b \in Position, Digits[b] = b \/ Digits[b] \in T, b.offset <= Len(source.bytes)
      PROVE  Goes(b, ScanNumber[b]) /\ Straight(b, ScanNumber[b])
  <2>1. CASE Digits[b] = b
    BY <1>1, <2>1, ScanNumberIs, StaysThere
  <2>2. CASE Digits[b] # b
    <3>1. /\ Goes(b, Digits[b]) /\ Straight(b, Digits[b])
          /\ Digits[b].offset <= Len(source.bytes) /\ Digits[b] \in T
      BY <1>1, <2>2, DigitsAre
    <3>2. Goes(Digits[b], ScanNumber[Digits[b]]) /\ Straight(Digits[b], ScanNumber[Digits[b]])
      BY <3>1
    <3>3. ScanNumber[b] = ScanNumber[Digits[b]]
      BY <2>2, ScanNumberIs
    <3>4. Digits[b] \in Position /\ ScanNumber[Digits[b]] \in Position
      BY <3>1, <3>2 DEF Goes
    <3>. QED
      BY <3>1, <3>2, <3>3, <3>4, GoesOn, StraightOn
  <2>. QED
    BY <2>1, <2>2
<1>2. \A b \in Position : Digits[b] = b \/ Digits[b] \in T => b \in T
  BY <1>1
<1>. HIDE DEF T
<1>3. Position \subseteq T
  BY <1>2, DigitsAre, ForwardEnds
<1>. QED
  BY <1>3 DEF T

LEMMA ScanIdentifierGoes ==
    ASSUME source \in Sources, NEW a \in Position, a.offset <= Len(source.bytes)
    PROVE  Goes(a, ScanIdentifier(a)) /\ Straight(a, ScanIdentifier(a))
<1>. DEFINE S == {i \in Ahead(a) : ~IsAlpha(Byte(i)) /\ ~IsDigit(Byte(i))}
<1>1. Len(source.bytes) \in Nat /\ Len(source.bytes) \in Ahead(a) /\ Byte(Len(source.bytes)) = "EOF"
  BY SourceIs DEF Position, Ahead
<1>2. Len(source.bytes) \in S
  BY <1>1, LettersAre
<1>3. \A i \in Ahead(a) : IsBreak(i) => i \in S
  BY LettersAre
<1>4. S \in SUBSET Ahead(a) /\ ScanIdentifier(a) = To(S, a)
  BY DEF ScanIdentifier
<1>. HIDE DEF S
<1>. QED
  BY <1>2, <1>3, <1>4, ToIs, ToGoes

LEMMA ScanStringGoes ==
    ASSUME source \in Sources, NEW a \in Position, a.offset <= Len(source.bytes)
    PROVE  /\ Goes(a, ScanString(a)) /\ Straight(a, ScanString(a))
           /\ Byte(ScanString(a).offset) # "EOF" => ~IsBreak(ScanString(a).offset)
<1>. DEFINE S == {i \in Ahead(a) : Byte(i) \in {"\"", "{", "EOF"}}
<1>1. Len(source.bytes) \in Nat /\ Len(source.bytes) \in Ahead(a) /\ Byte(Len(source.bytes)) = "EOF"
      /\ a.offset \in Nat
  BY SourceIs DEF Position, Ahead
<1>2. Len(source.bytes) \in S
  BY <1>1, Zenon
<1>3. \A i \in S : Byte(i) # "EOF" => ~IsBreak(i)
  BY Zenon DEF IsBreak
<1>4. S \in SUBSET Ahead(a) /\ EndOfText(a) = To(S, a)
  BY Zenon DEF EndOfText
<1>. HIDE DEF S
<1>. DEFINE e == EndOfText(a)
<1>5. /\ e \in Position /\ Straight(a, e) /\ e.line = a.line
      /\ a.offset <= e.offset /\ e.offset <= Len(source.bytes) /\ e.offset \in S
  BY <1>2, <1>4, ToIs
<1>6. ScanString(a) = [e EXCEPT !.line = @ + LineBreaks(a.offset, e.offset)]
  BY Zenon DEF ScanString
<1>. HIDE DEF e
<1>7. e.offset \in Nat /\ e.line \in Nat /\ e.column \in Nat /\ a.line \in Nat /\ a.column \in Nat
  BY <1>5 DEF Position
<1>8. LineBreaks(a.offset, e.offset) \in Nat
  BY <1>1, <1>5, <1>7, LineBreaksAre
<1>9. ScanString(a) = [offset |-> e.offset, line |-> e.line + LineBreaks(a.offset, e.offset),
                       column |-> e.column]
  BY <1>5, <1>6 DEF Position
<1>. QED
  BY <1>1, <1>3, <1>5, <1>7, <1>8, <1>9 DEF Goes, Straight, Position
-----------------------------------------------------------------------------
\* The source does not change.
LEMMA SameBlanks ==
    ASSUME source' = source, source \in Sources
    PROVE  SkipWhitespace' = SkipWhitespace
<1>0. ASSUME NEW i PROVE Byte(i)' = Byte(i)
  BY Zenon DEF Byte
<1>1. ASSUME NEW a PROVE PastBlank(a)' = PastBlank(a)
  <2>1. Tsheg(a.offset)' <=> Tsheg(a.offset)
    BY <1>0, Zenon DEF Tsheg
  <2>2. SkipComment(a)' = SkipComment(a)
    <3>1. {i \in Ahead(a) : Byte(i) \in {"\n", "EOF"}}' = {i \in Ahead(a) : Byte(i) \in {"\n", "EOF"}}
      BY <1>0, Zenon DEF Ahead
    <3>. QED
      BY <3>1, Zenon DEF SkipComment, To
  <2>. QED
    BY <1>0, <2>1, <2>2, Zenon DEF PastBlank
<1>2. ASSUME NEW g
      PROVE  [b \in Position |-> IF PastBlank(b)' = b THEN b ELSE g[PastBlank(b)']]
               = [b \in Position |-> IF PastBlank(b) = b THEN b ELSE g[PastBlank(b)]]
  BY <1>1
<1>3. SkipWhitespace' = CHOOSE g : g = [b \in Position |-> IF PastBlank(b)' = b THEN b ELSE g[PastBlank(b)']]
  BY DEF SkipWhitespace
<1>4. SkipWhitespace = CHOOSE g : g = [b \in Position |-> IF PastBlank(b) = b THEN b ELSE g[PastBlank(b)]]
  BY DEF SkipWhitespace
<1>. QED
  BY <1>2, <1>3, <1>4

-----------------------------------------------------------------------------
\* The inductive invariant: the position, the tokens up to it and its line.
PositionsInv == CursorInv /\ TokensTileSource /\ PositionsAreTrue

\* Where the next token begins.
LEMMA StartIs ==
    ASSUME CursorInv
    PROVE  /\ Goes(cursor, Start) /\ Start \in Position /\ Start.column > 0
           /\ Start.offset <= Len(source.bytes)
           /\ First = "EOF" <=> Start.offset = Len(source.bytes)
<1>1. Goes(cursor, Start)
  BY BlanksAreSkipped DEF CursorInv, Start
<1>2. Start \in Position /\ Start.offset \in Nat
  BY <1>1 DEF Goes, Position
<1>. QED
  BY <1>1, <1>2, SourceIs DEF CursorInv, Goes, First

\* A token from the first byte that is no blank to a position behind it.
LEMMA ReturnKeeps ==
    ASSUME PositionsInv, NEW type, NEW end, Return(type, end), Goes(Start, end),
           type = "EOF" <=> end = Start, type = "EOF" => Start.offset = Len(source.bytes),
           end # Start => Start.offset < end.offset,
           \/ Straight(Start, end)
           \/ end.offset = Start.offset + 2 /\ end.column = Start.column + 1
    PROVE  PositionsInv'
<1>. DEFINE n == Len(source.bytes)
            length == end.offset - Start.offset
<1>1. /\ source \in Sources /\ cursor \in Position /\ cursor.offset <= n /\ cursor.column > 0
      /\ cursor.line = 1 + LineBreaks(0, cursor.offset)
  BY DEF PositionsInv, CursorInv, PositionsAreTrue
<1>2. /\ Goes(cursor, Start) /\ Start \in Position /\ Start.column > 0 /\ Start.offset <= n
  BY <1>1, StartIs DEF PositionsInv
<1>3. Goes(cursor, end) /\ end \in Position
  BY <1>1, <1>2, GoesOn DEF Goes
<1>4. /\ cursor.offset \in Nat /\ Start.offset \in Nat /\ end.offset \in Nat /\ n \in Nat
      /\ Start.column \in Nat /\ end.column \in Nat /\ cursor.line \in Nat /\ end.line \in Nat
  BY <1>1, <1>2, <1>3, SourceIs DEF Position
<1>5. /\ source' = source /\ cursor' = end /\ behind' = cursor.offset
      /\ token' = Token(type, Start, end)
  BY DEF Return
<1>6. CursorInv'
  BY <1>1, <1>3, <1>5 DEF CursorInv, Goes
<1>7. /\ token'.type = type /\ token'.offset = Start.offset /\ token'.length = length
      /\ token'.column = IF type = "invalid" THEN 0 ELSE end.column - length
  BY <1>5 DEF Token
<1>8. PositionsAreTrue'
  <2>1. cursor'.line = 1 + LineBreaks(0, cursor'.offset)
    <3>1. PICK x \in Nat : x = 0
      OBVIOUS
    <3>2. x <= cursor.offset /\ cursor.offset <= end.offset /\ end.offset <= n
      BY <1>3, <1>4, <3>1 DEF Goes
    <3>3. /\ LineBreaks(x, end.offset) = LineBreaks(x, cursor.offset) + LineBreaks(cursor.offset, end.offset)
          /\ LineBreaks(x, cursor.offset) \in Nat /\ LineBreaks(cursor.offset, end.offset) \in Nat
      <4>1. PICK y \in Nat : y = cursor.offset
        BY <1>4
      <4>2. PICK z \in Nat : z = end.offset
        BY <1>4
      <4>3. x <= y /\ y <= z /\ y <= Len(source.bytes) /\ z <= Len(source.bytes)
        BY <3>2, <4>1, <4>2
      <4>4. LineBreaks(x, y) \in Nat /\ LineBreaks(y, z) \in Nat
            /\ LineBreaks(x, z) = LineBreaks(x, y) + LineBreaks(y, z)
        BY <1>1, <4>3, LineBreaksAre
      <4>. QED
        BY <4>1, <4>2, <4>4
    <3>4. end.line = cursor.line + LineBreaks(cursor.offset, end.offset)
      BY <1>3 DEF Goes
    <3>. QED
      BY <1>1, <1>4, <1>5, <3>1, <3>3, <3>4
  <2>2. LineBreaks(0, cursor.offset)' = LineBreaks(0, cursor'.offset)
    BY <1>5 DEF LineBreaks
  <2>3. end.column - length >= 0 /\ end.column - length \in Int
    BY <1>2, <1>4 DEF Straight
  <2>. QED
    BY <1>7, <2>1, <2>2, <2>3 DEF PositionsAreTrue
<1>9. TokensTileSource'
  <2>2. Skipped(behind, token.offset)'
    <3>. DEFINE here == [offset |-> cursor.offset, line |-> 0, column |-> 0]
    <3>1. here \in Position /\ here.offset = cursor.offset
      BY <1>4 DEF Position
    <3>4. here = [offset |-> behind', line |-> 0, column |-> 0]
      BY <1>5
    <3>. HIDE DEF here
    <3>2. SkipWhitespace[here].offset = Start.offset
      BY <1>1, <3>1, BlanksEndAtAnOffset DEF Start
    <3>3. SkipWhitespace' = SkipWhitespace
      BY <1>1, <1>5, SameBlanks
    <3>5. SkipWhitespace'[[offset |-> behind', line |-> 0, column |-> 0]].offset = token'.offset
      BY <1>7, <3>2, <3>3, <3>4
    <3>. QED
      BY <3>5 DEF Skipped
  <2>3. end.offset = Start.offset + length /\ end.offset <= n /\ (length = 0 <=> type = "EOF")
    BY <1>3, <1>4 DEF Goes
  <2>4. type = "EOF" => end.offset = n
    BY <1>4
  <2>. QED
    BY <1>5, <1>7, <2>2, <2>3, <2>4 DEF TokensTileSource, Lexed
<1>. QED
  BY <1>6, <1>8, <1>9 DEF PositionsInv

-----------------------------------------------------------------------------
LEMMA SourceKnown == PositionsInv => source \in Sources /\ CursorInv
BY DEF PositionsInv, CursorInv

\* Each kind of token keeps the invariant.
LEMMA EndKeeps ==
    ASSUME PositionsInv, NextEnd
    PROVE  PositionsInv'
<1>1. /\ source \in Sources /\ Start \in Position
      /\ Start.offset <= Len(source.bytes) /\ Start.offset = Len(source.bytes)
  BY StartIs, SourceKnown DEF NextEnd
<1>2. Return("EOF", Start)
  BY DEF NextEnd, Plain
<1>3. Goes(Start, Start) /\ Straight(Start, Start)
  BY <1>1, StaysThere
<1>. QED
  BY <1>1, <1>2, <1>3, ReturnKeeps

\* A token that begins with a byte that is no line break.
LEMMA TokenBegins ==
    ASSUME PositionsInv, First # "EOF"
    PROVE  LET one == Bytes(1, Start)
           IN  /\ Goes(Start, one) /\ Straight(Start, one) /\ Start.offset < one.offset
               /\ one \in Position /\ one.offset <= Len(source.bytes)
               /\ ~IsBreak(Start.offset)
<1>1. source \in Sources /\ Start \in Position /\ cursor \in Position
  BY StartIs, SourceKnown DEF CursorInv
<1>2. ~IsBreak(Start.offset)
  BY <1>1, NoBlankIsLeft DEF Start
<1>. QED
  BY <1>1, <1>2, ByteGoes DEF First, Goes

LEMMA TokenGoes ==
    ASSUME PositionsInv, NEW type, NEW middle, NEW end, Return(type, end), type # "EOF",
           Goes(Start, middle), Straight(Start, middle), Start.offset < middle.offset,
           Goes(middle, end), Straight(middle, end)
    PROVE  PositionsInv'
<1>1. source \in Sources /\ Start \in Position /\ middle \in Position /\ end \in Position
  BY StartIs, SourceKnown DEF Goes
<1>2. Goes(Start, end) /\ Straight(Start, end)
  BY <1>1, GoesOn, StraightOn
<1>3. Start.offset < end.offset
  BY <1>1 DEF Goes, Position
<1>4. end # Start
  BY <1>1, <1>3 DEF Position
<1>. QED
  BY <1>2, <1>3, <1>4, ReturnKeeps

LEMMA WordKeeps ==
    ASSUME PositionsInv, NextWord
    PROVE  PositionsInv'
<1>. DEFINE one == Bytes(1, Start)
<1>0. source \in Sources /\ Start \in Position
  BY StartIs, SourceKnown
<1>1. CASE IsAlpha(First) /\ ~TibetanDigit(Start.offset)
           /\ LET end == ScanIdentifier(one)
              IN  Plain(CheckKeyword(SubSeq(source.bytes, Start.offset + 1, end.offset)), end)
  <2>. DEFINE word == SubSeq(source.bytes, Start.offset + 1, ScanIdentifier(one).offset)
  <2>1. First # "EOF"
    BY <1>1, LettersAre DEF First
  <2>2. CheckKeyword(word) # "EOF"
    <3>1. "EOF" \notin Keywords \union {"_"} /\ "id" # "EOF"
      BY SourcesAssumption, Zenon
    <3>. HIDE DEF word
    <3>. QED
      BY <3>1, Zenon DEF CheckKeyword
  <2>3. Return(CheckKeyword(word), ScanIdentifier(one))
    BY <1>1, Zenon DEF Plain
  <2>4. /\ Goes(Start, one) /\ Straight(Start, one) /\ Start.offset < one.offset
        /\ one \in Position /\ one.offset <= Len(source.bytes)
    BY <2>1, TokenBegins
  <2>. HIDE DEF word, one
  <2>5. Goes(one, ScanIdentifier(one)) /\ Straight(one, ScanIdentifier(one))
    BY <1>0, <2>4, ScanIdentifierGoes
  <2>. QED
    BY <2>2, <2>3, <2>4, <2>5, TokenGoes
<1>2. CASE TibetanDigit(Start.offset) /\ Plain("number literal", ScanNumber[Bytes(3, Start)])
  <2>. DEFINE three == Bytes(3, Start)
  <2>1. Goes(Start, three) /\ Straight(Start, three) /\ Start.offset < three.offset
    BY <1>0, <1>2, TibetanGoes
  <2>2. Return("number literal", ScanNumber[three])
    BY <1>2 DEF Plain
  <2>. HIDE DEF three
  <2>3. Goes(three, ScanNumber[three]) /\ Straight(three, ScanNumber[three])
    BY <1>0, <2>1, ScanNumberGoes DEF Goes
  <2>4. "number literal" # "EOF"
    BY Zenon
  <2>. QED
    BY <2>1, <2>2, <2>3, <2>4, TokenGoes, Zenon
<1>3. CASE IsDigit(First) /\ Plain("number literal", ScanNumber[one])
  <2>1. First # "EOF"
    BY <1>3, LettersAre DEF First
  <2>2. Return("number literal", ScanNumber[one])
    BY <1>3 DEF Plain
  <2>3. /\ Goes(Start, one) /\ Straight(Start, one) /\ Start.offset < one.offset
        /\ one \in Position /\ one.offset <= Len(source.bytes)
    BY <2>1, TokenBegins
  <2>. HIDE DEF one
  <2>4. Goes(one, ScanNumber[one]) /\ Straight(one, ScanNumber[one])
    BY <1>0, <2>3, ScanNumberGoes
  <2>5. "number literal" # "EOF"
    BY Zenon
  <2>. QED
    BY <2>2, <2>3, <2>4, <2>5, TokenGoes, Zenon
<1>. QED
  BY <1>1, <1>2, <1>3 DEF NextWord

LEMMA UnknownKeeps ==
    ASSUME PositionsInv, NextUnknown
    PROVE  PositionsInv'
<1>. DEFINE one == Bytes(1, Start)
<1>1. First # "EOF"
  BY Zenon DEF NextUnknown
<1>2. Return("invalid", one)
  BY DEF NextUnknown, Plain
<1>3. /\ Goes(Start, one) /\ Straight(Start, one) /\ Start.offset < one.offset
      /\ one \in Position /\ one.offset <= Len(source.bytes)
  BY <1>1, TokenBegins
<1>. HIDE DEF one
<1>4. source \in Sources
  BY SourceKnown
<1>5. Goes(one, one) /\ Straight(one, one)
  BY <1>3, <1>4, StaysThere
<1>. QED
  BY <1>2, <1>3, <1>5, TokenGoes

LEMMA StringReturns ==
    ASSUME PositionsInv, First # "EOF", NEW resumed, NEW d, NEW o, String(resumed, d, o)
    PROVE  PositionsInv'
<1>. DEFINE one == Bytes(1, Start)
            stop == ScanString(one)
            by == Byte(stop.offset)
            type == CASE by = "EOF" -> "invalid"
                      [] by = "{" -> "part"
                      [] OTHER -> IF resumed THEN "end" ELSE "string literal"
            end == IF by = "EOF" THEN stop ELSE Bytes(1, stop)
<1>1. Return(type, end)
  BY Zenon DEF String
<1>2. type # "EOF"
  <2>1. CASE by = "EOF"
    BY <2>1, Zenon
  <2>2. CASE by = "{"
    BY <2>2, Zenon
  <2>3. CASE by # "EOF" /\ by # "{"
    BY <2>3, Zenon
  <2>. QED
    BY <2>1, <2>2, <2>3
<1>3. /\ Goes(Start, one) /\ Straight(Start, one) /\ Start.offset < one.offset
      /\ one \in Position /\ one.offset <= Len(source.bytes)
  BY TokenBegins
<1>4. source \in Sources
  BY SourceKnown
<1>. HIDE DEF one, type
<1>5. /\ Goes(one, stop) /\ Straight(one, stop) /\ stop \in Position
      /\ by # "EOF" => ~IsBreak(stop.offset)
  BY <1>3, <1>4, ScanStringGoes DEF Goes
<1>. HIDE DEF stop
<1>6. CASE by = "EOF"
  BY <1>1, <1>2, <1>3, <1>5, <1>6, TokenGoes
<1>7. CASE by # "EOF"
  <2>1. Goes(stop, Bytes(1, stop)) /\ Straight(stop, Bytes(1, stop)) /\ Bytes(1, stop) \in Position
    BY <1>4, <1>5, <1>7, ByteGoes DEF Goes
  <2>2. Goes(one, Bytes(1, stop)) /\ Straight(one, Bytes(1, stop))
    BY <1>3, <1>4, <1>5, <2>1, GoesOn, StraightOn
  <2>. QED
    BY <1>1, <1>2, <1>3, <1>7, <2>2, TokenGoes
<1>. QED
  BY <1>6, <1>7

\* The signs, none of which is a line break.
LEMMA SignsAre ==
    /\ "EOF" \notin Single \union {"&"}
    /\ \A c \in DOMAIN Second : Second[c] # "EOF" /\ Second[c] # "\n" /\ Joined[c] # "EOF"
<1>1. DOMAIN Second = {"-", "!", "&", "|", "=", "<", ">"}
  BY Zenon DEF Second
<1>2. "EOF" \notin Single \union {"&"}
  BY <1>1, Zenon DEF Single
<1>3. ASSUME NEW c \in DOMAIN Second
      PROVE  Second[c] # "EOF" /\ Second[c] # "\n" /\ Joined[c] # "EOF"
  <2>1. Second[c] = CASE c = "-" -> ">" [] c \in {"&", "|"} -> c [] OTHER -> "="
    BY <1>1, <1>3, Zenon DEF Second
  <2>2. Joined[c] = CASE c = "-" -> "->" [] c = "&" -> "and" [] c = "|" -> "or" [] c = "!" -> "!="
                      [] c = "=" -> "==" [] c = "<" -> "<=" [] c = ">" -> ">="
    BY <1>3, Zenon DEF Joined
  <2>3. CASE c = "-"
    BY <2>1, <2>2, <2>3, Zenon
  <2>4. CASE c = "!"
    BY <2>1, <2>2, <2>4, Zenon
  <2>5. CASE c = "&"
    BY <2>1, <2>2, <2>5, Zenon
  <2>6. CASE c = "|"
    BY <2>1, <2>2, <2>6, Zenon
  <2>7. CASE c = "="
    BY <2>1, <2>2, <2>7, Zenon
  <2>8. CASE c = "<"
    BY <2>1, <2>2, <2>8, Zenon
  <2>9. CASE c = ">"
    BY <2>1, <2>2, <2>9, Zenon
  <2>. QED
    BY <1>1, <1>3, <2>3, <2>4, <2>5, <2>6, <2>7, <2>8, <2>9, Zenon
<1>. QED
  BY <1>2, <1>3, Zenon

LEMMA SignKeeps ==
    ASSUME PositionsInv, NextSign
    PROVE  PositionsInv'
<1>. DEFINE one == Bytes(1, Start)
            two == First \in DOMAIN Second /\ Byte(Start.offset + 1) = Second[First]
            both == [one EXCEPT !.offset = @ + 1]
<1>1. First \in Single \union {"&"} /\ First # "EOF"
  BY SignsAre, Zenon DEF NextSign
<1>2. \/ two /\ Return(Joined[First], both)
      \/ Return("invalid", one)
      \/ Return(First, one)
  BY Zenon DEF NextSign
<1>3. /\ Goes(Start, one) /\ Straight(Start, one) /\ Start.offset < one.offset
      /\ one \in Position /\ one.offset <= Len(source.bytes) /\ ~IsBreak(Start.offset)
  BY <1>1, TokenBegins
<1>4. source \in Sources /\ Start \in Position /\ Start.column > 0
  BY StartIs, SourceKnown
<1>5. CASE Return("invalid", one) \/ Return(First, one)
  <2>1. PICK type : type # "EOF" /\ Return(type, one)
    BY <1>1, <1>5
  <2>. HIDE DEF one
  <2>2. Goes(one, one) /\ Straight(one, one)
    BY <1>3, <1>4, StaysThere
  <2>. QED
    BY <1>3, <2>1, <2>2, TokenGoes
<1>6. CASE two /\ Return(Joined[First], both)
  <2>0. /\ Start.offset \in Nat /\ Start.line \in Nat /\ Start.column \in Nat
        /\ Len(source.bytes) \in Nat /\ Start.offset + 1 \in Nat
    BY <1>4, SourceIs DEF Position
  <2>1. Byte(Start.offset + 1) # "EOF" /\ ~IsBreak(Start.offset + 1) /\ Joined[First] # "EOF"
    BY <1>6, SignsAre, Zenon DEF IsBreak
  <2>2. Start.offset + 2 <= Len(source.bytes)
    BY <1>4, <2>0, <2>1, SourceIs
  <2>3. both = [offset |-> Start.offset + 2, line |-> Start.line, column |-> Start.column + 1]
    BY <1>4, <2>0 DEF Bytes
  <2>4. both \in Position
    BY <2>0, <2>3 DEF Position
  <2>5. PICK e \in Nat : e = Start.offset + 2
    BY <2>0
  <2>6. PICK x \in Nat : x = Start.offset
    BY <2>0
  <2>7. \A i \in x..(e - 1) : i = Start.offset \/ i = Start.offset + 1
    BY <2>0, <2>5, <2>6
  <2>8. LineBreaks(x, e) = 0
    <3>1. \A i \in x..(e - 1) : ~IsBreak(i)
      BY <1>3, <2>1, <2>7
    <3>2. x <= e /\ e <= Len(source.bytes)
      BY <2>0, <2>2, <2>5, <2>6
    <3>. QED
      BY <1>4, <3>1, <3>2, LineBreaksAre
  <2>9. Goes(Start, both)
    BY <1>4, <2>0, <2>2, <2>3, <2>4, <2>5, <2>6, <2>8 DEF Goes
  <2>10. Return(Joined[First], both)
    BY <1>6
  <2>. HIDE DEF both
  <2>11. /\ both.offset = Start.offset + 2 /\ both.column = Start.column + 1
         /\ both # Start /\ Start.offset < both.offset
    BY <2>0, <2>3
  <2>. QED
    BY <2>1, <2>9, <2>10, <2>11, ReturnKeeps
<1>. QED
  BY <1>2, <1>5, <1>6

LEMMA NextTokenTiles ==
    ASSUME PositionsInv, Next_token
    PROVE  PositionsInv'
<1>1. CASE NextString
  <2>1. First # "EOF"
    BY <1>1, Zenon DEF NextString
  <2>. QED
    BY <1>1, <2>1, StringReturns, Zenon DEF NextString
<1>2. CASE NextResumed
  <2>1. First # "EOF"
    BY <1>2, Zenon DEF NextResumed
  <2>. QED
    BY <1>2, <2>1, StringReturns, Zenon DEF NextResumed
<1>. QED
  BY <1>1, <1>2, EndKeeps, WordKeeps, SignKeeps, UnknownKeeps DEF Next_token

LEMMA PositionsAtFirst == Init => PositionsInv
<1>. SUFFICES ASSUME LexInit PROVE PositionsInv
  BY DEF Init
<1>. DEFINE o == IF IsPrefix(<<"EF", "BB", "BF">>, source.bytes) THEN 3 ELSE 0
<1>1. source \in Sources /\ Len(source.bytes) \in Nat
  BY SourceIs DEF LexInit
<1>2. cursor = [offset |-> o, line |-> 1, column |-> 1]
  BY DEF LexInit
<1>3. o \in Nat /\ o <= Len(source.bytes) /\ \A i \in 1..o : source.bytes[i] # "\n"
  <2>1. CASE IsPrefix(<<"EF", "BB", "BF">>, source.bytes)
    <3>1. 3 <= Len(source.bytes) /\ <<"EF", "BB", "BF">> = SubSeq(source.bytes, 1, 3)
      BY <2>1 DEF IsPrefix
    <3>2. source.bytes \in Seq(ToSet(source.bytes))
      BY <1>1, SourcesAssumption, Zenon
    <3>3. source.bytes[1] = "EF" /\ source.bytes[2] = "BB" /\ source.bytes[3] = "BF"
      BY <3>1, <3>2
    <3>4. \A i \in 1..3 : i = 1 \/ i = 2 \/ i = 3
      OBVIOUS
    <3>5. \A i \in 1..3 : source.bytes[i] # "\n"
      BY <3>3, <3>4, Zenon
    <3>. QED
      BY <1>1, <2>1, <3>1, <3>5
  <2>2. CASE ~IsPrefix(<<"EF", "BB", "BF">>, source.bytes)
    BY <1>1, <2>2
  <2>. QED
    BY <2>1, <2>2
<1>. HIDE DEF o
<1>4. CursorInv
  BY <1>1, <1>2, <1>3 DEF CursorInv, Position
<1>5. token = Token("none", cursor, cursor)
  BY DEF LexInit
<1>6. token.type = "none" /\ token.column = 1
  BY <1>2, <1>3, <1>5 DEF Token
<1>7. LineBreaks(0, o) = 0
  <2>1. PICK c : c = "\n"
    OBVIOUS
  <2>2. \A i \in (0 + 1)..o : source.bytes[i] # c
    BY <1>3, <2>1
  <2>3. Count(source.bytes, c, 0, o) = 0
    BY <1>3, <2>2, CountNone
  <2>. QED
    BY <2>1, <2>3, Zenon DEF Count, LineBreaks
<1>. QED
  BY <1>2, <1>4, <1>6, <1>7 DEF PositionsInv, TokensTileSource, PositionsAreTrue

\* The inductive invariant of both theorems below.
LEMMA PositionsHold == Spec => []PositionsInv
<1>1. PositionsInv /\ [Next]_vars => PositionsInv'
  <2>. SUFFICES ASSUME PositionsInv, [Next]_vars PROVE PositionsInv'
    OBVIOUS
  <2>1. CASE Pull
    BY <2>1, NextTokenTiles DEF Pull
  <2>2. CASE UNCHANGED lexVars
    <3>1. /\ source' = source /\ cursor' = cursor /\ token' = token /\ behind' = behind
      BY <2>2 DEF lexVars
    <3>2. SkipWhitespace' = SkipWhitespace
      BY <3>1, SourceKnown, SameBlanks
    <3>. QED
      BY <3>1, <3>2 DEF PositionsInv, CursorInv, TokensTileSource, PositionsAreTrue, LineBreaks, Skipped, Lexed
  <2>. QED
    BY <2>1, <2>2 DEF Next, Parse, vars
<1>. QED
  BY <1>1, PositionsAtFirst, PTL DEF Spec

\* The lexer (Lexer::next): whatever the bytes of the source, the tokens lie one behind
\* the other, nothing but blanks, comments and tshegs is left out between them, the
\* last one is the only empty one and lies at the end: nothing of the source is lost.
THEOREM SourceIsTiled == Spec => []TokensTileSource
BY PositionsHold, PTL DEF PositionsInv

\* The lexer (advance, the scanners, makeToken): line_ is one more than the line breaks
\* passed, those in strings and comments included, and no column is negative.
THEOREM PositionsAreCounted == Spec => []PositionsAreTrue
BY PositionsHold, PTL DEF PositionsInv

-----------------------------------------------------------------------------
\* Brackets.
Marks == {"(", "[", "{", "unmatched"}

LEMMA ListFacts ==
    ASSUME NEW S
    PROVE  /\ \A x \in S : <<x>> \in Seq(S)
           /\ \A s \in Seq(S) : s # <<>> => Tail(s) \in Seq(S)
OBVIOUS

LEMMA MeetsIsList ==
    ASSUME NEW b \in Seq(Marks), NEW t
    PROVE  Meets(b, t) \in Seq(Marks)
<1>1. CASE t \in {"(", "[", "{"}
  <2>1. t \in Marks
    BY <1>1 DEF Marks
  <2>2. <<t>> \in Seq(Marks)
    BY <2>1, ListFacts, Zenon
  <2>3. <<t>> \o b \in Seq(Marks)
    BY <2>2, ConcatProperties, Zenon
  <2>. QED
    BY <1>1, <2>3 DEF Meets
<1>2. CASE t \notin {"(", "[", "{"} /\ t \notin DOMAIN Opening
  BY <1>2 DEF Meets
<1>3. CASE t \notin {"(", "[", "{"} /\ t \in DOMAIN Opening /\ b # <<>> /\ Head(b) = Opening[t]
  <2>1. Tail(b) \in Seq(Marks)
    BY <1>3, ListFacts, Zenon
  <2>. QED
    BY <1>3, <2>1 DEF Meets
<1>4. CASE t \notin {"(", "[", "{"} /\ t \in DOMAIN Opening /\ ~(b # <<>> /\ Head(b) = Opening[t])
  <2>2. "unmatched" \in Marks
    BY DEF Marks
  <2>3. <<"unmatched">> \in Seq(Marks)
    BY <2>2, ListFacts, Zenon
  <2>1. <<"unmatched">> \o b \in Seq(Marks)
    BY <2>3, ConcatProperties, Zenon
  <2>. QED
    BY <1>4, <2>1 DEF Meets
<1>. QED
  BY <1>1, <1>2, <1>3, <1>4

\* The recursion of Nesting.
LEMMA NestingIs ==
    ASSUME NEW b \in Seq(Marks), NEW t
    PROVE  /\ Nesting(b, t) \in [Nat -> Seq(Marks)]
           /\ Nesting(b, t)[0] = b
           /\ \A n \in Nat : Nesting(b, t)[n + 1] = Meets(Nesting(b, t)[n], t[n + 1])
<1>. DEFINE S == Seq(Marks)
            G == [x \in S \X Nat |-> Meets(x[1], t[x[2] + 1])]
<1>1. G \in [S \X Nat -> S]
  BY MeetsIsList
<1>2. \A x \in S, n \in Nat : G[<<x, n>>] = Meets(x, t[n + 1])
  OBVIOUS
<1>3. b \in S
  OBVIOUS
<1>. HIDE DEF S, G
<1>4. PICK f \in [Nat -> S] : IsRecursion(f, b, G)
  BY <1>1, <1>3, RecursionExists
<1>5. f[0] = b /\ \A n \in Nat : f[n + 1] = Meets(f[n], t[n + 1])
  BY <1>2, <1>4 DEF IsRecursion
<1>6. ASSUME NEW n \in Nat
      PROVE  f[n] = IF n = 0 THEN b ELSE Meets(f[n - 1], t[n])
  <2>1. CASE n = 0
    BY <1>5, <2>1
  <2>2. CASE n # 0
    <3>1. n - 1 \in Nat /\ (n - 1) + 1 = n
      BY <2>2
    <3>. QED
      BY <1>5, <2>2, <3>1
  <2>. QED
    BY <2>1, <2>2
<1>7. f = [n \in Nat |-> IF n = 0 THEN b ELSE Meets(f[n - 1], t[n])]
  BY <1>4, <1>6
<1>8. Nesting(b, t) = CHOOSE g : g = [n \in Nat |-> IF n = 0 THEN b ELSE Meets(g[n - 1], t[n])]
  BY DEF Nesting
<1>. DEFINE h == Nesting(b, t)
<1>9. h = [n \in Nat |-> IF n = 0 THEN b ELSE Meets(h[n - 1], t[n])]
  BY <1>7, <1>8, Zenon
<1>. HIDE DEF h
<1>10. /\ h[0] = b
       /\ \A n \in Nat : h[n + 1] = Meets(h[n], t[n + 1])
  <2>1. ASSUME NEW n \in Nat
        PROVE  h[n + 1] = Meets(h[n], t[n + 1])
    <3>1. n + 1 \in Nat /\ n + 1 # 0 /\ (n + 1) - 1 = n
      OBVIOUS
    <3>. QED
      BY <1>9, <3>1
  <2>. QED
    BY <1>9, <2>1
<1>11. h \in [Nat -> S]
  <2>. DEFINE T == {n \in Nat : h[n] \in S}
  <2>1. 0 \in T
    BY <1>3, <1>10
  <2>2. ASSUME NEW n \in Nat, n \in T
        PROVE  n + 1 \in T
    <3>1. h[n] \in Seq(Marks) /\ h[n + 1] = Meets(h[n], t[n + 1])
      BY <1>10, <2>2 DEF S
    <3>2. Meets(h[n], t[n + 1]) \in Seq(Marks)
      BY <3>1, MeetsIsList
    <3>3. h[n + 1] \in S
      BY <3>1, <3>2 DEF S
    <3>. QED
      BY <3>3
  <2>. HIDE DEF T
  <2>3. Nat \subseteq T
    BY <2>1, <2>2, NatClosed
  <2>. QED
    BY <1>9, <2>3 DEF T
<1>. QED
  BY <1>10, <1>11 DEF h, S

IsNesting(h, b, t, n) == h[0] = b /\ \A i \in 0..(n - 1) : h[i + 1] = Meets(h[i], t[i + 1])

\* It is the only list of nestings that follows the tokens.
LEMMA NestingFollows ==
    ASSUME NEW b \in Seq(Marks), NEW t, NEW h, NEW n \in Nat,
           IsNesting(h, b, t, n)
    PROVE  Nesting(b, t)[n] = h[n]
<1>. DEFINE f == Nesting(b, t)
            T == {i \in Nat : i <= n => f[i] = h[i]}
<1>1. f[0] = b /\ \A i \in Nat : f[i + 1] = Meets(f[i], t[i + 1])
  BY NestingIs
<1>. HIDE DEF f
<1>5. h[0] = b /\ \A i \in 0..(n - 1) : h[i + 1] = Meets(h[i], t[i + 1])
  BY DEF IsNesting
<1>2. 0 \in T
  BY <1>1, <1>5
<1>3. ASSUME NEW i \in Nat, i \in T
      PROVE  i + 1 \in T
  <2>1. SUFFICES ASSUME i + 1 <= n PROVE f[i + 1] = h[i + 1]
    OBVIOUS
  <2>2. i \in 0..(n - 1) /\ f[i] = h[i]
    BY <1>3, <2>1
  <2>. QED
    BY <1>1, <1>5, <2>2
<1>. HIDE DEF T
<1>4. n \in T
  BY <1>2, <1>3, NatClosed
<1>. QED
  BY <1>4 DEF T, f

\* Tokens behind the n-th do not matter.
LEMMA NestingOfBeginning ==
    ASSUME NEW b \in Seq(Marks), NEW t, NEW u, NEW n \in Nat, \A i \in 1..n : t[i] = u[i]
    PROVE  Nesting(b, t)[n] = Nesting(b, u)[n]
<1>. DEFINE h == Nesting(b, u)
<1>1. h[0] = b /\ \A i \in Nat : h[i + 1] = Meets(h[i], u[i + 1])
  BY NestingIs
<1>. HIDE DEF h
<1>2. \A i \in 0..(n - 1) : h[i + 1] = Meets(h[i], t[i + 1])
  <2>. SUFFICES ASSUME NEW i \in 0..(n - 1) PROVE h[i + 1] = Meets(h[i], t[i + 1])
    OBVIOUS
  <2>1. i + 1 \in 1..n /\ i \in Nat
    OBVIOUS
  <2>. QED
    BY <1>1, <2>1
<1>3. Nesting(b, t)[n] = h[n]
  <2>1. IsNesting(h, b, t, n)
    BY <1>1, <1>2 DEF IsNesting
  <2>. QED
    BY <2>1, NestingFollows
<1>. QED
  BY <1>3 DEF h

\* One list of tokens behind another.
LEMMA NestingOfBoth ==
    ASSUME NEW b \in Seq(Marks), NEW w, NEW u, NEW t, NEW k \in Nat, NEW n \in Nat,
           \A i \in 1..k : w[i] = u[i], \A i \in 1..n : w[k + i] = t[i]
    PROVE  Nesting(b, w)[k + n] = Nesting(Nesting(b, u)[k], t)[n]
<1>. DEFINE f == Nesting(b, w)
            c == Nesting(b, u)[k]
            h == [i \in 0..n |-> f[k + i]]
<1>1. f[0] = b /\ \A i \in Nat : f[i + 1] = Meets(f[i], w[i + 1])
  BY NestingIs
<1>7. c \in Seq(Marks)
  <2>1. Nesting(b, u) \in [Nat -> Seq(Marks)]
    BY NestingIs
  <2>. QED
    BY <2>1
<1>2. f[k] = c
  BY NestingOfBeginning
<1>. HIDE DEF f, c
<1>3. \A i \in 0..n : h[i] = f[k + i]
  OBVIOUS
<1>. HIDE DEF h
<1>4. h[0] = c
  BY <1>2, <1>3
<1>5. ASSUME NEW i \in 0..(n - 1)
      PROVE  h[i + 1] = Meets(h[i], t[i + 1])
  <2>1. i + 1 \in 1..n /\ i \in 0..n /\ i + 1 \in 0..n /\ k + i \in Nat /\ k + (i + 1) = (k + i) + 1
    OBVIOUS
  <2>2. h[i + 1] = f[(k + i) + 1] /\ h[i] = f[k + i] /\ w[(k + i) + 1] = t[i + 1]
    BY <1>3, <2>1
  <2>. QED
    BY <1>1, <2>1, <2>2
<1>6. Nesting(c, t)[n] = h[n]
  <2>1. IsNesting(h, c, t, n)
    BY <1>4, <1>5 DEF IsNesting
  <2>. QED
    BY <1>7, <2>1, NestingFollows
<1>. QED
  BY <1>3, <1>6 DEF f, c
-----------------------------------------------------------------------------
\* What a list of steps does to the brackets that are open.
Brackets == {"(", "[", "{", ")", "]", "}"}
Tokens(s) == [i \in 1..Len(s) |-> TokenOf(s[i])]

LEMMA OpenIs ==
    ASSUME NEW b, NEW s
    PROVE  OpenBehind(b, s) = Nesting(b, Tokens(s))[Len(s)]
BY DEF OpenBehind, Tokens

LEMMA OpenIsList ==
    ASSUME NEW b \in Seq(Marks), NEW T, NEW s \in Seq(T)
    PROVE  OpenBehind(b, s) \in Seq(Marks)
<1>1. Nesting(b, Tokens(s)) \in [Nat -> Seq(Marks)] /\ Len(s) \in Nat
  BY NestingIs
<1>. QED
  BY <1>1, OpenIs

LEMMA OpenOfBoth ==
    ASSUME NEW b \in Seq(Marks), NEW T, NEW u \in Seq(T), NEW t \in Seq(T)
    PROVE  OpenBehind(b, u \o t) = OpenBehind(OpenBehind(b, u), t)
<1>. DEFINE w == u \o t
<1>1. /\ w \in Seq(T) /\ Len(w) = Len(u) + Len(t)
      /\ \A i \in 1..(Len(u) + Len(t)) : w[i] = IF i <= Len(u) THEN u[i] ELSE t[i - Len(u)]
  BY ConcatProperties
<1>. DEFINE k == Len(u)
            n == Len(t)
            W == Tokens(w)
            U == Tokens(u)
            V == Tokens(t)
<1>2. k \in Nat /\ n \in Nat
  OBVIOUS
<1>. HIDE DEF w
<1>3. /\ \A i \in 1..(k + n) : W[i] = TokenOf(w[i])
      /\ \A i \in 1..k : U[i] = TokenOf(u[i])
      /\ \A i \in 1..n : V[i] = TokenOf(t[i])
  BY <1>1 DEF Tokens
<1>4. \A i \in 1..k : W[i] = U[i]
  <2>. SUFFICES ASSUME NEW i \in 1..k PROVE W[i] = U[i]
    OBVIOUS
  <2>. HIDE DEF W, U, V
  <2>1. i \in 1..(k + n) /\ i <= k
    BY <1>2
  <2>. QED
    BY <1>1, <1>3, <2>1
<1>5. \A i \in 1..n : W[k + i] = V[i]
  <2>. SUFFICES ASSUME NEW i \in 1..n PROVE W[k + i] = V[i]
    OBVIOUS
  <2>. HIDE DEF W, U, V
  <2>1. k + i \in 1..(k + n) /\ ~(k + i <= k) /\ (k + i) - k = i
    BY <1>2
  <2>. QED
    BY <1>1, <1>3, <2>1
<1>. HIDE DEF W, U, V, k, n
<1>6. Nesting(b, W)[k + n] = Nesting(Nesting(b, U)[k], V)[n]
  BY <1>2, <1>4, <1>5, NestingOfBoth
<1>. QED
  BY <1>1, <1>6, OpenIs DEF W, U, V, k, n, w

LEMMA OpenOfOne ==
    ASSUME NEW b \in Seq(Marks), NEW x
    PROVE  OpenBehind(b, <<x>>) = Meets(b, TokenOf(x))
<1>. DEFINE t == Tokens(<<x>>)
<1>1. t[1] = TokenOf(x) /\ Len(<<x>>) = 1
  BY DEF Tokens
<1>. HIDE DEF t
<1>2. Nesting(b, t)[0] = b /\ Nesting(b, t)[0 + 1] = Meets(Nesting(b, t)[0], t[0 + 1])
  BY NestingIs
<1>3. Nesting(b, t)[1] = Meets(b, TokenOf(x))
  BY <1>1, <1>2
<1>4. OpenBehind(b, <<x>>) = Nesting(b, t)[1]
  BY <1>1, OpenIs, Zenon DEF t
<1>. QED
  BY <1>3, <1>4

LEMMA OpenOfTail ==
    ASSUME NEW b \in Seq(Marks), NEW T, NEW s \in Seq(T), s # <<>>
    PROVE  OpenBehind(b, s) = OpenBehind(Meets(b, TokenOf(Head(s))), Tail(s))
<1>. DEFINE a == <<Head(s)>>
            t == Tail(s)
<1>1. a \in Seq(T) /\ t \in Seq(T) /\ s = a \o t
  OBVIOUS
<1>2. OpenBehind(b, a) = Meets(b, TokenOf(Head(s)))
  BY OpenOfOne
<1>. HIDE DEF a, t
<1>3. OpenBehind(b, a \o t) = OpenBehind(OpenBehind(b, a), t)
  BY <1>1, OpenOfBoth
<1>. QED
  BY <1>1, <1>2, <1>3 DEF t

LEMMA QuietMeets ==
    ASSUME NEW b, NEW t, t \notin Brackets
    PROVE  Meets(b, t) = b
BY DEF Meets, Brackets, Opening

\* A bracket that is opened and closed leaves things as they were.
LEMMA PushPop ==
    ASSUME NEW T, NEW b \in Seq(T), NEW o \in T
    PROVE  LET c == <<o>> \o b
           IN  c \in Seq(T) /\ c # <<>> /\ Head(c) = o /\ Tail(c) = b
<1>. DEFINE a == <<o>>
            c == a \o b
            d == Tail(c)
<1>1. a \in Seq(T) /\ Len(a) = 1 /\ a[1] = o /\ Len(b) \in Nat
  OBVIOUS
<1>. HIDE DEF a
<1>2. /\ c \in Seq(T) /\ Len(c) = Len(a) + Len(b)
      /\ \A i \in 1..(Len(a) + Len(b)) : c[i] = IF i <= Len(a) THEN a[i] ELSE b[i - Len(a)]
  BY <1>1, ConcatProperties
<1>. HIDE DEF c
<1>3. c # <<>> /\ Head(c) = c[1] /\ c[1] = o
  BY <1>1, <1>2
<1>4. d \in Seq(T) /\ Len(d) = Len(b) /\ \A i \in 1..Len(b) : d[i] = c[i + 1]
  BY <1>1, <1>2, <1>3
<1>. HIDE DEF d
<1>5. \A i \in 1..Len(d) : d[i] = b[i]
  <2>. SUFFICES ASSUME NEW i \in 1..Len(d) PROVE d[i] = b[i]
    OBVIOUS
  <2>1. i + 1 \in 1..(Len(a) + Len(b)) /\ ~(i + 1 <= Len(a)) /\ (i + 1) - Len(a) = i
    BY <1>1, <1>4
  <2>. QED
    BY <1>1, <1>2, <1>4, <2>1
<1>6. d = b
  BY <1>4, <1>5, SeqEqual
<1>. QED
  BY <1>2, <1>3, <1>6 DEF c, d, a

Closes(o, c) == o \in {"(", "[", "{"} /\ c \in DOMAIN Opening /\ Opening[c] = o

LEMMA OpenClose ==
    ASSUME NEW b \in Seq(Marks), NEW o, NEW c, Closes(o, c)
    PROVE  <<o>> \o b \in Seq(Marks) /\ Meets(b, o) = <<o>> \o b /\ Meets(<<o>> \o b, c) = b
<1>1. o \in Marks
      /\ c \notin {"(", "[", "{"} /\ c \in DOMAIN Opening /\ Opening[c] = o /\ o \in {"(", "[", "{"}
  BY DEF Closes, Marks, Opening
<1>2. /\ <<o>> \o b \in Seq(Marks) /\ <<o>> \o b # <<>> /\ Head(<<o>> \o b) = o /\ Tail(<<o>> \o b) = b
  BY <1>1, PushPop
<1>. QED
  BY <1>1, <1>2 DEF Meets

LEMMA QuietKeeps ==
    ASSUME NEW b \in Seq(Marks), NEW T, NEW s \in Seq(T),
           \A i \in 1..Len(s) : TokenOf(s[i]) \notin Brackets
    PROVE  OpenBehind(b, s) = b
<1>. DEFINE h == [i \in Nat |-> b]
            n == Len(s)
            t == Tokens(s)
<1>1. n \in Nat
  OBVIOUS
<1>2. \A i \in 0..(n - 1) : t[i + 1] \notin Brackets
  BY DEF Tokens
<1>3. \A i \in Nat : h[i] = b
  OBVIOUS
<1>. HIDE DEF h, t
<1>4. IsNesting(h, b, t, n)
  BY <1>1, <1>2, <1>3, QuietMeets DEF IsNesting
<1>. HIDE DEF n
<1>5. Nesting(b, t)[n] = h[n]
  BY <1>1, <1>4, NestingFollows
<1>. QED
  BY <1>1, <1>3, <1>5, OpenIs DEF t, n

LEMMA PairKeeps ==
    ASSUME NEW b \in Seq(Marks), NEW T, NEW s \in Seq(T), NEW l \in 1..Len(s), NEW r \in 1..Len(s),
           l < r,
           Closes(TokenOf(s[l]), TokenOf(s[r])),
           \A i \in 1..Len(s) : i # l /\ i # r => TokenOf(s[i]) \notin Brackets
    PROVE  OpenBehind(b, s) = b
<1>. DEFINE o == TokenOf(s[l])
            c == <<o>> \o b
            h == [i \in Nat |-> IF l <= i /\ i < r THEN c ELSE b]
            n == Len(s)
            t == Tokens(s)
<1>1. n \in Nat /\ l \in 1..n /\ r \in 1..n
  OBVIOUS
<1>2. \A i \in 1..n : t[i] = TokenOf(s[i])
  BY DEF Tokens
<1>3. Meets(b, o) = c /\ Meets(c, t[r]) = b
  BY <1>2, OpenClose
<1>4. \A i \in Nat : h[i] = IF l <= i /\ i < r THEN c ELSE b
  OBVIOUS
<1>. HIDE DEF h, t, c
<1>5. ASSUME NEW i \in 0..(n - 1)
      PROVE  h[i + 1] = Meets(h[i], t[i + 1])
  <2>1. i + 1 \in 1..n /\ i \in Nat
    BY <1>1
  <2>2. CASE i + 1 = l
    BY <1>1, <1>2, <1>3, <1>4, <2>1, <2>2
  <2>3. CASE i + 1 = r
    BY <1>1, <1>3, <1>4, <2>1, <2>3
  <2>4. CASE i + 1 # l /\ i + 1 # r
    <3>1. t[i + 1] \notin Brackets
      BY <1>2, <2>1, <2>4
    <3>2. h[i + 1] = h[i]
      BY <1>1, <1>4, <2>1, <2>4
    <3>. QED
      BY <3>1, <3>2, QuietMeets
  <2>. QED
    BY <2>2, <2>3, <2>4
<1>6. h[0] = b /\ h[n] = b
  BY <1>1, <1>4
<1>7. IsNesting(h, b, t, n)
  BY <1>5, <1>6 DEF IsNesting
<1>. HIDE DEF n
<1>8. Nesting(b, t)[n] = h[n]
  BY <1>1, <1>7, NestingFollows
<1>. QED
  BY <1>6, <1>8, OpenIs DEF t, n

\* A list of steps that only closes a bracket.
LEMMA CloseKeeps ==
    ASSUME NEW b \in Seq(Marks), NEW T, NEW s \in Seq(T), NEW r \in 1..Len(s), NEW o,
           Closes(o, TokenOf(s[r])),
           \A i \in 1..Len(s) : i # r => TokenOf(s[i]) \notin Brackets
    PROVE  OpenBehind(Meets(b, o), s) = b
<1>. DEFINE c == <<o>> \o b
            h == [i \in Nat |-> IF i < r THEN c ELSE b]
            n == Len(s)
            t == Tokens(s)
<1>1. n \in Nat /\ r \in 1..n
  OBVIOUS
<1>2. \A i \in 1..n : t[i] = TokenOf(s[i])
  BY DEF Tokens
<1>3. Meets(b, o) = c /\ Meets(c, t[r]) = b /\ c \in Seq(Marks)
  BY <1>2, OpenClose
<1>4. \A i \in Nat : h[i] = IF i < r THEN c ELSE b
  OBVIOUS
<1>. HIDE DEF h, t, c
<1>5. ASSUME NEW i \in 0..(n - 1)
      PROVE  h[i + 1] = Meets(h[i], t[i + 1])
  <2>1. i + 1 \in 1..n /\ i \in Nat
    BY <1>1
  <2>2. CASE i + 1 = r
    <3>1. r \in Nat /\ i < r /\ ~(i + 1 < r)
      BY <1>1, <2>1, <2>2
    <3>2. h[i] = c /\ h[i + 1] = b
      BY <1>4, <2>1, <3>1
    <3>. QED
      BY <1>3, <2>2, <3>2, Zenon
  <2>3. CASE i + 1 # r
    <3>1. t[i + 1] \notin Brackets
      BY <1>2, <2>1, <2>3
    <3>2. h[i + 1] = h[i]
      BY <1>1, <1>4, <2>1, <2>3
    <3>. QED
      BY <3>1, <3>2, QuietMeets
  <2>. QED
    BY <2>2, <2>3
<1>6. h[0] = c /\ h[n] = b
  BY <1>1, <1>4
<1>7. IsNesting(h, c, t, n)
  BY <1>5, <1>6 DEF IsNesting
<1>. HIDE DEF n
<1>8. Nesting(c, t)[n] = h[n]
  BY <1>1, <1>3, <1>7, NestingFollows
<1>. QED
  BY <1>3, <1>6, <1>8, OpenIs DEF t, n
-----------------------------------------------------------------------------
\* The steps.
QuietSteps == {x \in Steps : TokenOf(x) \notin Brackets /\ x.do # "synchronizeIfNull"}

LEMMA ItemIs ==
    ASSUME NEW a, NEW b, NEW c, NEW d
    PROVE  /\ Item(a, b, c, d).do = a /\ Item(a, b, c, d).on = b
           /\ Item(a, b, c, d).run = c /\ Item(a, b, c, d).kind = d
BY DEF Item

LEMMA ConsumeIs ==
    ASSUME NEW t
    PROVE  /\ Consume(t).do = "consume" /\ Consume(t).on = {t} /\ Consume(t).run = <<>>
           /\ TokenOf(Consume(t)) = t
<1>1. Consume(t).do = "consume" /\ Consume(t).on = {t} /\ Consume(t).run = <<>>
  BY Zenon DEF Consume, Item
<1>2. (CHOOSE x \in {t} : TRUE) = t
  OBVIOUS
<1>. QED
  BY <1>1, <1>2 DEF TokenOf

LEMMA OtherToken ==
    ASSUME NEW x, x.do # "consume"
    PROVE  TokenOf(x) = "none" /\ TokenOf(x) \notin Brackets
<1>1. "none" \notin Brackets
  BY Zenon DEF Brackets
<1>. QED
  BY <1>1 DEF TokenOf

LEMMA ConsumeStep ==
    ASSUME NEW t \in Terminals
    PROVE  Consume(t) \in Steps /\ (t \notin Brackets => Consume(t) \in QuietSteps)
<1>1. Consume(t) \in Steps
  BY Zenon DEF Steps, Atomic
<1>. QED
  BY <1>1, ConsumeIs DEF QuietSteps

LEMMA CallStep ==
    ASSUME NEW f \in Names
    PROVE  /\ Call(f) \in Steps /\ Call(f) \in QuietSteps
           /\ Call(f).do = "call" /\ Call(f).kind = f /\ Call(f).run = <<>>
<1>1. Call(f) \in Steps
  BY Zenon DEF Steps, Atomic
<1>2. Call(f).do = "call" /\ Call(f).kind = f /\ Call(f).run = <<>>
  BY ItemIs DEF Call
<1>. QED
  BY <1>1, <1>2, OtherToken DEF QuietSteps

LEMMA MakeStep ==
    ASSUME NEW k \in NodeKinds
    PROVE  /\ Make(k) \in Steps /\ Make(k) \in QuietSteps
           /\ Make(k).do = "make" /\ Make(k).kind = k /\ Make(k).run = <<>>
<1>1. Make(k) \in Steps
  BY Zenon DEF Steps, Atomic
<1>2. Make(k).do = "make" /\ Make(k).kind = k /\ Make(k).run = <<>>
  BY ItemIs DEF Make
<1>. QED
  BY <1>1, <1>2, OtherToken DEF QuietSteps

LEMMA ActStep ==
    ASSUME NEW a \in {"assignment", "fault", "missing", "synchronizeIfNull"}
    PROVE  /\ Act(a) \in Steps /\ Act(a).do = a /\ Act(a).run = <<>>
           /\ a # "synchronizeIfNull" => Act(a) \in QuietSteps
<1>1. Act(a) \in Steps
  BY Zenon DEF Steps, Atomic
<1>2. Act(a).do = a /\ Act(a).run = <<>>
  BY Zenon DEF Act, Item
<1>. QED
  BY <1>1, <1>2, OtherToken DEF QuietSteps

LEMMA AssignToStep ==
    ASSUME NEW k \in NodeKinds \cup {"null"}
    PROVE  Item("assignTo", {}, <<>>, k) \in QuietSteps
<1>1. Item("assignTo", {}, <<>>, k) \in Steps
  BY Zenon DEF Steps, Atomic
<1>2. Item("assignTo", {}, <<>>, k).do = "assignTo"
  BY ItemIs
<1>. QED
  BY <1>1, <1>2, OtherToken DEF QuietSteps

LEMMA TestsAre ==
    /\ "consume" \notin Tests /\ "synchronizeIfNull" \notin Tests
    /\ "make" \notin Tests /\ "call" \notin Tests /\ "missing" \notin Tests /\ "fault" \notin Tests
BY DEF Tests

LEMMA WhenIs ==
    ASSUME NEW on, NEW run
    PROVE  When(on, run).do = "when" /\ When(on, run).on = on /\ When(on, run).run = run
BY Zenon DEF When, Item

LEMMA LoopIs ==
    ASSUME NEW on, NEW run
    PROVE  Loop(on, run).do = "loop" /\ Loop(on, run).on = on /\ Loop(on, run).run = run
BY Zenon DEF Loop, Item

LEMMA OperatorsIs ==
    ASSUME NEW on, NEW run
    PROVE  Operators(on, run).do = "operators" /\ Operators(on, run).on = on
           /\ Operators(on, run).run = run
BY Zenon DEF Operators, Item

LEMMA UntilIs ==
    ASSUME NEW on, NEW run
    PROVE  Until(on, run).do = "until" /\ Until(on, run).on = on /\ Until(on, run).run = run
BY Zenon DEF Until, Item

LEMMA ProgramIs ==
    /\ Program.do = "until" /\ Program.on = {}
    /\ Program.run = <<Call("declaration"), Act("synchronizeIfNull")>>
BY Zenon DEF Program, Until, Item

LEMMA UnlessIs ==
    ASSUME NEW t, NEW run
    PROVE  Unless(t, run).do = "unless" /\ Unless(t, run).run = run
BY Zenon DEF Unless, Item

\* A list of steps that leaves the brackets as they are, and does not resynchronize.
Fine(run) ==
    /\ run \in Seq(Steps)
    /\ \A b \in Seq(Marks) : OpenBehind(b, run) = b
    /\ \A i \in 1..Len(run) : run[i].do # "synchronizeIfNull"

Makes(run) == \E i \in 1..Len(run) : Maker(run[i])

LEMMA QuietIsFine ==
    ASSUME NEW run \in Seq(QuietSteps)
    PROVE  Fine(run)
<1>1. run \in Seq(Steps)
  BY DEF QuietSteps
<1>2. ASSUME NEW i \in 1..Len(run)
      PROVE  TokenOf(run[i]) \notin Brackets /\ run[i].do # "synchronizeIfNull"
  <2>1. run[i] \in QuietSteps
    OBVIOUS
  <2>. QED
    BY <2>1 DEF QuietSteps
<1>3. ASSUME NEW b \in Seq(Marks)
      PROVE  OpenBehind(b, run) = b
  BY <1>1, <1>2, QuietKeeps
<1>. QED
  BY <1>1, <1>2, <1>3 DEF Fine

LEMMA BothAreFine ==
    ASSUME NEW a, NEW b, Fine(a), Fine(b)
    PROVE  Fine(a \o b) /\ (Makes(a) \/ Makes(b) => Makes(a \o b))
<1>. DEFINE c == a \o b
<1>1. a \in Seq(Steps) /\ b \in Seq(Steps) /\ Len(a) \in Nat /\ Len(b) \in Nat
  BY DEF Fine
<1>2. /\ c \in Seq(Steps) /\ Len(c) = Len(a) + Len(b)
      /\ \A i \in 1..(Len(a) + Len(b)) : c[i] = IF i <= Len(a) THEN a[i] ELSE b[i - Len(a)]
  BY <1>1, ConcatProperties
<1>3. ASSUME NEW d \in Seq(Marks)
      PROVE  OpenBehind(d, c) = d
  <2>1. OpenBehind(d, c) = OpenBehind(OpenBehind(d, a), b)
    BY <1>1, OpenOfBoth
  <2>. QED
    BY <2>1 DEF Fine
<1>. HIDE DEF c
<1>4. ASSUME NEW i \in 1..Len(c)
      PROVE  c[i].do # "synchronizeIfNull"
  <2>1. CASE i <= Len(a)
    BY <1>1, <1>2, <2>1 DEF Fine
  <2>2. CASE ~(i <= Len(a))
    <3>1. i - Len(a) \in 1..Len(b) /\ c[i] = b[i - Len(a)]
      BY <1>1, <1>2, <2>2
    <3>. QED
      BY <3>1 DEF Fine
  <2>. QED
    BY <2>1, <2>2
<1>5. ASSUME Makes(a)
      PROVE  Makes(c)
  <2>1. PICK i \in 1..Len(a) : Maker(a[i])
    BY <1>5 DEF Makes
  <2>2. i \in 1..Len(c) /\ c[i] = a[i]
    BY <1>1, <1>2
  <2>. QED
    BY <2>1, <2>2 DEF Makes
<1>6. ASSUME Makes(b)
      PROVE  Makes(c)
  <2>1. PICK i \in 1..Len(b) : Maker(b[i])
    BY <1>6 DEF Makes
  <2>3. /\ Len(a) + i \in 1..(Len(a) + Len(b)) /\ ~(Len(a) + i <= Len(a))
        /\ (Len(a) + i) - Len(a) = i
    BY <1>1
  <2>2. Len(a) + i \in 1..Len(c) /\ c[Len(a) + i] = b[i]
    BY <1>2, <2>3
  <2>. QED
    BY <2>1, <2>2 DEF Makes
<1>. QED
  BY <1>2, <1>3, <1>4, <1>5, <1>6 DEF Fine, c

\* A list of steps with one pair of brackets.
LEMMA PairIsFine ==
    ASSUME NEW run \in Seq(Steps), NEW l \in 1..Len(run), NEW r \in 1..Len(run), l < r,
           NEW o, NEW c, Closes(o, c), run[l] = Consume(o), run[r] = Consume(c),
           \A i \in 1..Len(run) : i # l /\ i # r => run[i] \in QuietSteps
    PROVE  Fine(run)
<1>1. TokenOf(run[l]) = o /\ TokenOf(run[r]) = c
  BY ConsumeIs
<1>2. ASSUME NEW i \in 1..Len(run), i # l, i # r
      PROVE  TokenOf(run[i]) \notin Brackets /\ run[i].do # "synchronizeIfNull"
  BY <1>2 DEF QuietSteps
<1>3. ASSUME NEW b \in Seq(Marks)
      PROVE  OpenBehind(b, run) = b
  BY <1>1, <1>2, PairKeeps
<1>4. run[l].do # "synchronizeIfNull" /\ run[r].do # "synchronizeIfNull"
  BY ConsumeIs
<1>. QED
  BY <1>2, <1>3, <1>4 DEF Fine
-----------------------------------------------------------------------------
\* Lists of a few steps.
LEMMA Fine0 == Fine(<<>>)
<1>1. <<>> \in Seq(QuietSteps)
  OBVIOUS
<1>. QED
  BY <1>1, QuietIsFine

LEMMA Fine1 ==
    ASSUME NEW a \in QuietSteps
    PROVE  Fine(<<a>>) /\ (Maker(a) => Makes(<<a>>))
<1>1. <<a>> \in Seq(QuietSteps)
  OBVIOUS
<1>2. Maker(a) => Makes(<<a>>)
  BY DEF Makes
<1>. QED
  BY <1>1, <1>2, QuietIsFine

LEMMA Fine2 ==
    ASSUME NEW a \in QuietSteps, NEW b \in QuietSteps
    PROVE  Fine(<<a, b>>) /\ (Maker(a) \/ Maker(b) => Makes(<<a, b>>))
<1>1. <<a, b>> \in Seq(QuietSteps)
  OBVIOUS
<1>2. Maker(a) \/ Maker(b) => Makes(<<a, b>>)
  BY DEF Makes
<1>. QED
  BY <1>1, <1>2, QuietIsFine

LEMMA Fine3 ==
    ASSUME NEW a \in QuietSteps, NEW b \in QuietSteps, NEW c \in QuietSteps
    PROVE  Fine(<<a, b, c>>) /\ (Maker(a) \/ Maker(b) \/ Maker(c) => Makes(<<a, b, c>>))
<1>1. <<a, b, c>> \in Seq(QuietSteps)
  OBVIOUS
<1>2. Maker(a) \/ Maker(b) \/ Maker(c) => Makes(<<a, b, c>>)
  BY DEF Makes
<1>. QED
  BY <1>1, <1>2, QuietIsFine

LEMMA Fine4 ==
    ASSUME NEW a \in QuietSteps, NEW b \in QuietSteps, NEW c \in QuietSteps, NEW d \in QuietSteps
    PROVE  Fine(<<a, b, c, d>>)
           /\ (Maker(a) \/ Maker(b) \/ Maker(c) \/ Maker(d) => Makes(<<a, b, c, d>>))
<1>1. <<a, b, c, d>> \in Seq(QuietSteps)
  OBVIOUS
<1>2. Maker(a) \/ Maker(b) \/ Maker(c) \/ Maker(d) => Makes(<<a, b, c, d>>)
  BY DEF Makes
<1>. QED
  BY <1>1, <1>2, QuietIsFine

LEMMA Fine5 ==
    ASSUME NEW a \in QuietSteps, NEW b \in QuietSteps, NEW c \in QuietSteps, NEW d \in QuietSteps,
           NEW e \in QuietSteps
    PROVE  Fine(<<a, b, c, d, e>>)
           /\ (Maker(a) \/ Maker(b) \/ Maker(c) \/ Maker(d) \/ Maker(e) => Makes(<<a, b, c, d, e>>))
<1>1. <<a, b, c, d, e>> \in Seq(QuietSteps)
  OBVIOUS
<1>2. Maker(a) \/ Maker(b) \/ Maker(c) \/ Maker(d) \/ Maker(e) => Makes(<<a, b, c, d, e>>)
  BY DEF Makes
<1>. QED
  BY <1>1, <1>2, QuietIsFine

\* The same with a pair of brackets.
IsPair(o, c) ==
    /\ o \in Steps /\ c \in Steps
    /\ Closes(TokenOf(o), TokenOf(c)) /\ o = Consume(TokenOf(o)) /\ c = Consume(TokenOf(c))

LEMMA Pair13of3 ==
    ASSUME NEW o, NEW c, IsPair(o, c), NEW p \in QuietSteps
    PROVE  Fine(<<o, p, c>>)
<1>. DEFINE run == <<o, p, c>>
<1>1. run \in Seq(Steps) /\ Len(run) = 3 /\ run[1] = o /\ run[3] = c
  BY DEF QuietSteps, IsPair
<1>2. ASSUME NEW i \in 1..3, i # 1, i # 3
      PROVE  run[i] \in QuietSteps
  BY <1>2
<1>. HIDE DEF run
<1>4. Fine(run)
  <2>1. 1 \in 1..Len(run) /\ 3 \in 1..Len(run) /\ 1 < 3
    BY <1>1
  <2>2. \A i \in 1..Len(run) : i # 1 /\ i # 3 => run[i] \in QuietSteps
    BY <1>1, <1>2
  <2>. QED
    BY <1>1, <2>1, <2>2, PairIsFine DEF IsPair
<1>. QED
  BY <1>4 DEF run

LEMMA Pair13of4 ==
    ASSUME NEW o, NEW c, IsPair(o, c), NEW p \in QuietSteps, NEW q \in QuietSteps
    PROVE  Fine(<<o, p, c, q>>) /\ (Maker(q) => Makes(<<o, p, c, q>>))
<1>. DEFINE run == <<o, p, c, q>>
<1>1. run \in Seq(Steps) /\ Len(run) = 4 /\ run[1] = o /\ run[3] = c
  BY DEF QuietSteps, IsPair
<1>2. ASSUME NEW i \in 1..4, i # 1, i # 3
      PROVE  run[i] \in QuietSteps
  BY <1>2
<1>3. run[4] = q
  OBVIOUS
<1>. HIDE DEF run
<1>4. Fine(run)
  <2>1. 1 \in 1..Len(run) /\ 3 \in 1..Len(run) /\ 1 < 3
    BY <1>1
  <2>2. \A i \in 1..Len(run) : i # 1 /\ i # 3 => run[i] \in QuietSteps
    BY <1>1, <1>2
  <2>. QED
    BY <1>1, <2>1, <2>2, PairIsFine DEF IsPair
<1>5. Maker(q) => Makes(run)
  <2>1. 4 \in 1..Len(run)
    BY <1>1
  <2>. QED
    BY <1>3, <2>1 DEF Makes
<1>. QED
  BY <1>4, <1>5 DEF run

LEMMA Pair13of5 ==
    ASSUME NEW o, NEW c, IsPair(o, c), NEW p \in QuietSteps, NEW q \in QuietSteps, NEW s \in QuietSteps
    PROVE  Fine(<<o, p, c, q, s>>) /\ (Maker(s) => Makes(<<o, p, c, q, s>>))
<1>. DEFINE run == <<o, p, c, q, s>>
<1>1. run \in Seq(Steps) /\ Len(run) = 5 /\ run[1] = o /\ run[3] = c
  BY DEF QuietSteps, IsPair
<1>2. ASSUME NEW i \in 1..5, i # 1, i # 3
      PROVE  run[i] \in QuietSteps
  BY <1>2
<1>3. run[5] = s
  OBVIOUS
<1>. HIDE DEF run
<1>4. Fine(run)
  <2>1. 1 \in 1..Len(run) /\ 3 \in 1..Len(run) /\ 1 < 3
    BY <1>1
  <2>2. \A i \in 1..Len(run) : i # 1 /\ i # 3 => run[i] \in QuietSteps
    BY <1>1, <1>2
  <2>. QED
    BY <1>1, <2>1, <2>2, PairIsFine DEF IsPair
<1>5. Maker(s) => Makes(run)
  <2>1. 5 \in 1..Len(run)
    BY <1>1
  <2>. QED
    BY <1>3, <2>1 DEF Makes
<1>. QED
  BY <1>4, <1>5 DEF run

LEMMA Pair13of6 ==
    ASSUME NEW o, NEW c, IsPair(o, c), NEW p \in QuietSteps, NEW q \in QuietSteps,
           NEW s \in QuietSteps, NEW t \in QuietSteps
    PROVE  Fine(<<o, p, c, q, s, t>>) /\ (Maker(t) => Makes(<<o, p, c, q, s, t>>))
<1>. DEFINE run == <<o, p, c, q, s, t>>
<1>1. run \in Seq(Steps) /\ Len(run) = 6 /\ run[1] = o /\ run[3] = c
  BY DEF QuietSteps, IsPair
<1>2. ASSUME NEW i \in 1..6, i # 1, i # 3
      PROVE  run[i] \in QuietSteps
  BY <1>2
<1>3. run[6] = t
  OBVIOUS
<1>. HIDE DEF run
<1>4. Fine(run)
  <2>1. 1 \in 1..Len(run) /\ 3 \in 1..Len(run) /\ 1 < 3
    BY <1>1
  <2>2. \A i \in 1..Len(run) : i # 1 /\ i # 3 => run[i] \in QuietSteps
    BY <1>1, <1>2
  <2>. QED
    BY <1>1, <2>1, <2>2, PairIsFine DEF IsPair
<1>5. Maker(t) => Makes(run)
  <2>1. 6 \in 1..Len(run)
    BY <1>1
  <2>. QED
    BY <1>3, <2>1 DEF Makes
<1>. QED
  BY <1>4, <1>5 DEF run

LEMMA Pair24of5 ==
    ASSUME NEW o, NEW c, IsPair(o, c), NEW p \in QuietSteps, NEW q \in QuietSteps, NEW s \in QuietSteps
    PROVE  Fine(<<p, o, q, c, s>>) /\ (Maker(s) => Makes(<<p, o, q, c, s>>))
<1>. DEFINE run == <<p, o, q, c, s>>
<1>1. run \in Seq(Steps) /\ Len(run) = 5 /\ run[2] = o /\ run[4] = c
  BY DEF QuietSteps, IsPair
<1>2. ASSUME NEW i \in 1..5, i # 2, i # 4
      PROVE  run[i] \in QuietSteps
  BY <1>2
<1>3. run[5] = s
  OBVIOUS
<1>. HIDE DEF run
<1>4. Fine(run)
  <2>1. 2 \in 1..Len(run) /\ 4 \in 1..Len(run) /\ 2 < 4
    BY <1>1
  <2>2. \A i \in 1..Len(run) : i # 2 /\ i # 4 => run[i] \in QuietSteps
    BY <1>1, <1>2
  <2>. QED
    BY <1>1, <2>1, <2>2, PairIsFine DEF IsPair
<1>5. Maker(s) => Makes(run)
  <2>1. 5 \in 1..Len(run)
    BY <1>1
  <2>. QED
    BY <1>3, <2>1 DEF Makes
<1>. QED
  BY <1>4, <1>5 DEF run

LEMMA Pair24of7 ==
    ASSUME NEW o, NEW c, IsPair(o, c), NEW p \in QuietSteps, NEW q \in QuietSteps,
           NEW s \in QuietSteps, NEW t \in QuietSteps, NEW u \in QuietSteps
    PROVE  Fine(<<p, o, q, c, s, t, u>>) /\ (Maker(u) => Makes(<<p, o, q, c, s, t, u>>))
<1>. DEFINE run == <<p, o, q, c, s, t, u>>
<1>1. run \in Seq(Steps) /\ Len(run) = 7 /\ run[2] = o /\ run[4] = c
  BY DEF QuietSteps, IsPair
<1>2. ASSUME NEW i \in 1..7, i # 2, i # 4
      PROVE  run[i] \in QuietSteps
  BY <1>2
<1>3. run[7] = u
  OBVIOUS
<1>. HIDE DEF run
<1>4. Fine(run)
  <2>1. 2 \in 1..Len(run) /\ 4 \in 1..Len(run) /\ 2 < 4
    BY <1>1
  <2>2. \A i \in 1..Len(run) : i # 2 /\ i # 4 => run[i] \in QuietSteps
    BY <1>1, <1>2
  <2>. QED
    BY <1>1, <2>1, <2>2, PairIsFine DEF IsPair
<1>5. Maker(u) => Makes(run)
  <2>1. 7 \in 1..Len(run)
    BY <1>1
  <2>. QED
    BY <1>3, <2>1 DEF Makes
<1>. QED
  BY <1>4, <1>5 DEF run

LEMMA Pair16of8 ==
    ASSUME NEW o, NEW c, IsPair(o, c), NEW p \in QuietSteps, NEW q \in QuietSteps,
           NEW s \in QuietSteps, NEW t \in QuietSteps, NEW u \in QuietSteps, NEW v \in QuietSteps
    PROVE  Fine(<<o, p, q, s, t, c, u, v>>) /\ (Maker(v) => Makes(<<o, p, q, s, t, c, u, v>>))
<1>. DEFINE run == <<o, p, q, s, t, c, u, v>>
<1>1. run \in Seq(Steps) /\ Len(run) = 8 /\ run[1] = o /\ run[6] = c
  BY DEF QuietSteps, IsPair
<1>2. ASSUME NEW i \in 1..8, i # 1, i # 6
      PROVE  run[i] \in QuietSteps
  BY <1>2
<1>3. run[8] = v
  OBVIOUS
<1>. HIDE DEF run
<1>4. Fine(run)
  <2>1. 1 \in 1..Len(run) /\ 6 \in 1..Len(run) /\ 1 < 6
    BY <1>1
  <2>2. \A i \in 1..Len(run) : i # 1 /\ i # 6 => run[i] \in QuietSteps
    BY <1>1, <1>2
  <2>. QED
    BY <1>1, <2>1, <2>2, PairIsFine DEF IsPair
<1>5. Maker(v) => Makes(run)
  <2>1. 8 \in 1..Len(run)
    BY <1>1
  <2>. QED
    BY <1>3, <2>1 DEF Makes
<1>. QED
  BY <1>4, <1>5 DEF run

-----------------------------------------------------------------------------
\* The steps the functions are made of.
LEMMA TokenSteps ==
    /\ \A t \in BuiltinTypes \cup {"void"} \cup Literals \cup {"!", "-"} : Consume(t) \in QuietSteps
    /\ Consume("fn") \in QuietSteps
    /\ Consume("if") \in QuietSteps
    /\ Consume("match") \in QuietSteps
    /\ Consume("loop") \in QuietSteps
    /\ Consume("while") \in QuietSteps
    /\ Consume("for") \in QuietSteps
    /\ Consume("return") \in QuietSteps
    /\ Consume("print") \in QuietSteps
    /\ Consume("id") \in QuietSteps
    /\ Consume("_") \in QuietSteps
    /\ Consume("part") \in QuietSteps
    /\ Consume("end") \in QuietSteps
    /\ Consume(",") \in QuietSteps
    /\ Consume(";") \in QuietSteps
    /\ Consume(":") \in QuietSteps
    /\ Consume(".") \in QuietSteps
    /\ Consume("!") \in QuietSteps
    /\ Consume("-") \in QuietSteps
    /\ Consume("->") \in QuietSteps
<1>1. ASSUME NEW t \in Terminals \ Brackets
      PROVE  Consume(t) \in QuietSteps
  BY ConsumeStep
<1>2. ASSUME NEW t \in BuiltinTypes \cup {"void"} \cup Literals \cup {"!", "-"}
      PROVE  t \in Terminals \ Brackets
  BY Zenon DEF BuiltinTypes, Literals, Terminals, Brackets
<1>3. "fn" \in Terminals \ Brackets
  BY Zenon DEF Terminals, Brackets
<1>4. "if" \in Terminals \ Brackets
  BY Zenon DEF Terminals, Brackets
<1>5. "match" \in Terminals \ Brackets
  BY Zenon DEF Terminals, Brackets
<1>6. "loop" \in Terminals \ Brackets
  BY Zenon DEF Terminals, Brackets
<1>7. "while" \in Terminals \ Brackets
  BY Zenon DEF Terminals, Brackets
<1>8. "for" \in Terminals \ Brackets
  BY Zenon DEF Terminals, Brackets
<1>9. "return" \in Terminals \ Brackets
  BY Zenon DEF Terminals, Brackets
<1>10. "print" \in Terminals \ Brackets
  BY Zenon DEF Terminals, Brackets
<1>11. "id" \in Terminals \ Brackets
  BY Zenon DEF Terminals, Brackets
<1>12. "_" \in Terminals \ Brackets
  BY Zenon DEF Terminals, Brackets
<1>13. "part" \in Terminals \ Brackets
  BY Zenon DEF Terminals, Brackets
<1>14. "end" \in Terminals \ Brackets
  BY Zenon DEF Terminals, Brackets
<1>15. "," \in Terminals \ Brackets
  BY Zenon DEF Terminals, Brackets
<1>16. ";" \in Terminals \ Brackets
  BY Zenon DEF Terminals, Brackets
<1>17. ":" \in Terminals \ Brackets
  BY Zenon DEF Terminals, Brackets
<1>18. "." \in Terminals \ Brackets
  BY Zenon DEF Terminals, Brackets
<1>19. "!" \in Terminals \ Brackets
  BY Zenon DEF Terminals, Brackets
<1>20. "-" \in Terminals \ Brackets
  BY Zenon DEF Terminals, Brackets
<1>21. "->" \in Terminals \ Brackets
  BY Zenon DEF Terminals, Brackets
<1>. QED
  BY <1>1, <1>2, <1>3, <1>4, <1>5, <1>6, <1>7, <1>8, <1>9, <1>10, <1>11, <1>12, <1>13, <1>14, <1>15,
     <1>16, <1>17, <1>18, <1>19, <1>20, <1>21, Zenon

LEMMA PairSteps ==
    /\ IsPair(Consume("("), Consume(")")) /\ IsPair(Consume("["), Consume("]"))
    /\ IsPair(Consume("{"), Consume("}"))
<1>1. ASSUME NEW x \in Terminals, NEW y \in Terminals, Closes(x, y)
      PROVE  IsPair(Consume(x), Consume(y))
  BY <1>1, ConsumeStep, ConsumeIs DEF IsPair
<1>2. Closes("(", ")") /\ "(" \in Terminals /\ ")" \in Terminals
  BY Zenon DEF Closes, Opening, Terminals
<1>3. Closes("[", "]") /\ "[" \in Terminals /\ "]" \in Terminals
  BY Zenon DEF Closes, Opening, Terminals
<1>4. Closes("{", "}") /\ "{" \in Terminals /\ "}" \in Terminals
  BY Zenon DEF Closes, Opening, Terminals
<1>. QED
  BY <1>1, <1>2, <1>3, <1>4, Zenon

LEMMA CallSteps ==
    /\ \A f \in {Levels[l] : l \in 1..6} : Call(f) \in QuietSteps /\ Maker(Call(f))
    /\ Call("declaration") \in QuietSteps
    /\ Call("variable") \in QuietSteps
    /\ Call("function") \in QuietSteps
    /\ Call("statement") \in QuietSteps
    /\ Call("block") \in QuietSteps
    /\ Call("if") \in QuietSteps
    /\ Call("else") \in QuietSteps
    /\ Call("forInit") \in QuietSteps
    /\ Call("pattern") \in QuietSteps
    /\ Call("type") \in QuietSteps
    /\ Call("typeAfterFn") \in QuietSteps
    /\ Call("expression") \in QuietSteps
    /\ Call("unary") \in QuietSteps
    /\ Call("primary") \in QuietSteps
    /\ Call("postfix") \in QuietSteps
    /\ Call("afterIdentifier") \in QuietSteps
    /\ Call("nextPart") \in QuietSteps
    /\ Call("lambdaParameter") \in QuietSteps
    /\ Call("lambdaType") \in QuietSteps
    /\ Call("lambdaBody") \in QuietSteps
    /\ Maker(Call("declaration"))
    /\ Maker(Call("variable"))
    /\ Maker(Call("function"))
    /\ Maker(Call("statement"))
    /\ Maker(Call("block"))
    /\ Maker(Call("if"))
    /\ Maker(Call("else"))
    /\ Maker(Call("type"))
    /\ Maker(Call("typeAfterFn"))
    /\ Maker(Call("expression"))
    /\ Maker(Call("unary"))
    /\ Maker(Call("primary"))
    /\ Maker(Call("afterIdentifier"))
    /\ Maker(Call("nextPart"))
    /\ Maker(Call("lambdaBody"))
<1>1. ASSUME NEW f \in Names
      PROVE  /\ Call(f) \in QuietSteps
             /\ f \notin {"postfix", "lambdaType", "lambdaParameter", "forInit", "pattern"} => Maker(Call(f))
  BY CallStep DEF Maker
<1>2. {Levels[l] : l \in 1..6} = {"or", "and", "equality", "comparison", "term", "factor"}
  BY DEF Levels
<1>3. \A f \in {"or", "and", "equality", "comparison", "term", "factor"} :
         f \in Names /\ f \notin {"postfix", "lambdaType", "lambdaParameter", "forInit", "pattern"}
  BY DEF Names
<1>4. "declaration" \in Names
      /\ "declaration" \notin {"postfix", "lambdaType", "lambdaParameter", "forInit", "pattern"}
  BY DEF Names
<1>5. "variable" \in Names
      /\ "variable" \notin {"postfix", "lambdaType", "lambdaParameter", "forInit", "pattern"}
  BY DEF Names
<1>6. "function" \in Names
      /\ "function" \notin {"postfix", "lambdaType", "lambdaParameter", "forInit", "pattern"}
  BY DEF Names
<1>7. "statement" \in Names
      /\ "statement" \notin {"postfix", "lambdaType", "lambdaParameter", "forInit", "pattern"}
  BY DEF Names
<1>8. "block" \in Names
      /\ "block" \notin {"postfix", "lambdaType", "lambdaParameter", "forInit", "pattern"}
  BY DEF Names
<1>9. "if" \in Names /\ "if" \notin {"postfix", "lambdaType", "lambdaParameter", "forInit", "pattern"}
  BY DEF Names
<1>10. "else" \in Names
       /\ "else" \notin {"postfix", "lambdaType", "lambdaParameter", "forInit", "pattern"}
  BY DEF Names
<1>11. "forInit" \in Names
  BY DEF Names
<1>12. "pattern" \in Names
  BY DEF Names
<1>13. "type" \in Names
       /\ "type" \notin {"postfix", "lambdaType", "lambdaParameter", "forInit", "pattern"}
  BY DEF Names
<1>14. "typeAfterFn" \in Names
       /\ "typeAfterFn" \notin {"postfix", "lambdaType", "lambdaParameter", "forInit", "pattern"}
  BY DEF Names
<1>15. "expression" \in Names
       /\ "expression" \notin {"postfix", "lambdaType", "lambdaParameter", "forInit", "pattern"}
  BY DEF Names
<1>16. "unary" \in Names
       /\ "unary" \notin {"postfix", "lambdaType", "lambdaParameter", "forInit", "pattern"}
  BY DEF Names
<1>17. "primary" \in Names
       /\ "primary" \notin {"postfix", "lambdaType", "lambdaParameter", "forInit", "pattern"}
  BY DEF Names
<1>18. "postfix" \in Names
  BY DEF Names
<1>19. "afterIdentifier" \in Names
       /\ "afterIdentifier" \notin {"postfix", "lambdaType", "lambdaParameter", "forInit", "pattern"}
  BY DEF Names
<1>20. "nextPart" \in Names
       /\ "nextPart" \notin {"postfix", "lambdaType", "lambdaParameter", "forInit", "pattern"}
  BY DEF Names
<1>21. "lambdaParameter" \in Names
  BY DEF Names
<1>22. "lambdaType" \in Names
  BY DEF Names
<1>23. "lambdaBody" \in Names
       /\ "lambdaBody" \notin {"postfix", "lambdaType", "lambdaParameter", "forInit", "pattern"}
  BY DEF Names
<1>. QED
  BY <1>1, <1>2, <1>3, <1>4, <1>5, <1>6, <1>7, <1>8, <1>9, <1>10, <1>11, <1>12, <1>13, <1>14, <1>15,
     <1>16, <1>17, <1>18, <1>19, <1>20, <1>21, <1>22, <1>23, Zenon

LEMMA NodeSteps ==
    /\ \A i \in 1..6 : \A c \in OperatorsAt[i] : c \in NodeKinds
    /\ \A k : Maker(Make(k))
    /\ Maker(Act("missing")) /\ Maker(Act("fault"))
    /\ Act("missing") \in QuietSteps /\ Act("fault") \in QuietSteps /\ Act("assignment") \in QuietSteps
    /\ Make("Variable") \in QuietSteps
    /\ Make("Function") \in QuietSteps
    /\ Make("Block") \in QuietSteps
    /\ Make("ExpressionStmt") \in QuietSteps
    /\ Make("If") \in QuietSteps
    /\ Make("Loop") \in QuietSteps
    /\ Make("While") \in QuietSteps
    /\ Make("For") \in QuietSteps
    /\ Make("Return") \in QuietSteps
    /\ Make("Print") \in QuietSteps
    /\ Make("Match") \in QuietSteps
    /\ Make("ArrayType") \in QuietSteps
    /\ Make("OptionType") \in QuietSteps
    /\ Make("FunctionType") \in QuietSteps
    /\ Make("BuiltinType") \in QuietSteps
    /\ Make("Unary") \in QuietSteps
    /\ Make("Call") \in QuietSteps
    /\ Make("Index") \in QuietSteps
    /\ Make("MemberAccess") \in QuietSteps
    /\ Make("UnwrapExpr") \in QuietSteps
    /\ Make("ArrayLiteral") \in QuietSteps
    /\ Make("StructLiteral") \in QuietSteps
    /\ Make("Lambda") \in QuietSteps
    /\ Make("Grouping") \in QuietSteps
    /\ Make("Literal") \in QuietSteps
    /\ Make("InterpolatedString") \in QuietSteps
    /\ Make("VariableExpr") \in QuietSteps
    /\ Make("Assignment") \in QuietSteps
<1>1. \A k \in NodeKinds : Make(k) \in QuietSteps
  BY MakeStep
<1>2. \A k : Maker(Make(k))
  BY ItemIs DEF Maker, Make
<1>3. Maker(Act("missing")) /\ Maker(Act("fault"))
  BY ActStep DEF Maker
<1>4. Act("missing") \in QuietSteps /\ Act("fault") \in QuietSteps /\ Act("assignment") \in QuietSteps
  BY ActStep
<1>5. \A i \in 1..6 : \A c \in OperatorsAt[i] : c \in NodeKinds
  BY Zenon DEF NodeKinds
<1>6. "Variable" \in NodeKinds
  BY Zenon DEF NodeKinds
<1>7. "Function" \in NodeKinds
  BY Zenon DEF NodeKinds
<1>8. "Block" \in NodeKinds
  BY Zenon DEF NodeKinds
<1>9. "ExpressionStmt" \in NodeKinds
  BY Zenon DEF NodeKinds
<1>10. "If" \in NodeKinds
  BY Zenon DEF NodeKinds
<1>11. "Loop" \in NodeKinds
  BY Zenon DEF NodeKinds
<1>12. "While" \in NodeKinds
  BY Zenon DEF NodeKinds
<1>13. "For" \in NodeKinds
  BY Zenon DEF NodeKinds
<1>14. "Return" \in NodeKinds
  BY Zenon DEF NodeKinds
<1>15. "Print" \in NodeKinds
  BY Zenon DEF NodeKinds
<1>16. "Match" \in NodeKinds
  BY Zenon DEF NodeKinds
<1>17. "ArrayType" \in NodeKinds
  BY Zenon DEF NodeKinds
<1>18. "OptionType" \in NodeKinds
  BY Zenon DEF NodeKinds
<1>19. "FunctionType" \in NodeKinds
  BY Zenon DEF NodeKinds
<1>20. "BuiltinType" \in NodeKinds
  BY Zenon DEF NodeKinds
<1>21. "Unary" \in NodeKinds
  BY Zenon DEF NodeKinds
<1>22. "Call" \in NodeKinds
  BY Zenon DEF NodeKinds
<1>23. "Index" \in NodeKinds
  BY Zenon DEF NodeKinds
<1>24. "MemberAccess" \in NodeKinds
  BY Zenon DEF NodeKinds
<1>25. "UnwrapExpr" \in NodeKinds
  BY Zenon DEF NodeKinds
<1>26. "ArrayLiteral" \in NodeKinds
  BY Zenon DEF NodeKinds
<1>27. "StructLiteral" \in NodeKinds
  BY Zenon DEF NodeKinds
<1>28. "Lambda" \in NodeKinds
  BY Zenon DEF NodeKinds
<1>29. "Grouping" \in NodeKinds
  BY Zenon DEF NodeKinds
<1>30. "Literal" \in NodeKinds
  BY Zenon DEF NodeKinds
<1>31. "InterpolatedString" \in NodeKinds
  BY Zenon DEF NodeKinds
<1>32. "VariableExpr" \in NodeKinds
  BY Zenon DEF NodeKinds
<1>33. "Assignment" \in NodeKinds
  BY Zenon DEF NodeKinds
<1>. QED
  BY <1>1, <1>2, <1>3, <1>4, <1>5, <1>6, <1>7, <1>8, <1>9, <1>10, <1>11, <1>12, <1>13, <1>14, <1>15,
     <1>16, <1>17, <1>18, <1>19, <1>20, <1>21, <1>22, <1>23, <1>24, <1>25, <1>26, <1>27, <1>28, <1>29,
     <1>30, <1>31, <1>32, <1>33, Zenon

-----------------------------------------------------------------------------
\* The tests.
Guarded(run) ==
    \A i \in 1..Len(run) : run[i].do = "synchronizeIfNull" => \E j \in 1..(i - 1) : Maker(run[j])

\* What it does leaves the brackets as they were.
Neutral(run) == run \in Seq(Steps) /\ Guarded(run) /\ \A b \in Seq(Marks) : OpenBehind(b, run) = b

\* It does so behind one of these tokens.
NeutralBehind(on, run) ==
    /\ run \in Seq(Steps) /\ Guarded(run)
    /\ \A c \in on : c # "EOF" /\ \A b \in Seq(Marks) : OpenBehind(Meets(b, c), run) = b

Kept(x) ==
    /\ x \in QuietSteps /\ x.do \in Tests
    /\ x.do \in {"when", "loop", "operators"} => NeutralBehind(x.on, x.run)
    /\ x.do \in {"unless", "until"} => Neutral(x.run)
    /\ x.do = "operators" => x.on \subseteq NodeKinds

LEMMA TestIsQuiet ==
    ASSUME NEW x \in Compound, x.do \in Tests
    PROVE  x \in QuietSteps
<1>1. x \in Steps
  BY DEF Steps
<1>. QED
  BY <1>1, TestsAre, OtherToken DEF QuietSteps

LEMMA FineIsNeutral ==
    ASSUME NEW run, Fine(run)
    PROVE  Neutral(run)
BY DEF Fine, Guarded, Neutral

Ordinary(on) == \A c \in on : c \notin Brackets /\ c # "EOF"

LEMMA FineIsNeutralBehind ==
    ASSUME NEW run, NEW on, Fine(run), Ordinary(on)
    PROVE  NeutralBehind(on, run)
<1>1. ASSUME NEW c \in on, NEW b \in Seq(Marks)
      PROVE  OpenBehind(Meets(b, c), run) = b
  <2>1. Meets(b, c) = b
    BY QuietMeets DEF Ordinary
  <2>. QED
    BY <2>1, FineIsNeutral DEF Neutral
<1>. QED
  BY <1>1, FineIsNeutral DEF NeutralBehind, Neutral, Ordinary

\* A list that closes the bracket o.
LEMMA ClosingIsNeutralBehind ==
    ASSUME NEW o, NEW run \in Seq(Steps), o # "EOF",
           NEW r \in 1..Len(run), Closes(o, TokenOf(run[r])),
           \A i \in 1..Len(run) : run[i].do # "synchronizeIfNull" /\ (i # r => TokenOf(run[i]) \notin Brackets)
    PROVE  NeutralBehind({o}, run)
<1>1. ASSUME NEW b \in Seq(Marks)
      PROVE  OpenBehind(Meets(b, o), run) = b
  BY CloseKeeps
<1>. QED
  BY <1>1 DEF Guarded, NeutralBehind

LEMMA MatchIsKept ==
    ASSUME NEW x \in Compound, x.do \in {"when", "loop"}, NeutralBehind(x.on, x.run)
    PROVE  Kept(x)
<1>1. x.do \in Tests /\ x.do \notin {"unless", "until"} /\ x.do # "operators"
  BY DEF Tests
<1>. QED
  BY <1>1, TestIsQuiet DEF Kept

LEMMA CheckIsKept ==
    ASSUME NEW x \in Compound, x.do \in {"unless", "until"}, Neutral(x.run)
    PROVE  Kept(x)
<1>1. x.do \in Tests /\ x.do \notin {"when", "loop", "operators"} /\ x.do # "operators"
  BY DEF Tests
<1>. QED
  BY <1>1, TestIsQuiet DEF Kept

\* The lists that separators keep apart.
LEMMA SeparatedIsFine ==
    ASSUME NEW r \in Separated
    PROVE  Fine(r)
<1>1. Fine(<<Type, Consume("id")>>)
  BY TokenSteps, CallSteps, Fine2, Zenon DEF Type
<1>2. Fine(<<Type>>) /\ Fine(<<Call("lambdaParameter")>>) /\ Fine(<<Expr>>)
  BY CallSteps, Fine1, Zenon DEF Type, Expr
<1>3. Fine(<<Consume("id"), Consume(":"), Expr>>)
  BY TokenSteps, CallSteps, Fine3, Zenon DEF Expr
<1>. QED
  BY <1>1, <1>2, <1>3, Zenon DEF Separated

LEMMA SeparatorsAreKept ==
    ASSUME NEW x \in Separators
    PROVE  Kept(x)
<1>1. PICK r \in Separated : x = Loop({","}, r)
  BY DEF Separators
<1>2. x.do = "loop" /\ x.on = {","} /\ x.run = r
  BY <1>1, LoopIs, Zenon
<1>3. Ordinary({","})
  BY Zenon DEF Brackets, Ordinary
<1>4. NeutralBehind(x.on, x.run)
  BY <1>2, <1>3, SeparatedIsFine, FineIsNeutralBehind, Zenon
<1>5. x \in Compound
  BY DEF Compound
<1>6. x.do \in {"when", "loop"}
  BY <1>2
<1>. QED
  BY <1>4, <1>5, <1>6, MatchIsKept

LEMMA ListIsFine ==
    ASSUME NEW r \in Separated
    PROVE  Fine(List(r))
<1>. DEFINE x == Loop({","}, r)
<1>1. x \in Separators
  BY Zenon DEF Separators
<1>. HIDE DEF x
<1>2. Fine(<<x>>)
  BY <1>1, SeparatorsAreKept, Fine1 DEF Kept
<1>3. Fine(r \o <<x>>)
  BY <1>2, SeparatedIsFine, BothAreFine
<1>. QED
  BY <1>3 DEF x, List

LEMMA ListsAreKept ==
    ASSUME NEW x \in Lists
    PROVE  Kept(x)
<1>1. PICK t \in ListEnds, r \in Separated : x = Unless(t, List(r))
  BY DEF Lists
<1>2. x.do = "unless" /\ x.run = List(r)
  BY <1>1, UnlessIs, Zenon
<1>3. Neutral(x.run)
  BY <1>2, ListIsFine, FineIsNeutral
<1>4. x \in Compound
  BY DEF Compound
<1>5. x.do \in {"unless", "until"}
  BY <1>2
<1>. QED
  BY <1>3, <1>4, <1>5, CheckIsKept

LEMMA ClausesAreKept ==
    ASSUME NEW x \in Clauses
    PROVE  Kept(x)
<1>1. PICK t : x = Unless(t, <<Expr>>)
  BY Zenon DEF Clauses
<1>2. x.do = "unless" /\ x.run = <<Expr>>
  BY <1>1, UnlessIs, Zenon
<1>3. Neutral(x.run)
  BY <1>2, CallSteps, Fine1, FineIsNeutral DEF Expr
<1>4. x \in Compound
  BY DEF Compound
<1>5. x.do \in {"unless", "until"}
  BY <1>2
<1>. QED
  BY <1>3, <1>4, <1>5, CheckIsKept

LEMMA OptionsAreKept ==
    ASSUME NEW x \in Options
    PROVE  Kept(x)
<1>1. PICK t, f : /\ x = When({t}, <<Call(f)>>)
                  /\ Ordinary({t}) /\ Call(f) \in QuietSteps
  <2>1. Ordinary({"="}) /\ Ordinary({"->"}) /\ Ordinary({"else"})
    BY Zenon DEF Brackets, Ordinary
  <2>. QED
    BY <2>1, CallSteps, Zenon DEF Options, Expr, Type
<1>2. x.do = "when" /\ x.on = {t} /\ x.run = <<Call(f)>>
  BY <1>1, WhenIs, Zenon
<1>3. NeutralBehind(x.on, x.run)
  BY <1>1, <1>2, Fine1, FineIsNeutralBehind
<1>4. x \in Compound
  BY DEF Compound
<1>5. x.do \in {"when", "loop"}
  BY <1>2
<1>. QED
  BY <1>3, <1>4, <1>5, MatchIsKept

LEMMA LevelLoopsAreKept ==
    ASSUME NEW x \in LevelLoops
    PROVE  Kept(x)
<1>1. PICK i \in 1..6 : x = Operators(OperatorsAt[i], <<Call(Levels[i + 1])>>)
  BY DEF LevelLoops
<1>2. x.do = "operators" /\ x.on = OperatorsAt[i] /\ x.run = <<Call(Levels[i + 1])>>
  BY <1>1, OperatorsIs
<1>3. Levels[i + 1] = "unary" \/ Levels[i + 1] \in {Levels[l] : l \in 1..6}
  BY DEF Levels
<1>4. Call(Levels[i + 1]) \in QuietSteps
  BY <1>3, CallSteps
<1>5. Ordinary(OperatorsAt[i])
  <2>1. \A c \in OperatorsAt[i] : c \in {"or", "and", "==", "!=", "<", "<=", ">", ">=", "-", "+", "*", "/"}
    BY DEF OperatorsAt
  <2>2. \A c \in {"or", "and", "==", "!=", "<", "<=", ">", ">=", "-", "+", "*", "/"} : c \notin Brackets /\ c # "EOF"
    BY Zenon DEF Brackets
  <2>. QED
    BY <2>1, <2>2, Zenon DEF Ordinary
<1>6. NeutralBehind(x.on, x.run)
  BY <1>2, <1>4, <1>5, Fine1, FineIsNeutralBehind
<1>7. x.on \subseteq NodeKinds
  BY <1>2, NodeSteps
<1>8. x \in Compound
  BY DEF Compound
<1>9. x.do \in Tests /\ x.do \notin {"unless", "until"}
  BY <1>2 DEF Tests
<1>. QED
  BY <1>6, <1>7, <1>8, <1>9, TestIsQuiet DEF Kept

LEMMA TypeSuffixesAreKept ==
    ASSUME NEW x \in TypeSuffixes
    PROVE  Kept(x)
<1>1. x \in Compound
  BY DEF Compound
<1>2. CASE x = Loop({"?"}, <<Make("OptionType")>>)
  <2>. PICK on, run : x = Loop(on, run) /\ on = {"?"} /\ run = <<Make("OptionType")>>
    BY <1>2, Zenon
  <2>5. x.do = "loop" /\ x.on = on /\ x.run = run
    BY LoopIs
  <2>1. x.do = "loop" /\ x.on = {"?"} /\ x.run = <<Make("OptionType")>>
    BY <2>5, Zenon
  <2>2. Ordinary({"?"})
    BY Zenon DEF Brackets, Ordinary
  <2>3. NeutralBehind(x.on, x.run)
    BY <2>1, <2>2, NodeSteps, Fine1, FineIsNeutralBehind, Zenon
  <2>4. x.do \in {"when", "loop"}
    BY <2>1
  <2>. QED
    BY <1>1, <2>3, <2>4, MatchIsKept
<1>3. CASE x = Loop({"["}, <<Consume("]"), Make("ArrayType")>>)
  <2>. DEFINE run == <<Consume("]"), Make("ArrayType")>>
  <2>. PICK on, body : x = Loop(on, body) /\ on = {"["} /\ body = run
    BY <1>3, Zenon
  <2>1. x.do = "loop" /\ x.on = {"["} /\ x.run = run
    BY LoopIs
  <2>2. Consume("]") \in Steps /\ Make("ArrayType") \in QuietSteps /\ Make("ArrayType") \in Steps
    BY NodeSteps, PairSteps DEF IsPair, QuietSteps
  <2>3. run \in Seq(Steps) /\ Len(run) = 2 /\ run[1] = Consume("]") /\ run[2] = Make("ArrayType")
    BY <2>2
  <2>. HIDE DEF run
  <2>4. TokenOf(run[1]) = "]" /\ run[1].do # "synchronizeIfNull"
    BY <2>3, ConsumeIs
  <2>5. TokenOf(run[2]) \notin Brackets /\ run[2].do # "synchronizeIfNull"
    BY <2>2, <2>3 DEF QuietSteps
  <2>6. Closes("[", "]") /\ "[" # "EOF"
    BY Zenon DEF Closes, Opening
  <2>7. Closes("[", TokenOf(run[1])) /\ 1 \in 1..Len(run)
    BY <2>3, <2>4, <2>6
  <2>8. \A i \in 1..Len(run) : run[i].do # "synchronizeIfNull"
        /\ (i # 1 => TokenOf(run[i]) \notin Brackets)
    BY <2>3, <2>4, <2>5
  <2>9. NeutralBehind({"["}, run)
    BY <2>3, <2>6, <2>7, <2>8, ClosingIsNeutralBehind
  <2>10. x.do \in {"when", "loop"}
    BY <2>1
  <2>. QED
    BY <1>1, <2>1, <2>9, <2>10, MatchIsKept DEF run
<1>. QED
  BY <1>2, <1>3, Zenon DEF TypeSuffixes

LEMMA ParametersAreQuiet ==
    ASSUME NEW t \in ListEnds, NEW r \in Separated
    PROVE  Unless(t, List(r)) \in QuietSteps
<1>1. Unless(t, List(r)) \in Lists
  BY DEF Lists
<1>. QED
  BY <1>1, ListsAreKept DEF Kept

LEMMA LambdaParametersAreKept ==
    ASSUME NEW x \in LambdaParameters
    PROVE  Kept(x)
<1>. DEFINE p == Parameters(<<Call("lambdaParameter")>>)
            run == <<p, Consume(")")>>
<1>1. x \in Compound /\ x = When({"("}, run)
  BY DEF Compound, LambdaParameters
<1>. PICK on, body : x = When(on, body) /\ on = {"("} /\ body = run
  BY <1>1, Zenon
<1>2. x.do = "when" /\ x.on = {"("} /\ x.run = run
  BY WhenIs
<1>3. x.do \in {"when", "loop"} /\ "(" # "EOF"
  BY <1>2
<1>4. p \in QuietSteps
  <2>1. <<Call("lambdaParameter")>> \in Separated /\ ")" \in ListEnds
    BY Zenon DEF Separated, ListEnds
  <2>. QED
    BY <2>1, ParametersAreQuiet DEF Parameters
<1>5. Consume(")") \in Steps /\ TokenOf(Consume(")")) = ")" /\ Consume(")").do = "consume"
  BY PairSteps, ConsumeIs DEF IsPair
<1>. HIDE DEF p
<1>6. run \in Seq(Steps) /\ Len(run) = 2 /\ run[1] = p /\ run[2] = Consume(")")
  BY <1>4, <1>5 DEF QuietSteps
<1>. HIDE DEF run
<1>7. Closes("(", ")")
  BY Zenon DEF Closes, Opening
<1>8. Closes("(", TokenOf(run[2])) /\ 2 \in 1..Len(run)
  BY <1>5, <1>6, <1>7
<1>9. \A i \in 1..Len(run) : run[i].do # "synchronizeIfNull"
      /\ (i # 2 => TokenOf(run[i]) \notin Brackets)
  BY <1>4, <1>5, <1>6 DEF QuietSteps
<1>10. NeutralBehind({"("}, run)
  BY <1>3, <1>6, <1>8, <1>9, ClosingIsNeutralBehind
<1>. QED
  BY <1>1, <1>2, <1>3, <1>10, MatchIsKept

\* The loops over statements.
LEMMA AskedIsNeutral ==
    ASSUME NEW f, Call(f) \in QuietSteps, Maker(Call(f))
    PROVE  Neutral(<<Call(f), Act("synchronizeIfNull")>>)
<1>. DEFINE run == <<Call(f), Act("synchronizeIfNull")>>
<1>2. Call(f) \in Steps /\ Act("synchronizeIfNull") \in Steps
      /\ Act("synchronizeIfNull").do = "synchronizeIfNull"
  BY ActStep DEF QuietSteps
<1>3. run \in Seq(Steps) /\ Len(run) = 2 /\ run[1] = Call(f) /\ run[2] = Act("synchronizeIfNull")
  BY <1>2
<1>. HIDE DEF run
<1>4. run[1].do # "synchronizeIfNull" /\ Maker(run[1]) /\ TokenOf(run[1]) \notin Brackets
  BY <1>3 DEF QuietSteps
<1>5. TokenOf(run[2]) \notin Brackets
  BY <1>2, <1>3, OtherToken
<1>6. Guarded(run)
  <2>. SUFFICES ASSUME NEW i \in 1..Len(run), run[i].do = "synchronizeIfNull"
                PROVE  \E j \in 1..(i - 1) : Maker(run[j])
    BY DEF Guarded
  <2>1. i = 2
    BY <1>3, <1>4
  <2>. QED
    BY <1>4, <2>1
<1>7. ASSUME NEW b \in Seq(Marks)
      PROVE  OpenBehind(b, run) = b
  <2>1. \A i \in 1..Len(run) : TokenOf(run[i]) \notin Brackets
    BY <1>3, <1>4, <1>5
  <2>. QED
    BY <1>3, <2>1, QuietKeeps
<1>. QED
  BY <1>3, <1>6, <1>7 DEF Neutral, run

LEMMA PatternsAreFine == Fine(Patterns)
BY TokenSteps, CallSteps, Fine3, Zenon DEF Patterns, Stmt

LEMMA RepeatsAreKept ==
    ASSUME NEW x \in Repeats
    PROVE  Kept(x)
<1>1. PICK on, run : x = Until(on, run) /\ run \in {Statements, Patterns, Program.run}
  BY ProgramIs, Zenon DEF Repeats, Program
<1>2. x.do = "until" /\ x.run = run
  BY <1>1, UntilIs
<1>3. Program.run = <<Call("declaration"), Act("synchronizeIfNull")>>
  BY ProgramIs
<1>4. Statements = <<Call("statement"), Act("synchronizeIfNull")>>
  BY DEF Statements, Stmt
<1>5. Neutral(Statements) /\ Neutral(Program.run) /\ Neutral(Patterns)
  BY <1>3, <1>4, CallSteps, AskedIsNeutral, PatternsAreFine, FineIsNeutral
<1>6. x \in Compound
  BY DEF Compound
<1>7. x.do \in {"unless", "until"}
  BY <1>2
<1>. QED
  BY <1>1, <1>2, <1>5, <1>6, <1>7, CheckIsKept

LEMMA TestsAreKept ==
    ASSUME NEW x \in Compound
    PROVE  Kept(x)
BY SeparatorsAreKept, ListsAreKept, ClausesAreKept, OptionsAreKept, LambdaParametersAreKept,
   TypeSuffixesAreKept, LevelLoopsAreKept, RepeatsAreKept DEF Compound
-----------------------------------------------------------------------------
\* The functions.
LEMMA QuietTests ==
    /\ Parameters(<<Type, Consume("id")>>) \in QuietSteps /\ Parameters(<<Type>>) \in QuietSteps
    /\ When({"="}, <<Expr>>) \in QuietSteps /\ When({"->"}, <<Type>>) \in QuietSteps
    /\ When({"else"}, <<Call("else")>>) \in QuietSteps /\ When({"->"}, <<Call("lambdaType")>>) \in QuietSteps
    /\ Until({"}"}, Statements) \in QuietSteps /\ Until({"}"}, Patterns) \in QuietSteps
    /\ Unless(";", <<Expr>>) \in QuietSteps /\ Unless(")", <<Expr>>) \in QuietSteps
    /\ Unless(")", List(<<Expr>>)) \in QuietSteps /\ Unless("]", List(<<Expr>>)) \in QuietSteps
    /\ Unless("}", List(<<Consume("id"), Consume(":"), Expr>>)) \in QuietSteps
    /\ Loop({"["}, <<Consume("]"), Make("ArrayType")>>) \in QuietSteps
    /\ Loop({"?"}, <<Make("OptionType")>>) \in QuietSteps
    /\ When({"("}, <<Parameters(<<Call("lambdaParameter")>>), Consume(")")>>) \in QuietSteps
<1>1. \A x \in Compound : x \in QuietSteps
  BY TestsAreKept DEF Kept
<1>2. \A x \in Clauses \cup Options \cup LambdaParameters \cup TypeSuffixes \cup Repeats : x \in QuietSteps
  BY <1>1 DEF Compound
<1>3. /\ <<Type, Consume("id")>> \in Separated /\ <<Type>> \in Separated /\ <<Expr>> \in Separated
      /\ <<Consume("id"), Consume(":"), Expr>> \in Separated
  BY Zenon DEF Separated
<1>4. ")" \in ListEnds /\ "]" \in ListEnds /\ "}" \in ListEnds
  BY Zenon DEF ListEnds
<1>5. Parameters(<<Type, Consume("id")>>) \in QuietSteps /\ Parameters(<<Type>>) \in QuietSteps
  BY <1>3, <1>4, ParametersAreQuiet DEF Parameters
<1>6. /\ When({"="}, <<Expr>>) \in QuietSteps /\ When({"->"}, <<Type>>) \in QuietSteps
      /\ When({"else"}, <<Call("else")>>) \in QuietSteps /\ When({"->"}, <<Call("lambdaType")>>) \in QuietSteps
  BY <1>2, Zenon DEF Options
<1>7. Until({"}"}, Statements) \in QuietSteps /\ Until({"}"}, Patterns) \in QuietSteps
  BY <1>2, Zenon DEF Repeats
<1>8. Unless(";", <<Expr>>) \in QuietSteps /\ Unless(")", <<Expr>>) \in QuietSteps
  BY <1>2, Zenon DEF Clauses
<1>9. Unless(")", List(<<Expr>>)) \in QuietSteps /\ Unless("]", List(<<Expr>>)) \in QuietSteps
  BY <1>3, <1>4, ParametersAreQuiet
<1>10. Unless("}", List(<<Consume("id"), Consume(":"), Expr>>)) \in QuietSteps
  BY <1>3, <1>4, ParametersAreQuiet, Zenon
<1>11. /\ Loop({"["}, <<Consume("]"), Make("ArrayType")>>) \in QuietSteps
       /\ Loop({"?"}, <<Make("OptionType")>>) \in QuietSteps
  BY <1>2, Zenon DEF TypeSuffixes
<1>12. When({"("}, <<Parameters(<<Call("lambdaParameter")>>), Consume(")")>>) \in QuietSteps
  BY <1>2, Zenon DEF LambdaParameters
<1>. QED
  BY <1>5, <1>6, <1>7, <1>8, <1>9, <1>10, <1>11, <1>12

\* Statements.
LEMMA VarDeclarationIsFine == Fine(VarDeclaration) /\ Makes(VarDeclaration)
BY TokenSteps, CallSteps, NodeSteps, QuietTests, Fine5, Zenon DEF VarDeclaration, Type

LEMMA DeclarationIsFine == Fine(Declaration) /\ Makes(Declaration)
<1>1. Declaration \in {<<Consume("fn"), Call("function")>>, <<Call("variable")>>, <<Stmt>>}
  BY Zenon DEF Declaration
<1>. QED
  BY <1>1, TokenSteps, CallSteps, Fine1, Fine2, Zenon DEF Stmt

LEMMA FunctionIsFine == Fine(Function) /\ Makes(Function)
BY TokenSteps, PairSteps, CallSteps, NodeSteps, QuietTests, Pair24of7, Zenon DEF Function

LEMMA BlockIsFine == Fine(Block) /\ Makes(Block)
BY PairSteps, NodeSteps, QuietTests, Pair13of4, Zenon DEF Block

LEMMA ExpressionStatementIsFine == Fine(ExpressionStatement) /\ Makes(ExpressionStatement)
BY TokenSteps, CallSteps, NodeSteps, Fine3, Zenon DEF ExpressionStatement, Expr

LEMMA ConditionIsFine == Fine(Condition)
BY PairSteps, CallSteps, Pair13of3, Zenon DEF Condition, Expr

LEMMA IfStatementIsFine == Fine(IfStatement) /\ Makes(IfStatement)
<1>1. LET r == <<Stmt, When({"else"}, <<Call("else")>>), Make("If")>> IN Fine(r) /\ Makes(r)
  BY CallSteps, NodeSteps, QuietTests, Fine3, Zenon DEF Stmt
<1>. QED
  BY <1>1, ConditionIsFine, BothAreFine, Zenon DEF IfStatement

LEMMA LoopStatementIsFine == Fine(LoopStatement) /\ Makes(LoopStatement)
<1>1. LET r == <<Stmt, Make("Loop")>> IN Fine(r) /\ Makes(r)
  BY CallSteps, NodeSteps, Fine2, Zenon DEF Stmt
<1>. QED
  BY <1>1, ConditionIsFine, BothAreFine, Zenon DEF LoopStatement

LEMMA WhileStatementIsFine == Fine(WhileStatement) /\ Makes(WhileStatement)
<1>1. LET r == <<Stmt, Make("While")>> IN Fine(r) /\ Makes(r)
  BY CallSteps, NodeSteps, Fine2, Zenon DEF Stmt
<1>. QED
  BY <1>1, ConditionIsFine, BothAreFine, Zenon DEF WhileStatement

LEMMA ElseIsFine == Fine(Else) /\ Makes(Else)
<1>1. Else \in {<<Consume("if"), Call("if")>>, <<Stmt>>}
  BY Zenon DEF Else
<1>. QED
  BY <1>1, TokenSteps, CallSteps, Fine1, Fine2, Zenon DEF Stmt

LEMMA ForInitIsFine == Fine(ForInit)
<1>1. ForInit \in {<<Call("variable")>>, <<Consume(";")>>, ExpressionStatement}
  BY Zenon DEF ForInit
<1>. QED
  BY <1>1, TokenSteps, CallSteps, Fine1, ExpressionStatementIsFine, Zenon

LEMMA ForStatementIsFine == Fine(ForStatement) /\ Makes(ForStatement)
BY TokenSteps, PairSteps, CallSteps, NodeSteps, QuietTests, Pair16of8, Zenon DEF ForStatement

LEMMA ReturnStatementIsFine == Fine(ReturnStatement) /\ Makes(ReturnStatement)
BY TokenSteps, NodeSteps, QuietTests, Fine3, Zenon DEF ReturnStatement

LEMMA PrintStatementIsFine == Fine(PrintStatement) /\ Makes(PrintStatement)
BY TokenSteps, CallSteps, NodeSteps, Fine3, Zenon DEF PrintStatement, Expr

LEMMA MatchStatementIsFine == Fine(MatchStatement) /\ Makes(MatchStatement)
BY PairSteps, CallSteps, NodeSteps, QuietTests, Pair24of5, Zenon DEF MatchStatement, Expr, Patterns

LEMMA PatternIsFine == Fine(Pattern)
<1>1. Pattern \in {<<Consume("_")>>, <<Expr>>}
  BY Zenon DEF Pattern
<1>. QED
  BY <1>1, TokenSteps, CallSteps, Fine1, Zenon DEF Expr

LEMMA StatementIsFine == Fine(Statement) /\ Makes(Statement)
<1>1. Statement \in
         {<<Consume("if"), Call("if")>>, <<Consume("match")>> \o MatchStatement,
          <<Consume("loop")>> \o LoopStatement, <<Consume("while")>> \o WhileStatement,
          <<Consume("for")>> \o ForStatement, <<Consume("return")>> \o ReturnStatement,
          <<Consume("print")>> \o PrintStatement, Block, VarDeclaration, ExpressionStatement}
  BY Zenon DEF Statement
<1>2. \A t \in {"if", "match", "loop", "while", "for", "return", "print"} : Fine(<<Consume(t)>>)
  BY TokenSteps, Fine1, Zenon
<1>3. ASSUME NEW t \in {"if", "match", "loop", "while", "for", "return", "print"},
             NEW run, Fine(run), Makes(run)
      PROVE  Fine(<<Consume(t)>> \o run) /\ Makes(<<Consume(t)>> \o run)
  BY <1>2, <1>3, BothAreFine
<1>4. Fine(<<Consume("if"), Call("if")>>) /\ Makes(<<Consume("if"), Call("if")>>)
  BY TokenSteps, CallSteps, Fine2, Zenon
<1>. QED
  BY <1>1, <1>3, <1>4, MatchStatementIsFine, LoopStatementIsFine, WhileStatementIsFine,
     ForStatementIsFine,
     ReturnStatementIsFine, PrintStatementIsFine, BlockIsFine, VarDeclarationIsFine,
     ExpressionStatementIsFine, Zenon

\* Types.
LEMMA TypeSuffixIsFine == Fine(TypeSuffix)
BY QuietTests, Fine2, Zenon DEF TypeSuffix

LEMMA FunctionTypeIsFine == Fine(FunctionType) /\ Makes(FunctionType)
BY TokenSteps, PairSteps, CallSteps, NodeSteps, QuietTests, Pair13of6, Zenon DEF FunctionType, Type

LEMMA ParseTypeIsFine == Fine(ParseType) /\ Makes(ParseType)
<1>1. \/ ParseType = <<Consume("fn"), Call("typeAfterFn")>>
      \/ ParseType = FunctionType \o TypeSuffix
      \/ Tok(0) \in BuiltinTypes \cup {"void"} /\ ParseType = <<Consume(Tok(0)), Make("BuiltinType")>> \o TypeSuffix
      \/ ParseType = <<Act("missing")>>
  BY SMT DEF ParseType
<1>2. ASSUME NEW t \in BuiltinTypes \cup {"void"}
      PROVE  LET r == <<Consume(t), Make("BuiltinType")>> IN Fine(r) /\ Makes(r)
  BY TokenSteps, NodeSteps, Fine2
<1>3. Fine(<<Consume("fn"), Call("typeAfterFn")>>) /\ Makes(<<Consume("fn"), Call("typeAfterFn")>>)
  BY TokenSteps, CallSteps, Fine2, Zenon
<1>4. Fine(<<Act("missing")>>) /\ Makes(<<Act("missing")>>)
  BY NodeSteps, Fine1, Zenon
<1>. QED
  BY <1>1, <1>2, <1>3, <1>4, FunctionTypeIsFine, TypeSuffixIsFine, BothAreFine, Zenon

LEMMA TypeAfterFnIsFine == Fine(TypeAfterFn) /\ Makes(TypeAfterFn)
<1>1. TypeAfterFn \in {FunctionType \o TypeSuffix, <<Make("BuiltinType")>> \o TypeSuffix}
  BY Zenon DEF TypeAfterFn
<1>2. Fine(<<Make("BuiltinType")>>) /\ Makes(<<Make("BuiltinType")>>)
  BY NodeSteps, Fine1, Zenon
<1>. QED
  BY <1>1, <1>2, FunctionTypeIsFine, TypeSuffixIsFine, BothAreFine, Zenon

\* Expressions.
LEMMA LevelIsFine ==
    ASSUME NEW l \in 1..6
    PROVE  Fine(Level(l)) /\ Makes(Level(l))
<1>. DEFINE r == [i \in 1..(7 - l) |-> Operators(OperatorsAt[7 - i], <<Call(Levels[8 - i])>>)]
<1>1. ASSUME NEW i \in 1..(7 - l)
      PROVE  Operators(OperatorsAt[7 - i], <<Call(Levels[8 - i])>>) \in QuietSteps
  <2>1. 7 - i \in 1..6 /\ 8 - i = (7 - i) + 1
    OBVIOUS
  <2>2. \A j \in 1..6 : Operators(OperatorsAt[j], <<Call(Levels[j + 1])>>) \in LevelLoops
    BY Zenon DEF LevelLoops
  <2>3. \A j \in 1..6 : Operators(OperatorsAt[j], <<Call(Levels[j + 1])>>) \in QuietSteps
    BY <2>2, LevelLoopsAreKept DEF Kept
  <2>. QED
    BY <2>1, <2>3
<1>2. r \in Seq(QuietSteps)
  <2>1. r \in [1..(7 - l) -> QuietSteps] /\ 7 - l \in Nat
    BY <1>1
  <2>. HIDE DEF r
  <2>. QED
    BY <2>1
<1>3. Fine(r)
  BY <1>2, QuietIsFine
<1>4. Fine(<<Call("unary")>>) /\ Makes(<<Call("unary")>>)
  BY CallSteps, Fine1, Zenon
<1>5. Level(l) = <<Call("unary")>> \o r
  BY DEF Level
<1>. HIDE DEF r
<1>. QED
  BY <1>3, <1>4, <1>5, BothAreFine

LEMMA ExpressionIsFine == Fine(Expression) /\ Makes(Expression)
<1>1. Fine(<<Act("assignment")>>)
  BY NodeSteps, Fine1, Zenon
<1>2. Fine(Level(1)) /\ Makes(Level(1))
  BY LevelIsFine
<1>. QED
  BY <1>1, <1>2, BothAreFine DEF Expression

LEMMA UnaryIsFine == Fine(Unary) /\ Makes(Unary)
<1>1. \/ \E t \in {"!", "-"} : Unary = <<Consume(t), Call("unary"), Make("Unary")>>
      \/ Unary = <<Call("primary"), Call("postfix")>>
  BY Zenon DEF Unary
<1>2. ASSUME NEW t \in {"!", "-"}
      PROVE  LET r == <<Consume(t), Call("unary"), Make("Unary")>> IN Fine(r) /\ Makes(r)
  BY TokenSteps, CallSteps, NodeSteps, Fine3
<1>3. LET r == <<Call("primary"), Call("postfix")>> IN Fine(r) /\ Makes(r)
  BY CallSteps, Fine2, Zenon
<1>. QED
  BY <1>1, <1>2, <1>3, Zenon

LEMMA PostfixIsFine == Fine(Postfix)
<1>1. Postfix \in
         {Arguments \o <<Call("postfix")>>,
          <<Consume("["), Expr, Consume("]"), Make("Index"), Call("postfix")>>,
          <<Consume("."), Consume("id"), Make("MemberAccess"), Call("postfix")>>,
          <<Consume("!"), Make("UnwrapExpr"), Call("postfix")>>, <<>>}
  BY Zenon DEF Postfix
<1>2. Fine(Arguments)
  BY PairSteps, NodeSteps, QuietTests, Pair13of4, Zenon DEF Arguments
<1>3. Fine(<<Call("postfix")>>)
  BY CallSteps, Fine1, Zenon
<1>4. Fine(Arguments \o <<Call("postfix")>>)
  BY <1>2, <1>3, BothAreFine
<1>5. Fine(<<Consume("["), Expr, Consume("]"), Make("Index"), Call("postfix")>>)
  BY PairSteps, CallSteps, NodeSteps, Pair13of5, Zenon DEF Expr
<1>6. Fine(<<Consume("."), Consume("id"), Make("MemberAccess"), Call("postfix")>>)
  BY TokenSteps, CallSteps, NodeSteps, Fine4, Zenon
<1>7. Fine(<<Consume("!"), Make("UnwrapExpr"), Call("postfix")>>)
  BY TokenSteps, CallSteps, NodeSteps, Fine3, Zenon
<1>. QED
  BY <1>1, <1>4, <1>5, <1>6, <1>7, Fine0, Zenon

LEMMA LambdaIsFine == Fine(Lambda) /\ Makes(Lambda)
BY CallSteps, NodeSteps, QuietTests, Fine4, Zenon DEF Lambda

LEMMA LambdaParameterIsFine == Fine(LambdaParameter)
<1>1. LambdaParameter \in {<<Type>> \o <<Consume("id")>>, <<>> \o <<Consume("id")>>}
  BY Zenon DEF LambdaParameter
<1>2. Fine(<<Type>>) /\ Fine(<<Consume("id")>>)
  BY TokenSteps, CallSteps, Fine1, Zenon DEF Type
<1>. QED
  BY <1>1, <1>2, Fine0, BothAreFine, Zenon

LEMMA LambdaTypeIsFine == Fine(LambdaType)
<1>1. LambdaType \in {<<Type>>, <<>>}
  BY Zenon DEF LambdaType
<1>. QED
  BY <1>1, CallSteps, Fine0, Fine1, Zenon DEF Type

LEMMA LambdaBodyIsFine == Fine(LambdaBody) /\ Makes(LambdaBody)
<1>1. LambdaBody \in {Block, <<Expr, Make("ExpressionStmt")>>}
  BY Zenon DEF LambdaBody
<1>2. Fine(<<Expr, Make("ExpressionStmt")>>) /\ Makes(<<Expr, Make("ExpressionStmt")>>)
  BY CallSteps, NodeSteps, Fine2, Zenon DEF Expr
<1>. QED
  BY <1>1, <1>2, BlockIsFine, Zenon

LEMMA NextPartIsFine == Fine(NextPart) /\ Makes(NextPart)
<1>1. NextPart \in
         {<<Consume("part"), Make("Literal"), Expr, Call("nextPart")>>, <<Consume("end"), Make("Literal")>>,
          <<Act("fault")>>}
  BY Zenon DEF NextPart
<1>2. LET r == <<Consume("part"), Make("Literal"), Expr, Call("nextPart")>> IN Fine(r) /\ Makes(r)
  BY TokenSteps, CallSteps, NodeSteps, Fine4, Zenon DEF Expr
<1>3. LET r == <<Consume("end"), Make("Literal")>> IN Fine(r) /\ Makes(r)
  BY TokenSteps, NodeSteps, Fine2, Zenon
<1>4. Fine(<<Act("fault")>>) /\ Makes(<<Act("fault")>>)
  BY NodeSteps, Fine1, Zenon
<1>. QED
  BY <1>1, <1>2, <1>3, <1>4, Zenon

LEMMA PrimaryIsFine == Fine(Primary) /\ Makes(Primary)
<1>1. \/ Tok(0) \in Literals /\ Primary = <<Consume(Tok(0)), Make("Literal")>>
      \/ Primary \in {InterpolatedString, <<Consume("id"), Call("afterIdentifier")>>, Lambda, Grouping,
                      <<Consume("fn")>> \o Lambda, ArrayLiteral, StructLiteral, <<Act("missing")>>}
  <2>1. CASE Tok(0) \in Literals
    <3>1. Tok(0) \notin {"part", "id", "(", "fn", "[", "{"}
      BY <2>1, Zenon DEF Literals
    <3>. QED
      BY <2>1, <3>1, Zenon DEF Primary
  <2>2. CASE Tok(0) \notin Literals /\ Tok(0) = "part"
    BY <2>2, Zenon DEF Primary
  <2>3. CASE Tok(0) \notin Literals /\ Tok(0) # "part"
    BY <2>3, Zenon DEF Primary
  <2>. QED
    BY <2>1, <2>2, <2>3
<1>2. ASSUME NEW t \in Literals
      PROVE  LET r == <<Consume(t), Make("Literal")>> IN Fine(r) /\ Makes(r)
  BY TokenSteps, NodeSteps, Fine2
<1>3. Fine(InterpolatedString) /\ Makes(InterpolatedString)
  BY TokenSteps, CallSteps, NodeSteps, Fine5, Zenon DEF InterpolatedString, Expr
<1>4. LET r == <<Consume("id"), Call("afterIdentifier")>> IN Fine(r) /\ Makes(r)
  BY TokenSteps, CallSteps, Fine2, Zenon
<1>5. Fine(Grouping) /\ Makes(Grouping)
  BY PairSteps, CallSteps, NodeSteps, Pair13of4, Zenon DEF Grouping, Expr
<1>6. Fine(<<Consume("fn")>> \o Lambda) /\ Makes(<<Consume("fn")>> \o Lambda)
  <2>1. Fine(<<Consume("fn")>>)
    BY TokenSteps, Fine1, Zenon
  <2>. QED
    BY <2>1, LambdaIsFine, BothAreFine
<1>7. Fine(ArrayLiteral) /\ Makes(ArrayLiteral)
  BY PairSteps, NodeSteps, QuietTests, Pair13of4, Zenon DEF ArrayLiteral
<1>8. Fine(StructLiteral) /\ Makes(StructLiteral)
  BY PairSteps, NodeSteps, QuietTests, Pair13of4, Zenon DEF StructLiteral
<1>9. Fine(<<Act("missing")>>) /\ Makes(<<Act("missing")>>)
  BY NodeSteps, Fine1, Zenon
<1>. QED
  BY <1>1, <1>2, <1>3, <1>4, <1>5, <1>6, <1>7, <1>8, <1>9, LambdaIsFine, Zenon

LEMMA AfterIdentifierIsFine == Fine(AfterIdentifier) /\ Makes(AfterIdentifier)
<1>1. AfterIdentifier \in {<<Consume("->"), Call("lambdaBody"), Make("Lambda")>>, <<Make("VariableExpr")>>}
  BY Zenon DEF AfterIdentifier
<1>2. LET r == <<Consume("->"), Call("lambdaBody"), Make("Lambda")>> IN Fine(r) /\ Makes(r)
  BY TokenSteps, CallSteps, NodeSteps, Fine3, Zenon
<1>3. Fine(<<Make("VariableExpr")>>) /\ Makes(<<Make("VariableExpr")>>)
  BY NodeSteps, Fine1, Zenon
<1>. QED
  BY <1>1, <1>2, <1>3, Zenon

LEMMA BodiesAreFine ==
    ASSUME NEW f \in Names
    PROVE  /\ Fine(Body(f))
           /\ f \notin {"postfix", "lambdaType", "lambdaParameter", "forInit", "pattern"} => Makes(Body(f))
<1>1. CASE f \in {Levels[l] : l \in 1..6}
  <2>1. f \in {"or", "and", "equality", "comparison", "term", "factor"}
    BY <1>1 DEF Levels
  <2>2. Body(f) = Level(CHOOSE l \in 1..6 : Levels[l] = f)
    BY <1>1, <2>1, Zenon DEF Body
  <2>3. (CHOOSE l \in 1..6 : Levels[l] = f) \in 1..6
    BY <1>1, Zenon
  <2>. QED
    BY <2>2, <2>3, LevelIsFine
<1>2. CASE f \notin {Levels[l] : l \in 1..6}
  <2>1. f \notin {"or", "and", "equality", "comparison", "term", "factor"}
    <3>1. {Levels[l] : l \in 1..6} = {"or", "and", "equality", "comparison", "term", "factor"}
      BY DEF Levels
    <3>. QED
      BY <1>2, <3>1
  <2>2. \/ f = "declaration" /\ Body(f) = Declaration
        \/ f = "variable" /\ Body(f) = VarDeclaration
        \/ f = "function" /\ Body(f) = Function
        \/ f = "statement" /\ Body(f) = Statement
        \/ f = "block" /\ Body(f) = Block
        \/ f = "if" /\ Body(f) = IfStatement
        \/ f = "else" /\ Body(f) = Else
        \/ f = "forInit" /\ Body(f) = ForInit
        \/ f = "pattern" /\ Body(f) = Pattern
        \/ f = "type" /\ Body(f) = ParseType
        \/ f = "typeAfterFn" /\ Body(f) = TypeAfterFn
        \/ f = "expression" /\ Body(f) = Expression
        \/ f = "unary" /\ Body(f) = Unary
        \/ f = "primary" /\ Body(f) = Primary
        \/ f = "postfix" /\ Body(f) = Postfix
        \/ f = "afterIdentifier" /\ Body(f) = AfterIdentifier
        \/ f = "nextPart" /\ Body(f) = NextPart
        \/ f = "lambdaParameter" /\ Body(f) = LambdaParameter
        \/ f = "lambdaType" /\ Body(f) = LambdaType
        \/ f = "lambdaBody" /\ Body(f) = LambdaBody
    BY <1>2, <2>1 DEF Body, Names
  <2>. QED
    BY <2>2, DeclarationIsFine, VarDeclarationIsFine, FunctionIsFine, StatementIsFine, BlockIsFine,
       IfStatementIsFine, ElseIsFine, ForInitIsFine, PatternIsFine, ParseTypeIsFine, TypeAfterFnIsFine,
       ExpressionIsFine, UnaryIsFine, PrimaryIsFine, PostfixIsFine, AfterIdentifierIsFine, NextPartIsFine,
       LambdaParameterIsFine, LambdaTypeIsFine, LambdaBodyIsFine, Zenon
<1>. QED
  BY <1>1, <1>2
-----------------------------------------------------------------------------
\* The stack.
EndsInProgram(s) == s # <<>> /\ s[Len(s)] = Program

LEMMA ListIs ==
    ASSUME NEW s \in Seq(Steps), s # <<>>
    PROVE  /\ Head(s) \in Steps /\ Head(s) = s[1] /\ Len(s) \in Nat \ {0}
           /\ Tail(s) \in Seq(Steps) /\ Len(Tail(s)) = Len(s) - 1
           /\ \A i \in 1..(Len(s) - 1) : Tail(s)[i] = s[i + 1]
OBVIOUS

LEMMA EndOfTail ==
    ASSUME NEW s \in Seq(Steps), EndsInProgram(s), Head(s) # Program
    PROVE  EndsInProgram(Tail(s))
<1>1. Len(s) # 1
  BY ListIs DEF EndsInProgram
<1>. DEFINE t == Tail(s)
            n == Len(s) - 1
<1>2. n \in 1..n /\ n + 1 = Len(s) /\ Len(t) = n /\ t \in Seq(Steps)
  BY <1>1, ListIs DEF EndsInProgram
<1>3. t[n] = s[n + 1]
  BY <1>2, ListIs DEF EndsInProgram
<1>4. t # <<>>
  <2>. HIDE DEF t
  <2>1. Len(t) # 0
    BY <1>2
  <2>. QED
    BY <2>1
<1>. QED
  BY <1>2, <1>3, <1>4 DEF EndsInProgram

LEMMA EndOfBoth ==
    ASSUME NEW run \in Seq(Steps), NEW s \in Seq(Steps), EndsInProgram(s)
    PROVE  EndsInProgram(run \o s) /\ run \o s \in Seq(Steps)
<1>. DEFINE w == run \o s
<1>1. Len(run) \in Nat /\ Len(s) \in Nat \ {0}
  BY ListIs DEF EndsInProgram
<1>2. /\ w \in Seq(Steps) /\ Len(w) = Len(run) + Len(s)
      /\ \A i \in 1..(Len(run) + Len(s)) : w[i] = IF i <= Len(run) THEN run[i] ELSE s[i - Len(run)]
  BY ConcatProperties
<1>. HIDE DEF w
<1>3. w # <<>>
  BY <1>1, <1>2
<1>. DEFINE n == Len(run) + Len(s)
<1>4. n \in 1..(Len(run) + Len(s)) /\ ~(n <= Len(run)) /\ n - Len(run) = Len(s)
  BY <1>1
<1>5. w[Len(w)] = s[Len(s)]
  BY <1>2, <1>4
<1>. QED
  BY <1>2, <1>3, <1>5 DEF EndsInProgram, w

LEMMA GuardedTail ==
    ASSUME NEW s \in Seq(Steps), s # <<>>, Guarded(s), ~Maker(Head(s))
    PROVE  Guarded(Tail(s))
<1>. DEFINE t == Tail(s)
<1>1. /\ Len(t) = Len(s) - 1 /\ Len(s) \in Nat \ {0} /\ Head(s) = s[1]
      /\ \A i \in 1..(Len(s) - 1) : t[i] = s[i + 1]
  BY ListIs
<1>. HIDE DEF t
<1>. SUFFICES ASSUME NEW i \in 1..Len(t), t[i].do = "synchronizeIfNull"
              PROVE  \E j \in 1..(i - 1) : Maker(t[j])
  BY DEF Guarded, t
<1>2. i + 1 \in 1..Len(s) /\ i \in 1..(Len(s) - 1) /\ (i + 1) - 1 = i
  BY <1>1
<1>3. s[i + 1].do = "synchronizeIfNull"
  BY <1>1, <1>2
<1>4. PICK j \in 1..i : Maker(s[j])
  BY <1>2, <1>3 DEF Guarded
<1>5. j # 1
  BY <1>1, <1>4
<1>6. j - 1 \in 1..(i - 1) /\ j - 1 \in 1..(Len(s) - 1) /\ (j - 1) + 1 = j
  BY <1>1, <1>2, <1>5
<1>7. Maker(t[j - 1])
  BY <1>1, <1>4, <1>6
<1>. QED
  BY <1>6, <1>7

LEMMA GuardedBoth ==
    ASSUME NEW run \in Seq(Steps), NEW s \in Seq(Steps), Guarded(run), Guarded(s) \/ Makes(run)
    PROVE  Guarded(run \o s)
<1>. DEFINE w == run \o s
<1>1. Len(run) \in Nat /\ Len(s) \in Nat
  OBVIOUS
<1>2. /\ w \in Seq(Steps) /\ Len(w) = Len(run) + Len(s)
      /\ \A i \in 1..(Len(run) + Len(s)) : w[i] = IF i <= Len(run) THEN run[i] ELSE s[i - Len(run)]
  BY ConcatProperties
<1>. HIDE DEF w
<1>. SUFFICES ASSUME NEW i \in 1..Len(w), w[i].do = "synchronizeIfNull"
              PROVE  \E j \in 1..(i - 1) : Maker(w[j])
  BY DEF Guarded, w
<1>3. CASE i <= Len(run)
  <2>1. i \in 1..Len(run) /\ run[i].do = "synchronizeIfNull"
    BY <1>1, <1>2, <1>3
  <2>2. PICK j \in 1..(i - 1) : Maker(run[j])
    BY <2>1 DEF Guarded
  <2>3. w[j] = run[j]
    BY <1>1, <1>2, <1>3
  <2>. QED
    BY <2>2, <2>3
<1>4. CASE ~(i <= Len(run)) /\ Makes(run)
  <2>1. PICK j \in 1..Len(run) : Maker(run[j])
    BY <1>4 DEF Makes
  <2>2. j \in 1..(i - 1) /\ w[j] = run[j]
    BY <1>1, <1>2, <1>4
  <2>. QED
    BY <2>1, <2>2
<1>5. CASE ~(i <= Len(run)) /\ Guarded(s)
  <2>. DEFINE k == i - Len(run)
  <2>1. k \in 1..Len(s) /\ s[k].do = "synchronizeIfNull"
    BY <1>1, <1>2, <1>5
  <2>2. PICK j \in 1..(k - 1) : Maker(s[j])
    BY <1>5, <2>1 DEF Guarded
  <2>3. /\ Len(run) + j \in 1..(i - 1) /\ Len(run) + j \in 1..(Len(run) + Len(s))
        /\ ~(Len(run) + j <= Len(run)) /\ (Len(run) + j) - Len(run) = j
    BY <1>1, <1>2, <2>1
  <2>4. w[Len(run) + j] = s[j]
    BY <1>2, <2>3
  <2>. QED
    BY <2>2, <2>3, <2>4
<1>. QED
  BY <1>3, <1>4, <1>5

\* What a step of the stack can be.
LEMMA StepIs ==
    ASSUME NEW x \in Steps
    PROVE  \/ \E t \in Terminals : x = Consume(t)
           \/ \E f \in Names : x = Call(f)
           \/ \E k \in NodeKinds : x = Make(k)
           \/ \E a \in {"assignment", "fault", "missing", "synchronizeIfNull"} : x = Act(a)
           \/ \E k \in NodeKinds \cup {"null"} : x = Item("assignTo", {}, <<>>, k)
           \/ x \in Compound
BY DEF Steps, Atomic

LEMMA StepsAre ==
    ASSUME NEW x \in Steps
    PROVE  /\ x.do = "consume" => \E t \in Terminals : x = Consume(t)
           /\ x.do = "call" => \E f \in Names : x = Call(f)
           /\ x.do = "make" => x.kind \in NodeKinds
           /\ x.do = "assignTo" => x.kind \in NodeKinds \cup {"null"}
           /\ x.do \in Tests => x \in Compound
           /\ x.do # "until" => x # Program
<1>1. \A t : Consume(t).do = "consume"
  BY ConsumeIs
<1>2. \A f : Call(f).do = "call" /\ \A k : Make(k).do = "make" /\ Make(k).kind = k
  BY ItemIs DEF Call, Make
<1>3. \A a \in {"assignment", "fault", "missing", "synchronizeIfNull"} : Act(a).do = a
  BY ActStep
<1>4. \A k : Item("assignTo", {}, <<>>, k).do = "assignTo" /\ Item("assignTo", {}, <<>>, k).kind = k
  BY ItemIs
<1>5. x \in Compound => x.do \in Tests
  BY TestsAreKept DEF Kept
<1>6. Program.do = "until"
  BY ProgramIs
<1>. QED
  BY <1>1, <1>2, <1>3, <1>4, <1>5, <1>6, StepIs DEF Tests

LEMMA NotMakers ==
    ASSUME NEW x, x.do \in {"consume", "assignment", "assignTo", "synchronizeIfNull"} \cup Tests
    PROVE  ~Maker(x)
BY DEF Maker, Tests
-----------------------------------------------------------------------------
\* CleanIsBalanced.
Behind == Nesting(<<>>, text)[pos - 1]

LEMMA BehindIsList == Behind \in Seq(Marks) \/ pos - 1 \notin Nat
<1>1. <<>> \in Seq(Marks)
  OBVIOUS
<1>. QED
  BY <1>1, NestingIs DEF Behind

\* What is known where a step is taken.
LEMMA TopIs ==
    ASSUME BalanceInv, stack # <<>>
    PROVE  /\ stack \in Seq(Steps) /\ EndsInProgram(stack) /\ Top \in Steps
           /\ Tail(stack) \in Seq(Steps)
           /\ Behind \in Seq(Marks)
           /\ ~faulty => pos - 1 <= Len(text) /\ OpenBehind(Behind, stack) = <<>>
           /\ ~faulty => OpenBehind(Meets(Behind, TokenOf(Top)), Tail(stack)) = <<>>
           /\ val = "null" /\ ~faulty => Guarded(stack)
<1>1. stack \in Seq(Steps) /\ EndsInProgram(stack)
  BY DEF BalanceInv, StackInv, EndInv, EndsInProgram
<1>2. Top \in Steps /\ Tail(stack) \in Seq(Steps)
  BY <1>1, ListIs DEF Top
<1>3. Behind \in Seq(Marks)
  BY BehindIsList DEF BalanceInv, StackInv
<1>4. ~faulty => pos - 1 <= Len(text) /\ OpenBehind(Behind, stack) = <<>>
  BY DEF BalanceInv, BracketsInv, Behind
<1>5. OpenBehind(Behind, stack) = OpenBehind(Meets(Behind, TokenOf(Top)), Tail(stack))
  BY <1>1, <1>3, OpenOfTail DEF Top
<1>6. val = "null" /\ ~faulty => Guarded(stack)
  BY DEF BalanceInv, NodeInv, Guarded
<1>. QED
  BY <1>1, <1>2, <1>3, <1>4, <1>5, <1>6

\* The invariant, put together again.
LEMMA BalanceAtLast ==
    ASSUME stack' \in Seq(Steps), EndsInProgram(stack') \/ (stack' = <<>> /\ IsAtEnd' /\ Lexed'),
           val' \in NodeKinds \cup {"null"},
           text' \in Seq(TokenTypes), pos' \in Nat \ {0}, \A i \in 1..Len(text') : text'[i] # "EOF",
           ~faulty' => pos' - 1 <= Len(text') /\ OpenBehind(Behind', stack') = <<>>,
           val' = "null" /\ ~faulty' => Guarded(stack')
    PROVE  BalanceInv'
<1>1. StackInv'
  BY DEF StackInv
<1>2. BracketsInv'
  BY DEF BracketsInv, Behind
<1>3. NodeInv'
  BY DEF NodeInv, Guarded
<1>4. EndInv'
  BY DEF EndInv, EndsInProgram
<1>. QED
  BY <1>1, <1>2, <1>3, <1>4 DEF BalanceInv

LEMMA BalanceFrom ==
    ASSUME stack' \in Seq(Steps), EndsInProgram(stack'), val' \in NodeKinds \cup {"null"},
           text' \in Seq(TokenTypes), pos' \in Nat \ {0}, \A i \in 1..Len(text') : text'[i] # "EOF",
           ~faulty' => pos' - 1 <= Len(text') /\ OpenBehind(Behind', stack') = <<>>,
           val' = "null" /\ ~faulty' => Guarded(stack')
    PROVE  BalanceInv'
BY BalanceAtLast

LEMMA Stayed ==
    ASSUME BalanceInv, UNCHANGED lex
    PROVE  /\ text' \in Seq(TokenTypes) /\ pos' \in Nat \ {0}
           /\ \A i \in 1..Len(text') : text'[i] # "EOF"
           /\ text' = text /\ pos' = pos /\ Behind' = Behind
BY DEF BalanceInv, StackInv, EndInv, lex, Behind

LEMMA Advanced ==
    ASSUME BalanceInv, Tok(0) # "EOF", Advance
    PROVE  /\ text' \in Seq(TokenTypes) /\ pos' \in Nat \ {0}
           /\ \A i \in 1..Len(text') : text'[i] # "EOF"
           /\ pos' - 1 <= Len(text') /\ Behind' = Meets(Behind, Tok(0))
<1>1. text \in Seq(TokenTypes) /\ pos \in Nat \ {0} /\ text' = text /\ pos' = pos + 1
  BY DEF BalanceInv, StackInv, Advance
<1>2. pos <= Len(text) /\ Tok(0) = text[pos]
  BY <1>1 DEF Tok
<1>. DEFINE f == Nesting(<<>>, text)
            n == pos - 1
<1>3. n \in Nat /\ n + 1 = pos /\ pos' - 1 = n + 1
  BY <1>1
<1>. HIDE DEF n
<1>4. f[n + 1] = Meets(f[n], text[n + 1])
  <2>1. <<>> \in Seq(Marks)
    OBVIOUS
  <2>. QED
    BY <1>3, <2>1, NestingIs
<1>5. Behind = f[n] /\ Behind' = f[n + 1]
  BY <1>1, <1>3 DEF Behind, n
<1>. QED
  BY <1>1, <1>2, <1>3, <1>4, <1>5 DEF BalanceInv, EndInv

\* The step is done, and its run is put in its place.
LEMMA Done ==
    ASSUME BalanceInv, stack # <<>>, Top.do # "until", NEW run \in Seq(Steps), Do(run)
    PROVE  /\ stack' = run \o Tail(stack) /\ stack' \in Seq(Steps) /\ EndsInProgram(stack')
           /\ Guarded(run) /\ Guarded(stack) /\ ~Maker(Top) => Guarded(stack')
           /\ Guarded(run) /\ Makes(run) => Guarded(stack')
           /\ \A b \in Seq(Marks) : OpenBehind(b, stack') = OpenBehind(OpenBehind(b, run), Tail(stack))
<1>1. stack' = run \o Tail(stack)
  BY DEF Do
<1>2. EndsInProgram(Tail(stack)) /\ Tail(stack) \in Seq(Steps)
  BY TopIs, StepsAre, EndOfTail DEF Top
<1>3. ASSUME NEW b \in Seq(Marks)
      PROVE  OpenBehind(b, stack') = OpenBehind(OpenBehind(b, run), Tail(stack))
  BY <1>1, <1>2, OpenOfBoth
<1>4. Guarded(stack) /\ ~Maker(Top) => Guarded(Tail(stack))
  BY TopIs, GuardedTail DEF Top
<1>. QED
  BY <1>1, <1>2, <1>3, <1>4, EndOfBoth, GuardedBoth

\* The step stays, and its run is put before it.
LEMMA Again ==
    ASSUME BalanceInv, stack # <<>>, NEW run \in Seq(Steps), Keep(run)
    PROVE  /\ stack' = run \o stack /\ stack' \in Seq(Steps) /\ EndsInProgram(stack')
           /\ Guarded(run) /\ Guarded(stack) => Guarded(stack')
           /\ \A b \in Seq(Marks) : OpenBehind(b, stack') = OpenBehind(OpenBehind(b, run), stack)
<1>1. stack' = run \o stack
  BY DEF Keep
<1>3. ASSUME NEW b \in Seq(Marks)
      PROVE  OpenBehind(b, stack') = OpenBehind(OpenBehind(b, run), stack)
  BY <1>1, TopIs, OpenOfBoth
<1>. QED
  BY <1>1, <1>3, TopIs, EndOfBoth, GuardedBoth

LEMMA NoneIsFine == <<>> \in Seq(Steps) /\ Guarded(<<>>) /\ \A b \in Seq(Marks) : OpenBehind(b, <<>>) = b
BY Fine0, FineIsNeutral DEF Neutral

LEMMA NullIsNoNode == "null" \notin NodeKinds
<1>1. \A i \in 1..6 : "null" \notin OperatorsAt[i]
  BY DEF OperatorsAt
<1>. QED
  BY <1>1, Zenon DEF NodeKinds

LEMMA ConsumedKeeps ==
    ASSUME BalanceInv, Consumed
    PROVE  BalanceInv'
<1>1. Top.do = "consume" /\ stack # <<>> /\ Tok(0) \in Top.on /\ Do(<<>>) /\ Advance
      /\ UNCHANGED <<tree, diag>>
  BY DEF Consumed, Next_, Top
<1>2. PICK t \in Terminals : Top = Consume(t)
  BY <1>1, TopIs, StepsAre
<1>3. Tok(0) = t /\ TokenOf(Top) = t
  BY <1>1, <1>2, ConsumeIs
<1>4. t # "EOF"
  <2>1. "EOF" \notin Terminals
    BY Zenon DEF Terminals
  <2>. QED
    BY <2>1
<1>5. ~Maker(Top) /\ Top.do # "until"
  BY <1>1, NotMakers
<1>6. /\ text' \in Seq(TokenTypes) /\ pos' \in Nat \ {0} /\ \A i \in 1..Len(text') : text'[i] # "EOF"
      /\ pos' - 1 <= Len(text') /\ Behind' = Meets(Behind, TokenOf(Top))
  BY <1>1, <1>3, <1>4, Advanced
<1>7. val' = val /\ faulty' = faulty /\ val \in NodeKinds \cup {"null"}
  BY <1>1 DEF tree, diag, BalanceInv, StackInv
<1>8. /\ stack' \in Seq(Steps) /\ EndsInProgram(stack')
      /\ Guarded(stack) => Guarded(stack')
      /\ \A b \in Seq(Marks) : OpenBehind(b, stack') = OpenBehind(b, Tail(stack))
  BY <1>1, <1>5, Done, NoneIsFine
<1>9. ~faulty' => OpenBehind(Behind', stack') = <<>>
  <2>1. Behind' \in Seq(Marks)
    BY <1>1, <1>6, TopIs, MeetsIsList
  <2>. QED
    BY <1>1, <1>6, <1>7, <1>8, <2>1, TopIs
<1>10. val' = "null" /\ ~faulty' => Guarded(stack')
  BY <1>1, <1>7, <1>8, TopIs
<1>. QED
  BY <1>6, <1>7, <1>8, <1>9, <1>10, BalanceFrom

\* A step that consumes nothing and is replaced by a neutral run.
LEMMA QuietDone ==
    ASSUME BalanceInv, stack # <<>>, Top.do \notin {"until", "consume"}, NEW run, Neutral(run), Do(run),
           UNCHANGED lex, Maker(Top) => Makes(run) \/ val' # "null" \/ faulty',
           val' \in NodeKinds \cup {"null"}, val' = val \/ val' # "null" \/ faulty', faulty' \/ faulty' = faulty
    PROVE  BalanceInv'
<1>1. run \in Seq(Steps) /\ Guarded(run) /\ \A b \in Seq(Marks) : OpenBehind(b, run) = b
  BY DEF Neutral
<1>2. /\ stack' \in Seq(Steps) /\ EndsInProgram(stack')
      /\ (Guarded(stack) /\ ~Maker(Top)) \/ Makes(run) => Guarded(stack')
      /\ \A b \in Seq(Marks) : OpenBehind(b, stack') = OpenBehind(b, Tail(stack))
  BY <1>1, Done
<1>3. /\ text' \in Seq(TokenTypes) /\ pos' \in Nat \ {0} /\ \A i \in 1..Len(text') : text'[i] # "EOF"
      /\ text' = text /\ pos' = pos /\ Behind' = Behind
  BY Stayed
<1>4. Meets(Behind, TokenOf(Top)) = Behind
  BY OtherToken, QuietMeets
<1>5. ~faulty' => pos' - 1 <= Len(text') /\ OpenBehind(Behind', stack') = <<>>
  BY <1>2, <1>3, <1>4, TopIs
<1>6. val' = "null" /\ ~faulty' => Guarded(stack')
  BY <1>2, TopIs
<1>. QED
  BY <1>2, <1>3, <1>5, <1>6, BalanceFrom

\* Once there was an error only the form of the stack matters.
LEMMA FaultyDone ==
    ASSUME BalanceInv, stack # <<>>, Top.do # "until", NEW run \in Seq(Steps), Do(run), faulty',
           val' \in NodeKinds \cup {"null"}, UNCHANGED lex \/ (Tok(0) # "EOF" /\ Advance)
    PROVE  BalanceInv'
<1>1. /\ stack' \in Seq(Steps) /\ EndsInProgram(stack')
  BY Done
<1>2. text' \in Seq(TokenTypes) /\ pos' \in Nat \ {0} /\ \A i \in 1..Len(text') : text'[i] # "EOF"
  BY Stayed, Advanced
<1>. QED
  BY <1>1, <1>2, BalanceFrom

LEMMA NotConsumedKeeps ==
    ASSUME BalanceInv, NotConsumed
    PROVE  BalanceInv'
<1>1. stack # <<>> /\ Top.do # "until" /\ Do(<<>>) /\ faulty' /\ SkipOne /\ val' = val
  BY DEF NotConsumed, Next_, Top, Error, tree
<1>2. UNCHANGED lex \/ (Tok(0) # "EOF" /\ Advance)
  BY <1>1 DEF SkipOne, IsAtEnd
<1>3. val \in NodeKinds \cup {"null"}
  BY DEF BalanceInv, StackInv
<1>. QED
  BY <1>1, <1>2, <1>3, NoneIsFine, FaultyDone

LEMMA EnterKeeps ==
    ASSUME BalanceInv, Enter
    PROVE  BalanceInv'
<1>1. stack # <<>> /\ Top.do = "call" /\ Do(Body(Top.kind)) /\ UNCHANGED lex /\ val' = val
      /\ faulty' = faulty
  BY DEF Enter, Next_, Top, tree, diag
<1>2. PICK f \in Names : Top = Call(f)
  BY <1>1, TopIs, StepsAre
<1>3. Top.kind = f
  BY <1>2, CallStep
<1>4. Neutral(Body(f)) /\ (Maker(Top) => Makes(Body(f)))
  BY <1>1, <1>3, BodiesAreFine, FineIsNeutral DEF Maker
<1>5. val \in NodeKinds \cup {"null"}
  BY DEF BalanceInv, StackInv
<1>. QED
  BY <1>1, <1>3, <1>4, <1>5, QuietDone

LEMMA MatchedKeeps ==
    ASSUME BalanceInv, Matched
    PROVE  BalanceInv'
<1>1. /\ stack # <<>> /\ Taken(Top) /\ Advance /\ val' = val /\ faulty' = faulty
      /\ \/ Top.do = "when" /\ Do(Top.run)
         \/ Top.do = "loop" /\ Keep(Top.run)
         \/ Top.do = "operators" /\ Keep(Top.run \o <<Make(Tok(0))>>)
  BY DEF Matched, Next_, Top, tree, diag
<1>2. Top.do \in {"when", "loop", "operators"} /\ Top.do \in Tests /\ Top.do # "until"
      /\ Top.do # "consume"
  BY <1>1 DEF Tests
<1>3. Kept(Top)
  BY <1>1, <1>2, TopIs, StepsAre, TestsAreKept
<1>4. Tok(0) \in Top.on
  BY <1>1, <1>2 DEF Taken
<1>5. NeutralBehind(Top.on, Top.run) /\ (Top.do = "operators" => Tok(0) \in NodeKinds)
  BY <1>2, <1>3, <1>4 DEF Kept
<1>. DEFINE run == Top.run
<1>6. /\ run \in Seq(Steps) /\ Guarded(run) /\ Tok(0) # "EOF"
      /\ \A b \in Seq(Marks) : OpenBehind(Meets(b, Tok(0)), run) = b
  BY <1>4, <1>5 DEF NeutralBehind
<1>7. /\ text' \in Seq(TokenTypes) /\ pos' \in Nat \ {0} /\ \A i \in 1..Len(text') : text'[i] # "EOF"
      /\ pos' - 1 <= Len(text') /\ Behind' = Meets(Behind, Tok(0))
  BY <1>1, <1>6, Advanced
<1>8. ~Maker(Top) /\ Meets(Behind, TokenOf(Top)) = Behind
  BY <1>2, NotMakers, OtherToken, QuietMeets
<1>9. val \in NodeKinds \cup {"null"} /\ Behind \in Seq(Marks) /\ Behind' \in Seq(Marks)
  BY <1>1, <1>7, TopIs, MeetsIsList DEF BalanceInv, StackInv
<1>10. OpenBehind(Behind', run) = Behind
  BY <1>6, <1>7, <1>9
<1>. HIDE DEF run
<1>11. CASE Top.do = "when"
  <2>1. /\ stack' \in Seq(Steps) /\ EndsInProgram(stack') /\ (Guarded(stack) => Guarded(stack'))
        /\ OpenBehind(Behind', stack') = OpenBehind(Behind, Tail(stack))
    BY <1>1, <1>2, <1>6, <1>8, <1>9, <1>10, <1>11, Done DEF run
  <2>2. ~faulty' => OpenBehind(Behind', stack') = <<>>
    BY <1>1, <1>8, <2>1, TopIs
  <2>3. val' = "null" /\ ~faulty' => Guarded(stack')
    BY <1>1, <2>1, TopIs
  <2>. QED
    BY <1>1, <1>7, <1>9, <2>1, <2>2, <2>3, BalanceFrom
<1>12. ASSUME NEW more \in Seq(Steps), Guarded(more), \A b \in Seq(Marks) : OpenBehind(b,
              more) = OpenBehind(b, run),
              Keep(more)
       PROVE  BalanceInv'
  <2>1. /\ stack' \in Seq(Steps) /\ EndsInProgram(stack') /\ (Guarded(stack) => Guarded(stack'))
        /\ OpenBehind(Behind', stack') = OpenBehind(Behind, stack)
    BY <1>1, <1>9, <1>10, <1>12, Again
  <2>2. ~faulty' => OpenBehind(Behind', stack') = <<>>
    BY <1>1, <2>1, TopIs
  <2>3. val' = "null" /\ ~faulty' => Guarded(stack')
    BY <1>1, <2>1, TopIs
  <2>. QED
    BY <1>1, <1>7, <1>9, <2>1, <2>2, <2>3, BalanceFrom
<1>13. CASE Top.do = "loop"
  BY <1>1, <1>6, <1>12, <1>13 DEF run
<1>14. CASE Top.do = "operators"
  <2>. DEFINE m == <<Make(Tok(0))>>
  <2>1. Fine(m)
    BY <1>5, <1>14, MakeStep, Fine1
  <2>. HIDE DEF m
  <2>2. m \in Seq(Steps) /\ Guarded(m) /\ \A b \in Seq(Marks) : OpenBehind(b, m) = b
    BY <2>1, FineIsNeutral DEF Neutral
  <2>3. run \o m \in Seq(Steps)
    BY <1>6, <2>2, ConcatProperties DEF run
  <2>4. Guarded(run \o m)
    BY <1>6, <2>2, GuardedBoth DEF run
  <2>5. ASSUME NEW b \in Seq(Marks)
        PROVE  OpenBehind(b, run \o m) = OpenBehind(b, run)
    <3>1. OpenBehind(b, run) \in Seq(Marks)
      BY <1>6, OpenIsList DEF run
    <3>2. OpenBehind(b, run \o m) = OpenBehind(OpenBehind(b, run), m)
      BY <1>6, <2>2, OpenOfBoth DEF run
    <3>. QED
      BY <2>2, <3>1, <3>2
  <2>6. Keep(run \o m)
    BY <1>1, <1>14 DEF run, m
  <2>. QED
    BY <1>12, <2>3, <2>4, <2>5, <2>6
<1>. QED
  BY <1>1, <1>11, <1>13, <1>14

LEMMA EnteredKeeps ==
    ASSUME BalanceInv, Entered
    PROVE  BalanceInv'
<1>1. /\ stack # <<>> /\ UNCHANGED lex /\ val' = val /\ faulty' = faulty
      /\ \/ Top.do = "unless" /\ Do(Top.run)
         \/ Top.do = "until" /\ Keep(Top.run)
  BY DEF Entered, Next_, Top, tree, diag
<1>2. Top.do \in {"unless", "until"} /\ Top.do \in Tests
  BY <1>1 DEF Tests
<1>3. Kept(Top) /\ ~Maker(Top)
  BY <1>1, <1>2, TopIs, StepsAre, TestsAreKept, NotMakers
<1>4. Neutral(Top.run)
  BY <1>2, <1>3 DEF Kept
<1>5. val \in NodeKinds \cup {"null"}
  BY DEF BalanceInv, StackInv
<1>6. CASE Top.do = "unless"
  <2>1. Do(Top.run) /\ Top.do \notin {"until", "consume"}
    BY <1>1, <1>6
  <2>. QED
    BY <1>1, <1>3, <1>4, <1>5, <2>1, QuietDone
<1>7. CASE Top.do = "until"
  <2>1. Keep(Top.run)
    BY <1>1, <1>7
  <2>2. Top.run \in Seq(Steps) /\ Guarded(Top.run) /\ \A b \in Seq(Marks) : OpenBehind(b, Top.run) = b
    BY <1>4 DEF Neutral
  <2>3. /\ stack' \in Seq(Steps) /\ EndsInProgram(stack') /\ (Guarded(stack) => Guarded(stack'))
        /\ \A b \in Seq(Marks) : OpenBehind(b, stack') = OpenBehind(b, stack)
    BY <1>1, <2>1, <2>2, Again
  <2>4. /\ text' \in Seq(TokenTypes) /\ pos' \in Nat \ {0} /\ \A i \in 1..Len(text') : text'[i] # "EOF"
        /\ text' = text /\ pos' = pos /\ Behind' = Behind
    BY <1>1, Stayed
  <2>5. ~faulty' => pos' - 1 <= Len(text') /\ OpenBehind(Behind', stack') = <<>>
    BY <1>1, <2>3, <2>4, TopIs
  <2>6. val' = "null" /\ ~faulty' => Guarded(stack')
    BY <1>1, <2>3, TopIs
  <2>. QED
    BY <1>1, <1>5, <2>3, <2>4, <2>5, <2>6, BalanceFrom
<1>. QED
  BY <1>2, <1>6, <1>7

LEMMA MakeNodeKeeps ==
    ASSUME BalanceInv, MakeNode
    PROVE  BalanceInv'
<1>1. stack # <<>> /\ Top.do = "make" /\ Do(<<>>) /\ UNCHANGED lex /\ val' = Top.kind
      /\ faulty' = faulty
  BY DEF MakeNode, Next_, Top, diag
<1>2. Top.kind \in NodeKinds
  BY <1>1, TopIs, StepsAre
<1>3. "null" \notin NodeKinds
  BY NullIsNoNode
<1>. QED
  BY <1>1, <1>2, <1>3, NoneIsFine, QuietDone DEF Neutral

LEMMA FaultKeeps ==
    ASSUME BalanceInv, Fault \/ Missing
    PROVE  BalanceInv'
<1>1. stack # <<>> /\ Top.do # "until" /\ Do(<<>>) /\ UNCHANGED lex /\ faulty' /\ val' \in {val, "null"}
  BY DEF Fault, Missing, Next_, Top, Error, tree
<1>2. val' \in NodeKinds \cup {"null"}
  BY <1>1 DEF BalanceInv, StackInv
<1>. QED
  BY <1>1, <1>2, NoneIsFine, FaultyDone

LEMMA AssignKeeps ==
    ASSUME BalanceInv, Assign
    PROVE  BalanceInv'
<1>1. /\ stack # <<>> /\ Top.do = "assignment" /\ val' = val /\ faulty' = faulty
      /\ \/ Tok(0) = "=" /\ Advance /\ Do(<<Expr, Item("assignTo", {}, <<>>, val)>>)
         \/ Do(<<>>) /\ UNCHANGED lex
  BY DEF Assign, Next_, Top, tree, diag
<1>2. val \in NodeKinds \cup {"null"} /\ ~Maker(Top) /\ Top.do \notin {"until", "consume"}
  BY <1>1, NotMakers DEF BalanceInv, StackInv
<1>3. CASE Do(<<>>) /\ UNCHANGED lex
  BY <1>1, <1>2, <1>3, NoneIsFine, QuietDone DEF Neutral
<1>4. CASE Tok(0) = "=" /\ Advance /\ Do(<<Expr, Item("assignTo", {}, <<>>, val)>>)
  <2>. DEFINE run == <<Expr, Item("assignTo", {}, <<>>, val)>>
  <2>1. Fine(run)
    BY <1>2, CallSteps, AssignToStep, Fine2 DEF Expr
  <2>. HIDE DEF run
  <2>2. run \in Seq(Steps) /\ Guarded(run) /\ \A b \in Seq(Marks) : OpenBehind(b, run) = b
    BY <2>1, FineIsNeutral DEF Neutral
  <2>3. "=" # "EOF" /\ "=" \notin Brackets
    BY Zenon DEF Brackets
  <2>4. /\ text' \in Seq(TokenTypes) /\ pos' \in Nat \ {0} /\ \A i \in 1..Len(text') : text'[i] # "EOF"
        /\ pos' - 1 <= Len(text') /\ Behind' = Meets(Behind, Tok(0))
    BY <1>4, <2>3, Advanced
  <2>5. Behind' = Behind /\ Meets(Behind, TokenOf(Top)) = Behind
    BY <1>1, <1>4, <2>3, <2>4, OtherToken, QuietMeets
  <2>6. /\ stack' \in Seq(Steps) /\ EndsInProgram(stack') /\ (Guarded(stack) => Guarded(stack'))
        /\ \A b \in Seq(Marks) : OpenBehind(b, stack') = OpenBehind(b, Tail(stack))
    BY <1>1, <1>2, <1>4, <2>2, Done DEF run
  <2>7. ~faulty' => OpenBehind(Behind', stack') = <<>>
    BY <1>1, <2>5, <2>6, TopIs
  <2>8. val' = "null" /\ ~faulty' => Guarded(stack')
    BY <1>1, <2>6, TopIs
  <2>. QED
    BY <1>1, <1>2, <2>4, <2>6, <2>7, <2>8, BalanceFrom
<1>. QED
  BY <1>1, <1>3, <1>4

LEMMA AssignToKeeps ==
    ASSUME BalanceInv, AssignTo
    PROVE  BalanceInv'
<1>1. stack # <<>> /\ Top.do = "assignTo" /\ UNCHANGED lex
  BY DEF AssignTo, Next_, Top
<1>2. Top.kind \in NodeKinds \cup {"null"} /\ val \in NodeKinds \cup {"null"} /\ ~Maker(Top)
  BY <1>1, TopIs, StepsAre, NotMakers DEF BalanceInv, StackInv
<1>3. CASE Top.kind = "null"
  <2>1. stack' = stack /\ val' = val /\ faulty' = faulty
    BY <1>3 DEF AssignTo, diag
  <2>2. /\ text' \in Seq(TokenTypes) /\ pos' \in Nat \ {0} /\ \A i \in 1..Len(text') : text'[i] # "EOF"
        /\ text' = text /\ pos' = pos /\ Behind' = Behind
    BY <1>1, Stayed
  <2>. QED
    BY <1>1, <1>2, <2>1, <2>2, TopIs, BalanceFrom
<1>4. CASE Top.kind # "null" /\ Top.kind \in {"VariableExpr", "Index", "MemberAccess"}
  <2>1. Do(<<Make("Assignment")>>) /\ val' = val /\ faulty' = faulty
    BY <1>4 DEF AssignTo, diag
  <2>2. Neutral(<<Make("Assignment")>>)
    BY NodeSteps, Fine1, FineIsNeutral
  <2>. QED
    BY <1>1, <1>2, <2>1, <2>2, QuietDone
<1>5. CASE Top.kind # "null" /\ Top.kind \notin {"VariableExpr", "Index", "MemberAccess"}
  <2>1. Do(<<>>) /\ val' = Top.kind /\ faulty'
    BY <1>5 DEF AssignTo, Error
  <2>. QED
    BY <1>1, <1>2, <2>1, NoneIsFine, FaultyDone
<1>. QED
  BY <1>3, <1>4, <1>5

LEMMA SynchronizeKeeps ==
    ASSUME BalanceInv, SynchronizeIfNull
    PROVE  BalanceInv'
<1>1. /\ stack # <<>> /\ Top.do = "synchronizeIfNull" /\ val' = val /\ faulty' = faulty
      /\ \/ val = "null" /\ ~IsAtEnd /\ Advance /\ stack' = stack
         \/ Do(<<>>) /\ UNCHANGED lex
  BY DEF SynchronizeIfNull, Next_, Top, tree, Stops
<1>2. val \in NodeKinds \cup {"null"} /\ ~Maker(Top) /\ Top.do \notin {"until", "consume"}
  BY <1>1, NotMakers DEF BalanceInv, StackInv
<1>3. CASE Do(<<>>) /\ UNCHANGED lex
  BY <1>1, <1>2, <1>3, NoneIsFine, QuietDone DEF Neutral
<1>4. CASE val = "null" /\ ~IsAtEnd /\ Advance /\ stack' = stack
  <2>1. Head(stack) = stack[1] /\ 1 \in 1..Len(stack)
    BY <1>1, TopIs, ListIs
  <2>2. ~Guarded(stack)
    BY <1>1, <2>1 DEF Guarded, Top
  <2>3. faulty
    BY <1>1, <1>4, <2>2, TopIs
  <2>4. text' \in Seq(TokenTypes) /\ pos' \in Nat \ {0} /\ \A i \in 1..Len(text') : text'[i] # "EOF"
    BY <1>4, Advanced DEF IsAtEnd
  <2>. QED
    BY <1>1, <1>2, <1>4, <2>3, <2>4, TopIs, BalanceFrom
<1>. QED
  BY <1>1, <1>3, <1>4

\* Tests that fail are dropped from the top of the stack.
LEMMA Dropped ==
    ASSUME NEW s \in Seq(Steps), NEW m \in 1..Len(s), EndsInProgram(s),
           \A i \in 1..(m - 1) : TokenOf(s[i]) \notin Brackets /\ ~Maker(s[i])
    PROVE  LET v == SubSeq(s, m, Len(s))
           IN  /\ v \in Seq(Steps) /\ EndsInProgram(v)
               /\ Guarded(s) => Guarded(v)
               /\ \A b \in Seq(Marks) : OpenBehind(b, v) = OpenBehind(b, s)
<1>. DEFINE n == Len(s)
            u == SubSeq(s, 1, m - 1)
            v == SubSeq(s, m, n)
            w == u \o v
<1>1. n \in Nat \ {0} /\ m \in Nat /\ 1 <= m /\ m <= n
  BY ListIs DEF EndsInProgram
<1>2. u \in Seq(Steps) /\ Len(u) = m - 1 /\ \A i \in 1..(m - 1) : u[i] = s[i]
  BY <1>1
<1>3. v \in Seq(Steps) /\ Len(v) = n - m + 1 /\ \A i \in 1..(n - m + 1) : v[i] = s[m + i - 1]
  BY <1>1
<1>. HIDE DEF u, v, n
<1>4. /\ w \in Seq(Steps) /\ Len(w) = Len(u) + Len(v)
      /\ \A i \in 1..(Len(u) + Len(v)) : w[i] = IF i <= Len(u) THEN u[i] ELSE v[i - Len(u)]
  BY <1>2, <1>3, ConcatProperties
<1>. HIDE DEF w
<1>5. ASSUME NEW i \in 1..Len(w)
      PROVE  w[i] = s[i]
  <2>1. CASE i <= m - 1
    BY <1>1, <1>2, <1>3, <1>4, <2>1
  <2>2. CASE ~(i <= m - 1)
    <3>1. i - (m - 1) \in 1..(n - m + 1) /\ m + (i - (m - 1)) - 1 = i /\ i \in 1..(Len(u) + Len(v))
      BY <1>1, <1>2, <1>3, <1>4, <2>2
    <3>2. w[i] = v[i - (m - 1)]
      BY <1>2, <1>4, <2>2, <3>1
    <3>3. v[i - (m - 1)] = s[m + (i - (m - 1)) - 1]
      BY <1>3, <3>1
    <3>. QED
      BY <3>1, <3>2, <3>3
  <2>. QED
    BY <2>1, <2>2
<1>6. w = s
  <2>1. Len(w) = Len(s)
    BY <1>1, <1>2, <1>3, <1>4 DEF n
  <2>. QED
    BY <1>4, <1>5, <2>1, SeqEqual
<1>7. EndsInProgram(v)
  <2>. DEFINE k == n - m + 1
  <2>1. k \in 1..(n - m + 1) /\ m + k - 1 = n /\ Len(v) = k /\ k # 0
    BY <1>1, <1>3
  <2>2. v[k] = s[n]
    BY <1>3, <2>1
  <2>3. v # <<>>
    BY <2>1
  <2>. QED
    BY <2>1, <2>2, <2>3 DEF EndsInProgram, n
<1>8. ASSUME Guarded(s)
      PROVE  Guarded(v)
  <2>. SUFFICES ASSUME NEW i \in 1..Len(v), v[i].do = "synchronizeIfNull"
                PROVE  \E j \in 1..(i - 1) : Maker(v[j])
    BY DEF Guarded
  <2>1. m + i - 1 \in 1..Len(s) /\ i \in 1..(n - m + 1)
    BY <1>1, <1>3 DEF n
  <2>2. s[m + i - 1].do = "synchronizeIfNull"
    BY <1>3, <2>1
  <2>3. PICK j \in 1..((m + i - 1) - 1) : Maker(s[j])
    BY <1>8, <2>1, <2>2 DEF Guarded
  <2>4. j \notin 1..(m - 1)
    BY <2>3
  <2>5. j - m + 1 \in 1..(i - 1) /\ j - m + 1 \in 1..(n - m + 1) /\ m + (j - m + 1) - 1 = j
    BY <1>1, <2>1, <2>4
  <2>6. v[j - m + 1] = s[m + (j - m + 1) - 1]
    BY <1>3, <2>5
  <2>. QED
    BY <2>3, <2>5, <2>6
<1>9. ASSUME NEW b \in Seq(Marks)
      PROVE  OpenBehind(b, v) = OpenBehind(b, s)
  <2>1. \A i \in 1..Len(u) : TokenOf(u[i]) \notin Brackets
    BY <1>2
  <2>2. OpenBehind(b, u) = b
    BY <1>2, <2>1, QuietKeeps
  <2>3. OpenBehind(b, w) = OpenBehind(OpenBehind(b, u), v)
    BY <1>2, <1>3, OpenOfBoth DEF w
  <2>. QED
    BY <1>6, <2>2, <2>3
<1>. QED
  BY <1>3, <1>7, <1>8, <1>9 DEF v, n

LEMMA NotTakenKeeps ==
    ASSUME BalanceInv, NotTaken, Lookahead, UNCHANGED lexVars
    PROVE  BalanceInv'
<1>. DEFINE kept == {i \in DOMAIN stack : ~Fails(stack[i])}
<1>1. /\ stack # <<>> /\ UNCHANGED lex /\ val' = val /\ faulty' = faulty
      /\ stack' = IF kept = {} THEN <<>> ELSE SubSeq(stack, Min(kept), Len(stack))
  BY DEF NotTaken, tree, diag
<1>2. stack \in Seq(Steps) /\ EndsInProgram(stack) /\ Len(stack) \in 1..Len(stack)
      /\ DOMAIN stack = 1..Len(stack)
  BY <1>1, TopIs, ListIs
<1>3. /\ text' \in Seq(TokenTypes) /\ pos' \in Nat \ {0} /\ \A i \in 1..Len(text') : text'[i] # "EOF"
      /\ text' = text /\ pos' = pos /\ Behind' = Behind
  BY <1>1, Stayed
<1>4. val \in NodeKinds \cup {"null"}
  BY DEF BalanceInv, StackInv
\* A test that fails is no bracket and makes nothing.
<1>5. ASSUME NEW i \in 1..Len(stack), Fails(stack[i])
      PROVE  TokenOf(stack[i]) \notin Brackets /\ ~Maker(stack[i])
  <2>1. stack[i].do \in Tests
    BY <1>5 DEF Fails
  <2>. QED
    BY <2>1, TestsAre, OtherToken, NotMakers
<1>6. CASE kept = {}
  <2>1. \A i \in 1..Len(stack) : Fails(stack[i])
    BY <1>2, <1>6
  <2>2. Fails(Program)
    BY <1>2, <2>1 DEF EndsInProgram
  <2>3. IsAtEnd
    <3>. QED
      BY <2>2, ProgramIs DEF Fails, Taken
  <2>4. pos > Len(text)
    <3>1. text \in Seq(TokenTypes) /\ pos \in Nat \ {0} /\ \A i \in 1..Len(text) : text[i] # "EOF"
      BY <1>3
    <3>. QED
      BY <2>3, <3>1 DEF IsAtEnd, Tok
  <2>5. Lexed
    BY <1>3, <2>4 DEF Lookahead
  <2>6. IsAtEnd' /\ Lexed'
    BY <1>3, <2>3, <2>5 DEF IsAtEnd, Tok, Lexed, lexVars
  <2>7. OpenBehind(Behind, stack) = Behind
    BY <1>1, <1>2, <1>5, <2>1, TopIs, QuietKeeps
  <2>8. ~faulty' => pos' - 1 <= Len(text') /\ OpenBehind(Behind', <<>>) = <<>>
    BY <1>1, <1>3, <2>7, TopIs, NoneIsFine
  <2>. QED
    BY <1>1, <1>3, <1>4, <1>6, <2>6, <2>8, NoneIsFine, BalanceAtLast
<1>7. CASE kept # {}
  <2>. DEFINE m == Min(kept)
  <2>1. kept \subseteq Nat /\ kept \subseteq 1..Len(stack)
    BY <1>2
  <2>2. m \in kept /\ \A y \in kept : m <= y
    BY <1>7, <2>1, MinIs
  <2>3. \A i \in 1..Len(stack) : i \notin kept => Fails(stack[i])
    BY <1>2
  <2>. HIDE DEF kept, m
  <2>4. m \in 1..Len(stack)
    BY <2>1, <2>2
  <2>5. ASSUME NEW i \in 1..(m - 1)
        PROVE  TokenOf(stack[i]) \notin Brackets /\ ~Maker(stack[i])
    <3>1. i \in 1..Len(stack) /\ ~(m <= i)
      BY <2>4
    <3>. QED
      BY <1>5, <2>2, <2>3, <3>1
  <2>6. stack' = SubSeq(stack, m, Len(stack))
    BY <1>1, <1>7 DEF kept, m
  <2>7. /\ stack' \in Seq(Steps) /\ EndsInProgram(stack')
        /\ Guarded(stack) => Guarded(stack')
        /\ \A b \in Seq(Marks) : OpenBehind(b, stack') = OpenBehind(b, stack)
    BY <1>2, <2>4, <2>5, <2>6, Dropped
  <2>8. ~faulty' => pos' - 1 <= Len(text') /\ OpenBehind(Behind', stack') = <<>>
    BY <1>1, <1>3, <2>7, TopIs
  <2>9. val' = "null" /\ ~faulty' => Guarded(stack')
    BY <1>1, <2>7, TopIs
  <2>. QED
    BY <1>1, <1>3, <1>4, <2>7, <2>8, <2>9, BalanceFrom
<1>. QED
  BY <1>6, <1>7

\* What the lexer returns.
LEMMA TokenIs ==
    ASSUME Next_token
    PROVE  token'.type \in TokenTypes \cup {"EOF"}
<1>1. ASSUME NEW t, NEW e, Return(t, e)
      PROVE  token'.type = t
  BY <1>1 DEF Return, Token
<1>2. /\ Single \subseteq TokenTypes /\ Keywords \subseteq TokenTypes
      /\ \A c \in DOMAIN Joined : Joined[c] \in TokenTypes
      /\ "_" \in TokenTypes /\ "id" \in TokenTypes /\ "number literal" \in TokenTypes
      /\ "string literal" \in TokenTypes /\ "part" \in TokenTypes /\ "end" \in TokenTypes
      /\ "invalid" \in TokenTypes
  BY Zenon DEF TokenTypes
<1>3. CASE NextEnd
  BY <1>1, <1>3 DEF NextEnd, Plain
<1>4. CASE NextWord
  <2>1. ASSUME NEW w
        PROVE  CheckKeyword(w) \in TokenTypes
    BY <1>2, Zenon DEF CheckKeyword
  <2>2. PICK t, e : Return(t, e) /\ t \in TokenTypes
    BY <1>2, <1>4, <2>1, Zenon DEF NextWord, Plain
  <2>. QED
    BY <1>1, <2>2
<1>5. CASE NextSign
  <2>1. PICK t, e : Return(t, e) /\ t \in TokenTypes
    <3>1. First \in Single \cup {"&"}
      BY <1>5 DEF NextSign
    <3>. DEFINE two == First \in DOMAIN Second /\ Byte(Start.offset + 1) = Second[First]
                one == Bytes(1, Start)
    <3>2. CASE two
      <4>1. Return(Joined[First], [one EXCEPT !.offset = @ + 1])
        BY <1>5, <3>2, Zenon DEF NextSign
      <4>2. Joined[First] \in TokenTypes
        BY <1>2, <3>2, Zenon DEF Joined
      <4>. QED
        BY <4>1, <4>2
    <3>3. CASE ~two /\ First = "&"
      <4>1. Return("invalid", one)
        BY <1>5, <3>3, Zenon DEF NextSign
      <4>. QED
        BY <1>2, <4>1
    <3>4. CASE ~two /\ First # "&"
      <4>1. Return(First, one)
        BY <1>5, <3>4, Zenon DEF NextSign
      <4>. QED
        BY <1>2, <3>1, <3>4, <4>1, Zenon
    <3>. QED
      BY <3>2, <3>3, <3>4
  <2>. QED
    BY <1>1, <2>1
<1>6. CASE NextUnknown
  BY <1>1, <1>2, <1>6 DEF NextUnknown, Plain
<1>7. CASE NextString \/ NextResumed
  <2>1. PICK r, d, o : String(r, d, o)
    BY <1>7, Zenon DEF NextString, NextResumed
  <2>2. PICK t, e : Return(t, e) /\ t \in TokenTypes
    <3>. DEFINE stop == ScanString(Bytes(1, Start))
                by == Byte(stop.offset)
    <3>1. Return(CASE by = "EOF" -> "invalid"
                   [] by = "{" -> "part"
                   [] OTHER -> IF r THEN "end" ELSE "string literal",
                 IF by = "EOF" THEN stop ELSE Bytes(1, stop))
      BY <2>1, Zenon DEF String
    <3>. HIDE DEF by
    <3>2. (CASE by = "EOF" -> "invalid"
             [] by = "{" -> "part"
             [] OTHER -> IF r THEN "end" ELSE "string literal") \in TokenTypes
      BY <1>2, Zenon
    <3>. QED
      BY <3>1, <3>2
  <2>. QED
    BY <1>1, <2>2
<1>. QED
  BY <1>3, <1>4, <1>5, <1>6, <1>7 DEF Next_token

LEMMA PullKeeps ==
    ASSUME BalanceInv, Pull
    PROVE  BalanceInv'
<1>1. /\ ~Lookahead /\ Next_token /\ pos' = pos /\ stack' = stack /\ val' = val /\ faulty' = faulty
      /\ text' = IF token'.type = "EOF" THEN text ELSE Append(text, token'.type)
  BY DEF Pull, tree, diag
<1>2. /\ text \in Seq(TokenTypes) /\ pos \in Nat \ {0} /\ val \in NodeKinds \cup {"null"}
      /\ \A i \in 1..Len(text) : text[i] # "EOF"
  BY DEF BalanceInv, StackInv, EndInv
<1>3. stack # <<>>
  BY <1>1 DEF BalanceInv, EndInv, Lookahead
<1>4. /\ text' \in Seq(TokenTypes) /\ \A i \in 1..Len(text') : text'[i] # "EOF"
      /\ Len(text) <= Len(text') /\ \A i \in 1..Len(text) : text'[i] = text[i]
  <2>1. CASE token'.type = "EOF"
    BY <1>1, <1>2, <2>1
  <2>2. CASE token'.type # "EOF"
    <3>. PICK t : t = token'.type
      OBVIOUS
    <3>1. t \in TokenTypes /\ t # "EOF"
      BY <1>1, <2>2, TokenIs
    <3>2. text' = Append(text, t)
      BY <1>1, <2>2
    <3>3. /\ Append(text, t) \in Seq(TokenTypes) /\ Len(Append(text, t)) = Len(text) + 1
          /\ \A i \in 1..Len(text) : Append(text, t)[i] = text[i]
          /\ Append(text, t)[Len(text) + 1] = t
      BY <1>2, <3>1
    <3>. QED
      BY <1>2, <3>1, <3>2, <3>3
  <2>. QED
    BY <2>1, <2>2
<1>5. ~faulty => Behind' = Behind
  <2>. SUFFICES ASSUME ~faulty PROVE Behind' = Behind
    OBVIOUS
  <2>1. pos - 1 \in Nat /\ pos - 1 <= Len(text)
    BY <1>2, <1>3, TopIs
  <2>. PICK n, t, u : n = pos - 1 /\ t = text /\ u = text'
    OBVIOUS
  <2>2. \A i \in 1..n : t[i] = u[i]
    BY <1>2, <1>4, <2>1
  <2>3. <<>> \in Seq(Marks) /\ n \in Nat
    BY <2>1
  <2>4. Nesting(<<>>, t)[n] = Nesting(<<>>, u)[n]
    BY <2>2, <2>3, NestingOfBeginning
  <2>. QED
    BY <1>1, <2>4 DEF Behind
<1>6. ~faulty' => pos' - 1 <= Len(text') /\ OpenBehind(Behind', stack') = <<>>
  BY <1>1, <1>2, <1>3, <1>4, <1>5, TopIs
<1>. QED
  BY <1>1, <1>2, <1>3, <1>4, <1>6, TopIs, BalanceFrom

LEMMA BalanceAtFirst ==
    ASSUME Init
    PROVE  BalanceInv
<1>1. text = <<>> /\ pos = 1 /\ stack = <<Program>> /\ val = "null"
  BY DEF Init, ParserInit
<1>2. Program \in Steps /\ Program.do = "until"
  BY ProgramIs, Zenon DEF Steps, Compound, Repeats
<1>3. stack \in Seq(Steps) /\ stack # <<>> /\ Len(stack) = 1 /\ stack[1] = Program
  BY <1>1, <1>2
<1>4. StackInv
  BY <1>1, <1>3 DEF StackInv
<1>5. BracketsInv
  <2>1. <<>> \in Seq(Marks)
    OBVIOUS
  <2>2. Nesting(<<>>, text)[pos - 1] = <<>>
    <3>. PICK t : t = text
      OBVIOUS
    <3>1. Nesting(<<>>, t)[0] = <<>>
      BY <2>1, NestingIs
    <3>. QED
      BY <1>1, <3>1
  <2>3. OpenBehind(<<>>, <<Program>>) = <<>>
    BY <1>2, <2>1, OpenOfOne, OtherToken, QuietMeets
  <2>. QED
    BY <1>1, <2>2, <2>3 DEF BracketsInv
<1>6. NodeInv
  BY <1>2, <1>3 DEF NodeInv
<1>7. EndInv
  BY <1>1, <1>3 DEF EndInv
<1>. QED
  BY <1>4, <1>5, <1>6, <1>7 DEF BalanceInv

LEMMA BalanceKept ==
    ASSUME BalanceInv, [Next]_vars
    PROVE  BalanceInv'
<1>1. CASE Pull
  BY <1>1, PullKeeps
<1>2. CASE Parse
  BY <1>2, ConsumedKeeps, NotConsumedKeeps, EnterKeeps, MatchedKeeps, EnteredKeeps, NotTakenKeeps,
     MakeNodeKeeps, FaultKeeps, AssignKeeps, AssignToKeeps, SynchronizeKeeps DEF Parse, ParserNext
<1>3. CASE UNCHANGED vars
  BY <1>3 DEF vars, lexVars, parserVars, lex, tree, diag, BalanceInv, StackInv, BracketsInv, NodeInv,
     EndInv,
              IsAtEnd, Tok, Lexed
<1>. QED
  BY <1>1, <1>2, <1>3 DEF Next

\* The parser (consume, and all the functions that call it): a text for which nothing
\* was reported has matching brackets, for every source.  No function leaves a bracket
\* it has consumed without consuming its partner or calling error(), at no nesting of
\* calls, and synchronize, which skips tokens without a message, is never reached
\* before something was reported.
THEOREM CleanIsSound == Spec => []CleanIsBalanced
<1>1. Init => BalanceInv /\ FaultsAreReported
  BY BalanceAtFirst DEF Init, ParserInit, FaultsAreReported
<1>2. BalanceInv /\ FaultsAreReported /\ [Next]_vars => (BalanceInv /\ FaultsAreReported)'
  BY BalanceKept, FaultsStayReported
<1>3. BalanceInv /\ FaultsAreReported => CleanIsBalanced
  <2>. SUFFICES ASSUME BalanceInv, FaultsAreReported, Clean
                PROVE  Nesting(<<>>, text)[Len(text)] = <<>>
    BY DEF CleanIsBalanced
  <2>1. stack = <<>> /\ ~faulty
    BY DEF Clean, Parsed, HasErrors, FaultsAreReported
  <2>2. pos - 1 <= Len(text) /\ OpenBehind(Behind, <<>>) = <<>>
    BY <2>1 DEF BalanceInv, BracketsInv, Behind
  <2>3. Behind \in Seq(Marks)
    BY BehindIsList DEF BalanceInv, StackInv
  <2>4. Behind = <<>>
    BY <2>2, <2>3, NoneIsFine
  <2>5. pos - 1 = Len(text)
    <3>1. IsAtEnd /\ pos \in Nat \ {0} /\ text \in Seq(TokenTypes)
          /\ \A i \in 1..Len(text) : text[i] # "EOF"
      BY <2>1 DEF BalanceInv, EndInv, StackInv
    <3>. QED
      BY <2>2, <3>1 DEF IsAtEnd, Tok
  <2>. QED
    BY <2>4, <2>5 DEF Behind
<1>. QED
  BY <1>1, <1>2, <1>3, PTL DEF Spec
=============================================================================
