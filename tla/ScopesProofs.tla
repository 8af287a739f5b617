--------------------------- MODULE ScopesProofs -----------------------------
(***************************************************************************)
(* What three passes over one program make of its names.  Depth counts the *)
(* open marks before a mark; from it follow how what is opened is nested   *)
(* (InClose, OpenerIs), what stays open from one mark to the next          *)
(* (EnclosesEnter, EnclosesEnd, EnclosesSame), and with that which scopes  *)
(* a pass has on its stack (Homes).  The invariant has a part for each     *)
(* pass, which says what its table holds; Nearest says that who finds the  *)
(* innermost, last declaration finds what a reader means, unless a         *)
(* statement that opened no scope has ended.                               *)
(***************************************************************************)
EXTENDS Scopes, SequenceTheorems, FiniteSetTheorems, WellFoundedInduction, TLAPS

\* What the proofs need of a program.
Balanced(p) ==
    /\ Len(p) \in Nat /\ DOMAIN p = 1..Len(p)
    /\ \A i \in 1..(Len(p) + 1) : Depth(p, i) >= 0
    /\ Depth(p, Len(p) + 1) = 0

\* A set of natural numbers that is not empty has a least one.
LEMMA MinIs ==
    ASSUME NEW S \in SUBSET Nat, S # {}
    PROVE  Min(S) \in S /\ \A x \in S : Min(S) <= x
<1>. DEFINE R == OpToRel(<, Nat)
<1>1. IsWellFoundedOn(R, Nat)
  BY NatLessThanWellFounded
<1>2. \A x, y \in Nat : y < x => <<y, x>> \in R
  BY DEF OpToRel
<1>. HIDE DEF R
<1>3. PICK m \in S : \A y \in S : ~(<<y, m>> \in R)
  BY <1>1, WFMin
<1>4. \A y \in S : m <= y
  <2>. TAKE y \in S
  <2>1. m \in Nat /\ y \in Nat /\ ~(y < m)
    BY <1>2, <1>3
  <2>. QED
    BY <2>1
<1>. QED
  BY <1>4, Zenon DEF Min

\* A set of numbers with a bound has a greatest one.
LEMMA MaxIs ==
    ASSUME NEW S \in SUBSET Int, S # {}, NEW b \in Int, \A x \in S : x <= b
    PROVE  Max(S) \in S /\ \A x \in S : Max(S) >= x
<1>. DEFINE T == {b - x : x \in S}
<1>1. T \in SUBSET Nat /\ T # {}
  <2>1. PICK x \in S : TRUE
    OBVIOUS
  <2>2. b - x \in T
    OBVIOUS
  <2>. QED
    BY <2>2
<1>2. Min(T) \in T /\ \A y \in T : Min(T) <= y
  BY <1>1, MinIs
<1>3. PICK m \in S : Min(T) = b - m
  BY <1>2
<1>4. \A x \in S : m >= x
  <2>. TAKE x \in S
  <2>1. b - x \in T
    OBVIOUS
  <2>2. b - m <= b - x
    BY <1>2, <1>3, <2>1
  <2>3. m \in Int /\ x \in Int
    OBVIOUS
  <2>. QED
    BY <2>2, <2>3
<1>. QED
  BY <1>3, <1>4 DEF Max

\* Min is a least member.
LEMMA MinOfSome ==
    ASSUME NEW S \in SUBSET Nat, NEW x \in S
    PROVE  Min(S) \in S /\ Min(S) <= x
BY MinIs

-----------------------------------------------------------------------------
\* Depth counts the opened marks and takes off the closed ones.
LEMMA DepthStep ==
    ASSUME NEW p, NEW i \in Nat, i > 0, Depth(p, i) \in Int
    PROVE  Depth(p, i + 1) = IF p[i].mark \in Open THEN Depth(p, i) + 1
                             ELSE IF p[i].mark = "end" THEN Depth(p, i) - 1 ELSE Depth(p, i)
<1>. DEFINE A(k) == {j \in 1..(k - 1) : p[j].mark \in Open}
            B(k) == {j \in 1..(k - 1) : p[j].mark = "end"}
<1>1. ASSUME NEW k \in Nat
      PROVE  IsFiniteSet(A(k)) /\ IsFiniteSet(B(k)) /\ Cardinality(A(k)) \in Nat /\ Cardinality(B(k)) \in Nat
  <2>1. IsFiniteSet(1..(k - 1))
    BY FS_Interval
  <2>2. A(k) \in SUBSET (1..(k - 1)) /\ B(k) \in SUBSET (1..(k - 1))
    OBVIOUS
  <2>. HIDE DEF A, B
  <2>. QED
    BY <2>1, <2>2, FS_Subset, FS_CardinalityType
<1>2. A(i + 1) = IF p[i].mark \in Open THEN A(i) \union {i} ELSE A(i)
  OBVIOUS
<1>3. B(i + 1) = IF p[i].mark = "end" THEN B(i) \union {i} ELSE B(i)
  OBVIOUS
<1>4. i \notin A(i) /\ i \notin B(i)
  OBVIOUS
<1>5. ~(p[i].mark \in Open /\ p[i].mark = "end")
  BY DEF Open, Scoped
<1>6. \A k : Depth(p, k) = Cardinality(A(k)) - Cardinality(B(k))
  BY DEF Depth
<1>. HIDE DEF A, B
<1>7. Cardinality(A(i + 1)) = IF p[i].mark \in Open THEN Cardinality(A(i)) + 1 ELSE Cardinality(A(i))
  BY <1>1, <1>2, <1>4, FS_AddElement
<1>8. Cardinality(B(i + 1)) = IF p[i].mark = "end" THEN Cardinality(B(i)) + 1 ELSE Cardinality(B(i))
  BY <1>1, <1>3, <1>4, FS_AddElement
<1>. QED
  BY <1>1, <1>5, <1>6, <1>7, <1>8

\* Depth is a number wherever it is taken.
LEMMA DepthInt ==
    ASSUME NEW p, NEW i \in Nat
    PROVE  Depth(p, i) \in Int
<1>. DEFINE A == {j \in 1..(i - 1) : p[j].mark \in Open}
            B == {j \in 1..(i - 1) : p[j].mark = "end"}
<1>1. IsFiniteSet(1..(i - 1))
  BY FS_Interval
<1>2. A \in SUBSET (1..(i - 1)) /\ B \in SUBSET (1..(i - 1))
  OBVIOUS
<1>3. Depth(p, i) = Cardinality(A) - Cardinality(B)
  BY DEF Depth
<1>. HIDE DEF A, B
<1>4. Cardinality(A) \in Nat /\ Cardinality(B) \in Nat
  BY <1>1, <1>2, FS_Subset, FS_CardinalityType
<1>. QED
  BY <1>3, <1>4

\* Nothing is open before the first mark.
LEMMA DepthOne ==
    ASSUME NEW p
    PROVE  Depth(p, 1) = 0
<1>1. {j \in 1..(1 - 1) : p[j].mark \in Open} = {} /\ {j \in 1..(1 - 1) : p[j].mark = "end"} = {}
  OBVIOUS
<1>. QED
  BY <1>1, FS_EmptySet DEF Depth

\* DepthStep, for the marks of a program.
LEMMA DepthNext ==
    ASSUME NEW p, Balanced(p), NEW i \in 1..Len(p)
    PROVE  /\ Depth(p, i) \in Nat /\ Depth(p, i + 1) \in Nat
           /\ p[i].mark \in Open => Depth(p, i + 1) = Depth(p, i) + 1
           /\ p[i].mark = "end" => Depth(p, i + 1) = Depth(p, i) - 1
           /\ p[i].mark \notin Open /\ p[i].mark # "end" => Depth(p, i + 1) = Depth(p, i)
<1>1. i \in Nat /\ i + 1 \in Nat /\ i > 0 /\ i \in 1..(Len(p) + 1) /\ i + 1 \in 1..(Len(p) + 1)
  BY DEF Balanced
<1>2. Depth(p, i) \in Int /\ Depth(p, i + 1) \in Int
  BY <1>1, DepthInt
<1>3. Depth(p, i) >= 0 /\ Depth(p, i + 1) >= 0
  BY <1>1 DEF Balanced
<1>4. ~(p[i].mark \in Open /\ p[i].mark = "end")
  BY DEF Open, Scoped
<1>. QED
  BY <1>1, <1>2, <1>3, <1>4, DepthStep

\* Only an end leaves a depth, only an opening mark makes one.
LEMMA DepthFalls ==
    ASSUME NEW p, Balanced(p), NEW i \in 1..Len(p), Depth(p, i + 1) < Depth(p, i)
    PROVE  p[i].mark = "end" /\ Depth(p, i + 1) = Depth(p, i) - 1
<1>1. CASE p[i].mark \in Open
  BY <1>1, DepthNext
<1>2. CASE p[i].mark \notin Open /\ p[i].mark # "end"
  BY <1>2, DepthNext
<1>. QED
  BY <1>1, <1>2, DepthNext

\* Only an opening mark raises Depth, and by one.
LEMMA DepthRises ==
    ASSUME NEW p, Balanced(p), NEW i \in 1..Len(p), Depth(p, i + 1) > Depth(p, i)
    PROVE  p[i].mark \in Open /\ Depth(p, i + 1) = Depth(p, i) + 1
<1>1. CASE p[i].mark = "end"
  BY <1>1, DepthNext
<1>2. CASE p[i].mark \notin Open /\ p[i].mark # "end"
  BY <1>2, DepthNext
<1>. QED
  BY <1>1, <1>2, DepthNext

\* In a balanced program Depth is never negative.
LEMMA DepthNat ==
    ASSUME NEW p, Balanced(p), NEW i \in 1..(Len(p) + 1)
    PROVE  Depth(p, i) \in Nat
<1>1. i \in Nat
  BY DEF Balanced
<1>. QED
  BY <1>1, DepthInt DEF Balanced

-----------------------------------------------------------------------------
\* What is opened is closed, by the first end that leaves its depth.
LEMMA CloseIs ==
    ASSUME Balanced(prog), NEW o \in 1..Len(prog), prog[o].mark \in Open
    PROVE  /\ Close(o) \in (o + 1)..Len(prog) /\ prog[Close(o)].mark = "end"
           /\ Depth(prog, Close(o)) = Depth(prog, o) + 1
           /\ \A j \in (o + 1)..Close(o) : Depth(prog, j) > Depth(prog, o)
<1>. DEFINE N == Len(prog)
            D(i) == Depth(prog, i)
            K == {j \in (o + 1)..(N + 1) : D(j) <= D(o)}
            C == {j \in (o + 1)..N : prog[j].mark = "end" /\ D(j) = D(o) + 1}
<1>1. N \in Nat /\ D(N + 1) = 0 /\ D(o) \in Nat /\ D(o + 1) = D(o) + 1
  BY DepthNext DEF Balanced
<1>2. \A j \in 1..(N + 1) : D(j) \in Nat
  BY DepthNat
<1>3. N + 1 \in K /\ K \in SUBSET Nat
  BY <1>1
<1>. DEFINE k == Min(K)
            c == k - 1
<1>4. k \in K /\ \A j \in K : k <= j
  BY <1>3, MinIs
<1>5. k # o + 1
  BY <1>1, <1>4
<1>6. c \in (o + 1)..N /\ c \notin K /\ D(c) > D(o) /\ D(c + 1) <= D(o)
  <2>. HIDE DEF k
  <2>1. c \in (o + 1)..N /\ c + 1 = k /\ c \notin K
    BY <1>1, <1>4, <1>5
  <2>. QED
    BY <1>1, <1>2, <1>4, <2>1
<1>7. c \in C
  <2>1. c \in 1..N /\ c \in (o + 1)..N
    BY <1>6
  <2>2. D(c) \in Nat /\ D(c + 1) < D(c)
    BY <1>1, <1>2, <1>6, <2>1
  <2>. HIDE DEF c, K
  <2>3. prog[c].mark = "end" /\ D(c + 1) = D(c) - 1
    BY <2>1, <2>2, DepthFalls
  <2>4. D(c) = D(o) + 1
    BY <1>1, <1>6, <2>2, <2>3
  <2>. QED
    BY <2>1, <2>3, <2>4
<1>8. Close(o) = Min(C)
  BY <1>1 DEF Close, Level
<1>9. C \in SUBSET Nat
  OBVIOUS
<1>10. Min(C) \in C /\ Min(C) <= c
  <2>. HIDE DEF C, c
  <2>. QED
    BY <1>7, <1>9, MinOfSome
<1>11. \A j \in (o + 1)..Close(o) : D(j) > D(o)
  <2>. TAKE j \in (o + 1)..Close(o)
  <2>1. j \in (o + 1)..(N + 1) /\ j < k
    BY <1>4, <1>6, <1>8, <1>10
  <2>2. j \notin K
    BY <1>4, <2>1
  <2>. QED
    BY <1>1, <1>2, <2>1, <2>2
<1>. QED
  BY <1>8, <1>10, <1>11

\* A mark encloses what stands before its end.
LEMMA InClose ==
    ASSUME Balanced(prog), NEW o \in 1..Len(prog), prog[o].mark \in Open, NEW i \in 1..(Len(prog) + 1)
    PROVE  Encloses(prog, o, i) <=> o < i /\ i <= Close(o)
<1>. DEFINE c == Close(o)
<1>1. /\ c \in (o + 1)..Len(prog) /\ prog[c].mark = "end" /\ Depth(prog, c) = Depth(prog, o) + 1
      /\ \A j \in (o + 1)..c : Depth(prog, j) > Depth(prog, o)
  BY CloseIs
<1>2. Depth(prog, o) \in Nat /\ Depth(prog, c + 1) = Depth(prog, o)
  <2>. HIDE DEF c
  <2>1. c \in 1..Len(prog)
    BY <1>1
  <2>2. Depth(prog, o) \in Nat /\ Depth(prog, c + 1) = Depth(prog, c) - 1
    BY <1>1, <2>1, DepthNext
  <2>. QED
    BY <1>1, <2>2
<1>. HIDE DEF c
<1>3. ASSUME Encloses(prog, o, i), ~(i <= c)
      PROVE  FALSE
  <2>1. c + 1 \in (o + 1)..i
    BY <1>1, <1>3
  <2>. QED
    BY <1>2, <1>3, <2>1 DEF Encloses
<1>4. ASSUME o < i, i <= c
      PROVE  Encloses(prog, o, i)
  BY <1>1, <1>4 DEF Encloses
<1>. QED
  BY <1>3, <1>4 DEF c, Encloses

\* Below what is open, the innermost open mark is the last one at the depth above.
LEMMA OpenerIs ==
    ASSUME Balanced(prog), NEW a \in 1..(Len(prog) + 1), Depth(prog, a) > 0
    PROVE  /\ Opener(a) \in 1..(a - 1) /\ Encloses(prog, Opener(a), a)
           /\ Depth(prog, Opener(a)) = Depth(prog, a) - 1
<1>. DEFINE N == Len(prog)
            D(i) == Depth(prog, i)
            T == {t \in 1..a : D(t) <= D(a) - 1}
            Q == {j \in 1..(a - 1) : prog[j].mark \in Open /\ D(j) = D(a) - 1}
            m == Max(T)
<1>1. \A j \in 1..(N + 1) : D(j) \in Nat
  BY DepthNat
<1>2. N \in Nat /\ D(a) \in Nat /\ D(1) = 0
  BY <1>1, DepthOne DEF Balanced
<1>3. 1 \in T /\ T \in SUBSET Int /\ \A x \in T : x <= a
  BY <1>2
<1>4. m \in T /\ \A x \in T : m >= x
  <2>1. T # {} /\ a \in Int
    BY <1>2, <1>3
  <2>. HIDE DEF T
  <2>. QED
    BY <1>3, <2>1, MaxIs
<1>5. m \in 1..(a - 1) /\ D(m) <= D(a) - 1 /\ \A t \in (m + 1)..a : D(t) > D(a) - 1
  <2>. HIDE DEF m
  <2>1. m \in 1..(a - 1) /\ D(m) <= D(a) - 1
    BY <1>2, <1>4
  <2>2. ASSUME NEW t \in (m + 1)..a
        PROVE  D(t) > D(a) - 1
    BY <1>1, <1>2, <1>4, <2>1, <2>2
  <2>. QED
    BY <2>1, <2>2
<1>. HIDE DEF m, T
<1>6. prog[m].mark \in Open /\ D(m) = D(a) - 1
  <2>1. m \in 1..N /\ m + 1 \in (m + 1)..a
    BY <1>2, <1>5
  <2>2. D(m) \in Nat /\ D(m + 1) \in Nat
    BY <1>1, <1>2, <2>1
  <2>3. D(m + 1) > D(a) - 1 /\ D(m + 1) > D(m)
    BY <1>2, <1>5, <2>1, <2>2
  <2>4. prog[m].mark \in Open /\ D(m + 1) = D(m) + 1
    BY <2>1, <2>3, DepthRises
  <2>. QED
    BY <1>2, <1>5, <2>2, <2>3, <2>4
<1>7. m \in Q /\ \A q \in Q : q <= m
  <2>1. m \in Q
    BY <1>5, <1>6
  <2>2. ASSUME NEW q \in Q, q > m
        PROVE  FALSE
    <3>1. q \in (m + 1)..a /\ D(q) = D(a) - 1
      BY <1>5, <2>2
    <3>. QED
      BY <1>2, <1>5, <3>1
  <2>. QED
    BY <2>1, <2>2
<1>8. Q \in SUBSET Int /\ \A x \in Q : x <= a
  OBVIOUS
<1>9. Max(Q) \in Q /\ \A x \in Q : Max(Q) >= x
  <2>. HIDE DEF Q
  <2>. QED
    BY <1>7, <1>8, MaxIs
<1>10. Max(Q) = m
  <2>. HIDE DEF Q
  <2>1. Max(Q) \in Int /\ m \in Int /\ Max(Q) >= m /\ Max(Q) <= m
    BY <1>7, <1>8, <1>9
  <2>. QED
    BY <2>1
<1>11. Opener(a) = m
  BY <1>10 DEF Opener, Level
<1>. QED
  BY <1>2, <1>5, <1>6, <1>11 DEF Encloses

-----------------------------------------------------------------------------
\* Of two marks that enclose a third, the first encloses the second.
LEMMA EnclosesChain ==
    ASSUME NEW p, Balanced(p), NEW i \in 1..(Len(p) + 1), NEW o \in 1..Len(p), NEW q \in 1..Len(p),
           Encloses(p, o, i), Encloses(p, q, i), o < q
    PROVE  Encloses(p, o, q) /\ Depth(p, o) < Depth(p, q)
<1>1. Depth(p, o) \in Nat /\ Depth(p, q) \in Nat /\ Len(p) \in Nat
  BY DepthNat DEF Balanced
<1>. QED
  BY <1>1 DEF Encloses

\* What encloses what encloses.
LEMMA EnclosesTrans ==
    ASSUME NEW p, Balanced(p), NEW i \in 1..(Len(p) + 1), NEW o \in 1..Len(p), NEW q \in 1..Len(p),
           Encloses(p, o, q), Encloses(p, q, i)
    PROVE  Encloses(p, o, i) /\ Depth(p, o) < Depth(p, i)
<1>1. Len(p) \in Nat /\ o < q /\ q < i /\ p[o].mark \in Open
  BY DEF Balanced, Encloses
<1>2. \A j \in 1..(Len(p) + 1) : Depth(p, j) \in Nat
  BY DepthNat
<1>3. Depth(p, q) > Depth(p, o)
  BY <1>1 DEF Encloses
<1>4. ASSUME NEW j \in (o + 1)..i
      PROVE  Depth(p, j) > Depth(p, o)
  <2>1. CASE j <= q
    BY <1>1, <2>1 DEF Encloses
  <2>2. CASE j > q
    <3>1. Depth(p, j) > Depth(p, q)
      BY <1>1, <2>2 DEF Encloses
    <3>. QED
      BY <1>1, <1>2, <1>3, <3>1
  <2>. QED
    BY <1>1, <2>1, <2>2
<1>. QED
  BY <1>1, <1>4 DEF Encloses

\* Between two marks of one depth, with nothing above that depth closed.
LEMMA EnclosesSame ==
    ASSUME NEW p, Balanced(p), NEW a \in 1..(Len(p) + 1), NEW b \in 1..(Len(p) + 1), a <= b,
           Depth(p, a) = Depth(p, b), \A j \in a..b : Depth(p, j) >= Depth(p, a), NEW o \in Nat
    PROVE  o > 0 /\ Encloses(p, o, b) <=> o > 0 /\ Encloses(p, o, a)
<1>1. Len(p) \in Nat
  BY DEF Balanced
<1>2. \A j \in 1..(Len(p) + 1) : Depth(p, j) \in Nat
  BY DepthNat
<1>3. ASSUME o > 0, Encloses(p, o, a)
      PROVE  Encloses(p, o, b)
  <2>1. o < a /\ p[o].mark \in Open /\ Depth(p, a) > Depth(p, o)
    BY <1>1, <1>3 DEF Encloses
  <2>2. ASSUME NEW j \in (o + 1)..b
        PROVE  Depth(p, j) > Depth(p, o)
    <3>1. CASE j <= a
      BY <1>1, <1>3, <3>1 DEF Encloses
    <3>2. CASE j > a
      <4>1. Depth(p, j) >= Depth(p, a)
        BY <1>1, <2>1, <3>2
      <4>. QED
        BY <1>1, <1>2, <1>3, <2>1, <3>2, <4>1
    <3>. QED
      BY <1>1, <3>1, <3>2
  <2>. QED
    BY <1>1, <2>1, <2>2 DEF Encloses
<1>4. ASSUME o > 0, Encloses(p, o, b)
      PROVE  Encloses(p, o, a)
  <2>1. o < b /\ p[o].mark \in Open /\ Depth(p, b) > Depth(p, o)
    BY <1>1, <1>4 DEF Encloses
  <2>2. o < a
    <3>. SUFFICES ASSUME ~(o < a) PROVE FALSE
      OBVIOUS
    <3>1. Depth(p, o) >= Depth(p, a)
      BY <1>1, <2>1
    <3>. QED
      BY <1>1, <1>2, <1>4, <2>1, <3>1
  <2>. QED
    BY <1>1, <1>4, <2>1, <2>2 DEF Encloses
<1>. QED
  BY <1>3, <1>4

\* What is open behind an opening mark, behind an end and behind another one.
LEMMA EnclosesEnter ==
    ASSUME NEW p, Balanced(p), NEW a \in 1..Len(p), p[a].mark \in Open, NEW o \in Nat
    PROVE  o > 0 /\ Encloses(p, o, a + 1) <=> o = a \/ (o > 0 /\ Encloses(p, o, a))
<1>1. Len(p) \in Nat
  BY DEF Balanced
<1>2. Depth(p, a) \in Nat /\ Depth(p, a + 1) = Depth(p, a) + 1
  BY DepthNext
<1>3. CASE o = a
  BY <1>1, <1>2, <1>3 DEF Encloses
<1>4. ASSUME o # a, o > 0, Encloses(p, o, a + 1)
      PROVE  Encloses(p, o, a)
  BY <1>1, <1>4 DEF Encloses
<1>5. ASSUME o # a, o > 0, Encloses(p, o, a)
      PROVE  Encloses(p, o, a + 1)
  <2>1. o \in 1..(Len(p) + 1) /\ Depth(p, o) \in Nat /\ o < a /\ Depth(p, a) > Depth(p, o)
    BY <1>1, <1>5, DepthNat DEF Encloses
  <2>. QED
    BY <1>1, <1>2, <1>5, <2>1 DEF Encloses
<1>. QED
  BY <1>1, <1>3, <1>4, <1>5

\* A mark that neither opens nor closes leaves open what was open.
LEMMA EnclosesPlain ==
    ASSUME NEW p, Balanced(p), NEW a \in 1..Len(p), p[a].mark \notin Open, p[a].mark # "end", NEW o \in Nat
    PROVE  o > 0 /\ Encloses(p, o, a + 1) <=> o > 0 /\ Encloses(p, o, a)
<1>1. Len(p) \in Nat /\ a + 1 \in 1..(Len(p) + 1) /\ a \in 1..(Len(p) + 1) /\ a <= a + 1
  BY DEF Balanced
<1>2. Depth(p, a) \in Nat /\ Depth(p, a + 1) = Depth(p, a)
  BY DepthNext
<1>3. \A j \in a..(a + 1) : Depth(p, j) >= Depth(p, a)
  BY <1>1, <1>2
<1>. DEFINE b == a + 1
<1>. HIDE DEF b
<1>4. o > 0 /\ Encloses(p, o, b) <=> o > 0 /\ Encloses(p, o, a)
  BY <1>1, <1>2, <1>3, EnclosesSame DEF b
<1>. QED
  BY <1>4 DEF b

\* At an end something is open; its innermost mark is the last to enclose it.
LEMMA OpenerLast ==
    ASSUME Balanced(prog), NEW a \in 1..(Len(prog) + 1), Depth(prog, a) > 0
    PROVE  /\ Opener(a) \in 1..(a - 1) /\ Opener(a) \in 1..Len(prog) /\ Encloses(prog, Opener(a), a)
           /\ Depth(prog, Opener(a)) = Depth(prog, a) - 1
           /\ \A o \in 1..(a - 1) : Encloses(prog, o, a) => o <= Opener(a)
<1>1. Len(prog) \in Nat
  BY DEF Balanced
<1>. DEFINE q == Opener(a)
<1>2. q \in 1..(a - 1) /\ Encloses(prog, q, a) /\ Depth(prog, q) = Depth(prog, a) - 1
  BY OpenerIs
<1>. HIDE DEF q
<1>3. ASSUME NEW o \in 1..(a - 1), Encloses(prog, o, a), o > q
      PROVE  FALSE
  <2>1. q \in 1..Len(prog) /\ o \in 1..Len(prog) /\ q < o
    BY <1>1, <1>2, <1>3
  <2>2. Depth(prog, q) < Depth(prog, o)
    BY <1>2, <1>3, <2>1, EnclosesChain
  <2>3. Depth(prog, o) < Depth(prog, a) /\ Depth(prog, o) \in Nat /\ Depth(prog, a) \in Nat
    BY <1>1, <1>3, <2>1, DepthNat DEF Encloses
  <2>. QED
    BY <1>2, <2>2, <2>3
<1>. QED
  BY <1>1, <1>2, <1>3 DEF q

\* An end closes its opener and leaves the rest open.
LEMMA EnclosesEnd ==
    ASSUME Balanced(prog), NEW a \in 1..Len(prog), prog[a].mark = "end", NEW o \in Nat
    PROVE  o > 0 /\ Encloses(prog, o, a + 1) <=> o > 0 /\ Encloses(prog, o, a) /\ o # Opener(a)
<1>1. Len(prog) \in Nat /\ a \in 1..(Len(prog) + 1)
  BY DEF Balanced
<1>2. Depth(prog, a) \in Nat /\ Depth(prog, a + 1) = Depth(prog, a) - 1 /\ Depth(prog, a) > 0
  BY DepthNext
<1>. DEFINE q == Opener(a)
<1>3. /\ q \in 1..(a - 1) /\ q \in 1..Len(prog) /\ Encloses(prog, q, a)
      /\ Depth(prog, q) = Depth(prog, a) - 1
      /\ \A x \in 1..(a - 1) : Encloses(prog, x, a) => x <= q
  BY <1>1, <1>2, OpenerLast
<1>. HIDE DEF q
<1>4. ASSUME o > 0, Encloses(prog, o, a + 1)
      PROVE  Encloses(prog, o, a) /\ o # q
  <2>1. o < a + 1 /\ prog[o].mark \in Open /\ Depth(prog, a + 1) > Depth(prog, o)
    BY <1>1, <1>4 DEF Encloses
  <2>2. o # a
    <3>1. "end" \notin Open
      BY DEF Open, Scoped
    <3>. QED
      BY <2>1, <3>1
  <2>. QED
    BY <1>1, <1>2, <1>3, <1>4, <2>1, <2>2 DEF Encloses
<1>5. ASSUME o > 0, Encloses(prog, o, a), o # q
      PROVE  Encloses(prog, o, a + 1)
  <2>1. o < a /\ prog[o].mark \in Open
    BY <1>5 DEF Encloses
  <2>2. o \in 1..Len(prog) /\ o < q
    BY <1>1, <1>3, <1>5, <2>1
  <2>3. Depth(prog, o) < Depth(prog, q) /\ Depth(prog, o) \in Nat
    BY <1>1, <1>3, <1>5, <2>2, EnclosesChain, DepthNat
  <2>4. Depth(prog, a + 1) > Depth(prog, o)
    BY <1>2, <1>3, <2>3
  <2>. QED
    BY <1>1, <1>5, <2>1, <2>4 DEF Encloses
<1>. QED
  BY <1>4, <1>5 DEF q

\* Behind its end, what encloses a mark still does.
LEMMA EnclosesSkip ==
    ASSUME Balanced(prog), NEW a \in 1..Len(prog), prog[a].mark \in Open, NEW o \in Nat
    PROVE  o > 0 /\ Encloses(prog, o, Close(a) + 1) <=> o > 0 /\ Encloses(prog, o, a)
<1>. DEFINE c == Close(a)
            b == c + 1
<1>1. /\ c \in (a + 1)..Len(prog) /\ prog[c].mark = "end" /\ Depth(prog, c) = Depth(prog, a) + 1
      /\ \A j \in (a + 1)..c : Depth(prog, j) > Depth(prog, a)
  BY CloseIs
<1>. HIDE DEF c
<1>2. Len(prog) \in Nat /\ c \in 1..Len(prog) /\ a \in 1..(Len(prog) + 1) /\ b \in 1..(Len(prog) + 1) /\ a <= b
  BY <1>1 DEF Balanced
<1>3. Depth(prog, a) \in Nat /\ Depth(prog, c + 1) = Depth(prog, c) - 1
  BY <1>1, <1>2, DepthNext
<1>4. Depth(prog, b) = Depth(prog, a)
  BY <1>1, <1>3
<1>5. ASSUME NEW j \in a..b
      PROVE  Depth(prog, j) >= Depth(prog, a)
  <2>1. CASE j = a
    BY <1>3, <2>1
  <2>2. CASE j = b
    BY <1>3, <1>4, <2>2
  <2>3. CASE j # a /\ j # b
    <3>1. j \in (a + 1)..c /\ j \in 1..(Len(prog) + 1)
      BY <1>1, <1>2, <2>3
    <3>2. Depth(prog, j) > Depth(prog, a) /\ Depth(prog, j) \in Nat
      BY <1>1, <3>1, DepthNat
    <3>. QED
      BY <1>3, <3>2
  <2>. QED
    BY <2>1, <2>2, <2>3
<1>. HIDE DEF b
<1>6. o > 0 /\ Encloses(prog, o, b) <=> o > 0 /\ Encloses(prog, o, a)
  BY <1>2, <1>4, <1>5, EnclosesSame
<1>. QED
  BY <1>6 DEF b, c

\* And so it does at the end of what directly encloses it.
LEMMA EnclosesOut ==
    ASSUME Balanced(prog), NEW q \in 1..Len(prog), NEW a \in 1..Len(prog), Encloses(prog, q, a),
           Depth(prog, a) = Depth(prog, q) + 1, NEW o \in Nat
    PROVE  o > 0 /\ Encloses(prog, o, Close(q)) <=> o > 0 /\ Encloses(prog, o, a)
<1>. DEFINE c == Close(q)
<1>0. prog[q].mark \in Open
  BY DEF Encloses
<1>1. /\ c \in (q + 1)..Len(prog) /\ prog[c].mark = "end" /\ Depth(prog, c) = Depth(prog, q) + 1
      /\ \A j \in (q + 1)..c : Depth(prog, j) > Depth(prog, q)
  BY <1>0, CloseIs
<1>2. Len(prog) \in Nat /\ c \in 1..Len(prog) /\ a \in 1..(Len(prog) + 1) /\ c \in 1..(Len(prog) + 1)
  BY <1>1 DEF Balanced
<1>3. q < a /\ a <= c
  BY <1>0, <1>2, InClose
<1>. HIDE DEF c
<1>4. Depth(prog, c) = Depth(prog, a)
  BY <1>1
<1>5. ASSUME NEW j \in a..c
      PROVE  Depth(prog, j) >= Depth(prog, a)
  <2>1. j \in (q + 1)..c /\ j \in 1..(Len(prog) + 1) /\ q \in 1..(Len(prog) + 1)
    BY <1>1, <1>2, <1>3
  <2>2. Depth(prog, j) > Depth(prog, q) /\ Depth(prog, j) \in Nat /\ Depth(prog, q) \in Nat
    BY <1>1, <2>1, DepthNat
  <2>. QED
    BY <2>2
<1>6. o > 0 /\ Encloses(prog, o, c) <=> o > 0 /\ Encloses(prog, o, a)
  BY <1>2, <1>3, <1>4, <1>5, EnclosesSame
<1>. QED
  BY <1>6 DEF c

-----------------------------------------------------------------------------
\* The marks of the kinds S that are open at i.
Outer(p, S, i) == {o \in 1..(i - 1) : p[o].mark \in S /\ Encloses(p, o, i)}
\* The scope a variable declared at i is in, where marks of the kinds S open one.
HomeIn(p, S, i) == IF p[i].mark \in {"fn", "lambda"} THEN i ELSE Max({0} \union Outer(p, S, i))

\* Outer is what encloses a mark, of the kinds asked for.
LEMMA OuterIs ==
    ASSUME NEW p, Balanced(p), NEW S, NEW i \in 1..(Len(p) + 1), NEW o
    PROVE  o \in Outer(p, S, i) <=> o \in Nat /\ p[o].mark \in S /\ o > 0 /\ Encloses(p, o, i)
<1>1. Len(p) \in Nat
  BY DEF Balanced
<1>. QED
  BY <1>1 DEF Outer, Encloses

\* Behind an opening mark it is open too.
LEMMA OuterEnter ==
    ASSUME Balanced(prog), NEW S \in SUBSET Open, NEW a \in 1..Len(prog), prog[a].mark \in S
    PROVE  Outer(prog, S, a + 1) = Outer(prog, S, a) \union {a}
<1>1. Len(prog) \in Nat /\ a \in 1..(Len(prog) + 1) /\ a + 1 \in 1..(Len(prog) + 1) /\ a \in Nat /\ a > 0
  BY DEF Balanced
<1>2. prog[a].mark \in Open
  OBVIOUS
<1>. DEFINE b == a + 1
<1>3. ASSUME NEW o
      PROVE  o \in Outer(prog, S, b) <=> o \in Outer(prog, S, a) \union {a}
  <2>1. o \in Outer(prog, S, b) <=> o \in Nat /\ prog[o].mark \in S /\ o > 0 /\ Encloses(prog, o, b)
    BY <1>1, OuterIs
  <2>2. o \in Outer(prog, S, a) <=> o \in Nat /\ prog[o].mark \in S /\ o > 0 /\ Encloses(prog, o, a)
    BY <1>1, OuterIs
  <2>3. o \in Nat => (o > 0 /\ Encloses(prog, o, b) <=> o = a \/ (o > 0 /\ Encloses(prog, o, a)))
    BY <1>2, EnclosesEnter
  <2>. HIDE DEF b
  <2>. QED
    BY <1>1, <2>1, <2>2, <2>3
<1>. QED
  BY <1>3

\* A mark that is neither an end nor of the kinds S.
LEMMA OuterPass ==
    ASSUME Balanced(prog), NEW S \in SUBSET Open, NEW a \in 1..Len(prog), prog[a].mark \notin S,
           prog[a].mark # "end"
    PROVE  Outer(prog, S, a + 1) = Outer(prog, S, a)
<1>1. Len(prog) \in Nat /\ a \in 1..(Len(prog) + 1) /\ a + 1 \in 1..(Len(prog) + 1) /\ a \in Nat /\ a > 0
  BY DEF Balanced
<1>. DEFINE b == a + 1
<1>3. ASSUME NEW o
      PROVE  o \in Outer(prog, S, b) <=> o \in Outer(prog, S, a)
  <2>1. o \in Outer(prog, S, b) <=> o \in Nat /\ prog[o].mark \in S /\ o > 0 /\ Encloses(prog, o, b)
    BY <1>1, OuterIs
  <2>2. o \in Outer(prog, S, a) <=> o \in Nat /\ prog[o].mark \in S /\ o > 0 /\ Encloses(prog, o, a)
    BY <1>1, OuterIs
  <2>3. o \in Nat /\ o # a => (o > 0 /\ Encloses(prog, o, b) <=> o > 0 /\ Encloses(prog, o, a))
    BY EnclosesEnter, EnclosesPlain
  <2>. HIDE DEF b
  <2>. QED
    BY <1>1, <2>1, <2>2, <2>3
<1>. QED
  BY <1>3

\* An end.
LEMMA OuterEnd ==
    ASSUME Balanced(prog), NEW S \in SUBSET Open, NEW a \in 1..Len(prog), prog[a].mark = "end"
    PROVE  /\ Outer(prog, S, a + 1) = Outer(prog, S, a) \ {Opener(a)}
           /\ prog[Opener(a)].mark \in S => Opener(a) \in Outer(prog, S, a)
           /\ \A o \in Outer(prog, S, a) : o <= Opener(a)
           /\ Opener(a) \in 1..Len(prog) /\ prog[Opener(a)].mark \in Open
           /\ Opener(a) < a /\ Close(Opener(a)) = a
<1>1. Len(prog) \in Nat /\ a \in 1..(Len(prog) + 1) /\ a + 1 \in 1..(Len(prog) + 1) /\ a \in Nat /\ a > 0
  BY DEF Balanced
<1>. DEFINE b == a + 1
            q == Opener(a)
<1>2. Depth(prog, a) \in Nat /\ Depth(prog, b) = Depth(prog, a) - 1 /\ Depth(prog, a) > 0
  BY DepthNext
<1>3. /\ q \in 1..(a - 1) /\ q \in 1..Len(prog) /\ Encloses(prog, q, a)
      /\ Depth(prog, q) = Depth(prog, a) - 1
      /\ \A x \in 1..(a - 1) : Encloses(prog, x, a) => x <= q
  BY <1>1, <1>2, OpenerLast
<1>4. ASSUME NEW o
      PROVE  o \in Outer(prog, S, b) <=> o \in Outer(prog, S, a) \ {q}
  <2>1. o \in Outer(prog, S, b) <=> o \in Nat /\ prog[o].mark \in S /\ o > 0 /\ Encloses(prog, o, b)
    BY <1>1, OuterIs
  <2>2. o \in Outer(prog, S, a) <=> o \in Nat /\ prog[o].mark \in S /\ o > 0 /\ Encloses(prog, o, a)
    BY <1>1, OuterIs
  <2>3. o \in Nat => (o > 0 /\ Encloses(prog, o, b) <=> o > 0 /\ Encloses(prog, o, a) /\ o # q)
    BY EnclosesEnd
  <2>. HIDE DEF b, q
  <2>. QED
    BY <1>1, <2>1, <2>2, <2>3
<1>. HIDE DEF q
<1>5. prog[q].mark \in S => q \in Outer(prog, S, a)
  BY <1>3 DEF Outer
<1>6. \A o \in Outer(prog, S, a) : o <= q
  BY <1>3 DEF Outer
<1>7. prog[q].mark \in Open /\ q < a
  BY <1>1, <1>3 DEF Encloses
<1>8. Close(q) = a
  <2>1. a <= Close(q) /\ Close(q) \in (q + 1)..Len(prog) /\ prog[Close(q)].mark = "end"
    BY <1>1, <1>3, <1>7, InClose, CloseIs
  <2>2. ~Encloses(prog, q, b)
    <3>1. q \in Nat
      BY <1>1, <1>3
    <3>. QED
      BY <3>1, <1>3, EnclosesEnd DEF q
  <2>3. ~(b <= Close(q))
    <3>1. q < b /\ b \in 1..(Len(prog) + 1)
      BY <1>1, <1>7, <1>3
    <3>. QED
      BY <1>3, <1>7, <2>2, <3>1, InClose
  <2>. QED
    BY <1>1, <2>1, <2>3
<1>. QED
  BY <1>3, <1>4, <1>5, <1>6, <1>7, <1>8 DEF q

\* What is skipped.
LEMMA OuterSkip ==
    ASSUME Balanced(prog), NEW S \in SUBSET Open, NEW a \in 1..Len(prog), prog[a].mark \in Open
    PROVE  /\ Close(a) + 1 \in 1..(Len(prog) + 1)
           /\ Outer(prog, S, Close(a) + 1) = Outer(prog, S, a)
<1>. DEFINE b == Close(a) + 1
<1>1. Len(prog) \in Nat /\ a \in 1..(Len(prog) + 1) /\ b \in 1..(Len(prog) + 1)
  BY CloseIs DEF Balanced
<1>2. ASSUME NEW o
      PROVE  o \in Outer(prog, S, b) <=> o \in Outer(prog, S, a)
  <2>1. o \in Outer(prog, S, b) <=> o \in Nat /\ prog[o].mark \in S /\ o > 0 /\ Encloses(prog, o, b)
    BY <1>1, OuterIs
  <2>2. o \in Outer(prog, S, a) <=> o \in Nat /\ prog[o].mark \in S /\ o > 0 /\ Encloses(prog, o, a)
    BY <1>1, OuterIs
  <2>3. o \in Nat => (o > 0 /\ Encloses(prog, o, b) <=> o > 0 /\ Encloses(prog, o, a))
    BY EnclosesSkip
  <2>. HIDE DEF b
  <2>. QED
    BY <2>1, <2>2, <2>3
<1>. QED
  BY <1>1, <1>2

\* Where what is opened last closes, the same marks are open as just behind its contents.
LEMMA OuterOut ==
    ASSUME Balanced(prog), NEW S \in SUBSET Open, NEW a \in 1..Len(prog), NEW q \in 1..Len(prog),
           Encloses(prog, q, a), Depth(prog, a) = Depth(prog, q) + 1
    PROVE  /\ Close(q) \in 1..Len(prog) /\ a <= Close(q) /\ Opener(a) = q
           /\ Outer(prog, S, Close(q)) = Outer(prog, S, a)
<1>. DEFINE b == Close(q)
<1>1. /\ Len(prog) \in Nat /\ a \in 1..(Len(prog) + 1) /\ b \in 1..Len(prog) /\ b \in 1..(Len(prog) + 1)
      /\ a <= b
  <2>1. prog[q].mark \in Open /\ a \in 1..(Len(prog) + 1) /\ Len(prog) \in Nat
    BY DEF Encloses, Balanced
  <2>2. a <= b
    BY <2>1, InClose
  <2>. QED
    BY <2>1, <2>2, CloseIs
<1>2. ASSUME NEW o
      PROVE  o \in Outer(prog, S, b) <=> o \in Outer(prog, S, a)
  <2>1. o \in Outer(prog, S, b) <=> o \in Nat /\ prog[o].mark \in S /\ o > 0 /\ Encloses(prog, o, b)
    BY <1>1, OuterIs
  <2>2. o \in Outer(prog, S, a) <=> o \in Nat /\ prog[o].mark \in S /\ o > 0 /\ Encloses(prog, o, a)
    BY <1>1, OuterIs
  <2>3. o \in Nat => (o > 0 /\ Encloses(prog, o, b) <=> o > 0 /\ Encloses(prog, o, a))
    BY EnclosesOut
  <2>. HIDE DEF b
  <2>. QED
    BY <2>1, <2>2, <2>3
<1>3. Opener(a) = q
  <2>1. Depth(prog, q) \in Nat /\ Depth(prog, a) > 0
    BY <1>1, DepthNat
  <2>2. /\ Opener(a) \in 1..(a - 1) /\ Opener(a) \in 1..Len(prog) /\ Encloses(prog, Opener(a), a)
        /\ Depth(prog, Opener(a)) = Depth(prog, a) - 1
        /\ \A o \in 1..(a - 1) : Encloses(prog, o, a) => o <= Opener(a)
    BY <1>1, <2>1, OpenerLast
  <2>3. q <= Opener(a)
    <3>1. q \in 1..(a - 1)
      BY <1>1 DEF Encloses
    <3>. QED
      BY <2>2, <3>1
  <2>4. ~(q < Opener(a))
    BY <1>1, <2>1, <2>2, EnclosesChain
  <2>. QED
    BY <1>1, <2>2, <2>3, <2>4
<1>. QED
  BY <1>1, <1>2, <1>3

-----------------------------------------------------------------------------
\* h are the n scopes open at i where marks of the kinds S open one: the whole
\* program's, 0, and the others from the outermost to the innermost.
Homes(p, S, i, h, n) ==
    /\ n > 0 /\ h[1] = 0
    /\ \A j, k \in 1..n : j < k => h[j] < h[k]
    /\ \A k \in 2..n : h[k] \in Outer(p, S, i)
    /\ \A o \in Outer(p, S, i) : \E k \in 2..n : h[k] = o

\* Entering a scope puts its mark on the stack of homes.
LEMMA HomesEnter ==
    ASSUME Balanced(prog), NEW S \in SUBSET Open, NEW a \in 1..Len(prog), prog[a].mark \in S,
           NEW n \in Nat, NEW h \in [1..n -> 0..Len(prog)], Homes(prog, S, a, h, n)
    PROVE  LET g == [k \in 1..(n + 1) |-> IF k <= n THEN h[k] ELSE a]
           IN  g \in [1..(n + 1) -> 0..Len(prog)] /\ Homes(prog, S, a + 1, g, n + 1)
<1>. DEFINE g == [k \in 1..(n + 1) |-> IF k <= n THEN h[k] ELSE a]
<1>1. Outer(prog, S, a + 1) = Outer(prog, S, a) \union {a}
  BY OuterEnter
<1>2. Len(prog) \in Nat /\ a \in Nat /\ a > 0 /\ n > 0 /\ h[1] = 0
  BY DEF Balanced, Homes
<1>3. \A o \in Outer(prog, S, a) : o < a
  BY <1>2 DEF Outer
<1>4. \A k \in 1..n : g[k] = h[k]
  BY <1>2
<1>5. g[n + 1] = a
  BY <1>2
<1>6. g \in [1..(n + 1) -> 0..Len(prog)]
  BY <1>2
<1>. HIDE DEF g
<1>7. \A k \in 1..n : h[k] < a /\ h[k] \in Nat
  <2>. TAKE k \in 1..n
  <2>1. CASE k = 1
    BY <1>2, <2>1
  <2>2. CASE k # 1
    <3>1. k \in 2..n
      BY <2>2
    <3>. QED
      BY <1>2, <1>3, <3>1 DEF Homes
  <2>. QED
    BY <2>1, <2>2
<1>8. \A j, k \in 1..(n + 1) : j < k => g[j] < g[k]
  <2>. SUFFICES ASSUME NEW j \in 1..(n + 1), NEW k \in 1..(n + 1), j < k
                PROVE  g[j] < g[k]
    OBVIOUS
  <2>1. j \in 1..n
    BY <1>2
  <2>2. CASE k = n + 1
    BY <1>4, <1>5, <1>7, <2>1, <2>2
  <2>3. CASE k \in 1..n
    BY <1>4, <2>1, <2>3 DEF Homes
  <2>. QED
    BY <1>2, <2>2, <2>3
<1>9. \A k \in 2..(n + 1) : g[k] \in Outer(prog, S, a + 1)
  <2>. TAKE k \in 2..(n + 1)
  <2>1. CASE k = n + 1
    BY <1>1, <1>5, <2>1
  <2>2. CASE k \in 2..n
    BY <1>1, <1>4, <2>2 DEF Homes
  <2>. QED
    BY <1>2, <2>1, <2>2
<1>10. \A o \in Outer(prog, S, a + 1) : \E k \in 2..(n + 1) : g[k] = o
  <2>. TAKE o \in Outer(prog, S, a + 1)
  <2>1. CASE o = a
    BY <1>2, <1>5, <2>1
  <2>2. CASE o \in Outer(prog, S, a)
    <3>1. PICK k \in 2..n : h[k] = o
      BY <2>2 DEF Homes
    <3>2. k \in 2..(n + 1) /\ g[k] = o
      BY <1>2, <1>4, <3>1
    <3>. QED
      BY <3>2
  <2>. QED
    BY <1>1, <2>1, <2>2
<1>11. Homes(prog, S, a + 1, g, n + 1)
  BY <1>2, <1>4, <1>8, <1>9, <1>10 DEF Homes
<1>. QED
  BY <1>6, <1>11 DEF g

\* Leaving a scope takes from the stack of homes the mark that is closed.
LEMMA HomesLeave ==
    ASSUME Balanced(prog), NEW S \in SUBSET Open, NEW a \in 1..Len(prog), prog[a].mark = "end",
           prog[Opener(a)].mark \in S,
           NEW n \in Nat, NEW h \in [1..n -> 0..Len(prog)], Homes(prog, S, a, h, n)
    PROVE  LET g == [k \in 1..(n - 1) |-> h[k]]
           IN  /\ n - 1 \in Nat /\ n - 1 > 0 /\ h[n] = Opener(a)
               /\ g \in [1..(n - 1) -> 0..Len(prog)] /\ Homes(prog, S, a + 1, g, n - 1)
<1>. DEFINE g == [k \in 1..(n - 1) |-> h[k]]
            q == Opener(a)
<1>1. /\ Outer(prog, S, a + 1) = Outer(prog, S, a) \ {q}
      /\ q \in Outer(prog, S, a) /\ \A o \in Outer(prog, S, a) : o <= q
      /\ q \in 1..Len(prog)
  BY OuterEnd
<1>. HIDE DEF q
<1>2. PICK k \in 2..n : h[k] = q
  BY <1>1 DEF Homes
<1>3. k = n
  <2>1. ASSUME k < n
        PROVE  FALSE
    <3>1. n \in 2..n /\ k \in 1..n /\ n \in 1..n
      BY <2>1
    <3>2. h[n] \in Outer(prog, S, a) /\ h[k] < h[n]
      BY <2>1, <3>1 DEF Homes
    <3>3. h[n] <= q
      BY <1>1, <3>2
    <3>4. h[n] \in Nat /\ q \in Nat
      BY <1>1, <3>1
    <3>. QED
      BY <1>2, <3>2, <3>3, <3>4
  <2>. QED
    BY <2>1
<1>4. n - 1 \in Nat /\ n - 1 > 0 /\ h[n] = q /\ g \in [1..(n - 1) -> 0..Len(prog)]
  BY <1>2, <1>3
<1>5. \A j \in 1..(n - 1) : g[j] = h[j]
  OBVIOUS
<1>. HIDE DEF g
<1>6. \A j \in 1..(n - 1) : h[j] # q
  BY <1>1, <1>4 DEF Homes
<1>7. Homes(prog, S, a + 1, g, n - 1)
  <2>1. n - 1 > 0 /\ g[1] = 0 /\ \A i, j \in 1..(n - 1) : i < j => g[i] < g[j]
    BY <1>4, <1>5 DEF Homes
  <2>2. \A j \in 2..(n - 1) : g[j] \in Outer(prog, S, a + 1)
    BY <1>1, <1>4, <1>5, <1>6 DEF Homes
  <2>3. \A o \in Outer(prog, S, a + 1) : \E j \in 2..(n - 1) : g[j] = o
    <3>. TAKE o \in Outer(prog, S, a + 1)
    <3>1. PICK j \in 2..n : h[j] = o
      BY <1>1 DEF Homes
    <3>2. j # n
      BY <1>1, <1>4, <3>1
    <3>. QED
      BY <1>4, <1>5, <3>1, <3>2
  <2>. QED
    BY <2>1, <2>2, <2>3 DEF Homes
<1>. QED
  BY <1>4, <1>7 DEF g, q

\* The stack of homes fits wherever the same marks are open.
LEMMA HomesSame ==
    ASSUME NEW p, NEW S, NEW a, NEW b, NEW h, NEW n, Outer(p, S, b) = Outer(p, S, a), Homes(p, S, a, h, n)
    PROVE  Homes(p, S, b, h, n)
BY DEF Homes

\* The innermost scope is where a declaration at i goes.
LEMMA HomesTop ==
    ASSUME NEW p, Balanced(p), NEW S, NEW i \in 1..(Len(p) + 1), NEW n \in Nat,
           NEW h \in [1..n -> 0..Len(p)], Homes(p, S, i, h, n)
    PROVE  h[n] = Max({0} \union Outer(p, S, i))
<1>. DEFINE T == {0} \union Outer(p, S, i)
<1>1. Len(p) \in Nat /\ n \in 1..n /\ h[n] \in Nat
  BY DEF Balanced, Homes
<1>2. T \in SUBSET Int /\ T # {} /\ i \in Int /\ \A x \in T : x <= i
  BY <1>1 DEF Outer
<1>3. h[n] \in T
  <2>1. CASE n = 1
    BY <2>1 DEF Homes
  <2>2. CASE n # 1
    BY <1>1, <2>2 DEF Homes
  <2>. QED
    BY <2>1, <2>2
<1>4. \A x \in T : x <= h[n]
  <2>. TAKE x \in T
  <2>1. CASE x = 0
    BY <1>1, <2>1
  <2>2. CASE x \in Outer(p, S, i)
    <3>1. PICK k \in 2..n : h[k] = x
      BY <2>2 DEF Homes
    <3>2. CASE k = n
      BY <1>1, <3>1, <3>2
    <3>3. CASE k < n
      <4>1. k \in 1..n /\ h[k] < h[n] /\ h[k] \in Nat
        BY <1>1, <3>1, <3>3 DEF Homes
      <4>. QED
        BY <1>1, <3>1, <4>1
    <3>. QED
      BY <1>1, <3>1, <3>2, <3>3
  <2>. QED
    BY <2>1, <2>2
<1>. HIDE DEF T
<1>5. Max(T) \in T /\ \A x \in T : Max(T) >= x
  BY <1>2, MaxIs
<1>6. Max(T) \in Int /\ Max(T) >= h[n] /\ Max(T) <= h[n]
  BY <1>2, <1>3, <1>4, <1>5
<1>. QED
  BY <1>1, <1>6 DEF T

\* And it is one of the scopes open there, at least as far in as any other.
LEMMA HomeInIs ==
    ASSUME NEW p, Balanced(p), NEW S, NEW i \in 1..Len(p)
    PROVE  /\ HomeIn(p, S, i) \in 0..i
           /\ p[i].mark \notin {"fn", "lambda"} => HomeIn(p, S, i) \in {0} \union Outer(p, S, i)
           /\ p[i].mark \in {"fn", "lambda"} => HomeIn(p, S, i) = i
           /\ \A o \in Outer(p, S, i) : o <= HomeIn(p, S, i)
<1>. DEFINE T == {0} \union Outer(p, S, i)
<1>1. Len(p) \in Nat /\ i \in Nat
  BY DEF Balanced
<1>2. T \in SUBSET Int /\ T # {} /\ i \in Int /\ \A x \in T : x <= i /\ x >= 0
  BY <1>1 DEF Outer
<1>. HIDE DEF T
<1>3. Max(T) \in T /\ \A x \in T : Max(T) >= x
  BY <1>2, MaxIs
<1>4. \A o \in Outer(p, S, i) : o \in T
  BY DEF T
<1>5. CASE p[i].mark \in {"fn", "lambda"}
  <2>1. HomeIn(p, S, i) = i
    BY <1>5 DEF HomeIn
  <2>2. \A o \in Outer(p, S, i) : o <= i
    BY <1>2, <1>4
  <2>. QED
    BY <1>1, <1>5, <2>1, <2>2
<1>6. CASE p[i].mark \notin {"fn", "lambda"}
  <2>1. HomeIn(p, S, i) = Max(T)
    BY <1>6 DEF HomeIn, T
  <2>2. Max(T) \in 0..i /\ \A x \in T : x <= Max(T)
    <3>1. Max(T) \in Int /\ Max(T) <= i /\ Max(T) >= 0
      BY <1>2, <1>3
    <3>2. \A x \in T : x <= Max(T)
      <4>. TAKE x \in T
      <4>1. x \in Int /\ Max(T) >= x
        BY <1>2, <1>3
      <4>. QED
        BY <3>1, <4>1
    <3>. QED
      BY <1>1, <3>1, <3>2
  <2>. QED
    BY <1>3, <1>4, <1>6, <2>1, <2>2 DEF T
<1>. QED
  BY <1>5, <1>6

-----------------------------------------------------------------------------
\* What a reader sees as scopes, what makes one for the generator, and what the
\* resolver does not look into.
Homed == {"block", "for", "fn", "lambda", "match"}
Frames == {"block", "fn", "lambda"}
Hidden == {"match", "text", "unwrap"}

\* How the kinds of opening marks are related.
LEMMA Kinds == /\ Homed \in SUBSET Open /\ Hidden \in SUBSET Open /\ Scoped \in SUBSET Open
               /\ Frames \in SUBSET Scoped /\ Scoped \in SUBSET Homed /\ Frames \in SUBSET Open
               /\ "fn" \in Frames /\ "lambda" \in Frames /\ "match" \in Homed /\ "match" \in Hidden
               /\ "text" \in Hidden /\ "unwrap" \in Hidden /\ "end" \notin Open
               /\ Homed \ Scoped = {"match"} /\ Homed \ Frames = {"for", "match"}
               /\ Open = Scoped \union Hidden /\ Scoped \intersect Hidden = {}
BY DEF Homed, Frames, Hidden, Scoped, Open

\* A sequence has a length and is defined up to it.
LEMMA SequenceHas ==
    ASSUME NEW R, NEW s \in Seq(R)
    PROVE  Len(s) \in Nat /\ DOMAIN s = 1..Len(s)
OBVIOUS

\* What the parser builds is balanced.
LEMMA WellFormedBalanced ==
    ASSUME NEW p, WellFormed(p)
    PROVE  Balanced(p)
<1>1. PICK R : R = [mark : STRING, name : Names \union {""}, type : STRING, count : Nat,
                    param : Names \union {""}]
  OBVIOUS
<1>2. p \in Seq(R)
  BY <1>1 DEF WellFormed
<1>3. Len(p) \in Nat /\ DOMAIN p = 1..Len(p)
  BY <1>2, SequenceHas
<1>4. (\A i \in 1..(Len(p) + 1) : Depth(p, i) >= 0) /\ Depth(p, Len(p) + 1) = 0
  BY DEF WellFormed
<1>. QED
  BY <1>3, <1>4 DEF Balanced

\* What declares a name is a declaration or a function.
LEMMA Declaring ==
    ASSUME NEW d, NEW n, Declares(d, n)
    PROVE  /\ prog[d].mark # "end"
           /\ prog[d].mark = "declare" \/ prog[d].mark \in {"fn", "lambda"}
BY DEF Declares

\* The operators of the reader's view are Outer with the kinds of marks that make a home, or hide.
LEMMA AroundIs ==
    ASSUME Balanced(prog), NEW i \in 1..Len(prog), prog[i].mark # "end"
    PROVE  /\ Around(i) = Outer(prog, Homed, i) /\ Home(i) = HomeIn(prog, Homed, i)
           /\ Unseen(i) <=> \E o \in Outer(prog, Hidden, i) : TRUE
<1>1. Len(prog) \in Nat /\ i \in 1..(Len(prog) + 1)
  BY DEF Balanced
<1>2. ASSUME NEW o \in 1..(i - 1), prog[o].mark \in Open
      PROVE  i < Close(o) <=> Encloses(prog, o, i)
  <2>1. o \in 1..Len(prog)
    BY <1>1
  <2>2. Encloses(prog, o, i) <=> o < i /\ i <= Close(o)
    BY <1>1, <1>2, <2>1, InClose
  <2>3. Close(o) \in 1..Len(prog) /\ prog[Close(o)].mark = "end"
    BY <1>1, <1>2, <2>1, CloseIs
  <2>. QED
    BY <1>1, <2>1, <2>2, <2>3
<1>3. Around(i) = Outer(prog, Homed, i)
  <2>1. \A o : o \in Around(i) <=> o \in 1..(i - 1) /\ prog[o].mark \in Homed /\ i < Close(o)
    BY DEF Around, Homed
  <2>2. \A o : o \in Outer(prog, Homed, i) <=> o \in 1..(i - 1) /\ prog[o].mark \in Homed /\ Encloses(prog, o, i)
    BY DEF Outer
  <2>3. \A o : o \in Around(i) <=> o \in Outer(prog, Homed, i)
    BY <1>2, <2>1, <2>2, Kinds
  <2>. QED
    BY <2>3
<1>4. Unseen(i) <=> \E o \in Outer(prog, Hidden, i) : TRUE
  <2>1. Unseen(i) <=> \E o \in 1..(i - 1) : prog[o].mark \in Hidden /\ i < Close(o)
    BY DEF Unseen, Hidden
  <2>. QED
    BY <1>2, <2>1, Kinds DEF Outer
<1>. QED
  BY <1>3, <1>4 DEF Home, HomeIn

\* How a scope a pass makes lies in those a reader sees.
LEMMA HomeNests ==
    ASSUME Balanced(prog), NEW S \in SUBSET Homed, Frames \subseteq S, NEW d \in 1..Len(prog),
           NEW i \in 1..Len(prog), HomeIn(prog, Homed, d) \in {0} \union Outer(prog, Homed, i)
    PROVE  /\ HomeIn(prog, S, d) \in {0} \union Outer(prog, S, i)
           /\ HomeIn(prog, S, d) <= HomeIn(prog, Homed, d)
           /\ \A o \in Outer(prog, S, i) : o <= HomeIn(prog, Homed, d) => o <= HomeIn(prog, S, d)
<1>. DEFINE x == HomeIn(prog, Homed, d)
            g == HomeIn(prog, S, d)
<1>1. /\ x \in 0..d
      /\ prog[d].mark \notin {"fn", "lambda"} => x \in {0} \union Outer(prog, Homed, d)
      /\ prog[d].mark \in {"fn", "lambda"} => x = d
      /\ \A o \in Outer(prog, Homed, d) : o <= x
  BY HomeInIs
<1>2. /\ g \in 0..d
      /\ prog[d].mark \notin {"fn", "lambda"} => g \in {0} \union Outer(prog, S, d)
      /\ prog[d].mark \in {"fn", "lambda"} => g = d
      /\ \A o \in Outer(prog, S, d) : o <= g
  BY HomeInIs
<1>3. Len(prog) \in Nat /\ d \in 1..(Len(prog) + 1) /\ i \in 1..(Len(prog) + 1) /\ x \in {0} \union Outer(prog, Homed, i)
  BY DEF Balanced
<1>. HIDE DEF x, g
<1>4. ASSUME NEW o, NEW k \in 1..Len(prog)
      PROVE  /\ o \in Outer(prog, Homed, k) <=> o \in 1..(k - 1) /\ prog[o].mark \in Homed /\ Encloses(prog, o, k)
             /\ o \in Outer(prog, S, k) <=> o \in 1..(k - 1) /\ prog[o].mark \in S /\ Encloses(prog, o, k)
  BY DEF Outer
<1>5. CASE prog[d].mark \in {"fn", "lambda"}
  <2>1. x = d /\ g = d /\ prog[d].mark \in S
    BY <1>1, <1>2, <1>5, Kinds
  <2>2. d \in Outer(prog, S, i)
    BY <1>3, <1>4, <2>1
  <2>. QED
    BY <1>3, <2>1, <2>2 DEF x, g
<1>6. CASE prog[d].mark \notin {"fn", "lambda"}
  <2>1. x \in {0} \union Outer(prog, Homed, d) /\ g \in {0} \union Outer(prog, S, d)
    BY <1>1, <1>2, <1>6
  <2>2. g <= x
    <3>1. CASE g = 0
      BY <1>1, <3>1
    <3>2. CASE g \in Outer(prog, S, d)
      BY <1>1, <1>4, <3>2
    <3>. QED
      BY <2>1, <3>1, <3>2
  <2>3. g \in {0} \union Outer(prog, S, i)
    <3>. SUFFICES ASSUME g # 0 PROVE g \in Outer(prog, S, i)
      OBVIOUS
    <3>1. g \in 1..(d - 1) /\ prog[g].mark \in S /\ Encloses(prog, g, d)
      BY <1>4, <2>1
    <3>2. x # 0 /\ x \in 1..(d - 1) /\ Encloses(prog, x, d) /\ x \in 1..(i - 1) /\ Encloses(prog, x, i)
      BY <1>1, <1>3, <1>4, <2>1, <2>2, <3>1
    <3>3. g \in 1..Len(prog) /\ x \in 1..Len(prog)
      BY <1>3, <3>1, <3>2
    <3>4. CASE g = x
      BY <1>4, <3>1, <3>2, <3>4
    <3>5. CASE g < x
      <4>1. Encloses(prog, g, x)
        BY <1>3, <3>1, <3>2, <3>3, <3>5, EnclosesChain
      <4>2. Encloses(prog, g, i) /\ g < i
        BY <1>3, <3>2, <3>3, <3>5, <4>1, EnclosesTrans
      <4>. QED
        BY <1>3, <1>4, <3>1, <4>2
    <3>. QED
      BY <2>2, <3>3, <3>4, <3>5
  <2>4. ASSUME NEW o \in Outer(prog, S, i), o <= x
        PROVE  o <= g
    <3>1. o \in 1..(i - 1) /\ prog[o].mark \in S /\ Encloses(prog, o, i)
      BY <1>4
    <3>2. x # 0 /\ x \in 1..(d - 1) /\ Encloses(prog, x, d) /\ x \in 1..(i - 1) /\ Encloses(prog, x, i)
      BY <1>3, <1>4, <2>1, <2>4, <3>1
    <3>3. o \in 1..Len(prog) /\ x \in 1..Len(prog)
      BY <1>3, <3>1, <3>2
    <3>4. CASE o = x
      BY <1>2, <1>4, <3>1, <3>2, <3>4
    <3>5. CASE o < x
      <4>1. Encloses(prog, o, x)
        BY <1>3, <3>1, <3>2, <3>3, <3>5, EnclosesChain
      <4>2. Encloses(prog, o, d) /\ o < d
        BY <1>3, <3>2, <3>3, <3>5, <4>1, EnclosesTrans
      <4>3. o \in Outer(prog, S, d)
        BY <1>3, <1>4, <3>1, <3>3, <4>2
      <4>. QED
        BY <1>2, <4>3
    <3>. QED
      BY <2>4, <3>3, <3>4, <3>5
  <2>. QED
    BY <2>2, <2>3, <2>4 DEF x, g
<1>. QED
  BY <1>5, <1>6

\* A mark a reader's scope is in encloses, or is, that scope, and so encloses what
\* that scope does.
LEMMA HomeInside ==
    ASSUME Balanced(prog), NEW d \in 1..Len(prog), NEW i \in 1..Len(prog), NEW o \in 1..Len(prog),
           Encloses(prog, o, d), o <= HomeIn(prog, Homed, d),
           HomeIn(prog, Homed, d) \in {0} \union Outer(prog, Homed, i)
    PROVE  Encloses(prog, o, i) /\ o < i
<1>. DEFINE x == HomeIn(prog, Homed, d)
<1>1. /\ x \in 0..d
      /\ prog[d].mark \notin {"fn", "lambda"} => x \in {0} \union Outer(prog, Homed, d)
      /\ prog[d].mark \in {"fn", "lambda"} => x = d
  BY HomeInIs
<1>2. Len(prog) \in Nat /\ d \in 1..(Len(prog) + 1) /\ i \in 1..(Len(prog) + 1) /\ o <= x /\ x \in {0} \union Outer(prog, Homed, i)
  BY DEF Balanced
<1>. HIDE DEF x
<1>3. x \in 1..(i - 1) /\ x \in 1..Len(prog) /\ Encloses(prog, x, i)
  BY <1>2 DEF Outer
<1>4. CASE o = x
  BY <1>2, <1>3, <1>4
<1>5. CASE o < x
  <2>1. Encloses(prog, o, x)
    <3>1. CASE x = d
      BY <3>1
    <3>2. CASE x # d
      <4>1. x \in Outer(prog, Homed, d)
        BY <1>1, <1>3, <3>2
      <4>2. Encloses(prog, x, d)
        BY <4>1 DEF Outer
      <4>. QED
        BY <1>2, <1>3, <1>5, <4>2, EnclosesChain
    <3>. QED
      BY <3>1, <3>2
  <2>. QED
    BY <1>2, <1>3, <1>5, <2>1, EnclosesTrans
<1>. QED
  BY <1>2, <1>3, <1>4, <1>5

\* A reader sees the earlier declarations of a name whose homes are open.
LEMMA VisibleIs ==
    ASSUME Balanced(prog), NEW i \in 1..Len(prog), prog[i].mark # "end", NEW d
    PROVE  d \in Visible(i) <=> /\ d \in 1..(i - 1) /\ d \in 1..Len(prog) /\ Declares(d, prog[i].name)
                                /\ HomeIn(prog, Homed, d) \in {0} \union Outer(prog, Homed, i)
<1>1. Len(prog) \in Nat /\ Around(i) = Outer(prog, Homed, i)
  BY AroundIs DEF Balanced
<1>2. d \in 1..(i - 1) => d \in 1..Len(prog)
  BY <1>1
<1>3. d \in 1..Len(prog) /\ Declares(d, prog[i].name) => Home(d) = HomeIn(prog, Homed, d)
  BY AroundIs, Declaring
<1>. QED
  BY <1>1, <1>2, <1>3 DEF Visible

\* What a name means.
LEMMA MeantIs ==
    ASSUME Balanced(prog), NEW i \in 1..Len(prog), prog[i].mark # "end"
    PROVE  /\ Visible(i) # {} =>
                /\ Meant(i) \in Visible(i) /\ Meant(i) > 0
                /\ \A d \in Visible(i) : /\ HomeIn(prog, Homed, d) <= HomeIn(prog, Homed, Meant(i))
                                         /\ HomeIn(prog, Homed, d) = HomeIn(prog, Homed, Meant(i)) => d <= Meant(i)
           /\ Visible(i) = {} =>
                LET named == {f \in Functions : prog[f].name = prog[i].name}
                IN  /\ named # {} => Meant(i) = -Max(named) /\ Meant(i) < 0
                    /\ named = {} => Meant(i) = Nothing
<1>. DEFINE H == {Home(d) : d \in Visible(i)}
            named == {f \in Functions : prog[f].name = prog[i].name}
            top == {d \in Visible(i) : Home(d) = Max(H)}
<1>1. Meant(i) = IF H # {} THEN Max(top) ELSE IF named # {} THEN -Max(named) ELSE Nothing
  BY DEF Meant
<1>2. Len(prog) \in Nat /\ i \in Int /\ DOMAIN prog = 1..Len(prog)
  BY DEF Balanced
<1>3. \A d \in Visible(i) : /\ d \in 1..(i - 1) /\ d \in 1..Len(prog)
                            /\ Home(d) = HomeIn(prog, Homed, d) /\ Home(d) \in 0..d
  <2>. TAKE d \in Visible(i)
  <2>1. d \in 1..(i - 1) /\ d \in 1..Len(prog) /\ Declares(d, prog[i].name)
    BY VisibleIs
  <2>2. Home(d) = HomeIn(prog, Homed, d)
    BY <2>1, AroundIs, Declaring
  <2>. QED
    BY <2>1, <2>2, HomeInIs
<1>4. ASSUME Visible(i) # {}
      PROVE  /\ Meant(i) \in Visible(i) /\ Meant(i) > 0
             /\ \A d \in Visible(i) : /\ HomeIn(prog, Homed, d) <= HomeIn(prog, Homed, Meant(i))
                                      /\ HomeIn(prog, Homed, d) = HomeIn(prog, Homed, Meant(i)) => d <= Meant(i)
  <2>1. H # {} /\ H \in SUBSET Int /\ \A x \in H : x <= i
    BY <1>2, <1>3, <1>4
  <2>. HIDE DEF H
  <2>2. Max(H) \in H /\ \A x \in H : Max(H) >= x
    BY <1>2, <2>1, MaxIs
  <2>3. top # {} /\ top \in SUBSET Int /\ \A x \in top : x <= i
    <3>1. PICK d \in Visible(i) : Home(d) = Max(H)
      BY <2>2 DEF H
    <3>. QED
      BY <1>2, <1>3, <3>1
  <2>. HIDE DEF top
  <2>4. Max(top) \in top /\ \A x \in top : Max(top) >= x
    BY <1>2, <2>3, MaxIs
  <2>5. Meant(i) = Max(top)
    BY <1>1, <2>1
  <2>6. Meant(i) \in Visible(i) /\ Home(Meant(i)) = Max(H)
    BY <2>4, <2>5 DEF top
  <2>7. ASSUME NEW d \in Visible(i)
        PROVE  /\ HomeIn(prog, Homed, d) <= HomeIn(prog, Homed, Meant(i))
               /\ HomeIn(prog, Homed, d) = HomeIn(prog, Homed, Meant(i)) => d <= Meant(i)
    <3>1. Home(d) \in H
      BY DEF H
    <3>2. Home(d) \in Int /\ Max(H) \in Int /\ Home(d) <= Max(H)
      BY <2>1, <2>2, <3>1
    <3>3. ASSUME Home(d) = Max(H)
          PROVE  d <= Meant(i)
      <4>1. d \in top
        BY <3>3 DEF top
      <4>. QED
        BY <2>3, <2>4, <2>5, <4>1
    <3>. QED
      BY <1>3, <2>6, <3>2, <3>3
  <2>. QED
    BY <1>3, <2>6, <2>7
<1>5. ASSUME Visible(i) = {}
      PROVE  /\ named # {} => Meant(i) = -Max(named) /\ Meant(i) < 0
             /\ named = {} => Meant(i) = Nothing
  <2>1. H = {}
    BY <1>5
  <2>2. ASSUME named # {}
        PROVE  Max(named) > 0
    <3>0. Len(prog) \in Int
      BY <1>2
    <3>1. named \in SUBSET Int /\ \A x \in named : x <= Len(prog) /\ x > 0
      BY <1>2 DEF Functions
    <3>. HIDE DEF named
    <3>2. Max(named) \in named
      BY <2>2, <3>0, <3>1, MaxIs
    <3>. QED
      BY <3>1, <3>2
  <2>3. named # {} => Max(named) \in Int
    <3>0. Len(prog) \in Int
      BY <1>2
    <3>1. named \in SUBSET Int /\ \A x \in named : x <= Len(prog) /\ x > 0
      BY <1>2 DEF Functions
    <3>. HIDE DEF named
    <3>2. named # {} => Max(named) \in named
      BY <3>0, <3>1, MaxIs
    <3>. QED
      BY <3>1, <3>2
  <2>. HIDE DEF named, H
  <2>. QED
    BY <1>1, <2>1, <2>2, <2>3
<1>. QED
  BY <1>4, <1>5

\* A declaration a reader does not see, found in a scope of a pass that is still
\* open, is of a statement that makes a scope for the reader only, and has ended.
LEMMA Lingering ==
    ASSUME Balanced(prog), NEW S \in SUBSET Homed, Frames \subseteq S, NEW i \in 1..Len(prog),
           prog[i].mark # "end", NEW d \in 1..(i - 1), Declares(d, prog[i].name),
           HomeIn(prog, S, d) \in {0} \union Outer(prog, S, i), d \notin Visible(i)
    PROVE  /\ Home(d) \in 1..(i - 1) /\ prog[Home(d)].mark \in Homed \ S
           /\ Close(Home(d)) < i
<1>. DEFINE x == Home(d)
            g == HomeIn(prog, S, d)
<1>1. Len(prog) \in Nat /\ d \in 1..Len(prog) /\ d \in 1..(Len(prog) + 1) /\ i \in 1..(Len(prog) + 1)
  BY DEF Balanced
<1>2. x = HomeIn(prog, Homed, d)
  BY <1>1, AroundIs, Declaring
<1>3. /\ x \in 0..d
      /\ prog[d].mark \notin {"fn", "lambda"} => x \in {0} \union Outer(prog, Homed, d)
      /\ prog[d].mark \in {"fn", "lambda"} => x = d
      /\ \A o \in Outer(prog, Homed, d) : o <= x
  BY <1>1, <1>2, HomeInIs
<1>4. /\ g \in 0..d
      /\ prog[d].mark \notin {"fn", "lambda"} => g \in {0} \union Outer(prog, S, d)
      /\ prog[d].mark \in {"fn", "lambda"} => g = d
      /\ \A o \in Outer(prog, S, d) : o <= g
  BY <1>1, HomeInIs
<1>5. x \notin {0} \union Outer(prog, Homed, i)
  BY <1>1, <1>2, VisibleIs
<1>6. g \in {0} \union Outer(prog, S, i)
  OBVIOUS
<1>. HIDE DEF x, g
<1>7. \A o, k : o \in Outer(prog, S, k) => o \in Outer(prog, Homed, k) /\ o > 0
  BY DEF Outer
<1>8. prog[d].mark \notin {"fn", "lambda"}
  <2>. SUFFICES ASSUME prog[d].mark \in {"fn", "lambda"} PROVE FALSE
    OBVIOUS
  <2>. QED
    BY <1>1, <1>3, <1>4, <1>5, <1>6, <1>7
<1>9. x \in Outer(prog, Homed, d)
  BY <1>3, <1>5, <1>8
<1>10. x \in 1..(d - 1) /\ prog[x].mark \in Homed /\ Encloses(prog, x, d)
  BY <1>9 DEF Outer
<1>11. prog[x].mark \notin S
  <2>. SUFFICES ASSUME prog[x].mark \in S PROVE FALSE
    OBVIOUS
  <2>1. x \in Outer(prog, S, d)
    BY <1>10 DEF Outer
  <2>2. x <= g
    BY <1>4, <2>1
  <2>3. g \in Outer(prog, Homed, d) /\ g > 0
    BY <1>4, <1>7, <1>8, <1>10, <2>2
  <2>4. g <= x
    BY <1>3, <2>3
  <2>5. g = x
    BY <1>3, <1>4, <2>2, <2>4
  <2>. QED
    BY <1>5, <1>6, <1>7, <2>5
<1>12. ~Encloses(prog, x, i)
  BY <1>1, <1>5, <1>10 DEF Outer
<1>13. Close(x) < i
  <2>1. x \in 1..Len(prog) /\ prog[x].mark \in Open /\ x < i
    BY <1>1, <1>10, Kinds
  <2>2. ~(i <= Close(x))
    BY <1>1, <1>12, <2>1, InClose
  <2>3. Close(x) \in Int
    BY <1>1, <2>1, CloseIs
  <2>. QED
    BY <1>1, <2>2, <2>3
<1>. QED
  BY <1>1, <1>10, <1>11, <1>13 DEF x

\* Of what a reader sees, the last declaration in the innermost scope of a pass is
\* the one that is meant.
LEMMA Nearest ==
    ASSUME Balanced(prog), NEW S \in SUBSET Homed, Frames \subseteq S, NEW i \in 1..Len(prog),
           prog[i].mark # "end", NEW d \in Visible(i),
           \/ HomeIn(prog, S, d) > HomeIn(prog, S, Meant(i))
           \/ HomeIn(prog, S, d) = HomeIn(prog, S, Meant(i)) /\ d >= Meant(i)
    PROVE  d = Meant(i)
<1>. DEFINE m == Meant(i)
            x == HomeIn(prog, Homed, d)
            y == HomeIn(prog, Homed, m)
<1>1. Len(prog) \in Nat /\ i \in 1..(Len(prog) + 1)
  BY DEF Balanced
<1>2. /\ m \in Visible(i)
      /\ \A c \in Visible(i) : /\ HomeIn(prog, Homed, c) <= y
                               /\ HomeIn(prog, Homed, c) = y => c <= m
  BY MeantIs
<1>. HIDE DEF m
<1>3. ASSUME NEW c \in Visible(i)
      PROVE  /\ c \in 1..(i - 1) /\ c \in 1..Len(prog) /\ HomeIn(prog, Homed, c) \in {0} \union Outer(prog, Homed, i)
             /\ HomeIn(prog, Homed, c) \in 0..c /\ HomeIn(prog, S, c) \in 0..c
             /\ HomeIn(prog, S, c) \in {0} \union Outer(prog, S, i)
             /\ HomeIn(prog, S, c) <= HomeIn(prog, Homed, c)
             /\ \A o \in Outer(prog, S, i) : o <= HomeIn(prog, Homed, c) => o <= HomeIn(prog, S, c)
  <2>1. c \in 1..(i - 1) /\ c \in 1..Len(prog) /\ HomeIn(prog, Homed, c) \in {0} \union Outer(prog, Homed, i)
    BY VisibleIs
  <2>. QED
    BY <2>1, HomeInIs, HomeNests
<1>4. x <= y /\ (x = y => d <= m)
  BY <1>2
<1>5. HomeIn(prog, S, d) <= HomeIn(prog, S, m)
  <2>1. CASE HomeIn(prog, S, d) = 0
    BY <1>2, <1>3, <2>1
  <2>2. CASE HomeIn(prog, S, d) \in Outer(prog, S, i)
    <3>1. HomeIn(prog, S, d) <= y
      BY <1>2, <1>3, <1>4
    <3>. QED
      BY <1>2, <1>3, <2>2, <3>1
  <2>. QED
    BY <1>3, <2>1, <2>2
<1>6. d >= m
  <2>1. HomeIn(prog, S, d) \in Nat /\ HomeIn(prog, S, m) \in Nat
    BY <1>2, <1>3
  <2>. QED
    BY <1>5, <2>1 DEF m
<1>7. x \in Nat /\ y \in Nat /\ d \in Nat /\ m \in Nat /\ y <= m /\ d \in 1..Len(prog) /\ m \in 1..Len(prog) /\ d < i
  BY <1>1, <1>2, <1>3
<1>8. ASSUME x < y
      PROVE  FALSE
  <2>1. y \in 1..(i - 1) /\ prog[y].mark \in Homed /\ Encloses(prog, y, i)
    <3>1. y \in Outer(prog, Homed, i)
      BY <1>2, <1>3, <1>7, <1>8
    <3>. QED
      BY <3>1 DEF Outer
  <2>2. y # d
    <3>. SUFFICES ASSUME y = d PROVE FALSE
      OBVIOUS
    <3>1. d = m
      BY <1>6, <1>7
    <3>. QED
      BY <1>7, <1>8, <3>1
  <2>3. y < d
    BY <1>6, <1>7, <2>2
  <2>4. Encloses(prog, y, d)
    BY <1>1, <1>7, <2>1, <2>3 DEF Encloses
  <2>5. y \in Outer(prog, Homed, d)
    BY <1>7, <2>1, <2>3, <2>4 DEF Outer
  <2>6. y <= x
    BY <1>7, <2>5, HomeInIs
  <2>. QED
    BY <1>7, <1>8, <2>6
<1>. QED
  BY <1>4, <1>6, <1>7, <1>8 DEF m

\* A declaration a reader sees is in a scope of the pass that is open.
LEMMA SeenOpen ==
    ASSUME Balanced(prog), NEW S \in SUBSET Homed, Frames \subseteq S, NEW i \in 1..Len(prog),
           prog[i].mark # "end", NEW d \in Visible(i)
    PROVE  /\ d \in 1..(i - 1) /\ d \in 1..Len(prog) /\ Declares(d, prog[i].name)
           /\ HomeIn(prog, S, d) \in {0} \union Outer(prog, S, i)
<1>1. /\ d \in 1..(i - 1) /\ d \in 1..Len(prog) /\ Declares(d, prog[i].name)
      /\ HomeIn(prog, Homed, d) \in {0} \union Outer(prog, Homed, i)
  BY VisibleIs
<1>. QED
  BY <1>1, HomeNests

\* And in no match that has ended.
LEMMA SeenNotClosed ==
    ASSUME Balanced(prog), NEW i \in 1..Len(prog), prog[i].mark # "end", NEW d \in Visible(i),
           NEW o \in 1..(d - 1), prog[o].mark = "match", d < Close(o), Close(o) <= i
    PROVE  FALSE
<1>1. /\ d \in 1..(i - 1) /\ d \in 1..Len(prog) /\ Declares(d, prog[i].name)
      /\ HomeIn(prog, Homed, d) \in {0} \union Outer(prog, Homed, i)
  BY VisibleIs
<1>2. Len(prog) \in Nat /\ o \in 1..Len(prog) /\ prog[o].mark \in Open /\ i \in 1..(Len(prog) + 1) /\ d \in 1..(Len(prog) + 1)
  BY <1>1, Kinds DEF Balanced
<1>3. Close(o) \in 1..Len(prog) /\ prog[Close(o)].mark = "end"
  BY <1>2, CloseIs
<1>4. Encloses(prog, o, d)
  <2>1. d <= Close(o) /\ o < d
    BY <1>1, <1>2, <1>3
  <2>. QED
    BY <1>2, <2>1, InClose
<1>5. o \in Outer(prog, Homed, d)
  BY <1>2, <1>4, Kinds DEF Outer
<1>6. o <= HomeIn(prog, Homed, d)
  BY <1>1, <1>5, HomeInIs
<1>7. Encloses(prog, o, i)
  BY <1>1, <1>2, <1>4, <1>6, HomeInside
<1>8. i <= Close(o)
  BY <1>2, <1>7, InClose
<1>9. Close(o) = i
  BY <1>2, <1>3, <1>8
<1>. QED
  BY <1>3, <1>9

\* Where the resolver looks, it has looked at all a reader sees.
LEMMA SeenResolved ==
    ASSUME WellFormed(prog), NEW i \in 1..Len(prog), prog[i].mark # "end", ~Unseen(i),
           NEW d \in Visible(i)
    PROVE  ~Unseen(d)
<1>0. Balanced(prog)
  BY WellFormedBalanced
<1>1. /\ d \in 1..(i - 1) /\ d \in 1..Len(prog) /\ Declares(d, prog[i].name)
      /\ HomeIn(prog, Homed, d) \in {0} \union Outer(prog, Homed, i)
  BY <1>0, VisibleIs
<1>2. Len(prog) \in Nat /\ d \in 1..(Len(prog) + 1) /\ DOMAIN prog = 1..Len(prog)
  BY <1>0, <1>1 DEF Balanced
<1>3. SUFFICES ASSUME NEW o \in Outer(prog, Hidden, d) PROVE FALSE
  BY <1>0, <1>1, AroundIs, Declaring
<1>4. o \in 1..(d - 1) /\ o \in 1..Len(prog) /\ prog[o].mark \in Hidden /\ Encloses(prog, o, d)
  BY <1>2 DEF Outer
<1>5. o <= HomeIn(prog, Homed, d)
  <2>1. CASE prog[o].mark = "match"
    <3>1. o \in Outer(prog, Homed, d)
      BY <1>4, <2>1, Kinds DEF Outer
    <3>. QED
      BY <1>0, <1>1, <3>1, HomeInIs
  <2>2. CASE prog[d].mark \in {"fn", "lambda"}
    <3>1. HomeIn(prog, Homed, d) = d
      BY <2>2 DEF HomeIn
    <3>. QED
      BY <1>1, <1>2, <1>4, <3>1
  <2>3. CASE prog[o].mark \in {"text", "unwrap"} /\ prog[d].mark = "declare"
    <3>1. InLambda(prog, o, d)
      BY <1>1, <1>2, <1>4, <2>3 DEF WellFormed
    <3>2. PICK l \in (o + 1)..(d - 1) : prog[l].mark = "lambda" /\ Encloses(prog, l, d)
      BY <3>1 DEF InLambda
    <3>3. l \in 1..(d - 1) /\ prog[l].mark \in Homed
      BY <1>4, <3>2, Kinds
    <3>4. l \in Outer(prog, Homed, d)
      BY <3>2, <3>3 DEF Outer
    <3>5. l <= HomeIn(prog, Homed, d) /\ HomeIn(prog, Homed, d) \in 0..d
      BY <1>0, <1>1, <3>4, HomeInIs
    <3>. QED
      BY <1>2, <1>4, <3>3, <3>5
  <2>4. prog[o].mark \in {"match", "text", "unwrap"}
    BY <1>4 DEF Hidden
  <2>5. prog[d].mark = "declare" \/ prog[d].mark \in {"fn", "lambda"}
    BY <1>1, Declaring
  <2>. QED
    BY <2>1, <2>2, <2>3, <2>4, <2>5
<1>6. Encloses(prog, o, i) /\ o < i
  BY <1>0, <1>1, <1>4, <1>5, HomeInside
<1>7. o \in Outer(prog, Hidden, i)
  BY <1>4, <1>6 DEF Outer
<1>. QED
  BY <1>0, <1>7, AroundIs

-----------------------------------------------------------------------------
\* The program stays, and with it what is said of it.
LEMMA Steady ==
    ASSUME prog' = prog
    PROVE  /\ \A i : Level(i)' = Level(i) /\ Close(i)' = Close(i) /\ Opener(i)' = Opener(i)
           /\ \A i : Around(i)' = Around(i) /\ Home(i)' = Home(i) /\ (Unseen(i)' <=> Unseen(i))
           /\ \A i, n : Declares(i, n)' <=> Declares(i, n)
           /\ \A i : Visible(i)' = Visible(i) /\ Meant(i)' = Meant(i)
           /\ Functions' = Functions /\ Uses' = Uses
<1>1. \A i : Level(i)' = Level(i)
  BY DEF Level
<1>2. \A i : Close(i)' = Close(i) /\ Opener(i)' = Opener(i)
  BY <1>1 DEF Close, Opener
<1>3. \A i : Around(i)' = Around(i) /\ (Unseen(i)' <=> Unseen(i))
  BY <1>2 DEF Around, Unseen
<1>4. \A i : Home(i)' = Home(i)
  BY <1>3 DEF Home
<1>5. \A i, n : Declares(i, n)' <=> Declares(i, n)
  BY DEF Declares
<1>6. \A i : Visible(i)' = Visible(i)
  BY <1>3, <1>4, <1>5 DEF Visible
<1>7. Functions' = Functions /\ Uses' = Uses
  BY DEF Functions, Uses
<1>8. \A i : Meant(i)' = Meant(i)
  BY <1>4, <1>6, <1>7 DEF Meant
<1>. QED
  BY <1>1, <1>2, <1>3, <1>4, <1>5, <1>6, <1>7, <1>8

-----------------------------------------------------------------------------
Sequence(s) == \E T : s \in Seq(T)

\* Append keeps a sequence and what it holds.
LEMMA SequenceAppend ==
    ASSUME NEW s, Sequence(s), NEW x
    PROVE  /\ Sequence(Append(s, x)) /\ Len(s) \in Nat /\ Len(Append(s, x)) = Len(s) + 1
           /\ Append(s, x)[Len(s) + 1] = x /\ \A k \in 1..Len(s) : Append(s, x)[k] = s[k]
<1>1. PICK T : s \in Seq(T)
  BY DEF Sequence
<1>. DEFINE U == T \union {x}
<1>2. s \in Seq(U) /\ x \in U
  BY <1>1
<1>. HIDE DEF U
<1>3. Append(s, x) \in Seq(U)
  BY <1>2
<1>4. Sequence(Append(s, x))
  BY <1>3 DEF Sequence
<1>. QED
  BY <1>2, <1>4

\* The front of a sequence is a sequence and holds what it held.
LEMMA SequenceFront ==
    ASSUME NEW s, Sequence(s), NEW m \in Int, m <= Len(s)
    PROVE  /\ Sequence(SubSeq(s, 1, m)) /\ Len(s) \in Nat
           /\ Len(SubSeq(s, 1, m)) = IF m > 0 THEN m ELSE 0
           /\ \A k \in 1..m : SubSeq(s, 1, m)[k] = s[k]
<1>1. PICK T : s \in Seq(T)
  BY DEF Sequence
<1>2. SubSeq(s, 1, m) \in Seq(T)
  BY <1>1, SubSeqProperties
<1>3. Sequence(SubSeq(s, 1, m))
  BY <1>2 DEF Sequence
<1>. QED
  BY <1>1, <1>3

\* What it means to change the innermost scope.
LEMMA TopIs ==
    ASSUME Sequence(scopes), Len(scopes) > 0, NEW x, SetTop(x)
    PROVE  /\ Sequence(scopes') /\ Len(scopes') = Len(scopes) /\ scopes'[Len(scopes)] = x
           /\ \A k \in 1..Len(scopes) : k # Len(scopes) => scopes'[k] = scopes[k]
<1>1. PICK T : scopes \in Seq(T)
  BY DEF Sequence
<1>. DEFINE U == T \union {x}
<1>2. scopes \in Seq(U) /\ x \in U
  BY <1>1
<1>. HIDE DEF U
<1>3. scopes' = [scopes EXCEPT ![Len(scopes)] = x]
  BY DEF SetTop
<1>4. scopes' \in Seq(U)
  BY <1>2, <1>3
<1>5. Sequence(scopes')
  BY <1>4 DEF Sequence
<1>. QED
  BY <1>2, <1>3, <1>5


-----------------------------------------------------------------------------
\* The invariant.
TypeInv ==
    /\ prog \in Programs /\ at \in 1..(Len(prog) + 1)
    /\ pass \in {"resolve", "check", "generate", "done", "rejected"}
    /\ Sequence(scopes) /\ Sequence(results)

\* The resolver's table has what has been declared where it looks, and the functions.
SeenIn(d, n, o) == Declares(d, n) /\ Home(d) = o /\ ~Unseen(d)
Tabled(table, a, o) ==
    /\ \A n \in Names : n \in DOMAIN table <=> \/ o = 0 /\ \E f \in Functions : prog[f].name = n
                                               \/ \E d \in 1..(a - 1) : SeenIn(d, n, o)
    /\ \A n \in DOMAIN table : table[n].type \in {"error", "number"}
Faults(a) == {i \in Uses : i < a /\ Meant(i) = Nothing /\ ~Unseen(i)}
ResolveInv ==
    pass = "resolve" =>
        /\ Outer(prog, Hidden, at) = {}
        /\ \E h \in [1..Len(scopes) -> 0..Len(prog)] :
              /\ Homes(prog, Scoped, at, h, Len(scopes))
              /\ \A k \in 1..Len(scopes) : Tabled(scopes[k], at, h[k])
        /\ errors = Faults(at)

\* What a pass is given.
LEMMA Given ==
    ASSUME TypeInv
    PROVE  /\ WellFormed(prog) /\ Balanced(prog) /\ Len(prog) \in Nat /\ DOMAIN prog = 1..Len(prog)
           /\ at \in Nat /\ at > 0 /\ Len(scopes) \in Nat /\ DOMAIN scopes = 1..Len(scopes)
<1>1. WellFormed(prog) /\ Balanced(prog)
  BY ProgramsAssumption, WellFormedBalanced DEF TypeInv
<1>2. PICK T : scopes \in Seq(T)
  BY DEF TypeInv, Sequence
<1>3. Len(scopes) \in Nat /\ DOMAIN scopes = 1..Len(scopes)
  BY <1>2, SequenceHas
<1>4. Len(prog) \in Nat /\ DOMAIN prog = 1..Len(prog)
  BY <1>1 DEF Balanced
<1>5. at \in 1..(Len(prog) + 1)
  BY DEF TypeInv
<1>. QED
  BY <1>1, <1>3, <1>4, <1>5

\* A scope open at i begins before i.
LEMMA HomesBefore ==
    ASSUME NEW p, Balanced(p), NEW S, NEW i \in 1..(Len(p) + 1), NEW n \in Nat,
           NEW h \in [1..n -> 0..Len(p)], Homes(p, S, i, h, n), NEW k \in 1..n
    PROVE  h[k] \in Nat /\ h[k] < i /\ h[k] \in {0} \union Outer(p, S, i)
<1>1. Len(p) \in Nat /\ h[k] \in Nat /\ i \in Nat
  BY DEF Balanced
<1>2. CASE k = 1
  BY <1>1, <1>2 DEF Homes
<1>3. CASE k \in 2..n
  BY <1>1, <1>3 DEF Homes, Outer
<1>. QED
  BY <1>2, <1>3

Reached(o, h, n) == \E k \in 1..n : h[k] = o

\* No scope is missed.
LEMMA HomesAll ==
    ASSUME NEW p, NEW S, NEW i, NEW n \in Nat, NEW h, Homes(p, S, i, h, n),
           NEW o \in {0} \union Outer(p, S, i)
    PROVE  Reached(o, h, n)
<1>1. CASE o = 0
  <2>1. 1 \in 1..n /\ h[1] = 0
    BY DEF Homes
  <2>. QED
    BY <1>1, <2>1 DEF Reached
<1>2. CASE o \in Outer(p, S, i)
  BY <1>2 DEF Homes, Reached
<1>. QED
  BY <1>1, <1>2

\* The resolver's invariant in the next state, from a stack of homes and what each table holds.
LEMMA ResolveInvNext ==
    ASSUME prog' = prog, Outer(prog, Hidden, at') = {}, errors' = Faults(at'),
           NEW g \in [1..Len(scopes') -> 0..Len(prog)], Homes(prog, Scoped, at', g, Len(scopes')),
           \A k \in 1..Len(scopes') : Tabled(scopes'[k], at', g[k])
    PROVE  ResolveInv'
<1>1. errors' = Faults(at)'
  BY Steady DEF Faults
<1>2. \A k \in 1..Len(scopes') : Tabled(scopes[k], at, g[k])'
  <2>. TAKE k \in 1..Len(scopes')
  <2>1. Tabled(scopes'[k], at', g[k])
    OBVIOUS
  <2>2. \A d, n : SeenIn(d, n, g[k])' <=> SeenIn(d, n, g[k])
    BY Steady DEF SeenIn
  <2>. QED
    BY <2>1, <2>2, Steady DEF Tabled
<1>. QED
  BY <1>1, <1>2 DEF ResolveInv

\* A table fits a later mark when nothing in between is seen in its scope.
LEMMA TabledSame ==
    ASSUME NEW t, NEW a \in Nat, NEW b \in Nat, NEW o, Tabled(t, a, o), a <= b,
           \A d \in a..(b - 1) : \A n \in Names : ~SeenIn(d, n, o)
    PROVE  Tabled(t, b, o)
<1>1. \A n \in Names : (\E d \in 1..(a - 1) : SeenIn(d, n, o)) <=> (\E d \in 1..(b - 1) : SeenIn(d, n, o))
  <2>. TAKE n \in Names
  <2>1. \A d \in 1..(b - 1) : SeenIn(d, n, o) => d \in 1..(a - 1)
    OBVIOUS
  <2>. QED
    BY <2>1
<1>. QED
  BY <1>1 DEF Tabled

\* What a pass puts into a scope it enters.
LEMMA ParamsAre ==
    ASSUME TypeInv, at <= Len(prog), prog[at].mark \in Open, NEW type, NEW n \in Names
    PROVE  n \in DOMAIN Params(type) <=> Declares(at, n)
<1>1. at \in 1..Len(prog) /\ WellFormed(prog) /\ DOMAIN prog = 1..Len(prog)
  BY Given
<1>2. PICK nothing : nothing = ""
  OBVIOUS
<1>3. nothing \notin Names
  BY <1>2, ProgramsAssumption, Zenon
<1>4. prog[at].mark \notin {"fn", "lambda"} => prog[at].param = nothing
  <2>1. \A i \in DOMAIN prog : prog[i].mark \notin {"fn", "lambda"} => prog[i].param = ""
    BY <1>1, Zenon DEF WellFormed
  <2>. QED
    BY <1>1, <1>2, <2>1, Zenon
<1>5. Params(type) = IF prog[at].param = nothing THEN Empty ELSE With(Empty, prog[at].param, Entry(at, type))
  BY <1>2, Zenon DEF Params, Mark
<1>6. DOMAIN Empty = {}
  BY DEF Empty
<1>7. prog[at].mark # "declare"
  BY DEF Open, Scoped
<1>8. CASE prog[at].param = nothing
  BY <1>3, <1>5, <1>6, <1>7, <1>8 DEF Declares
<1>9. CASE prog[at].param # nothing
  <2>1. PICK m : m = prog[at].param
    OBVIOUS
  <2>2. PICK e : e = Entry(at, type)
    OBVIOUS
  <2>3. Params(type) = With(Empty, m, e)
    BY <1>5, <1>9, <2>1, <2>2
  <2>4. DOMAIN Params(type) = DOMAIN Empty \union {m}
    BY <2>3 DEF With
  <2>. QED
    BY <1>4, <1>6, <1>7, <1>9, <2>1, <2>4 DEF Declares
<1>. QED
  BY <1>8, <1>9

\* A parameter is entered at its function's mark.
LEMMA ParamsEntries ==
    ASSUME NEW type, NEW n \in DOMAIN Params(type)
    PROVE  Params(type)[n] = Entry(at, type)
<1>1. PICK nothing : nothing = ""
  OBVIOUS
<1>2. Params(type) = IF prog[at].param = nothing THEN Empty ELSE With(Empty, prog[at].param, Entry(at, type))
  BY <1>1, Zenon DEF Params, Mark
<1>3. PICK t : t = Params(type)
  OBVIOUS
<1>4. PICK e : e = Entry(at, type)
  OBVIOUS
<1>5. DOMAIN Empty = {}
  BY DEF Empty
<1>6. PICK m : m = prog[at].param
  OBVIOUS
<1>7. t = With(Empty, m, e)
  BY <1>2, <1>3, <1>4, <1>5, <1>6
<1>8. DOMAIN t = DOMAIN Empty \union {m} /\ t[m] = e /\ n = m
  <2>1. DOMAIN t = DOMAIN Empty \union {m} /\ t[m] = e
    BY <1>7 DEF With
  <2>. QED
    BY <1>3, <1>5, <2>1
<1>. QED
  BY <1>3, <1>4, <1>8

-----------------------------------------------------------------------------
\* The resolver.
LEMMA ResolveEnter ==
    ASSUME TypeInv, ResolveInv, pass = "resolve", at <= Len(prog), prog[at].mark \in Scoped,
           scopes' = Append(scopes, Params("error")), at' = at + 1, prog' = prog, errors' = errors
    PROVE  ResolveInv' /\ Sequence(scopes')
<1>1. /\ WellFormed(prog) /\ Balanced(prog) /\ Len(prog) \in Nat /\ DOMAIN prog = 1..Len(prog)
      /\ at \in Nat /\ at > 0 /\ Len(scopes) \in Nat /\ at \in 1..Len(prog) /\ at \in 1..(Len(prog) + 1)
  BY Given
<1>2. PICK h \in [1..Len(scopes) -> 0..Len(prog)] :
         /\ Homes(prog, Scoped, at, h, Len(scopes))
         /\ \A k \in 1..Len(scopes) : Tabled(scopes[k], at, h[k])
  BY DEF ResolveInv
<1>. DEFINE g == [k \in 1..(Len(scopes) + 1) |-> IF k <= Len(scopes) THEN h[k] ELSE at]
<1>3. g \in [1..(Len(scopes) + 1) -> 0..Len(prog)] /\ Homes(prog, Scoped, at + 1, g, Len(scopes) + 1)
  BY <1>1, <1>2, HomesEnter, Kinds
<1>4. /\ Sequence(scopes') /\ Len(scopes') = Len(scopes) + 1
      /\ scopes'[Len(scopes) + 1] = Params("error") /\ \A k \in 1..Len(scopes) : scopes'[k] = scopes[k]
  BY SequenceAppend DEF TypeInv
<1>5. Outer(prog, Hidden, at') = {}
  BY <1>1, Kinds, OuterPass DEF ResolveInv
<1>6. errors' = Faults(at')
  <2>1. at \notin Uses
    BY DEF Uses, Scoped
  <2>. QED
    BY <1>1, <2>1 DEF ResolveInv, Faults, Uses
<1>7. g[Len(scopes) + 1] = at /\ \A k \in 1..Len(scopes) : g[k] = h[k]
  BY <1>1
<1>. HIDE DEF g
<1>8. ~Unseen(at)
  BY <1>1, Kinds, AroundIs DEF ResolveInv
<1>9. \A n : Declares(at, n) => Home(at) = at
  <2>. SUFFICES ASSUME NEW n, Declares(at, n) PROVE Home(at) = at
    OBVIOUS
  <2>1. prog[at].mark # "declare"
    BY DEF Scoped
  <2>. QED
    BY <2>1, Declaring DEF Home
<1>10. ASSUME NEW k \in 1..Len(scopes')
       PROVE  Tabled(scopes'[k], at', g[k])
  <2>1. CASE k = Len(scopes) + 1
    <3>. DEFINE t == Params("error")
    <3>1. \A n \in Names : n \in DOMAIN t <=> Declares(at, n)
      BY <1>1, Kinds, ParamsAre
    <3>2. \A n \in DOMAIN t : t[n].type = "error"
      BY ParamsEntries DEF Entry
    <3>. HIDE DEF t
    <3>3. ASSUME NEW n \in Names
          PROVE  Declares(at, n) <=> \E d \in 1..((at + 1) - 1) : SeenIn(d, n, at)
      <4>1. ASSUME NEW d \in 1..((at + 1) - 1), SeenIn(d, n, at)
            PROVE  d = at
        <5>1. d \in 1..Len(prog) /\ Home(d) = at
          BY <1>1, <4>1 DEF SeenIn
        <5>2. Home(d) = HomeIn(prog, Homed, d)
          BY <1>1, <4>1, <5>1, AroundIs, Declaring DEF SeenIn
        <5>3. Home(d) <= d
          BY <1>1, <5>1, <5>2, HomeInIs
        <5>. QED
          BY <1>1, <5>1, <5>3
      <4>2. Declares(at, n) => SeenIn(at, n, at)
        BY <1>8, <1>9 DEF SeenIn
      <4>3. at \in 1..((at + 1) - 1)
        BY <1>1
      <4>. QED
        BY <4>1, <4>2, <4>3 DEF SeenIn
    <3>4. Tabled(t, at + 1, at)
      BY <1>1, <3>1, <3>2, <3>3 DEF Tabled
    <3>. QED
      BY <1>4, <1>7, <2>1, <3>4 DEF t
  <2>2. CASE k \in 1..Len(scopes)
    <3>1. Tabled(scopes[k], at, h[k]) /\ h[k] \in Nat /\ h[k] < at
      BY <1>1, <1>2, <2>2, HomesBefore
    <3>2. \A d \in at..((at + 1) - 1) : \A n \in Names : ~SeenIn(d, n, h[k])
      BY <1>1, <1>9, <3>1 DEF SeenIn
    <3>3. Tabled(scopes[k], at + 1, h[k])
      BY <1>1, <3>1, <3>2, TabledSame
    <3>. QED
      BY <1>4, <1>7, <2>2, <3>3
  <2>. QED
    BY <1>1, <1>4, <2>1, <2>2
<1>. QED
  BY <1>3, <1>4, <1>5, <1>6, <1>10, ResolveInvNext

\* The resolver at the end of a scope drops its table.
LEMMA ResolveLeave ==
    ASSUME TypeInv, ResolveInv, pass = "resolve", at <= Len(prog), prog[at].mark = "end", Leave,
           at' = at + 1, prog' = prog, errors' = errors
    PROVE  ResolveInv' /\ Sequence(scopes')
<1>1. /\ WellFormed(prog) /\ Balanced(prog) /\ Len(prog) \in Nat /\ DOMAIN prog = 1..Len(prog)
      /\ at \in Nat /\ at > 0 /\ Len(scopes) \in Nat /\ at \in 1..Len(prog) /\ at \in 1..(Len(prog) + 1)
  BY Given
<1>2. PICK h \in [1..Len(scopes) -> 0..Len(prog)] :
         /\ Homes(prog, Scoped, at, h, Len(scopes))
         /\ \A k \in 1..Len(scopes) : Tabled(scopes[k], at, h[k])
  BY DEF ResolveInv
<1>3. Outer(prog, Hidden, at') = {} /\ prog[Opener(at)].mark \notin Hidden /\ prog[Opener(at)].mark \in Open
  BY <1>1, Kinds, OuterEnd DEF ResolveInv
<1>4. prog[Opener(at)].mark \in Scoped
  BY <1>3, Kinds
<1>. DEFINE n == Len(scopes) - 1
            g == [k \in 1..n |-> h[k]]
<1>5. n \in Nat /\ n > 0 /\ g \in [1..n -> 0..Len(prog)] /\ Homes(prog, Scoped, at + 1, g, n)
  <2>1. Scoped \in SUBSET Open
    BY Kinds
  <2>2. Homes(prog, Scoped, at, h, Len(scopes))
    BY <1>2
  <2>3. PICK a \in 1..Len(prog) : a = at
    BY <1>1
  <2>4. PICK c \in Nat : c = Len(scopes)
    BY <1>1
  <2>5. /\ h \in [1..c -> 0..Len(prog)] /\ Homes(prog, Scoped, a, h, c)
        /\ Balanced(prog) /\ prog[a].mark = "end" /\ prog[Opener(a)].mark \in Scoped
    BY <1>1, <1>4, <2>2, <2>3, <2>4
  <2>6. c - 1 \in Nat /\ c - 1 > 0 /\ [k \in 1..(c - 1) |-> h[k]] \in [1..(c - 1) -> 0..Len(prog)]
        /\ Homes(prog, Scoped, a + 1, [k \in 1..(c - 1) |-> h[k]], c - 1)
    BY ONLY <2>1, <2>5, HomesLeave
  <2>. QED
    BY <2>3, <2>4, <2>6
<1>6. Sequence(scopes') /\ Len(scopes') = n /\ \A k \in 1..n : scopes'[k] = scopes[k]
  BY <1>1, <1>5, SequenceFront DEF TypeInv, Leave
<1>7. errors' = Faults(at')
  <2>1. at \notin Uses
    BY DEF Uses
  <2>. QED
    BY <1>1, <2>1 DEF ResolveInv, Faults, Uses
<1>8. \A k \in 1..n : g[k] = h[k]
  OBVIOUS
<1>. HIDE DEF g
<1>9. ASSUME NEW k \in 1..n
      PROVE  Tabled(scopes'[k], at', g[k])
  <2>1. k \in 1..Len(scopes)
    BY <1>1
  <2>2. \A d \in at..((at + 1) - 1) : \A m \in Names : ~SeenIn(d, m, h[k])
    BY <1>1, Declaring DEF SeenIn
  <2>3. Tabled(scopes[k], at + 1, h[k])
    BY <1>1, <1>2, <2>1, <2>2, TabledSame
  <2>. QED
    BY <1>6, <1>8, <2>3
<1>. HIDE DEF n
<1>. QED
  BY <1>3, <1>5, <1>6, <1>7, <1>9, ResolveInvNext

\* Nothing the resolver skips is declared or used where it looks.
LEMMA ResolveSkip ==
    ASSUME TypeInv, ResolveInv, pass = "resolve", at <= Len(prog), prog[at].mark \in Hidden,
           at' = Close(at) + 1, UNCHANGED <<scopes, prog, errors>>
    PROVE  ResolveInv' /\ at' \in 1..(Len(prog) + 1)
<1>1. /\ WellFormed(prog) /\ Balanced(prog) /\ Len(prog) \in Nat /\ DOMAIN prog = 1..Len(prog)
      /\ at \in Nat /\ at > 0 /\ Len(scopes) \in Nat /\ at \in 1..Len(prog) /\ at \in 1..(Len(prog) + 1)
  BY Given
<1>2. PICK h \in [1..Len(scopes) -> 0..Len(prog)] :
         /\ Homes(prog, Scoped, at, h, Len(scopes))
         /\ \A k \in 1..Len(scopes) : Tabled(scopes[k], at, h[k])
  BY DEF ResolveInv
<1>3. prog[at].mark \in Open
  BY Kinds
<1>4. /\ Close(at) + 1 \in 1..(Len(prog) + 1) /\ Outer(prog, Hidden, at') = Outer(prog, Hidden, at)
      /\ Outer(prog, Scoped, at') = Outer(prog, Scoped, at)
  BY <1>1, <1>3, OuterSkip, Kinds
<1>5. Close(at) \in Nat /\ at < Close(at) /\ Close(at) <= Len(prog)
  BY <1>1, <1>3, CloseIs
<1>6. ASSUME NEW d \in at..Close(at), prog[d].mark # "end", prog[d].mark \notin Hidden
      PROVE  d \in 1..Len(prog) /\ Unseen(d)
  <2>1. d # at /\ d \in 1..Len(prog) /\ at < d /\ d \in 1..(Len(prog) + 1)
    BY <1>1, <1>5, <1>6
  <2>2. Encloses(prog, at, d)
    BY <1>1, <1>3, <1>5, <2>1, InClose
  <2>3. at \in Outer(prog, Hidden, d)
    BY <1>1, <2>1, <2>2 DEF Outer
  <2>. QED
    BY <1>1, <1>6, <2>1, <2>3, AroundIs
<1>7. Homes(prog, Scoped, at', h, Len(scopes))
  BY <1>2, <1>4, HomesSame
<1>8. ASSUME NEW k \in 1..Len(scopes)
      PROVE  Tabled(scopes[k], at', h[k])
  <2>1. ASSUME NEW d \in at..(at' - 1), NEW m \in Names, SeenIn(d, m, h[k])
        PROVE  FALSE
    <3>1. prog[d].mark # "end" /\ prog[d].mark \notin Hidden /\ ~Unseen(d)
      BY <2>1, Declaring DEF SeenIn, Hidden
    <3>. QED
      BY <1>5, <1>6, <3>1
  <2>. QED
    BY <1>1, <1>2, <1>5, <2>1, TabledSame
<1>9. errors' = Faults(at')
  <2>1. ASSUME NEW i \in Uses, ~Unseen(i), i < at'
        PROVE  i < at
    <3>1. prog[i].mark # "end" /\ prog[i].mark \notin Hidden /\ i \in 1..Len(prog)
      BY <1>1 DEF Uses, Hidden
    <3>. QED
      BY <1>1, <1>5, <1>6, <2>1, <3>1
  <2>2. \A i \in Uses : i < at => i < at'
    BY <1>1, <1>5 DEF Uses
  <2>. QED
    BY <2>1, <2>2 DEF ResolveInv, Faults
<1>. QED
  BY <1>2, <1>4, <1>7, <1>8, <1>9, ResolveInvNext DEF ResolveInv

\* Where a pass declares a variable a reader sees no match around, but the scopes
\* the pass has open.
LEMMA ResolvedHome ==
    ASSUME Balanced(prog), NEW a \in 1..Len(prog), prog[a].mark = "declare",
           Outer(prog, Hidden, a) = {}, NEW n \in Nat, NEW h \in [1..n -> 0..Len(prog)],
           Homes(prog, Scoped, a, h, n)
    PROVE  Home(a) = h[n]
<1>1. Outer(prog, Homed, a) = Outer(prog, Scoped, a)
  <2>1. \A o \in Outer(prog, Homed, a) : prog[o].mark \in Scoped
    <3>. TAKE o \in Outer(prog, Homed, a)
    <3>1. prog[o].mark \in Homed /\ o \notin Outer(prog, Hidden, a)
      BY DEF Outer
    <3>2. prog[o].mark \notin Hidden
      BY <3>1 DEF Outer
    <3>. QED
      BY <3>1, <3>2, Kinds
  <2>. QED
    BY <2>1, Kinds DEF Outer
<1>2. Home(a) = Max({0} \union Outer(prog, Homed, a))
  BY AroundIs DEF HomeIn
<1>3. a \in 1..(Len(prog) + 1)
  BY DEF Balanced
<1>. QED
  BY <1>1, <1>2, <1>3, HomesTop

\* The resolver at a declaration: the name is in the table, entered now or there already.
LEMMA ResolveDeclares ==
    ASSUME TypeInv, ResolveInv, pass = "resolve", at <= Len(prog), prog[at].mark = "declare",
           IF prog[at].name \in DOMAIN Top THEN UNCHANGED scopes
           ELSE SetTop(With(Top, prog[at].name, Entry(at, "error"))),
           at' = at + 1, prog' = prog, errors' = errors
    PROVE  ResolveInv' /\ Sequence(scopes')
<1>1. /\ WellFormed(prog) /\ Balanced(prog) /\ Len(prog) \in Nat /\ DOMAIN prog = 1..Len(prog)
      /\ at \in Nat /\ at > 0 /\ Len(scopes) \in Nat /\ at \in 1..Len(prog) /\ at \in 1..(Len(prog) + 1)
  BY Given
<1>2. PICK h \in [1..Len(scopes) -> 0..Len(prog)] :
         /\ Homes(prog, Scoped, at, h, Len(scopes))
         /\ \A k \in 1..Len(scopes) : Tabled(scopes[k], at, h[k])
  BY DEF ResolveInv
<1>. DEFINE n == Len(scopes)
            m == prog[at].name
<1>3. n \in 1..Len(scopes) /\ Top = scopes[n]
  BY <1>1, <1>2 DEF Homes, Top
<1>4. PICK t : t = IF m \in DOMAIN Top THEN Top ELSE With(Top, m, Entry(at, "error"))
  OBVIOUS
<1>5. /\ Sequence(scopes') /\ Len(scopes') = n /\ scopes'[n] = t
      /\ \A k \in 1..n : k # n => scopes'[k] = scopes[k]
  <2>1. CASE m \in DOMAIN Top
    BY <1>3, <1>4, <2>1 DEF TypeInv
  <2>2. CASE m \notin DOMAIN Top
    <3>1. SetTop(t)
      BY <1>4, <2>2
    <3>2. Sequence(scopes) /\ Len(scopes) > 0
      BY <1>3 DEF TypeInv
    <3>. QED
      BY <3>1, <3>2, TopIs
  <2>. QED
    BY <2>1, <2>2
<1>6. Outer(prog, Hidden, at') = {} /\ Outer(prog, Scoped, at') = Outer(prog, Scoped, at)
  <2>1. "declare" \notin Hidden /\ "declare" \notin Scoped
    BY DEF Hidden, Scoped
  <2>. QED
    BY <1>1, <2>1, Kinds, OuterPass DEF ResolveInv
<1>7. Homes(prog, Scoped, at', h, n)
  BY <1>2, <1>6, HomesSame
<1>8. errors' = Faults(at')
  <2>1. at \notin Uses
    BY DEF Uses
  <2>. QED
    BY <1>1, <2>1 DEF ResolveInv, Faults, Uses
<1>9. ~Unseen(at) /\ Home(at) = h[n] /\ m \in Names
  <2>1. m \in Names
    BY <1>1 DEF WellFormed
  <2>. QED
    BY <1>1, <1>2, <2>1, AroundIs, ResolvedHome DEF ResolveInv
<1>10. \A x, o : SeenIn(at, x, o) <=> x = m /\ o = h[n]
  BY <1>9 DEF SeenIn, Declares
<1>. HIDE DEF m
<1>11. ASSUME NEW k \in 1..n
       PROVE  Tabled(scopes'[k], at', h[k])
  <2>1. Tabled(scopes[k], at, h[k])
    BY <1>2
  <2>2. CASE k = n
    <3>1. DOMAIN t = DOMAIN Top \union {m}
      BY <1>4 DEF With
    <3>2. \A x \in DOMAIN t : t[x].type \in {"error", "number"}
      <4>. TAKE x \in DOMAIN t
      <4>1. x \in DOMAIN Top => Top[x].type \in {"error", "number"}
        BY <1>3, <2>1, <2>2 DEF Tabled
      <4>2. CASE m \in DOMAIN Top
        BY <1>4, <4>1, <4>2
      <4>3. CASE m \notin DOMAIN Top
        <5>1. t[x] = IF x = m THEN Entry(at, "error") ELSE Top[x]
          BY <1>4, <3>1, <4>3 DEF With
        <5>. QED
          BY <3>1, <4>1, <5>1 DEF Entry
      <4>. QED
        BY <4>2, <4>3
    <3>3. ASSUME NEW x \in Names
          PROVE  x \in DOMAIN t <=> \/ h[n] = 0 /\ \E f \in Functions : prog[f].name = x
                                    \/ \E d \in 1..((at + 1) - 1) : SeenIn(d, x, h[n])
      <4>1. x \in DOMAIN Top <=> \/ h[n] = 0 /\ \E f \in Functions : prog[f].name = x
                                 \/ \E d \in 1..(at - 1) : SeenIn(d, x, h[n])
        BY <1>3, <2>1, <2>2 DEF Tabled
      <4>2. (\E d \in 1..((at + 1) - 1) : SeenIn(d, x, h[n]))
              <=> (\E d \in 1..(at - 1) : SeenIn(d, x, h[n])) \/ SeenIn(at, x, h[n])
        <5>1. \A d : d \in 1..((at + 1) - 1) <=> d \in 1..(at - 1) \/ d = at
          BY <1>1
        <5>. QED
          BY <5>1
      <4>. QED
        BY <1>10, <3>1, <4>1, <4>2
    <3>4. Tabled(t, at + 1, h[n])
      BY <3>2, <3>3 DEF Tabled
    <3>. QED
      BY <1>5, <2>2, <3>4
  <2>3. CASE k # n
    <3>1. h[k] < h[n]
      BY <1>2, <1>3, <2>3 DEF Homes
    <3>2. h[k] # h[n]
      BY <1>3, <3>1
    <3>3. \A d \in at..((at + 1) - 1) : \A x \in Names : ~SeenIn(d, x, h[k])
      BY <1>1, <1>10, <3>2
    <3>4. Tabled(scopes[k], at + 1, h[k])
      BY <1>1, <2>1, <3>3, TabledSame
    <3>. QED
      BY <1>5, <2>3, <3>4
  <2>. QED
    BY <2>2, <2>3
<1>. QED
  BY <1>2, <1>5, <1>6, <1>7, <1>8, <1>11, ResolveInvNext

\* The resolver finds a name that means something, and no other.
LEMMA ResolverFinds ==
    ASSUME TypeInv, ResolveInv, pass = "resolve", at <= Len(prog),
           prog[at].mark \in {"use", "target", "callee"}
    PROVE  ~Unseen(at) /\ (Bound(prog[at].name) <=> Meant(at) # Nothing)
<1>1. /\ WellFormed(prog) /\ Balanced(prog) /\ Len(prog) \in Nat /\ DOMAIN prog = 1..Len(prog)
      /\ at \in Nat /\ at > 0 /\ Len(scopes) \in Nat /\ DOMAIN scopes = 1..Len(scopes)
      /\ at \in 1..Len(prog) /\ at \in 1..(Len(prog) + 1)
  BY Given
<1>2. PICK h \in [1..Len(scopes) -> 0..Len(prog)] :
         /\ Homes(prog, Scoped, at, h, Len(scopes))
         /\ \A k \in 1..Len(scopes) : Tabled(scopes[k], at, h[k])
  BY DEF ResolveInv
<1>. DEFINE n == prog[at].name
            named == {f \in Functions : prog[f].name = n}
<1>3. n \in Names
  BY <1>1 DEF WellFormed
<1>4. prog[at].mark # "end"
  OBVIOUS
<1>5. ~Unseen(at)
  BY <1>1, <1>4, AroundIs DEF ResolveInv
<1>6. Bound(n) <=> \E k \in 1..Len(scopes) : n \in DOMAIN scopes[k]
  BY <1>1 DEF Bound, Holding
<1>7. Outer(prog, Homed, at) = Outer(prog, Scoped, at)
  <2>1. \A o \in Outer(prog, Homed, at) : prog[o].mark \in Scoped
    <3>. TAKE o \in Outer(prog, Homed, at)
    <3>1. prog[o].mark \in Homed /\ o \notin Outer(prog, Hidden, at)
      BY DEF Outer, ResolveInv
    <3>2. prog[o].mark \notin Hidden
      BY <3>1 DEF Outer
    <3>. QED
      BY <3>1, <3>2, Kinds
  <2>. QED
    BY <2>1, Kinds DEF Outer
<1>8. Meant(at) # Nothing <=> Visible(at) # {} \/ named # {}
  <2>1. Visible(at) # {} => Meant(at) > 0
    BY <1>1, <1>4, MeantIs
  <2>2. Visible(at) = {} /\ named # {} => Meant(at) < 0
    BY <1>1, <1>4, MeantIs
  <2>3. Visible(at) = {} /\ named = {} => Meant(at) = Nothing
    BY <1>1, <1>4, MeantIs
  <2>. QED
    BY <2>1, <2>2, <2>3 DEF Nothing
<1>9. ASSUME NEW k \in 1..Len(scopes), n \in DOMAIN scopes[k]
      PROVE  Visible(at) # {} \/ named # {}
  <2>1. Tabled(scopes[k], at, h[k]) /\ h[k] \in {0} \union Outer(prog, Scoped, at)
    BY <1>1, <1>2, HomesBefore
  <2>2. CASE \E f \in Functions : prog[f].name = n
    BY <2>2
  <2>3. CASE \E d \in 1..(at - 1) : SeenIn(d, n, h[k])
    <3>1. PICK d \in 1..(at - 1) : Declares(d, n) /\ Home(d) = h[k]
      BY <2>3 DEF SeenIn
    <3>2. d \in 1..Len(prog) /\ Home(d) = HomeIn(prog, Homed, d)
      BY <1>1, <3>1, AroundIs, Declaring
    <3>3. d \in Visible(at)
      BY <1>1, <1>4, <1>7, <2>1, <3>1, <3>2, VisibleIs
    <3>. QED
      BY <3>3
  <2>. QED
    BY <1>3, <1>9, <2>1, <2>2, <2>3 DEF Tabled
<1>10. ASSUME named # {}
       PROVE  \E k \in 1..Len(scopes) : n \in DOMAIN scopes[k]
  <2>1. 1 \in 1..Len(scopes) /\ h[1] = 0
    BY <1>1, <1>2 DEF Homes
  <2>2. Tabled(scopes[1], at, 0)
    BY <1>2, <2>1
  <2>. QED
    BY <1>3, <1>10, <2>1, <2>2 DEF Tabled
<1>11. ASSUME NEW d \in Visible(at)
       PROVE  \E k \in 1..Len(scopes) : n \in DOMAIN scopes[k]
  <2>1. /\ d \in 1..(at - 1) /\ d \in 1..Len(prog) /\ Declares(d, n)
        /\ HomeIn(prog, Homed, d) \in {0} \union Outer(prog, Scoped, at)
    BY <1>1, <1>4, <1>7, VisibleIs
  <2>2. Home(d) = HomeIn(prog, Homed, d)
    BY <1>1, <2>1, AroundIs, Declaring
  <2>3. ~Unseen(d)
    BY <1>1, <1>4, <1>5, SeenResolved
  <2>4. PICK k \in 1..Len(scopes) : h[k] = Home(d)
    <3>1. Home(d) \in {0} \union Outer(prog, Scoped, at)
      BY <2>1, <2>2
    <3>2. Homes(prog, Scoped, at, h, Len(scopes))
      BY <1>2
    <3>3. Reached(Home(d), h, Len(scopes))
      BY <1>1, <3>1, <3>2, HomesAll
    <3>. QED
      BY <3>3 DEF Reached
  <2>5. SeenIn(d, n, h[k])
    BY <2>1, <2>3, <2>4 DEF SeenIn
  <2>6. Tabled(scopes[k], at, h[k])
    BY <1>2
  <2>7. n \in DOMAIN scopes[k]
    BY <1>3, <2>1, <2>5, <2>6 DEF Tabled
  <2>. QED
    BY <2>7
<1>. QED
  BY <1>5, <1>6, <1>8, <1>9, <1>10, <1>11

\* The resolver at a name: an error exactly when nothing visible declares it.
LEMMA ResolveNames ==
    ASSUME TypeInv, ResolveInv, pass = "resolve", at <= Len(prog),
           prog[at].mark \in {"use", "target", "callee"}, Error(~Bound(prog[at].name)),
           at' = at + 1, UNCHANGED <<prog, scopes>>
    PROVE  ResolveInv'
<1>1. /\ WellFormed(prog) /\ Balanced(prog) /\ Len(prog) \in Nat /\ DOMAIN prog = 1..Len(prog)
      /\ at \in Nat /\ at > 0 /\ Len(scopes) \in Nat /\ at \in 1..Len(prog)
  BY Given
<1>2. PICK h \in [1..Len(scopes) -> 0..Len(prog)] :
         /\ Homes(prog, Scoped, at, h, Len(scopes))
         /\ \A k \in 1..Len(scopes) : Tabled(scopes[k], at, h[k])
  BY DEF ResolveInv
<1>3. prog[at].mark \notin Open /\ prog[at].mark # "end" /\ prog[at].mark # "declare"
      /\ prog[at].mark \notin {"fn", "lambda"}
  BY DEF Open, Scoped
<1>4. Outer(prog, Hidden, at') = {} /\ Outer(prog, Scoped, at') = Outer(prog, Scoped, at)
  BY <1>1, <1>3, Kinds, OuterPass DEF ResolveInv
<1>5. Homes(prog, Scoped, at', h, Len(scopes))
  BY <1>2, <1>4, HomesSame
<1>6. \A k \in 1..Len(scopes) : Tabled(scopes[k], at', h[k])
  <2>. TAKE k \in 1..Len(scopes)
  <2>1. \A d \in at..((at + 1) - 1) : \A m \in Names : ~SeenIn(d, m, h[k])
    BY <1>1, <1>3, Declaring DEF SeenIn
  <2>. QED
    BY <1>1, <1>2, <2>1, TabledSame
<1>7. errors' = Faults(at')
  <2>1. errors = Faults(at) /\ errors' = errors \union (IF Meant(at) = Nothing THEN {at} ELSE {})
    BY ResolverFinds DEF ResolveInv, Error
  <2>2. at \in Uses /\ ~Unseen(at)
    BY <1>1, ResolverFinds DEF Uses
  <2>3. \A i \in Uses : i < at + 1 <=> i < at \/ i = at
    BY <1>1 DEF Uses
  <2>. QED
    BY <1>1, <2>1, <2>2, <2>3 DEF Faults
<1>. QED
  BY <1>2, <1>4, <1>5, <1>6, <1>7, ResolveInvNext

\* Any other mark the resolver visits changes neither tables nor errors.
LEMMA ResolveOthers ==
    ASSUME TypeInv, ResolveInv, pass = "resolve", at <= Len(prog),
           prog[at].mark \in {"declared", "literal", "call", "binary", "assign", "drop"},
           at' = at + 1, UNCHANGED <<prog, scopes, errors>>
    PROVE  ResolveInv'
<1>1. /\ WellFormed(prog) /\ Balanced(prog) /\ Len(prog) \in Nat /\ DOMAIN prog = 1..Len(prog)
      /\ at \in Nat /\ at > 0 /\ Len(scopes) \in Nat /\ at \in 1..Len(prog)
  BY Given
<1>2. PICK h \in [1..Len(scopes) -> 0..Len(prog)] :
         /\ Homes(prog, Scoped, at, h, Len(scopes))
         /\ \A k \in 1..Len(scopes) : Tabled(scopes[k], at, h[k])
  BY DEF ResolveInv
<1>3. prog[at].mark \notin Open /\ prog[at].mark # "end" /\ prog[at].mark # "declare"
      /\ prog[at].mark \notin {"fn", "lambda"} /\ prog[at].mark \notin {"use", "target", "callee"}
  BY DEF Open, Scoped
<1>4. Outer(prog, Hidden, at') = {} /\ Outer(prog, Scoped, at') = Outer(prog, Scoped, at)
  BY <1>1, <1>3, Kinds, OuterPass DEF ResolveInv
<1>5. Homes(prog, Scoped, at', h, Len(scopes))
  BY <1>2, <1>4, HomesSame
<1>6. \A k \in 1..Len(scopes) : Tabled(scopes[k], at', h[k])
  <2>. TAKE k \in 1..Len(scopes)
  <2>1. \A d \in at..((at + 1) - 1) : \A m \in Names : ~SeenIn(d, m, h[k])
    BY <1>1, <1>3, Declaring DEF SeenIn
  <2>. QED
    BY <1>1, <1>2, <2>1, TabledSame
<1>7. errors' = Faults(at')
  <2>1. at \notin Uses
    BY <1>3 DEF Uses
  <2>. QED
    BY <1>1, <2>1 DEF ResolveInv, Faults, Uses
<1>. QED
  BY <1>2, <1>4, <1>5, <1>6, <1>7, ResolveInvNext DEF ResolveInv

-----------------------------------------------------------------------------
\* The generator's table has the last declaration in each scope, but for those in
\* matches that have ended, which it may have given up.
Kept(table, n, d) == n \in DOMAIN table /\ d <= table[n].decl
PastMatch(d, a) == \E m \in 1..(d - 1) : prog[m].mark = "match" /\ Close(m) \in (d + 1)..a
StoredIn(d, n, o) == Declares(d, n) /\ HomeIn(prog, Frames, d) = o
Stored(table, a, o) ==
    /\ \A n \in Names : n \in DOMAIN table =>
          table[n].decl \in 1..(a - 1) /\ StoredIn(table[n].decl, n, o)
    /\ \A n \in Names : \A d \in 1..(a - 1) :
          StoredIn(d, n, o) => Kept(table, n, d) \/ PastMatch(d, a)
GenerateInv ==
    pass = "generate" =>
        /\ \E h \in [1..Len(scopes) -> 0..Len(prog)] :
              /\ Homes(prog, Frames, at, h, Len(scopes))
              /\ \A k \in 1..Len(scopes) : Stored(scopes[k], at, h[k])
        /\ functions = [n \in {prog[i].name : i \in Functions} |->
                          -Max({i \in Functions : prog[i].name = n})]

BoundWell(i, b) ==
    \/ b = Meant(i) /\ (b = Nothing => Unseen(i))
    \/ prog[i].mark = "callee" /\ b < 0 /\ Meant(i) > 0
    \/ prog[i].mark = "target" /\ b = Nothing /\ Meant(i) < 0
    \/ HasEnded(b, i)
BoundInv == \A i \in DOMAIN bound : i \in Uses /\ BoundWell(i, bound[i])
NoneUnbound == \A i \in Uses : Meant(i) = Nothing => Unseen(i)

\* What the generator's invariant says of a program does not change while the program does not.
LEMMA StoredSteady ==
    ASSUME prog' = prog
    PROVE  /\ \A d, n, o : StoredIn(d, n, o)' <=> StoredIn(d, n, o)
           /\ \A i, b : BoundWell(i, b)' <=> BoundWell(i, b)
<1>1. \A d, n, o : StoredIn(d, n, o)' <=> StoredIn(d, n, o)
  BY Steady DEF StoredIn
<1>2. \A i, b : HasEnded(b, i)' <=> HasEnded(b, i)
  BY Steady DEF HasEnded
<1>3. \A i, b : BoundWell(i, b)' <=> BoundWell(i, b)
  BY <1>2, Steady DEF BoundWell
<1>. QED
  BY <1>1, <1>3

\* The generator's invariant in the next state, from a stack of homes and what each table holds.
LEMMA GenerateInvNext ==
    ASSUME prog' = prog, pass = "generate", GenerateInv, functions' = functions,
           NEW g \in [1..Len(scopes') -> 0..Len(prog)], Homes(prog, Frames, at', g, Len(scopes')),
           \A k \in 1..Len(scopes') : Stored(scopes'[k], at', g[k])
    PROVE  GenerateInv'
<1>1. functions' = [n \in {prog'[i].name : i \in Functions'} |->
                      -Max({i \in Functions' : prog'[i].name = n})]
  <2>1. functions = [n \in {prog[i].name : i \in Functions} |->
                       -Max({i \in Functions : prog[i].name = n})]
    BY DEF GenerateInv
  <2>2. Functions' = Functions
    BY Steady
  <2>. QED
    BY <2>1, <2>2
<1>2. \A k \in 1..Len(scopes') : Stored(scopes[k], at, g[k])'
  <2>. TAKE k \in 1..Len(scopes')
  <2>1. Stored(scopes'[k], at', g[k])
    OBVIOUS
  <2>2. \A d : PastMatch(d, at)' <=> PastMatch(d, at')
    BY Steady DEF PastMatch
  <2>3. \A d, n : Kept(scopes[k], n, d)' <=> Kept(scopes'[k], n, d)
    BY DEF Kept
  <2>. QED
    BY <2>1, <2>2, <2>3, StoredSteady DEF Stored
<1>. QED
  BY <1>1, <1>2 DEF GenerateInv

\* A table fits a later mark when nothing in between is stored in its scope, but for what has ended.
LEMMA StoredSame ==
    ASSUME NEW t, NEW a \in Nat, NEW b \in Nat, NEW o, Stored(t, a, o), a <= b,
           \A d \in a..(b - 1) : \A n \in Names : StoredIn(d, n, o) => PastMatch(d, b)
    PROVE  Stored(t, b, o)
<1>1. \A d \in Nat : PastMatch(d, a) => PastMatch(d, b)
  BY DEF PastMatch
<1>2. ASSUME NEW n \in Names, NEW d \in 1..(b - 1), StoredIn(d, n, o)
      PROVE  Kept(t, n, d) \/ PastMatch(d, b)
  <2>1. CASE d \in 1..(a - 1)
    BY <1>1, <1>2, <2>1 DEF Stored
  <2>2. CASE d \in a..(b - 1)
    BY <1>2, <2>2
  <2>. QED
    BY <2>1, <2>2
<1>3. \A n \in Names : n \in DOMAIN t => t[n].decl \in 1..(b - 1) /\ StoredIn(t[n].decl, n, o)
  <2>. SUFFICES ASSUME NEW n \in Names, n \in DOMAIN t
                PROVE  t[n].decl \in 1..(b - 1) /\ StoredIn(t[n].decl, n, o)
    OBVIOUS
  <2>1. t[n].decl \in 1..(a - 1) /\ StoredIn(t[n].decl, n, o)
    BY DEF Stored
  <2>. QED
    BY <2>1
<1>. QED
  BY <1>2, <1>3 DEF Stored

\* Steps that leave the generator's stack alone.
LEMMA GenerateStays ==
    ASSUME TypeInv, GenerateInv, pass = "generate", UNCHANGED <<prog, scopes, functions>>,
           at' \in Nat, at <= at', Outer(prog, Frames, at') = Outer(prog, Frames, at),
           \A d \in at..(at' - 1) : \A n \in Names : Declares(d, n) => PastMatch(d, at')
    PROVE  GenerateInv'
<1>1. PICK h \in [1..Len(scopes) -> 0..Len(prog)] :
         /\ Homes(prog, Frames, at, h, Len(scopes))
         /\ \A k \in 1..Len(scopes) : Stored(scopes[k], at, h[k])
  BY DEF GenerateInv
<1>2. Homes(prog, Frames, at', h, Len(scopes))
  BY <1>1, HomesSame
<1>3. \A k \in 1..Len(scopes) : Stored(scopes[k], at', h[k])
  <2>. TAKE k \in 1..Len(scopes)
  <2>1. PICK b \in Nat : b = at'
    OBVIOUS
  <2>2. at \in Nat /\ at <= b /\ \A d \in at..(b - 1) : \A n \in Names : StoredIn(d, n, h[k]) => PastMatch(d, b)
    BY <2>1, Given DEF StoredIn
  <2>3. Stored(scopes[k], b, h[k])
    BY <1>1, <2>2, StoredSame
  <2>. QED
    BY <2>1, <2>3
<1>. QED
  BY <1>2, <1>3, GenerateInvNext

\* A mark that is of no kind the generator makes a scope for, and no declaration.
LEMMA GeneratePasses ==
    ASSUME TypeInv, GenerateInv, pass = "generate", at <= Len(prog), UNCHANGED <<prog, scopes, functions>>,
           at' = at + 1, prog[at].mark \notin Frames \union {"declare"},
           prog[at].mark = "end" => prog[Opener(at)].mark \notin Frames
    PROVE  GenerateInv'
<1>1. /\ Balanced(prog) /\ at \in Nat /\ at \in 1..Len(prog)
  BY Given
<1>2. Outer(prog, Frames, at + 1) = Outer(prog, Frames, at)
  <2>1. CASE prog[at].mark = "end"
    <3>1. Opener(at) \notin Outer(prog, Frames, at)
      BY <2>1 DEF Outer
    <3>2. Frames \in SUBSET Open
      BY Kinds
    <3>3. Outer(prog, Frames, at + 1) = Outer(prog, Frames, at) \ {Opener(at)}
      BY <1>1, <2>1, <3>2, OuterEnd
    <3>. QED
      BY <3>1, <3>3
  <2>2. CASE prog[at].mark # "end"
    BY <1>1, <2>2, Kinds, OuterPass
  <2>. QED
    BY <2>1, <2>2
<1>3. \A n : ~Declares(at, n)
  BY Kinds, Declaring
<1>4. \A d \in at..((at + 1) - 1) : d = at
  BY <1>1
<1>. QED
  BY <1>1, <1>2, <1>3, <1>4, GenerateStays

\* The generator at a function or block: a new table with the parameters.
LEMMA GenerateEnters ==
    ASSUME TypeInv, GenerateInv, pass = "generate", at <= Len(prog), prog[at].mark \in Frames,
           NEW type, scopes' = Append(scopes, Params(type)), at' = at + 1, UNCHANGED <<prog, functions>>
    PROVE  GenerateInv' /\ Sequence(scopes')
<1>1. /\ WellFormed(prog) /\ Balanced(prog) /\ Len(prog) \in Nat /\ DOMAIN prog = 1..Len(prog)
      /\ at \in Nat /\ at > 0 /\ Len(scopes) \in Nat /\ at \in 1..Len(prog) /\ at \in 1..(Len(prog) + 1)
  BY Given
<1>2. PICK h \in [1..Len(scopes) -> 0..Len(prog)] :
         /\ Homes(prog, Frames, at, h, Len(scopes))
         /\ \A k \in 1..Len(scopes) : Stored(scopes[k], at, h[k])
  BY DEF GenerateInv
<1>. DEFINE g == [k \in 1..(Len(scopes) + 1) |-> IF k <= Len(scopes) THEN h[k] ELSE at]
<1>3. g \in [1..(Len(scopes) + 1) -> 0..Len(prog)] /\ Homes(prog, Frames, at + 1, g, Len(scopes) + 1)
  BY <1>1, <1>2, HomesEnter, Kinds
<1>4. /\ Sequence(scopes') /\ Len(scopes') = Len(scopes) + 1
      /\ scopes'[Len(scopes) + 1] = Params(type) /\ \A k \in 1..Len(scopes) : scopes'[k] = scopes[k]
  BY SequenceAppend DEF TypeInv
<1>5. g[Len(scopes) + 1] = at /\ \A k \in 1..Len(scopes) : g[k] = h[k]
  BY <1>1
<1>. HIDE DEF g
<1>6. \A n : Declares(at, n) => HomeIn(prog, Frames, at) = at
  <2>. SUFFICES ASSUME NEW n, Declares(at, n) PROVE HomeIn(prog, Frames, at) = at
    OBVIOUS
  <2>1. prog[at].mark # "declare"
    BY DEF Frames
  <2>. QED
    BY <2>1, Declaring DEF HomeIn
<1>7. ASSUME NEW k \in 1..Len(scopes')
      PROVE  Stored(scopes'[k], at', g[k])
  <2>1. CASE k = Len(scopes) + 1
    <3>. DEFINE t == Params(type)
    <3>1. \A n \in Names : n \in DOMAIN t <=> Declares(at, n)
      BY <1>1, Kinds, ParamsAre
    <3>2. \A n \in DOMAIN t : t[n].decl = at
      BY ParamsEntries DEF Entry
    <3>. HIDE DEF t
    <3>3. \A n \in Names : n \in DOMAIN t =>
             t[n].decl \in 1..((at + 1) - 1) /\ StoredIn(t[n].decl, n, at)
      BY <1>1, <1>6, <3>1, <3>2 DEF StoredIn
    <3>4. ASSUME NEW n \in Names, NEW d \in 1..((at + 1) - 1), StoredIn(d, n, at)
          PROVE  Kept(t, n, d)
      <4>1. d \in 1..Len(prog) /\ HomeIn(prog, Frames, d) = at /\ Declares(d, n)
        BY <1>1, <3>4 DEF StoredIn
      <4>2. at <= d
        BY <1>1, <4>1, HomeInIs
      <4>3. d = at
        BY <1>1, <4>1, <4>2
      <4>. QED
        BY <1>1, <3>1, <3>2, <4>1, <4>3 DEF Kept
    <3>5. Stored(t, at + 1, at)
      BY <3>3, <3>4 DEF Stored
    <3>. QED
      BY <1>4, <1>5, <2>1, <3>5 DEF t
  <2>2. CASE k \in 1..Len(scopes)
    <3>1. Stored(scopes[k], at, h[k]) /\ h[k] \in Nat /\ h[k] < at
      BY <1>1, <1>2, <2>2, HomesBefore
    <3>2. \A d \in at..((at + 1) - 1) : \A n \in Names : ~StoredIn(d, n, h[k])
      BY <1>1, <1>6, <3>1 DEF StoredIn
    <3>3. Stored(scopes[k], at + 1, h[k])
      <4>1. PICK b \in Nat : b = at + 1
        BY <1>1
      <4>. QED
        BY <1>1, <3>1, <3>2, <4>1, StoredSame
    <3>. QED
      BY <1>4, <1>5, <2>2, <3>3
  <2>. QED
    BY <1>1, <1>4, <2>1, <2>2
<1>. QED
  BY <1>3, <1>4, <1>7, GenerateInvNext

\* The generator at the end of one drops its table.
LEMMA GenerateLeaves ==
    ASSUME TypeInv, GenerateInv, pass = "generate", at <= Len(prog), prog[at].mark = "end",
           prog[Opener(at)].mark \in Frames, Leave, at' = at + 1, UNCHANGED <<prog, functions>>
    PROVE  GenerateInv' /\ Sequence(scopes')
<1>1. /\ WellFormed(prog) /\ Balanced(prog) /\ Len(prog) \in Nat /\ DOMAIN prog = 1..Len(prog)
      /\ at \in Nat /\ at > 0 /\ Len(scopes) \in Nat /\ at \in 1..Len(prog) /\ at \in 1..(Len(prog) + 1)
  BY Given
<1>2. PICK h \in [1..Len(scopes) -> 0..Len(prog)] :
         /\ Homes(prog, Frames, at, h, Len(scopes))
         /\ \A k \in 1..Len(scopes) : Stored(scopes[k], at, h[k])
  BY DEF GenerateInv
<1>. DEFINE n == Len(scopes) - 1
            g == [k \in 1..n |-> h[k]]
<1>3. n \in Nat /\ n > 0 /\ g \in [1..n -> 0..Len(prog)] /\ Homes(prog, Frames, at + 1, g, n)
  <2>1. Frames \in SUBSET Open
    BY Kinds
  <2>2. Homes(prog, Frames, at, h, Len(scopes))
    BY <1>2
  <2>3. PICK a \in 1..Len(prog) : a = at
    BY <1>1
  <2>4. PICK c \in Nat : c = Len(scopes)
    BY <1>1
  <2>5. /\ h \in [1..c -> 0..Len(prog)] /\ Homes(prog, Frames, a, h, c)
        /\ Balanced(prog) /\ prog[a].mark = "end" /\ prog[Opener(a)].mark \in Frames
    BY <1>1, <2>2, <2>3, <2>4
  <2>6. c - 1 \in Nat /\ c - 1 > 0 /\ [k \in 1..(c - 1) |-> h[k]] \in [1..(c - 1) -> 0..Len(prog)]
        /\ Homes(prog, Frames, a + 1, [k \in 1..(c - 1) |-> h[k]], c - 1)
    BY ONLY <2>1, <2>5, HomesLeave
  <2>. QED
    BY <2>3, <2>4, <2>6
<1>4. Sequence(scopes') /\ Len(scopes') = n /\ \A k \in 1..n : scopes'[k] = scopes[k]
  BY <1>1, <1>3, SequenceFront DEF TypeInv, Leave
<1>5. \A k \in 1..n : g[k] = h[k]
  OBVIOUS
<1>. HIDE DEF g
<1>6. ASSUME NEW k \in 1..n
      PROVE  Stored(scopes'[k], at', g[k])
  <2>1. k \in 1..Len(scopes)
    BY <1>1
  <2>2. \A d \in at..((at + 1) - 1) : \A m \in Names : ~StoredIn(d, m, h[k])
    BY <1>1, Declaring DEF StoredIn
  <2>3. Stored(scopes[k], at + 1, h[k])
    <3>1. PICK b \in Nat : b = at + 1
      BY <1>1
    <3>. QED
      BY <1>1, <1>2, <2>1, <2>2, <3>1, StoredSame
  <2>. QED
    BY <1>4, <1>5, <2>3
<1>. HIDE DEF n
<1>. QED
  BY <1>3, <1>4, <1>6, GenerateInvNext

\* The generator at a declaration: the name is stored in the innermost table.
LEMMA GenerateDeclares ==
    ASSUME TypeInv, GenerateInv, pass = "generate", at <= Len(prog), prog[at].mark = "declare",
           NEW type, SetTop(With(Top, prog[at].name, Entry(at, type))),
           at' = at + 1, UNCHANGED <<prog, functions>>
    PROVE  GenerateInv' /\ Sequence(scopes')
<1>1. /\ WellFormed(prog) /\ Balanced(prog) /\ Len(prog) \in Nat /\ DOMAIN prog = 1..Len(prog)
      /\ at \in Nat /\ at > 0 /\ Len(scopes) \in Nat /\ at \in 1..Len(prog) /\ at \in 1..(Len(prog) + 1)
  BY Given
<1>2. PICK h \in [1..Len(scopes) -> 0..Len(prog)] :
         /\ Homes(prog, Frames, at, h, Len(scopes))
         /\ \A k \in 1..Len(scopes) : Stored(scopes[k], at, h[k])
  BY DEF GenerateInv
<1>. DEFINE n == Len(scopes)
            m == prog[at].name
<1>3. n \in 1..Len(scopes) /\ Top = scopes[n]
  BY <1>1, <1>2 DEF Homes, Top
<1>4. PICK t : t = With(Top, m, Entry(at, type))
  OBVIOUS
<1>5. /\ Sequence(scopes') /\ Len(scopes') = n /\ scopes'[n] = t
      /\ \A k \in 1..n : k # n => scopes'[k] = scopes[k]
  <2>1. SetTop(t)
    BY <1>4
  <2>2. Sequence(scopes) /\ Len(scopes) > 0
    BY <1>3 DEF TypeInv
  <2>. QED
    BY <2>1, <2>2, TopIs
<1>6. Outer(prog, Frames, at') = Outer(prog, Frames, at)
  <2>1. "declare" \notin Frames
    BY DEF Frames
  <2>. QED
    BY <1>1, <2>1, Kinds, OuterPass
<1>7. Homes(prog, Frames, at', h, n)
  BY <1>2, <1>6, HomesSame
<1>8. HomeIn(prog, Frames, at) = h[n] /\ m \in Names
  <2>1. m \in Names
    BY <1>1 DEF WellFormed
  <2>2. h[n] = Max({0} \union Outer(prog, Frames, at))
    BY <1>1, <1>2, HomesTop
  <2>. QED
    BY <2>1, <2>2 DEF HomeIn
<1>9. \A x, o : StoredIn(at, x, o) <=> x = m /\ o = h[n]
  BY <1>8 DEF StoredIn, Declares
<1>10. DOMAIN t = DOMAIN Top \union {m} /\ t[m].decl = at /\ \A x \in DOMAIN Top : x # m => t[x] = Top[x]
  BY <1>4 DEF With, Entry
<1>. HIDE DEF m
<1>11. ASSUME NEW k \in 1..n
       PROVE  Stored(scopes'[k], at', h[k])
  <2>1. Stored(scopes[k], at, h[k])
    BY <1>2
  <2>2. CASE k = n
    <3>0. Stored(Top, at, h[n])
      BY <1>3, <2>1, <2>2
    <3>1. ASSUME NEW x \in Names, x \in DOMAIN t
          PROVE  t[x].decl \in 1..((at + 1) - 1) /\ StoredIn(t[x].decl, x, h[n])
      <4>1. CASE x = m
        BY <1>1, <1>9, <1>10, <4>1
      <4>2. CASE x # m
        <5>1. x \in DOMAIN Top /\ t[x] = Top[x]
          BY <1>10, <3>1, <4>2
        <5>2. Top[x].decl \in 1..(at - 1) /\ StoredIn(Top[x].decl, x, h[n])
          BY <3>0, <5>1 DEF Stored
        <5>. QED
          BY <1>1, <5>1, <5>2
      <4>. QED
        BY <4>1, <4>2
    <3>2. ASSUME NEW x \in Names, NEW d \in 1..((at + 1) - 1), StoredIn(d, x, h[n])
          PROVE  Kept(t, x, d) \/ PastMatch(d, at + 1)
      <4>1. CASE x = m
        BY <1>1, <1>10, <4>1 DEF Kept
      <4>2. CASE x # m
        <5>1. d \in 1..(at - 1)
          BY <1>1, <1>9, <3>2, <4>2
        <5>2. Kept(Top, x, d) \/ PastMatch(d, at)
          BY <3>0, <3>2, <5>1 DEF Stored
        <5>3. Kept(Top, x, d) => Kept(t, x, d)
          BY <1>10, <4>2 DEF Kept
        <5>4. PastMatch(d, at) => PastMatch(d, at + 1)
          BY <1>1 DEF PastMatch
        <5>. QED
          BY <5>2, <5>3, <5>4
      <4>. QED
        BY <4>1, <4>2
    <3>3. Stored(t, at + 1, h[n])
      BY <3>1, <3>2 DEF Stored
    <3>. QED
      BY <1>5, <2>2, <3>3
  <2>3. CASE k # n
    <3>1. h[k] < h[n]
      BY <1>2, <1>3, <2>3 DEF Homes
    <3>2. h[k] # h[n]
      BY <1>3, <3>1
    <3>3. \A d \in at..((at + 1) - 1) : \A x \in Names : ~StoredIn(d, x, h[k])
      BY <1>1, <1>9, <3>2
    <3>4. Stored(scopes[k], at + 1, h[k])
      <4>1. PICK b \in Nat : b = at + 1
        BY <1>1
      <4>. QED
        BY <1>1, <2>1, <3>3, <4>1, StoredSame
    <3>. QED
      BY <1>5, <2>3, <3>4
  <2>. QED
    BY <2>2, <2>3
<1>. QED
  BY <1>2, <1>5, <1>7, <1>11, GenerateInvNext

-----------------------------------------------------------------------------
\* What the generator binds a name to.
LEMMA SeenKept ==
    ASSUME TypeInv, at <= Len(prog), prog[at].mark \in {"use", "target", "callee"},
           NEW h \in [1..Len(scopes) -> 0..Len(prog)], Homes(prog, Frames, at, h, Len(scopes)),
           \A k \in 1..Len(scopes) : Stored(scopes[k], at, h[k]), NEW d \in Visible(at)
    PROVE  \E k \in 1..Len(scopes) : h[k] = HomeIn(prog, Frames, d) /\ Kept(scopes[k], prog[at].name, d)
<1>1. /\ WellFormed(prog) /\ Balanced(prog) /\ Len(prog) \in Nat /\ DOMAIN prog = 1..Len(prog)
      /\ at \in Nat /\ at > 0 /\ Len(scopes) \in Nat /\ at \in 1..Len(prog) /\ prog[at].mark # "end"
  BY Given
<1>2. Frames \in SUBSET Homed /\ Frames \subseteq Frames
  BY Kinds
<1>3. /\ d \in 1..(at - 1) /\ d \in 1..Len(prog) /\ Declares(d, prog[at].name)
      /\ HomeIn(prog, Frames, d) \in {0} \union Outer(prog, Frames, at)
  BY <1>1, <1>2, SeenOpen
<1>4. PICK k \in 1..Len(scopes) : h[k] = HomeIn(prog, Frames, d)
  <2>1. PICK o \in {0} \union Outer(prog, Frames, at) : o = HomeIn(prog, Frames, d)
    BY <1>3
  <2>2. Homes(prog, Frames, at, h, Len(scopes))
    OBVIOUS
  <2>3. Reached(o, h, Len(scopes))
    BY <1>1, <2>1, <2>2, HomesAll
  <2>. QED
    BY <2>1, <2>3 DEF Reached
<1>5. prog[at].name \in Names
  BY <1>1 DEF WellFormed
<1>6. StoredIn(d, prog[at].name, h[k])
  BY <1>3, <1>4 DEF StoredIn
<1>7. Stored(scopes[k], at, h[k])
  BY <1>4
<1>8. Kept(scopes[k], prog[at].name, d) \/ PastMatch(d, at)
  BY <1>3, <1>5, <1>6, <1>7 DEF Stored
<1>9. ~PastMatch(d, at)
  <2>. SUFFICES ASSUME NEW o \in 1..(d - 1), prog[o].mark = "match", Close(o) \in (d + 1)..at
                PROVE  FALSE
    BY DEF PastMatch
  <2>1. d < Close(o) /\ Close(o) <= at
    BY <1>1, <1>3
  <2>. QED
    BY <1>1, <2>1, SeenNotClosed
<1>. QED
  BY <1>4, <1>8, <1>9

\* The variable the generator finds is the one the name means, or one whose statement has ended.
LEMMA GeneratorFinds ==
    ASSUME TypeInv, GenerateInv, pass = "generate", at <= Len(prog),
           prog[at].mark \in {"use", "target", "callee"}
    PROVE  /\ Bound(prog[at].name) =>
                /\ Variable(prog[at].name) \in 1..Len(prog)
                /\ Variable(prog[at].name) = Meant(at) \/ HasEnded(Variable(prog[at].name), at)
           /\ ~Bound(prog[at].name) => Variable(prog[at].name) = Nothing /\ Visible(at) = {}
<1>1. /\ WellFormed(prog) /\ Balanced(prog) /\ Len(prog) \in Nat /\ DOMAIN prog = 1..Len(prog)
      /\ at \in Nat /\ at > 0 /\ Len(scopes) \in Nat /\ at \in 1..Len(prog) /\ prog[at].mark # "end"
      /\ DOMAIN scopes = 1..Len(scopes)
  BY Given
<1>2. PICK h \in [1..Len(scopes) -> 0..Len(prog)] :
         /\ Homes(prog, Frames, at, h, Len(scopes))
         /\ \A k \in 1..Len(scopes) : Stored(scopes[k], at, h[k])
  BY DEF GenerateInv
<1>. DEFINE n == prog[at].name
<1>3. n \in Names
  BY <1>1 DEF WellFormed
<1>4. ASSUME NEW d \in Visible(at)
      PROVE  \E k \in 1..Len(scopes) : h[k] = HomeIn(prog, Frames, d) /\ Kept(scopes[k], n, d)
  BY <1>2, SeenKept
<1>5. Holding(n) = {k \in 1..Len(scopes) : n \in DOMAIN scopes[k]}
  BY <1>1 DEF Holding
<1>6. ASSUME ~Bound(n)
      PROVE  Variable(n) = Nothing /\ Visible(at) = {}
  <2>1. Holding(n) = {}
    BY <1>6 DEF Bound
  <2>2. Variable(n) = Nothing
    BY <1>6 DEF Variable
  <2>. QED
    BY <1>4, <1>5, <2>1, <2>2 DEF Kept
<1>7. ASSUME Bound(n)
      PROVE  Variable(n) \in 1..Len(prog) /\ (Variable(n) = Meant(at) \/ HasEnded(Variable(n), at))
  <2>1. PICK top : top = Max(Holding(n))
    OBVIOUS
  <2>2. top \in 1..Len(scopes) /\ n \in DOMAIN scopes[top]
        /\ \A k \in 1..Len(scopes) : n \in DOMAIN scopes[k] => k <= top
    <3>1. Holding(n) # {} /\ Holding(n) \in SUBSET Int /\ Len(scopes) \in Int
          /\ \A k \in Holding(n) : k <= Len(scopes)
      BY <1>1, <1>5, <1>7 DEF Bound
    <3>2. Max(Holding(n)) \in Holding(n) /\ \A k \in Holding(n) : Max(Holding(n)) >= k
      BY <3>1, MaxIs
    <3>. QED
      BY <1>1, <1>5, <2>1, <3>2
  <2>3. PICK d : d = scopes[top][n].decl
    OBVIOUS
  <2>4. Variable(n) = d
    BY <1>7, <2>1, <2>3 DEF Variable, Resolve
  <2>5. Stored(scopes[top], at, h[top]) /\ h[top] \in {0} \union Outer(prog, Frames, at)
    <3>1. at \in 1..(Len(prog) + 1)
      BY <1>1
    <3>. QED
      BY <1>1, <1>2, <2>2, <3>1, HomesBefore
  <2>6. d \in 1..(at - 1) /\ Declares(d, n) /\ HomeIn(prog, Frames, d) = h[top]
    BY <1>3, <2>2, <2>3, <2>5 DEF Stored, StoredIn
  <2>7. d \in 1..Len(prog)
    BY <1>1, <2>6
  <2>8. Frames \in SUBSET Homed /\ Frames \subseteq Frames
    BY Kinds
  <2>9. CASE d \notin Visible(at)
    <3>1. HomeIn(prog, Frames, d) \in {0} \union Outer(prog, Frames, at)
      BY <2>5, <2>6
    <3>2. Home(d) \in 1..(at - 1) /\ prog[Home(d)].mark \in Homed \ Frames /\ Close(Home(d)) < at
      BY <1>1, <2>6, <2>8, <2>9, <3>1, Lingering
    <3>3. HasEnded(d, at)
      BY <2>6, <3>2, Kinds DEF HasEnded
    <3>. QED
      BY <2>4, <2>7, <3>3
  <2>10. CASE d \in Visible(at)
    <3>1. Meant(at) \in Visible(at)
      BY <1>1, <2>10, MeantIs
    <3>2. PICK k \in 1..Len(scopes) : h[k] = HomeIn(prog, Frames, Meant(at)) /\ Kept(scopes[k], n, Meant(at))
      BY <1>4, <3>1
    <3>3. k <= top
      BY <2>2, <3>2 DEF Kept
    <3>4. \/ HomeIn(prog, Frames, d) > HomeIn(prog, Frames, Meant(at))
          \/ HomeIn(prog, Frames, d) = HomeIn(prog, Frames, Meant(at)) /\ d >= Meant(at)
      <4>1. CASE k = top
        <5>1. Meant(at) <= d /\ h[top] = HomeIn(prog, Frames, Meant(at))
          BY <2>3, <3>2, <4>1 DEF Kept
        <5>2. Meant(at) \in Int /\ d \in Int
          BY <1>1, <2>6, <3>1, VisibleIs
        <5>. QED
          BY <2>6, <5>1, <5>2
      <4>2. CASE k < top
        <5>1. h[k] < h[top] /\ h[k] \in Nat /\ h[top] \in Nat
          BY <1>1, <1>2, <2>2, <3>2, <4>2 DEF Homes
        <5>2. HomeIn(prog, Frames, d) = h[top] /\ HomeIn(prog, Frames, Meant(at)) = h[k]
          BY <2>6, <3>2
        <5>3. PICK x \in Nat : x = h[top]
          BY <5>1
        <5>4. PICK y \in Nat : y = h[k]
          BY <5>1
        <5>. QED
          BY <5>1, <5>2, <5>3, <5>4
      <4>. QED
        BY <2>2, <3>2, <3>3, <4>1, <4>2
    <3>5. d = Meant(at)
      BY <1>1, <2>8, <2>10, <3>4, Nearest
    <3>. QED
      BY <2>4, <2>7, <3>5
  <2>. QED
    BY <2>9, <2>10
<1>. QED
  BY <1>6, <1>7

\* A function is the last of its name.
LEMMA FunctionIs ==
    ASSUME TypeInv, GenerateInv, pass = "generate", at <= Len(prog),
           prog[at].mark \in {"use", "target", "callee"}
    PROVE  /\ Function(prog[at].name) = Nothing \/ Function(prog[at].name) < 0
           /\ Visible(at) = {} => Meant(at) = Function(prog[at].name)
           /\ Visible(at) # {} => Meant(at) > 0
<1>1. /\ WellFormed(prog) /\ Balanced(prog) /\ Len(prog) \in Nat /\ DOMAIN prog = 1..Len(prog)
      /\ at \in Nat /\ at > 0 /\ at \in 1..Len(prog) /\ prog[at].mark # "end"
  BY Given
<1>. DEFINE n == prog[at].name
            named == {f \in Functions : prog[f].name = n}
<1>2. functions = [x \in {prog[i].name : i \in Functions} |-> -Max({i \in Functions : prog[i].name = x})]
  BY DEF GenerateInv
<1>3. n \in DOMAIN functions <=> named # {}
  BY <1>2
<1>4. named # {} => functions[n] = -Max(named)
  BY <1>2, <1>3
<1>5. Function(n) = IF named # {} THEN -Max(named) ELSE Nothing
  BY <1>3, <1>4 DEF Function
<1>6. named # {} => Max(named) > 0 /\ Max(named) \in Int
  <2>1. named \in SUBSET Int /\ (\A x \in named : x <= Len(prog) /\ x > 0) /\ Len(prog) \in Int
    BY <1>1 DEF Functions
  <2>. HIDE DEF named
  <2>2. named # {} => Max(named) \in named
    BY <2>1, MaxIs
  <2>. QED
    BY <2>1, <2>2
<1>7. Visible(at) # {} => Meant(at) > 0
  BY <1>1, MeantIs
<1>8. Visible(at) = {} /\ named # {} => Meant(at) = -Max(named)
  BY <1>1, MeantIs
<1>9. Visible(at) = {} /\ named = {} => Meant(at) = Nothing
  BY <1>1, MeantIs
<1>. HIDE DEF named
<1>. QED
  BY <1>5, <1>6, <1>7, <1>8, <1>9

\* Each way of looking a name up binds it well.
LEMMA GeneratorBinds ==
    ASSUME TypeInv, GenerateInv, NoneUnbound, pass = "generate", at <= Len(prog),
           prog[at].mark \in {"use", "target", "callee"}
    PROVE  LET n == prog[at].name
           IN  /\ at \in Uses
               /\ prog[at].mark = "use" => BoundWell(at, First(Variable(n), Function(n)))
               /\ prog[at].mark = "target" => BoundWell(at, Variable(n))
               /\ prog[at].mark = "callee" => BoundWell(at, First(Function(n), Variable(n)))
<1>1. Len(prog) \in Nat /\ DOMAIN prog = 1..Len(prog) /\ at \in 1..Len(prog)
  BY Given
<1>2. at \in Uses /\ (Meant(at) = Nothing => Unseen(at))
  BY <1>1 DEF NoneUnbound, Uses
<1>3. PICK n : n = prog[at].name
  OBVIOUS
<1>4. PICK v : v = Variable(n)
  OBVIOUS
<1>5. PICK f : f = Function(n)
  OBVIOUS
<1>6. /\ Bound(n) => v \in 1..Len(prog) /\ (v = Meant(at) \/ HasEnded(v, at))
      /\ ~Bound(n) => v = Nothing /\ Visible(at) = {}
  BY <1>3, <1>4, GeneratorFinds
<1>7. /\ f = Nothing \/ f < 0
      /\ Visible(at) = {} => Meant(at) = f
      /\ Visible(at) # {} => Meant(at) > 0
  BY <1>3, <1>5, FunctionIs
<1>8. CASE Bound(n)
  <2>1. v \in 1..Len(prog) /\ v # Nothing /\ (v = Meant(at) \/ HasEnded(v, at))
    BY <1>6, <1>8 DEF Nothing
  <2>2. BoundWell(at, v) /\ First(v, f) = v
    BY <2>1 DEF BoundWell, First
  <2>3. prog[at].mark = "callee" => BoundWell(at, First(f, v))
    <3>1. CASE f = Nothing
      BY <2>2, <3>1 DEF First
    <3>2. CASE f < 0 /\ f # Nothing
      BY <1>2, <1>7, <3>2 DEF BoundWell, First
    <3>. QED
      BY <1>7, <3>1, <3>2 DEF Nothing
  <2>. QED
    BY <1>2, <1>3, <1>4, <1>5, <2>2, <2>3
<1>9. CASE ~Bound(n)
  <2>1. v = Nothing /\ Meant(at) = f
    BY <1>6, <1>7, <1>9
  <2>2. First(v, f) = f /\ First(f, v) = f
    BY <2>1 DEF First
  <2>3. BoundWell(at, f)
    BY <1>2, <2>1 DEF BoundWell
  <2>4. prog[at].mark = "target" => BoundWell(at, v)
    <3>1. CASE f = Nothing
      BY <2>1, <2>3, <3>1
    <3>2. CASE f < 0
      BY <2>1, <3>2 DEF BoundWell
    <3>. QED
      BY <1>7, <3>1, <3>2
  <2>. QED
    BY <1>2, <1>3, <1>4, <1>5, <2>2, <2>3, <2>4
<1>. QED
  BY <1>8, <1>9

-----------------------------------------------------------------------------
\* The steps of the generator.
LEMMA BoundInvNext ==
    ASSUME prog' = prog, BoundInv, NEW b, at \in Uses, BoundWell(at, b),
           bound' = [i \in DOMAIN bound \union {at} |-> IF i = at THEN b ELSE bound[i]]
    PROVE  BoundInv'
<1>1. \A i \in DOMAIN bound' : i \in Uses /\ BoundWell(i, bound'[i])
  BY DEF BoundInv
<1>2. Uses' = Uses
  BY Steady
<1>. QED
  BY <1>1, <1>2, StoredSteady DEF BoundInv

\* BoundInv stays when nothing is bound.
LEMMA BoundInvSame ==
    ASSUME prog' = prog, bound' = bound, BoundInv
    PROVE  BoundInv'
<1>1. Uses' = Uses
  BY Steady
<1>. QED
  BY <1>1, StoredSteady DEF BoundInv

\* A program in which no name is unbound stays one.
LEMMA NoneUnboundSame ==
    ASSUME prog' = prog, NoneUnbound
    PROVE  NoneUnbound'
BY Steady DEF NoneUnbound

\* The generator goes to the end of a match it has given up.
LEMMA GenerateGivesUp ==
    ASSUME TypeInv, GenerateInv, pass = "generate", at <= Len(prog), prog[at].mark = "arms",
           UNCHANGED <<prog, scopes, functions>>, at' = Close(Opener(at))
    PROVE  GenerateInv' /\ at' \in 1..(Len(prog) + 1)
<1>1. /\ WellFormed(prog) /\ Balanced(prog) /\ Len(prog) \in Nat /\ DOMAIN prog = 1..Len(prog)
      /\ at \in Nat /\ at > 0 /\ at \in 1..Len(prog)
  BY Given
<1>2. PICK m \in 1..Len(prog) : prog[m].mark = "match" /\ Encloses(prog, m, at) /\ Depth(prog, at) = Depth(prog, m) + 1
  <2>1. \A i \in DOMAIN prog : prog[i].mark = "arms" =>
           \E m \in DOMAIN prog : prog[m].mark = "match" /\ Encloses(prog, m, i) /\ Depth(prog, i) = Depth(prog, m) + 1
    BY <1>1, Zenon DEF WellFormed
  <2>. QED
    BY <1>1, <2>1
<1>3. Frames \in SUBSET Open
  BY Kinds
<1>4. /\ Close(m) \in 1..Len(prog) /\ at <= Close(m) /\ Opener(at) = m
      /\ Outer(prog, Frames, Close(m)) = Outer(prog, Frames, at)
  BY <1>1, <1>2, <1>3, OuterOut
<1>5. at' = Close(m) /\ m < at
  BY <1>2, <1>4 DEF Encloses
<1>6. \A d \in at..(at' - 1) : PastMatch(d, at')
  <2>. TAKE d \in at..(at' - 1)
  <2>1. m \in 1..(d - 1) /\ Close(m) \in (d + 1)..at'
    BY <1>1, <1>4, <1>5
  <2>. QED
    BY <1>2, <2>1 DEF PastMatch
<1>7. at' \in Nat /\ at <= at' /\ Outer(prog, Frames, at') = Outer(prog, Frames, at)
  BY <1>4, <1>5
<1>8. GenerateInv'
  BY <1>6, <1>7, GenerateStays
<1>. QED
  BY <1>1, <1>4, <1>5, <1>8

\* A visit that returns takes the operands' types off and puts its own on.
LEMMA ReturnSequence ==
    ASSUME Sequence(results), NEW k \in Nat, NEW x, Return(k, x)
    PROVE  /\ Sequence(results') /\ Len(results') > 0 /\ results'[Len(results')] = x
           /\ k = 0 => Len(results') = Len(results) + 1 /\ \A j \in 1..Len(results) : results'[j] = results[j]
<1>1. Len(results) \in Nat
  <2>1. PICK T : results \in Seq(T)
    BY DEF Sequence
  <2>. QED
    BY <2>1
<1>2. PICK s : s = SubSeq(results, 1, Len(results) - k)
  OBVIOUS
<1>3. PICK n \in Int : n = Len(results) - k
  BY <1>1
<1>4. Sequence(s) /\ \A j \in 1..n : s[j] = results[j]
  BY <1>1, <1>2, <1>3, SequenceFront
<1>5. Len(s) = IF n > 0 THEN n ELSE 0
  BY <1>1, <1>2, <1>3, SequenceFront
<1>6. results' = Append(s, x)
  BY <1>2 DEF Return
<1>7. /\ Sequence(results') /\ Len(s) \in Nat /\ Len(results') = Len(s) + 1 /\ results'[Len(s) + 1] = x
      /\ \A j \in 1..Len(s) : results'[j] = s[j]
  BY <1>4, <1>6, SequenceAppend
<1>. QED
  BY <1>1, <1>3, <1>4, <1>5, <1>7

\* A visit that drops types leaves a sequence of them.
LEMMA PopSequence ==
    ASSUME Sequence(results), NEW k \in Nat, results' = SubSeq(results, 1, Len(results) - k)
    PROVE  Sequence(results')
<1>1. Len(results) \in Nat
  <2>1. PICK T : results \in Seq(T)
    BY DEF Sequence
  <2>. QED
    BY <2>1
<1>2. PICK m \in Nat : m = Len(results)
  BY <1>1
<1>3. m - k \in Int /\ m - k <= Len(results) /\ results' = SubSeq(results, 1, m - k)
  BY <1>2
<1>. QED
  BY <1>3, SequenceFront

\* How many parts a mark has is a number.
LEMMA CountIs ==
    ASSUME TypeInv, at <= Len(prog)
    PROVE  Mark.count \in Nat
<1>1. WellFormed(prog) /\ Len(prog) \in Nat /\ at \in 1..Len(prog)
  BY Given
<1>2. PICK empty : empty = ""
  OBVIOUS
<1>3. prog \in Seq([mark : STRING, name : Names \union {empty}, type : STRING, count : Nat,
                    param : Names \union {empty}])
  BY <1>1, <1>2, Zenon DEF WellFormed
<1>4. PICK R : R = [mark : STRING, name : Names \union {empty}, type : STRING, count : Nat,
                    param : Names \union {empty}]
  OBVIOUS
<1>5. prog \in Seq(R)
  BY <1>3, <1>4
<1>6. prog[at] \in R
  BY <1>1, <1>5
<1>. QED
  BY <1>4, <1>6 DEF Mark

\* The steps of the generator keep what it is about.
GeneratorActions ==
    \/ GenerateEnter \/ GenerateLeave \/ GenerateLambda \/ GenerateText \/ GenerateDeclaration
    \/ GenerateUse \/ GenerateTarget \/ GenerateCallee \/ GenerateCall \/ GenerateLiteral
    \/ GenerateBinary \/ GenerateArms \/ GenerateOther

\* Every step of the generator keeps its invariant, and what it binds is right.
LEMMA GenerateStep ==
    ASSUME TypeInv, GenerateInv, NoneUnbound, BoundInv, GeneratorActions
    PROVE  /\ TypeInv' /\ GenerateInv' /\ BoundInv'
           /\ pass = "generate" /\ UNCHANGED <<prog, pass>>
<1>. DEFINE Goal == TypeInv' /\ GenerateInv' /\ BoundInv' /\ pass = "generate" /\ UNCHANGED <<prog, pass>>
<1>0. /\ Len(prog) \in Nat /\ at \in Nat /\ at > 0 /\ at \in 1..(Len(prog) + 1)
      /\ Sequence(scopes) /\ Sequence(results) /\ prog \in Programs
  BY Given DEF TypeInv
<1>1. ASSUME UNCHANGED <<prog, pass>>, pass = "generate", at' \in 1..(Len(prog) + 1), GenerateInv', BoundInv',
             Sequence(scopes'), Sequence(results')
      PROVE  Goal
  BY <1>0, <1>1 DEF TypeInv
<1>2. ASSUME at <= Len(prog), at' = at + 1
      PROVE  at' \in 1..(Len(prog) + 1)
  BY <1>0, <1>2
<1>3. /\ Len(results) - 0 = Len(results)
      /\ 1 \in Nat /\ 2 \in Nat /\ 0 \in Nat
  BY <1>0
<1>4. CASE GenerateEnter
  <2>1. /\ pass = "generate" /\ UNCHANGED <<prog, pass, functions, results, bound>> /\ at' = at + 1
        /\ at <= Len(prog) /\ prog[at].mark \in Frames /\ scopes' = Append(scopes, Params("number"))
    BY <1>4 DEF GenerateEnter, On, Generated, Go, Enter, Mark, Scoped, Frames
  <2>2. GenerateInv' /\ Sequence(scopes')
    BY <2>1, GenerateEnters
  <2>3. BoundInv'
    BY <2>1, BoundInvSame
  <2>. QED
    BY <1>0, <1>1, <1>2, <2>1, <2>2, <2>3
<1>5. CASE GenerateLeave
  <2>1. /\ pass = "generate" /\ UNCHANGED <<prog, pass, functions, results, bound>> /\ at' = at + 1
        /\ at <= Len(prog) /\ prog[at].mark = "end" /\ prog[Opener(at)].mark \in Frames /\ Leave
    BY <1>5 DEF GenerateLeave, EndOf, On, Generated, Go, Mark, Frames
  <2>2. GenerateInv' /\ Sequence(scopes')
    BY <2>1, GenerateLeaves
  <2>3. BoundInv'
    BY <2>1, BoundInvSame
  <2>. QED
    BY <1>0, <1>1, <1>2, <2>1, <2>2, <2>3
<1>6. CASE GenerateLambda
  <2>1. /\ pass = "generate" /\ UNCHANGED <<prog, pass, functions, bound>> /\ at' = at + 1
        /\ at <= Len(prog) /\ prog[at].mark = "end" /\ prog[Opener(at)].mark \in Frames /\ Leave
        /\ Return(0, at)
    BY <1>6 DEF GenerateLambda, EndOf, On, Generated, Go, Mark, Frames
  <2>2. GenerateInv' /\ Sequence(scopes')
    BY <2>1, GenerateLeaves
  <2>3. BoundInv' /\ Sequence(results')
    BY <1>0, <1>3, <2>1, BoundInvSame, ReturnSequence
  <2>. QED
    BY <1>0, <1>1, <1>2, <2>1, <2>2, <2>3
<1>7. CASE GenerateText
  <2>1. /\ pass = "generate" /\ UNCHANGED <<prog, pass, functions, scopes, bound>> /\ at' = at + 1
        /\ at <= Len(prog) /\ prog[at].mark = "end" /\ prog[Opener(at)].mark = "text" /\ Return(1, at)
    BY <1>7 DEF GenerateText, EndOf, On, Generated, Valued, Go, Mark
  <2>2. prog[at].mark \notin Frames \union {"declare"} /\ prog[Opener(at)].mark \notin Frames
    BY <2>1 DEF Frames
  <2>3. GenerateInv'
    BY <2>1, <2>2, GeneratePasses
  <2>4. BoundInv' /\ Sequence(results')
    BY <1>0, <1>3, <2>1, BoundInvSame, ReturnSequence
  <2>. QED
    BY <1>0, <1>1, <1>2, <2>1, <2>3, <2>4
<1>8. CASE GenerateDeclaration
  <2>1. CASE On("generate", {"declare"}) /\ SetTop(With(Top, Mark.name, Entry(at, "number")))
             /\ Generated(at + 1) /\ UNCHANGED <<results, errors, bound>>
    <3>1. /\ pass = "generate" /\ UNCHANGED <<prog, pass, functions, results, bound>> /\ at' = at + 1
          /\ at <= Len(prog) /\ prog[at].mark = "declare"
          /\ SetTop(With(Top, prog[at].name, Entry(at, "number")))
      BY <2>1 DEF On, Generated, Go, Mark
    <3>2. GenerateInv' /\ Sequence(scopes')
      BY <3>1, GenerateDeclares
    <3>3. BoundInv'
      BY <3>1, BoundInvSame
    <3>. QED
      BY <1>0, <1>1, <1>2, <3>1, <3>2, <3>3
  <2>2. CASE On("generate", {"declared"}) /\ results' = SubSeq(results, 1, Len(results) - Mark.count)
             /\ Generated(at + 1) /\ UNCHANGED <<scopes, errors, bound>>
    <3>1. /\ pass = "generate" /\ UNCHANGED <<prog, pass, functions, scopes, bound>> /\ at' = at + 1
          /\ at <= Len(prog) /\ prog[at].mark = "declared"
      BY <2>2 DEF On, Generated, Go, Mark
    <3>2. prog[at].mark \notin Frames \union {"declare"} /\ prog[at].mark # "end"
      BY <3>1 DEF Frames
    <3>3. GenerateInv'
      BY <3>1, <3>2, GeneratePasses
    <3>4. BoundInv' /\ Sequence(results')
      BY <1>0, <2>2, <3>1, BoundInvSame, PopSequence, CountIs
    <3>. QED
      BY <1>0, <1>1, <1>2, <3>1, <3>3, <3>4
  <2>. QED
    BY <1>8, <2>1, <2>2 DEF GenerateDeclaration
<1>9. ASSUME NEW marks \in SUBSET {"use", "target", "callee"}, On("generate", marks), NEW b, Bind(b), BoundWell(at, b)
      PROVE  Goal
  <2>1. /\ pass = "generate" /\ UNCHANGED <<prog, pass, functions, scopes>> /\ at' = at + 1
        /\ at <= Len(prog) /\ prog[at].mark \in {"use", "target", "callee"} /\ Return(0, b)
        /\ bound' = [i \in DOMAIN bound \union {at} |-> IF i = at THEN b ELSE bound[i]]
    BY <1>9 DEF On, Bind, Generated, Go, Mark
  <2>2. prog[at].mark \notin Frames \union {"declare"} /\ prog[at].mark # "end"
    BY <2>1 DEF Frames
  <2>3. GenerateInv'
    BY <2>1, <2>2, GeneratePasses
  <2>4. at \in Uses
    BY <2>1, GeneratorBinds
  <2>5. BoundInv' /\ Sequence(results')
    BY <1>0, <1>3, <1>9, <2>1, <2>4, BoundInvNext, ReturnSequence
  <2>. QED
    BY <1>0, <1>1, <1>2, <2>1, <2>3, <2>5
<1>10. CASE GenerateUse
  <2>1. /\ On("generate", {"use"}) /\ Bind(First(Variable(prog[at].name), Function(prog[at].name)))
        /\ pass = "generate" /\ at <= Len(prog) /\ prog[at].mark = "use"
    BY <1>10 DEF GenerateUse, On, Mark
  <2>2. BoundWell(at, First(Variable(prog[at].name), Function(prog[at].name)))
    BY <2>1, GeneratorBinds
  <2>. QED
    BY <1>9, <2>1, <2>2
<1>11. CASE GenerateTarget
  <2>1. /\ On("generate", {"target"}) /\ Bind(Variable(prog[at].name))
        /\ pass = "generate" /\ at <= Len(prog) /\ prog[at].mark = "target"
    BY <1>11 DEF GenerateTarget, On, Mark
  <2>2. BoundWell(at, Variable(prog[at].name))
    BY <2>1, GeneratorBinds
  <2>. QED
    BY <1>9, <2>1, <2>2
<1>12. CASE GenerateCallee
  <2>1. /\ On("generate", {"callee"}) /\ Bind(First(Function(prog[at].name), Variable(prog[at].name)))
        /\ pass = "generate" /\ at <= Len(prog) /\ prog[at].mark = "callee"
    BY <1>12 DEF GenerateCallee, On, Mark
  <2>2. BoundWell(at, First(Function(prog[at].name), Variable(prog[at].name)))
    BY <2>1, GeneratorBinds
  <2>. QED
    BY <1>9, <2>1, <2>2
<1>13. ASSUME pass = "generate", at <= Len(prog), prog[at].mark \notin Frames \union {"declare", "end"},
              UNCHANGED <<prog, pass, functions, scopes, bound>>, at' = at + 1, Sequence(results')
       PROVE  Goal
  <2>1. GenerateInv' /\ BoundInv'
    BY <1>13, GeneratePasses, BoundInvSame
  <2>. QED
    BY <1>0, <1>1, <1>2, <1>13, <2>1
<1>14. CASE GenerateCall
  <2>1. /\ pass = "generate" /\ at <= Len(prog) /\ prog[at].mark = "call"
        /\ UNCHANGED <<prog, pass, functions, scopes, bound>> /\ at' = at + 1
        /\ \E x : Return(1 + Mark.count, x)
    BY <1>14 DEF GenerateCall, On, Generated, Go, Mark
  <2>2. Sequence(results')
    <3>1. 1 + Mark.count \in Nat
      BY <2>1, CountIs
    <3>2. PICK x : Return(1 + Mark.count, x)
      BY <2>1
    <3>. QED
      BY <1>0, <3>1, <3>2, ReturnSequence
  <2>3. prog[at].mark \notin Frames \union {"declare", "end"}
    BY <2>1 DEF Frames
  <2>. QED
    BY <1>13, <2>1, <2>2, <2>3
<1>15. CASE GenerateLiteral \/ GenerateBinary
  <2>1. /\ pass = "generate" /\ at <= Len(prog) /\ prog[at].mark \in {"literal", "binary", "assign"}
        /\ UNCHANGED <<prog, pass, functions, scopes, bound>> /\ at' = at + 1
        /\ Return(0, at) \/ Return(2, Both)
    BY <1>15 DEF GenerateLiteral, GenerateBinary, Valued, On, Generated, Go, Mark
  <2>2. Sequence(results')
    BY <1>0, <1>3, <2>1, ReturnSequence
  <2>3. prog[at].mark \notin Frames \union {"declare", "end"}
    BY <2>1 DEF Frames
  <2>. QED
    BY <1>13, <2>1, <2>2, <2>3
<1>16. CASE GenerateArms
  <2>1. /\ pass = "generate" /\ at <= Len(prog) /\ prog[at].mark = "arms"
        /\ UNCHANGED <<prog, pass, functions, scopes, bound>>
        /\ at' = at + 1 \/ at' = Close(Opener(at))
        /\ results' = SubSeq(results, 1, Len(results) - 1)
    BY <1>16 DEF GenerateArms, On, Generated, Go, Mark
  <2>2. Sequence(results')
    BY <1>0, <1>3, <2>1, PopSequence
  <2>3. prog[at].mark \notin Frames \union {"declare", "end"}
    BY <2>1 DEF Frames
  <2>4. CASE at' = at + 1
    BY <1>13, <2>1, <2>2, <2>3, <2>4
  <2>5. CASE at' = Close(Opener(at))
    <3>1. GenerateInv' /\ at' \in 1..(Len(prog) + 1)
      BY <2>1, <2>5, GenerateGivesUp
    <3>2. BoundInv'
      BY <2>1, BoundInvSame
    <3>. QED
      BY <1>0, <1>1, <2>1, <2>2, <3>1, <3>2
  <2>. QED
    BY <2>1, <2>4, <2>5
<1>17. CASE GenerateOther
  <2>1. CASE On("generate", {"drop"}) /\ results' = SubSeq(results, 1, Len(results) - 1) /\ Valued
    <3>1. /\ pass = "generate" /\ at <= Len(prog) /\ prog[at].mark = "drop"
          /\ UNCHANGED <<prog, pass, functions, scopes, bound>> /\ at' = at + 1
      BY <2>1 DEF Valued, On, Generated, Go, Mark
    <3>2. Sequence(results')
      BY <1>0, <1>3, <2>1, PopSequence
    <3>3. prog[at].mark \notin Frames \union {"declare", "end"}
      BY <3>1 DEF Frames
    <3>. QED
      BY <1>13, <3>1, <3>2, <3>3
  <2>2. CASE On("generate", {"for", "match", "text", "unwrap"}) /\ Valued /\ UNCHANGED results
    <3>1. /\ pass = "generate" /\ at <= Len(prog) /\ prog[at].mark \in {"for", "match", "text", "unwrap"}
          /\ UNCHANGED <<prog, pass, functions, scopes, bound, results>> /\ at' = at + 1
      BY <2>2 DEF Valued, On, Generated, Go, Mark
    <3>2. Sequence(results')
      BY <1>0, <3>1
    <3>3. prog[at].mark \notin Frames \union {"declare", "end"}
      BY <3>1 DEF Frames
    <3>. QED
      BY <1>13, <3>1, <3>2, <3>3
  <2>3. CASE EndOf("generate", {"for", "match", "unwrap"}) /\ Valued /\ UNCHANGED results
    <3>1. /\ pass = "generate" /\ at <= Len(prog) /\ prog[at].mark = "end"
          /\ prog[Opener(at)].mark \in {"for", "match", "unwrap"}
          /\ UNCHANGED <<prog, pass, functions, scopes, bound, results>> /\ at' = at + 1
      BY <2>3 DEF Valued, EndOf, On, Generated, Go, Mark
    <3>2. prog[at].mark \notin Frames \union {"declare"} /\ prog[Opener(at)].mark \notin Frames
      BY <3>1 DEF Frames
    <3>3. GenerateInv' /\ BoundInv'
      BY <3>1, <3>2, GeneratePasses, BoundInvSame
    <3>. QED
      BY <1>0, <1>1, <1>2, <3>1, <3>3
  <2>. QED
    BY <1>17, <2>1, <2>2, <2>3 DEF GenerateOther
<1>. QED
  BY <1>4, <1>5, <1>6, <1>7, <1>8, <1>10, <1>11, <1>12, <1>14, <1>15, <1>16, <1>17 DEF GeneratorActions

-----------------------------------------------------------------------------
\* The steps of the resolver keep what it is about.
ResolverActions ==
    ResolveScope \/ ResolveNothing \/ ResolveDeclaration \/ ResolveName \/ ResolveOther

\* Every step of the resolver keeps its invariant.
LEMMA ResolveStep ==
    ASSUME TypeInv, ResolveInv, ResolverActions
    PROVE  /\ TypeInv' /\ ResolveInv'
           /\ pass = "resolve" /\ UNCHANGED <<prog, pass, functions, bound, results>>
<1>0. /\ Len(prog) \in Nat /\ at \in Nat /\ at > 0 /\ at \in 1..(Len(prog) + 1)
      /\ Sequence(scopes) /\ Sequence(results) /\ prog \in Programs
  BY Given DEF TypeInv
<1>1. ASSUME UNCHANGED <<prog, pass, results>>, pass = "resolve", at' \in 1..(Len(prog) + 1), Sequence(scopes')
      PROVE  TypeInv'
  BY <1>0, <1>1 DEF TypeInv
<1>2. ASSUME at <= Len(prog), at' = at + 1
      PROVE  at' \in 1..(Len(prog) + 1)
  BY <1>0, <1>2
<1>3. CASE On("resolve", Scoped) /\ Enter("error") /\ Resolved(at + 1) /\ UNCHANGED errors
  <2>1. /\ pass = "resolve" /\ UNCHANGED <<prog, pass, functions, results, bound, errors>> /\ at' = at + 1
        /\ at <= Len(prog) /\ prog[at].mark \in Scoped /\ scopes' = Append(scopes, Params("error"))
    BY <1>3 DEF On, Resolved, Go, Enter, Mark
  <2>2. ResolveInv' /\ Sequence(scopes')
    BY <2>1, ResolveEnter
  <2>. QED
    BY <1>1, <1>2, <2>1, <2>2
<1>4. CASE On("resolve", {"end"}) /\ Leave /\ Resolved(at + 1) /\ UNCHANGED errors
  <2>1. /\ pass = "resolve" /\ UNCHANGED <<prog, pass, functions, results, bound, errors>> /\ at' = at + 1
        /\ at <= Len(prog) /\ prog[at].mark = "end" /\ Leave
    BY <1>4 DEF On, Resolved, Go, Mark
  <2>2. ResolveInv' /\ Sequence(scopes')
    BY <2>1, ResolveLeave
  <2>. QED
    BY <1>1, <1>2, <2>1, <2>2
<1>5. CASE ResolveNothing
  <2>1. /\ pass = "resolve" /\ UNCHANGED <<prog, pass, functions, results, bound, errors, scopes>>
        /\ at' = Close(at) + 1 /\ at <= Len(prog) /\ prog[at].mark \in Hidden
    BY <1>5 DEF ResolveNothing, On, Resolved, Go, Mark, Hidden
  <2>2. ResolveInv' /\ at' \in 1..(Len(prog) + 1)
    BY <2>1, ResolveSkip
  <2>. QED
    BY <1>0, <1>1, <2>1, <2>2
<1>6. CASE ResolveDeclaration
  <2>1. /\ pass = "resolve" /\ UNCHANGED <<prog, pass, functions, results, bound, errors>>
        /\ at' = at + 1 /\ at <= Len(prog) /\ prog[at].mark = "declare"
        /\ IF prog[at].name \in DOMAIN Top THEN UNCHANGED scopes
           ELSE SetTop(With(Top, prog[at].name, Entry(at, "error")))
    BY <1>6 DEF ResolveDeclaration, On, Resolved, Go, Mark
  <2>2. ResolveInv' /\ Sequence(scopes')
    BY <2>1, ResolveDeclares
  <2>. QED
    BY <1>1, <1>2, <2>1, <2>2
<1>7. CASE ResolveName
  <2>1. /\ pass = "resolve" /\ UNCHANGED <<prog, pass, functions, results, bound, scopes>>
        /\ at' = at + 1 /\ at <= Len(prog) /\ prog[at].mark \in {"use", "target", "callee"}
        /\ Error(~Bound(prog[at].name))
    BY <1>7 DEF ResolveName, On, Resolved, Go, Mark
  <2>2. ResolveInv'
    BY <2>1, ResolveNames
  <2>. QED
    BY <1>0, <1>1, <1>2, <2>1, <2>2
<1>8. CASE ResolveOther
  <2>1. /\ pass = "resolve" /\ UNCHANGED <<prog, pass, functions, results, bound, scopes, errors>>
        /\ at' = at + 1 /\ at <= Len(prog)
        /\ prog[at].mark \in {"declared", "literal", "call", "binary", "assign", "drop"}
    BY <1>8 DEF ResolveOther, On, Resolved, Go, Mark
  <2>2. ResolveInv'
    BY <2>1, ResolveOthers
  <2>. QED
    BY <1>0, <1>1, <1>2, <2>1, <2>2
<1>. QED
  BY <1>3, <1>4, <1>5, <1>6, <1>7, <1>8 DEF ResolverActions, ResolveScope

\* Where a pass starts nothing is open.
LEMMA NothingOpen ==
    ASSUME NEW S
    PROVE  Outer(prog, S, 1) = {} /\ Homes(prog, S, 1, [k \in 1..1 |-> 0], 1)
<1>1. Outer(prog, S, 1) = {}
  BY DEF Outer
<1>. QED
  BY <1>1 DEF Homes

\* And at the end of the program nothing is.
LEMMA AllClosed ==
    ASSUME Balanced(prog), NEW S \in SUBSET Open
    PROVE  Outer(prog, S, Len(prog) + 1) = {}
<1>. SUFFICES ASSUME NEW o \in Outer(prog, S, Len(prog) + 1) PROVE FALSE
  OBVIOUS
<1>1. PICK n \in Nat : n = Len(prog)
  BY DEF Balanced
<1>2. o \in 1..n /\ Encloses(prog, o, n + 1)
  BY <1>1 DEF Outer
<1>3. Depth(prog, n + 1) > Depth(prog, o) /\ Depth(prog, n + 1) = 0
  BY <1>1, <1>2 DEF Encloses, Balanced
<1>4. o \in 1..(Len(prog) + 1) /\ Depth(prog, o) \in Nat
  BY <1>1, <1>2, DepthNat
<1>. QED
  BY <1>3, <1>4

\* The invariant holds at the start of the resolver.
LEMMA ResolveStarts ==
    ASSUME Init
    PROVE  TypeInv /\ ResolveInv /\ BoundInv
<1>1. PICK t : t = [n \in {prog[i].name : i \in Functions} |->
                      Entry(-Min({i \in Functions : prog[i].name = n}), "number")]
  OBVIOUS
<1>2. /\ prog \in Programs /\ pass = "resolve" /\ at = 1 /\ scopes = <<t>> /\ results = <<>>
      /\ errors = {} /\ bound = [i \in {} |-> Nothing]
  BY <1>1 DEF Init
<1>3. WellFormed(prog) /\ Balanced(prog) /\ Len(prog) \in Nat /\ DOMAIN prog = 1..Len(prog)
  <2>1. WellFormed(prog) /\ Balanced(prog)
    BY <1>2, ProgramsAssumption, WellFormedBalanced
  <2>. QED
    BY <2>1 DEF Balanced
<1>4. TypeInv
  <2>1. scopes \in Seq({t}) /\ results \in Seq({t})
    BY <1>2
  <2>2. Sequence(scopes) /\ Sequence(results)
    BY <2>1 DEF Sequence
  <2>3. at \in 1..(Len(prog) + 1)
    BY <1>2, <1>3
  <2>. QED
    BY <1>2, <2>2, <2>3 DEF TypeInv
<1>5. BoundInv
  BY <1>2 DEF BoundInv
<1>6. Len(scopes) = 1 /\ scopes[1] = t
  BY <1>2
<1>7. Tabled(t, 1, 0)
  <2>1. DOMAIN t = {prog[i].name : i \in Functions}
    BY <1>1
  <2>2. \A n \in DOMAIN t : t[n].type = "number"
    BY <1>1 DEF Entry
  <2>. QED
    BY <2>1, <2>2 DEF Tabled
<1>8. errors = Faults(1)
  <2>1. \A i \in Uses : ~(i < 1)
    BY <1>3 DEF Uses
  <2>. QED
    BY <1>2, <2>1 DEF Faults
<1>. DEFINE h == [k \in 1..1 |-> 0]
<1>9. Homes(prog, Scoped, 1, h, 1) /\ Outer(prog, Hidden, 1) = {}
  BY NothingOpen
<1>10. h \in [1..1 -> 0..Len(prog)] /\ h[1] = 0
  BY <1>3
<1>. HIDE DEF h
<1>11. \A k \in 1..1 : Tabled(scopes[k], 1, h[k])
  BY <1>6, <1>7, <1>10
<1>12. ResolveInv
  BY <1>2, <1>6, <1>8, <1>9, <1>10, <1>11 DEF ResolveInv
<1>. QED
  BY <1>4, <1>5, <1>12

\* A program the resolver accepts has no unbound name where it looks.
LEMMA ResolverAccepts ==
    ASSUME TypeInv, ResolveInv, Ended("resolve")
    PROVE  /\ errors = {i \in Uses : Meant(i) = Nothing /\ ~Unseen(i)}
           /\ errors = {} => NoneUnbound
<1>1. errors = Faults(at) /\ at > Len(prog)
  BY DEF Ended, ResolveInv
<1>2. \A i \in Uses : i < at
  BY <1>1, Given DEF Uses
<1>3. errors = {i \in Uses : Meant(i) = Nothing /\ ~Unseen(i)}
  BY <1>1, <1>2 DEF Faults
<1>. QED
  BY <1>3 DEF NoneUnbound

\* The generator starts with nothing stored.
LEMMA GenerateStarts ==
    ASSUME TypeInv, at' = 1, scopes' = <<Empty>>, prog' = prog,
           functions' = [n \in {prog[i].name : i \in Functions} |->
                           -Max({i \in Functions : prog[i].name = n})]
    PROVE  GenerateInv' /\ Sequence(scopes')
<1>1. Len(prog) \in Nat
  BY Given
<1>. DEFINE h == [k \in 1..1 |-> 0]
<1>2. Homes(prog, Frames, 1, h, 1)
  BY NothingOpen
<1>3. h \in [1..1 -> 0..Len(prog)] /\ h[1] = 0
  BY <1>1
<1>. HIDE DEF h
<1>4. PICK t : t = Empty
  OBVIOUS
<1>5. scopes' \in Seq({t}) /\ Len(scopes') = 1 /\ scopes'[1] = t
  BY <1>4
<1>6. DOMAIN t = {}
  BY <1>4 DEF Empty
<1>7. \A k \in 1..Len(scopes') : Stored(scopes[k], at, h[k])'
  <2>. TAKE k \in 1..Len(scopes')
  <2>1. scopes'[k] = t
    BY <1>5
  <2>2. Stored(t, 1, h[k])'
    BY <1>6 DEF Stored
  <2>. QED
    BY <2>1, <2>2
<1>8. functions' = [n \in {prog'[i].name : i \in Functions'} |->
                      -Max({i \in Functions' : prog'[i].name = n})]
  <2>1. Functions' = Functions
    BY Steady
  <2>. QED
    BY <2>1
<1>9. Homes(prog', Frames, at', h, Len(scopes')) /\ h \in [1..Len(scopes') -> 0..Len(prog')]
  BY <1>2, <1>3, <1>5
<1>10. GenerateInv'
  BY <1>7, <1>8, <1>9 DEF GenerateInv
<1>. QED
  BY <1>5, <1>10 DEF Sequence

-----------------------------------------------------------------------------
\* What the checker's table knows of a name in a scope: no more than what has been
\* declared there, and of what is optional that it was declared last.
DeclaredIn(e, n, o) ==
    prog[e].mark = "declared" /\ prog[e].name = n /\ HomeIn(prog, Scoped, e) = o
LastIsOption(a, n, o) ==
    \E e \in 1..(a - 1) : /\ DeclaredIn(e, n, o) /\ Option(prog[e].type)
                          /\ \A c \in 1..(a - 1) : DeclaredIn(c, n, o) => c <= e
Typing(table, a, o) ==
    \A n \in Names : /\ (\E e \in 1..(a - 1) : DeclaredIn(e, n, o)) => n \in DOMAIN table
                     /\ n \in DOMAIN table /\ Option(table[n].type) => LastIsOption(a, n, o)
TypingInv ==
    \E h \in [1..Len(scopes) -> 0..Len(prog)] :
        /\ Homes(prog, Scoped, at, h, Len(scopes))
        /\ \A k \in 1..Len(scopes) : Typing(scopes[k], at, h[k])

\* What the operands of an assignment of a literal to a name left.
TypeNow(n) == IF Bound(n) THEN Resolve(n).type ELSE "error"
Left(stack, k, type) == Len(stack) >= k /\ stack[Len(stack) + 1 - k] = type
OperandsAt(a, stack) ==
    /\ a > 1 /\ prog[a - 1].mark = "literal" =>
         /\ Left(stack, 1, prog[a - 1].type)
         /\ a > 2 /\ prog[a - 2].mark = "target" => Left(stack, 2, TypeNow(prog[a - 2].name))
    /\ a > 1 /\ prog[a - 1].mark = "target" => Left(stack, 1, TypeNow(prog[a - 1].name))
Operands == OperandsAt(at, results)

NilFits(i) ==
    /\ prog[i].mark = "declared" /\ prog[i].count = 1 /\ NilAt(i - 1) => Option(prog[i].type)
    /\ prog[i].mark = "assign" /\ NilAt(i - 1) =>
         \A d \in {Meant(i - 2)} \intersect {c \in DOMAIN prog : prog[c].mark = "declare"} :
            Option(prog[d].type) \/ ~Initialized(d, i) \/ HiddenByMatch(d, i)
NilFitsBefore(a) == \A i \in 1..(a - 1) : NilFits(i)
CheckInv == pass = "check" => TypingInv /\ Operands /\ (errors = {} => NilFitsBefore(at))

\* None of the plain types is optional.
LEMMA Types == /\ ~Option("number") /\ ~Option("error") /\ ~Option("void") /\ ~Option("number[]")
BY Zenon DEF Option

\* What the checker's invariant says of a program does not change while the program does not.
LEMMA CheckSteady ==
    ASSUME prog' = prog
    PROVE  /\ \A e, n, o : DeclaredIn(e, n, o)' <=> DeclaredIn(e, n, o)
           /\ \A a, n, o : LastIsOption(a, n, o)' <=> LastIsOption(a, n, o)
           /\ \A t, a, o : Typing(t, a, o)' <=> Typing(t, a, o)
           /\ \A i : NilFits(i)' <=> NilFits(i)
<1>1. \A e, n, o : DeclaredIn(e, n, o)' <=> DeclaredIn(e, n, o)
  BY DEF DeclaredIn
<1>2. \A a, n, o : LastIsOption(a, n, o)' <=> LastIsOption(a, n, o)
  BY <1>1 DEF LastIsOption
<1>3. \A t, a, o : Typing(t, a, o)' <=> Typing(t, a, o)
  BY <1>1, <1>2 DEF Typing
<1>4. \A d, i : (Initialized(d, i)' <=> Initialized(d, i)) /\ (HiddenByMatch(d, i)' <=> HiddenByMatch(d, i))
  BY Steady DEF Initialized, HiddenByMatch
<1>5. \A i : NilAt(i)' <=> NilAt(i)
  BY DEF NilAt
<1>6. \A i : NilFits(i)' <=> NilFits(i)
  BY <1>4, <1>5, Steady DEF NilFits
<1>. QED
  BY <1>1, <1>2, <1>3, <1>6

\* The checker's invariant in the next state, from a stack of homes and what each table holds.
LEMMA TypingInvNext ==
    ASSUME prog' = prog, NEW g \in [1..Len(scopes') -> 0..Len(prog)],
           Homes(prog, Scoped, at', g, Len(scopes')),
           \A k \in 1..Len(scopes') : Typing(scopes'[k], at', g[k])
    PROVE  TypingInv'
<1>1. \A k \in 1..Len(scopes') : Typing(scopes[k], at, g[k])'
  <2>. TAKE k \in 1..Len(scopes')
  <2>1. Typing(scopes'[k], at', g[k])
    OBVIOUS
  <2>. QED
    BY <2>1, CheckSteady DEF Typing
<1>. QED
  BY <1>1 DEF TypingInv

\* A table fits a later mark when nothing in between is declared in its scope.
LEMMA TypingSame ==
    ASSUME NEW t, NEW a \in Nat, NEW b \in Nat, NEW o, Typing(t, a, o), a <= b,
           \A e \in a..(b - 1) : \A n \in Names : ~DeclaredIn(e, n, o)
    PROVE  Typing(t, b, o)
<1>1. ASSUME NEW n \in Names, NEW e \in 1..(b - 1), DeclaredIn(e, n, o)
      PROVE  e \in 1..(a - 1)
  BY <1>1
<1>2. ASSUME NEW n \in Names, LastIsOption(a, n, o)
      PROVE  LastIsOption(b, n, o)
  <2>1. PICK e \in 1..(a - 1) : /\ DeclaredIn(e, n, o) /\ Option(prog[e].type)
                                /\ \A c \in 1..(a - 1) : DeclaredIn(c, n, o) => c <= e
    BY <1>2 DEF LastIsOption
  <2>2. e \in 1..(b - 1)
    OBVIOUS
  <2>3. \A c \in 1..(b - 1) : DeclaredIn(c, n, o) => c <= e
    BY <1>1, <2>1
  <2>. QED
    BY <2>1, <2>2, <2>3 DEF LastIsOption
<1>. QED
  BY <1>1, <1>2 DEF Typing

\* A mark that opens, closes and declares nothing leaves the tables as they fit.
LEMMA TypingPasses ==
    ASSUME TypeInv, TypingInv, at <= Len(prog), UNCHANGED <<prog, scopes>>, at' = at + 1,
           prog[at].mark \notin Scoped \union {"declared"},
           prog[at].mark = "end" => prog[Opener(at)].mark \notin Scoped
    PROVE  TypingInv'
<1>1. /\ Balanced(prog) /\ at \in Nat /\ at \in 1..Len(prog)
  BY Given
<1>2. PICK h \in [1..Len(scopes) -> 0..Len(prog)] :
         /\ Homes(prog, Scoped, at, h, Len(scopes))
         /\ \A k \in 1..Len(scopes) : Typing(scopes[k], at, h[k])
  BY DEF TypingInv
<1>3. Outer(prog, Scoped, at + 1) = Outer(prog, Scoped, at)
  <2>1. CASE prog[at].mark = "end"
    <3>1. Opener(at) \notin Outer(prog, Scoped, at)
      BY <2>1 DEF Outer
    <3>2. Scoped \in SUBSET Open
      BY Kinds
    <3>3. Outer(prog, Scoped, at + 1) = Outer(prog, Scoped, at) \ {Opener(at)}
      BY <1>1, <2>1, <3>2, OuterEnd
    <3>. QED
      BY <3>1, <3>3
  <2>2. CASE prog[at].mark # "end"
    BY <1>1, <2>2, Kinds, OuterPass
  <2>. QED
    BY <2>1, <2>2
<1>4. Homes(prog, Scoped, at', h, Len(scopes))
  BY <1>2, <1>3, HomesSame
<1>5. \A k \in 1..Len(scopes) : Typing(scopes[k], at', h[k])
  <2>. TAKE k \in 1..Len(scopes)
  <2>1. \A e \in at..((at + 1) - 1) : \A n \in Names : ~DeclaredIn(e, n, h[k])
    BY <1>1 DEF DeclaredIn
  <2>2. PICK b \in Nat : b = at + 1
    BY <1>1
  <2>. QED
    BY <1>1, <1>2, <2>1, <2>2, TypingSame
<1>. QED
  BY <1>2, <1>4, <1>5, TypingInvNext

\* The checker at a scope: a new table with the parameters.
LEMMA TypingEnters ==
    ASSUME TypeInv, TypingInv, at <= Len(prog), prog[at].mark \in Scoped,
           scopes' = Append(scopes, Params("number")), at' = at + 1, prog' = prog
    PROVE  TypingInv' /\ Sequence(scopes')
<1>1. /\ WellFormed(prog) /\ Balanced(prog) /\ Len(prog) \in Nat /\ DOMAIN prog = 1..Len(prog)
      /\ at \in Nat /\ at > 0 /\ Len(scopes) \in Nat /\ at \in 1..Len(prog) /\ at \in 1..(Len(prog) + 1)
  BY Given
<1>2. PICK h \in [1..Len(scopes) -> 0..Len(prog)] :
         /\ Homes(prog, Scoped, at, h, Len(scopes))
         /\ \A k \in 1..Len(scopes) : Typing(scopes[k], at, h[k])
  BY DEF TypingInv
<1>. DEFINE g == [k \in 1..(Len(scopes) + 1) |-> IF k <= Len(scopes) THEN h[k] ELSE at]
<1>3. g \in [1..(Len(scopes) + 1) -> 0..Len(prog)] /\ Homes(prog, Scoped, at + 1, g, Len(scopes) + 1)
  BY <1>1, <1>2, HomesEnter, Kinds
<1>4. /\ Sequence(scopes') /\ Len(scopes') = Len(scopes) + 1
      /\ scopes'[Len(scopes) + 1] = Params("number") /\ \A k \in 1..Len(scopes) : scopes'[k] = scopes[k]
  BY SequenceAppend DEF TypeInv
<1>5. g[Len(scopes) + 1] = at /\ \A k \in 1..Len(scopes) : g[k] = h[k]
  BY <1>1
<1>. HIDE DEF g
<1>6. prog[at].mark # "declared"
  BY DEF Scoped
<1>7. ASSUME NEW k \in 1..Len(scopes')
      PROVE  Typing(scopes'[k], at', g[k])
  <2>1. CASE k = Len(scopes) + 1
    <3>. DEFINE t == Params("number")
    <3>1. \A n \in DOMAIN t : t[n].type = "number"
      BY ParamsEntries DEF Entry
    <3>. HIDE DEF t
    <3>2. ASSUME NEW n \in Names, NEW e \in 1..((at + 1) - 1), DeclaredIn(e, n, at)
          PROVE  FALSE
      <4>1. e \in 1..Len(prog) /\ prog[e].mark \notin {"fn", "lambda"} /\ e # at
        BY <1>1, <1>6, <3>2 DEF DeclaredIn
      <4>2. HomeIn(prog, Scoped, e) \in 0..e
        BY <1>1, <4>1, HomeInIs
      <4>. QED
        BY <1>1, <3>2, <4>1, <4>2 DEF DeclaredIn
    <3>3. Typing(t, at + 1, at)
      BY <3>1, <3>2, Types DEF Typing
    <3>. QED
      BY <1>4, <1>5, <2>1, <3>3 DEF t
  <2>2. CASE k \in 1..Len(scopes)
    <3>1. \A e \in at..((at + 1) - 1) : \A n \in Names : ~DeclaredIn(e, n, h[k])
      BY <1>1, <1>6 DEF DeclaredIn
    <3>2. PICK b \in Nat : b = at + 1
      BY <1>1
    <3>3. Typing(scopes[k], b, h[k])
      BY <1>1, <1>2, <2>2, <3>1, <3>2, TypingSame
    <3>. QED
      BY <1>4, <1>5, <2>2, <3>2, <3>3
  <2>. QED
    BY <1>1, <1>4, <2>1, <2>2
<1>. QED
  BY <1>3, <1>4, <1>7, TypingInvNext

\* The checker at the end of a scope drops its table.
LEMMA TypingLeaves ==
    ASSUME TypeInv, TypingInv, at <= Len(prog), prog[at].mark = "end",
           prog[Opener(at)].mark \in Scoped, Leave, at' = at + 1, prog' = prog
    PROVE  TypingInv' /\ Sequence(scopes')
<1>1. /\ WellFormed(prog) /\ Balanced(prog) /\ Len(prog) \in Nat /\ DOMAIN prog = 1..Len(prog)
      /\ at \in Nat /\ at > 0 /\ Len(scopes) \in Nat /\ at \in 1..Len(prog) /\ at \in 1..(Len(prog) + 1)
  BY Given
<1>2. PICK h \in [1..Len(scopes) -> 0..Len(prog)] :
         /\ Homes(prog, Scoped, at, h, Len(scopes))
         /\ \A k \in 1..Len(scopes) : Typing(scopes[k], at, h[k])
  BY DEF TypingInv
<1>. DEFINE n == Len(scopes) - 1
            g == [k \in 1..n |-> h[k]]
<1>3. n \in Nat /\ n > 0 /\ g \in [1..n -> 0..Len(prog)] /\ Homes(prog, Scoped, at + 1, g, n)
  <2>1. Scoped \in SUBSET Open
    BY Kinds
  <2>2. Homes(prog, Scoped, at, h, Len(scopes))
    BY <1>2
  <2>3. PICK a \in 1..Len(prog) : a = at
    BY <1>1
  <2>4. PICK c \in Nat : c = Len(scopes)
    BY <1>1
  <2>5. /\ h \in [1..c -> 0..Len(prog)] /\ Homes(prog, Scoped, a, h, c)
        /\ Balanced(prog) /\ prog[a].mark = "end" /\ prog[Opener(a)].mark \in Scoped
    BY <1>1, <2>2, <2>3, <2>4
  <2>6. c - 1 \in Nat /\ c - 1 > 0 /\ [k \in 1..(c - 1) |-> h[k]] \in [1..(c - 1) -> 0..Len(prog)]
        /\ Homes(prog, Scoped, a + 1, [k \in 1..(c - 1) |-> h[k]], c - 1)
    BY ONLY <2>1, <2>5, HomesLeave
  <2>. QED
    BY <2>3, <2>4, <2>6
<1>4. Sequence(scopes') /\ Len(scopes') = n /\ \A k \in 1..n : scopes'[k] = scopes[k]
  BY <1>1, <1>3, SequenceFront DEF TypeInv, Leave
<1>5. \A k \in 1..n : g[k] = h[k]
  OBVIOUS
<1>. HIDE DEF g
<1>6. ASSUME NEW k \in 1..n
      PROVE  Typing(scopes'[k], at', g[k])
  <2>1. k \in 1..Len(scopes)
    BY <1>1
  <2>2. \A e \in at..((at + 1) - 1) : \A m \in Names : ~DeclaredIn(e, m, h[k])
    BY <1>1 DEF DeclaredIn
  <2>3. Typing(scopes[k], at + 1, h[k])
    <3>1. PICK b \in Nat : b = at + 1
      BY <1>1
    <3>. QED
      BY <1>1, <1>2, <2>1, <2>2, <3>1, TypingSame
  <2>. QED
    BY <1>4, <1>5, <2>3
<1>. HIDE DEF n
<1>. QED
  BY <1>3, <1>4, <1>6, TypingInvNext

\* The checker behind a declaration's initializer: an optional type is entered only if declared.
LEMMA TypingDeclares ==
    ASSUME TypeInv, TypingInv, at <= Len(prog), prog[at].mark = "declared",
           NEW old, NEW type, Option(type) => Option(prog[at].type),
           SetTop(With(Top, prog[at].name, Entry(old, type))), at' = at + 1, prog' = prog
    PROVE  TypingInv' /\ Sequence(scopes')
<1>1. /\ WellFormed(prog) /\ Balanced(prog) /\ Len(prog) \in Nat /\ DOMAIN prog = 1..Len(prog)
      /\ at \in Nat /\ at > 0 /\ Len(scopes) \in Nat /\ at \in 1..Len(prog) /\ at \in 1..(Len(prog) + 1)
  BY Given
<1>2. PICK h \in [1..Len(scopes) -> 0..Len(prog)] :
         /\ Homes(prog, Scoped, at, h, Len(scopes))
         /\ \A k \in 1..Len(scopes) : Typing(scopes[k], at, h[k])
  BY DEF TypingInv
<1>. DEFINE n == Len(scopes)
            m == prog[at].name
<1>3. n \in 1..Len(scopes) /\ Top = scopes[n]
  BY <1>1, <1>2 DEF Homes, Top
<1>4. PICK t : t = With(Top, m, Entry(old, type))
  OBVIOUS
<1>5. /\ Sequence(scopes') /\ Len(scopes') = n /\ scopes'[n] = t
      /\ \A k \in 1..n : k # n => scopes'[k] = scopes[k]
  <2>1. SetTop(t)
    BY <1>4
  <2>2. Sequence(scopes) /\ Len(scopes) > 0
    BY <1>3 DEF TypeInv
  <2>. QED
    BY <2>1, <2>2, TopIs
<1>6. Outer(prog, Scoped, at') = Outer(prog, Scoped, at)
  <2>1. "declared" \notin Scoped
    BY DEF Scoped
  <2>. QED
    BY <1>1, <2>1, Kinds, OuterPass
<1>7. Homes(prog, Scoped, at', h, n)
  BY <1>2, <1>6, HomesSame
<1>8. HomeIn(prog, Scoped, at) = h[n]
  <2>1. h[n] = Max({0} \union Outer(prog, Scoped, at))
    BY <1>1, <1>2, HomesTop
  <2>. QED
    BY <2>1 DEF HomeIn
<1>9. \A x, o : DeclaredIn(at, x, o) <=> x = m /\ o = h[n]
  BY <1>8 DEF DeclaredIn
<1>10. DOMAIN t = DOMAIN Top \union {m} /\ t[m].type = type /\ \A x \in DOMAIN Top : x # m => t[x] = Top[x]
  BY <1>4 DEF With, Entry
<1>. HIDE DEF m
<1>11. ASSUME NEW k \in 1..n
       PROVE  Typing(scopes'[k], at', h[k])
  <2>1. Typing(scopes[k], at, h[k])
    BY <1>2
  <2>2. CASE k = n
    <3>1. ASSUME NEW x \in Names, NEW e \in 1..((at + 1) - 1), DeclaredIn(e, x, h[n])
          PROVE  x \in DOMAIN t
      <4>1. CASE e = at
        BY <1>9, <1>10, <3>1, <4>1
      <4>2. CASE e # at
        <5>1. e \in 1..(at - 1)
          BY <1>1, <4>2
        <5>2. x \in DOMAIN Top
          BY <1>3, <2>1, <2>2, <3>1, <5>1 DEF Typing
        <5>. QED
          BY <1>10, <5>2
      <4>. QED
        BY <4>1, <4>2
    <3>2. ASSUME NEW x \in Names, x \in DOMAIN t, Option(t[x].type)
          PROVE  LastIsOption(at + 1, x, h[n])
      <4>1. CASE x = m
        <5>1. DeclaredIn(at, x, h[n]) /\ Option(prog[at].type)
          BY <1>9, <1>10, <3>2, <4>1
        <5>2. at \in 1..((at + 1) - 1) /\ \A c \in 1..((at + 1) - 1) : c <= at
          BY <1>1
        <5>. QED
          BY <5>1, <5>2 DEF LastIsOption
      <4>2. CASE x # m
        <5>1. x \in DOMAIN Top /\ Option(Top[x].type)
          BY <1>10, <3>2, <4>2
        <5>2. LastIsOption(at, x, h[n])
          BY <1>3, <2>1, <2>2, <5>1 DEF Typing
        <5>3. PICK e \in 1..(at - 1) : /\ DeclaredIn(e, x, h[n]) /\ Option(prog[e].type)
                                       /\ \A c \in 1..(at - 1) : DeclaredIn(c, x, h[n]) => c <= e
          BY <5>2 DEF LastIsOption
        <5>4. e \in 1..((at + 1) - 1)
          BY <1>1
        <5>5. \A c \in 1..((at + 1) - 1) : DeclaredIn(c, x, h[n]) => c \in 1..(at - 1)
          BY <1>1, <1>9, <4>2
        <5>. QED
          BY <5>3, <5>4, <5>5 DEF LastIsOption
      <4>. QED
        BY <4>1, <4>2
    <3>3. Typing(t, at + 1, h[n])
      BY <3>1, <3>2 DEF Typing
    <3>. QED
      BY <1>5, <2>2, <3>3
  <2>3. CASE k # n
    <3>1. h[k] < h[n]
      BY <1>2, <1>3, <2>3 DEF Homes
    <3>2. h[k] # h[n]
      BY <1>3, <3>1
    <3>3. \A e \in at..((at + 1) - 1) : \A x \in Names : ~DeclaredIn(e, x, h[k])
      BY <1>1, <1>9, <3>2
    <3>4. Typing(scopes[k], at + 1, h[k])
      <4>1. PICK b \in Nat : b = at + 1
        BY <1>1
      <4>. QED
        BY <1>1, <2>1, <3>3, <4>1, TypingSame
    <3>. QED
      BY <1>5, <2>3, <3>4
  <2>. QED
    BY <2>2, <2>3
<1>. QED
  BY <1>2, <1>5, <1>7, <1>11, TypingInvNext

-----------------------------------------------------------------------------
\* What a nil is given to.
LEMMA OperandsNone ==
    ASSUME prog' = prog, at \in Nat, at' = at + 1, prog[at].mark \notin {"literal", "target"}
    PROVE  Operands'
<1>1. at' - 1 = at
  OBVIOUS
<1>2. prog'[at' - 1].mark \notin {"literal", "target"}
  BY <1>1
<1>. QED
  BY <1>2 DEF Operands, OperandsAt

\* The nils behind the checker fit when those before did and this one does.
LEMMA FitsNext ==
    ASSUME prog' = prog, at \in Nat, at' = at + 1, NilFitsBefore(at), NilFits(at)
    PROVE  NilFitsBefore(at)'
<1>1. \A i \in 1..(at' - 1) : NilFits(i)
  <2>. TAKE i \in 1..(at' - 1)
  <2>1. i \in 1..(at - 1) \/ i = at
    OBVIOUS
  <2>. QED
    BY <2>1 DEF NilFitsBefore
<1>. QED
  BY <1>1, CheckSteady DEF NilFitsBefore

\* A declaration is in the scope its initializer ends in.
LEMMA InitializerHome ==
    ASSUME Balanced(prog), NEW d \in 1..Len(prog), NEW e \in 1..Len(prog), Initializes(prog, d, e)
    PROVE  HomeIn(prog, Scoped, d) = HomeIn(prog, Scoped, e)
<1>1. /\ d < e /\ prog[d].mark = "declare" /\ prog[e].mark = "declared" /\ Depth(prog, d) = Depth(prog, e)
      /\ \A j \in (d + 1)..(e - 1) : Depth(prog, j) >= Depth(prog, d)
  BY DEF Initializes
<1>2. Len(prog) \in Nat /\ d \in 1..(Len(prog) + 1) /\ e \in 1..(Len(prog) + 1)
  BY DEF Balanced
<1>3. Depth(prog, d) \in Nat /\ Depth(prog, e) \in Nat
  BY <1>2, DepthNat
<1>4. \A j \in d..e : Depth(prog, j) >= Depth(prog, d)
  <2>. TAKE j \in d..e
  <2>1. j = d \/ j = e \/ j \in (d + 1)..(e - 1)
    BY <1>2
  <2>. QED
    BY <1>1, <1>3, <2>1
<1>5. \A o \in Nat : o > 0 /\ Encloses(prog, o, e) <=> o > 0 /\ Encloses(prog, o, d)
  BY <1>1, <1>2, <1>4, EnclosesSame
<1>6. Outer(prog, Scoped, e) = Outer(prog, Scoped, d)
  <2>1. \A o : o \in Outer(prog, Scoped, e) <=> o \in Nat /\ prog[o].mark \in Scoped /\ o > 0 /\ Encloses(prog, o, e)
    BY <1>2, OuterIs
  <2>2. \A o : o \in Outer(prog, Scoped, d) <=> o \in Nat /\ prog[o].mark \in Scoped /\ o > 0 /\ Encloses(prog, o, d)
    BY <1>2, OuterIs
  <2>3. \A o : o \in Outer(prog, Scoped, e) <=> o \in Outer(prog, Scoped, d)
    BY <1>5, <2>1, <2>2
  <2>. QED
    BY <2>3
<1>7. prog[d].mark \notin {"fn", "lambda"} /\ prog[e].mark \notin {"fn", "lambda"}
  BY <1>1
<1>. QED
  BY <1>6, <1>7 DEF HomeIn

\* Two declarations of a scope do not lie one in the initializer of the other.
LEMMA InitializersApart ==
    ASSUME Balanced(prog), NEW d \in 1..Len(prog), NEW e \in 1..Len(prog), Initializes(prog, d, e),
           NEW m \in 1..Len(prog), prog[m].mark = "declare", d < m, m < e
    PROVE  HomeIn(prog, Scoped, m) > HomeIn(prog, Scoped, d)
<1>1. Len(prog) \in Nat /\ m \in (d + 1)..(e - 1)
  BY DEF Balanced
<1>2. InLambda(prog, d, m)
  BY <1>1 DEF Initializes
<1>3. PICK l \in (d + 1)..(m - 1) : prog[l].mark = "lambda" /\ Encloses(prog, l, m)
  BY <1>2 DEF InLambda
<1>4. l \in Outer(prog, Scoped, m)
  <2>1. l \in 1..(m - 1) /\ prog[l].mark \in Scoped
    BY <1>3 DEF Scoped
  <2>. QED
    BY <1>3, <2>1 DEF Outer
<1>5. l <= HomeIn(prog, Scoped, m) /\ HomeIn(prog, Scoped, m) \in 0..m /\ HomeIn(prog, Scoped, d) \in 0..d
  BY <1>4, HomeInIs
<1>. QED
  BY <1>3, <1>5

\* What the checker takes for optional is, or it takes another one for it.
LEMMA OptionFits ==
    ASSUME TypeInv, TypingInv, at <= Len(prog), prog[at].mark = "assign", prog[at - 1].mark = "literal",
           Option(TypeNow(prog[at - 2].name)),
           NEW m \in DOMAIN prog, m = Meant(at - 2), prog[m].mark = "declare", Initialized(m, at)
    PROVE  Option(prog[m].type) \/ HiddenByMatch(m, at)
<1>1. /\ WellFormed(prog) /\ Balanced(prog) /\ Len(prog) \in Nat /\ DOMAIN prog = 1..Len(prog)
      /\ at \in Nat /\ at > 0 /\ Len(scopes) \in Nat /\ DOMAIN scopes = 1..Len(scopes)
      /\ at \in 1..Len(prog) /\ at \in 1..(Len(prog) + 1)
  BY Given
<1>2. at > 2 /\ prog[at - 2].mark = "target"
  <2>1. \A i \in DOMAIN prog : prog[i].mark = "assign" =>
           i > 2 /\ (prog[i - 1].mark = "literal" => prog[i - 2].mark = "target")
    BY <1>1, Zenon DEF WellFormed
  <2>. QED
    BY <1>1, <2>1
<1>3. PICK i \in 1..Len(prog) : i = at - 2
  BY <1>1, <1>2
<1>. DEFINE n == prog[i].name
<1>4. n \in Names /\ prog[i].mark = "target" /\ prog[i].mark # "end"
  BY <1>1, <1>2, <1>3 DEF WellFormed
<1>5. Outer(prog, Scoped, at) = Outer(prog, Scoped, i)
  <2>1. i + 1 \in 1..Len(prog) /\ (i + 1) + 1 = at /\ i + 1 = at - 1
    BY <1>1, <1>3
  <2>2. prog[i].mark \notin Scoped /\ prog[i + 1].mark \notin Scoped /\ prog[i].mark # "end" /\ prog[i + 1].mark # "end"
    BY <1>4, <2>1 DEF Scoped
  <2>3. Scoped \in SUBSET Open
    BY Kinds
  <2>4. Outer(prog, Scoped, i + 1) = Outer(prog, Scoped, i)
    BY <1>1, <2>2, <2>3, OuterPass
  <2>5. Outer(prog, Scoped, (i + 1) + 1) = Outer(prog, Scoped, i + 1)
    BY <1>1, <2>1, <2>2, <2>3, OuterPass
  <2>. QED
    BY <2>1, <2>4, <2>5
<1>6. PICK h \in [1..Len(scopes) -> 0..Len(prog)] :
         /\ Homes(prog, Scoped, at, h, Len(scopes))
         /\ \A k \in 1..Len(scopes) : Typing(scopes[k], at, h[k])
  BY DEF TypingInv
<1>7. Holding(n) = {k \in 1..Len(scopes) : n \in DOMAIN scopes[k]}
  BY <1>1 DEF Holding
<1>8. Bound(n)
  BY <1>3, Types DEF TypeNow
<1>9. PICK top : top = Max(Holding(n))
  OBVIOUS
<1>10. top \in 1..Len(scopes) /\ n \in DOMAIN scopes[top]
       /\ \A k \in 1..Len(scopes) : n \in DOMAIN scopes[k] => k <= top
  <2>1. Holding(n) # {} /\ Holding(n) \in SUBSET Int /\ Len(scopes) \in Int
        /\ \A k \in Holding(n) : k <= Len(scopes)
    BY <1>1, <1>7, <1>8 DEF Bound
  <2>2. Max(Holding(n)) \in Holding(n) /\ \A k \in Holding(n) : Max(Holding(n)) >= k
    BY <2>1, MaxIs
  <2>. QED
    BY <1>1, <1>7, <1>9, <2>2
<1>11. Option(scopes[top][n].type)
  BY <1>3, <1>8, <1>9 DEF TypeNow, Resolve
<1>12. LastIsOption(at, n, h[top])
  BY <1>4, <1>6, <1>10, <1>11 DEF Typing
<1>13. PICK e \in 1..(at - 1) : /\ DeclaredIn(e, n, h[top]) /\ Option(prog[e].type)
                                /\ \A c \in 1..(at - 1) : DeclaredIn(c, n, h[top]) => c <= e
  BY <1>12 DEF LastIsOption
<1>14. e \in 1..Len(prog) /\ e < i
  <2>1. prog[e].mark = "declared"
    BY <1>13 DEF DeclaredIn
  <2>2. prog[at - 1].mark # "declared" /\ prog[i].mark # "declared"
    BY <1>4
  <2>3. e # at - 1 /\ e # i
    BY <2>1, <2>2
  <2>. QED
    BY <1>1, <1>3, <2>3
<1>15. PICK d \in 1..Len(prog) : Initializes(prog, d, e)
  <2>1. prog[e].mark = "declared"
    BY <1>13 DEF DeclaredIn
  <2>2. \A j \in DOMAIN prog : prog[j].mark = "declared" => \E c \in DOMAIN prog : Initializes(prog, c, j)
    BY <1>1, Zenon DEF WellFormed
  <2>. QED
    BY <1>1, <1>14, <2>1, <2>2
<1>16. /\ d < e /\ d < i /\ d \in 1..(i - 1) /\ prog[d].mark = "declare" /\ prog[d].name = n /\ prog[d].type = prog[e].type
       /\ HomeIn(prog, Scoped, d) = h[top] /\ Declares(d, n)
  <2>1. /\ d < e /\ prog[d].mark = "declare" /\ prog[d].name = prog[e].name /\ prog[d].type = prog[e].type
    BY <1>15 DEF Initializes
  <2>2. HomeIn(prog, Scoped, d) = HomeIn(prog, Scoped, e)
    BY <1>1, <1>14, <1>15, InitializerHome
  <2>3. prog[e].name = n /\ HomeIn(prog, Scoped, e) = h[top]
    BY <1>13 DEF DeclaredIn
  <2>. QED
    BY <1>1, <1>14, <2>1, <2>2, <2>3 DEF Declares
<1>17. h[top] \in Nat /\ h[top] \in {0} \union Outer(prog, Scoped, i)
  BY <1>1, <1>5, <1>6, <1>10, HomesBefore
<1>18. Scoped \in SUBSET Homed /\ Frames \subseteq Scoped
  BY Kinds
<1>19. CASE d \notin Visible(i)
  <2>1. HomeIn(prog, Scoped, d) \in {0} \union Outer(prog, Scoped, i)
    BY <1>16, <1>17
  <2>2. Home(d) \in 1..(i - 1) /\ prog[Home(d)].mark \in Homed \ Scoped /\ Close(Home(d)) < i
    BY <1>1, <1>4, <1>16, <1>18, <1>19, <2>1, Lingering
  <2>3. Close(Home(d)) < at
    <3>1. Home(d) \in 1..Len(prog) /\ prog[Home(d)].mark \in Open
      BY <1>1, <1>3, <2>2, Kinds
    <3>2. Close(Home(d)) \in Nat
      BY <1>1, <3>1, CloseIs
    <3>. QED
      BY <1>1, <1>3, <2>2, <3>2
  <2>4. Meant(i) > 0 /\ Meant(i) # Nothing
    BY <1>1, <1>3 DEF Nothing
  <2>5. Visible(i) # {}
    <3>. SUFFICES ASSUME Visible(i) = {} PROVE FALSE
      OBVIOUS
    <3>1. PICK named : named = {f \in Functions : prog[f].name = prog[i].name}
      OBVIOUS
    <3>2. named # {} => Meant(i) < 0
      BY <1>1, <1>4, <3>1, MeantIs
    <3>3. named = {} => Meant(i) = Nothing
      BY <1>1, <1>4, <3>1, MeantIs
    <3>4. Meant(i) \in Nat
      BY <1>1, <1>3
    <3>. QED
      BY <2>4, <3>2, <3>3, <3>4
  <2>6. Declares(m, n)
    BY <1>1, <1>3, <1>4, <2>5, MeantIs, VisibleIs
  <2>7. prog[m].name = n
    BY <2>6 DEF Declares
  <2>8. d \in 1..at
    BY <1>1, <1>3, <1>16
  <2>9. Home(d) > 0 /\ prog[Home(d)].mark = "match"
    BY <2>2, Kinds
  <2>. QED
    BY <1>13, <1>16, <2>3, <2>7, <2>8, <2>9 DEF HiddenByMatch
<1>20. CASE d \in Visible(i)
  <2>1. m \in Visible(i)
    BY <1>1, <1>3, <1>4, <1>20, MeantIs
  <2>2. m \in 1..(i - 1) /\ m \in 1..Len(prog) /\ Declares(m, n) /\ HomeIn(prog, Scoped, m) \in {0} \union Outer(prog, Scoped, i)
    BY <1>1, <1>4, <1>18, <2>1, SeenOpen
  <2>3. PICK f \in m..at : Initializes(prog, m, f)
    BY DEF Initialized
  <2>4. m < f /\ prog[f].mark = "declared" /\ prog[f].name = n
    <3>1. prog[m].name = n
      BY <2>2 DEF Declares
    <3>. QED
      BY <2>3, <3>1 DEF Initializes
  <2>5. f \in 1..(at - 1) /\ f \in 1..Len(prog)
    <3>1. f # at
      BY <2>4
    <3>. QED
      BY <1>1, <2>2, <2>3, <3>1
  <2>6. HomeIn(prog, Scoped, m) = HomeIn(prog, Scoped, f)
    BY <1>1, <2>3, <2>5, InitializerHome
  <2>7. PICK k \in 1..Len(scopes) : h[k] = HomeIn(prog, Scoped, m)
    <3>1. PICK o \in {0} \union Outer(prog, Scoped, at) : o = HomeIn(prog, Scoped, m)
      BY <1>5, <2>2
    <3>2. Homes(prog, Scoped, at, h, Len(scopes))
      BY <1>6
    <3>3. Reached(o, h, Len(scopes))
      BY <1>1, <3>1, <3>2, HomesAll
    <3>. QED
      BY <3>1, <3>3 DEF Reached
  <2>8. DeclaredIn(f, n, h[k])
    BY <2>4, <2>6, <2>7 DEF DeclaredIn
  <2>9. n \in DOMAIN scopes[k] /\ k <= top
    <3>1. Typing(scopes[k], at, h[k])
      BY <1>6
    <3>2. n \in DOMAIN scopes[k]
      BY <1>4, <2>5, <2>8, <3>1 DEF Typing
    <3>. QED
      BY <1>10, <3>2
  <2>10. \/ HomeIn(prog, Scoped, d) > HomeIn(prog, Scoped, m)
         \/ HomeIn(prog, Scoped, d) = HomeIn(prog, Scoped, m) /\ d >= m
    <3>1. CASE k = top
      <4>1. f <= e
        BY <1>13, <2>5, <2>8, <3>1
      <4>2. HomeIn(prog, Scoped, d) = HomeIn(prog, Scoped, m)
        BY <1>16, <2>7, <3>1
      <4>3. d >= m
        <5>. SUFFICES ASSUME d < m PROVE FALSE
          BY <1>1, <2>2
        <5>1. m < e
          BY <2>2, <2>4, <2>5, <4>1, <1>14
        <5>2. HomeIn(prog, Scoped, m) > HomeIn(prog, Scoped, d)
          BY <1>1, <1>14, <1>15, <2>2, <5>1, InitializersApart
        <5>. QED
          BY <1>16, <1>17, <4>2, <5>2
      <4>. QED
        BY <4>2, <4>3
    <3>2. CASE k < top
      <4>1. h[k] < h[top]
        BY <1>1, <1>6, <1>10, <2>9, <3>2 DEF Homes
      <4>2. PICK x \in Nat : x = h[k]
        BY <1>6, <2>9
      <4>3. PICK y \in Nat : y = h[top]
        BY <1>17
      <4>. QED
        BY <1>16, <2>7, <4>1, <4>2, <4>3
    <3>. QED
      BY <1>1, <1>10, <2>9, <3>1, <3>2
  <2>11. d = m
    BY <1>1, <1>3, <1>4, <1>18, <1>20, <2>10, Nearest
  <2>. QED
    BY <1>13, <1>16, <2>11
<1>. QED
  BY <1>19, <1>20

\* The checker's steps keep what it is about.
CheckerActions ==
    \/ CheckEnter \/ CheckLeave \/ CheckText \/ CheckUnwrap \/ CheckName \/ CheckLiteral
    \/ CheckCall \/ CheckBinary \/ CheckAssignment \/ CheckDeclaration \/ CheckOther

\* The checker at a declaration: without an error the initializer's nil fits the type.
LEMMA CheckDeclares ==
    ASSUME TypeInv, CheckInv, pass = "check", CheckDeclaration
    PROVE  /\ TypingInv' /\ Sequence(scopes') /\ Sequence(results')
           /\ errors' = {} => errors = {} /\ NilFits(at)
<1>1. /\ WellFormed(prog) /\ Balanced(prog) /\ Len(prog) \in Nat /\ DOMAIN prog = 1..Len(prog)
      /\ at \in Nat /\ at > 0
  BY Given
<1>2. /\ at <= Len(prog) /\ prog[at].mark = "declared" /\ at' = at + 1 /\ prog' = prog
      /\ results' = SubSeq(results, 1, Len(results) - Mark.count)
  BY DEF CheckDeclaration, On, Checked, Go, Mark
<1>3. PICK given : given = IF Mark.count = 0 THEN Mark.type ELSE Result(1)
  OBVIOUS
<1>4. PICK array : array = "number[]"
  OBVIOUS
<1>5. PICK type : type = IF given = array /\ Mark.type = "number" THEN given ELSE Mark.type
  OBVIOUS
<1>6. PICK old : old = IF Mark.name \in DOMAIN Top THEN Top[Mark.name].decl ELSE at
  OBVIOUS
<1>7. Error(Mismatch(Mark.type, given)) /\ SetTop(With(Top, Mark.name, Entry(old, type)))
  BY <1>3, <1>4, <1>5, <1>6, Zenon DEF CheckDeclaration
<1>8. Option(type) => Option(prog[at].type)
  <2>1. ~Option(array)
    BY <1>4, Types, Zenon
  <2>. QED
    BY <1>5, <2>1 DEF Mark
<1>9. TypingInv' /\ Sequence(scopes')
  <2>1. SetTop(With(Top, prog[at].name, Entry(old, type)))
    BY <1>7 DEF Mark
  <2>. QED
    BY <1>2, <1>8, <2>1, TypingDeclares DEF CheckInv
<1>10. Sequence(results')
  BY <1>2, CountIs, PopSequence DEF TypeInv
<1>11. ASSUME errors' = {}
       PROVE  errors = {} /\ NilFits(at)
  <2>1. errors = {} /\ ~Mismatch(Mark.type, given)
    BY <1>7, <1>11 DEF Error
  <2>2. ASSUME prog[at].count = 1, NilAt(at - 1)
        PROVE  Option(prog[at].type)
    <3>1. at > 1
      <4>1. \A i \in DOMAIN prog : prog[i].mark = "declared" => \E d \in DOMAIN prog : Initializes(prog, d, i)
        BY <1>1, Zenon DEF WellFormed
      <4>2. PICK d \in 1..Len(prog) : d < at
        BY <1>1, <1>2, <4>1 DEF Initializes
      <4>. QED
        BY <1>1, <4>2
    <3>2. prog[at - 1].mark = "literal" /\ prog[at - 1].type = "void"
      BY <2>2 DEF NilAt
    <3>3. Left(results, 1, "void")
      BY <3>1, <3>2 DEF CheckInv, Operands, OperandsAt
    <3>4. given = "void"
      <4>1. given = Result(1)
        BY <1>3, <2>2 DEF Mark
      <4>. QED
        BY <3>3, <4>1 DEF Left, Result
    <3>5. ~(given = "void" /\ ~Option(Mark.type))
      BY <2>1, Zenon DEF Mismatch
    <3>. QED
      BY <3>4, <3>5 DEF Mark
  <2>. QED
    BY <1>2, <2>1, <2>2 DEF NilFits
<1>. QED
  BY <1>9, <1>10, <1>11

\* The checker at an assignment: without an error the nil fits the variable.
LEMMA CheckAssigns ==
    ASSUME TypeInv, CheckInv, pass = "check", CheckAssignment, errors' = {}
    PROVE  errors = {} /\ NilFits(at)
<1>1. /\ WellFormed(prog) /\ Balanced(prog) /\ Len(prog) \in Nat /\ DOMAIN prog = 1..Len(prog)
      /\ at \in Nat /\ at > 0
  BY Given
<1>2. /\ at <= Len(prog) /\ prog[at].mark = "assign"
      /\ Error(Result(1) = "void" /\ ~Option(Result(2)))
  BY DEF CheckAssignment, On, Mark
<1>3. errors = {} /\ ~(Result(1) = "void" /\ ~Option(Result(2)))
  BY <1>2 DEF Error
<1>4. ASSUME NilAt(at - 1), NEW d \in {Meant(at - 2)} \intersect {c \in DOMAIN prog : prog[c].mark = "declare"}
      PROVE  Option(prog[d].type) \/ ~Initialized(d, at) \/ HiddenByMatch(d, at)
  <2>1. prog[at - 1].mark = "literal" /\ prog[at - 1].type = "void"
    BY <1>4 DEF NilAt
  <2>2. at > 2 /\ prog[at - 2].mark = "target"
    <3>1. \A i \in DOMAIN prog : prog[i].mark = "assign" =>
             i > 2 /\ (prog[i - 1].mark = "literal" => prog[i - 2].mark = "target")
      BY <1>1, Zenon DEF WellFormed
    <3>. QED
      BY <1>1, <1>2, <2>1, <3>1
  <2>3. at > 1
    BY <1>1, <2>2
  <2>4. Left(results, 1, "void") /\ Left(results, 2, TypeNow(prog[at - 2].name))
    BY <2>1, <2>2, <2>3 DEF CheckInv, Operands, OperandsAt
  <2>5. Result(1) = "void" /\ Result(2) = TypeNow(prog[at - 2].name)
    BY <2>4 DEF Left, Result
  <2>6. Option(TypeNow(prog[at - 2].name))
    BY <1>3, <2>5
  <2>. QED
    BY <1>2, <2>1, <2>6, OptionFits DEF CheckInv
<1>. QED
  BY <1>2, <1>3, <1>4 DEF NilFits

\* A type is on top of those the operands had.
LEMMA LeftOnTop ==
    ASSUME Sequence(results), NEW x, Return(0, x)
    PROVE  /\ Left(results', 1, x) /\ Sequence(results')
           /\ \A y : Left(results, 1, y) => Left(results', 2, y)
<1>1. Len(results) \in Nat
  <2>1. PICK T : results \in Seq(T)
    BY DEF Sequence
  <2>. QED
    BY <2>1
<1>2. /\ Sequence(results') /\ Len(results') = Len(results) + 1 /\ results'[Len(results')] = x
      /\ \A j \in 1..Len(results) : results'[j] = results[j]
  BY ReturnSequence
<1>3. PICK n \in Nat : n = Len(results)
  BY <1>1
<1>4. Left(results', 1, x)
  BY <1>2, <1>3 DEF Left
<1>5. ASSUME NEW y, Left(results, 1, y)
      PROVE  Left(results', 2, y)
  <2>1. n >= 1 /\ results[n] = y
    BY <1>3, <1>5 DEF Left
  <2>2. results'[n] = y /\ Len(results') = n + 1
    BY <1>2, <1>3, <2>1
  <2>. QED
    BY <1>3, <2>1, <2>2 DEF Left
<1>. QED
  BY <1>2, <1>4, <1>5

\* The table stays, and with it the types in it.
LEMMA TypeNowSame ==
    ASSUME UNCHANGED <<prog, scopes>>, OperandsAt(at', results')
    PROVE  Operands'
<1>1. \A n : TypeNow(n)' = TypeNow(n)
  BY DEF TypeNow, Bound, Resolve, Holding
<1>. QED
  BY <1>1 DEF Operands, OperandsAt

\* A name or a literal is the operand of what comes next.
LEMMA CheckOperand ==
    ASSUME TypeInv, CheckInv, pass = "check", at <= Len(prog), UNCHANGED <<prog, scopes>>, at' = at + 1,
           \/ /\ prog[at].mark \in {"use", "target", "callee"} /\ Return(0, TypeNow(prog[at].name))
           \/ prog[at].mark = "literal" /\ Return(0, prog[at].type)
    PROVE  Operands' /\ Sequence(results')
<1>1. at \in Nat /\ at > 0 /\ Sequence(results)
  BY Given DEF TypeInv
<1>2. at' - 1 = at /\ at' - 2 = at - 1 /\ (at' > 2 => at > 1)
  BY <1>1
<1>3. PICK x : Return(0, x) /\ IF prog[at].mark = "literal" THEN x = prog[at].type ELSE x = TypeNow(prog[at].name)
  OBVIOUS
<1>4. Left(results', 1, x) /\ Sequence(results') /\ \A y : Left(results, 1, y) => Left(results', 2, y)
  BY <1>1, <1>3, LeftOnTop
<1>5. OperandsAt(at, results)
  BY DEF CheckInv, Operands
<1>6. OperandsAt(at', results')
  <2>1. CASE prog[at].mark = "literal"
    BY <1>2, <1>3, <1>4, <1>5, <2>1 DEF OperandsAt
  <2>2. CASE prog[at].mark # "literal"
    BY <1>2, <1>3, <1>4, <2>2 DEF OperandsAt
  <2>. QED
    BY <2>1, <2>2
<1>. QED
  BY <1>4, <1>6, TypeNowSame

\* Every step of the checker keeps its invariant.
LEMMA CheckStep ==
    ASSUME TypeInv, CheckInv, CheckerActions
    PROVE  /\ TypeInv' /\ CheckInv'
           /\ pass = "check" /\ UNCHANGED <<prog, pass, functions, bound>>
<1>. DEFINE Goal == TypeInv' /\ CheckInv' /\ pass = "check" /\ UNCHANGED <<prog, pass, functions, bound>>
<1>0. /\ Len(prog) \in Nat /\ at \in Nat /\ at > 0 /\ at \in 1..(Len(prog) + 1)
      /\ Sequence(scopes) /\ Sequence(results) /\ prog \in Programs /\ 0 \in Nat /\ 1 \in Nat /\ 2 \in Nat
  BY Given DEF TypeInv
<1>1. ASSUME pass = "check", UNCHANGED <<prog, pass, functions, bound>>, at <= Len(prog), at' = at + 1,
             TypingInv', Operands', Sequence(scopes'), Sequence(results'),
             errors' = {} => errors = {} /\ NilFits(at)
      PROVE  Goal
  <2>1. TypeInv'
    BY <1>0, <1>1 DEF TypeInv
  <2>2. errors' = {} => NilFitsBefore(at)'
    BY <1>0, <1>1, FitsNext DEF CheckInv
  <2>. QED
    BY <1>1, <2>1, <2>2 DEF CheckInv
<1>2. ASSUME prog[at].mark \notin {"declared", "assign"}
      PROVE  NilFits(at)
  BY <1>2 DEF NilFits
<1>3. ASSUME NEW yes, Error(yes)
      PROVE  errors' = {} => errors = {}
  BY <1>3 DEF Error
\* The marks at which the table stays.
<1>4. ASSUME pass = "check", Checked, UNCHANGED scopes, at <= Len(prog),
             prog[at].mark \notin Scoped \union {"declared", "assign", "literal", "target"},
             prog[at].mark = "end" => prog[Opener(at)].mark \notin Scoped,
             Sequence(results'), errors' = {} => errors = {}
      PROVE  Goal
  <2>1. at' = at + 1 /\ UNCHANGED <<prog, pass, functions, bound>>
    BY <1>4 DEF Checked, Go
  <2>2. TypingInv'
    BY <1>4, <2>1, TypingPasses DEF CheckInv
  <2>3. Operands'
    BY <1>0, <1>4, <2>1, OperandsNone
  <2>. QED
    BY <1>0, <1>1, <1>2, <1>4, <2>1, <2>2, <2>3
<1>5. CASE CheckEnter
  <2>1. /\ pass = "check" /\ UNCHANGED <<prog, pass, functions, bound, results, errors>> /\ at' = at + 1
        /\ at <= Len(prog) /\ prog[at].mark \in Scoped /\ scopes' = Append(scopes, Params("number"))
    BY <1>5 DEF CheckEnter, On, Checked, Go, Enter, Mark
  <2>2. TypingInv' /\ Sequence(scopes')
    BY <2>1, TypingEnters DEF CheckInv
  <2>3. prog[at].mark \notin {"declared", "assign"} /\ prog[at].mark \notin {"literal", "target"}
    BY <2>1 DEF Scoped
  <2>4. Operands'
    BY <1>0, <2>1, <2>3, OperandsNone
  <2>. QED
    BY <1>0, <1>1, <1>2, <2>1, <2>2, <2>3, <2>4
<1>6. CASE CheckLeave
  <2>1. /\ pass = "check" /\ UNCHANGED <<prog, pass, functions, bound, errors>> /\ at' = at + 1
        /\ at <= Len(prog) /\ prog[at].mark = "end" /\ prog[Opener(at)].mark \in Scoped /\ Leave
        /\ Return(0, "function") \/ UNCHANGED results
    BY <1>6 DEF CheckLeave, EndOf, On, Checked, Go, Mark
  <2>2. TypingInv' /\ Sequence(scopes')
    BY <2>1, TypingLeaves DEF CheckInv
  <2>3. Operands' /\ NilFits(at)
    BY <1>0, <1>2, <2>1, OperandsNone
  <2>4. Sequence(results')
    BY <1>0, <2>1, ReturnSequence
  <2>. QED
    BY <1>1, <2>1, <2>2, <2>3, <2>4
<1>7. CASE CheckText
  <2>1. /\ pass = "check" /\ Checked /\ UNCHANGED <<scopes, errors>>
        /\ at <= Len(prog) /\ prog[at].mark = "end" /\ prog[Opener(at)].mark = "text" /\ Return(1, "string")
    BY <1>7 DEF CheckText, EndOf, On, Typed, Mark
  <2>2. Sequence(results')
    BY <1>0, <2>1, ReturnSequence
  <2>3. prog[at].mark \notin Scoped \union {"declared", "assign", "literal", "target"} /\ prog[Opener(at)].mark \notin Scoped
    BY <2>1 DEF Scoped
  <2>. QED
    BY <1>4, <2>1, <2>2, <2>3
<1>8. CASE CheckUnwrap
  <2>1. /\ pass = "check" /\ Checked /\ UNCHANGED scopes
        /\ at <= Len(prog) /\ prog[at].mark = "end" /\ prog[Opener(at)].mark = "unwrap"
        /\ \E x : Return(1, x)
        /\ Error(~Option(Result(1)) /\ Result(1) # "error")
    BY <1>8 DEF CheckUnwrap, EndOf, On, Mark
  <2>2. Sequence(results') /\ (errors' = {} => errors = {})
    BY <1>0, <1>3, <2>1, ReturnSequence
  <2>3. prog[at].mark \notin Scoped \union {"declared", "assign", "literal", "target"} /\ prog[Opener(at)].mark \notin Scoped
    BY <2>1 DEF Scoped
  <2>. QED
    BY <1>4, <2>1, <2>2, <2>3
\* The operands.
<1>9. CASE CheckName \/ CheckLiteral
  <2>1. /\ pass = "check" /\ UNCHANGED <<prog, pass, functions, bound, scopes, errors>> /\ at' = at + 1
        /\ at <= Len(prog)
        /\ \/ prog[at].mark \in {"use", "target", "callee"} /\ Return(0, TypeNow(prog[at].name))
           \/ prog[at].mark = "literal" /\ Return(0, prog[at].type)
    BY <1>9 DEF CheckName, CheckLiteral, On, Typed, Checked, Go, Mark, TypeNow
  <2>2. Operands' /\ Sequence(results')
    BY <2>1, CheckOperand
  <2>3. prog[at].mark \notin Scoped \union {"declared"} /\ prog[at].mark # "end" /\ prog[at].mark \notin {"declared", "assign"}
    BY <2>1 DEF Scoped
  <2>4. TypingInv'
    BY <2>1, <2>3, TypingPasses DEF CheckInv
  <2>. QED
    BY <1>0, <1>1, <1>2, <2>1, <2>2, <2>3, <2>4
<1>10. CASE CheckCall
  <2>1. /\ pass = "check" /\ Checked /\ UNCHANGED <<scopes, errors>>
        /\ at <= Len(prog) /\ prog[at].mark = "call" /\ Return(1 + Mark.count, "number")
    BY <1>10 DEF CheckCall, On, Typed, Mark
  <2>2. 1 + Mark.count \in Nat
    BY <2>1, CountIs
  <2>3. Sequence(results')
    BY <1>0, <2>1, <2>2, ReturnSequence
  <2>4. prog[at].mark \notin Scoped \union {"declared", "assign", "literal", "target"} /\ prog[at].mark # "end"
    BY <2>1 DEF Scoped
  <2>. QED
    BY <1>4, <2>1, <2>3, <2>4
<1>11. CASE CheckBinary
  <2>1. /\ pass = "check" /\ Checked /\ UNCHANGED <<scopes, errors>>
        /\ at <= Len(prog) /\ prog[at].mark = "binary" /\ \E x : Return(2, x)
    BY <1>11 DEF CheckBinary, On, Typed, Mark
  <2>2. Sequence(results')
    BY <1>0, <2>1, ReturnSequence
  <2>3. prog[at].mark \notin Scoped \union {"declared", "assign", "literal", "target"} /\ prog[at].mark # "end"
    BY <2>1 DEF Scoped
  <2>. QED
    BY <1>4, <2>1, <2>2, <2>3
<1>12. CASE CheckAssignment
  <2>1. /\ pass = "check" /\ UNCHANGED <<prog, pass, functions, bound, scopes>> /\ at' = at + 1
        /\ at <= Len(prog) /\ prog[at].mark = "assign" /\ \E x : Return(2, x)
    BY <1>12 DEF CheckAssignment, On, Checked, Go, Mark
  <2>2. Sequence(results')
    BY <1>0, <2>1, ReturnSequence
  <2>3. prog[at].mark \notin Scoped \union {"declared"} /\ prog[at].mark # "end" /\ prog[at].mark \notin {"literal", "target"}
    BY <2>1 DEF Scoped
  <2>4. TypingInv' /\ Operands'
    BY <1>0, <2>1, <2>3, TypingPasses, OperandsNone DEF CheckInv
  <2>5. errors' = {} => errors = {} /\ NilFits(at)
    BY <1>12, <2>1, CheckAssigns
  <2>. QED
    BY <1>0, <1>1, <2>1, <2>2, <2>4, <2>5
<1>13. CASE CheckDeclaration
  <2>1. /\ pass = "check" /\ UNCHANGED <<prog, pass, functions, bound>> /\ at' = at + 1
        /\ at <= Len(prog) /\ prog[at].mark = "declared"
    BY <1>13 DEF CheckDeclaration, On, Checked, Go, Mark
  <2>2. /\ TypingInv' /\ Sequence(scopes') /\ Sequence(results')
        /\ errors' = {} => errors = {} /\ NilFits(at)
    BY <1>13, <2>1, CheckDeclares
  <2>3. Operands'
    BY <1>0, <2>1, OperandsNone
  <2>. QED
    BY <1>1, <2>1, <2>2, <2>3
<1>14. CASE CheckOther
  <2>1. CASE On("check", {"drop", "arms"}) /\ results' = SubSeq(results, 1, Len(results) - 1) /\ Typed
    <3>1. /\ pass = "check" /\ Checked /\ UNCHANGED <<scopes, errors>>
          /\ at <= Len(prog) /\ prog[at].mark \in {"drop", "arms"}
      BY <2>1 DEF On, Typed, Mark
    <3>2. Sequence(results')
      BY <1>0, <2>1, PopSequence
    <3>3. prog[at].mark \notin Scoped \union {"declared", "assign", "literal", "target"} /\ prog[at].mark # "end"
      BY <3>1 DEF Scoped
    <3>. QED
      BY <1>4, <3>1, <3>2, <3>3
  <2>2. CASE On("check", {"match", "text", "unwrap", "declare"}) /\ Typed /\ UNCHANGED results
    <3>1. /\ pass = "check" /\ Checked /\ UNCHANGED <<scopes, errors, results>>
          /\ at <= Len(prog) /\ prog[at].mark \in {"match", "text", "unwrap", "declare"}
      BY <2>2 DEF On, Typed, Mark
    <3>2. Sequence(results')
      BY <1>0, <3>1
    <3>3. prog[at].mark \notin Scoped \union {"declared", "assign", "literal", "target"} /\ prog[at].mark # "end"
      BY <3>1 DEF Scoped
    <3>. QED
      BY <1>4, <3>1, <3>2, <3>3
  <2>3. CASE EndOf("check", {"match"}) /\ Typed /\ UNCHANGED results
    <3>1. /\ pass = "check" /\ Checked /\ UNCHANGED <<scopes, errors, results>>
          /\ at <= Len(prog) /\ prog[at].mark = "end" /\ prog[Opener(at)].mark = "match"
      BY <2>3 DEF EndOf, On, Typed, Mark
    <3>2. Sequence(results')
      BY <1>0, <3>1
    <3>3. prog[at].mark \notin Scoped \union {"declared", "assign", "literal", "target"} /\ prog[Opener(at)].mark \notin Scoped
      BY <3>1 DEF Scoped
    <3>. QED
      BY <1>4, <3>1, <3>2, <3>3
  <2>. QED
    BY <1>14, <2>1, <2>2, <2>3 DEF CheckOther
<1>. QED
  BY <1>5, <1>6, <1>7, <1>8, <1>9, <1>10, <1>11, <1>12, <1>13, <1>14 DEF CheckerActions

\* The checker starts with what the resolver left, which has no optional type.
LEMMA CheckStarts ==
    ASSUME TypeInv, ResolveInv, Ended("resolve"), at' = 1, UNCHANGED <<prog, scopes>>
    PROVE  TypingInv' /\ Operands' /\ NilFitsBefore(at)'
<1>1. Balanced(prog) /\ Len(prog) \in Nat /\ at \in Nat /\ at \in 1..(Len(prog) + 1) /\ Len(scopes) \in Nat
  BY Given DEF TypeInv
<1>2. PICK h \in [1..Len(scopes) -> 0..Len(prog)] :
         /\ Homes(prog, Scoped, at, h, Len(scopes))
         /\ \A k \in 1..Len(scopes) : Tabled(scopes[k], at, h[k])
  BY DEF ResolveInv, Ended
<1>3. at = Len(prog) + 1
  BY <1>1 DEF Ended
<1>4. Outer(prog, Scoped, at) = {} /\ Outer(prog, Scoped, 1) = {}
  BY <1>1, <1>3, AllClosed, NothingOpen, Kinds
<1>5. Homes(prog, Scoped, 1, h, Len(scopes))
  BY <1>2, <1>4, HomesSame
<1>6. \A k \in 1..Len(scopes) : Typing(scopes[k], 1, h[k])
  <2>. TAKE k \in 1..Len(scopes)
  <2>1. \A n \in DOMAIN scopes[k] : ~Option(scopes[k][n].type)
    BY <1>2, Types DEF Tabled
  <2>. QED
    BY <2>1 DEF Typing
<1>7. TypingInv'
  BY <1>2, <1>5, <1>6, TypingInvNext
<1>8. Operands'
  BY DEF Operands, OperandsAt
<1>9. NilFitsBefore(at)'
  BY DEF NilFitsBefore
<1>. QED
  BY <1>7, <1>8, <1>9

-----------------------------------------------------------------------------
\* The inductive invariant: a pass keeps its table, and what a pass has found stays
\* true when the next one runs.
IInv ==
    /\ TypeInv /\ ResolveInv /\ CheckInv /\ GenerateInv /\ BoundInv
    /\ pass \in {"check", "generate", "done"} => NoneUnbound
    /\ pass \in {"generate", "done"} => NilFitsBefore(Len(prog) + 1)

\* From pass to pass.
LEMMA NextPassesStep ==
    ASSUME IInv, NextPasses
    PROVE  IInv'
<1>0. /\ Len(prog) \in Nat /\ at \in Nat /\ at > 0 /\ at \in 1..(Len(prog) + 1)
      /\ Sequence(scopes) /\ Sequence(results) /\ prog \in Programs
  BY Given DEF IInv, TypeInv
<1>1. UNCHANGED <<prog, results, errors, bound>> /\ BoundInv'
  BY BoundInvSame DEF NextPasses, IInv
<1>2. NoneUnbound => NoneUnbound'
  BY <1>1, NoneUnboundSame
<1>3. NilFitsBefore(Len(prog) + 1) => NilFitsBefore(Len(prog) + 1)'
  BY <1>1, CheckSteady DEF NilFitsBefore
<1>4. CASE Ended("resolve") /\ pass' = (IF errors = {} THEN "check" ELSE "rejected")
           /\ at' = 1 /\ UNCHANGED <<scopes, functions>>
  <2>1. TypingInv' /\ Operands' /\ NilFitsBefore(at)'
    BY <1>1, <1>4, CheckStarts DEF IInv
  <2>2. errors = {} => NoneUnbound
    BY <1>4, ResolverAccepts DEF IInv
  <2>3. pass' \in {"check", "rejected"} /\ (pass' = "check" => errors = {})
    BY <1>4
  <2>4. TypeInv'
    BY <1>0, <1>1, <1>4, <2>3 DEF TypeInv
  <2>5. ResolveInv' /\ GenerateInv'
    BY <2>3 DEF ResolveInv, GenerateInv
  <2>6. CheckInv'
    BY <2>1 DEF CheckInv
  <2>. QED
    BY <1>1, <1>2, <2>2, <2>3, <2>4, <2>5, <2>6 DEF IInv
<1>5. CASE Ended("check") /\ pass' = (IF errors = {} THEN "generate" ELSE "rejected")
           /\ at' = 1 /\ scopes' = <<Empty>>
           /\ functions' = [n \in {prog[i].name : i \in Functions} |->
                              -Max({i \in Functions : prog[i].name = n})]
  <2>1. GenerateInv' /\ Sequence(scopes')
    BY <1>1, <1>5, GenerateStarts DEF IInv
  <2>2. NoneUnbound /\ (errors = {} => NilFitsBefore(at)) /\ at = Len(prog) + 1
    BY <1>0, <1>5 DEF IInv, CheckInv, Ended
  <2>3. pass' \in {"generate", "rejected"} /\ (pass' = "generate" => errors = {})
    BY <1>5
  <2>4. TypeInv'
    BY <1>0, <1>1, <1>5, <2>1, <2>3 DEF TypeInv
  <2>5. ResolveInv' /\ CheckInv'
    BY <2>3 DEF ResolveInv, CheckInv
  <2>. QED
    BY <1>1, <1>2, <1>3, <2>1, <2>2, <2>3, <2>4, <2>5 DEF IInv
<1>6. CASE Ended("generate") /\ pass' = (IF errors = {} THEN "done" ELSE "rejected")
           /\ UNCHANGED <<at, scopes, functions>>
  <2>1. NoneUnbound /\ NilFitsBefore(Len(prog) + 1)
    BY <1>6 DEF IInv, Ended
  <2>2. pass' \in {"done", "rejected"}
    BY <1>6
  <2>3. TypeInv'
    BY <1>0, <1>1, <1>6, <2>2 DEF TypeInv
  <2>4. ResolveInv' /\ CheckInv' /\ GenerateInv'
    BY <2>2 DEF ResolveInv, CheckInv, GenerateInv
  <2>. QED
    BY <1>1, <1>2, <1>3, <2>1, <2>2, <2>3, <2>4 DEF IInv
<1>. QED
  BY <1>4, <1>5, <1>6 DEF NextPasses, NextPass

\* The invariant is inductive: one step per pass, and those between the passes.
LEMMA Inductive ==
    ASSUME IInv, [Next]_vars
    PROVE  IInv'
<1>1. CASE ResolverActions
  <2>1. TypeInv' /\ ResolveInv' /\ pass = "resolve" /\ UNCHANGED <<prog, pass, functions, bound, results>>
    BY <1>1, ResolveStep DEF IInv
  <2>2. BoundInv'
    BY <2>1, BoundInvSame DEF IInv
  <2>. QED
    BY <2>1, <2>2 DEF IInv, CheckInv, GenerateInv
<1>2. CASE CheckerActions
  <2>1. TypeInv' /\ CheckInv' /\ pass = "check" /\ UNCHANGED <<prog, pass, functions, bound>>
    BY <1>2, CheckStep DEF IInv
  <2>2. BoundInv' /\ NoneUnbound'
    BY <2>1, BoundInvSame, NoneUnboundSame DEF IInv
  <2>. QED
    BY <2>1, <2>2 DEF IInv, ResolveInv, GenerateInv
<1>3. CASE GeneratorActions
  <2>0. pass = "generate"
    BY <1>3 DEF GeneratorActions, GenerateEnter, GenerateLeave, GenerateLambda, GenerateText, GenerateDeclaration,
         GenerateUse, GenerateTarget, GenerateCallee, GenerateCall, GenerateLiteral, GenerateBinary, GenerateArms,
         GenerateOther, EndOf, On
  <2>1. TypeInv' /\ GenerateInv' /\ BoundInv' /\ UNCHANGED <<prog, pass>>
    BY <1>3, <2>0, GenerateStep DEF IInv
  <2>2. NoneUnbound' /\ NilFitsBefore(Len(prog) + 1)'
    BY <2>0, <2>1, NoneUnboundSame, CheckSteady DEF IInv, NilFitsBefore
  <2>. QED
    BY <2>0, <2>1, <2>2 DEF IInv, ResolveInv, CheckInv
<1>4. CASE NextPasses
  BY <1>4, NextPassesStep
<1>5. CASE UNCHANGED vars
  <2>1. UNCHANGED <<prog, pass, at, scopes, results, errors, functions, bound>>
    BY <1>5 DEF vars
  <2>2. TypeInv'
    BY <2>1 DEF IInv, TypeInv
  <2>3. BoundInv' /\ (NoneUnbound => NoneUnbound') /\ (NilFitsBefore(Len(prog) + 1) => NilFitsBefore(Len(prog) + 1)')
    BY <2>1, BoundInvSame, NoneUnboundSame, CheckSteady DEF IInv, NilFitsBefore
  <2>4. ResolveInv'
    BY <2>1, ResolveInvNext, Steady DEF IInv, ResolveInv
  <2>5. CheckInv'
    <3>1. TypingInv => TypingInv'
      BY <2>1, TypingInvNext DEF TypingInv
    <3>2. Operands => Operands'
      BY <2>1, TypeNowSame DEF Operands
    <3>3. NilFitsBefore(at) => NilFitsBefore(at)'
      BY <2>1, CheckSteady DEF NilFitsBefore
    <3>. QED
      BY <2>1, <3>1, <3>2, <3>3 DEF IInv, CheckInv
  <2>6. GenerateInv'
    BY <2>1, GenerateInvNext DEF IInv, GenerateInv
  <2>. QED
    BY <2>1, <2>2, <2>3, <2>4, <2>5, <2>6 DEF IInv
<1>. QED
  BY <1>1, <1>2, <1>3, <1>4, <1>5 DEF Next, ResolverActions, CheckerActions, GeneratorActions, Stop

\* The invariant of the passes: what each pass has in its table, of what it has
\* passed, and what the passes before have made sure of.
THEOREM Invariant == Spec => []IInv
<1>1. Init => IInv
  <2>. SUFFICES ASSUME Init PROVE IInv
    OBVIOUS
  <2>1. TypeInv /\ ResolveInv /\ BoundInv /\ pass = "resolve"
    BY ResolveStarts DEF Init
  <2>. QED
    BY <2>1 DEF IInv, CheckInv, GenerateInv
<1>2. IInv /\ [Next]_vars => IInv'
  BY Inductive
<1>. QED
  BY <1>1, <1>2, PTL DEF Spec

\* The errors of NameResolver::resolve are the names that mean nothing, where it looks.
THEOREM ResolverIsRight == Spec => []ErrorsAreUnboundNames
<1>1. IInv => ErrorsAreUnboundNames
  BY ResolverAccepts DEF IInv, ErrorsAreUnboundNames
<1>. QED
  BY <1>1, Invariant, PTL

\* An accepted program is generated with every name bound as a reader binds it, but
\* for the names BindsAsWritten lists.
THEOREM GeneratorIsRight == Spec => []BindsAsWritten
<1>1. IInv => BindsAsWritten
  BY DEF IInv, BoundInv, BoundWell, BindsAsWritten
<1>. QED
  BY <1>1, Invariant, PTL

\* The checker lets a literal nil through to optional variables only, and to the two
\* it takes for such.
THEOREM CheckerIsRight == Spec => []NilOnlyToOptions
<1>1. IInv => NilOnlyToOptions
  <2>. SUFFICES ASSUME IInv, pass = "done", NEW i \in DOMAIN prog PROVE NilFits(i)
    BY DEF NilOnlyToOptions, NilFits
  <2>1. Len(prog) \in Nat /\ i \in 1..((Len(prog) + 1) - 1)
    BY Given DEF IInv
  <2>. QED
    BY <2>1 DEF IInv, NilFitsBefore
<1>. QED
  BY <1>1, Invariant, PTL
=============================================================================
