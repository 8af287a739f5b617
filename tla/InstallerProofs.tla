-------------------------- MODULE InstallerProofs --------------------------
(***************************************************************************)
(* The installer, for every list of directories and files, every PATH that *)
(* does not name Druk twice and any number of sessions.  The worker's list *)
(* of calls is always an end of the list it was given, so that the number  *)
(* of calls left tells which have been made; IInv says what each of them   *)
(* has left behind, and it holds whatever the window, an orphaned shell or *)
(* a failed call does in between.                                          *)
(*                                                                         *)
(* OthersAreKept follows the two editions of PATH character by character:  *)
(* Scan is shown to be the recursive function it is meant to be (ScanIs),  *)
(* two PATHs that go on alike are read alike (ScansAgree), and Druk's      *)
(* entry leaves no trace in what has been read (OwnEntry).                 *)
(***************************************************************************)
EXTENDS Installer, SequenceTheorems, FiniteSetTheorems, FiniteSetsExt, WellFoundedInduction, TLAPS

\* Recursion and induction over numbers, without an operator as an argument: a property
\* is the set of what has it, and the step of a recursion is a function.

\* A set of natural numbers that is not empty has a least one.
LEMMA MinIs ==
    ASSUME NEW S \in SUBSET Nat, S # {}
    PROVE  Min(S) \in S /\ \A x \in S : Min(S) <= x
<1>. DEFINE R == OpToRel(<, Nat)
<1>1. IsWellFoundedOn(R, Nat)
  BY NatLessThanWellFounded
<1>2. \A x, y \in Nat : y < x => <<y, x>> \in R
  BY DEF OpToRel
<1>. HIDE DEF R
<1>3. PICK m \in S : \A y \in S : ~(<<y, m>> \in R)
  BY <1>1, WFMin
<1>4. \A y \in S : m <= y
  <2>. TAKE y \in S
  <2>1. m \in Nat /\ y \in Nat /\ ~(y < m)
    BY <1>2, <1>3
  <2>. QED
    BY <2>1
<1>. QED
  BY <1>4, Zenon DEF Min

\* Induction: what holds of 0 and of the number behind each number it holds of.
LEMMA NatClosed ==
    ASSUME NEW T, 0 \in T, \A n \in Nat : n \in T => n + 1 \in T
    PROVE  Nat \subseteq T
<1>. DEFINE Out == {n \in Nat : n \notin T}
<1>1. SUFFICES ASSUME Out # {} PROVE FALSE
  OBVIOUS
<1>2. Min(Out) \in Out /\ \A n \in Out : Min(Out) <= n
  BY <1>1, MinIs
<1>3. PICK x \in Out : \A n \in Out : x <= n
  BY <1>2
<1>4. x # 0 /\ x - 1 \in Nat /\ (x - 1) + 1 = x
  BY <1>3
<1>5. x - 1 \notin Out
  BY <1>3, <1>4
<1>. QED
  BY <1>3, <1>4, <1>5

\* What the first n steps of a function defined by recursion are.
Beginnings(S, a, G, n) ==
    {g \in [0..n -> S] : g[0] = a /\ \A i \in 0..(n - 1) : g[i + 1] = G[<<g[i], i>>]}

\* There are such steps.
LEMMA BeginningsExist ==
    ASSUME NEW S, NEW a \in S, NEW G \in [S \X Nat -> S], NEW n \in Nat
    PROVE  \E g : g \in Beginnings(S, a, G, n)
<1>. DEFINE T == {m \in Nat : \E g : g \in Beginnings(S, a, G, m)}
<1>1. 0 \in T
  <2>. DEFINE g == [i \in 0..0 |-> a]
  <2>1. g \in Beginnings(S, a, G, 0)
    BY DEF Beginnings
  <2>. QED
    BY <2>1
<1>2. ASSUME NEW m \in Nat, m \in T
      PROVE  m + 1 \in T
  <2>1. PICK g : g \in Beginnings(S, a, G, m)
    BY <1>2
  <2>2. /\ g \in [0..m -> S] /\ g[0] = a
        /\ \A i \in 0..(m - 1) : g[i + 1] = G[<<g[i], i>>]
    BY <2>1 DEF Beginnings
  <2>. DEFINE h == [i \in 0..(m + 1) |-> IF i <= m THEN g[i] ELSE G[<<g[m], m>>]]
  <2>3. G[<<g[m], m>>] \in S
    BY <2>2
  <2>4. h \in [0..(m + 1) -> S] /\ h[0] = a
    BY <2>2, <2>3
  <2>7. h[m + 1] = G[<<g[m], m>>] /\ \A k \in 0..m : h[k] = g[k]
    OBVIOUS
  <2>. HIDE DEF h
  <2>5. ASSUME NEW i \in 0..((m + 1) - 1)
        PROVE  h[i + 1] = G[<<h[i], i>>]
    <3>1. CASE i = m
      BY <2>7, <3>1
    <3>2. CASE i # m
      <4>1. i \in 0..(m - 1) /\ i + 1 \in 0..m
        BY <3>2
      <4>. QED
        BY <2>2, <2>7, <4>1
    <3>. QED
      BY <3>1, <3>2
  <2>6. h \in Beginnings(S, a, G, m + 1)
    BY <2>4, <2>5 DEF Beginnings
  <2>. QED
    BY <2>6
<1>. HIDE DEF T
<1>3. n \in T
  BY <1>1, <1>2, NatClosed
<1>. QED
  BY <1>3 DEF T

\* Where two of them have steps, the steps are the same.
LEMMA BeginningsAgree ==
    ASSUME NEW S, NEW a \in S, NEW G \in [S \X Nat -> S], NEW m \in Nat, NEW n \in Nat,
           NEW g \in Beginnings(S, a, G, m), NEW h \in Beginnings(S, a, G, n), NEW i \in Nat, i <= m,
           i <= n
    PROVE  g[i] = h[i]
<1>. DEFINE T == {j \in Nat : j <= m /\ j <= n => g[j] = h[j]}
<1>1. /\ g[0] = a /\ \A j \in 0..(m - 1) : g[j + 1] = G[<<g[j], j>>]
      /\ h[0] = a /\ \A j \in 0..(n - 1) : h[j + 1] = G[<<h[j], j>>]
  BY DEF Beginnings
<1>2. 0 \in T
  BY <1>1
<1>3. ASSUME NEW j \in Nat, j \in T
      PROVE  j + 1 \in T
  <2>1. SUFFICES ASSUME j + 1 <= m, j + 1 <= n PROVE g[j + 1] = h[j + 1]
    OBVIOUS
  <2>2. j \in 0..(m - 1) /\ j \in 0..(n - 1) /\ g[j] = h[j]
    BY <1>3, <2>1
  <2>. QED
    BY <1>1, <2>2
<1>. HIDE DEF T
<1>4. i \in T
  BY <1>2, <1>3, NatClosed
<1>. QED
  BY <1>4 DEF T

\* A function that starts with a and goes on as G says.
IsRecursion(f, a, G) == f[0] = a /\ \A n \in Nat : f[n + 1] = G[<<f[n], n>>]

\* Recursion, for a step that is a function.
LEMMA RecursionExists ==
    ASSUME NEW S, NEW a \in S, NEW G \in [S \X Nat -> S]
    PROVE  \E f \in [Nat -> S] : IsRecursion(f, a, G)
<1>. DEFINE B(n) == CHOOSE g : g \in Beginnings(S, a, G, n)
            f == [n \in Nat |-> B(n)[n]]
<1>1. ASSUME NEW n \in Nat
      PROVE  B(n) \in Beginnings(S, a, G, n)
  BY BeginningsExist
<1>2. ASSUME NEW n \in Nat
      PROVE  /\ B(n) \in [0..n -> S] /\ B(n)[0] = a
             /\ \A i \in 0..(n - 1) : B(n)[i + 1] = G[<<B(n)[i], i>>]
  BY <1>1 DEF Beginnings
<1>3. \A n \in Nat : f[n] = B(n)[n]
  OBVIOUS
<1>4. ASSUME NEW n \in Nat
      PROVE  f[n + 1] = G[<<f[n], n>>]
  <2>1. B(n) \in Beginnings(S, a, G, n) /\ B(n + 1) \in Beginnings(S, a, G, n + 1)
    BY <1>1
  <2>. HIDE DEF B
  <2>2. B(n)[n] = B(n + 1)[n]
    BY <2>1, BeginningsAgree
  <2>3. B(n + 1)[n + 1] = G[<<B(n + 1)[n], n>>]
    BY <1>2
  <2>. QED
    BY <1>3, <2>2, <2>3
<1>5. f \in [Nat -> S]
  <2>. HIDE DEF B
  <2>. QED
    BY <1>2
<1>. QED
  BY <1>2, <1>3, <1>4, <1>5 DEF IsRecursion
-----------------------------------------------------------------------------

\* PATH with the bin directory added.
LEMMA AppendedLists ==
    ASSUME NEW p \in Seq(Chars), Own(p) = {}
    PROVE  /\ Appended(p) \in Seq(Chars) /\ Len(Appended(p)) \in Nat \ {0}
           /\ Own(Appended(p)) = {Len(Appended(p))}
           /\ Plain(Appended(p))
<1>. DEFINE q == IF p = <<>> \/ Last(p) = Sep THEN p ELSE Append(p, Sep)
<1>1. q \in Seq(Chars) /\ Own(q) = {} /\ (Len(q) = 0 \/ q[Len(q)] = Sep)
  <2>1. CASE p = <<>> \/ Last(p) = Sep
    BY <2>1, EmptySeq DEF Last
  <2>2. CASE ~(p = <<>> \/ Last(p) = Sep)
    <3>1. q = Append(p, Sep) /\ Sep \in Chars /\ Sep # "D"
      BY <2>2, InstallerAssumption DEF Sep
    <3>. HIDE DEF q
    <3>2. q \in Seq(Chars) /\ Len(q) = Len(p) + 1 /\ Len(p) \in Nat /\ q[Len(q)] = Sep
      BY <3>1
    <3>3. \A i \in 1..Len(p) : q[i] = p[i]
      BY <3>1
    <3>. QED
      BY <3>1, <3>2, <3>3 DEF Own
  <2>. QED
    BY <2>1, <2>2
<1>2. Appended(p) = q \o <<"D">>
  BY DEF Appended
<1>. HIDE DEF q
<1>3. /\ Appended(p) \in Seq(Chars) /\ Len(q) \in Nat /\ Len(Appended(p)) = Len(q) + 1
      /\ Appended(p)[Len(q) + 1] = "D"
      /\ \A i \in 1..Len(q) : Appended(p)[i] = q[i]
  <2>1. "D" \in Chars /\ <<"D">> \in Seq(Chars) /\ Len(<<"D">>) = 1 /\ <<"D">>[1] = "D"
    BY InstallerAssumption
  <2>. QED
    BY <1>1, <1>2, <2>1, ConcatProperties
<1>4. Own(Appended(p)) = {Len(Appended(p))}
  BY <1>1, <1>3 DEF Own
<1>5. Plain(Appended(p))
  BY <1>1, <1>3, <1>4 DEF Plain
<1>. QED
  BY <1>3, <1>4, <1>5

\* PATH with the bin directory taken away.
LEMMA ErasedForgets ==
    ASSUME NEW p \in Seq(Chars), Own(p) # {}, \A i, j \in Own(p) : i = j
    PROVE  Erased(p) \in Seq(Chars) /\ Own(Erased(p)) = {}
<1>. DEFINE First(i) == i \in DOMAIN p /\ p[i] = "D" /\ \A j \in 1..(i - 1) : p[j] # "D"
            pos == CHOOSE i \in DOMAIN p : p[i] = "D" /\ \A j \in 1..(i - 1) : p[j] # "D"
<1>0. Len(p) \in Nat /\ DOMAIN p = 1..Len(p)
  OBVIOUS
<1>1. PICK k \in DOMAIN p : p[k] = "D"
  BY DEF Own
<1>2. pos \in 1..Len(p) /\ p[pos] = "D"
  <2>1. \A j \in 1..(k - 1) : p[j] # "D"
    BY <1>0, <1>1 DEF Own
  <2>. QED
    BY <1>0, <1>1, <2>1
<1>3. \A i \in 1..Len(p) : i # pos => p[i] # "D"
  BY <1>0, <1>2 DEF Own
<1>. HIDE DEF pos
<1>4. ASSUME NEW a \in 0..(pos - 1), NEW b \in (pos + 1)..(Len(p) + 1)
      PROVE  /\ SubSeq(p, 1, a) \o SubSeq(p, b, Len(p)) \in Seq(Chars)
             /\ Own(SubSeq(p, 1, a) \o SubSeq(p, b, Len(p))) = {}
  <2>. DEFINE s == SubSeq(p, 1, a)
              t == SubSeq(p, b, Len(p))
  <2>1. s \in Seq(Chars) /\ Len(s) = a /\ \A i \in 1..a : s[i] = p[i]
    BY <1>0, <1>2, <1>4
  <2>2. t \in Seq(Chars) /\ Len(t) = Len(p) - b + 1 /\ \A i \in 1..Len(t) : t[i] = p[b + i - 1]
    BY <1>0, <1>2, <1>4
  <2>. HIDE DEF s, t
  <2>3. /\ s \o t \in Seq(Chars) /\ Len(s \o t) = Len(s) + Len(t)
        /\ \A i \in 1..Len(s \o t) : (s \o t)[i] = IF i <= Len(s) THEN s[i] ELSE t[i - Len(s)]
    <3>1. /\ s \o t \in Seq(Chars) /\ Len(s \o t) = Len(s) + Len(t)
          /\ \A i \in 1..(Len(s) + Len(t)) : (s \o t)[i] = IF i <= Len(s) THEN s[i] ELSE t[i - Len(s)]
      BY <2>1, <2>2, ConcatProperties
    <3>. QED
      BY <3>1
  <2>4. ASSUME NEW i \in 1..Len(s \o t)
        PROVE  (s \o t)[i] # "D"
    <3>1. CASE i <= Len(s)
      BY <1>0, <1>2, <1>3, <2>1, <2>3, <3>1
    <3>2. CASE ~(i <= Len(s))
      <4>1. i - Len(s) \in 1..Len(t) /\ (s \o t)[i] = t[i - Len(s)]
        BY <2>1, <2>2, <2>3, <3>2, <1>0, <1>2
      <4>2. b + (i - Len(s)) - 1 \in 1..Len(p) /\ b + (i - Len(s)) - 1 # pos
        BY <4>1, <2>2, <1>0, <1>2
      <4>. QED
        BY <4>1, <4>2, <2>2, <1>3
    <3>. QED
      BY <3>1, <3>2
  <2>5. Own(s \o t) = {}
    BY <2>3, <2>4 DEF Own
  <2>. QED
    BY <2>3, <2>5 DEF s, t
<1>5. Erased(p) = IF pos > 1 /\ p[pos - 1] = Sep THEN SubSeq(p, 1, pos - 2) \o SubSeq(p, pos + 1, Len(p))
       ELSE IF pos < Len(p) /\ p[pos + 1] = Sep THEN SubSeq(p, 1, pos - 1) \o SubSeq(p, pos + 2, Len(p))
       ELSE SubSeq(p, 1, pos - 1) \o SubSeq(p, pos + 1, Len(p))
  BY DEF Erased, pos
<1>6. CASE pos > 1 /\ p[pos - 1] = Sep
  BY <1>0, <1>2, <1>4, <1>5, <1>6
<1>7. CASE ~(pos > 1 /\ p[pos - 1] = Sep) /\ pos < Len(p) /\ p[pos + 1] = Sep
  BY <1>0, <1>2, <1>4, <1>5, <1>7
<1>8. CASE ~(pos > 1 /\ p[pos - 1] = Sep) /\ ~(pos < Len(p) /\ p[pos + 1] = Sep)
  BY <1>0, <1>2, <1>4, <1>5, <1>8
<1>. QED
  BY <1>6, <1>7, <1>8
-----------------------------------------------------------------------------
LEMMA LeftCounts ==
    ASSUME TypeOK
    PROVE  /\ Left \in Nat /\ (Left = 0 <=> todo = <<>>)
           /\ todo # <<>> => /\ Head(todo) = todo[1] /\ Tail(todo) \in Seq(ToSet(Dirs) \union Calls)
                             /\ Len(Tail(todo)) = Left - 1
BY DEF TypeOK, Left

\* The number of calls left tells which call is next.
LEMMA NextOfRun ==
    ASSUME TypeOK, TodoInv, todo # <<>>, mode # "Uninstall"
    PROVE  /\ Len(Dirs) \in Nat /\ Len(Run) = Len(Dirs) + 7 /\ Left <= Len(Run)
           /\ Left > 7 => Head(todo) = Dirs[Len(Run) - Left + 1] /\ Head(todo) \in ToSet(Dirs)
           /\ Left = 7 => Head(todo) = "write"
           /\ Left = 6 => Head(todo) = "expand"
           /\ Left = 5 => Head(todo) = "clean"
           /\ Left = 4 => Head(todo) = "updatePath"
           /\ Left = 3 => Head(todo) = "register"
           /\ Left = 2 => Head(todo) = "associate"
           /\ Left = 1 => Head(todo) = "complete"
<1>. DEFINE rest == <<"write", "expand", "clean", "updatePath", "register", "associate", "complete">>
<1>1. Dirs \in Seq(ToSet(Dirs)) /\ Len(Dirs) \in Nat
  BY InstallerAssumption
<1>2. rest \in Seq(Calls) /\ Len(rest) = 7
  BY DEF Calls
<1>3. /\ rest[1] = "write" /\ rest[2] = "expand" /\ rest[3] = "clean" /\ rest[4] = "updatePath"
      /\ rest[5] = "register" /\ rest[6] = "associate" /\ rest[7] = "complete"
  OBVIOUS
<1>4. Run = Dirs \o rest
  BY DEF Run
<1>. HIDE DEF rest
<1>5. /\ Len(Run) = Len(Dirs) + 7
      /\ \A i \in 1..Len(Run) : Run[i] = IF i <= Len(Dirs) THEN Dirs[i] ELSE rest[i - Len(Dirs)]
  <2>. DEFINE S == ToSet(Dirs) \union Calls
  <2>1. Dirs \in Seq(S) /\ rest \in Seq(S)
    BY <1>1, <1>2
  <2>. HIDE DEF S
  <2>. QED
    <3>1. /\ Len(Dirs \o rest) = Len(Dirs) + Len(rest)
          /\ \A i \in 1..(Len(Dirs) + Len(rest)) :
                (Dirs \o rest)[i] = IF i <= Len(Dirs) THEN Dirs[i] ELSE rest[i - Len(Dirs)]
      BY <2>1, ConcatProperties
    <3>. QED
      BY <1>1, <1>2, <1>4, <3>1
<1>6. Left \in Nat /\ Left >= 1 /\ Left <= Len(Run) /\ Head(todo) = Run[Len(Run) - Left + 1]
  <2>1. IsEndOf(todo, Run) /\ 1 \in 1..Len(todo)
    BY LeftCounts DEF TodoInv, CallsOf, Left
  <2>. QED
    BY <2>1, LeftCounts DEF IsEndOf, Left
<1>7. ASSUME NEW n \in 1..7, Left = n
      PROVE  Head(todo) = rest[8 - n]
  BY <1>1, <1>5, <1>6, <1>7
<1>8. ASSUME Left > 7
      PROVE  Head(todo) = Dirs[Len(Run) - Left + 1] /\ Head(todo) \in ToSet(Dirs)
  BY <1>1, <1>5, <1>6, <1>8 DEF ToSet
<1>9. /\ Left = 7 => Head(todo) = rest[1]
      /\ Left = 6 => Head(todo) = rest[2]
      /\ Left = 5 => Head(todo) = rest[3]
      /\ Left = 4 => Head(todo) = rest[4]
      /\ Left = 3 => Head(todo) = rest[5]
      /\ Left = 2 => Head(todo) = rest[6]
      /\ Left = 1 => Head(todo) = rest[7]
  BY <1>7
<1>. QED
  BY <1>1, <1>3, <1>5, <1>6, <1>8, <1>9

LEMMA NextOfUninstall ==
    ASSUME TypeOK, TodoInv, todo # <<>>, mode = "Uninstall"
    PROVE  /\ Left <= 5
           /\ Left = 5 => Head(todo) = "dissociate"
           /\ Left = 4 => Head(todo) = "removePath"
           /\ Left = 3 => Head(todo) = "unregister"
           /\ Left = 2 => Head(todo) = "delete"
           /\ Left = 1 => Head(todo) = "complete"
<1>1. Len(Uninstall) = 5
  BY DEF Uninstall
<1>2. /\ Uninstall[1] = "dissociate" /\ Uninstall[2] = "removePath" /\ Uninstall[3] = "unregister"
      /\ Uninstall[4] = "delete" /\ Uninstall[5] = "complete"
  BY DEF Uninstall
<1>3. Left \in Nat /\ Left >= 1 /\ Left <= 5 /\ Head(todo) = Uninstall[5 - Left + 1]
  <2>1. IsEndOf(todo, Uninstall) /\ 1 \in 1..Len(todo)
    BY LeftCounts DEF TodoInv, CallsOf, Left
  <2>. QED
    BY <1>1, <2>1, LeftCounts DEF IsEndOf, Left
<1>4. ASSUME NEW n \in 1..5, Left = n
      PROVE  Head(todo) = Uninstall[6 - n]
  BY <1>3, <1>4
<1>5. /\ Left = 5 => Head(todo) = Uninstall[1]
      /\ Left = 4 => Head(todo) = Uninstall[2]
      /\ Left = 3 => Head(todo) = Uninstall[3]
      /\ Left = 2 => Head(todo) = Uninstall[4]
      /\ Left = 1 => Head(todo) = Uninstall[5]
  BY <1>4
<1>. QED
  BY <1>2, <1>3, <1>5
-----------------------------------------------------------------------------
\* What the code page does to PATH leaves the bin directory where it is.
LEMMA ConvertedIs ==
    ASSUME NEW p \in Seq(Chars)
    PROVE  /\ Converted(p) \in Seq(Chars) /\ Own(Converted(p)) = Own(p)
           /\ Plain(p) => Plain(Converted(p))
<1>1. /\ Converted(p) \in Seq(Chars) /\ Len(Converted(p)) = Len(p)
      /\ \A i \in 1..Len(p) : Converted(p)[i] = Ansi[p[i]] /\ p[i] \in Chars
  BY InstallerAssumption DEF Converted
<1>2. Own(Converted(p)) = Own(p)
  BY <1>1, InstallerAssumption DEF Own
<1>3. ASSUME Plain(p) PROVE Plain(Converted(p))
  <2>1. SUFFICES ASSUME NEW i \in Own(p)
                 PROVE  /\ i = 1 \/ Converted(p)[i - 1] = Sep
                        /\ i = Len(p) \/ Converted(p)[i + 1] = Sep
    BY <1>1, <1>2 DEF Plain
  <2>2. /\ i \in 1..Len(p) /\ Len(p) \in Nat
        /\ i = 1 \/ (i - 1 \in 1..Len(p) /\ p[i - 1] = Sep)
        /\ i = Len(p) \/ (i + 1 \in 1..Len(p) /\ p[i + 1] = Sep)
    BY <1>3 DEF Plain, Own
  <2>. QED
    BY <1>1, <2>2, InstallerAssumption
<1>. QED
  BY <1>1, <1>2, <1>3

\* What the installer reads: nothing, or PATH as the code page has it.
LEMMA ReadIs ==
    ASSUME path \in Seq(Chars)
    PROVE  /\ Read \in Seq(Chars) /\ (IsListed(Read) <=> Own(Read) # {})
           /\ Own(Read) # {} => Own(Read) = Own(path)
           /\ Len(path) <= Buffer => Read = Converted(path) /\ Own(Read) = Own(path)
<1>1. Len(path) > Buffer \/ Len(path) <= Buffer
  BY InstallerAssumption
<1>2. CASE Len(path) > Buffer
  BY <1>2, EmptySeq, InstallerAssumption DEF Read, IsListed, Contains, Own
<1>3. CASE Len(path) <= Buffer
  <2>1. Read = Converted(path)
    BY <1>3, InstallerAssumption DEF Read
  <2>2. IsListed(Read) <=> Own(Read) # {}
    BY <2>1, ConvertedIs DEF IsListed, Contains, Own
  <2>. QED
    BY <2>1, <2>2, ConvertedIs
<1>. QED
  BY <1>1, <1>2, <1>3

LEMMA InitIInv == Init => IInv
<1>. SUFFICES ASSUME Init PROVE IInv
  OBVIOUS
<1>1. session \in 0..Sessions /\ path \in Seq(Chars) /\ ListedOnce
  BY InstallerAssumption DEF Init, ListedOnce
<1>2. TypeOK
  BY <1>1, EmptySeq DEF Init, TypeOK, Keys
<1>. QED
  BY <1>1, <1>2 DEF Init, IInv, TodoInv, InstallInv, RemoveInv, OnItsWay

\* A call that was made is off the list.
LEMMA DoneLeaves ==
    ASSUME IInv, todo # <<>>, Done, UNCHANGED <<running, step, mode>>, ~expanding'
    PROVE  /\ todo' \in Seq(ToSet(Dirs) \union Calls) /\ Left' = Left - 1 /\ TodoInv'
           /\ running /\ step = "Progress" /\ (OnItsWay' => todo' # <<>> /\ OnItsWay)
<1>1. todo' = Tail(todo) /\ todo' \in Seq(ToSet(Dirs) \union Calls) /\ Left' = Left - 1
  BY LeftCounts DEF Done, IInv, Left
<1>2. running /\ step = "Progress" /\ IsEndOf(todo, CallsOf) /\ CallsOf' = CallsOf
  BY DEF IInv, TodoInv, CallsOf
<1>3. \A i \in 1..Len(todo') : todo'[i] = todo[i + 1]
  BY <1>1 DEF IInv, TypeOK
<1>4. IsEndOf(todo', CallsOf)
  BY <1>1, <1>2, <1>3, LeftCounts DEF IsEndOf, IInv, Left
<1>. QED
  BY <1>1, <1>2, <1>4 DEF TodoInv, OnItsWay
\* What the calls do: a call that fails ends the work.
LEMMA FailKeeps ==
    ASSUME IInv, TypeOK', todo' = <<>>, ~expanding', step' = step, step = "Progress", ListedOnce'
    PROVE  IInv'
BY DEF IInv, TodoInv, OnItsWay, InstallInv, RemoveInv

LEMMA WhichCall ==
    ASSUME IInv, todo # <<>>
    PROVE  /\ running /\ step = "Progress" /\ OnItsWay
           /\ Left \in Nat /\ Left >= 1
           /\ expanding => Head(todo) = "expand"
           /\ Head(todo) = "complete" => Left = 1
           /\ Head(todo) \in ToSet(Dirs) =>
                 mode # "Uninstall" /\ Left > 7 /\ Head(todo) = Dirs[Len(Run) - Left + 1]
           /\ Head(todo) = "write" => mode # "Uninstall" /\ Left = 7
           /\ Head(todo) = "expand" => mode # "Uninstall" /\ Left = 6
           /\ Head(todo) = "clean" => mode # "Uninstall" /\ Left = 5
           /\ Head(todo) = "updatePath" => mode # "Uninstall" /\ Left = 4
           /\ Head(todo) = "register" => mode # "Uninstall" /\ Left = 3
           /\ Head(todo) = "associate" => mode # "Uninstall" /\ Left = 2
           /\ Head(todo) = "dissociate" => mode = "Uninstall" /\ Left = 5
           /\ Head(todo) = "removePath" => mode = "Uninstall" /\ Left = 4
           /\ Head(todo) = "unregister" => mode = "Uninstall" /\ Left = 3
           /\ Head(todo) = "delete" => mode = "Uninstall" /\ Left = 2
<1>1. Left \in Nat /\ Left >= 1 /\ running /\ step = "Progress" /\ OnItsWay
      /\ (expanding => Head(todo) = "expand")
  BY LeftCounts DEF IInv, TodoInv, OnItsWay
<1>2. \A c \in Calls : c \notin ToSet(Dirs)
  BY InstallerAssumption
<1>3. CASE mode # "Uninstall"
  <2>1. Left = 7 \/ Left = 6 \/ Left = 5 \/ Left = 4 \/ Left = 3 \/ Left = 2 \/ Left = 1 \/ Left > 7
    BY <1>1
  <2>2. Left > 7 => Head(todo) \notin Calls
    BY <1>2, <1>3, NextOfRun DEF IInv
  <2>. QED
    BY <1>1, <1>2, <1>3, <2>1, <2>2, NextOfRun DEF IInv, Calls
<1>4. CASE mode = "Uninstall"
  <2>1. Left = 5 \/ Left = 4 \/ Left = 3 \/ Left = 2 \/ Left = 1
    BY <1>1, <1>4, NextOfUninstall DEF IInv
  <2>. QED
    BY <1>1, <1>2, <1>4, <2>1, NextOfUninstall DEF IInv, Calls
<1>. QED
  BY <1>3, <1>4

\* A call of run() that succeeded or was passed over.
LEMMA RunCallKeeps ==
    ASSUME IInv, TypeOK', todo # <<>>, mode # "Uninstall", Done,
           UNCHANGED window, ~expanding', ListedOnce', InstallInv'
    PROVE  IInv'
BY DoneLeaves DEF IInv, window, RemoveInv

\* A call of uninstall(), likewise.
LEMMA UninstallCallKeeps ==
    ASSUME IInv, TypeOK', todo # <<>>, mode = "Uninstall", Done,
           UNCHANGED window, ~expanding', ListedOnce', RemoveInv'
    PROVE  IInv'
BY DoneLeaves DEF IInv, window, InstallInv

LEMMA WorkerKeeps ==
    ASSUME IInv, Worker
    PROVE  IInv'
<1>. USE DEF Calling, Succeed, PassOver, Fail, window, registry
<1>1. CASE CreateDirectory
  <2>1. PICK d \in ToSet(Dirs) :
           /\ Calling(d)
           /\ \/ Succeed /\ disk' = disk \union {d}
              \/ Fail /\ UNCHANGED disk
           /\ UNCHANGED <<window, expanding, orphan, registry>>
    BY <1>1 DEF CreateDirectory
  <2>2. todo # <<>> /\ mode # "Uninstall" /\ Left > 7 /\ d = Dirs[Len(Run) - Left + 1] /\ ~expanding
        /\ OnItsWay /\ Left \in Nat /\ Len(Dirs) \in Nat /\ Len(Run) = Len(Dirs) + 7
    BY <2>1, WhichCall, NextOfRun, InstallerAssumption DEF IInv, Calls
  <2>3. ListedOnce'
    BY <2>1 DEF IInv, ListedOnce
  <2>4. CASE Fail /\ UNCHANGED disk
    <3>1. TypeOK'
      BY <2>1, <2>4, EmptySeq DEF IInv, TypeOK
    <3>. QED
      BY <2>1, <2>2, <2>3, <2>4, <3>1, WhichCall, FailKeeps
  <2>5. CASE Succeed /\ disk' = disk \union {d}
    <3>1. TypeOK'
      BY <2>1, <2>2, <2>5, DoneLeaves DEF IInv, TypeOK, Installation
    <3>2. InstallInv'
      BY <2>1, <2>2, <2>5, DoneLeaves DEF IInv, InstallInv
    <3>. QED
      BY <2>1, <2>2, <2>3, <2>5, <3>1, <3>2, RunCallKeeps
  <2>. QED
    BY <2>1, <2>4, <2>5
<1>2. CASE WritePayload
  <2>. USE <1>2 DEF WritePayload
  <2>1. todo # <<>> /\ mode # "Uninstall" /\ Left = 7 /\ ~expanding /\ OnItsWay
    BY WhichCall
  <2>2. Len(Dirs) \in Nat /\ Len(Run) = Len(Dirs) + 7
    BY <2>1, NextOfRun DEF IInv
  <2>3. ListedOnce'
    BY DEF IInv, ListedOnce
  <2>4. CASE Fail /\ UNCHANGED disk
    <3>1. TypeOK'
      BY <2>4, EmptySeq DEF IInv, TypeOK
    <3>. QED
      BY <2>1, <2>3, <2>4, <3>1, WhichCall, FailKeeps
  <2>5. CASE Succeed /\ disk' = disk \union {"payload.zip"}
    <3>1. TypeOK'
      BY <2>1, <2>5, DoneLeaves DEF IInv, TypeOK
    <3>2. InstallInv'
      BY <2>1, <2>2, <2>5, DoneLeaves DEF IInv, InstallInv
    <3>. QED
      BY <2>1, <2>3, <2>5, <3>1, <3>2, RunCallKeeps
  <2>. QED
    BY <2>4, <2>5
<1>3. CASE StartExpanding
  BY <1>3 DEF StartExpanding, IInv, TypeOK, TodoInv, CallsOf, ListedOnce, OnItsWay, InstallInv, RemoveInv, Left
<1>4. CASE Expanded
  <2>. USE <1>4 DEF Expanded
  <2>1. todo # <<>> /\ mode # "Uninstall" /\ Left = 6 /\ ~expanding' /\ OnItsWay
    BY WhichCall DEF IInv, TodoInv
  <2>2. Len(Dirs) \in Nat /\ Len(Run) = Len(Dirs) + 7
    BY <2>1, NextOfRun DEF IInv
  <2>3. ListedOnce'
    BY DEF IInv, ListedOnce
  <2>4. CASE Fail /\ \E some \in SUBSET Parts : disk' = disk \union some
    <3>1. TypeOK'
      BY <2>4, EmptySeq DEF IInv, TypeOK, Installation
    <3>. QED
      BY <2>1, <2>3, <2>4, <3>1, WhichCall, FailKeeps
  <2>5. CASE Succeed /\ disk' = disk \union Parts
    <3>1. TypeOK'
      BY <2>1, <2>5, DoneLeaves DEF IInv, TypeOK, Installation
    <3>2. InstallInv'
      BY <2>1, <2>2, <2>5, DoneLeaves DEF IInv, InstallInv
    <3>. QED
      BY <2>1, <2>3, <2>5, <3>1, <3>2, RunCallKeeps
  <2>. QED
    BY <2>4, <2>5
<1>5. CASE Clean
  <2>. USE <1>5 DEF Clean
  <2>1. todo # <<>> /\ mode # "Uninstall" /\ Left = 5 /\ ~expanding /\ OnItsWay
    BY WhichCall
  <2>2. Len(Dirs) \in Nat /\ Len(Run) = Len(Dirs) + 7
    BY <2>1, NextOfRun DEF IInv
  <2>3. ListedOnce'
    BY DEF IInv, ListedOnce
  <2>4. CASE Fail /\ UNCHANGED disk
    <3>1. TypeOK'
      BY <2>4, EmptySeq DEF IInv, TypeOK
    <3>. QED
      BY <2>1, <2>3, <2>4, <3>1, WhichCall, FailKeeps
  <2>5. CASE Succeed /\ disk' = disk \ {"payload.zip"}
    <3>1. TypeOK'
      BY <2>1, <2>5, DoneLeaves DEF IInv, TypeOK
    <3>2. \A i \in 1..Len(Dirs) : Dirs[i] # "payload.zip"
      BY InstallerAssumption DEF ToSet
    <3>3. InstallInv'
      BY <2>1, <2>2, <2>5, <3>2, DoneLeaves, InstallerAssumption DEF IInv, InstallInv
    <3>. QED
      BY <2>1, <2>3, <2>5, <3>1, <3>3, RunCallKeeps
  <2>. QED
    BY <2>4, <2>5
<1>6. CASE UpdatePath
  <2>. USE <1>6 DEF UpdatePath, Registry
  <2>1. todo # <<>> /\ mode # "Uninstall" /\ Left = 4 /\ ~expanding /\ OnItsWay /\ Done
    BY WhichCall
  <2>2. Len(Dirs) \in Nat /\ Len(Run) = Len(Dirs) + 7
    BY <2>1, NextOfRun DEF IInv
  <2>3. Read \in Seq(Chars) /\ (IsListed(Read) <=> Own(Read) # {})
        /\ (Own(Read) # {} => Own(Read) = Own(path))
    BY ReadIs DEF IInv, TypeOK
  <2>4. \/ UNCHANGED path /\ (add_to_path => disturbed' \/ Own(path') # {})
        \/ path' = Appended(Read) /\ Own(Read) = {}
    BY <2>3
  <2>5. ListedOnce' /\ path' \in Seq(Chars) /\ (add_to_path => disturbed' \/ Own(path') # {})
    BY <2>3, <2>4, AppendedLists DEF IInv, TypeOK, ListedOnce
  <2>6. TypeOK'
    BY <2>1, <2>5, DoneLeaves DEF IInv, TypeOK
  <2>7. InstallInv'
    BY <2>1, <2>2, <2>5, DoneLeaves DEF IInv, InstallInv
  <2>. QED
    BY <2>1, <2>5, <2>6, <2>7, RunCallKeeps
<1>7. CASE RegisterUninstaller \/ AssociateFileExtensions
  <2>. USE <1>7 DEF RegisterUninstaller, AssociateFileExtensions, Registry
  <2>1. todo # <<>> /\ mode # "Uninstall" /\ Left \in {2, 3} /\ ~expanding /\ OnItsWay /\ Done
    BY WhichCall
  <2>2. Len(Dirs) \in Nat /\ Len(Run) = Len(Dirs) + 7
    BY <2>1, NextOfRun DEF IInv
  <2>3. ListedOnce'
    BY DEF IInv, ListedOnce
  <2>4. TypeOK'
    <3>1. registered' \in BOOLEAN /\ disturbed' \in BOOLEAN
      BY DEF IInv, TypeOK
    <3>2. associated' \subseteq Keys
      BY DEF IInv, TypeOK, Keys
    <3>3. todo' \in Seq(ToSet(Dirs) \union Calls)
      BY <2>1, DoneLeaves
    <3>. QED
      BY <3>1, <3>2, <3>3 DEF IInv, TypeOK
  <2>5. InstallInv'
    BY <2>1, <2>2, WhichCall, DoneLeaves DEF IInv, InstallInv
  <2>. QED
    BY <2>1, <2>3, <2>4, <2>5, RunCallKeeps
<1>8. CASE RemoveFileAssociations \/ UnregisterUninstaller
  <2>. USE <1>8 DEF RemoveFileAssociations, UnregisterUninstaller, Registry
  <2>1. todo # <<>> /\ mode = "Uninstall" /\ Left \in {3, 5} /\ ~expanding /\ OnItsWay /\ Done
    BY WhichCall
  <2>3. ListedOnce'
    BY DEF IInv, ListedOnce
  <2>4. TypeOK'
    <3>1. registered' \in BOOLEAN /\ disturbed' \in BOOLEAN
      BY DEF IInv, TypeOK
    <3>2. associated' \subseteq Keys
      BY DEF IInv, TypeOK
    <3>3. todo' \in Seq(ToSet(Dirs) \union Calls)
      BY <2>1, DoneLeaves
    <3>. QED
      BY <3>1, <3>2, <3>3 DEF IInv, TypeOK
  <2>5. RemoveInv'
    BY <2>1, WhichCall, DoneLeaves DEF IInv, RemoveInv
  <2>. QED
    BY <2>1, <2>3, <2>4, <2>5, UninstallCallKeeps
<1>9. CASE RemovePath
  <2>. USE <1>9 DEF RemovePath, Registry
  <2>1. todo # <<>> /\ mode = "Uninstall" /\ Left = 4 /\ ~expanding /\ OnItsWay /\ Done
    BY WhichCall
  <2>3. Read \in Seq(Chars) /\ (IsListed(Read) <=> Own(Read) # {})
        /\ (Own(Read) # {} => Own(Read) = Own(path))
        /\ (Len(path) <= Buffer => Own(Read) = Own(path))
    BY ReadIs DEF IInv, TypeOK
  <2>4. \/ UNCHANGED path /\ (disturbed' \/ Own(Read) = {})
        \/ path' = Erased(Read) /\ Own(Read) # {}
    BY <2>3
  <2>5. ListedOnce' /\ path' \in Seq(Chars) /\ (Len(path') <= Buffer => disturbed' \/ Own(path') = {})
    BY <2>3, <2>4, ErasedForgets DEF IInv, TypeOK, ListedOnce
  <2>6. TypeOK'
    BY <2>1, <2>5, DoneLeaves DEF IInv, TypeOK
  <2>7. RemoveInv'
    BY <2>1, <2>5, DoneLeaves DEF IInv, RemoveInv
  <2>. QED
    BY <2>1, <2>5, <2>6, <2>7, UninstallCallKeeps
<1>10. CASE DeleteFiles
  <2>. USE <1>10 DEF DeleteFiles
  <2>1. todo # <<>> /\ mode = "Uninstall" /\ Left = 2 /\ ~expanding /\ OnItsWay /\ Done
    BY WhichCall
  <2>3. ListedOnce'
    BY DEF IInv, ListedOnce
  <2>4. TypeOK'
    BY <2>1, DoneLeaves DEF IInv, TypeOK
  <2>5. RemoveInv'
    BY <2>1, DoneLeaves DEF IInv, RemoveInv
  <2>. QED
    BY <2>1, <2>3, <2>4, <2>5, UninstallCallKeeps
<1>11. CASE Complete
  <2>. USE <1>11 DEF Complete
  <2>1. todo # <<>> /\ Left = 1 /\ ~expanding /\ OnItsWay
    BY WhichCall
  <2>2. todo' = <<>> /\ Left' = 0
    BY <2>1, LeftCounts DEF IInv, Done, Left
  <2>3. TypeOK'
    BY <2>2, EmptySeq DEF IInv, TypeOK
  <2>4. InstallInv' /\ RemoveInv'
    BY <2>1, <2>2, NextOfRun DEF IInv, InstallInv, RemoveInv
  <2>. QED
    BY <2>1, <2>2, <2>3, <2>4 DEF IInv, TodoInv, ListedOnce
<1>. QED
  BY <1>1, <1>2, <1>3, <1>4, <1>5, <1>6, <1>7, <1>8, <1>9, <1>10, <1>11 DEF Worker
-----------------------------------------------------------------------------
\* The two lists of calls, whole.
LEMMA WholeLists ==
    /\ Run \in Seq(ToSet(Dirs) \union Calls) /\ Len(Dirs) \in Nat
    /\ Len(Run) = Len(Dirs) + 7 /\ Run # <<>>
    /\ Uninstall \in Seq(ToSet(Dirs) \union Calls) /\ Len(Uninstall) = 5 /\ Uninstall # <<>>
    /\ IsEndOf(Run, Run) /\ IsEndOf(Uninstall, Uninstall)
<1>. DEFINE rest == <<"write", "expand", "clean", "updatePath", "register", "associate", "complete">>
            S == ToSet(Dirs) \union Calls
<1>1. Dirs \in Seq(S) /\ Len(Dirs) \in Nat
  BY InstallerAssumption
<1>2. rest \in Seq(S) /\ Len(rest) = 7
  BY DEF Calls
<1>3. Uninstall \in Seq(S) /\ Len(Uninstall) = 5 /\ Uninstall # <<>>
  BY DEF Uninstall, Calls
<1>. HIDE DEF rest
<1>4. Run \in Seq(S) /\ Len(Run) = Len(Dirs) + 7
  <2>1. Run = Dirs \o rest
    BY DEF Run, rest
  <2>. HIDE DEF S
  <2>2. Dirs \o rest \in Seq(S) /\ Len(Dirs \o rest) = Len(Dirs) + Len(rest)
    BY <1>1, <1>2, ConcatProperties
  <2>. QED
    BY <1>2, <2>1, <2>2
<1>5. Run # <<>> /\ IsEndOf(Run, Run) /\ IsEndOf(Uninstall, Uninstall)
  <2>. HIDE DEF S
  <2>. QED
    BY <1>1, <1>3, <1>4 DEF IsEndOf
<1>. QED
  BY <1>1, <1>3, <1>4, <1>5

\* The button that starts the worker.
LEMMA WorkStarts ==
    ASSUME IInv, running, Clicked, ~expanding,
           \/ mode' \in {"Install", "Repair"} /\ todo' = Run
           \/ mode' = "Uninstall" /\ todo' = Uninstall,
           step' = "Progress", UNCHANGED add_to_path
    PROVE  IInv'
<1>1. TypeOK'
  BY WholeLists DEF IInv, TypeOK, Clicked, registry
<1>2. ListedOnce'
  BY DEF IInv, ListedOnce, Clicked, registry
<1>3. TodoInv'
  BY WholeLists DEF TodoInv, CallsOf, Clicked
<1>4. InstallInv'
  <2>. SUFFICES ASSUME mode' # "Uninstall" PROVE InstallInv'
    BY DEF InstallInv
  <2>1. Left' = Len(Dirs) + 7 /\ Len(Run) - Left' = 0 /\ Left' >= 7 /\ Len(Dirs) \in Nat
    BY WholeLists DEF Left
  <2>. QED
    BY <2>1 DEF InstallInv
<1>5. RemoveInv'
  <2>. SUFFICES ASSUME mode' = "Uninstall" PROVE RemoveInv'
    BY DEF RemoveInv
  <2>1. Left' = 5
    BY WholeLists DEF Left
  <2>. QED
    BY <2>1 DEF RemoveInv
<1>. QED
  BY <1>1, <1>2, <1>3, <1>4, <1>5 DEF IInv

LEMMA WindowKeeps ==
    ASSUME IInv, Window
    PROVE  IInv'
<1>1. running /\ step # "Progress" /\ step # "Completion" /\ todo = <<>> /\ ~expanding
  BY DEF Window, InstallNow, Customize, Modify, ToggleAddToPath, Repair, RemoveAll, Back,
         IInv, TodoInv
<1>2. CASE InstallNow \/ Repair \/ RemoveAll
  BY <1>1, <1>2, WorkStarts DEF InstallNow, Repair, RemoveAll, Work, IInv, TypeOK
<1>3. CASE Customize \/ Modify \/ ToggleAddToPath \/ Back
  <2>1. /\ Clicked /\ UNCHANGED <<mode, todo>> /\ add_to_path' \in BOOLEAN
        /\ step' \in {"Welcome", "Maintenance", "Options"}
    BY <1>1, <1>3 DEF Customize, Modify, ToggleAddToPath, Back, Go, IInv, TypeOK
  <2>2. TypeOK'
    BY <2>1 DEF IInv, TypeOK, Clicked, registry
  <2>. QED
    BY <1>1, <2>1, <2>2 DEF IInv, TodoInv, ListedOnce, InstallInv, RemoveInv, OnItsWay, Clicked, registry
<1>. QED
  BY <1>2, <1>3 DEF Window

\* The end of a session, what it leaves running, and the next one.
LEMMA SessionsKeep ==
    ASSUME IInv, Quit \/ OrphanExpands \/ Start
    PROVE  IInv'
<1>1. CASE Quit
  BY <1>1, EmptySeq DEF Quit, registry, IInv, TypeOK, TodoInv, ListedOnce, InstallInv, RemoveInv, OnItsWay
<1>2. CASE OrphanExpands
  <2>1. PICK some \in SUBSET Installation : disk' = disk \union some
    BY <1>2 DEF OrphanExpands
  <2>2. "payload.zip" \notin some
    BY <2>1, InstallerAssumption DEF Installation
  <2>3. /\ UNCHANGED <<session, running, step, mode, add_to_path, has_error, todo, expanding,
                       path, registered, associated>>
        /\ disturbed' = TRUE /\ orphan' \in BOOLEAN
    BY <1>2 DEF OrphanExpands, window, registry
  <2>4. TypeOK'
    BY <2>1, <2>3 DEF IInv, TypeOK
  <2>5. TodoInv' /\ ListedOnce' /\ OnItsWay' = OnItsWay /\ Left' = Left
    BY <2>3 DEF IInv, TodoInv, ListedOnce, CallsOf, OnItsWay, Left
  <2>6. InstallInv'
    BY <2>1, <2>2, <2>3, <2>5 DEF IInv, InstallInv
  <2>7. RemoveInv'
    BY <2>3, <2>5 DEF IInv, RemoveInv
  <2>. QED
    BY <2>3, <2>4, <2>5, <2>6, <2>7 DEF IInv
<1>3. CASE Start
  <2>1. todo = <<>> /\ ~expanding
    BY <1>3 DEF Start, IInv, TodoInv
  <2>2. session' \in 0..Sessions
    BY <1>3, InstallerAssumption DEF Start, IInv, TypeOK
  <2>3. TypeOK'
    BY <1>3, <2>2 DEF Start, registry, IInv, TypeOK
  <2>. QED
    BY <1>3, <2>1, <2>3 DEF Start, registry, IInv, TodoInv, ListedOnce, InstallInv, RemoveInv, OnItsWay
<1>. QED
  BY <1>1, <1>2, <1>3

LEMMA NextIInv == IInv /\ [Next]_vars => IInv'
<1>. SUFFICES ASSUME IInv, [Next]_vars PROVE IInv'
  OBVIOUS
<1>1. CASE Next
  BY <1>1, WorkerKeeps, WindowKeeps, SessionsKeep DEF Next
<1>2. CASE UNCHANGED vars
  <2>1. UNCHANGED <<session, running, step, mode, add_to_path, has_error, todo, expanding, orphan,
                    disk, path, registered, associated, disturbed>>
    BY <1>2 DEF vars, window, registry
  <2>. QED
    BY <2>1 DEF IInv, TypeOK, TodoInv, CallsOf, ListedOnce, OnItsWay, InstallInv, RemoveInv, Left
<1>. QED
  BY <1>1, <1>2

LEMMA Invariance == Spec => []IInv
BY InitIInv, NextIInv, PTL DEF Spec
-----------------------------------------------------------------------------
\* When complete() has put up the last page (engine.cpp), what the page says is
\* so: after run() every directory and file of the payload is there and the
\* archive is not, and, unless a call failed and was passed over, Druk is
\* registered and on PATH if that was asked for; after uninstall() nothing is left.
THEOREM PageIsTrue == Spec => []CompletionIsTrue
<1>1. IInv => CompletionIsTrue
  <2>. SUFFICES ASSUME IInv, running, step = "Completion"
       PROVE CompletionIsTrue
    BY DEF CompletionIsTrue
  <2>1. todo = <<>> /\ Left = 0 /\ OnItsWay
    BY LeftCounts DEF IInv, OnItsWay
  <2>2. CASE mode = "Uninstall"
    BY <2>1, <2>2 DEF IInv, RemoveInv, CompletionIsTrue
  <2>3. CASE mode # "Uninstall"
    <3>1. \A i \in 1..Len(Dirs) : Dirs[i] \in disk
      BY <2>1, <2>3, WholeLists DEF IInv, InstallInv
    <3>2. ToSet(Dirs) \subseteq disk
      BY <3>1, InstallerAssumption DEF ToSet
    <3>3. disk = Installation
      BY <2>1, <2>3, <3>2 DEF IInv, TypeOK, InstallInv, Installation
    <3>. QED
      BY <2>1, <2>3, <3>3 DEF IInv, InstallInv, CompletionIsTrue
  <2>. QED
    BY <2>2, <2>3
<1>. QED
  BY <1>1, Invariance, PTL

\* What a step that changes PATH makes of it.
LEMMA PathSteps ==
    ASSUME IInv, [Next]_vars, path' # path
    PROVE  /\ Read \in Seq(Chars) /\ (Own(Read) # {} => Own(Read) = Own(path))
           /\ \/ path' = Appended(Read) /\ Own(Read) = {}
              \/ path' = Erased(Read) /\ Own(Read) # {}
<1>1. UpdatePath \/ RemovePath
  BY DEF Next, vars, window, registry, Worker, CreateDirectory, WritePayload, StartExpanding,
         Expanded, Clean, Registry, RegisterUninstaller, UnregisterUninstaller,
         AssociateFileExtensions, RemoveFileAssociations, DeleteFiles, Complete, Window, InstallNow,
         Customize, Modify, ToggleAddToPath, Repair, RemoveAll, Back, Clicked, Quit, OrphanExpands, Start
<1>2. Read \in Seq(Chars) /\ (IsListed(Read) <=> Own(Read) # {})
      /\ (Own(Read) # {} => Own(Read) = Own(path))
  BY ReadIs DEF IInv, TypeOK
<1>3. \/ path' = Appended(Read) /\ Own(Read) = {}
      \/ path' = Erased(Read) /\ Own(Read) # {}
  BY <1>1, <1>2 DEF UpdatePath, RemovePath
<1>. QED
  BY <1>2, <1>3

\* What has been read of a PATH of the characters U.
Reading(U) == Seq(Seq(U)) \X Seq(U)

LEMMA SplitReads ==
    ASSUME NEW U, NEW s \in Reading(U), NEW c \in U
    PROVE  Split(s, c) \in Reading(U)
<1>1. s[1] \in Seq(Seq(U)) /\ s[2] \in Seq(U)
  BY DEF Reading
<1>2. Ended(s) \in Seq(Seq(U))
  <2>1. Append(s[1], s[2]) \in Seq(Seq(U))
    BY <1>1, AppendProperties, Zenon
  <2>. QED
    BY <1>1, <2>1 DEF Ended
<1>3. <<>> \in Seq(U) /\ Append(s[2], c) \in Seq(U)
  BY <1>1
<1>. QED
  BY <1>1, <1>2, <1>3 DEF Split, Reading

\* The recursion of Scan.
LEMMA ScanIs ==
    ASSUME NEW p
    PROVE  /\ Scan(p)[0] = <<<<>>, <<>>>>
           /\ \A n \in Nat : Scan(p)[n + 1] = Split(Scan(p)[n], p[n + 1])
<1>. DEFINE U == {p[i] : i \in Nat}
            S == Reading(U)
            a == <<<<>>, <<>>>>
            G == [x \in S \X Nat |-> Split(x[1], p[x[2] + 1])]
<1>1. G \in [S \X Nat -> S]
  <2>1. ASSUME NEW s \in S, NEW n \in Nat
        PROVE  Split(s, p[n + 1]) \in S
    <3>1. p[n + 1] \in U
      OBVIOUS
    <3>. HIDE DEF U
    <3>. QED
      BY <3>1, SplitReads
  <2>. HIDE DEF S
  <2>. QED
    BY <2>1
<1>2. \A x \in S, n \in Nat : G[<<x, n>>] = Split(x, p[n + 1])
  OBVIOUS
<1>3. a \in S
  <2>1. <<>> \in Seq(Seq(U)) /\ <<>> \in Seq(U)
    OBVIOUS
  <2>. QED
    BY <2>1 DEF Reading
<1>. HIDE DEF S, G, a
<1>4. PICK f \in [Nat -> S] : IsRecursion(f, a, G)
  BY <1>1, <1>3, RecursionExists
<1>5. f[0] = a /\ \A n \in Nat : f[n + 1] = Split(f[n], p[n + 1])
  BY <1>2, <1>4 DEF IsRecursion
<1>6. ASSUME NEW n \in Nat
      PROVE  f[n] = IF n = 0 THEN a ELSE Split(f[n - 1], p[n])
  <2>1. CASE n = 0
    BY <1>5, <2>1
  <2>2. CASE n # 0
    <3>1. n - 1 \in Nat /\ (n - 1) + 1 = n
      BY <2>2
    <3>. QED
      BY <1>5, <2>2, <3>1
  <2>. QED
    BY <2>1, <2>2
<1>7. f = [n \in Nat |-> IF n = 0 THEN a ELSE Split(f[n - 1], p[n])]
  BY <1>4, <1>6
<1>8. Scan(p) = CHOOSE g : g = [n \in Nat |-> IF n = 0 THEN a ELSE Split(g[n - 1], p[n])]
  BY DEF Scan, a
<1>. DEFINE h == Scan(p)
<1>9. h = [n \in Nat |-> IF n = 0 THEN a ELSE Split(h[n - 1], p[n])]
  BY <1>7, <1>8, Zenon
<1>. HIDE DEF h
<1>10. ASSUME NEW n \in Nat
       PROVE  h[n + 1] = Split(h[n], p[n + 1])
  <2>1. n + 1 \in Nat /\ n + 1 # 0 /\ (n + 1) - 1 = n
    OBVIOUS
  <2>. QED
    BY <1>9, <2>1
<1>. QED
  BY <1>9, <1>10 DEF h, a

\* Two PATHs that go on alike from where they have been read alike.
GoOnAlike(p, q, d, k, n) ==
    k <= n /\ Scan(q)[k] = Scan(p)[d + k] /\ \A i \in (k + 1)..n : q[i] = p[d + i]

LEMMA ScansAgree ==
    ASSUME NEW p, NEW q, NEW d \in Nat, NEW k \in Nat, NEW n \in Nat, GoOnAlike(p, q, d, k, n)
    PROVE  Scan(q)[n] = Scan(p)[d + n]
<1>. DEFINE f == Scan(p)
            g == Scan(q)
            T == {i \in Nat : k <= i /\ i <= n => g[i] = f[d + i]}
<1>1. \A i \in Nat : f[i + 1] = Split(f[i], p[i + 1])
  BY ScanIs
<1>2. \A i \in Nat : g[i + 1] = Split(g[i], q[i + 1])
  BY ScanIs
<1>3. k <= n /\ g[k] = f[d + k] /\ \A i \in (k + 1)..n : q[i] = p[d + i]
  BY DEF GoOnAlike
<1>. HIDE DEF f, g
<1>4. 0 \in T
  BY <1>3
<1>5. ASSUME NEW i \in Nat, i \in T
      PROVE  i + 1 \in T
  <2>1. SUFFICES ASSUME k <= i + 1, i + 1 <= n PROVE g[i + 1] = f[d + (i + 1)]
    OBVIOUS
  <2>2. CASE k = i + 1
    BY <1>3, <2>2
  <2>3. CASE k <= i
    <3>1. g[i] = f[d + i] /\ i + 1 \in (k + 1)..n /\ d + i \in Nat /\ d + (i + 1) = (d + i) + 1
      BY <1>5, <2>1, <2>3
    <3>2. q[i + 1] = p[(d + i) + 1]
      BY <1>3, <3>1
    <3>. QED
      BY <1>1, <1>2, <3>1, <3>2
  <2>. QED
    BY <2>1, <2>2, <2>3
<1>. HIDE DEF T
<1>6. n \in T
  BY <1>4, <1>5, NatClosed
<1>. QED
  BY <1>3, <1>6 DEF T, f, g

LEMMA ScansBeginAlike ==
    ASSUME NEW p, NEW q, NEW n \in Nat, \A i \in 1..n : q[i] = p[i]
    PROVE  Scan(q)[n] = Scan(p)[n]
<1>. DEFINE f == Scan(p)
            g == Scan(q)
<1>1. f[0] = g[0]
  BY ScanIs
<1>2. PICK z \in Nat : z = 0
  OBVIOUS
<1>. HIDE DEF f, g
<1>3. g[z] = f[z + z]
  BY <1>1, <1>2
<1>4. \A i \in (z + 1)..n : q[i] = p[z + i]
  BY <1>2
<1>5. g[n] = f[z + n]
  <2>1. GoOnAlike(p, q, z, z, n)
    BY <1>2, <1>3, <1>4 DEF GoOnAlike, f, g
  <2>. QED
    BY <2>1, ScansAgree DEF f, g
<1>. QED
  BY <1>2, <1>5 DEF f, g

\* Druk's entry, and an empty one, come and go without a trace.
LEMMA OwnEntry ==
    ASSUME NEW s, NEW d
    PROVE  /\ Split(s, Sep) = <<Ended(s), <<>>>>
           /\ Ended(<<d, <<>>>>) = d
           /\ Split(<<d, <<>>>>, "D") = <<d, <<"D">>>>
           /\ Ended(<<d, <<"D">>>>) = d
           /\ Split(<<d, <<"D">>>>, Sep) = <<d, <<>>>>
<1>1. "D" # Sep
  BY Zenon DEF Sep
<1>2. Contains(<<"D">>, "D")
  BY DEF Contains
<1>3. Append(<<>>, "D") = <<"D">>
  OBVIOUS
<1>4. Split(s, Sep) = <<Ended(s), <<>>>>
  BY DEF Split
<1>5. Ended(<<d, <<>>>>) = d
  BY DEF Ended
<1>6. Split(<<d, <<>>>>, "D") = <<d, <<"D">>>>
  BY <1>1, <1>3 DEF Split
<1>7. Ended(<<d, <<"D">>>>) = d
  BY <1>2 DEF Ended
<1>8. Split(<<d, <<"D">>>>, Sep) = <<d, <<>>>>
  BY <1>7 DEF Split
<1>. QED
  BY <1>4, <1>5, <1>6, <1>7, <1>8

LEMMA AppendedKeepsOthers ==
    ASSUME NEW p \in Seq(Chars)
    PROVE  Others(Appended(p)) = Others(p)
<1>. DEFINE q == Appended(p)
            n == Len(p)
            f == Scan(p)
            g == Scan(q)
<1>1. n \in Nat /\ Others(p) = Ended(f[n]) /\ Others(q) = Ended(g[Len(q)])
  BY DEF Others
<1>2. f[0] = <<<<>>, <<>>>> /\ \A i \in Nat : f[i + 1] = Split(f[i], p[i + 1])
  BY ScanIs
<1>3. g[0] = <<<<>>, <<>>>> /\ \A i \in Nat : g[i + 1] = Split(g[i], q[i + 1])
  BY ScanIs
<1>4. g[n] = f[n]
  <2>1. \A i \in 1..n : q[i] = p[i]
    BY DEF Appended
  <2>. HIDE DEF q, n
  <2>. QED
    BY <1>1, <2>1, ScansBeginAlike
<1>5. CASE p = <<>> \/ Last(p) = Sep
  <2>1. Len(q) = n + 1 /\ q[n + 1] = "D"
    <3>1. q = p \o <<"D">>
      BY <1>5 DEF Appended
    <3>. QED
      BY <1>1, <3>1
  <2>2. \E d : f[n] = <<d, <<>>>>
    <3>1. CASE p = <<>>
      BY <1>2, <3>1
    <3>2. CASE p # <<>>
      <4>1. n - 1 \in Nat /\ (n - 1) + 1 = n /\ p[n] = Sep
        BY <1>5, <3>2 DEF Last
      <4>. HIDE DEF n, f
      <4>2. f[n] = Split(f[n - 1], Sep)
        BY <1>2, <4>1
      <4>3. f[n] = <<Ended(f[n - 1]), <<>>>>
        BY <4>2, OwnEntry
      <4>. QED
        BY <4>3, Zenon
    <3>. QED
      BY <3>1, <3>2
  <2>3. PICK d : f[n] = <<d, <<>>>>
    BY <2>2
  <2>. HIDE DEF f, g, n, q
  <2>4. g[n + 1] = <<d, <<"D">>>>
    <3>1. g[n + 1] = Split(g[n], q[n + 1])
      BY ONLY <1>1, <1>3
    <3>2. g[n] = <<d, <<>>>> /\ q[n + 1] = "D"
      BY ONLY <1>4, <2>1, <2>3
    <3>3. Split(<<d, <<>>>>, "D") = <<d, <<"D">>>>
      BY OwnEntry
    <3>. QED
      BY ONLY <3>1, <3>2, <3>3
  <2>. QED
    BY <1>1, <2>1, <2>3, <2>4, OwnEntry DEF q
<1>6. CASE ~(p = <<>> \/ Last(p) = Sep)
  <2>1. Len(q) = (n + 1) + 1 /\ q[n + 1] = Sep /\ q[(n + 1) + 1] = "D"
    <3>1. q = Append(p, Sep) \o <<"D">>
      BY <1>6 DEF Appended
    <3>2. Append(p, Sep) \in Seq(Chars) /\ Len(Append(p, Sep)) = n + 1 /\ Append(p, Sep)[n + 1] = Sep
      BY InstallerAssumption
    <3>. QED
      BY <1>1, <3>1, <3>2
  <2>. HIDE DEF f, g, n, q
  <2>2. g[n + 1] = <<Ended(f[n]), <<>>>>
    BY <1>1, <1>3, <1>4, <2>1, OwnEntry
  <2>3. g[(n + 1) + 1] = <<Ended(f[n]), <<"D">>>>
    <3>1. n + 1 \in Nat
      BY <1>1
    <3>. QED
      BY <1>3, <2>1, <2>2, <3>1, OwnEntry
  <2>. QED
    BY <1>1, <2>1, <2>3, OwnEntry DEF q
<1>. QED
  BY <1>5, <1>6

\* A PATH without the characters between two places.
LEMMA CutIs ==
    ASSUME NEW p \in Seq(Chars), NEW a \in 0..Len(p), NEW b \in (a + 1)..(Len(p) + 1)
    PROVE  LET q == SubSeq(p, 1, a) \o SubSeq(p, b, Len(p))
           IN  /\ Len(q) = a + (Len(p) - b + 1)
               /\ \A i \in 1..a : q[i] = p[i]
               /\ \A i \in (a + 1)..Len(q) : q[i] = p[(b - 1 - a) + i]
<1>. DEFINE s == SubSeq(p, 1, a)
            t == SubSeq(p, b, Len(p))
<1>0. Len(p) \in Nat /\ DOMAIN p = 1..Len(p)
  OBVIOUS
<1>1. s \in Seq(Chars) /\ Len(s) = a /\ \A i \in 1..a : s[i] = p[i]
  BY <1>0
<1>2. t \in Seq(Chars) /\ Len(t) = Len(p) - b + 1 /\ \A i \in 1..Len(t) : t[i] = p[b + i - 1]
  BY <1>0
<1>. HIDE DEF s, t
<1>3. /\ Len(s \o t) = Len(s) + Len(t)
      /\ \A i \in 1..(Len(s) + Len(t)) : (s \o t)[i] = IF i <= Len(s) THEN s[i] ELSE t[i - Len(s)]
  BY <1>1, <1>2, ConcatProperties
<1>4. Len(s \o t) = a + (Len(p) - b + 1) /\ \A i \in 1..a : (s \o t)[i] = p[i]
  BY <1>0, <1>1, <1>2, <1>3
<1>5. ASSUME NEW i \in (a + 1)..Len(s \o t)
      PROVE  (s \o t)[i] = p[(b - 1 - a) + i]
  <2>1. i \in 1..(Len(s) + Len(t)) /\ ~(i <= Len(s)) /\ i - Len(s) \in 1..Len(t)
    BY <1>0, <1>1, <1>2, <1>4
  <2>2. (s \o t)[i] = t[i - Len(s)] /\ t[i - Len(s)] = p[b + (i - Len(s)) - 1]
    BY <1>2, <1>3, <2>1
  <2>3. b + (i - Len(s)) - 1 = (b - 1 - a) + i
    BY <1>0, <1>1, <2>1
  <2>. QED
    BY <2>2, <2>3
<1>. QED
  BY <1>4, <1>5 DEF s, t

LEMMA ErasedKeepsOthers ==
    ASSUME NEW p \in Seq(Chars), Own(p) # {}, Plain(p)
    PROVE  Others(Erased(p)) = Others(p)
<1>. DEFINE pos == CHOOSE i \in DOMAIN p : p[i] = "D" /\ \A j \in 1..(i - 1) : p[j] # "D"
            n == Len(p)
            q == Erased(p)
            f == Scan(p)
            g == Scan(q)
            none == <<>>
<1>. SUFFICES Others(q) = Others(p)
  OBVIOUS
<1>0. n \in Nat /\ DOMAIN p = 1..n
  OBVIOUS
<1>1. pos \in 1..n /\ p[pos] = "D"
  <2>. DEFINE T == {i \in Own(p) : TRUE}
  <2>1. T \in SUBSET Nat /\ T # {}
    BY <1>0 DEF Own
  <2>2. PICK m \in T : \A x \in T : m <= x
    BY <2>1, MinIs
  <2>3. m \in 1..n /\ p[m] = "D"
    BY <1>0 DEF Own
  <2>4. ASSUME NEW j \in 1..(m - 1), p[j] = "D"
        PROVE  FALSE
    <3>1. j \in 1..n /\ ~(m <= j)
      BY <1>0, <2>3
    <3>2. j \in T
      BY <1>0, <2>4, <3>1 DEF Own
    <3>. QED
      BY <2>2, <3>1, <3>2
  <2>. HIDE DEF T
  <2>. QED
    BY <1>0, <2>3, <2>4
<1>2. (pos = 1 \/ p[pos - 1] = Sep) /\ (pos = n \/ p[pos + 1] = Sep)
  BY <1>0, <1>1 DEF Plain, Own
<1>3. q = IF pos > 1 /\ p[pos - 1] = Sep THEN SubSeq(p, 1, pos - 2) \o SubSeq(p, pos + 1, n)
       ELSE IF pos < n /\ p[pos + 1] = Sep THEN SubSeq(p, 1, pos - 1) \o SubSeq(p, pos + 2, n)
       ELSE SubSeq(p, 1, pos - 1) \o SubSeq(p, pos + 1, n)
  BY DEF Erased
<1>4. Others(p) = Ended(f[n]) /\ Others(q) = Ended(g[Len(q)])
  BY DEF Others
<1>5. f[0] = <<none, <<>>>> /\ \A i \in Nat : f[i + 1] = Split(f[i], p[i + 1])
  BY ScanIs
<1>6. g[0] = <<none, <<>>>> /\ \A i \in Nat : g[i + 1] = Split(g[i], q[i + 1])
  BY ScanIs
<1>7. \A k \in Nat : (\A i \in 1..k : q[i] = p[i]) => g[k] = f[k]
  BY ScansBeginAlike
<1>. HIDE DEF pos, n, q, f, g, none
<1>8. PICK two \in Nat : two = 2
  OBVIOUS
<1>9. ASSUME NEW k \in Nat, NEW m \in Nat, k <= m, g[k] = f[two + k], \A i \in (k + 1)..m : q[i] = p[two + i]
      PROVE  g[m] = f[two + m]
  <2>1. GoOnAlike(p, q, two, k, m)
    BY <1>9 DEF GoOnAlike, f, g
  <2>. QED
    BY <2>1, ScansAgree DEF f, g
<1>10. CASE pos > 1
  <2>. DEFINE k == pos - 2
              e == Ended(f[k])
  <2>1. k \in Nat /\ pos = k + 2 /\ pos = (k + 1) + 1 /\ k + 1 \in Nat /\ p[k + 1] = Sep
    BY <1>0, <1>1, <1>2, <1>10
  <2>2. Len(q) = n - 2 /\ (\A i \in 1..k : q[i] = p[i]) /\ \A i \in (k + 1)..(n - 2) : q[i] = p[2 + i]
    <3>1. q = SubSeq(p, 1, k) \o SubSeq(p, pos + 1, n)
      <4>1. pos > 1 /\ p[pos - 1] = Sep
        BY <1>1, <1>2, <1>10
      <4>. QED
        BY <1>3, <4>1, Zenon
    <3>2. k \in 0..n /\ pos + 1 \in (k + 1)..(n + 1)
      BY <1>0, <1>1, <1>10
    <3>3. /\ Len(q) = k + (n - (pos + 1) + 1)
          /\ \A i \in 1..k : q[i] = p[i]
          /\ \A i \in (k + 1)..Len(q) : q[i] = p[((pos + 1) - 1 - k) + i]
      BY <3>1, <3>2, CutIs DEF n
    <3>4. Len(q) = n - 2 /\ (pos + 1) - 1 - k = 2
      BY <1>0, <1>1, <3>3
    <3>. QED
      BY <3>3, <3>4
  <2>. HIDE DEF k
  <2>3. g[k] = f[k]
    BY <1>7, <2>1, <2>2
  <2>4. f[k + 1] = <<e, <<>>>>
    BY <1>5, <2>1, OwnEntry
  <2>5. f[(k + 1) + 1] = <<e, <<"D">>>>
    <3>1. f[(k + 1) + 1] = Split(f[k + 1], p[(k + 1) + 1]) /\ p[(k + 1) + 1] = "D"
      BY <1>1, <1>5, <2>1
    <3>2. Split(<<e, <<>>>>, "D") = <<e, <<"D">>>>
      BY OwnEntry
    <3>. QED
      BY <2>4, <3>1, <3>2
  <2>6. CASE pos = n
    <3>1. Ended(f[n]) = e /\ Ended(g[Len(q)]) = e
      <4>1. n = (k + 1) + 1 /\ Len(q) = k
        BY <2>1, <2>2, <2>6
      <4>2. Ended(<<e, <<"D">>>>) = e
        BY OwnEntry
      <4>. HIDE DEF e
      <4>3. Ended(f[n]) = e
        BY <2>5, <4>1, <4>2
      <4>. QED
        BY <2>3, <4>1, <4>3 DEF e
    <3>. QED
      BY <1>4, <3>1
  <2>7. CASE pos # n
    <3>1. p[((k + 1) + 1) + 1] = Sep /\ (k + 1) + 1 \in Nat /\ k + 1 \in (k + 1)..(n - 2) /\ n - 2 \in Nat
      BY <1>0, <1>1, <1>2, <2>1, <2>7
    <3>2. q[k + 1] = Sep
      <4>1. q[k + 1] = p[2 + (k + 1)] /\ 2 + (k + 1) = ((k + 1) + 1) + 1
        BY <2>1, <2>2, <3>1
      <4>. QED
        BY <3>1, <4>1
    <3>3. g[k + 1] = <<e, <<>>>>
      BY <1>6, <2>1, <2>3, <3>2, OwnEntry
    <3>4. f[((k + 1) + 1) + 1] = <<e, <<>>>>
      BY <1>5, <2>5, <3>1, OwnEntry
    <3>5. g[k + 1] = f[two + (k + 1)]
      <4>1. two + (k + 1) = ((k + 1) + 1) + 1
        BY <1>8, <2>1
      <4>. QED
        BY <3>3, <3>4, <4>1
    <3>6. \A i \in ((k + 1) + 1)..(n - 2) : q[i] = p[two + i]
      BY <1>8, <2>1, <2>2
    <3>7. g[n - 2] = f[two + (n - 2)]
      <4>1. k + 1 \in Nat /\ n - 2 \in Nat /\ k + 1 <= n - 2
        BY <2>1, <3>1
      <4>. QED
        BY <1>9, <3>5, <3>6, <4>1
    <3>8. two + (n - 2) = n
      BY <1>0, <1>8
    <3>. QED
      BY <1>4, <2>2, <3>7, <3>8
  <2>. QED
    BY <2>6, <2>7
<1>11. CASE pos = 1
  <2>1. f[1] = <<none, <<"D">>>>
    <3>1. 0 + 1 = 1
      OBVIOUS
    <3>2. f[0 + 1] = Split(f[0], p[1])
      BY <1>5, <3>1
    <3>3. f[1] = Split(<<none, <<>>>>, "D")
      BY <1>1, <1>5, <1>11, <3>1, <3>2
    <3>. QED
      BY <3>3, OwnEntry
  <2>2. CASE n = 1
    <3>1. q = SubSeq(p, 1, 0) \o SubSeq(p, 2, n)
      BY <1>3, <1>11, <2>2
    <3>2. Len(q) = 0 + (n - 2 + 1)
      <4>1. 0 \in 0..n /\ 2 \in (0 + 1)..(n + 1)
        BY <2>2
      <4>. QED
        BY <3>1, <4>1, CutIs DEF n
    <3>3. Ended(<<none, <<"D">>>>) = none /\ Ended(<<none, <<>>>>) = none
      BY OwnEntry
    <3>4. Ended(f[n]) = none
      BY <2>1, <2>2, <3>3
    <3>5. Ended(g[Len(q)]) = none
      <4>1. Len(q) = 0
        BY <2>2, <3>2
      <4>2. g[Len(q)] = <<none, <<>>>>
        BY <1>6, <4>1
      <4>. QED
        BY <3>3, <4>2
    <3>. QED
      BY <1>4, <3>4, <3>5
  <2>3. CASE n # 1
    <3>1. n > 1 /\ p[2] = Sep /\ n - 2 \in Nat
      BY <1>0, <1>1, <1>2, <1>11, <2>3
    <3>2. q = SubSeq(p, 1, 0) \o SubSeq(p, 3, n)
      <4>1. ~(pos > 1) /\ pos < n /\ p[pos + 1] = Sep /\ pos - 1 = 0 /\ pos + 2 = 3
        BY <1>11, <3>1
      <4>2. q = SubSeq(p, 1, pos - 1) \o SubSeq(p, pos + 2, n)
        BY <1>3, <4>1, Zenon
      <4>. QED
        BY <4>1, <4>2, Zenon
    <3>3. Len(q) = n - 2 /\ \A i \in 1..(n - 2) : q[i] = p[2 + i]
      <4>1. 0 \in 0..n /\ 3 \in (0 + 1)..(n + 1)
        BY <1>0, <3>1
      <4>2. /\ Len(q) = 0 + (n - 3 + 1)
            /\ \A i \in (0 + 1)..Len(q) : q[i] = p[(3 - 1 - 0) + i]
        BY <3>2, <4>1, CutIs DEF n
      <4>. QED
        BY <1>0, <4>2
    <3>4. f[2] = <<none, <<>>>>
      <4>1. f[1 + 1] = Split(f[1], p[2])
        BY <1>5
      <4>2. f[2] = Split(<<none, <<"D">>>>, Sep)
        BY <2>1, <3>1, <4>1
      <4>. QED
        BY <4>2, OwnEntry
    <3>5. PICK z \in Nat : z = 0
      OBVIOUS
    <3>6. g[z] = f[two + z] /\ z <= n - 2 /\ \A i \in (z + 1)..(n - 2) : q[i] = p[two + i]
      <4>1. g[z] = f[two + z]
        <5>1. two + z = 2
          BY <1>8, <3>5
        <5>. QED
          BY <1>6, <3>4, <3>5, <5>1
      <4>2. z <= n - 2 /\ \A i \in (z + 1)..(n - 2) : i \in 1..(n - 2) /\ two + i = 2 + i
        BY <1>8, <3>1, <3>5
      <4>. QED
        BY <3>3, <4>1, <4>2
    <3>7. g[n - 2] = f[two + (n - 2)]
      <4>. QED
        BY <1>9, <3>1, <3>6
    <3>8. two + (n - 2) = n
      BY <1>0, <1>8
    <3>. QED
      BY <1>4, <3>3, <3>7, <3>8
  <2>. QED
    BY <2>2, <2>3
<1>. QED
  BY <1>1, <1>10, <1>11 DEF q
-----------------------------------------------------------------------------
\* update_system_path and remove_system_path (logic_system.cpp) never list the bin
\* directory a second time, and put it in PATH as an entry of its own, from every
\* PATH in which it was one, whatever earlier sessions did.
THEOREM PathListsOnce ==
    Spec => [][Plain(path) => Plain(path') /\ Cardinality(Own(path')) <= 1]_path
<1>1. IInv /\ [Next]_vars => [Plain(path) => Plain(path') /\ Cardinality(Own(path')) <= 1]_path
  <2>. SUFFICES ASSUME IInv, [Next]_vars, path' # path, Plain(path)
       PROVE Plain(path') /\ Cardinality(Own(path')) <= 1
    OBVIOUS
  <2>1. Cardinality(Own(path')) <= 1
    <3>1. \A i, j \in Own(path') : i = j
      BY NextIInv DEF IInv, ListedOnce
    <3>2. CASE Own(path') = {}
      BY <3>2, FS_EmptySet
    <3>3. CASE Own(path') # {}
      <4>1. PICK i \in Own(path') : TRUE
        BY <3>3
      <4>2. Own(path') = {i}
        BY <3>1, <4>1
      <4>. QED
        <5>1. Cardinality({i}) = 1
          BY FS_Singleton, Zenon
        <5>. QED
          BY <4>2, <5>1
    <3>. QED
      BY <3>2, <3>3
  <2>2. Plain(path')
    BY PathSteps, AppendedLists, ErasedForgets DEF IInv, ListedOnce, Plain
  <2>. QED
    BY <2>1, <2>2
<1>. QED
  BY <1>1, Invariance, PTL DEF Spec

\* update_system_path and remove_system_path (logic_system.cpp) leave the user's other
\* entries of PATH in their order and, but for characters that the ANSI code page does
\* not have, as they are, whatever earlier sessions did, as long as PATH fits into the
\* buffer and no entry merely begins or ends with Druk's.
THEOREM OthersAreKept == Spec => PathKeepsOthers
<1>1. IInv /\ [Next]_vars =>
         [Len(path) <= Buffer /\ Plain(path) => Others(path') = Others(Converted(path))]_path
  <2>. SUFFICES ASSUME IInv, [Next]_vars, path' # path, Len(path) <= Buffer, Plain(path)
       PROVE Others(path') = Others(Converted(path))
    OBVIOUS
  <2>1. PICK p \in Seq(Chars) : p = Converted(path)
    BY ConvertedIs DEF IInv, TypeOK
  <2>2. Read = p /\ Own(p) = Own(path) /\ Plain(p)
    BY <2>1, ReadIs, ConvertedIs DEF IInv, TypeOK
  <2>3. CASE path' = Appended(p) /\ Own(p) = {}
    BY <2>1, <2>3, AppendedKeepsOthers
  <2>4. CASE path' = Erased(p) /\ Own(p) # {}
    BY <2>1, <2>2, <2>4, ErasedKeepsOthers
  <2>. QED
    BY <2>2, <2>3, <2>4, PathSteps
<1>2. /\ [Len(path) <= Buffer /\ Plain(path) => Others(path') = Others(Converted(path))]_path
      /\ [Plain(path) => Plain(path') /\ Cardinality(Own(path')) <= 1]_path
      => [Len(path) <= Buffer /\ Plain(path) =>
            /\ Others(path') = Others(Converted(path))
            /\ Plain(path') /\ Cardinality(Own(path')) <= 1]_path
  OBVIOUS
<1>. QED
  BY <1>1, <1>2, Invariance, PathListsOnce, PTL DEF Spec, PathKeepsOthers
=============================================================================
