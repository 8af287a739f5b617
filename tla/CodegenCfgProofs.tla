-------------------------- MODULE CodegenCfgProofs --------------------------
(***************************************************************************)
(* A branch of the generated program stays in its function, and LLVM's     *)
(* verifier accepts the program exactly if it is clean, for every program  *)
(* whose parts are statements of it; the latter if it uses no value that   *)
(* the back end does not have.                                             *)
(*                                                                         *)
(* The first part.  While the visitors work, a task that is still to be    *)
(* done holds blocks of the function in which it will be done: the present *)
(* one, or, behind a nested function's end, the one whose block that end   *)
(* holds.  This is HoldsOwn, the part of IInv that makes it inductive;     *)
(* everything a visitor branches to comes from its task or is new.         *)
(*                                                                         *)
(* The second part, from the definitions of Ends and GoesOn on.  VerifyInv *)
(* says that a block is spoilt already (or is about to be) and the program *)
(* is not clean, or that it is neat so far: the tasks are the ends and the *)
(* rests of lists in turn; of each list a beginning has been visited that  *)
(* is clean, and its block has a terminator exactly if a return is in it;  *)
(* and every block either ends in its only terminator or is the only one a *)
(* task keeps for code to come.  A visitor's turn appends code to blocks   *)
(* that are kept, and replaces a task (Turn); what it leaves alone is said *)
(* once for all turns, and one lemma per action says the rest (Fares).     *)
(***************************************************************************)
EXTENDS CodegenCfg, SequenceTheorems, TLAPS

\* The head of a list is done; what is behind it is still in its function.
LEMMA HoldsTail ==
    ASSUME NEW S, NEW o, NEW f, NEW t \in Seq(S), t # <<>>, HoldsOwn(o, f, t)
    PROVE  /\ Head(t) = t[1] /\ Tail(t) \in Seq(S)
           /\ t[1].do # "endFunc" => HoldsOwn(o, f, Tail(t))
           /\ t[1].do = "endFunc" => HoldsOwn(o, o[t[1].at[1]], Tail(t))
<1>. DEFINE u == Tail(t)
<1>1. /\ Head(t) = t[1] /\ u \in Seq(S) /\ Len(t) \in Nat /\ Len(t) >= 1 /\ Len(u) = Len(t) - 1
      /\ \A i \in 1..Len(u) : u[i] = t[i + 1]
  OBVIOUS
<1>. HIDE DEF u
<1>3. ASSUME NEW k \in 0..Len(u), NEW j \in 1..Len(u), DoneAfter(u, k, j)
      PROVE  DoneAfter(t, k + 1, j + 1) \/ (k = 0 /\ t[1].do # "endFunc" /\ DoneAfter(t, 0, j + 1))
  <2>1. ASSUME NEW l \in (k + 2)..j
        PROVE  t[l].do # "endFunc"
    <3>1. l - 1 \in (k + 1)..(j - 1) /\ l - 1 \in 1..Len(u)
      BY <1>1, <1>3, <2>1
    <3>2. u[l - 1] = t[l]
      BY <1>1, <3>1
    <3>. QED
      BY <1>3, <3>1, <3>2 DEF DoneAfter
  <2>2. CASE k > 0
    BY <1>1, <1>3, <2>1, <2>2 DEF DoneAfter
  <2>3. CASE k = 0 /\ t[1].do = "endFunc"
    BY <1>1, <1>3, <2>1, <2>3 DEF DoneAfter
  <2>4. CASE k = 0 /\ t[1].do # "endFunc"
    <3>1. \A l \in 1..j : t[l].do # "endFunc"
      BY <1>1, <1>3, <2>1, <2>4
    <3>. QED
      BY <1>1, <1>3, <2>4, <3>1 DEF DoneAfter
  <2>. QED
    BY <1>1, <1>3, <2>2, <2>3, <2>4
<1>4. ASSUME NEW g, g = IF t[1].do = "endFunc" THEN o[t[1].at[1]] ELSE f
      PROVE  HoldsOwn(o, g, u)
  <2>. SUFFICES ASSUME NEW k \in 0..Len(u), NEW j \in 1..Len(u), DoneAfter(u, k, j), u[j].do # "endFunc",
                       NEW x \in DOMAIN u[j].at
                PROVE  o[u[j].at[x]] = Back(o, g, u, k)
    BY DEF HoldsOwn
  <2>1. u[j] = t[j + 1] /\ j + 1 \in 1..Len(t) /\ k + 1 \in 0..Len(t) /\ 0 \in 0..Len(t)
    BY <1>1
  <2>2. CASE DoneAfter(t, k + 1, j + 1)
    <3>1. o[u[j].at[x]] = o[t[k + 1].at[1]]
      BY <2>1, <2>2 DEF HoldsOwn, Back
    <3>2. CASE k = 0
      <4>1. t[1].do = "endFunc"
        BY <2>2, <3>2 DEF DoneAfter
      <4>. QED
        BY <1>4, <3>1, <3>2, <4>1 DEF Back
    <3>3. CASE k # 0
      BY <1>1, <3>1, <3>3 DEF Back
    <3>. QED
      BY <3>2, <3>3
  <2>3. CASE k = 0 /\ t[1].do # "endFunc" /\ DoneAfter(t, 0, j + 1)
    BY <1>4, <2>1, <2>3 DEF HoldsOwn, Back
  <2>. QED
    BY <1>3, <2>2, <2>3
<1>. QED
  BY <1>1, <1>4 DEF u

\* Tasks of the present function in front of a list.
LEMMA HoldsMore ==
    ASSUME NEW S, NEW o, NEW f, NEW t \in Seq(S), HoldsOwn(o, f, t), NEW p \in Seq(S),
           \A i \in 1..Len(p) : p[i].do # "endFunc" /\ \A x \in DOMAIN p[i].at : o[p[i].at[x]] = f
    PROVE  HoldsOwn(o, f, p \o t)
<1>. DEFINE u == p \o t
            n == Len(p)
<1>1. /\ u \in Seq(S) /\ n \in Nat /\ Len(t) \in Nat /\ Len(u) = n + Len(t)
      /\ \A i \in 1..n : u[i] = p[i]
      /\ \A i \in 1..Len(t) : u[n + i] = t[i]
  <2>1. /\ u \in Seq(S) /\ n \in Nat /\ Len(t) \in Nat /\ Len(u) = n + Len(t)
        /\ \A i \in 1..(n + Len(t)) : u[i] = IF i <= n THEN p[i] ELSE t[i - n]
    BY ConcatProperties
  <2>. HIDE DEF u, n
  <2>. QED
    BY <2>1
<1>2. \A i \in 1..n : u[i].do # "endFunc" /\ \A x \in DOMAIN u[i].at : o[u[i].at[x]] = f
  BY <1>1
<1>. HIDE DEF u, n
<1>. SUFFICES ASSUME NEW k \in 0..Len(u), NEW j \in 1..Len(u), DoneAfter(u, k, j), u[j].do # "endFunc",
                     NEW x \in DOMAIN u[j].at
              PROVE  o[u[j].at[x]] = Back(o, f, u, k)
  BY DEF HoldsOwn, u
<1>3. k = 0 \/ k > n
  BY <1>1, <1>2 DEF DoneAfter
<1>4. CASE j <= n
  <2>1. k = 0
    BY <1>1, <1>3, <1>4 DEF DoneAfter
  <2>. QED
    BY <1>1, <1>2, <1>4, <2>1 DEF Back
<1>5. CASE j > n
  <2>1. PICK i \in 1..Len(t) : j = n + i /\ u[j] = t[i]
    <3>1. j - n \in 1..Len(t) /\ j = n + (j - n)
      BY <1>1, <1>5
    <3>. QED
      BY <1>1, <3>1
  <2>2. PICK h \in 0..Len(t) : (k = 0 /\ h = 0) \/ (k > n /\ k = n + h /\ h > 0 /\ u[k] = t[h])
    <3>1. CASE k = 0
      BY <1>1, <3>1
    <3>2. CASE k > n
      <4>1. k - n \in 1..Len(t) /\ k = n + (k - n)
        BY <1>1, <3>2
      <4>2. u[k] = t[k - n] /\ k - n > 0 /\ k - n \in 0..Len(t)
        <5>1. u[n + (k - n)] = t[k - n]
          BY <1>1, <4>1
        <5>. QED
          BY <1>1, <4>1, <5>1
      <4>. QED
        BY <3>2, <4>1, <4>2
    <3>. QED
      BY <1>3, <3>1, <3>2
  <2>3. ASSUME NEW l \in (h + 1)..(i - 1)
        PROVE  t[l].do # "endFunc"
    <3>1. n + l \in (k + 1)..(j - 1) /\ l \in 1..Len(t)
      BY <1>1, <2>1, <2>2, <2>3
    <3>. QED
      BY <1>1, <3>1 DEF DoneAfter
  <2>4. DoneAfter(t, h, i)
    BY <1>1, <2>1, <2>2, <2>3 DEF DoneAfter
  <2>. QED
    BY <1>1, <2>1, <2>2, <2>4 DEF HoldsOwn, Back
<1>. QED
  BY <1>1, <1>4, <1>5

\* A function inside a list: whatever was being done goes on behind its end.
LEMMA HoldsInside ==
    ASSUME NEW S, NEW o, NEW f, NEW t \in Seq(S), NEW a \in S, a.do = "endFunc",
           HoldsOwn(o, o[a.at[1]], t)
    PROVE  HoldsOwn(o, f, <<a>> \o t)
<1>. DEFINE u == <<a>> \o t
<1>1. /\ u \in Seq(S) /\ Len(t) \in Nat /\ Len(u) = 1 + Len(t) /\ u[1] = a
      /\ \A i \in 1..Len(t) : u[i + 1] = t[i]
  <2>1. <<a>> \in Seq(S) /\ Len(<<a>>) = 1 /\ <<a>>[1] = a
    OBVIOUS
  <2>2. /\ u \in Seq(S) /\ Len(t) \in Nat /\ Len(u) = 1 + Len(t)
        /\ \A i \in 1..(1 + Len(t)) : u[i] = IF i <= 1 THEN <<a>>[i] ELSE t[i - 1]
    BY <2>1, ConcatProperties
  <2>. HIDE DEF u
  <2>. QED
    BY <2>1, <2>2
<1>. HIDE DEF u
<1>. SUFFICES ASSUME NEW k \in 0..Len(u), NEW j \in 1..Len(u), DoneAfter(u, k, j), u[j].do # "endFunc",
                     NEW x \in DOMAIN u[j].at
              PROVE  o[u[j].at[x]] = Back(o, f, u, k)
  BY DEF HoldsOwn, u
<1>2. j > 1 /\ k >= 1
  <2>1. j # 1
    BY <1>1
  <2>2. k # 0
    BY <1>1, <2>1 DEF DoneAfter
  <2>. QED
    BY <1>1, <2>1, <2>2
<1>3. PICK i \in 1..Len(t) : j = i + 1 /\ u[j] = t[i]
  <2>1. j - 1 \in 1..Len(t) /\ j = (j - 1) + 1
    BY <1>1, <1>2
  <2>. QED
    BY <1>1, <2>1
<1>4. PICK h \in 0..Len(t) : k = h + 1 /\ (h > 0 => u[k] = t[h])
  <2>1. k - 1 \in 0..Len(t) /\ k = (k - 1) + 1
    BY <1>1, <1>2
  <2>2. k - 1 > 0 => u[k] = t[k - 1]
    BY <1>1, <2>1
  <2>. QED
    BY <2>1, <2>2
<1>5. ASSUME NEW l \in (h + 1)..(i - 1)
      PROVE  t[l].do # "endFunc"
  <2>1. l + 1 \in (k + 1)..(j - 1) /\ l \in 1..Len(t)
    BY <1>1, <1>3, <1>4
  <2>. QED
    BY <1>1, <2>1 DEF DoneAfter
<1>6. DoneAfter(t, h, i)
  BY <1>1, <1>3, <1>4, <1>5 DEF DoneAfter
<1>7. o[t[i].at[x]] = Back(o, o[a.at[1]], t, h)
  BY <1>3, <1>6 DEF HoldsOwn
<1>8. CASE h = 0
  BY <1>1, <1>3, <1>4, <1>7, <1>8 DEF Back
<1>9. CASE h > 0
  BY <1>1, <1>3, <1>4, <1>7, <1>9 DEF Back
<1>. QED
  BY <1>8, <1>9
-----------------------------------------------------------------------------
\* Code s may be appended to block b, of the blocks 1..m whose functions are o.
InstructionsTo(m) ==
    [op : {"act"} \union Terminators, n : Node \union {"none"}, i : Nat, to : Seq(1..m)]
Fits(m, o, b, s) ==
    /\ s \in Seq(InstructionsTo(m))
    /\ \A i \in DOMAIN s : \A j \in DOMAIN s[i].to : o[s[i].to[j]] = o[b]

\* What each instruction needs to fit in the block it is appended to.
LEMMA FitsActs ==
    ASSUME NEW m \in Nat, NEW o, NEW b, NEW n \in Node \union {"none"}, NEW i \in Nat
    PROVE  Fits(m, o, b, <<Act(n, i)>>) /\ Fits(m, o, b, <<Ret(n)>>) /\ Fits(m, o, b, <<>>)
<1>. DEFINE I == InstructionsTo(m)
<1>1. Act(n, i) \in I /\ Ret(n) \in I /\ Act(n, i).to = <<>> /\ Ret(n).to = <<>>
  BY DEF Act, Ret, InstructionsTo, Terminators
<1>. HIDE DEF I
<1>2. <<Act(n, i)>> \in Seq(I) /\ <<Ret(n)>> \in Seq(I) /\ <<>> \in Seq(I)
  BY <1>1
<1>. QED
  BY <1>1, <1>2 DEF Fits, I

\* A branch fits if its target belongs to the function of its block.
LEMMA FitsBranch ==
    ASSUME NEW m \in Nat, NEW o, NEW b, NEW c \in 1..m, o[c] = o[b]
    PROVE  Fits(m, o, b, <<Branch(c)>>)
<1>. DEFINE I == InstructionsTo(m)
<1>1. Branch(c) \in I /\ Branch(c).to = <<c>>
  BY DEF Branch, InstructionsTo, Terminators
<1>. HIDE DEF I
<1>2. <<Branch(c)>> \in Seq(I)
  BY <1>1
<1>. QED
  BY <1>1, <1>2 DEF Fits, I

\* So does a conditional branch, with its two targets.
LEMMA FitsTest ==
    ASSUME NEW m \in Nat, NEW o, NEW b, NEW c \in 1..m, NEW d \in 1..m, o[c] = o[b], o[d] = o[b],
           NEW n \in Node, NEW i \in Nat
    PROVE  Fits(m, o, b, <<CondBranch(n, i, c, d)>>)
<1>. DEFINE I == InstructionsTo(m)
<1>1. CondBranch(n, i, c, d) \in I /\ CondBranch(n, i, c, d).to = <<c, d>>
  BY DEF CondBranch, InstructionsTo, Terminators
<1>. HIDE DEF I
<1>2. <<CondBranch(n, i, c, d)>> \in Seq(I)
  BY <1>1
<1>. QED
  BY <1>1, <1>2 DEF Fits, I

\* Code that fits, behind code that fits, fits.
LEMMA FitsBoth ==
    ASSUME NEW m \in Nat, NEW o, NEW b, NEW s, NEW t, Fits(m, o, b, s), Fits(m, o, b, t)
    PROVE  Fits(m, o, b, s \o t)
<1>. DEFINE I == InstructionsTo(m)
            u == s \o t
<1>1. s \in Seq(I) /\ t \in Seq(I)
  BY DEF Fits
<1>. HIDE DEF I
<1>2. /\ u \in Seq(I) /\ Len(s) \in Nat /\ Len(t) \in Nat /\ Len(u) = Len(s) + Len(t)
      /\ \A i \in 1..(Len(s) + Len(t)) : u[i] = IF i <= Len(s) THEN s[i] ELSE t[i - Len(s)]
  BY <1>1, ConcatProperties
<1>. HIDE DEF u
<1>3. ASSUME NEW i \in 1..(Len(s) + Len(t)), NEW j \in DOMAIN u[i].to
      PROVE  o[u[i].to[j]] = o[b]
  <2>1. CASE i <= Len(s)
    BY <1>1, <1>2, <1>3, <2>1 DEF Fits
  <2>2. CASE i > Len(s)
    <3>1. i - Len(s) \in 1..Len(t) /\ u[i] = t[i - Len(s)]
      BY <1>2, <2>2
    <3>. QED
      BY <1>1, <1>3, <3>1 DEF Fits
  <2>. QED
    BY <1>2, <2>1, <2>2
<1>. QED
  BY <1>2, <1>3 DEF Fits, I, u

\* New blocks are empty.
LEMMA EmptyBlocks ==
    ASSUME NEW S, NEW n \in Nat
    PROVE  /\ [i \in 1..n |-> <<>>] \in Seq(Seq(S)) /\ Len([i \in 1..n |-> <<>>]) = n
           /\ \A i \in 1..n : [k \in 1..n |-> <<>>][i] = <<>>
<1>1. <<>> \in Seq(S)
  OBVIOUS
<1>. QED
  BY <1>1

\* A function on 1..n with values in S is a list over S.
LEMMA ListOf ==
    ASSUME NEW S, NEW n \in Nat, NEW f, f = [b \in 1..n |-> f[b]], \A b \in 1..n : f[b] \in S
    PROVE  f \in Seq(S) /\ Len(f) = n /\ DOMAIN f = 1..n
<1>1. f \in [1..n -> S]
  OBVIOUS
<1>. QED
  BY <1>1

\* What new blocks and code appended to some blocks leave.
LEMMA EmitKeeps ==
    ASSUME IInv, NEW new \in Nat, NEW code, Emit(new, code),
           DOMAIN code \subseteq 1..(Len(blocks) + new),
           Len(owner') = Len(blocks) + new, \A b \in Blocks : owner'[b] = owner[b],
           \A b \in DOMAIN code : Fits(Len(blocks) + new, owner', b, code[b])
    PROVE  /\ Len(blocks) \in Nat /\ Len(blocks') = Len(blocks) + new
           /\ Blocks = 1..Len(blocks) /\ Blocks' = 1..(Len(blocks) + new)
           /\ blocks' \in Seq(Seq(Instructions'))
           /\ DOMAIN blocks' = 1..Len(blocks')
           /\ BranchesStayInside'
<1>. DEFINE bs == blocks \o [i \in 1..new |-> <<>>]
            m == Len(blocks) + new
            I == InstructionsTo(m)
<1>1. Len(blocks) \in Nat /\ Blocks = 1..Len(blocks) /\ blocks \in Seq(Seq(Instructions)) /\ m \in Nat
  BY DEF IInv, Blocks
<1>2. Instructions \subseteq I
  <2>1. Seq(Blocks) \subseteq Seq(1..m)
    BY <1>1
  <2>. QED
    BY <2>1 DEF Instructions, InstructionsTo
<1>5. \A b \in DOMAIN code : code[b] \in Seq(I)
  BY DEF Fits
<1>. HIDE DEF I
<1>3. /\ bs \in Seq(Seq(I)) /\ Len(bs) = m /\ DOMAIN bs = 1..m
      /\ \A b \in 1..m : bs[b] = IF b <= Len(blocks) THEN blocks[b] ELSE <<>>
  <2>. DEFINE none == [i \in 1..new |-> <<>>]
  <2>1. none \in Seq(Seq(I)) /\ Len(none) = new /\ \A i \in 1..new : none[i] = <<>>
    BY EmptyBlocks
  <2>2. blocks \in Seq(Seq(I))
    <3>1. Seq(Instructions) \subseteq Seq(I)
      BY <1>2
    <3>. QED
      BY <1>1, <3>1
  <2>. HIDE DEF none
  <2>3. /\ bs \in Seq(Seq(I)) /\ Len(bs) = m
        /\ \A b \in 1..(Len(blocks) + Len(none)) :
              bs[b] = IF b <= Len(blocks) THEN blocks[b] ELSE none[b - Len(blocks)]
    BY <2>1, <2>2, ConcatProperties DEF none
  <2>4. ASSUME NEW b \in 1..m
        PROVE  bs[b] = IF b <= Len(blocks) THEN blocks[b] ELSE <<>>
    <3>1. b > Len(blocks) => b - Len(blocks) \in 1..new
      BY <1>1
    <3>. QED
      BY <1>1, <2>1, <2>3, <3>1
  <2>. HIDE DEF bs, m
  <2>. QED
    BY <1>1, <2>3, <2>4
<1>4. blocks' = [b \in DOMAIN bs |-> IF b \in DOMAIN code THEN bs[b] \o code[b] ELSE bs[b]]
  BY DEF Emit
<1>. HIDE DEF bs, m
<1>6. \A b \in 1..m : bs[b] \in Seq(I) /\ blocks'[b] \in Seq(I)
  BY <1>3, <1>4, <1>5
<1>7. blocks' \in Seq(Seq(I)) /\ Len(blocks') = m /\ DOMAIN blocks' = 1..m
  <2>1. blocks' = [b \in 1..m |-> blocks'[b]]
    BY <1>3, <1>4
  <2>. QED
    BY <1>1, <1>6, <2>1, ListOf
<1>8. I = Instructions' /\ Blocks' = 1..m
  BY <1>7 DEF I, Instructions, InstructionsTo, Blocks
<1>9. ASSUME NEW b \in 1..m, NEW i \in DOMAIN bs[b], NEW j \in DOMAIN bs[b][i].to
      PROVE  owner'[bs[b][i].to[j]] = owner'[b]
  <2>1. b \in Blocks /\ bs[b] = blocks[b]
    BY <1>1, <1>3, <1>9
  <2>2. blocks[b] \in Seq(Instructions) /\ bs[b][i] \in Instructions
    BY <1>1, <1>9, <2>1
  <2>3. bs[b][i].to \in Seq(Blocks) /\ bs[b][i].to[j] \in Blocks
    BY <1>9, <2>2 DEF Instructions
  <2>4. owner[blocks[b][i].to[j]] = owner[b]
    <3>1. StaysInside(b)
      BY <2>1 DEF IInv, BranchesStayInside, Blocks
    <3>2. i \in DOMAIN blocks[b] /\ j \in DOMAIN blocks[b][i].to
      BY <1>9, <2>1
    <3>. QED
      BY <3>1, <3>2 DEF StaysInside
  <2>. QED
    BY <2>1, <2>3, <2>4
<1>10. ASSUME NEW b \in 1..m, NEW i \in DOMAIN blocks'[b], NEW j \in DOMAIN blocks'[b][i].to
       PROVE  owner'[blocks'[b][i].to[j]] = owner'[b]
  <2>1. CASE b \notin DOMAIN code
    BY <1>3, <1>4, <1>9, <1>10, <2>1
  <2>2. CASE b \in DOMAIN code
    <3>1. blocks'[b] = bs[b] \o code[b] /\ bs[b] \in Seq(I) /\ code[b] \in Seq(I)
      BY <1>3, <1>4, <1>5, <1>6, <2>2
    <3>2. i \in 1..(Len(bs[b]) + Len(code[b])) /\ Len(bs[b]) \in Nat /\ Len(code[b]) \in Nat
          /\ blocks'[b][i] = IF i <= Len(bs[b]) THEN bs[b][i] ELSE code[b][i - Len(bs[b])]
      <4>1. \A s, t \in Seq(I) :
               /\ Len(s) \in Nat /\ Len(t) \in Nat /\ DOMAIN (s \o t) = 1..(Len(s) + Len(t))
               /\ \A k \in 1..(Len(s) + Len(t)) : (s \o t)[k] = IF k <= Len(s) THEN s[k] ELSE t[k - Len(s)]
        BY ConcatProperties
      <4>2. /\ Len(bs[b]) \in Nat /\ Len(code[b]) \in Nat
            /\ DOMAIN (bs[b] \o code[b]) = 1..(Len(bs[b]) + Len(code[b]))
            /\ \A k \in 1..(Len(bs[b]) + Len(code[b])) :
                  (bs[b] \o code[b])[k] = IF k <= Len(bs[b]) THEN bs[b][k] ELSE code[b][k - Len(bs[b])]
        BY <3>1, <4>1
      <4>3. DOMAIN blocks'[b] = 1..(Len(bs[b]) + Len(code[b])) /\ i \in 1..(Len(bs[b]) + Len(code[b]))
        BY <1>10, <3>1, <4>2
      <4>. QED
        BY <3>1, <4>2, <4>3
    <3>3. CASE i <= Len(bs[b])
      <4>1. i \in DOMAIN bs[b] /\ blocks'[b][i] = bs[b][i]
        BY <3>1, <3>2, <3>3
      <4>. QED
        BY <1>9, <1>10, <4>1
    <3>4. CASE i > Len(bs[b])
      <4>1. PICK k \in DOMAIN code[b] : blocks'[b][i] = code[b][k]
        <5>1. i - Len(bs[b]) \in 1..Len(code[b]) /\ DOMAIN code[b] = 1..Len(code[b])
          <6>1. DOMAIN code[b] = 1..Len(code[b])
            BY <3>1
          <6>2. PICK p \in Nat : p = Len(bs[b])
            BY <3>2
          <6>3. PICK q \in Nat : q = Len(code[b])
            BY <3>2
          <6>4. i \in 1..(p + q) /\ i > p
            BY <3>2, <3>4, <6>2, <6>3
          <6>5. i - p \in 1..q
            BY <6>4
          <6>. QED
            BY <6>1, <6>2, <6>3, <6>5
        <5>. QED
          BY <3>2, <3>4, <5>1
      <4>. QED
        BY <1>10, <2>2, <4>1 DEF Fits
    <3>. QED
      BY <3>2, <3>3, <3>4
  <2>. QED
    BY <2>1, <2>2
<1>11. BranchesStayInside'
  BY <1>7, <1>10 DEF BranchesStayInside, StaysInside
<1>. QED
  BY <1>1, <1>7, <1>8, <1>11 DEF m

\* What the owners of the new blocks are.
LEMMA OwnKeeps ==
    ASSUME IInv, NEW new \in Nat, NEW f \in Owners, Own(new, f)
    PROVE  /\ owner' \in Seq(Owners) /\ Len(owner') = Len(blocks) + new
           /\ \A b \in Blocks : owner'[b] = owner[b]
           /\ \A i \in 1..new : owner'[Len(blocks) + i] = f
<1>1. /\ owner \in Seq(Owners) /\ Len(owner) = Len(blocks) /\ Len(blocks) \in Nat
      /\ Blocks = 1..Len(blocks)
  BY DEF IInv, Blocks
<1>. DEFINE more == [i \in 1..new |-> f]
<1>2. more \in Seq(Owners) /\ Len(more) = new /\ \A i \in 1..new : more[i] = f
  OBVIOUS
<1>3. owner' = owner \o more
  BY DEF Own
<1>. HIDE DEF more
<1>4. /\ owner' \in Seq(Owners) /\ Len(owner') = Len(owner) + Len(more)
      /\ \A b \in 1..(Len(owner) + Len(more)) :
            owner'[b] = IF b <= Len(owner) THEN owner[b] ELSE more[b - Len(owner)]
  BY <1>1, <1>2, <1>3, ConcatProperties
<1>5. ASSUME NEW i \in 1..new
      PROVE  owner'[Len(blocks) + i] = f
  <2>1. Len(blocks) + i \in 1..(Len(owner) + Len(more)) /\ ~(Len(blocks) + i <= Len(owner))
        /\ Len(blocks) + i - Len(owner) = i
    BY <1>1, <1>2
  <2>. QED
    BY <1>2, <1>4, <2>1
<1>6. \A b \in Blocks : owner'[b] = owner[b]
  BY <1>1, <1>2, <1>4
<1>. QED
  BY <1>1, <1>2, <1>4, <1>5, <1>6

\* How many blocks a task holds.
LEMMA TasksHold ==
    \A t \in Tasks :
        /\ t.at \in Seq(Blocks) /\ t.list \in Seq(Node) /\ t.i \in Nat
        /\ t.do = "visit" => Len(t.at) = 0
        /\ t.do # "visit" => t.n \in Node
        /\ t.do \in {"endThen", "endIf", "arm", "endFunc"} => Len(t.at) = 1 /\ t.at[1] \in Blocks
        /\ t.do = "endWhile" => Len(t.at) = 2 /\ t.at[1] \in Blocks /\ t.at[2] \in Blocks
        /\ t.do \in {"endFor", "endArm"} =>
             Len(t.at) = 3 /\ t.at[1] \in Blocks /\ t.at[2] \in Blocks /\ t.at[3] \in Blocks
        /\ t.do = "endThen" => prog.kind[t.n] \in {"if", "ifElse"}
        /\ t.do = "arm" => t.i > 0
<1>1. /\ Held["visit"] = 0 /\ Held["endThen"] = 1 /\ Held["endIf"] = 1 /\ Held["arm"] = 1
      /\ Held["endFunc"] = 1 /\ Held["endWhile"] = 2 /\ Held["endFor"] = 3 /\ Held["endArm"] = 3
  BY DEF Held
<1>2. ASSUME NEW t \in Tasks
      PROVE  t.at \in Seq(Blocks) /\ t.list \in Seq(Node) /\ t.i \in Nat /\ Len(t.at) = Held[t.do]
             /\ (t.do # "visit" => t.n \in Node)
             /\ (t.do = "endThen" => prog.kind[t.n] \in {"if", "ifElse"}) /\ (t.do = "arm" => t.i > 0)
  BY DEF Tasks
<1>3. ASSUME NEW s \in Seq(Blocks)
      PROVE  /\ Len(s) = 1 => s[1] \in Blocks
             /\ Len(s) = 2 => s[1] \in Blocks /\ s[2] \in Blocks
             /\ Len(s) = 3 => s[1] \in Blocks /\ s[2] \in Blocks /\ s[3] \in Blocks
  OBVIOUS
<1>4. ASSUME NEW t \in Tasks
      PROVE  /\ t.do = "visit" => Len(t.at) = 0
             /\ t.do \in {"endThen", "endIf", "arm", "endFunc"} => Len(t.at) = 1
             /\ t.do = "endWhile" => Len(t.at) = 2
             /\ t.do \in {"endFor", "endArm"} => Len(t.at) = 3
  BY <1>1, <1>2
<1>. QED
  BY <1>2, <1>3, <1>4

\* What is left to do stays right when blocks are added.
LEMMA TasksKeep ==
    ASSUME IInv, prog' = prog, Len(blocks') \in Nat, Len(blocks') >= Len(blocks),
           DOMAIN blocks' = 1..Len(blocks'),
           \A b \in Blocks : owner'[b] = owner[b]
    PROVE  /\ Seq(Tasks) \subseteq Seq(Tasks')
           /\ \A f : \A t \in Seq(Tasks) : HoldsOwn(owner, f, t) => HoldsOwn(owner', f, t)
<1>1. Blocks = 1..Len(blocks) /\ Len(blocks) \in Nat /\ Blocks \subseteq Blocks'
  BY DEF IInv, Blocks
<1>2. Seq(Blocks) \subseteq Seq(Blocks')
  BY <1>1
<1>3. Tasks \subseteq Tasks'
  BY <1>2 DEF Tasks
<1>4. Seq(Tasks) \subseteq Seq(Tasks')
  BY <1>3
<1>5. ASSUME NEW f, NEW t \in Seq(Tasks), HoldsOwn(owner, f, t)
      PROVE  HoldsOwn(owner', f, t)
  <2>. SUFFICES ASSUME NEW k \in 0..Len(t), NEW j \in 1..Len(t), DoneAfter(t, k, j), t[j].do # "endFunc",
                       NEW x \in DOMAIN t[j].at
                PROVE  owner'[t[j].at[x]] = Back(owner', f, t, k)
    BY DEF HoldsOwn
  <2>1. owner[t[j].at[x]] = Back(owner, f, t, k)
    BY <1>5 DEF HoldsOwn
  <2>2. t[j] \in Tasks
    BY <1>5
  <2>3. t[j].at[x] \in Blocks
    BY <2>2 DEF Tasks
  <2>4. Back(owner', f, t, k) = Back(owner, f, t, k)
    <3>1. CASE k = 0
      BY <3>1 DEF Back
    <3>2. CASE k # 0
      <4>1. t[k] \in Tasks /\ t[k].do = "endFunc"
        BY <1>5, <3>2 DEF DoneAfter
      <4>2. t[k].at[1] \in Blocks
        BY <4>1, TasksHold
      <4>. QED
        BY <3>2, <4>2 DEF Back
    <3>. QED
      BY <3>1, <3>2
  <2>. QED
    BY <2>1, <2>3, <2>4
<1>. QED
  BY <1>4, <1>5

\* The tasks over a set of blocks, and those of function f among them.
TasksOf(p, B) ==
    {t \in [do : DOMAIN Held, list : Seq(Node), n : Node \union {"none"}, i : Nat, at : Seq(B)] :
        /\ Len(t.at) = Held[t.do]
        /\ t.do # "visit" => t.n \in Node
        /\ t.do = "endThen" => p.kind[t.n] \in {"if", "ifElse"}
        /\ t.do = "arm" => t.i > 0}
OwnTasks(p, B, o, f) ==
    {t \in TasksOf(p, B) : t.do # "endFunc" /\ \A x \in DOMAIN t.at : o[t.at[x]] = f}

\* A visit of a list holds no block, so it can be done in any function.
LEMMA VisitIsTask ==
    ASSUME NEW p, NEW B, NEW o, NEW f, NEW list \in Seq(Node)
    PROVE  Visit(list) \in OwnTasks(p, B, o, f)
BY DEF Visit, TasksOf, OwnTasks, Held

\* What follows a visit, holding blocks of the function it is for.
LEMMA ThenIsTask ==
    ASSUME NEW p, NEW B, NEW do \in DOMAIN Held, NEW n \in Node, NEW i \in Nat, NEW ptrs \in Seq(B),
           Len(ptrs) = Held[do], do \notin {"visit", "endFunc"},
           do = "endThen" => p.kind[n] \in {"if", "ifElse"}, do = "arm" => i > 0,
           NEW o, NEW f, \A x \in 1..Len(ptrs) : o[ptrs[x]] = f
    PROVE  Then(do, n, i, ptrs) \in OwnTasks(p, B, o, f)
BY DEF Then, TasksOf, OwnTasks

\* What a visitor may leave for later: a task that holds one block, two or three.
LEMMA TasksAre ==
    ASSUME NEW p, NEW B, NEW o, NEW f, NEW n \in Node, NEW i \in Nat,
           NEW a \in B, NEW b \in B, NEW c \in B, o[a] = f
    PROVE  /\ p.kind[n] \in {"if", "ifElse"} => Then("endThen", n, 0, <<a>>) \in OwnTasks(p, B, o, f)
           /\ Then("endIf", n, 0, <<a>>) \in OwnTasks(p, B, o, f)
           /\ i > 0 => Then("arm", n, i, <<a>>) \in OwnTasks(p, B, o, f)
           /\ o[b] = f => Then("endWhile", n, 0, <<a, b>>) \in OwnTasks(p, B, o, f)
           /\ o[b] = f /\ o[c] = f =>
                /\ Then("endFor", n, 0, <<a, b, c>>) \in OwnTasks(p, B, o, f)
                /\ Then("endArm", n, i, <<a, b, c>>) \in OwnTasks(p, B, o, f)
<1>1. /\ Held["endThen"] = 1 /\ Held["endIf"] = 1 /\ Held["arm"] = 1
      /\ Held["endWhile"] = 2 /\ Held["endFor"] = 3 /\ Held["endArm"] = 3
      /\ {"endThen", "endIf", "arm", "endWhile", "endFor", "endArm"} \subseteq DOMAIN Held
  BY DEF Held
<1>2. <<a>> \in Seq(B) /\ Len(<<a>>) = 1 /\ \A x \in 1..1 : o[<<a>>[x]] = f
  OBVIOUS
<1>3. <<a, b>> \in Seq(B) /\ Len(<<a, b>>) = 2 /\ (o[b] = f => \A x \in 1..2 : o[<<a, b>>[x]] = f)
  OBVIOUS
<1>4. /\ <<a, b, c>> \in Seq(B) /\ Len(<<a, b, c>>) = 3
      /\ (o[b] = f /\ o[c] = f => \A x \in 1..3 : o[<<a, b, c>>[x]] = f)
  OBVIOUS
<1>5. p.kind[n] \in {"if", "ifElse"} => Then("endThen", n, 0, <<a>>) \in OwnTasks(p, B, o, f)
  BY <1>1, <1>2, ThenIsTask
<1>6. Then("endIf", n, 0, <<a>>) \in OwnTasks(p, B, o, f)
  BY <1>1, <1>2, ThenIsTask
<1>7. i > 0 => Then("arm", n, i, <<a>>) \in OwnTasks(p, B, o, f)
  BY <1>1, <1>2, ThenIsTask
<1>8. o[b] = f => Then("endWhile", n, 0, <<a, b>>) \in OwnTasks(p, B, o, f)
  BY <1>1, <1>3, ThenIsTask
<1>9. o[b] = f /\ o[c] = f => Then("endFor", n, 0, <<a, b, c>>) \in OwnTasks(p, B, o, f)
  BY <1>1, <1>4, ThenIsTask
<1>10. o[b] = f /\ o[c] = f => Then("endArm", n, i, <<a, b, c>>) \in OwnTasks(p, B, o, f)
  BY <1>1, <1>4, ThenIsTask
<1>. QED
  BY <1>5, <1>6, <1>7, <1>8, <1>9, <1>10

\* The end of a function holds a block of the function around it.
LEMMA EndFuncIsTask ==
    ASSUME NEW p, NEW B, NEW n \in Node, NEW a \in B
    PROVE  Then("endFunc", n, 0, <<a>>) \in TasksOf(p, B)
<1>1. Held["endFunc"] = 1 /\ "endFunc" \in DOMAIN Held
  BY DEF Held
<1>2. <<a>> \in Seq(B) /\ Len(<<a>>) = 1 /\ <<>> \in Seq(Node)
  OBVIOUS
<1>. DEFINE one == <<a>>
<1>. HIDE DEF one
<1>3. Then("endFunc", n, 0, one) \in TasksOf(p, B)
  BY <1>1, <1>2 DEF one, Then, TasksOf
<1>. QED
  BY <1>3 DEF one

\* Three tasks in front of a list are there one after the other.
LEMMA ThreeInFront ==
    ASSUME NEW T, NEW x \in T, NEW y \in T, NEW z \in T, NEW t \in Seq(T)
    PROVE  <<x, y, z>> \o t = <<x>> \o (<<y>> \o (<<z>> \o t))
<1>. DEFINE a == <<x>>
            b == <<y>>
            c == <<z>>
            d == <<x, y, z>>
            u == c \o t
            v == b \o u
<1>1. /\ a \in Seq(T) /\ Len(a) = 1 /\ a[1] = x
      /\ b \in Seq(T) /\ Len(b) = 1 /\ b[1] = y
      /\ c \in Seq(T) /\ Len(c) = 1 /\ c[1] = z
  OBVIOUS
<1>2. d \in Seq(T) /\ Len(d) = 3 /\ d[1] = x /\ d[2] = y /\ d[3] = z
  OBVIOUS
<1>3. Len(t) \in Nat
  OBVIOUS
<1>. HIDE DEF a, b, c, d
<1>4. /\ u \in Seq(T) /\ Len(u) = 1 + Len(t)
      /\ \A i \in 1..(1 + Len(t)) : u[i] = IF i <= 1 THEN c[i] ELSE t[i - 1]
  <2>1. /\ u \in Seq(T) /\ Len(u) = Len(c) + Len(t)
        /\ \A i \in 1..(Len(c) + Len(t)) : u[i] = IF i <= Len(c) THEN c[i] ELSE t[i - Len(c)]
    BY <1>1, ConcatProperties
  <2>. QED
    BY <1>1, <2>1
<1>. HIDE DEF u
<1>5. /\ v \in Seq(T) /\ Len(v) = 1 + Len(u)
      /\ \A i \in 1..(1 + Len(u)) : v[i] = IF i <= 1 THEN b[i] ELSE u[i - 1]
  <2>0. b \in Seq(T) /\ u \in Seq(T)
    BY <1>1, <1>4
  <2>1. /\ v \in Seq(T) /\ Len(v) = Len(b) + Len(u)
        /\ \A i \in 1..(Len(b) + Len(u)) : v[i] = IF i <= Len(b) THEN b[i] ELSE u[i - Len(b)]
    BY <2>0, ConcatProperties
  <2>. QED
    BY <1>1, <2>1
<1>. HIDE DEF v
<1>6. /\ a \o v \in Seq(T) /\ Len(a \o v) = 1 + Len(v)
      /\ \A i \in 1..(1 + Len(v)) : (a \o v)[i] = IF i <= 1 THEN a[i] ELSE v[i - 1]
  <2>0. a \in Seq(T) /\ v \in Seq(T)
    BY <1>1, <1>5
  <2>1. /\ a \o v \in Seq(T) /\ Len(a \o v) = Len(a) + Len(v)
        /\ \A i \in 1..(Len(a) + Len(v)) : (a \o v)[i] = IF i <= Len(a) THEN a[i] ELSE v[i - Len(a)]
    BY <2>0, ConcatProperties
  <2>. QED
    BY <1>1, <2>1
<1>7. /\ d \o t \in Seq(T) /\ Len(d \o t) = 3 + Len(t)
      /\ \A i \in 1..(3 + Len(t)) : (d \o t)[i] = IF i <= 3 THEN d[i] ELSE t[i - 3]
  <2>1. /\ d \o t \in Seq(T) /\ Len(d \o t) = Len(d) + Len(t)
        /\ \A i \in 1..(Len(d) + Len(t)) : (d \o t)[i] = IF i <= Len(d) THEN d[i] ELSE t[i - Len(d)]
    BY <1>2, ConcatProperties
  <2>. QED
    BY <1>2, <2>1
<1>8. d \o t = a \o v
  <2>. DEFINE p == d \o t
              q == a \o v
  <2>1. /\ p \in Seq(T) /\ Len(p) = 3 + Len(t) /\ q \in Seq(T) /\ Len(q) = 3 + Len(t)
    BY <1>3, <1>4, <1>5, <1>6, <1>7
  <2>2. ASSUME NEW i \in 1..(3 + Len(t))
        PROVE  p[i] = q[i]
    <3>. HIDE DEF p, q
    <3>1. p[i] = IF i <= 3 THEN d[i] ELSE t[i - 3]
      BY <1>7, <2>2 DEF p
    <3>2. q[i] = IF i <= 1 THEN a[i] ELSE v[i - 1]
      BY <1>3, <1>4, <1>5, <1>6, <2>2 DEF q
    <3>3. i > 1 => v[i - 1] = IF i <= 2 THEN b[i - 1] ELSE u[i - 2]
      BY <1>3, <1>4, <1>5, <2>2
    <3>4. i > 2 => u[i - 2] = IF i <= 3 THEN c[i - 2] ELSE t[i - 3]
      BY <1>3, <1>4, <2>2
    <3>. QED
      BY <1>1, <1>2, <1>3, <2>2, <3>1, <3>2, <3>3, <3>4
  <2>. HIDE DEF p, q
  <2>3. p = q
    BY <2>1, <2>2, SeqEqual
  <2>. QED
    BY <2>3 DEF p, q
<1>. QED
  BY <1>8 DEF a, b, c, d, u, v

\* Short lists are lists.
LEMMA Few ==
    ASSUME NEW S
    PROVE  /\ <<>> \in Seq(S)
           /\ \A a \in S : <<a>> \in Seq(S)
           /\ \A a, b \in S : <<a, b>> \in Seq(S)
           /\ \A a, b, c \in S : <<a, b, c>> \in Seq(S)
OBVIOUS

\* A visitor's turn: what it emits and leaves to do is of its own function.
LEMMA TurnKeeps ==
    ASSUME IInv, todo # <<>>, Head(todo).do # "endFunc", prog' = prog,
           Len(blocks') \in Nat, Len(blocks') >= Len(blocks), DOMAIN blocks' = 1..Len(blocks'),
           blocks' \in Seq(Seq(Instructions')), BranchesStayInside',
           owner' \in Seq(Owners), Len(owner') = Len(blocks'), \A b \in Blocks : owner'[b] = owner[b],
           at' \in 1..Len(blocks'), owner'[at'] = owner[at],
           NEW p \in Seq(OwnTasks(prog, 1..Len(blocks'), owner', owner[at])), todo' = p \o Tail(todo)
    PROVE  IInv'
<1>1. Tail(todo) \in Seq(Tasks) /\ HoldsOwn(owner, owner[at], Tail(todo))
  BY HoldsTail DEF IInv
<1>2. Tail(todo) \in Seq(Tasks') /\ HoldsOwn(owner', owner[at], Tail(todo))
  BY <1>1, TasksKeep
<1>3. Tasks' = TasksOf(prog, 1..Len(blocks'))
  BY DEF Tasks, TasksOf, Blocks
<1>. DEFINE T == OwnTasks(prog, 1..Len(blocks'), owner', owner[at])
<1>4. T \subseteq Tasks' /\ \A t \in T : t.do # "endFunc" /\ \A x \in DOMAIN t.at : owner'[t.at[x]] = owner[at]
  BY <1>3 DEF OwnTasks
<1>5. p \in Seq(T)
  OBVIOUS
<1>. HIDE DEF T
<1>6. p \in Seq(Tasks') /\ \A i \in 1..Len(p) : p[i] \in T
  BY <1>4, <1>5
<1>7. HoldsOwn(owner', owner[at], p \o Tail(todo))
  BY <1>2, <1>4, <1>6, HoldsMore
<1>8. todo' \in Seq(Tasks')
  BY <1>2, <1>6, ConcatProperties
<1>9. at' \in Blocks' /\ prog' \in Programs
  BY DEF Blocks, IInv
<1>. QED
  BY <1>7, <1>8, <1>9 DEF IInv

\* A turn that emits something.
LEMMA EmitTurn ==
    ASSUME IInv, todo # <<>>, Head(todo).do # "endFunc", prog' = prog,
           NEW new \in Nat, NEW code, Emit(new, code), DOMAIN code \subseteq 1..(Len(blocks) + new),
           owner' \in Seq(Owners), Len(owner') = Len(blocks) + new, \A b \in Blocks : owner'[b] = owner[b],
           \A b \in DOMAIN code : Fits(Len(blocks) + new, owner', b, code[b]),
           at' \in 1..(Len(blocks) + new), owner'[at'] = owner[at],
           NEW p \in Seq(OwnTasks(prog, 1..(Len(blocks) + new), owner', owner[at])),
           todo' = p \o Tail(todo)
    PROVE  IInv'
<1>1. /\ Len(blocks) \in Nat /\ Len(blocks') = Len(blocks) + new
      /\ blocks' \in Seq(Seq(Instructions')) /\ DOMAIN blocks' = 1..Len(blocks') /\ BranchesStayInside'
  BY EmitKeeps
<1>2. Len(blocks') \in Nat /\ Len(blocks') >= Len(blocks)
  BY <1>1
<1>3. /\ at' \in 1..Len(blocks') /\ Len(owner') = Len(blocks')
      /\ p \in Seq(OwnTasks(prog, 1..Len(blocks'), owner', owner[at]))
  BY <1>1
<1>. QED
  BY <1>1, <1>2, <1>3, TurnKeeps

\* A turn that emits nothing.
LEMMA QuietTurn ==
    ASSUME IInv, todo # <<>>, Head(todo).do # "endFunc", prog' = prog,
           UNCHANGED <<blocks, owner>>, at' \in Blocks, owner[at'] = owner[at],
           NEW p \in Seq(OwnTasks(prog, Blocks, owner, owner[at])), todo' = p \o Tail(todo)
    PROVE  IInv'
<1>1. Blocks = 1..Len(blocks') /\ Len(blocks) \in Nat /\ Len(blocks') = Len(blocks) /\ owner' = owner
      /\ DOMAIN blocks' = 1..Len(blocks')
  BY DEF IInv, Blocks
<1>2. blocks' \in Seq(Seq(Instructions')) /\ BranchesStayInside'
  BY DEF IInv, BranchesStayInside, StaysInside, Instructions, Blocks
<1>3. owner' \in Seq(Owners) /\ Len(owner') = Len(blocks') /\ at' \in 1..Len(blocks') /\ owner'[at'] = owner[at]
  BY <1>1 DEF IInv
<1>4. p \in Seq(OwnTasks(prog, 1..Len(blocks'), owner', owner[at]))
  BY <1>1
<1>5. Len(blocks') \in Nat /\ Len(blocks') >= Len(blocks) /\ \A b \in Blocks : owner'[b] = owner[b]
  BY <1>1
<1>. QED
  BY <1>1, <1>2, <1>3, <1>4, <1>5, TurnKeeps
-----------------------------------------------------------------------------
\* What a visitor finds.
LEMMA HeadIsTask ==
    ASSUME IInv, todo # <<>>
    PROVE  /\ Head(todo) \in Tasks /\ at \in Blocks /\ owner[at] \in Owners
           /\ Len(blocks) \in Nat /\ Blocks = 1..Len(blocks)
           /\ Head(todo).do # "endFunc" => \A x \in DOMAIN Head(todo).at : owner[Head(todo).at[x]] = owner[at]
<1>1. Head(todo) = todo[1] /\ Head(todo) \in Tasks
  BY DEF IInv
<1>2. Len(blocks) \in Nat /\ Blocks = 1..Len(blocks) /\ owner[at] \in Owners /\ at \in Blocks
  BY DEF IInv, Blocks
<1>3. todo \in Seq(Tasks) /\ HoldsOwn(owner, owner[at], todo)
  BY DEF IInv
<1>4. todo[1].do # "endFunc" => \A x \in DOMAIN todo[1].at : owner[todo[1].at[x]] = owner[at]
  <2>1. ASSUME NEW o, NEW f, NEW t \in Seq(Tasks), t # <<>>, HoldsOwn(o, f, t), t[1].do # "endFunc"
        PROVE  \A x \in DOMAIN t[1].at : o[t[1].at[x]] = f
    <3>1. DoneAfter(t, 0, 1) /\ 0 \in 0..Len(t) /\ 1 \in 1..Len(t)
      BY <2>1 DEF DoneAfter
    <3>. QED
      BY <2>1, <3>1 DEF HoldsOwn, Back
  <2>. QED
    BY <1>3, <2>1
<1>. QED
  BY <1>1, <1>2, <1>4

\* The parts of a statement, by its kind.
LEMMA PartsAreLists ==
    ASSUME IInv, NEW n \in Node
    PROVE  /\ prog.kind[n] \in Kinds /\ prog.parts[n] \in Seq(Seq(Node))
           /\ \A i \in 1..Len(prog.parts[n]) : prog.parts[n][i] \in Seq(Node)
           /\ prog.kind[n] \in {"if", "ifElse", "while", "for", "forEver", "func"} => prog.parts[n][1] \in Seq(Node)
           /\ prog.kind[n] = "ifElse" => prog.parts[n][2] \in Seq(Node)
<1>1. prog \in ProgramTable /\ HasParts(prog)
  BY ProgramsAssumption DEF IInv
<1>2. prog.kind[n] \in Kinds /\ prog.parts[n] \in Seq(Seq(Node))
  BY <1>1 DEF ProgramTable
<1>3. \A i \in 1..Len(prog.parts[n]) : prog.parts[n][i] \in Seq(Node)
  BY <1>2
<1>4. /\ prog.kind[n] \in {"if", "while", "for", "forEver", "func"} => Len(prog.parts[n]) = 1
      /\ prog.kind[n] = "ifElse" => Len(prog.parts[n]) = 2
  BY <1>1 DEF HasParts
<1>. QED
  BY <1>2, <1>3, <1>4

\* The statement a visitor has come to.
LEMMA StmtIsNode ==
    ASSUME IInv, NEW k, Stmt(k)
    PROVE  /\ todo # <<>> /\ Head(todo).do = "visit" /\ Node_ \in Node /\ prog.kind[Node_] \in k
           /\ Tail(Head(todo).list) \in Seq(Node)
<1>1. todo # <<>> /\ Head(todo).do = "visit" /\ Head(todo).list # <<>> /\ prog.kind[Node_] \in k
  BY DEF Stmt, Doing, Node_
<1>2. Head(todo).list \in Seq(Node)
  BY <1>1, HeadIsTask DEF Tasks
<1>. QED
  BY <1>1, <1>2 DEF Node_

\* Statements.
LEMMA SimpleVisitsKeep ==
    ASSUME IInv, VisitsEnd \/ VisitAct \/ VisitReturn \/ VisitNothing
    PROVE  IInv'
<1>. DEFINE T == OwnTasks(prog, Blocks, owner, owner[at])
<1>1. CASE VisitsEnd
  <2>1. todo # <<>> /\ Head(todo).do # "endFunc" /\ <<>> \in Seq(T)
    BY <1>1, Few DEF VisitsEnd, Doing
  <2>. HIDE DEF T
  <2>2. /\ todo' = <<>> \o Tail(todo) /\ prog' = prog /\ UNCHANGED <<blocks, owner>>
        /\ at' \in Blocks /\ owner[at'] = owner[at]
    BY <1>1, <2>1, HeadIsTask DEF VisitsEnd, Proceed
  <2>. QED
    BY <2>1, <2>2, QuietTurn DEF T
<1>2. CASE VisitNothing
  <2>1. PICK k : Stmt(k)
    BY <1>2 DEF VisitNothing
  <2>2. todo # <<>> /\ Head(todo).do # "endFunc" /\ Tail(Head(todo).list) \in Seq(Node)
    BY <2>1, StmtIsNode
  <2>3. <<Others>> \in Seq(T)
    BY <2>2, VisitIsTask, Few DEF Others
  <2>. HIDE DEF T
  <2>4. /\ todo' = <<Others>> \o Tail(todo) /\ prog' = prog /\ UNCHANGED <<blocks, owner>>
        /\ at' \in Blocks /\ owner[at'] = owner[at]
    BY <1>2, <2>2, HeadIsTask DEF VisitNothing, Proceed
  <2>. QED
    BY <2>2, <2>3, <2>4, QuietTurn DEF T
<1>3. CASE VisitAct \/ VisitReturn
  <2>1. PICK k : Stmt(k)
    BY <1>3 DEF VisitAct, VisitReturn
  <2>2. /\ todo # <<>> /\ Head(todo).do # "endFunc" /\ Tail(Head(todo).list) \in Seq(Node)
        /\ Node_ \in Node
    BY <2>1, StmtIsNode
  <2>3. Len(blocks) \in Nat /\ Blocks = 1..(Len(blocks) + 0) /\ at \in Blocks
    BY <2>2, HeadIsTask
  <2>4. <<Others>> \in Seq(T)
    BY <2>2, VisitIsTask, Few DEF Others
  <2>5. PICK s : s \in {<<Act(Node_, 0)>>, <<Ret(Node_)>>} /\ Emit(0, At(at, s))
    BY <1>3 DEF VisitAct, VisitReturn
  <2>6. Fits(Len(blocks) + 0, owner, at, s)
    <3>1. Len(blocks) + 0 \in Nat /\ Node_ \in Node \union {"none"} /\ 0 \in Nat
      BY <2>2, <2>3
    <3>2. Fits(Len(blocks) + 0, owner, at, <<Act(Node_, 0)>>) /\ Fits(Len(blocks) + 0, owner, at, <<Ret(Node_)>>)
      BY <3>1, FitsActs
    <3>. QED
      BY <2>5, <3>2
  <2>7. DOMAIN At(at, s) = {at} /\ At(at, s)[at] = s
    BY DEF At
  <2>. HIDE DEF T
  <2>8. /\ todo' = <<Others>> \o Tail(todo) /\ prog' = prog /\ UNCHANGED <<owner, at>>
    BY <1>3 DEF VisitAct, VisitReturn, Proceed
  <2>9. owner' \in Seq(Owners) /\ Len(owner') = Len(blocks) + 0
    BY <2>3, <2>8 DEF IInv
  <2>10. /\ DOMAIN At(at, s) \subseteq 1..(Len(blocks) + 0)
         /\ \A b \in DOMAIN At(at, s) : Fits(Len(blocks) + 0, owner', b, At(at, s)[b])
    BY <2>3, <2>6, <2>7, <2>8
  <2>11. <<Others>> \in Seq(OwnTasks(prog, 1..(Len(blocks) + 0), owner', owner[at]))
    BY <2>3, <2>4, <2>8 DEF T
  <2>12. at' \in 1..(Len(blocks) + 0) /\ owner'[at'] = owner[at] /\ \A b \in Blocks : owner'[b] = owner[b]
    BY <2>3, <2>8
  <2>. QED
    BY <2>2, <2>5, <2>8, <2>9, <2>10, <2>11, <2>12, EmitTurn
<1>. QED
  BY <1>1, <1>2, <1>3

\* New blocks of the function at hand.
LEMMA NewBlocksAre ==
    ASSUME IInv, NEW new \in Nat, Own(new, owner[at])
    PROVE  /\ Len(blocks) \in Nat /\ Len(blocks) + new \in Nat
           /\ Blocks = 1..Len(blocks) /\ Blocks \subseteq 1..(Len(blocks) + new) /\ at \in Blocks
           /\ owner' \in Seq(Owners) /\ Len(owner') = Len(blocks) + new
           /\ \A b \in Blocks : owner'[b] = owner[b]
           /\ \A i \in 1..new : NewBlock(i) \in 1..(Len(blocks) + new) /\ NewBlock(i) \notin Blocks
                                /\ owner'[NewBlock(i)] = owner[at]
<1>1. /\ Len(blocks) \in Nat /\ Blocks = 1..Len(blocks) /\ at \in Blocks /\ owner[at] \in Owners
  BY DEF IInv, Blocks
<1>2. /\ owner' \in Seq(Owners) /\ Len(owner') = Len(blocks) + new
      /\ \A b \in Blocks : owner'[b] = owner[b]
      /\ \A i \in 1..new : owner'[Len(blocks) + i] = owner[at]
  BY <1>1, OwnKeeps
<1>. QED
  BY <1>1, <1>2 DEF NewBlock

\* A turn that makes blocks of the function at hand.
LEMMA GrowTurn ==
    ASSUME IInv, todo # <<>>, Head(todo).do # "endFunc", prog' = prog,
           NEW new \in Nat, Own(new, owner[at]), NEW code, Emit(new, code),
           \A b \in DOMAIN code :
              b \in 1..(Len(blocks) + new) /\ Fits(Len(blocks) + new, owner', b, code[b]),
           at' \in 1..(Len(blocks) + new), owner'[at'] = owner[at],
           NEW p \in Seq(OwnTasks(prog, 1..(Len(blocks) + new), owner', owner[at])),
           todo' = p \o Tail(todo)
    PROVE  IInv'
BY NewBlocksAre, EmitTurn

\* The visitors of an if keep the invariant.
LEMMA IfKeeps ==
    ASSUME IInv, VisitIf \/ EndThen \/ EndIf
    PROVE  IInv'
<1>1. CASE VisitIf
  <2>1. /\ todo # <<>> /\ Head(todo).do = "visit" /\ Tail(Head(todo).list) \in Seq(Node)
        /\ Node_ \in Node /\ prog.kind[Node_] \in {"if", "ifElse"}
    BY <1>1, StmtIsNode DEF VisitIf
  <2>. DEFINE m == Len(blocks) + 2
              code == At(at, <<CondBranch(Node_, 0, NewBlock(1), NewBlock(2))>>)
              T == OwnTasks(prog, 1..m, owner', owner[at])
              p == <<Part(Node_, 1), Then("endThen", Node_, 0, <<NewBlock(2)>>), Others>>
  <2>2. /\ Own(2, owner[at]) /\ Emit(2, code) /\ at' = NewBlock(1) /\ prog' = prog
        /\ todo' = p \o Tail(todo)
    BY <1>1 DEF VisitIf, Proceed
  <2>3. /\ m \in Nat /\ at \in 1..m /\ owner'[at] = owner[at]
        /\ NewBlock(1) \in 1..m /\ NewBlock(2) \in 1..m
        /\ owner'[NewBlock(1)] = owner[at] /\ owner'[NewBlock(2)] = owner[at]
    BY <2>2, NewBlocksAre
  <2>. HIDE DEF m
  <2>4. DOMAIN code = {at} /\ Fits(m, owner', at, code[at])
    BY <2>1, <2>3, FitsTest DEF At
  <2>5. Part(Node_, 1) \in T /\ Others \in T
    BY <2>1, PartsAreLists, VisitIsTask DEF Part, Others
  <2>6. Then("endThen", Node_, 0, <<NewBlock(2)>>) \in T
    BY <2>1, <2>3, TasksAre
  <2>. HIDE DEF T
  <2>7. p \in Seq(T)
    BY <2>5, <2>6, Few
  <2>. HIDE DEF p, code
  <2>. QED
    BY <2>1, <2>2, <2>3, <2>4, <2>7, GrowTurn DEF m, T
<1>2. CASE EndThen
  <2>1. /\ todo # <<>> /\ Head(todo).do = "endThen"
    BY <1>2 DEF EndThen, Doing
  <2>2. /\ Head(todo) \in Tasks /\ at \in Blocks /\ Head(todo).at[1] \in Blocks /\ Head(todo).n \in Node
        /\ owner[Head(todo).at[1]] = owner[at] /\ prog.kind[Head(todo).n] \in {"if", "ifElse"}
    BY <2>1, HeadIsTask, TasksHold
  <2>. DEFINE T == OwnTasks(prog, Blocks, owner, owner[at])
              n == Head(todo).n
              end == Then("endIf", n, 0, <<at>>)
              p == IF prog.kind[n] = "ifElse" THEN <<Part(n, 2), end>> ELSE <<end>>
  <2>3. /\ at' = Head(todo).at[1] /\ prog' = prog /\ UNCHANGED <<blocks, owner>>
        /\ todo' = p \o Tail(todo)
    BY <1>2 DEF EndThen, Proceed
  <2>4. end \in T
    BY <2>2, TasksAre
  <2>5. prog.kind[n] = "ifElse" => Part(n, 2) \in T
    BY <2>2, PartsAreLists, VisitIsTask DEF Part
  <2>. HIDE DEF T, end
  <2>6. p \in Seq(T)
    BY <2>4, <2>5, Few
  <2>. HIDE DEF p
  <2>. QED
    BY <2>1, <2>2, <2>3, <2>6, QuietTurn DEF T
<1>3. CASE EndIf
  <2>1. /\ todo # <<>> /\ Head(todo).do = "endIf"
    BY <1>3 DEF EndIf, Doing
  <2>2. /\ Head(todo) \in Tasks /\ at \in Blocks /\ Head(todo).at[1] \in Blocks
        /\ owner[Head(todo).at[1]] = owner[at]
    BY <2>1, HeadIsTask, TasksHold
  <2>. DEFINE m == Len(blocks) + 1
              code == [b \in {x \in {at, Head(todo).at[1]} : ~HasTerminator(x)} |-> <<Branch(NewBlock(1))>>]
  <2>3. /\ Own(1, owner[at]) /\ Emit(1, code) /\ at' = NewBlock(1) /\ prog' = prog
        /\ todo' = <<>> \o Tail(todo)
    BY <1>3 DEF EndIf, Proceed
  <2>4. /\ m \in Nat /\ NewBlock(1) \in 1..m /\ owner'[NewBlock(1)] = owner[at]
        /\ \A b \in Blocks : b \in 1..m /\ owner'[b] = owner[b]
    BY <2>3, NewBlocksAre
  <2>. HIDE DEF m
  <2>5. \A b \in DOMAIN code : b \in Blocks /\ owner[b] = owner[at] /\ code[b] = <<Branch(NewBlock(1))>>
    BY <2>2
  <2>6. \A b \in DOMAIN code : b \in 1..m /\ Fits(m, owner', b, code[b])
    BY <2>4, <2>5, FitsBranch
  <2>7. <<>> \in Seq(OwnTasks(prog, 1..m, owner', owner[at]))
    BY Few
  <2>. HIDE DEF code
  <2>. QED
    BY <2>1, <2>3, <2>4, <2>6, <2>7, GrowTurn DEF m
<1>. QED
  BY <1>1, <1>2, <1>3

\* A turn that appends to the blocks there are.
LEMMA AppendTurn ==
    ASSUME IInv, todo # <<>>, Head(todo).do # "endFunc", prog' = prog, UNCHANGED owner,
           NEW code, Emit(0, code), \A b \in DOMAIN code : b \in Blocks /\ Fits(Len(blocks), owner, b, code[b]),
           at' \in Blocks, owner[at'] = owner[at],
           NEW p \in Seq(OwnTasks(prog, Blocks, owner, owner[at])), todo' = p \o Tail(todo)
    PROVE  IInv'
<1>1. Len(blocks) \in Nat /\ Blocks = 1..(Len(blocks) + 0) /\ Len(blocks) + 0 = Len(blocks)
  BY HeadIsTask
<1>2. /\ owner' \in Seq(Owners) /\ Len(owner') = Len(blocks) + 0 /\ \A b \in Blocks : owner'[b] = owner[b]
      /\ at' \in 1..(Len(blocks) + 0) /\ owner'[at'] = owner[at]
  BY <1>1 DEF IInv
<1>3. /\ DOMAIN code \subseteq 1..(Len(blocks) + 0)
      /\ \A b \in DOMAIN code : Fits(Len(blocks) + 0, owner', b, code[b])
  BY <1>1
<1>4. p \in Seq(OwnTasks(prog, 1..(Len(blocks) + 0), owner', owner[at]))
  BY <1>1
<1>. QED
  BY <1>2, <1>3, <1>4, EmitTurn

\* Those of a while.
LEMMA WhileKeeps ==
    ASSUME IInv, VisitWhile \/ EndWhile
    PROVE  IInv'
<1>1. CASE VisitWhile
  <2>1. /\ todo # <<>> /\ Head(todo).do = "visit" /\ Tail(Head(todo).list) \in Seq(Node)
        /\ Node_ \in Node /\ prog.kind[Node_] = "while"
    BY <1>1, StmtIsNode DEF VisitWhile
  <2>. DEFINE m == Len(blocks) + 3
              header == NewBlock(1)
              body == NewBlock(2)
              exit == NewBlock(3)
              test == IF Valued THEN CondBranch(Node_, 0, body, exit) ELSE Branch(exit)
              code == [b \in {at, header} |-> IF b = at THEN <<Branch(header)>> ELSE <<test>>]
              T == OwnTasks(prog, 1..m, owner', owner[at])
              end == Then("endWhile", Node_, 0, <<header, exit>>)
              p == <<Part(Node_, 1), end, Others>>
  <2>2. /\ Own(3, owner[at]) /\ Emit(3, code) /\ at' = body /\ prog' = prog
        /\ todo' = p \o Tail(todo)
    BY <1>1 DEF VisitWhile, Proceed
  <2>3. /\ m \in Nat /\ at \in 1..m /\ owner'[at] = owner[at]
        /\ header \in 1..m /\ body \in 1..m /\ exit \in 1..m
        /\ owner'[header] = owner[at] /\ owner'[body] = owner[at] /\ owner'[exit] = owner[at]
    BY <2>2, NewBlocksAre
  <2>. HIDE DEF m, header, body, exit
  <2>4. Fits(m, owner', at, <<Branch(header)>>)
    BY <2>3, FitsBranch
  <2>5. Fits(m, owner', header, <<test>>)
    BY <2>1, <2>3, FitsBranch, FitsTest
  <2>. HIDE DEF test
  <2>6. \A b \in DOMAIN code : b \in 1..m /\ Fits(m, owner', b, code[b])
    BY <2>3, <2>4, <2>5
  <2>7. Part(Node_, 1) \in T /\ Others \in T
    BY <2>1, PartsAreLists, VisitIsTask DEF Part, Others
  <2>8. end \in T
    BY <2>1, <2>3, TasksAre
  <2>. HIDE DEF T, end
  <2>9. p \in Seq(T)
    BY <2>7, <2>8, Few
  <2>. HIDE DEF p, code
  <2>. QED
    BY <2>1, <2>2, <2>3, <2>6, <2>9, GrowTurn DEF m, T
<1>2. CASE EndWhile
  <2>1. /\ todo # <<>> /\ Head(todo).do = "endWhile"
    BY <1>2 DEF EndWhile, Doing
  <2>2. /\ Head(todo) \in Tasks /\ at \in Blocks /\ Len(blocks) \in Nat /\ Blocks = 1..Len(blocks)
        /\ Head(todo).at[1] \in Blocks /\ Head(todo).at[2] \in Blocks
        /\ owner[Head(todo).at[1]] = owner[at] /\ owner[Head(todo).at[2]] = owner[at]
    BY <2>1, HeadIsTask, TasksHold
  <2>. DEFINE code == At(at, <<Branch(Head(todo).at[1])>>)
  <2>3. /\ Emit(0, code) /\ at' = Head(todo).at[2] /\ prog' = prog /\ UNCHANGED owner
        /\ todo' = <<>> \o Tail(todo)
    BY <1>2 DEF EndWhile, Proceed
  <2>4. \A b \in DOMAIN code : b \in Blocks /\ Fits(Len(blocks), owner, b, code[b])
    BY <2>2, FitsBranch DEF At
  <2>. HIDE DEF code
  <2>. QED
    BY <2>1, <2>2, <2>3, <2>4, Few, AppendTurn
<1>. QED
  BY <1>1, <1>2

\* Those of a for.
LEMMA ForKeeps ==
    ASSUME IInv, VisitFor \/ EndFor
    PROVE  IInv'
<1>1. CASE VisitFor
  <2>1. /\ todo # <<>> /\ Head(todo).do = "visit" /\ Tail(Head(todo).list) \in Seq(Node)
        /\ Node_ \in Node /\ prog.kind[Node_] \in {"for", "forEver"}
    BY <1>1, StmtIsNode DEF VisitFor
  <2>. DEFINE m == Len(blocks) + 4
              header == NewBlock(1)
              body == NewBlock(2)
              step == NewBlock(3)
              exit == NewBlock(4)
              full == prog.kind[Node_] = "for"
              init == IF full THEN <<Act(Node_, 0)>> ELSE <<>>
              test == IF ~full THEN Branch(body)
                      ELSE IF Valued THEN CondBranch(Node_, 1, body, exit) ELSE Branch(exit)
              code == [b \in {at, header} |-> IF b = at THEN init \o <<Branch(header)>> ELSE <<test>>]
              T == OwnTasks(prog, 1..m, owner', owner[at])
              end == Then("endFor", Node_, 0, <<header, step, exit>>)
              p == <<Part(Node_, 1), end, Others>>
  <2>2. /\ Own(4, owner[at]) /\ Emit(4, code) /\ at' = body /\ prog' = prog
        /\ todo' = p \o Tail(todo)
    BY <1>1 DEF VisitFor, Proceed
  <2>3. /\ m \in Nat /\ at \in 1..m /\ owner'[at] = owner[at]
        /\ header \in 1..m /\ body \in 1..m /\ step \in 1..m /\ exit \in 1..m
        /\ owner'[header] = owner[at] /\ owner'[body] = owner[at]
        /\ owner'[step] = owner[at] /\ owner'[exit] = owner[at]
    BY <2>2, NewBlocksAre
  <2>. HIDE DEF m, header, body, step, exit
  <2>4. Fits(m, owner', at, init \o <<Branch(header)>>)
    <3>1. Fits(m, owner', at, <<Branch(header)>>)
      BY <2>3, FitsBranch
    <3>2. Fits(m, owner', at, init)
      BY <2>1, <2>3, FitsActs
    <3>. QED
      BY <2>3, <3>1, <3>2, FitsBoth
  <2>5. Fits(m, owner', header, <<test>>)
    BY <2>1, <2>3, FitsBranch, FitsTest
  <2>. HIDE DEF init, test
  <2>6. \A b \in DOMAIN code : b \in 1..m /\ Fits(m, owner', b, code[b])
    BY <2>3, <2>4, <2>5
  <2>7. Part(Node_, 1) \in T /\ Others \in T
    BY <2>1, PartsAreLists, VisitIsTask DEF Part, Others
  <2>8. end \in T
    BY <2>1, <2>3, TasksAre
  <2>. HIDE DEF T, end
  <2>9. p \in Seq(T)
    BY <2>7, <2>8, Few
  <2>. HIDE DEF p, code
  <2>. QED
    BY <2>1, <2>2, <2>3, <2>6, <2>9, GrowTurn DEF m, T
<1>2. CASE EndFor
  <2>1. /\ todo # <<>> /\ Head(todo).do = "endFor"
    BY <1>2 DEF EndFor, Doing
  <2>2. /\ Head(todo) \in Tasks /\ at \in Blocks /\ Len(blocks) \in Nat /\ Blocks = 1..Len(blocks)
        /\ Head(todo).n \in Node
        /\ Head(todo).at[1] \in Blocks /\ Head(todo).at[2] \in Blocks /\ Head(todo).at[3] \in Blocks
        /\ owner[Head(todo).at[1]] = owner[at] /\ owner[Head(todo).at[2]] = owner[at]
        /\ owner[Head(todo).at[3]] = owner[at]
    BY <2>1, HeadIsTask, TasksHold
  <2>. DEFINE n == Head(todo).n
              header == Head(todo).at[1]
              step == Head(todo).at[2]
              last == IF prog.kind[n] = "for" THEN <<Act(n, 2)>> ELSE <<>>
              code == [b \in {at, step} |-> IF b = at THEN <<Branch(step)>> ELSE last \o <<Branch(header)>>]
  <2>3. /\ Emit(0, code) /\ at' = Head(todo).at[3] /\ prog' = prog /\ UNCHANGED owner
        /\ todo' = <<>> \o Tail(todo)
    BY <1>2 DEF EndFor, Proceed
  <2>. HIDE DEF header, step
  <2>4. Fits(Len(blocks), owner, at, <<Branch(step)>>)
    BY <2>2, FitsBranch DEF step
  <2>5. Fits(Len(blocks), owner, step, last \o <<Branch(header)>>)
    <3>1. Fits(Len(blocks), owner, step, <<Branch(header)>>)
      BY <2>2, FitsBranch DEF header, step
    <3>2. Fits(Len(blocks), owner, step, last)
      BY <2>2, FitsActs
    <3>. QED
      BY <2>2, <3>1, <3>2, FitsBoth
  <2>. HIDE DEF last
  <2>6. \A b \in DOMAIN code : b \in Blocks /\ Fits(Len(blocks), owner, b, code[b])
    BY <2>2, <2>4, <2>5 DEF step
  <2>. HIDE DEF code
  <2>. QED
    BY <2>1, <2>2, <2>3, <2>6, Few, AppendTurn
<1>. QED
  BY <1>1, <1>2

\* Those of a match.
LEMMA MatchKeeps ==
    ASSUME IInv, VisitMatch \/ VisitArm \/ EndArm \/ EndMatch
    PROVE  IInv'
<1>1. CASE VisitMatch
  <2>1. /\ todo # <<>> /\ Head(todo).do = "visit" /\ Tail(Head(todo).list) \in Seq(Node)
        /\ Node_ \in Node
    BY <1>1, StmtIsNode DEF VisitMatch
  <2>. DEFINE m == Len(blocks) + 1
              T == OwnTasks(prog, 1..m, owner', owner[at])
              p == <<Then("arm", Node_, 1, <<NewBlock(1)>>), Others>>
  <2>2. /\ Own(1, owner[at]) /\ Emit(1, <<>>) /\ at' = at /\ prog' = prog
        /\ todo' = p \o Tail(todo)
    BY <1>1 DEF VisitMatch, Proceed
  <2>3. /\ m \in Nat /\ at \in 1..m /\ owner'[at] = owner[at]
        /\ NewBlock(1) \in 1..m /\ owner'[NewBlock(1)] = owner[at]
    BY <2>2, NewBlocksAre
  <2>. HIDE DEF m
  <2>4. Others \in T
    BY <2>1, VisitIsTask DEF Others
  <2>5. Then("arm", Node_, 1, <<NewBlock(1)>>) \in T
    <3>1. PICK i \in Nat : i = 1 /\ i > 0
      OBVIOUS
    <3>. QED
      BY <2>1, <2>3, <3>1, TasksAre
  <2>. HIDE DEF T
  <2>6. p \in Seq(T)
    BY <2>4, <2>5, Few
  <2>. HIDE DEF p
  <2>7. PICK none : none = <<>> /\ DOMAIN none = {}
    OBVIOUS
  <2>. QED
    BY <2>1, <2>2, <2>3, <2>6, <2>7, GrowTurn DEF m, T
<1>2. CASE VisitArm
  <2>. DEFINE n == Head(todo).n
              i == Head(todo).i
              exit == Head(todo).at[1]
              m == Len(blocks) + 2
              arm == NewBlock(1)
              next == NewBlock(2)
              test == IF ArmIsDefault(prog, n, i) THEN Branch(arm) ELSE CondBranch(n, i, arm, next)
              code == At(at, <<test>>)
              T == OwnTasks(prog, 1..m, owner', owner[at])
              end == Then("endArm", n, i, <<arm, next, exit>>)
              more == Then("arm", n, i + 1, <<exit>>)
              p == <<Part(n, i), end, more>>
  <2>1. /\ todo # <<>> /\ Head(todo).do = "arm" /\ i <= Len(prog.parts[n])
    BY <1>2 DEF VisitArm, Doing
  <2>2. /\ Head(todo) \in Tasks /\ at \in Blocks /\ exit \in Blocks /\ n \in Node /\ i \in Nat /\ i > 0
        /\ owner[exit] = owner[at]
    BY <2>1, HeadIsTask, TasksHold
  <2>3. /\ Own(2, owner[at]) /\ Emit(2, code) /\ at' = arm /\ prog' = prog
        /\ todo' = p \o Tail(todo)
    BY <1>2 DEF VisitArm, Proceed
  <2>4. /\ m \in Nat /\ at \in 1..m /\ owner'[at] = owner[at]
        /\ arm \in 1..m /\ next \in 1..m /\ owner'[arm] = owner[at] /\ owner'[next] = owner[at]
        /\ exit \in 1..m /\ owner'[exit] = owner[at]
    BY <2>2, <2>3, NewBlocksAre
  <2>5. Part(n, i) \in T
    <3>1. prog.parts[n][i] \in Seq(Node)
      <4>1. Len(prog.parts[n]) \in Nat
        BY <2>2, PartsAreLists
      <4>2. i \in 1..Len(prog.parts[n])
        BY <2>1, <2>2, <4>1
      <4>. QED
        BY <2>2, <4>2, PartsAreLists
    <3>. QED
      BY <3>1, VisitIsTask DEF Part
  <2>. HIDE DEF m, arm, next, exit, n, i
  <2>6. Fits(m, owner', at, <<test>>)
    BY <2>2, <2>4, FitsBranch, FitsTest
  <2>7. DOMAIN code = {at} /\ code[at] = <<test>>
    BY DEF At
  <2>8. end \in T
    BY <2>2, <2>4, TasksAre
  <2>9. more \in T
    <3>1. i + 1 \in Nat /\ i + 1 > 0
      BY <2>2
    <3>. QED
      BY <2>2, <2>4, <3>1, TasksAre
  <2>. HIDE DEF T, end, more, code, test
  <2>10. p \in Seq(T)
    BY <2>5, <2>8, <2>9, Few
  <2>. HIDE DEF p
  <2>. QED
    BY <2>1, <2>3, <2>4, <2>6, <2>7, <2>10, GrowTurn DEF m, T
<1>3. CASE EndArm
  <2>1. /\ todo # <<>> /\ Head(todo).do = "endArm"
    BY <1>3 DEF EndArm, Doing
  <2>2. /\ Head(todo) \in Tasks /\ at \in Blocks /\ Len(blocks) \in Nat /\ Blocks = 1..Len(blocks)
        /\ Head(todo).at[2] \in Blocks /\ Head(todo).at[3] \in Blocks
        /\ owner[Head(todo).at[2]] = owner[at] /\ owner[Head(todo).at[3]] = owner[at]
    BY <2>1, HeadIsTask, TasksHold
  <2>. DEFINE code == IF HasTerminator(Head(todo).at[1]) THEN <<>>
                      ELSE At(at, <<Branch(Head(todo).at[3])>>)
  <2>3. /\ Emit(0, code) /\ at' = Head(todo).at[2] /\ prog' = prog /\ UNCHANGED owner
        /\ todo' = <<>> \o Tail(todo)
    BY <1>3 DEF EndArm, Proceed
  <2>4. \A b \in DOMAIN code : b \in Blocks /\ Fits(Len(blocks), owner, b, code[b])
    <3>1. CASE HasTerminator(Head(todo).at[1])
      BY <3>1
    <3>2. CASE ~HasTerminator(Head(todo).at[1])
      <4>1. Fits(Len(blocks), owner, at, <<Branch(Head(todo).at[3])>>)
        BY <2>2, FitsBranch
      <4>. QED
        BY <2>2, <3>2, <4>1 DEF At
    <3>. QED
      BY <3>1, <3>2
  <2>. HIDE DEF code
  <2>. QED
    BY <2>1, <2>2, <2>3, <2>4, Few, AppendTurn
<1>4. CASE EndMatch
  <2>1. /\ todo # <<>> /\ Head(todo).do = "arm"
    BY <1>4 DEF EndMatch, Doing
  <2>2. /\ Head(todo) \in Tasks /\ at \in Blocks /\ Len(blocks) \in Nat /\ Blocks = 1..Len(blocks)
        /\ Head(todo).at[1] \in Blocks /\ owner[Head(todo).at[1]] = owner[at]
    BY <2>1, HeadIsTask, TasksHold
  <2>. DEFINE code == At(at, <<Branch(Head(todo).at[1])>>)
  <2>3. /\ Emit(0, code) /\ at' = Head(todo).at[1] /\ prog' = prog /\ UNCHANGED owner
        /\ todo' = <<>> \o Tail(todo)
    BY <1>4 DEF EndMatch, Proceed
  <2>4. \A b \in DOMAIN code : b \in Blocks /\ Fits(Len(blocks), owner, b, code[b])
    BY <2>2, FitsBranch DEF At
  <2>. HIDE DEF code
  <2>. QED
    BY <2>1, <2>2, <2>3, <2>4, Few, AppendTurn
<1>. QED
  BY <1>1, <1>2, <1>3, <1>4

\* A function: its entry block is its own, and behind its end the visitors go on
\* where they were.
LEMMA FuncKeeps ==
    ASSUME IInv, VisitFunc \/ EndFunc
    PROVE  IInv'
<1>1. CASE VisitFunc
  <2>1. /\ todo # <<>> /\ Head(todo).do = "visit" /\ Tail(Head(todo).list) \in Seq(Node)
        /\ Node_ \in Node /\ prog.kind[Node_] = "func"
    BY <1>1, StmtIsNode DEF VisitFunc
  <2>. DEFINE m == Len(blocks) + 1
              end == Then("endFunc", Node_, 0, <<at>>)
              T == TasksOf(prog, 1..m)
              t == Tail(todo)
              f == owner[at]
  <2>2. /\ Own(1, Node_) /\ Emit(1, <<>>) /\ at' = NewBlock(1) /\ prog' = prog
        /\ todo' = <<Part(Node_, 1), end, Others>> \o t
    BY <1>1 DEF VisitFunc, Proceed
  <2>3. /\ Len(blocks) \in Nat /\ Blocks = 1..Len(blocks) /\ at \in Blocks
    BY <2>1, HeadIsTask
  <2>4. /\ owner' \in Seq(Owners) /\ Len(owner') = m /\ owner'[NewBlock(1)] = Node_
        /\ \A b \in Blocks : owner'[b] = owner[b]
    BY <2>1, <2>2, OwnKeeps DEF Owners, NewBlock
  <2>5. /\ Len(blocks') = m /\ m \in Nat /\ blocks' \in Seq(Seq(Instructions'))
        /\ DOMAIN blocks' = 1..Len(blocks') /\ BranchesStayInside'
    <3>1. PICK none : none = <<>> /\ DOMAIN none = {}
      OBVIOUS
    <3>2. Emit(1, none) /\ DOMAIN none \subseteq 1..(Len(blocks) + 1)
          /\ \A b \in DOMAIN none : Fits(Len(blocks) + 1, owner', b, none[b])
      BY <2>2, <3>1
    <3>. QED
      BY <2>3, <2>4, <3>2, EmitKeeps
  <2>6. t \in Seq(Tasks') /\ HoldsOwn(owner', f, t)
    <3>1. t \in Seq(Tasks) /\ HoldsOwn(owner, f, t)
      BY <2>1, HoldsTail DEF IInv
    <3>2. Len(blocks') \in Nat /\ Len(blocks') >= Len(blocks)
      BY <2>3, <2>5
    <3>. QED
      BY <2>2, <2>4, <2>5, <3>1, <3>2, TasksKeep
  <2>7. Tasks' = T
    BY <2>2, <2>5 DEF Tasks, TasksOf, Blocks
  <2>8. end \in T /\ end.do = "endFunc" /\ owner'[end.at[1]] = f
    <3>1. at \in 1..m
      BY <2>3
    <3>2. end \in T
      BY <2>1, <3>1, EndFuncIsTask
    <3>3. end.do = "endFunc" /\ end.at[1] = at
      BY DEF Then
    <3>. QED
      BY <2>3, <2>4, <3>2, <3>3
  <2>9. ASSUME NEW g
        PROVE  Part(Node_, 1) \in OwnTasks(prog, 1..m, owner', g) /\ Others \in OwnTasks(prog, 1..m, owner', g)
    BY <2>1, PartsAreLists, VisitIsTask DEF Part, Others
  <2>10. /\ Part(Node_, 1) \in T /\ Part(Node_, 1).do # "endFunc"
         /\ Others \in T /\ Others.do # "endFunc"
         /\ \A g : /\ \A x \in DOMAIN Part(Node_, 1).at : owner'[Part(Node_, 1).at[x]] = g
                   /\ \A x \in DOMAIN Others.at : owner'[Others.at[x]] = g
    BY <2>9 DEF OwnTasks
  <2>. DEFINE others == Others
              part == Part(Node_, 1)
  <2>. HIDE DEF t, f, end, m, T, others, part
  <2>11. t \in Seq(T)
    BY <2>6, <2>7
  <2>12. /\ <<others>> \in Seq(T) /\ <<end>> \in Seq(T) /\ <<part>> \in Seq(T)
         /\ <<part, end, others>> \in Seq(T)
    BY <2>8, <2>10, Few DEF others, part
  <2>13. HoldsOwn(owner', f, <<others>> \o t) /\ <<others>> \o t \in Seq(T)
    <3>1. \A i \in 1..Len(<<others>>) :
             <<others>>[i].do # "endFunc" /\ \A x \in DOMAIN <<others>>[i].at : owner'[<<others>>[i].at[x]] = f
      BY <2>10 DEF others
    <3>. QED
      BY <2>6, <2>11, <2>12, <3>1, HoldsMore, ConcatProperties
  <2>14. HoldsOwn(owner', Node_, <<end>> \o (<<others>> \o t)) /\ <<end>> \o (<<others>> \o t) \in Seq(T)
    BY <2>8, <2>12, <2>13, HoldsInside, ConcatProperties
  <2>15. HoldsOwn(owner', Node_, <<part>> \o (<<end>> \o (<<others>> \o t)))
    <3>1. \A i \in 1..Len(<<part>>) :
             <<part>>[i].do # "endFunc" /\ \A x \in DOMAIN <<part>>[i].at : owner'[<<part>>[i].at[x]] = Node_
      BY <2>10 DEF part
    <3>. QED
      BY <2>12, <2>14, <3>1, HoldsMore
  <2>16. todo' = <<part>> \o (<<end>> \o (<<others>> \o t)) /\ todo' \in Seq(T)
    <3>2. /\ part \in T /\ end \in T /\ others \in T
      BY <2>8, <2>10 DEF part, others
    <3>4. <<part, end, others>> \o t = <<part>> \o (<<end>> \o (<<others>> \o t))
      <4>1. PICK S, p, e, o, r : S = T /\ p = part /\ e = end /\ o = others /\ r = t
        OBVIOUS
      <4>2. p \in S /\ e \in S /\ o \in S /\ r \in Seq(S)
        BY <2>11, <3>2, <4>1
      <4>3. <<p, e, o>> \o r = <<p>> \o (<<e>> \o (<<o>> \o r))
        BY <4>2, ThreeInFront
      <4>. QED
        BY <4>1, <4>3
    <3>3. <<part>> \o (<<end>> \o (<<others>> \o t)) \in Seq(T)
      BY <2>12, <2>14, ConcatProperties
    <3>. QED
      BY <2>2, <3>3, <3>4 DEF others, part
  <2>17. at' \in Blocks' /\ owner'[at'] = Node_ /\ prog' \in Programs
    BY <2>2, <2>3, <2>4, <2>5 DEF IInv, Blocks, NewBlock, m
  <2>18. Len(owner') = Len(blocks')
    BY <2>4, <2>5
  <2>. QED
    BY <2>4, <2>5, <2>7, <2>15, <2>16, <2>17, <2>18 DEF IInv
<1>2. CASE EndFunc
  <2>1. /\ todo # <<>> /\ Head(todo).do = "endFunc"
    BY <1>2 DEF EndFunc, Doing
  <2>2. /\ Head(todo) \in Tasks /\ at \in Blocks /\ Len(blocks) \in Nat /\ Blocks = 1..(Len(blocks) + 0)
        /\ Head(todo).at[1] \in Blocks
    BY <2>1, HeadIsTask, TasksHold
  <2>. DEFINE code == IF HasTerminator(at) THEN <<>> ELSE At(at, <<Ret("none")>>)
  <2>3. /\ Emit(0, code) /\ at' = Head(todo).at[1] /\ prog' = prog /\ owner' = owner
        /\ todo' = <<>> \o Tail(todo)
    BY <1>2 DEF EndFunc, Proceed
  <2>4. /\ DOMAIN code \subseteq 1..(Len(blocks) + 0)
        /\ \A b \in DOMAIN code : Fits(Len(blocks) + 0, owner', b, code[b])
    <3>1. CASE HasTerminator(at)
      BY <3>1
    <3>2. CASE ~HasTerminator(at)
      <4>1. Len(blocks) + 0 \in Nat /\ "none" \in Node \union {"none"} /\ 0 \in Nat
        BY <2>2
      <4>2. Fits(Len(blocks) + 0, owner', at, <<Ret("none")>>)
        BY <4>1, FitsActs
      <4>3. DOMAIN code = {at} /\ code[at] = <<Ret("none")>>
        BY <3>2 DEF At
      <4>. QED
        BY <2>2, <4>2, <4>3
    <3>. QED
      BY <3>1, <3>2
  <2>. HIDE DEF code
  <2>5. /\ owner' \in Seq(Owners) /\ Len(owner') = Len(blocks) + 0 /\ \A b \in Blocks : owner'[b] = owner[b]
    BY <2>2, <2>3 DEF IInv
  <2>6. /\ Len(blocks') = Len(blocks) + 0 /\ blocks' \in Seq(Seq(Instructions'))
        /\ DOMAIN blocks' = 1..Len(blocks') /\ Blocks' = Blocks /\ BranchesStayInside'
    BY <2>2, <2>3, <2>4, <2>5, EmitKeeps
  <2>7. Tail(todo) \in Seq(Tasks) /\ HoldsOwn(owner, owner[Head(todo).at[1]], Tail(todo))
    BY <2>1, HoldsTail DEF IInv
  <2>8. todo' = Tail(todo)
    <3>1. \A s \in Seq(Tasks) : <<>> \o s = s
      BY ConcatEmptySeq
    <3>. QED
      BY <2>3, <2>7, <3>1
  <2>9. Tasks' = Tasks
    BY <2>3, <2>6 DEF Tasks
  <2>10. at' \in Blocks' /\ prog' \in Programs /\ Len(owner') = Len(blocks')
    BY <2>2, <2>3, <2>5, <2>6 DEF IInv
  <2>. QED
    BY <2>3, <2>5, <2>6, <2>7, <2>8, <2>9, <2>10 DEF IInv
<1>. QED
  BY <1>1, <1>2

\* The last return of main.
LEMMA GeneratedKeeps ==
    ASSUME IInv, Generated
    PROVE  IInv'
<1>1. at \in Blocks /\ Len(blocks) \in Nat /\ Blocks = 1..(Len(blocks) + 0)
  BY DEF IInv, Blocks
<1>. DEFINE code == IF HasTerminator(at) THEN <<>> ELSE At(at, <<Ret("none")>>)
<1>2. /\ Emit(0, code) /\ UNCHANGED <<at, prog, owner, todo>>
  BY DEF Generated
<1>3. /\ DOMAIN code \subseteq 1..(Len(blocks) + 0)
      /\ \A b \in DOMAIN code : Fits(Len(blocks) + 0, owner', b, code[b])
  <2>1. CASE HasTerminator(at)
    BY <2>1
  <2>2. CASE ~HasTerminator(at)
    <3>1. Len(blocks) + 0 \in Nat /\ "none" \in Node \union {"none"} /\ 0 \in Nat
      BY <1>1
    <3>2. Fits(Len(blocks) + 0, owner', at, <<Ret("none")>>)
      BY <3>1, FitsActs
    <3>3. DOMAIN code = {at} /\ code[at] = <<Ret("none")>>
      BY <2>2 DEF At
    <3>. QED
      BY <1>1, <3>2, <3>3
  <2>. QED
    BY <2>1, <2>2
<1>. HIDE DEF code
<1>4. /\ owner' \in Seq(Owners) /\ Len(owner') = Len(blocks) + 0 /\ \A b \in Blocks : owner'[b] = owner[b]
  BY <1>1, <1>2 DEF IInv
<1>5. /\ Len(blocks') = Len(blocks) + 0 /\ blocks' \in Seq(Seq(Instructions'))
      /\ Blocks' = Blocks /\ BranchesStayInside'
  BY <1>1, <1>2, <1>3, <1>4, EmitKeeps
<1>6. Tasks' = Tasks
  BY <1>2, <1>5 DEF Tasks
<1>. QED
  BY <1>2, <1>4, <1>5, <1>6 DEF IInv
-----------------------------------------------------------------------------
\* The invariant holds at first,
LEMMA InitIInv == Init => IInv
<1>. SUFFICES ASSUME Init PROVE IInv
  OBVIOUS
<1>1. /\ prog \in Programs /\ blocks = <<<<>>>> /\ owner = <<"main">> /\ at = 1
      /\ todo = <<Visit(prog.top)>> /\ prog.top \in Seq(Node)
  BY ProgramsAssumption DEF Init, ProgramTable
<1>2. Blocks = {1}
  BY <1>1 DEF Blocks
<1>3. blocks \in Seq(Seq(Instructions)) /\ owner \in Seq(Owners) /\ Len(owner) = Len(blocks) /\ at \in Blocks
  <2>1. <<>> \in Seq(Instructions) /\ "main" \in Owners
    BY DEF Owners
  <2>. HIDE DEF Instructions, Owners
  <2>. QED
    BY <1>1, <1>2, <2>1
<1>4. BranchesStayInside
  BY <1>1, <1>2 DEF BranchesStayInside, StaysInside
<1>5. Visit(prog.top) \in Tasks /\ DOMAIN Visit(prog.top).at = {}
  BY <1>1 DEF Visit, Tasks, Held
<1>6. todo \in Seq(Tasks)
  BY <1>1, <1>5, Few
<1>7. HoldsOwn(owner, owner[at], todo)
  <2>1. Len(todo) = 1 /\ DOMAIN todo[1].at = {}
    BY <1>1, <1>5
  <2>. QED
    BY <2>1 DEF HoldsOwn
<1>. QED
  BY <1>1, <1>3, <1>4, <1>6, <1>7 DEF IInv

\* and every step keeps it,
LEMMA NextIInv == IInv /\ [Next]_vars => IInv'
<1>. SUFFICES ASSUME IInv, [Next]_vars PROVE IInv'
  OBVIOUS
<1>1. CASE Visitors
  BY <1>1, SimpleVisitsKeep, IfKeeps, WhileKeeps, ForKeeps, MatchKeeps, FuncKeeps DEF Visitors
<1>2. CASE Generated
  BY <1>2, GeneratedKeeps
<1>3. CASE Verify \/ RunBranch \/ ReadOn \/ RunEffect \/ RunReturn \/ UNCHANGED vars
  <2>1. UNCHANGED <<prog, blocks, owner, at, todo>>
    BY ONLY <1>3 DEF Verify, RunBranch, ReadOn, RunEffect, RunReturn, vars, emitted
  <2>2. Tasks' = Tasks /\ Instructions' = Instructions /\ Blocks' = Blocks
    BY <2>1 DEF Tasks, Instructions, Blocks
  <2>3. BranchesStayInside'
    BY <2>1 DEF IInv, BranchesStayInside, StaysInside
  <2>. QED
    BY <2>1, <2>2, <2>3 DEF IInv
<1>. QED
  BY <1>1, <1>2, <1>3 DEF Next

\* so that it always holds.
LEMMA Invariance == Spec => []IInv
BY InitIInv, NextIInv, PTL DEF Spec

\* Whatever statements a program nests in whatever order, the code generator puts
\* no branch from one function into another: visitFunc and visitLambda
\* (code_generator_func.cpp, code_generator_lambda.cpp) change the insertion point
\* of the builder in the middle of an if, a loop or an arm, whose visitors hold
\* blocks of the function around, and put it back before these go on.
THEOREM BranchesAreLocal == Spec => []BranchesStayInside
BY Invariance, PTL DEF IInv
-----------------------------------------------------------------------------
\* Code that may go on, and code that ends in its only terminator.
GoesOn(s) == \A i \in DOMAIN s : s[i].op \notin Terminators
Ends(s) ==
    /\ s # <<>> /\ s[Len(s)].op \in Terminators
    /\ \A i \in 1..(Len(s) - 1) : s[i].op \notin Terminators

\* Instructions, whatever blocks there are.
AnyInstructions ==
    [op : {"act"} \union Terminators, n : Node \union {"none"}, i : Nat, to : Seq(Nat)]

\* Once code has ended, nothing makes up for what is appended to it.
LEMMA AppendedCode ==
    ASSUME NEW I, NEW s \in Seq(I), NEW t \in Seq(I)
    PROVE  /\ GoesOn(s) /\ GoesOn(t) => GoesOn(s \o t)
           /\ GoesOn(s) /\ Ends(t) => Ends(s \o t)
           /\ ~GoesOn(s) /\ t # <<>> => ~GoesOn(s \o t) /\ ~Ends(s \o t)
           /\ ~GoesOn(s) /\ ~Ends(s) => ~GoesOn(s \o t) /\ ~Ends(s \o t)
           /\ ~(GoesOn(s) /\ Ends(s))
<1>. DEFINE u == s \o t
<1>1. PICK p \in Nat : p = Len(s)
  OBVIOUS
<1>2. PICK q \in Nat : q = Len(t)
  OBVIOUS
<1>3. /\ Len(u) = p + q /\ DOMAIN u = 1..(p + q) /\ DOMAIN s = 1..p /\ DOMAIN t = 1..q
      /\ \A i \in 1..p : u[i] = s[i]
      /\ \A i \in 1..q : u[p + i] = t[i]
  <2>1. /\ u \in Seq(I) /\ Len(u) = p + q
        /\ \A i \in 1..(p + q) : u[i] = IF i <= p THEN s[i] ELSE t[i - p]
    BY <1>1, <1>2, ConcatProperties
  <2>. HIDE DEF u
  <2>2. DOMAIN u = 1..(p + q) /\ DOMAIN s = 1..p /\ DOMAIN t = 1..q
    BY <1>1, <1>2, <2>1
  <2>. QED
    BY <2>1, <2>2
<1>4. (s = <<>> <=> p = 0) /\ (t = <<>> <=> q = 0) /\ (u = <<>> <=> p + q = 0)
  <2>1. u \in Seq(I)
    BY ConcatProperties
  <2>. HIDE DEF u
  <2>. QED
    BY <1>1, <1>2, <1>3, <2>1
<1>. HIDE DEF u
<1>5. ASSUME NEW i \in 1..(p + q), i > p
      PROVE  \E j \in 1..q : i = p + j /\ u[i] = t[j]
  <2>1. i - p \in 1..q /\ i = p + (i - p)
    BY <1>5
  <2>. QED
    BY <1>3, <2>1
<1>6. ASSUME GoesOn(s), GoesOn(t) PROVE GoesOn(u)
  <2>. SUFFICES ASSUME NEW i \in 1..(p + q) PROVE u[i].op \notin Terminators
    BY <1>3 DEF GoesOn
  <2>1. CASE i <= p
    BY <1>3, <1>6, <2>1 DEF GoesOn
  <2>2. CASE i > p
    BY <1>3, <1>5, <1>6, <2>2 DEF GoesOn
  <2>. QED
    BY <2>1, <2>2
<1>7. ASSUME GoesOn(s), Ends(t) PROVE Ends(u)
  <2>1. q > 0 /\ u[p + q].op \in Terminators /\ p + q > 0
    <3>1. q > 0 /\ t[q].op \in Terminators
      BY <1>2, <1>4, <1>7 DEF Ends
    <3>2. q \in 1..q
      BY <3>1
    <3>. QED
      BY <1>3, <3>1, <3>2
  <2>2. ASSUME NEW i \in 1..((p + q) - 1)
        PROVE  u[i].op \notin Terminators
    <3>1. CASE i <= p
      BY <1>3, <1>7, <3>1 DEF GoesOn
    <3>2. CASE i > p
      <4>1. PICK j \in 1..q : i = p + j /\ u[i] = t[j]
        BY <1>5, <3>2
      <4>2. j \in 1..(q - 1)
        BY <4>1
      <4>. QED
        BY <1>2, <1>7, <4>1, <4>2 DEF Ends
    <3>. QED
      BY <3>1, <3>2
  <2>. QED
    BY <1>3, <1>4, <2>1, <2>2 DEF Ends
<1>8. ASSUME ~GoesOn(s)
      PROVE  /\ ~GoesOn(u)
             /\ t # <<>> \/ ~Ends(s) => ~Ends(u)
  <2>1. PICK i \in 1..p : s[i].op \in Terminators
    BY <1>3, <1>8 DEF GoesOn
  <2>2. i \in 1..(p + q) /\ u[i].op \in Terminators
    BY <1>3, <2>1
  <2>3. ASSUME q > 0 PROVE ~Ends(u)
    <3>1. i \in 1..((p + q) - 1)
      BY <2>3
    <3>. QED
      BY <1>3, <2>2, <3>1 DEF Ends
  <2>4. ASSUME q = 0 PROVE Ends(u) => Ends(s)
    <3>1. p + q = p
      BY <2>4
    <3>2. \A k \in 1..p : u[k] = s[k]
      BY <1>3
    <3>3. p > 0 /\ p \in 1..p /\ 1..(p - 1) \subseteq 1..p
      BY <2>1
    <3>. QED
      BY <1>1, <1>3, <1>4, <3>1, <3>2, <3>3 DEF Ends
  <2>. QED
    BY <1>3, <1>4, <2>2, <2>3, <2>4 DEF GoesOn
<1>9. ~(GoesOn(s) /\ Ends(s))
  <2>1. ASSUME Ends(s) PROVE ~GoesOn(s)
    <3>1. p \in 1..p /\ s[p].op \in Terminators
      BY <1>1, <1>4, <2>1 DEF Ends
    <3>. QED
      BY <1>3, <3>1 DEF GoesOn
  <2>. QED
    BY <2>1
<1>. QED
  BY <1>6, <1>7, <1>8, <1>9 DEF u

\* What the visitors append.
LEMMA CodeIs ==
    ASSUME NEW n \in Node \union {"none"}, NEW i \in Nat, NEW b \in Nat, NEW c \in Nat
    PROVE  /\ <<>> \in Seq(AnyInstructions) /\ GoesOn(<<>>)
           /\ <<Act(n, i)>> \in Seq(AnyInstructions) /\ GoesOn(<<Act(n, i)>>) /\ <<Act(n, i)>> # <<>>
           /\ <<Ret(n)>> \in Seq(AnyInstructions) /\ Ends(<<Ret(n)>>)
           /\ <<Branch(b)>> \in Seq(AnyInstructions) /\ Ends(<<Branch(b)>>)
           /\ <<CondBranch(n, i, b, c)>> \in Seq(AnyInstructions) /\ Ends(<<CondBranch(n, i, b, c)>>)
           /\ <<Act(n, i)>> \o <<Branch(b)>> \in Seq(AnyInstructions) /\ Ends(<<Act(n, i)>> \o <<Branch(b)>>)
           /\ <<>> \o <<Branch(b)>> = <<Branch(b)>>
<1>1. /\ Act(n, i) \in AnyInstructions /\ Act(n, i).op = "act"
      /\ Ret(n) \in AnyInstructions /\ Ret(n).op = "ret"
      /\ Branch(b) \in AnyInstructions /\ Branch(b).op = "br"
      /\ CondBranch(n, i, b, c) \in AnyInstructions /\ CondBranch(n, i, b, c).op = "cbr"
  BY DEF Act, Ret, Branch, CondBranch, AnyInstructions, Terminators
<1>2. \A x \in AnyInstructions :
         /\ <<x>> \in Seq(AnyInstructions) /\ <<x>> # <<>>
         /\ x.op \in Terminators => Ends(<<x>>)
         /\ x.op \notin Terminators => GoesOn(<<x>>)
  BY DEF Ends, GoesOn
<1>3. "act" \notin Terminators /\ "ret" \in Terminators /\ "br" \in Terminators /\ "cbr" \in Terminators
  BY DEF Terminators
<1>. HIDE DEF AnyInstructions
<1>4. /\ <<Act(n, i)>> \in Seq(AnyInstructions) /\ GoesOn(<<Act(n, i)>>)
      /\ <<Branch(b)>> \in Seq(AnyInstructions) /\ Ends(<<Branch(b)>>)
  BY <1>1, <1>2, <1>3
<1>5. <<Act(n, i)>> \o <<Branch(b)>> \in Seq(AnyInstructions) /\ Ends(<<Act(n, i)>> \o <<Branch(b)>>)
  BY <1>4, AppendedCode, ConcatProperties
<1>6. <<>> \in Seq(AnyInstructions) /\ GoesOn(<<>>) /\ <<>> \o <<Branch(b)>> = <<Branch(b)>>
  BY <1>4 DEF GoesOn
<1>. QED
  BY <1>1, <1>2, <1>3, <1>4, <1>5, <1>6
-----------------------------------------------------------------------------
\* A visitor's turn: it appends code to the insertion point, to blocks its task
\* keeps, or to new ones, and keeps no other.
AnyTasks ==
    [do : DOMAIN Held, list : Seq(Node), n : Node \union {"none"}, i : Nat, at : Seq(Nat)]
New(new) == (Len(blocks) + 1)..(Len(blocks) + new)
Touched(new) == {at} \union Keeps(todo[1]) \union New(new)
Turn(new, code, tasks) ==
    /\ new \in Nat /\ Emit(new, code)
    /\ todo # <<>> /\ tasks \in Seq(AnyTasks) /\ todo' = tasks \o Tail(todo) /\ prog' = prog
    /\ \A b \in DOMAIN code : b \in Touched(new) /\ code[b] \in Seq(AnyInstructions)
    /\ at' \in Touched(new)
    /\ \A i \in 1..Len(tasks) : Keeps(tasks[i]) \subseteq Touched(new)

\* Where the tasks are.
LEMMA TasksTurn ==
    ASSUME IInv, IInv', NEW new, NEW code, NEW tasks, Turn(new, code, tasks)
    PROVE  /\ Len(todo) \in Nat /\ Len(todo) > 0 /\ Len(tasks) \in Nat
           /\ Len(todo') = (Len(tasks) + Len(todo)) - 1
           /\ \A i \in 1..Len(tasks) : todo'[i] = tasks[i]
           /\ \A k \in 2..Len(todo) : todo'[(Len(tasks) + k) - 1] = todo[k]
           /\ \A k \in 1..Len(todo) : todo[k] \in Tasks
           /\ \A k \in 1..Len(todo') : todo'[k] \in Tasks'
           /\ Head(todo) = todo[1] /\ todo[1] \in Tasks
<1>1. todo \in Seq(Tasks) /\ todo # <<>> /\ todo' \in Seq(Tasks') /\ tasks \in Seq(AnyTasks)
      /\ todo' = tasks \o Tail(todo)
  BY DEF IInv, Turn
<1>2. PICK n \in Nat : n = Len(todo)
  BY <1>1
<1>3. PICK d \in Nat : d = Len(tasks)
  BY <1>1
<1>. DEFINE u == Tail(todo)
<1>4. n > 0 /\ Len(u) = n - 1 /\ u \in Seq(Tasks) /\ \A i \in 1..(n - 1) : u[i] = todo[i + 1]
  BY <1>1, <1>2
<1>. HIDE DEF u
<1>5. PICK T : tasks \in Seq(T) /\ u \in Seq(T)
  <2>1. tasks \in Seq(AnyTasks \union Tasks) /\ u \in Seq(AnyTasks \union Tasks)
    BY <1>1, <1>4
  <2>. QED
    BY <2>1
<1>6. /\ Len(tasks \o u) = d + (n - 1)
      /\ \A i \in 1..(d + (n - 1)) : (tasks \o u)[i] = IF i <= d THEN tasks[i] ELSE u[i - d]
  <2>1. /\ Len(tasks \o u) = Len(tasks) + Len(u)
        /\ \A i \in 1..(Len(tasks) + Len(u)) : (tasks \o u)[i] = IF i <= Len(tasks) THEN tasks[i] ELSE u[i - Len(tasks)]
    BY <1>5, ConcatProperties
  <2>. QED
    BY <1>3, <1>4, <2>1
<1>7. ASSUME NEW k \in 2..n
      PROVE  todo'[(d + k) - 1] = todo[k]
  <2>1. (d + k) - 1 \in 1..(d + (n - 1)) /\ ~((d + k) - 1 <= d) /\ ((d + k) - 1) - d = k - 1
        /\ k - 1 \in 1..(n - 1) /\ (k - 1) + 1 = k
    BY <1>7
  <2>2. u[k - 1] = todo[k]
    BY <1>4, <2>1
  <2>. QED
    BY <1>1, <1>6, <2>1, <2>2 DEF u
<1>8. \A i \in 1..d : todo'[i] = tasks[i]
  BY <1>1, <1>4, <1>6 DEF u
<1>9. Len(todo') = (d + n) - 1
  BY <1>1, <1>4, <1>6 DEF u
<1>. QED
  BY <1>1, <1>2, <1>3, <1>4, <1>7, <1>8, <1>9

\* What the blocks hold.
LEMMA BlocksTurn ==
    ASSUME IInv, IInv', NEW new, NEW code, NEW tasks, Turn(new, code, tasks)
    PROVE  /\ Len(blocks) \in Nat /\ new \in Nat /\ Blocks = 1..Len(blocks) /\ Blocks' = Blocks \union New(new)
           /\ Blocks \cap New(new) = {} /\ 0 \notin Blocks'
           /\ \A b \in Blocks :
                /\ b \notin DOMAIN code => blocks'[b] = blocks[b]
                /\ b \in DOMAIN code => blocks'[b] = blocks[b] \o code[b]
           /\ \A b \in New(new) :
                /\ b \notin DOMAIN code => blocks'[b] = <<>>
                /\ b \in DOMAIN code => blocks'[b] = code[b]
           /\ \A b \in DOMAIN code : code[b] \in Seq(AnyInstructions)
           /\ \A b \in Blocks : blocks[b] \in Seq(AnyInstructions)
<1>1. blocks \in Seq(Seq(Instructions)) /\ Emit(new, code) /\ new \in Nat
      /\ \A b \in DOMAIN code : code[b] \in Seq(AnyInstructions)
  BY DEF IInv, Turn
<1>2. PICK n \in Nat : n = Len(blocks)
  BY <1>1
<1>3. Blocks = 1..n /\ New(new) = (n + 1)..(n + new)
  BY <1>1, <1>2 DEF Blocks, New
<1>4. Seq(Instructions) \subseteq Seq(AnyInstructions)
  <2>1. Seq(Blocks) \subseteq Seq(Nat)
    BY <1>3
  <2>2. Instructions \subseteq AnyInstructions
    BY <2>1 DEF Instructions, AnyInstructions
  <2>. QED
    BY <2>2
<1>5. \A b \in 1..n : blocks[b] \in Seq(AnyInstructions)
  <2>1. \A b \in 1..n : blocks[b] \in Seq(Instructions)
    BY <1>1, <1>2
  <2>. QED
    BY <1>4, <2>1
<1>. DEFINE I == AnyInstructions
            none == [i \in 1..new |-> <<>>]
            bs == blocks \o none
<1>. HIDE DEF I
<1>6. none \in Seq(Seq(I)) /\ Len(none) = new /\ \A i \in 1..new : none[i] = <<>>
  BY <1>1, EmptyBlocks
<1>7. blocks \in Seq(Seq(I))
  BY <1>1, <1>4 DEF I
<1>. HIDE DEF none
<1>8. /\ bs \in Seq(Seq(I)) /\ Len(bs) = n + new
      /\ \A b \in 1..(n + new) : bs[b] = IF b <= n THEN blocks[b] ELSE none[b - n]
  BY <1>2, <1>6, <1>7, ConcatProperties
<1>9. blocks' = [b \in DOMAIN bs |-> IF b \in DOMAIN code THEN bs[b] \o code[b] ELSE bs[b]]
  BY <1>1 DEF Emit, none
<1>. HIDE DEF bs
<1>10. DOMAIN bs = 1..(n + new) /\ Blocks' = 1..(n + new)
  BY <1>8, <1>9 DEF Blocks
<1>11. ASSUME NEW b \in New(new)
       PROVE  b \in 1..(n + new) /\ bs[b] = <<>>
  <2>1. b \in 1..(n + new) /\ ~(b <= n) /\ b - n \in 1..new
    BY <1>1, <1>3
  <2>. QED
    BY <1>6, <1>8, <2>1
<1>12. ASSUME NEW b \in New(new), b \in DOMAIN code
       PROVE  blocks'[b] = code[b]
  <2>1. blocks'[b] = <<>> \o code[b] /\ code[b] \in Seq(AnyInstructions)
    BY <1>1, <1>9, <1>10, <1>11, <1>12
  <2>. QED
    BY <2>1
<1>13. \A b \in 1..n : b \in 1..(n + new) /\ bs[b] = blocks[b]
  BY <1>1, <1>8
<1>14. Blocks' = Blocks \union New(new) /\ Blocks \cap New(new) = {} /\ 0 \notin Blocks'
  BY <1>1, <1>3, <1>10
<1>. QED
  BY <1>1, <1>2, <1>3, <1>5, <1>9, <1>10, <1>11, <1>12, <1>13, <1>14

\* What becomes of the blocks.
LEMMA StatusIs ==
    ASSUME IInv, NEW b \in Blocks
    PROVE  /\ IsOpen(b) => ~HasTerminator(b) /\ ~WellFormed(b)
           /\ WellFormed(b) => HasTerminator(b) /\ ~IsOpen(b)
           /\ HasTerminator(b) => ~IsOpen(b)
<1>1. blocks[b] \in Seq(Instructions)
  BY DEF IInv, Blocks
<1>2. HasTerminator(b) => Len(blocks[b]) \in DOMAIN blocks[b]
  BY <1>1 DEF HasTerminator
<1>. QED
  BY <1>2 DEF HasTerminator, WellFormed, IsOpen

\* A turn leaves a block that it appends nothing to as it was; code that goes on
\* leaves an open block open, a terminator ends it, and anything spoils an ended one.
LEMMA StatusTurns ==
    ASSUME IInv, IInv', NEW new, NEW code, NEW tasks, Turn(new, code, tasks)
    PROVE  /\ \A b \in Blocks : b \notin DOMAIN code =>
                /\ IsOpen(b)' <=> IsOpen(b)
                /\ WellFormed(b)' <=> WellFormed(b)
                /\ HasTerminator(b)' <=> HasTerminator(b)
           /\ \A b \in Blocks : b \in DOMAIN code =>
                /\ IsOpen(b) /\ GoesOn(code[b]) => IsOpen(b)'
                /\ IsOpen(b) /\ Ends(code[b]) => WellFormed(b)'
                /\ ~IsOpen(b) /\ code[b] # <<>> => ~Settled(b)'
                /\ ~Settled(b) => ~Settled(b)'
           /\ \A b \in New(new) :
                /\ b \notin DOMAIN code => IsOpen(b)'
                /\ b \in DOMAIN code => (Ends(code[b]) => WellFormed(b)')
<1>1. /\ \A b \in Blocks :
           /\ b \notin DOMAIN code => blocks'[b] = blocks[b]
           /\ b \in DOMAIN code => blocks'[b] = blocks[b] \o code[b]
      /\ \A b \in New(new) :
           /\ b \notin DOMAIN code => blocks'[b] = <<>>
           /\ b \in DOMAIN code => blocks'[b] = code[b]
      /\ \A b \in DOMAIN code : code[b] \in Seq(AnyInstructions)
      /\ \A b \in Blocks : blocks[b] \in Seq(AnyInstructions)
  BY BlocksTurn
<1>2. ASSUME NEW b
      PROVE  /\ IsOpen(b)' <=> GoesOn(blocks'[b])
             /\ IsOpen(b) <=> GoesOn(blocks[b])
             /\ WellFormed(b)' <=> Ends(blocks'[b])
             /\ WellFormed(b) <=> Ends(blocks[b])
             /\ Settled(b)' <=> (GoesOn(blocks'[b]) \/ Ends(blocks'[b]))
             /\ Settled(b) <=> (GoesOn(blocks[b]) \/ Ends(blocks[b]))
  BY DEF IsOpen, GoesOn, WellFormed, Ends, HasTerminator, Settled
<1>3. ASSUME NEW b \in Blocks, b \notin DOMAIN code
      PROVE  /\ IsOpen(b)' <=> IsOpen(b)
             /\ WellFormed(b)' <=> WellFormed(b)
             /\ HasTerminator(b)' <=> HasTerminator(b)
  BY <1>1, <1>3 DEF IsOpen, WellFormed, HasTerminator
<1>4. ASSUME NEW b \in Blocks, b \in DOMAIN code
      PROVE  /\ IsOpen(b) /\ GoesOn(code[b]) => IsOpen(b)'
             /\ IsOpen(b) /\ Ends(code[b]) => WellFormed(b)'
             /\ ~IsOpen(b) /\ code[b] # <<>> => ~Settled(b)'
             /\ ~Settled(b) => ~Settled(b)'
  <2>1. PICK s \in Seq(AnyInstructions) : s = blocks[b]
    BY <1>1
  <2>2. PICK t \in Seq(AnyInstructions) : t = code[b]
    BY <1>1, <1>4
  <2>3. blocks'[b] = s \o t
    BY <1>1, <1>4, <2>1, <2>2
  <2>4. /\ GoesOn(s) /\ GoesOn(t) => GoesOn(s \o t)
        /\ GoesOn(s) /\ Ends(t) => Ends(s \o t)
        /\ ~GoesOn(s) /\ t # <<>> => ~GoesOn(s \o t) /\ ~Ends(s \o t)
        /\ ~GoesOn(s) /\ ~Ends(s) => ~GoesOn(s \o t) /\ ~Ends(s \o t)
    BY AppendedCode
  <2>. QED
    BY ONLY <1>2, <2>1, <2>2, <2>3, <2>4
<1>5. ASSUME NEW b \in New(new)
      PROVE  /\ b \notin DOMAIN code => IsOpen(b)'
             /\ b \in DOMAIN code => (Ends(code[b]) => WellFormed(b)')
  BY <1>1, <1>2 DEF GoesOn
<1>. QED
  BY <1>3, <1>4, <1>5
-----------------------------------------------------------------------------
\* A task keeps blocks there are.
LEMMA KeepsBlocks ==
    ASSUME NEW t \in Tasks
    PROVE  Keeps(t) \subseteq Blocks
BY TasksHold DEF Keeps

\* Which blocks are kept after a turn: some of those touched, and those kept before.
LEMMA KeptTurns ==
    ASSUME IInv, IInv', NEW new, NEW code, NEW tasks, Turn(new, code, tasks),
           NEW k \in 0..Len(todo')
    PROVE  \/ k <= Len(tasks) /\ KeptAt(k)' \subseteq Touched(new)
              /\ KeptAt(k)' = IF k = 0 THEN {at'} ELSE Keeps(tasks[k])
           \/ \E l \in 2..Len(todo) :
                /\ k = (Len(tasks) + l) - 1 /\ KeptAt(k)' = Keeps(todo[l]) /\ KeptAt(l) = Keeps(todo[l])
                /\ KeptAt(l) \subseteq Blocks
<1>1. /\ Len(todo) \in Nat /\ Len(todo) > 0 /\ Len(tasks) \in Nat
      /\ Len(todo') = (Len(tasks) + Len(todo)) - 1
      /\ \A i \in 1..Len(tasks) : todo'[i] = tasks[i]
      /\ \A l \in 2..Len(todo) : todo'[(Len(tasks) + l) - 1] = todo[l]
      /\ \A l \in 1..Len(todo) : todo[l] \in Tasks
  BY TasksTurn
<1>2. PICK n \in Nat : n = Len(todo)
  BY <1>1
<1>3. PICK d \in Nat : d = Len(tasks)
  BY <1>1
<1>4. \A t : Keeps(t)' = Keeps(t)
  BY DEF Keeps
<1>5. CASE k = 0
  BY <1>1, <1>5 DEF KeptAt, Turn
<1>6. CASE k \in 1..d
  <2>1. KeptAt(k)' = Keeps(tasks[k])
    <3>1. todo'[k] = tasks[k] /\ k # 0
      BY <1>1, <1>3, <1>6
    <3>. QED
      BY <3>1 DEF KeptAt, Keeps
  <2>. QED
    BY <1>3, <1>6, <2>1 DEF Turn
<1>7. CASE k > d
  <2>1. (k - d) + 1 \in 2..n /\ (d + ((k - d) + 1)) - 1 = k /\ k # 0 /\ (k - d) + 1 # 0
    BY <1>1, <1>2, <1>3, <1>7
  <2>2. PICK l \in 2..n : l = (k - d) + 1
    BY <2>1
  <2>3. todo'[k] = todo[l] /\ k = (d + l) - 1 /\ todo[l] \in Tasks /\ l # 0
    BY <1>1, <1>2, <1>3, <2>1, <2>2
  <2>4. KeptAt(k)' = Keeps(todo[l]) /\ KeptAt(l) = Keeps(todo[l])
    BY <2>1, <2>3 DEF KeptAt, Keeps
  <2>. QED
    BY <1>2, <1>3, <2>3, <2>4, KeepsBlocks
<1>. QED
  BY <1>1, <1>3, <1>5, <1>6, <1>7

\* No turn takes up a block again.
LEMMA InUseTurns ==
    ASSUME IInv, IInv', NEW new, NEW code, NEW tasks, Turn(new, code, tasks), NEW b \in Blocks
    PROVE  /\ InUse(b)' => InUse(b)
           /\ b \notin Touched(new) => (InUse(b) => InUse(b)') /\ b \notin DOMAIN code
           /\ b \in Touched(new) => InUse(b)
<1>1. Len(todo) \in Nat /\ Len(todo) > 0 /\ Len(tasks) \in Nat /\ Len(todo') = (Len(tasks) + Len(todo)) - 1
      /\ \A l \in 2..Len(todo) : todo'[(Len(tasks) + l) - 1] = todo[l]
  BY TasksTurn
<1>2. b \in Touched(new) => InUse(b)
  <2>1. b \in Touched(new) => b \in KeptAt(0) \/ b \in KeptAt(1)
    <3>1. b \notin New(new)
      BY BlocksTurn
    <3>2. KeptAt(0) = {at} /\ KeptAt(1) = Keeps(todo[1])
      BY DEF KeptAt
    <3>. QED
      BY <3>1, <3>2 DEF Touched
  <2>2. 0 \in 0..Len(todo) /\ 1 \in 0..Len(todo)
    BY <1>1
  <2>. QED
    BY <2>1, <2>2 DEF InUse
<1>3. ASSUME InUse(b)' PROVE InUse(b)
  <2>1. PICK k \in 0..Len(todo') : b \in KeptAt(k)'
    BY <1>3 DEF InUse
  <2>2. CASE KeptAt(k)' \subseteq Touched(new)
    BY <1>2, <2>1, <2>2
  <2>3. CASE \E l \in 2..Len(todo) : KeptAt(k)' = Keeps(todo[l]) /\ KeptAt(l) = Keeps(todo[l])
    BY <2>1, <2>3 DEF InUse
  <2>. QED
    BY <2>2, <2>3, KeptTurns
<1>4. ASSUME b \notin Touched(new), InUse(b) PROVE InUse(b)'
  <2>1. PICK l \in 0..Len(todo) : b \in KeptAt(l)
    BY <1>4 DEF InUse
  <2>2. l \in 2..Len(todo)
    BY <1>1, <1>4, <2>1 DEF Touched, KeptAt
  <2>3. PICK k \in 1..Len(todo') : k = (Len(tasks) + l) - 1
    <3>1. PICK d \in Nat : d = Len(tasks)
      BY <1>1
    <3>2. PICK n \in Nat : n = Len(todo)
      BY <1>1
    <3>3. (d + l) - 1 \in 1..((d + n) - 1)
      BY <2>2, <3>2
    <3>. QED
      BY <1>1, <3>1, <3>2, <3>3
  <2>4. todo'[k] = todo[l] /\ k # 0 /\ l # 0
    BY <1>1, <2>2, <2>3
  <2>5. b \in KeptAt(k)'
    BY <2>1, <2>4 DEF KeptAt, Keeps
  <2>. QED
    BY <2>5 DEF InUse
<1>5. b \notin Touched(new) => b \notin DOMAIN code
  BY DEF Turn
<1>. QED
  BY <1>2, <1>3, <1>4, <1>5

\* What is spoilt stays so.
LEMMA SpoiltTurns ==
    ASSUME IInv, IInv', NEW new, NEW code, NEW tasks, Turn(new, code, tasks), Spoilt
    PROVE  Spoilt'
<1>1. PICK b \in Blocks : ~Settled(b) \/ (~InUse(b) /\ ~WellFormed(b))
  BY DEF Spoilt
<1>2. b \in Blocks' /\ IInv'
  BY BlocksTurn
<1>3. CASE ~Settled(b)
  <2>1. CASE b \in DOMAIN code
    <3>1. ~Settled(b)'
      BY <1>3, <2>1, StatusTurns
    <3>. QED
      BY <1>2, <3>1 DEF Spoilt
  <2>2. CASE b \notin DOMAIN code
    <3>1. ~Settled(b)'
      BY <1>3, <2>2, StatusTurns DEF Settled
    <3>. QED
      BY <1>2, <3>1 DEF Spoilt
  <2>. QED
    BY <2>1, <2>2
<1>4. CASE ~InUse(b) /\ ~WellFormed(b)
  <2>1. ~InUse(b)' /\ b \notin DOMAIN code
    BY <1>4, InUseTurns
  <2>2. ~WellFormed(b)'
    BY <1>4, <2>1, StatusTurns
  <2>. QED
    BY <1>2, <2>1, <2>2 DEF Spoilt
<1>. QED
  BY <1>1, <1>3, <1>4
-----------------------------------------------------------------------------
\* What does not depend on what has been emitted.
LEMMA SameProgram ==
    ASSUME prog' = prog
    PROVE  /\ \A x : (IsOpened(x)' <=> IsOpened(x)) /\ (EmitsCode(x)' <=> EmitsCode(x)) /\ (IsReturn(x)' <=> IsReturn(x))
           /\ \A L, m : /\ NoDeadCode(L, m)' <=> NoDeadCode(L, m)
                        /\ Returns(L, m)' <=> Returns(L, m)
                        /\ Straight(L, m)' <=> Straight(L, m)
           /\ \A n, j : PartIsClean(n, j)' <=> PartIsClean(n, j)
           /\ Reached' = Reached
           /\ Clean' <=> Clean
<1>1. \A x : (IsOpened(x)' <=> IsOpened(x)) /\ (EmitsCode(x)' <=> EmitsCode(x)) /\ (IsReturn(x)' <=> IsReturn(x))
  BY DEF IsOpened, EmitsCode, IsReturn
<1>2. ASSUME NEW L, NEW m
      PROVE  /\ NoDeadCode(L, m)' <=> NoDeadCode(L, m)
             /\ Returns(L, m)' <=> Returns(L, m)
             /\ Straight(L, m)' <=> Straight(L, m)
  BY <1>1 DEF NoDeadCode, Returns, Straight, IsReturn, EmitsCode
<1>3. \A n, j : PartIsClean(n, j)' <=> PartIsClean(n, j)
  BY DEF PartIsClean, NoDeadCode, Returns, Straight, IsReturn, EmitsCode
<1>4. Reached' = Reached
  BY DEF Reached, Closed, IsOpened
<1>5. Clean' <=> Clean
  BY <1>3, <1>4 DEF Clean, NoDeadCode, IsReturn, EmitsCode, IsOpened
<1>. QED
  BY <1>1, <1>2, <1>3, <1>4, <1>5

\* The tasks stay in order if those a visitor leaves are.
LEMMA ChainTurns ==
    ASSUME IInv, IInv', NEW new, NEW code, NEW tasks, Turn(new, code, tasks), NEW V, NEW W,
           ChainIsRight(V), V \subseteq W,
           \A i \in 1..Len(tasks) :
              /\ TaskFits(tasks[i], W)
              /\ i < Len(tasks) => Follows(tasks[i], tasks[i + 1])
              /\ i = Len(tasks) => IF Len(todo) = 1 THEN tasks[i].do = "visit" ELSE Follows(tasks[i], todo[2])
    PROVE  ChainIsRight(W)'
<1>1. /\ Len(todo) \in Nat /\ Len(todo) > 0 /\ Len(tasks) \in Nat
      /\ Len(todo') = (Len(tasks) + Len(todo)) - 1
      /\ \A i \in 1..Len(tasks) : todo'[i] = tasks[i]
      /\ \A l \in 2..Len(todo) : todo'[(Len(tasks) + l) - 1] = todo[l]
  BY TasksTurn
<1>2. PICK n \in Nat : n = Len(todo)
  BY <1>1
<1>3. PICK d \in Nat : d = Len(tasks)
  BY <1>1
<1>4. prog' = prog
  BY DEF Turn
<1>5. ASSUME NEW t
      PROVE  /\ TaskFits(t, V) => TaskFits(t, W)
             /\ TaskFits(t, W)' <=> TaskFits(t, W)
  BY <1>4 DEF TaskFits
<1>. SUFFICES ASSUME NEW k \in 1..Len(todo')
              PROVE  /\ TaskFits(todo[k], W)'
                     /\ IF k = Len(todo') THEN todo'[k].do = "visit" ELSE Follows(todo[k], todo[k + 1])'
  BY DEF ChainIsRight
<1>6. CASE k <= d
  <2>1. k \in 1..d /\ todo'[k] = tasks[k]
    BY <1>1, <1>3, <1>6
  <2>2. TaskFits(todo[k], W)'
    BY <1>3, <1>4, <2>1 DEF TaskFits
  <2>3. CASE k < d
    <3>1. k + 1 \in 1..d /\ k # (d + n) - 1
      BY <1>1, <1>2, <2>1, <2>3
    <3>2. todo'[k + 1] = tasks[k + 1] /\ Follows(tasks[k], tasks[k + 1]) /\ k # Len(todo')
      BY <1>1, <1>2, <1>3, <2>1, <2>3, <3>1
    <3>3. Follows(todo[k], todo[k + 1])'
      BY <2>1, <3>2 DEF Follows, IsEnd
    <3>. QED
      BY <2>2, <3>2, <3>3
  <2>4. CASE k = d /\ n = 1
    <3>1. k = Len(todo') /\ tasks[k].do = "visit"
      BY <1>1, <1>2, <1>3, <2>1, <2>4
    <3>. QED
      BY <2>1, <2>2, <3>1
  <2>5. CASE k = d /\ n # 1
    <3>1. 2 \in 2..n /\ (d + 2) - 1 = k + 1 /\ k # (d + n) - 1
      BY <1>1, <1>2, <2>5
    <3>2. todo'[k + 1] = todo[2] /\ Follows(tasks[k], todo[2]) /\ k # Len(todo')
      BY <1>1, <1>2, <1>3, <2>1, <2>5, <3>1
    <3>3. Follows(todo[k], todo[k + 1])'
      BY <2>1, <3>2 DEF Follows, IsEnd
    <3>. QED
      BY <2>2, <3>2, <3>3
  <2>. QED
    BY <1>6, <2>3, <2>4, <2>5
<1>7. CASE k > d
  <2>1. (k - d) + 1 \in 2..n /\ (d + ((k - d) + 1)) - 1 = k
    BY <1>1, <1>2, <1>3, <1>7
  <2>2. PICK l \in 2..n : l = (k - d) + 1
    BY <2>1
  <2>3. todo'[k] = todo[l] /\ l \in 1..n
    BY <1>1, <1>2, <1>3, <2>1, <2>2
  <2>4. TaskFits(todo[l], V)
    BY <1>2, <2>3 DEF ChainIsRight
  <2>5. TaskFits(todo[k], W)'
    BY <1>4, <2>3, <2>4 DEF TaskFits
  <2>6. CASE l = n
    <3>1. k = Len(todo') /\ todo[l].do = "visit"
      <4>1. k = (d + n) - 1
        BY <2>2, <2>6
      <4>. QED
        BY <1>1, <1>2, <1>3, <2>3, <2>6, <4>1 DEF ChainIsRight
    <3>. QED
      BY <2>3, <2>5, <3>1
  <2>7. CASE l # n
    <3>1. l + 1 \in 2..n /\ (d + (l + 1)) - 1 = k + 1 /\ k # (d + n) - 1
      BY <2>2, <2>7
    <3>2. todo'[k + 1] = todo[l + 1] /\ k # Len(todo') /\ Follows(todo[l], todo[l + 1])
      <4>1. Follows(todo[l], todo[l + 1])
        BY <1>2, <2>3, <2>7 DEF ChainIsRight
      <4>. QED
        BY <1>1, <1>2, <1>3, <3>1, <4>1
    <3>3. Follows(todo[k], todo[k + 1])'
      BY <2>3, <3>2 DEF Follows, IsEnd
    <3>. QED
      BY <2>5, <3>2, <3>3
  <2>. QED
    BY <2>6, <2>7
<1>. QED
  BY <1>3, <1>6, <1>7
-----------------------------------------------------------------------------
\* A frame after a turn, by what its list and its block are then.
LEMMA FrameThen ==
    ASSUME NEW l, NEW L, L = ListAt(l)', NEW left, left = LeftAt(l)', NEW e, e = BlockAt(l)', NEW W,
           NEW m \in 0..Len(L), Passed(L, left, m, W)', GoesOnIn(e, L, m)',
           NEW a, l <= Len(todo') /\ todo'[l].do = "endArm" => a = todo'[l].at[1] /\ ArmGoesOn(l, a, L, e, m)'
    PROVE  FrameIsRight(l, W)'
<1>1. l <= Len(todo') /\ todo'[l].do = "endArm" => ArmGoesOn(l, todo[l].at[1], L, e, m)'
  BY DEF ArmGoesOn, InUse, KeptAt, Keeps, Straight, EmitsCode
<1>. QED
  BY <1>1 DEF FrameIsRight, Frame, Passed, GoesOnIn, ArmGoesOn, NoDeadCode, Returns, Straight,
              IsOpened, IsReturn, EmitsCode, HasTerminator

\* The frame at k, in block c, is at l after a turn, and in block e.
Alike(k, l, c, e) ==
    /\ k \in Nat /\ l \in Nat /\ c = BlockAt(k) /\ e = BlockAt(l)' /\ LeftAt(l)' = LeftAt(k)
    /\ k <= Len(todo) => k \in 1..Len(todo) /\ l <= Len(todo') /\ todo'[l] = todo[k]
    /\ k > Len(todo) => l > Len(todo')
    /\ \/ c = e /\ (c # 0 => (HasTerminator(c)' <=> HasTerminator(c)))
       \/ c = 0 /\ e # 0 /\ ~HasTerminator(e)'
    /\ \A a \in Blocks : ~InUse(a) \/ (k = 3 /\ todo[1].do = "arm" /\ a = at) => ~InUse(a)'

\* A frame that a turn leaves alone.
LEMMA FrameKept ==
    ASSUME IInv, IInv', prog' = prog, NEW V, NEW W, V \subseteq W, NEW k, FrameIsRight(k, V),
           NEW l, NEW c, NEW e, Alike(k, l, c, e)
    PROVE  FrameIsRight(l, W)'
<1>0. /\ k \in Nat /\ l \in Nat /\ c = BlockAt(k) /\ e = BlockAt(l)' /\ LeftAt(l)' = LeftAt(k)
      /\ k <= Len(todo) => k \in 1..Len(todo) /\ l <= Len(todo') /\ todo'[l] = todo[k]
      /\ k > Len(todo) => l > Len(todo')
      /\ \/ c = e /\ (c # 0 => (HasTerminator(c)' <=> HasTerminator(c)))
         \/ c = 0 /\ e # 0 /\ ~HasTerminator(e)'
      /\ \A a \in Blocks : ~InUse(a) \/ (k = 3 /\ todo[1].do = "arm" /\ a = at) => ~InUse(a)'
      /\ Len(todo) \in Nat /\ Len(todo') \in Nat
  BY DEF Alike, IInv
<1>1. PICK L : L = ListAt(k)
  OBVIOUS
<1>2. PICK left : left = LeftAt(k)
  OBVIOUS
<1>3. L = ListAt(l)' /\ left = LeftAt(l)'
  <2>1. CASE k <= Len(todo)
    <3>1. ~(k > Len(todo)) /\ ~(l > Len(todo')) /\ todo'[l] = todo[k]
      <4>1. k \in 1..Len(todo) /\ l <= Len(todo') /\ Len(todo) \in Nat /\ Len(todo') \in Nat
        BY <1>0, <2>1
      <4>. QED
        BY <1>0, <2>1, <4>1
    <3>2. PICK t : t = todo[k] /\ t = todo'[l]
      BY <3>1
    <3>3. ListAt(k) = LET p == prog.parts[t.n]
                      IN CASE t.do = "endIf" -> IF prog.kind[t.n] = "ifElse" THEN p[2] ELSE <<>>
                           [] t.do = "endArm" -> p[t.i]
                           [] OTHER -> p[1]
      BY <3>1, <3>2 DEF ListAt
    <3>4. ListAt(l)' = LET p == prog.parts[t.n]
                       IN CASE t.do = "endIf" -> IF prog.kind[t.n] = "ifElse" THEN p[2] ELSE <<>>
                            [] t.do = "endArm" -> p[t.i]
                            [] OTHER -> p[1]
      BY <3>1, <3>2 DEF ListAt
    <3>5. ListAt(k) = ListAt(l)'
      BY ONLY <3>3, <3>4
    <3>. QED
      BY <1>0, <1>1, <1>2, <3>5
  <2>2. CASE ~(k <= Len(todo))
    <3>1. k > Len(todo) /\ l > Len(todo')
      BY <1>0, <2>2
    <3>2. ListAt(k) = prog.top /\ ListAt(l)' = prog.top
      BY <3>1 DEF ListAt
    <3>. QED
      BY <1>0, <1>1, <1>2, <3>2
  <2>. QED
    BY <2>1, <2>2
<1>4. PICK m \in 0..Len(L) :
         /\ Passed(L, left, m, V) /\ GoesOnIn(c, L, m)
         /\ k <= Len(todo) => (todo[k].do = "endArm" => ArmGoesOn(k, todo[k].at[1], L, c, m))
  BY <1>0, <1>1, <1>2 DEF FrameIsRight, Frame
<1>5. /\ (NoDeadCode(L, m)' <=> NoDeadCode(L, m)) /\ (Returns(L, m)' <=> Returns(L, m))
      /\ (Straight(L, m)' <=> Straight(L, m)) /\ \A x : IsOpened(x)' <=> IsOpened(x)
  BY SameProgram
<1>6. Passed(L, left, m, W)'
  BY <1>4, <1>5 DEF Passed
<1>7. GoesOnIn(e, L, m)'
  BY <1>0, <1>4, <1>5 DEF GoesOnIn
<1>8. PICK a : l <= Len(todo') => a = todo'[l].at[1]
  OBVIOUS
<1>9. ASSUME l <= Len(todo'), todo'[l].do = "endArm"
      PROVE  a = todo'[l].at[1] /\ ArmGoesOn(l, a, L, e, m)'
  <2>1. k \in 1..Len(todo) /\ todo'[l] = todo[k] /\ a = todo[k].at[1] /\ ArmGoesOn(k, a, L, c, m)
    BY <1>0, <1>4, <1>8, <1>9
  <2>2. todo[k] \in Tasks
    BY <2>1 DEF IInv
  <2>3. a \in Blocks
    BY <1>9, <2>1, <2>2, TasksHold
  <2>4. a # 0
    BY <2>3 DEF IInv, Blocks
  <2>5. CASE Straight(L, m)
    <3>1. c = a
      BY <2>1, <2>5 DEF ArmGoesOn
    <3>2. e = a
      BY <1>0, <2>4, <3>1
    <3>. QED
      BY <1>5, <1>8, <1>9, <2>5, <3>2 DEF ArmGoesOn
  <2>6. CASE ~Straight(L, m)
    <3>1. ~InUse(a)'
      BY <1>0, <2>1, <2>3, <2>6 DEF ArmGoesOn
    <3>. QED
      BY <1>5, <1>8, <1>9, <2>6, <3>1 DEF ArmGoesOn
  <2>. QED
    BY <2>5, <2>6
<1>. QED
  BY <1>0, <1>3, <1>6, <1>7, <1>9, FrameThen

\* A list that is begun.
LEMMA FrameBegins ==
    ASSUME NEW l, NEW W, NEW L, L = ListAt(l)', L = LeftAt(l)', Len(L) \in Nat,
           NEW e, e = BlockAt(l)', ~HasTerminator(e)',
           l <= Len(todo') /\ todo'[l].do = "endArm" => todo'[l].at[1] = e
    PROVE  FrameIsRight(l, W)'
<1>1. Passed(L, L, 0, W)' /\ GoesOnIn(e, L, 0)'
  <2>1. \A m : (m \in 1..0) = FALSE
    OBVIOUS
  <2>2. \A i \in 1..Len(L) : L[i] = L[0 + i]
    OBVIOUS
  <2>3. NoDeadCode(L, 0)' /\ ~Returns(L, 0)'
    BY <2>1 DEF NoDeadCode, Returns
  <2>. QED
    BY <2>1, <2>2, <2>3 DEF Passed, GoesOnIn
<1>2. PICK a : a = todo'[l].at[1]
  OBVIOUS
<1>3. Straight(L, 0)'
  BY DEF Straight
<1>4. l <= Len(todo') /\ todo'[l].do = "endArm" => a = todo'[l].at[1] /\ ArmGoesOn(l, a, L, e, 0)'
  BY <1>2, <1>3 DEF ArmGoesOn
<1>5. 0 \in 0..Len(L)
  OBVIOUS
<1>. QED
  BY <1>1, <1>4, <1>5, FrameThen

\* The deep frames are left alone; only those in front have to be looked at.
LEMMA FramesTurn ==
    ASSUME IInv, IInv', NEW new, NEW code, NEW tasks, Turn(new, code, tasks), NEW V, NEW W, V \subseteq W,
           FramesAreRight(V), KeptApart, NEW d, d = Len(tasks),
           \A l \in 1..(Len(todo') + 1) : l <= d + 2 /\ IsFrame(l)' => FrameIsRight(l, W)'
    PROVE  FramesAreRight(W)'
<1>1. /\ Len(todo) \in Nat /\ Len(todo) > 0 /\ d \in Nat
      /\ Len(todo') = (d + Len(todo)) - 1
      /\ \A l \in 2..Len(todo) : todo'[(d + l) - 1] = todo[l]
      /\ \A k \in 1..Len(todo) : todo[k] \in Tasks
  BY TasksTurn
<1>2. PICK n \in Nat : n = Len(todo)
  BY <1>1
<1>. SUFFICES ASSUME NEW l \in 1..(Len(todo') + 1), IsFrame(l)', l > d + 2
              PROVE  FrameIsRight(l, W)'
  <2>1. \A l \in 1..(Len(todo') + 1) : l > d + 2 \/ l <= d + 2
    BY <1>1
  <2>2. ASSUME NEW l \in 1..(Len(todo') + 1), IsFrame(l)' PROVE FrameIsRight(l, W)'
    BY <2>1, <2>2
  <2>. QED
    BY <2>2 DEF FramesAreRight
<1>3. (l - d) + 1 \in 4..(n + 1) /\ (d + ((l - d) + 1)) - 1 = l
  BY <1>1, <1>2
<1>4. PICK k \in 4..(n + 1) : k = (l - d) + 1
  BY <1>3
<1>5. /\ k - 1 \in 2..n /\ (d + (k - 1)) - 1 = l - 1 /\ l # 1 /\ k # 1
      /\ k - 2 \in 2..n /\ (d + (k - 2)) - 1 = l - 2 /\ ~(l <= 2) /\ ~(k <= 2)
      /\ k <= n <=> l <= Len(todo')
      /\ k <= n => k \in 2..n /\ k \in 1..n /\ (d + k) - 1 = l
  BY <1>1, <1>2, <1>3, <1>4
<1>6. /\ todo'[l - 1] = todo[k - 1] /\ todo'[l - 2] = todo[k - 2]
      /\ k <= n => todo'[l] = todo[k]
  BY <1>1, <1>2, <1>5
<1>7. LeftAt(l)' = LeftAt(k)
  BY <1>5, <1>6 DEF LeftAt
<1>8. PICK c : c = BlockAt(k)
  OBVIOUS
<1>9. c = BlockAt(l)'
  BY <1>5, <1>6, <1>8 DEF BlockAt
<1>10. c # 0 => (HasTerminator(c)' <=> HasTerminator(c))
  <2>. SUFFICES ASSUME c # 0 PROVE HasTerminator(c)' <=> HasTerminator(c)
    OBVIOUS
  <2>1. todo[k - 2].do = "endFunc" /\ c = todo[k - 2].at[1]
    BY <1>5, <1>8 DEF BlockAt
  <2>2. c \in Blocks /\ c \in KeptAt(k - 2)
    <3>1. k - 2 # 0 /\ todo[k - 2] \in Tasks
      <4>1. k - 2 \in 1..n /\ k - 2 # 0
        BY <1>4
      <4>. QED
        BY <1>1, <1>2, <4>1
    <3>. QED
      BY <2>1, <3>1, TasksHold DEF KeptAt, Keeps
  <2>3. c \notin KeptAt(0) /\ c \notin KeptAt(1)
    <3>1. k - 2 \in 0..Len(todo) /\ 0 \in 0..Len(todo) /\ 1 \in 0..Len(todo) /\ k - 2 # 0 /\ k - 2 # 1
      BY <1>1, <1>2, <1>5
    <3>. QED
      BY <2>2, <3>1 DEF KeptApart
  <2>4. c \notin New(new)
    BY <2>2, BlocksTurn
  <2>5. c \notin DOMAIN code
    <3>1. c \notin Touched(new)
      BY <2>3, <2>4 DEF Touched, KeptAt
    <3>. QED
      BY <3>1 DEF Turn
  <2>. QED
    BY <2>2, <2>5, StatusTurns
<1>11. \A a \in Blocks : ~InUse(a) \/ (k = 3 /\ todo[1].do = "arm" /\ a = at) => ~InUse(a)'
  BY <1>4, InUseTurns
<1>12. FrameIsRight(k, V)
  <2>1. IsFrame(k)
    <3>1. CASE k <= n
      <4>1. l \in 1..Len(todo') /\ k \in 1..n
        BY <1>5, <3>1
      <4>. QED
        BY <1>2, <1>6, <3>1, <4>1 DEF IsFrame, IsEnd
    <3>2. CASE k = n + 1
      BY <1>1, <1>2, <3>2 DEF IsFrame
    <3>. QED
      BY <1>4, <3>1, <3>2
  <2>2. k \in 1..(Len(todo) + 1)
    BY <1>2, <1>4
  <2>. QED
    BY <2>1, <2>2 DEF FramesAreRight
<1>13. prog' = prog
  BY DEF Turn
<1>14. /\ k <= Len(todo) => k \in 1..Len(todo) /\ l <= Len(todo') /\ todo'[l] = todo[k]
       /\ k > Len(todo) => l > Len(todo')
       /\ k \in Nat /\ l \in Nat
  BY <1>1, <1>2, <1>4, <1>5, <1>6
<1>15. Alike(k, l, c, c)
  BY <1>7, <1>8, <1>9, <1>10, <1>11, <1>14 DEF Alike
<1>. QED
  BY <1>12, <1>13, <1>15, FrameKept

\* What is where at the head of the tasks.
LEMMA HeadsAre ==
    ASSUME IInv, todo # <<>>, NEW V, ChainIsRight(V)
    PROVE  /\ Len(todo) \in Nat /\ Len(todo) > 0 /\ todo[1] \in Tasks
           /\ todo[1].do = "visit" =>
                /\ IsFrame(2) /\ 2 \in 1..(Len(todo) + 1)
                /\ Len(todo) > 1 => IsEnd(todo[2]) /\ Len(todo) > 2 /\ todo[3].do \in {"visit", "arm"}
           /\ IsEnd(todo[1]) => IsFrame(1)
           /\ todo[1].do \notin {"visit", "endArm"} =>
                /\ Len(todo) > 1 /\ todo[2].do = "visit" /\ IsFrame(3) /\ 3 \in 1..(Len(todo) + 1)
           /\ todo[1].do = "endArm" =>
                /\ Len(todo) > 2 /\ todo[2].do = "arm" /\ todo[2].n = todo[1].n /\ todo[2].i = todo[1].i + 1
                /\ todo[3].do = "visit"
           /\ todo[1].do # "visit" => todo[1].n \in V /\ prog.kind[todo[1].n] \in EndKinds(todo[1])
<1>1. todo \in Seq(Tasks)
  BY DEF IInv
<1>2. PICK n \in Nat : n = Len(todo) /\ n > 0 /\ todo[1] \in Tasks
  BY <1>1
<1>3. \A k \in 1..n :
        /\ TaskFits(todo[k], V)
        /\ IF k = n THEN todo[k].do = "visit" ELSE Follows(todo[k], todo[k + 1])
  BY <1>2 DEF ChainIsRight
<1>4. 1 \in 1..n /\ (n > 1 => 2 \in 1..n /\ 1 + 1 = 2) /\ (n > 2 => 3 \in 1..n /\ 2 + 1 = 3) /\ (n = 1 => 2 = n + 1)
  BY <1>2
<1>5. /\ TaskFits(todo[1], V)
      /\ IF n = 1 THEN todo[1].do = "visit" ELSE Follows(todo[1], todo[2])
  BY <1>2, <1>3, <1>4
<1>6. n > 1 => IF n = 2 THEN todo[2].do = "visit" ELSE Follows(todo[2], todo[3])
  BY <1>2, <1>3, <1>4
<1>7. n > 2 => IF n = 3 THEN todo[3].do = "visit" ELSE Follows(todo[3], todo[4])
  <2>1. n > 2 => 3 \in 1..n /\ 3 + 1 = 4
    BY <1>2
  <2>. QED
    BY <1>2, <1>3, <2>1
<1>8. ASSUME todo[1].do = "visit"
      PROVE  /\ IsFrame(2) /\ 2 \in 1..(n + 1)
             /\ n > 1 => IsEnd(todo[2]) /\ n > 2 /\ todo[3].do \in {"visit", "arm"}
  <2>1. n > 1 => IsEnd(todo[2])
    BY <1>5, <1>8 DEF Follows
  <2>2. n > 1 => n > 2 /\ todo[3].do \in {"visit", "arm"}
    BY <1>2, <1>6, <2>1 DEF Follows, IsEnd
  <2>3. IsFrame(2)
    BY <1>2, <1>4, <2>1 DEF IsFrame
  <2>. QED
    BY <1>2, <2>1, <2>2, <2>3
<1>9. ASSUME todo[1].do \notin {"visit", "endArm"}
      PROVE  n > 1 /\ todo[2].do = "visit" /\ IsFrame(3) /\ 3 \in 1..(n + 1)
  <2>1. n > 1 /\ todo[2].do = "visit"
    BY <1>2, <1>5, <1>9 DEF Follows
  <2>2. n = 2 \/ IsEnd(todo[3])
    BY <1>6, <2>1 DEF Follows
  <2>3. IsFrame(3)
    BY <1>2, <1>4, <2>1, <2>2 DEF IsFrame
  <2>. QED
    BY <1>2, <2>1, <2>3
<1>10. ASSUME todo[1].do = "endArm"
       PROVE  /\ n > 2 /\ todo[2].do = "arm" /\ todo[2].n = todo[1].n /\ todo[2].i = todo[1].i + 1
              /\ todo[3].do = "visit"
  <2>1. n > 1 /\ todo[2].do = "arm" /\ todo[2].n = todo[1].n /\ todo[2].i = todo[1].i + 1
    BY <1>2, <1>5, <1>10 DEF Follows
  <2>2. n > 2 /\ todo[3].do = "visit"
    BY <1>2, <1>6, <2>1 DEF Follows
  <2>. QED
    BY <2>1, <2>2
<1>11. IsEnd(todo[1]) => IsFrame(1)
  BY <1>2, <1>4 DEF IsFrame
<1>. QED
  BY <1>2, <1>5, <1>8, <1>9, <1>10, <1>11 DEF TaskFits
-----------------------------------------------------------------------------
\* One statement more of the list at hand is done.
LEMMA FrameAdvances ==
    ASSUME IInv, IInv', NEW new, NEW code, NEW tasks, Turn(new, code, tasks), NEW V, NEW W, V \subseteq W,
           todo[1].do = "visit", todo[1].list # <<>>, FrameIsRight(2, V), Len(todo) > 1 => Len(todo) > 2,
           NEW d \in 1..Len(tasks), d = Len(tasks), tasks[d] = Others,
           NEW x, x = Node_, IsOpened(x) => x \in W, EmitsCode(x) => ~HasTerminator(at),
           NEW c, c = at, NEW e, e = BlockAt(d + 1)',
           \/ e = c /\ (HasTerminator(c)' <=> HasTerminator(c) \/ IsReturn(x))
           \/ e = 0 /\ ~HasTerminator(c) /\ ~IsReturn(x),
           IF EmitsCode(x) /\ prog.kind[x] \notin {"act", "return"}
           THEN ~InUse(c)' \/ (d + 1 = 3 /\ todo'[1].do = "arm" /\ c = at')
           ELSE e = c
    PROVE  FrameIsRight(d + 1, W)'
<1>1. PICK L : L = ListAt(2)
  OBVIOUS
<1>2. PICK left \in Seq(Node) : left = todo[1].list /\ left # <<>> /\ left = LeftAt(2)
  <2>1. todo[1] \in Tasks
    BY TasksTurn
  <2>. QED
    BY <2>1, TasksHold DEF LeftAt
<1>3. /\ Len(todo) \in Nat /\ Len(todo) > 0 /\ Len(tasks) \in Nat /\ d \in Nat /\ d > 0
      /\ Len(todo') = (d + Len(todo)) - 1 /\ Head(todo) = todo[1]
      /\ todo'[d] = Others
      /\ \A k \in 2..Len(todo) : todo'[(d + k) - 1] = todo[k]
  BY TasksTurn
<1>4. Others.list = Tail(left) /\ x = left[1]
  <2>1. Head(todo).list = left /\ Head(left) = left[1]
    <3>1. Head(left) = left[1]
      OBVIOUS
    <3>2. Head(todo) = todo[1] /\ todo[1].list = left
      BY <1>2, <1>3
    <3>. QED
      BY ONLY <3>1, <3>2
  <2>2. Others = Visit(Tail(left)) /\ Node_ = left[1]
    BY <2>1 DEF Others, Node_
  <2>. QED
    BY <2>2 DEF Visit
<1>5. PICK p \in Nat : Len(left) = p + 1 /\ Len(Tail(left)) = p /\ \A i \in 1..p : Tail(left)[i] = left[i + 1]
  <2>1. Len(left) \in Nat /\ Len(left) > 0
    BY <1>2
  <2>2. Len(left) - 1 \in Nat /\ Len(left) = (Len(left) - 1) + 1
    BY <2>1
  <2>3. Len(Tail(left)) = Len(left) - 1 /\ \A i \in 1..(Len(left) - 1) : Tail(left)[i] = left[i + 1]
    BY <1>2
  <2>. QED
    BY <2>2, <2>3
<1>6. PICK m \in 0..Len(L) :
         /\ Passed(L, left, m, V) /\ GoesOnIn(c, L, m)
         /\ 2 <= Len(todo) => (todo[2].do = "endArm" => ArmGoesOn(2, todo[2].at[1], L, c, m))
  <2>1. BlockAt(2) = c
    BY DEF BlockAt
  <2>. QED
    BY <1>1, <1>2, <2>1 DEF FrameIsRight, Frame
<1>7. Len(L) = m + (p + 1) /\ m \in Nat /\ m + 1 \in 0..Len(L) /\ \A i \in 1..(p + 1) : left[i] = L[m + i]
  <2>1. Len(L) = m + (p + 1) /\ \A i \in 1..(p + 1) : left[i] = L[m + i]
    BY <1>5, <1>6 DEF Passed
  <2>. QED
    BY <2>1
<1>8. L[m + 1] = x
  <2>1. 1 \in 1..(p + 1)
    OBVIOUS
  <2>. QED
    BY <1>4, <1>7, <2>1
<1>9. c # 0 /\ c \in Blocks
  BY DEF IInv, Blocks
<1>10. Returns(L, m) <=> HasTerminator(c)
  BY <1>6, <1>9 DEF GoesOnIn
<1>11. \A i \in 1..(m + 1) : i \in 1..m \/ i = m + 1
  BY <1>7
<1>12. 1..m \subseteq 1..(m + 1) /\ m + 1 \in 1..(m + 1)
  BY <1>7
<1>13. Returns(L, m + 1) <=> HasTerminator(c) \/ IsReturn(x)
  BY <1>8, <1>10, <1>11, <1>12 DEF Returns
<1>14. Straight(L, m + 1) <=> (Straight(L, m) /\ (EmitsCode(x) => prog.kind[x] \in {"act", "return"}))
  BY <1>8, <1>11, <1>12 DEF Straight
<1>15. NoDeadCode(L, m + 1)
  <2>. SUFFICES ASSUME NEW i \in 1..(m + 1), NEW j \in 1..(m + 1), i < j, IsReturn(L[i]), EmitsCode(L[j])
                PROVE  FALSE
    BY DEF NoDeadCode
  <2>1. i \in 1..m
    BY <1>7
  <2>2. CASE j \in 1..m
    BY <1>6, <2>1, <2>2 DEF Passed, NoDeadCode
  <2>3. CASE j = m + 1
    <3>1. Returns(L, m)
      BY <2>1 DEF Returns
    <3>. QED
      BY <1>8, <1>10, <2>3, <3>1
  <2>. QED
    BY <1>11, <2>2, <2>3
<1>16. /\ (NoDeadCode(L, m + 1)' <=> NoDeadCode(L, m + 1)) /\ (Returns(L, m + 1)' <=> Returns(L, m + 1))
       /\ (Straight(L, m + 1)' <=> Straight(L, m + 1)) /\ \A y : IsOpened(y)' <=> IsOpened(y)
  BY SameProgram DEF Turn
<1>17. PICK rest2 : rest2 = Tail(left) /\ rest2 = LeftAt(d + 1)'
  <2>1. d + 1 # 1 /\ (d + 1) - 1 = d
    BY <1>3
  <2>. QED
    BY <1>3, <1>4, <2>1 DEF LeftAt
<1>18. Passed(L, rest2, m + 1, W)'
  <2>1. Len(L) = (m + 1) + Len(rest2)
    <3>1. Len(rest2) = p /\ Len(L) = m + (p + 1)
      BY <1>5, <1>7, <1>17
    <3>2. m + (p + 1) = (m + 1) + p
      BY <1>7
    <3>. QED
      BY ONLY <3>1, <3>2
  <2>2. ASSUME NEW i \in 1..Len(rest2) PROVE rest2[i] = L[(m + 1) + i]
    <3>1. i \in 1..p /\ i + 1 \in 1..(p + 1) /\ m + (i + 1) = (m + 1) + i
      BY <1>5, <1>7, <1>17
    <3>2. rest2[i] = left[i + 1] /\ left[i + 1] = L[m + (i + 1)]
      BY <1>5, <1>7, <1>17, <3>1
    <3>. QED
      BY <3>1, <3>2
  <2>3. \A i \in 1..(m + 1) : IsOpened(L[i]) => L[i] \in W
    BY <1>6, <1>8, <1>11 DEF Passed
  <2>. QED
    BY <1>15, <1>16, <2>1, <2>2, <2>3 DEF Passed
<1>19. GoesOnIn(e, L, m + 1)'
  <2>1. CASE e = c /\ (HasTerminator(c)' <=> HasTerminator(c) \/ IsReturn(x))
    BY <1>9, <1>13, <1>16, <2>1 DEF GoesOnIn
  <2>2. CASE e = 0 /\ ~HasTerminator(c) /\ ~IsReturn(x)
    BY <1>13, <1>16, <2>2 DEF GoesOnIn
  <2>. QED
    BY <2>1, <2>2
<1>20. /\ d + 1 <= Len(todo') <=> 2 <= Len(todo)
       /\ 2 <= Len(todo) => todo'[d + 1] = todo[2] /\ 2 \in 1..Len(todo)
       /\ d + 1 > Len(todo') <=> 2 > Len(todo)
  <2>1. PICK n \in Nat : n = Len(todo)
    BY <1>3
  <2>2. 2 <= n => 2 \in 2..n /\ 2 \in 1..n /\ (d + 2) - 1 = d + 1
    BY <1>3, <2>1
  <2>3. d + 1 <= (d + n) - 1 <=> 2 <= n
    BY <1>3, <2>1
  <2>4. d + 1 > (d + n) - 1 <=> 2 > n
    BY <1>3, <2>1
  <2>. QED
    BY <1>3, <2>1, <2>2, <2>3, <2>4
<1>21. L = ListAt(d + 1)'
  <2>1. prog' = prog
    BY DEF Turn
  <2>2. CASE 2 > Len(todo)
    <3>1. ListAt(2) = prog.top /\ ListAt(d + 1)' = prog.top
      BY <1>20, <2>1, <2>2 DEF ListAt
    <3>. QED
      BY <1>1, <3>1
  <2>3. CASE ~(2 > Len(todo))
    <3>1. 2 <= Len(todo)
      BY <1>3, <2>3
    <3>2. PICK t : t = todo[2] /\ t = todo'[d + 1]
      BY <1>20, <3>1
    <3>3. ListAt(2) = LET q == prog.parts[t.n]
                      IN CASE t.do = "endIf" -> IF prog.kind[t.n] = "ifElse" THEN q[2] ELSE <<>>
                           [] t.do = "endArm" -> q[t.i]
                           [] OTHER -> q[1]
      BY <2>3, <3>2 DEF ListAt
    <3>4. ListAt(d + 1)' = LET q == prog.parts[t.n]
                       IN CASE t.do = "endIf" -> IF prog.kind[t.n] = "ifElse" THEN q[2] ELSE <<>>
                            [] t.do = "endArm" -> q[t.i]
                            [] OTHER -> q[1]
      BY <1>20, <2>1, <2>3, <3>2 DEF ListAt
    <3>5. ListAt(2) = ListAt(d + 1)'
      BY ONLY <3>3, <3>4
    <3>. QED
      BY <1>1, <3>5
  <2>. QED
    BY <2>2, <2>3
<1>22. PICK a : d + 1 <= Len(todo') => a = todo'[d + 1].at[1]
  OBVIOUS
<1>23. ASSUME d + 1 <= Len(todo'), todo'[d + 1].do = "endArm"
       PROVE  a = todo'[d + 1].at[1] /\ ArmGoesOn(d + 1, a, L, e, m + 1)'
  <2>1. 2 <= Len(todo) /\ todo[2].do = "endArm" /\ a = todo[2].at[1] /\ a = todo'[d + 1].at[1]
        /\ ArmGoesOn(2, a, L, c, m)
    BY <1>6, <1>20, <1>22, <1>23
  <2>2. a \in Blocks
    <3>1. todo[2] \in Tasks
      BY <1>20, <2>1 DEF IInv
    <3>. QED
      BY <2>1, <3>1, TasksHold
  <2>3. ~InUse(a) => ~InUse(a)'
    BY <2>2, InUseTurns
  <2>4. CASE Straight(L, m) /\ (EmitsCode(x) => prog.kind[x] \in {"act", "return"})
    <3>1. c = a /\ e = c
      BY <2>1, <2>4 DEF ArmGoesOn
    <3>. QED
      BY <1>14, <1>16, <2>1, <2>4, <3>1 DEF ArmGoesOn
  <2>5. CASE ~Straight(L, m)
    <3>1. ~InUse(a)'
      BY <2>1, <2>3, <2>5 DEF ArmGoesOn
    <3>. QED
      BY <1>14, <1>16, <2>1, <2>5, <3>1 DEF ArmGoesOn
  <2>6. CASE Straight(L, m) /\ ~(EmitsCode(x) => prog.kind[x] \in {"act", "return"})
    <3>1. c = a
      BY <2>1, <2>6 DEF ArmGoesOn
    <3>2. ~InUse(a)' \/ (d + 1 = 3 /\ todo'[1].do = "arm" /\ a = at')
      BY <2>6, <3>1
    <3>. QED
      BY <1>14, <1>16, <2>1, <2>6, <3>2 DEF ArmGoesOn
  <2>. QED
    BY <2>4, <2>5, <2>6
<1>. QED
  BY <1>7, <1>17, <1>18, <1>19, <1>21, <1>23, FrameThen
-----------------------------------------------------------------------------
\* What the insertion point and the tasks of a turn keep.
KeptNow(tasks, i) == IF i = 0 THEN {at'} ELSE Keeps(tasks[i])

\* The blocks are right if those the turn has touched are.
LEMMA BlocksAfter ==
    ASSUME IInv, IInv', NEW new, NEW code, NEW tasks, Turn(new, code, tasks),
           KeptApart, KeptOpen, BlocksAreRight,
           \A i, j \in 0..Len(tasks) : i # j => KeptNow(tasks, i) \cap KeptNow(tasks, j) = {},
           \A i \in 1..Len(tasks) : tasks[i].do \notin {"endIf", "endFunc"} => \A b \in Keeps(tasks[i]) : IsOpen(b)',
           \A b \in Touched(new) :
              Settled(b)' /\ ((\E i \in 0..Len(tasks) : b \in KeptNow(tasks, i)) \/ WellFormed(b)'),
           todo' # <<>> /\ todo'[1].do = "arm" => IsOpen(at)'
    PROVE  KeptApart' /\ KeptOpen' /\ BlocksAreRight'
<1>1. /\ Len(todo) \in Nat /\ Len(todo) > 0 /\ Len(tasks) \in Nat
      /\ Len(todo') = (Len(tasks) + Len(todo)) - 1
      /\ \A i \in 1..Len(tasks) : todo'[i] = tasks[i]
      /\ \A l \in 2..Len(todo) : todo'[(Len(tasks) + l) - 1] = todo[l]
  BY TasksTurn
<1>2. PICK n \in Nat : n = Len(todo)
  BY <1>1
<1>3. PICK d \in Nat : d = Len(tasks)
  BY <1>1
<1>4. /\ Blocks' = Blocks \union New(new) /\ Blocks \cap New(new) = {}
  BY BlocksTurn
\* Position k is one of the turn's, or it was at l.
<1>5. ASSUME NEW k \in 0..Len(todo')
      PROVE  \/ k \in 0..d /\ KeptAt(k)' = KeptNow(tasks, k) /\ KeptAt(k)' \subseteq Touched(new)
             \/ \E l \in 2..n : k = (d + l) - 1 /\ KeptAt(k)' = KeptAt(l) /\ KeptAt(l) \subseteq Blocks
  <2>1. CASE k <= Len(tasks) /\ KeptAt(k)' \subseteq Touched(new)
             /\ KeptAt(k)' = IF k = 0 THEN {at'} ELSE Keeps(tasks[k])
    BY <1>1, <1>3, <2>1 DEF KeptNow
  <2>2. CASE \E l \in 2..Len(todo) :
                /\ k = (Len(tasks) + l) - 1 /\ KeptAt(k)' = Keeps(todo[l]) /\ KeptAt(l) = Keeps(todo[l])
                /\ KeptAt(l) \subseteq Blocks
    BY <1>2, <1>3, <2>2
  <2>. QED
    BY <2>1, <2>2, KeptTurns
<1>6. ASSUME NEW l \in 2..n, NEW b \in Blocks, b \in KeptAt(l)
      PROVE  b \notin Touched(new)
  <2>1. l \in 0..Len(todo) /\ 0 \in 0..Len(todo) /\ 1 \in 0..Len(todo) /\ l # 0 /\ l # 1
    BY <1>1, <1>2
  <2>2. b \notin KeptAt(0) /\ b \notin KeptAt(1)
    BY <1>6, <2>1 DEF KeptApart
  <2>. QED
    BY <1>4, <2>2 DEF Touched, KeptAt
<1>7. KeptApart'
  <2>. SUFFICES ASSUME NEW j \in 0..Len(todo'), NEW k \in 0..Len(todo'), j # k, NEW b, b \in KeptAt(j)', b \in KeptAt(k)'
                PROVE  FALSE
    BY DEF KeptApart
  <2>1. CASE j \in 0..d /\ KeptAt(j)' = KeptNow(tasks, j) /\ KeptAt(j)' \subseteq Touched(new)
    <3>1. CASE k \in 0..d /\ KeptAt(k)' = KeptNow(tasks, k)
      BY <1>3, <2>1, <3>1
    <3>2. CASE \E l \in 2..n : KeptAt(k)' = KeptAt(l) /\ KeptAt(l) \subseteq Blocks
      BY <1>6, <2>1, <3>2
    <3>. QED
      BY <1>5, <3>1, <3>2
  <2>2. CASE \E l \in 2..n : j = (d + l) - 1 /\ KeptAt(j)' = KeptAt(l) /\ KeptAt(l) \subseteq Blocks
    <3>1. PICK l \in 2..n : j = (d + l) - 1 /\ KeptAt(j)' = KeptAt(l) /\ KeptAt(l) \subseteq Blocks
      BY <2>2
    <3>2. CASE k \in 0..d /\ KeptAt(k)' \subseteq Touched(new)
      BY <1>6, <3>1, <3>2
    <3>3. CASE \E h \in 2..n : k = (d + h) - 1 /\ KeptAt(k)' = KeptAt(h)
      <4>1. PICK h \in 2..n : k = (d + h) - 1 /\ KeptAt(k)' = KeptAt(h)
        BY <3>3
      <4>2. l # h /\ l \in 0..Len(todo) /\ h \in 0..Len(todo)
        BY <1>2, <3>1, <4>1
      <4>. QED
        BY <3>1, <4>1, <4>2 DEF KeptApart
    <3>. QED
      BY <1>5, <3>2, <3>3
  <2>. QED
    BY <1>5, <2>1, <2>2
<1>8. ASSUME NEW k \in 1..Len(todo'), todo'[k].do \notin {"endIf", "endFunc"}, NEW b, b \in Keeps(todo[k])'
      PROVE  IsOpen(b)'
  <2>1. b \in KeptAt(k)' /\ k \in 0..Len(todo') /\ k # 0
    BY <1>8 DEF KeptAt
  <2>2. CASE k \in 0..d
    <3>1. k \in 1..Len(tasks) /\ todo'[k] = tasks[k]
      BY <1>1, <1>3, <2>1, <2>2
    <3>2. b \in Keeps(tasks[k])
      BY <1>8, <3>1 DEF Keeps
    <3>. QED
      BY <1>8, <3>1, <3>2
  <2>3. CASE \E l \in 2..n : k = (d + l) - 1 /\ KeptAt(k)' = KeptAt(l) /\ KeptAt(l) \subseteq Blocks
    <3>1. PICK l \in 2..n : k = (d + l) - 1 /\ KeptAt(k)' = KeptAt(l) /\ KeptAt(l) \subseteq Blocks
      BY <2>3
    <3>2. todo'[k] = todo[l] /\ l \in 1..Len(todo) /\ l # 0
      BY <1>1, <1>2, <1>3, <3>1
    <3>3. b \in Blocks /\ b \notin Touched(new) /\ b \in Keeps(todo[l])
      BY <1>6, <2>1, <3>1, <3>2 DEF KeptAt
    <3>4. IsOpen(b)
      BY <1>8, <3>2, <3>3 DEF KeptOpen
    <3>. QED
      BY <3>3, <3>4, StatusTurns DEF Turn
  <2>. QED
    BY <1>5, <2>1, <2>2, <2>3
<1>9. KeptOpen'
  BY <1>8 DEF KeptOpen
<1>10. ASSUME NEW b \in Blocks'
       PROVE  Settled(b)' /\ (InUse(b)' \/ WellFormed(b)')
  <2>1. CASE b \in Touched(new)
    <3>1. ASSUME NEW i \in 0..Len(tasks), b \in KeptNow(tasks, i)
          PROVE  InUse(b)'
      <4>1. i \in 0..Len(todo') /\ KeptAt(i)' = KeptNow(tasks, i)
        <5>1. i \in 0..Len(todo')
          BY <1>1, <1>2, <1>3
        <5>2. i # 0 => todo'[i] = tasks[i]
          BY <1>1
        <5>. QED
          BY <5>1, <5>2 DEF KeptAt, KeptNow, Keeps
      <4>. QED
        BY <3>1, <4>1 DEF InUse
    <3>. QED
      BY <2>1, <3>1
  <2>2. CASE b \notin Touched(new)
    <3>1. b \in Blocks
      BY <1>4, <2>2 DEF Touched
    <3>2. Settled(b) /\ (InUse(b) \/ WellFormed(b)) /\ b \notin DOMAIN code /\ (InUse(b) => InUse(b)')
      BY <2>2, <3>1, InUseTurns DEF BlocksAreRight
    <3>3. (IsOpen(b)' <=> IsOpen(b)) /\ (WellFormed(b)' <=> WellFormed(b))
      BY <3>1, <3>2, StatusTurns
    <3>. QED
      BY <3>2, <3>3 DEF Settled
  <2>. QED
    BY <2>1, <2>2
<1>11. BlocksAreRight'
  BY <1>10 DEF BlocksAreRight
<1>. QED
  BY <1>7, <1>9, <1>11
-----------------------------------------------------------------------------
\* What is opened stays right if the head's parts are done or still to be done.
LEMMA OpenedTurns ==
    ASSUME IInv, IInv', NEW new, NEW code, NEW tasks, Turn(new, code, tasks), NEW V, NEW W, V \subseteq W,
           OpenedAreRight(V),
           \A n, j : n \in V /\ j \in DOMAIN prog.parts[n] /\ Pends(todo[1], n, j) =>
              (\E i \in 1..Len(tasks) : Pends(tasks[i], n, j)) \/ PartIsDone(n, j, W),
           \A n \in W : n \notin V =>
              /\ n \in Reached /\ IsOpened(n)
              /\ \A j \in DOMAIN prog.parts[n] : \E i \in 1..Len(tasks) : Pends(tasks[i], n, j)
    PROVE  OpenedAreRight(W)'
<1>1. /\ Len(todo) \in Nat /\ Len(todo) > 0 /\ Len(tasks) \in Nat
      /\ Len(todo') = (Len(tasks) + Len(todo)) - 1
      /\ \A i \in 1..Len(tasks) : todo'[i] = tasks[i]
      /\ \A l \in 2..Len(todo) : todo'[(Len(tasks) + l) - 1] = todo[l]
  BY TasksTurn
<1>2. PICK h \in Nat : h = Len(todo)
  BY <1>1
<1>3. PICK d \in Nat : d = Len(tasks)
  BY <1>1
<1>4. prog' = prog
  BY DEF Turn
<1>5. /\ Reached' = Reached /\ \A x : IsOpened(x)' <=> IsOpened(x)
      /\ \A n, j : PartIsClean(n, j)' <=> PartIsClean(n, j)
  BY <1>4, SameProgram
<1>6. ASSUME NEW n, NEW j
      PROVE  /\ PartIsDone(n, j, W)' <=> PartIsDone(n, j, W)
             /\ PartIsDone(n, j, V) => PartIsDone(n, j, W)
  BY <1>4, <1>5 DEF PartIsDone
<1>7. ASSUME NEW n, NEW j, NEW i \in 1..Len(tasks), Pends(tasks[i], n, j)
      PROVE  Pending(n, j)'
  <2>1. i \in 1..Len(todo') /\ todo'[i] = tasks[i]
    BY <1>1, <1>2, <1>3
  <2>. QED
    BY <1>7, <2>1 DEF Pending, Pends
<1>8. ASSUME NEW n, NEW j, Pending(n, j), ~Pends(todo[1], n, j)
      PROVE  Pending(n, j)'
  <2>1. PICK k \in 1..Len(todo) : Pends(todo[k], n, j)
    BY <1>8 DEF Pending
  <2>2. k \in 2..h
    BY <1>2, <1>8, <2>1
  <2>3. (d + k) - 1 \in 1..((d + h) - 1)
    BY <2>2
  <2>4. PICK l \in 1..Len(todo') : l = (d + k) - 1
    BY <1>1, <1>2, <1>3, <2>3
  <2>5. todo'[l] = todo[k]
    BY <1>1, <1>2, <1>3, <2>2, <2>4
  <2>. QED
    BY <2>1, <2>5 DEF Pending, Pends
<1>. SUFFICES ASSUME NEW n \in W
              PROVE  /\ n \in Reached' /\ IsOpened(n)'
                     /\ \A j \in DOMAIN prog'.parts[n] : Pending(n, j)' \/ PartIsDone(n, j, W)'
  BY DEF OpenedAreRight
<1>9. CASE n \in V
  <2>1. /\ n \in Reached /\ IsOpened(n)
        /\ \A j \in DOMAIN prog.parts[n] : Pending(n, j) \/ PartIsDone(n, j, V)
    BY <1>9 DEF OpenedAreRight
  <2>2. ASSUME NEW j \in DOMAIN prog.parts[n]
        PROVE  Pending(n, j)' \/ PartIsDone(n, j, W)
    <3>1. CASE Pends(todo[1], n, j)
      BY <1>7, <1>9, <3>1
    <3>2. CASE ~Pends(todo[1], n, j)
      BY <1>6, <1>8, <2>1, <3>2
    <3>. QED
      BY <3>1, <3>2
  <2>. QED
    BY <1>4, <1>5, <1>6, <2>1, <2>2
<1>10. CASE n \notin V
  <2>1. ASSUME NEW j \in DOMAIN prog.parts[n]
        PROVE  Pending(n, j)'
    BY <1>7, <1>10
  <2>. QED
    BY <1>4, <1>5, <1>10, <2>1
<1>. QED
  BY <1>9, <1>10

\* The statements of the program's list are reached, and those of what is opened.
LEMMA ReachedIs ==
    ASSUME IInv
    PROVE  /\ Reached \subseteq Node
           /\ \A i \in DOMAIN prog.top : prog.top[i] \in Reached
           /\ \A n \in Reached : IsOpened(n) =>
                \A j \in DOMAIN prog.parts[n] : \A i \in DOMAIN prog.parts[n][j] : prog.parts[n][j][i] \in Reached
<1>1. prog \in ProgramTable
  BY ProgramsAssumption DEF IInv
<1>2. prog.top \in Seq(Node) /\ \A n \in Node : prog.parts[n] \in Seq(Seq(Node))
  BY <1>1 DEF ProgramTable
<1>3. ASSUME NEW i \in DOMAIN prog.top PROVE prog.top[i] \in Reached
  BY <1>2 DEF Reached, Closed
<1>4. ASSUME NEW n \in Reached, IsOpened(n), NEW j \in DOMAIN prog.parts[n], NEW i \in DOMAIN prog.parts[n][j]
      PROVE  prog.parts[n][j][i] \in Reached
  <2>1. prog.parts[n][j][i] \in Node
    BY <1>2, <1>4 DEF Reached
  <2>. QED
    BY <1>4, <2>1 DEF Reached, Closed
<1>. QED
  BY <1>3, <1>4 DEF Reached

\* The list of a frame is one of the program's, and what makes it clean is known.
LEMMA ListIs ==
    ASSUME IInv, NEW V, ChainIsRight(V), OpenedAreRight(V), NEW k \in 1..(Len(todo) + 1), IsFrame(k)
    PROVE  /\ ListAt(k) \in Seq(Node)
           /\ \A i \in 1..Len(ListAt(k)) : ListAt(k)[i] \in Reached
           /\ Clean => NoDeadCode(ListAt(k), Len(ListAt(k)))
<1>1. prog \in ProgramTable /\ HasParts(prog)
  BY ProgramsAssumption DEF IInv
<1>2. prog.top \in Seq(Node) /\ \A n \in Node : prog.parts[n] \in Seq(Seq(Node))
  BY <1>1 DEF ProgramTable
<1>3. Len(todo) \in Nat
  BY DEF IInv
<1>4. ASSUME NEW n \in Reached, IsOpened(n), NEW j \in 1..Len(prog.parts[n]), NEW L, L = prog.parts[n][j]
      PROVE  /\ L \in Seq(Node) /\ \A i \in 1..Len(L) : L[i] \in Reached
             /\ Clean => NoDeadCode(L, Len(L))
  <2>1. n \in Node
    BY DEF Reached
  <2>2. prog.parts[n] \in Seq(Seq(Node))
    BY <1>2, <2>1
  <2>3. j \in DOMAIN prog.parts[n] /\ L \in Seq(Node)
    BY <1>4, <2>2
  <2>4. DOMAIN L = 1..Len(L)
    BY <2>3
  <2>5. \A i \in 1..Len(L) : L[i] \in Reached
    BY <1>4, <2>3, <2>4, ReachedIs
  <2>6. Clean => PartIsClean(n, j)
    BY <1>4, <2>3 DEF Clean
  <2>. QED
    BY <1>4, <2>3, <2>5, <2>6 DEF PartIsClean
<1>5. CASE k > Len(todo)
  <2>1. ListAt(k) = prog.top
    BY <1>5 DEF ListAt
  <2>2. \A i \in 1..Len(prog.top) : prog.top[i] \in Reached
    BY <1>2, ReachedIs
  <2>. QED
    BY <1>2, <2>1, <2>2 DEF Clean
<1>6. CASE ~(k > Len(todo))
  <2>1. k \in 1..Len(todo) /\ IsEnd(todo[k])
    BY <1>3, <1>6 DEF IsFrame
  <2>2. PICK t : t = todo[k]
    OBVIOUS
  <2>3. PICK n : n = t.n /\ n \in V /\ prog.kind[n] \in EndKinds(t) /\ t.do \notin {"visit", "arm"}
                 /\ (t.do = "endArm" => t.i \in 1..Len(prog.parts[n]))
    BY <2>1, <2>2 DEF ChainIsRight, TaskFits, IsEnd
  <2>4. n \in Reached /\ IsOpened(n) /\ n \in Node
    BY <2>3 DEF OpenedAreRight, Reached
  <2>5. ListAt(k) = CASE t.do = "endIf" -> IF prog.kind[n] = "ifElse" THEN prog.parts[n][2] ELSE <<>>
                      [] t.do = "endArm" -> prog.parts[n][t.i]
                      [] OTHER -> prog.parts[n][1]
    BY <1>6, <2>2, <2>3 DEF ListAt
  <2>6. CASE t.do = "endIf"
    <3>1. CASE prog.kind[n] = "ifElse"
      <4>1. 2 \in 1..Len(prog.parts[n])
        <5>1. PICK p : p = prog /\ HasParts(p)
          BY <1>1
        <5>2. Len(p.parts[n]) = 2
          BY <2>4, <3>1, <5>1 DEF HasParts
        <5>. QED
          BY ONLY <5>1, <5>2
      <4>2. ListAt(k) = prog.parts[n][2]
        BY <2>5, <2>6, <3>1
      <4>. QED
        BY <1>4, <2>4, <4>1, <4>2
    <3>2. CASE prog.kind[n] # "ifElse"
      <4>1. ListAt(k) = <<>>
        BY <2>5, <2>6, <3>2
      <4>. QED
        BY <4>1 DEF NoDeadCode
    <3>. QED
      BY <3>1, <3>2
  <2>7. CASE t.do = "endArm"
    <3>1. ListAt(k) = prog.parts[n][t.i] /\ t.i \in 1..Len(prog.parts[n])
      BY <2>3, <2>5, <2>7
    <3>. QED
      BY <1>4, <2>4, <3>1
  <2>8. CASE t.do \notin {"endIf", "endArm"}
    <3>1. prog.kind[n] \in {"if", "ifElse", "while", "for", "forEver", "func"} \/ t.do \notin {"endThen", "endWhile", "endFor", "endFunc"}
      BY <2>3 DEF EndKinds
    <3>2. t.do \in {"endThen", "endWhile", "endFor", "endFunc"}
      <4>1. t \in Tasks
        BY <2>1, <2>2 DEF IInv
      <4>. QED
        BY <2>3, <2>8, <4>1 DEF Tasks, Held
    <3>3. 1 \in 1..Len(prog.parts[n])
      <4>1. Len(prog.parts[n]) \in {1, 2}
        BY ONLY <1>1, <2>4, <3>1, <3>2 DEF HasParts
      <4>. QED
        BY ONLY <4>1
    <3>4. ListAt(k) = prog.parts[n][1]
      BY <2>5, <2>8
    <3>. QED
      BY <1>4, <2>4, <3>3, <3>4
  <2>. QED
    BY <2>6, <2>7, <2>8
<1>. QED
  BY <1>5, <1>6
-----------------------------------------------------------------------------
\* A turn leaves a program that is rejected so, and one without fault either that
\* or neat.
Fares ==
    /\ Spoilt => Spoilt'
    /\ Doomed => Spoilt'
    /\ \A V \in SUBSET Node :
         Neat(V) => (~Clean /\ (Spoilt' \/ Doomed')) \/ (\E W \in SUBSET Node : Neat(W)')

\* What visitors leave for later.
LEMMA LeavesTasks ==
    ASSUME NEW n \in Node, NEW i \in Nat, NEW a \in Nat, NEW b \in Nat, NEW c \in Nat
    PROVE  /\ \A list \in Seq(Node) : Visit(list) \in AnyTasks
           /\ Then("endThen", n, i, <<a>>) \in AnyTasks /\ Then("endIf", n, i, <<a>>) \in AnyTasks
           /\ Then("arm", n, i, <<a>>) \in AnyTasks /\ Then("endFunc", n, i, <<a>>) \in AnyTasks
           /\ Then("endWhile", n, i, <<a, b>>) \in AnyTasks
           /\ Then("endFor", n, i, <<a, b, c>>) \in AnyTasks /\ Then("endArm", n, i, <<a, b, c>>) \in AnyTasks
<1>1. {"visit", "endThen", "endIf", "endWhile", "endFor", "arm", "endArm", "endFunc"} \subseteq DOMAIN Held
  BY DEF Held
<1>2. <<a>> \in Seq(Nat) /\ <<a, b>> \in Seq(Nat) /\ <<a, b, c>> \in Seq(Nat) /\ <<>> \in Seq(Nat) /\ <<>> \in Seq(Node)
  OBVIOUS
<1>3. \A do \in DOMAIN Held : \A p \in Seq(Nat) : Then(do, n, i, p) \in AnyTasks
  BY <1>2 DEF Then, AnyTasks
<1>4. \A list \in Seq(Node) : Visit(list) \in AnyTasks
  BY <1>1, <1>2 DEF Visit, AnyTasks
<1>. QED
  BY <1>1, <1>2, <1>3, <1>4

\* The blocks that those tasks keep.
LEMMA LeavesKept ==
    /\ \A list : Keeps(Visit(list)) = {} /\ Visit(list).do = "visit" /\ Visit(list).list = list
    /\ \A do, n, i, p : /\ Then(do, n, i, p).do = do /\ Then(do, n, i, p).n = n
                        /\ Then(do, n, i, p).i = i /\ Then(do, n, i, p).at = p
    /\ \A do \in {"endThen", "endIf", "arm", "endFunc"} : \A n, i, a : Keeps(Then(do, n, i, <<a>>)) = {a}
    /\ \A n, i, a, b : Keeps(Then("endWhile", n, i, <<a, b>>)) = {b}
    /\ \A n, i, a, b, c : /\ Keeps(Then("endFor", n, i, <<a, b, c>>)) = {b, c}
                          /\ Keeps(Then("endArm", n, i, <<a, b, c>>)) = {b}
<1>1. \A list : Visit(list).do = "visit" /\ Visit(list).list = list
  BY DEF Visit
<1>2. \A do, n, i, p : /\ Then(do, n, i, p).do = do /\ Then(do, n, i, p).n = n
                       /\ Then(do, n, i, p).i = i /\ Then(do, n, i, p).at = p
  BY DEF Then
<1>3. \A list : Keeps(Visit(list)) = {}
  BY <1>1 DEF Keeps
<1>4. \A do \in {"endThen", "endIf", "arm", "endFunc"} : \A n, i, a : Keeps(Then(do, n, i, <<a>>)) = {a}
  BY <1>2 DEF Keeps
<1>5. \A n, i, a, b : Keeps(Then("endWhile", n, i, <<a, b>>)) = {b}
  BY <1>2 DEF Keeps
<1>6. \A n, i, a, b, c : /\ Keeps(Then("endFor", n, i, <<a, b, c>>)) = {b, c}
                         /\ Keeps(Then("endArm", n, i, <<a, b, c>>)) = {b}
  BY <1>2 DEF Keeps
<1>. QED
  BY <1>1, <1>2, <1>3, <1>4, <1>5, <1>6

\* The new blocks, and those there are.
LEMMA NewAre ==
    ASSUME IInv, todo # <<>>
    PROVE  /\ Len(blocks) \in Nat /\ at \in Nat /\ at \in Blocks /\ Keeps(todo[1]) \subseteq Blocks
           /\ \A i \in 1..4 : NewBlock(i) \in Nat /\ NewBlock(i) \notin Blocks
           /\ \A i, j \in 1..4 : i # j => NewBlock(i) # NewBlock(j)
           /\ New(0) = {} /\ New(1) = {NewBlock(1)} /\ New(2) = {NewBlock(1), NewBlock(2)}
           /\ New(3) = {NewBlock(1), NewBlock(2), NewBlock(3)}
           /\ New(4) = {NewBlock(1), NewBlock(2), NewBlock(3), NewBlock(4)}
<1>1. PICK n \in Nat : n = Len(blocks)
  BY DEF IInv
<1>2. Blocks = 1..n /\ at \in 1..n
  BY <1>1 DEF IInv, Blocks
<1>3. \A i : NewBlock(i) = n + i
  BY <1>1 DEF NewBlock
<1>4. \A i \in 1..4 : NewBlock(i) \in Nat /\ NewBlock(i) \notin Blocks
  BY <1>2, <1>3
<1>5. \A i, j \in 1..4 : i # j => NewBlock(i) # NewBlock(j)
  BY <1>3
<1>6. \A k \in 0..4 : New(k) = (n + 1)..(n + k)
  BY <1>1 DEF New
<1>7. /\ (n + 1)..(n + 0) = {} /\ (n + 1)..(n + 1) = {n + 1} /\ (n + 1)..(n + 2) = {n + 1, n + 2}
      /\ (n + 1)..(n + 3) = {n + 1, n + 2, n + 3} /\ (n + 1)..(n + 4) = {n + 1, n + 2, n + 3, n + 4}
  OBVIOUS
<1>8. todo[1] \in Tasks
  BY DEF IInv
<1>9. Keeps(todo[1]) \subseteq Blocks
  BY <1>8, KeepsBlocks
<1>10. /\ New(0) = {} /\ New(1) = {NewBlock(1)} /\ New(2) = {NewBlock(1), NewBlock(2)}
       /\ New(3) = {NewBlock(1), NewBlock(2), NewBlock(3)}
       /\ New(4) = {NewBlock(1), NewBlock(2), NewBlock(3), NewBlock(4)}
  BY <1>3, <1>6, <1>7
<1>. QED
  BY <1>1, <1>2, <1>4, <1>5, <1>9, <1>10

\* To append nothing is a case of appending.
LEMMA QuietEmit ==
    ASSUME IInv, blocks' = blocks
    PROVE  Emit(0, <<>>)
<1>. DEFINE none == [i \in 1..0 |-> <<>>]
            bs == blocks \o none
<1>1. blocks \in Seq(Seq(Instructions)) /\ none \in Seq(Seq(Instructions)) /\ Len(none) = 0
  <2>1. 0 \in Nat
    OBVIOUS
  <2>. QED
    BY <2>1, EmptyBlocks DEF IInv
<1>. HIDE DEF none
<1>2. /\ bs \in Seq(Seq(Instructions)) /\ Len(bs) = Len(blocks)
      /\ \A i \in 1..Len(blocks) : bs[i] = blocks[i]
  BY <1>1, ConcatProperties
<1>. HIDE DEF bs
<1>3. DOMAIN bs = DOMAIN blocks /\ DOMAIN blocks = 1..Len(blocks)
  BY <1>1, <1>2
<1>4. blocks = [b \in DOMAIN bs |-> IF b \in DOMAIN <<>> THEN bs[b] \o <<>>[b] ELSE bs[b]]
  <2>1. blocks = [b \in DOMAIN blocks |-> blocks[b]]
    BY <1>1
  <2>2. DOMAIN <<>> = {}
    OBVIOUS
  <2>. QED
    BY <1>2, <1>3, <2>1, <2>2
<1>. QED
  BY <1>4 DEF Emit, bs, none

\* What a visitor of a list finds, and what is wrong if its block has ended.
LEMMA VisitFinds ==
    ASSUME IInv, todo # <<>>, todo[1].do = "visit", NEW V \in SUBSET Node, Neat(V)
    PROVE  /\ FrameIsRight(2, V)
           /\ Len(todo) > 1 => Len(todo) > 2 /\ IsEnd(todo[2]) /\ todo[3].do \in {"visit", "arm"}
           /\ todo[1].list # <<>> =>
                /\ Node_ \in Reached /\ Node_ \in Node
                /\ HasTerminator(at) /\ EmitsCode(Node_) => ~Clean
<1>1. ChainIsRight(V) /\ FramesAreRight(V) /\ OpenedAreRight(V)
  BY DEF Neat
<1>2. /\ IsFrame(2) /\ 2 \in 1..(Len(todo) + 1) /\ todo[1] \in Tasks
      /\ Len(todo) > 1 => IsEnd(todo[2]) /\ Len(todo) > 2 /\ todo[3].do \in {"visit", "arm"}
  BY <1>1, HeadsAre
<1>3. FrameIsRight(2, V)
  BY <1>1, <1>2 DEF FramesAreRight
<1>. SUFFICES ASSUME todo[1].list # <<>>
              PROVE  /\ Node_ \in Reached /\ Node_ \in Node
                     /\ HasTerminator(at) /\ EmitsCode(Node_) => ~Clean
  BY <1>2, <1>3
<1>4. PICK L \in Seq(Node) : L = ListAt(2) /\ (\A i \in 1..Len(L) : L[i] \in Reached)
                             /\ (Clean => NoDeadCode(L, Len(L)))
  BY <1>1, <1>2, ListIs
<1>5. PICK left \in Seq(Node) : left = todo[1].list /\ left # <<>> /\ left = LeftAt(2)
  BY <1>2, TasksHold DEF LeftAt
<1>6. Node_ = left[1]
  <2>1. Head(todo) = todo[1] /\ Head(left) = left[1]
    BY DEF IInv
  <2>2. Node_ = Head(Head(todo).list)
    BY DEF Node_
  <2>. QED
    BY ONLY <1>5, <2>1, <2>2
<1>7. PICK m \in 0..Len(L) : Passed(L, left, m, V) /\ GoesOnIn(at, L, m)
  BY <1>3, <1>4, <1>5 DEF FrameIsRight, Frame, BlockAt
<1>8. /\ m \in Nat /\ Len(left) \in Nat /\ Len(left) > 0 /\ Len(L) = m + Len(left)
      /\ \A i \in 1..Len(left) : left[i] = L[m + i]
  BY <1>5, <1>7 DEF Passed
<1>9. m + 1 \in 1..Len(L) /\ 1 \in 1..Len(left) /\ \A i \in 1..m : i \in 1..Len(L) /\ i < m + 1
  BY <1>8
<1>10. Node_ = L[m + 1]
  BY <1>6, <1>8, <1>9
<1>11. Node_ \in Reached /\ Node_ \in Node
  BY <1>4, <1>9, <1>10
<1>12. ASSUME HasTerminator(at), EmitsCode(Node_), Clean PROVE FALSE
  <2>1. at # 0
    BY DEF IInv, Blocks
  <2>2. PICK i \in 1..m : IsReturn(L[i])
    BY <1>7, <1>12, <2>1 DEF GoesOnIn, Returns
  <2>. QED
    BY <1>4, <1>9, <1>10, <1>12, <2>2 DEF NoDeadCode
<1>. QED
  BY <1>11, <1>12

\* The frames after a visit: that of the list, and those the visitor adds.
LEMMA FramesAfterVisit ==
    ASSUME IInv, IInv', NEW new, NEW code, NEW tasks, Turn(new, code, tasks),
           NEW V \in SUBSET Node, Neat(V), NEW W, V \subseteq W, todo[1].do = "visit",
           NEW e, e = Len(tasks) + 1, FrameIsRight(e, W)',
           \A l \in 1..Len(tasks) : IsEnd(tasks[l]) => FrameIsRight(l, W)'
    PROVE  FramesAreRight(W)'
<1>1. /\ Len(todo) \in Nat /\ Len(todo) > 0 /\ Len(tasks) \in Nat
      /\ Len(todo') = (Len(tasks) + Len(todo)) - 1
      /\ \A i \in 1..Len(tasks) : todo'[i] = tasks[i]
      /\ \A l \in 2..Len(todo) : todo'[(Len(tasks) + l) - 1] = todo[l]
  BY TasksTurn
<1>2. PICK n \in Nat : n = Len(todo)
  BY <1>1
<1>3. PICK d \in Nat : d = Len(tasks)
  BY <1>1
<1>4. n > 1 => n > 2 /\ todo[3].do \in {"visit", "arm"}
  BY <1>2, VisitFinds DEF Turn
<1>5. ASSUME NEW l \in 1..(Len(todo') + 1), l <= d + 2, IsFrame(l)'
      PROVE  FrameIsRight(l, W)'
  <2>1. CASE l \in 1..d
    <3>1. l \in 1..Len(todo') /\ todo'[l] = tasks[l]
      BY <1>1, <1>2, <1>3, <2>1
    <3>2. IsEnd(tasks[l])
      BY <1>5, <3>1 DEF IsFrame, IsEnd
    <3>. QED
      BY <1>3, <2>1, <3>2
  <2>2. CASE l = d + 1
    BY <1>3, <2>2
  <2>3. CASE l = d + 2
    <3>1. n > 2
      BY <1>1, <1>2, <1>3, <1>4, <2>3
    <3>2. 3 \in 2..n /\ (d + 3) - 1 = l /\ l \in 1..Len(todo')
      BY <1>1, <1>2, <1>3, <2>3, <3>1
    <3>3. todo'[l] = todo[3]
      BY <1>1, <1>2, <1>3, <3>2
    <3>. QED
      BY <1>4, <1>5, <3>1, <3>2, <3>3 DEF IsFrame, IsEnd
  <2>. QED
    BY <1>3, <1>5, <2>1, <2>2, <2>3
<1>6. FramesAreRight(V) /\ KeptApart
  BY DEF Neat
<1>. QED
  BY <1>3, <1>5, <1>6, FramesTurn
-----------------------------------------------------------------------------
\* The end of a list: the task behind it comes next, in the same block.
LEMMA VisitsEndFares ==
    ASSUME IInv, IInv', VisitsEnd
    PROVE  Fares
<1>1. todo # <<>> /\ todo[1].do = "visit" /\ todo[1].list = <<>> /\ Head(todo) = todo[1]
  <2>1. todo # <<>> /\ Head(todo).do = "visit" /\ Head(todo).list = <<>>
    BY DEF VisitsEnd, Doing
  <2>. QED
    BY <2>1 DEF IInv
<1>2. UNCHANGED <<blocks, owner, at, prog>> /\ todo' = <<>> \o Tail(todo)
  BY DEF VisitsEnd, Proceed
<1>3. Touched(0) = {at}
  <2>1. Keeps(todo[1]) = {}
    BY <1>1 DEF Keeps
  <2>. QED
    BY <1>1, <2>1, NewAre DEF Touched
<1>4. Turn(0, <<>>, <<>>)
  <2>1. Emit(0, <<>>)
    BY <1>2, QuietEmit
  <2>2. <<>> \in Seq(AnyTasks) /\ Len(<<>>) = 0 /\ DOMAIN <<>> = {}
    OBVIOUS
  <2>. QED
    BY <1>1, <1>2, <1>3, <2>1, <2>2 DEF Turn
<1>5. /\ Len(todo) \in Nat /\ Len(todo) > 0 /\ Len(todo') = (Len(<<>>) + Len(todo)) - 1 /\ Len(<<>>) = 0
      /\ \A l \in 2..Len(todo) : todo'[(Len(<<>>) + l) - 1] = todo[l]
  BY <1>4, TasksTurn
<1>6. PICK n \in Nat : n = Len(todo) /\ n > 0 /\ Len(todo') = n - 1
  BY <1>5
<1>7. n > 1 => todo'[1] = todo[2]
  BY <1>5, <1>6
<1>8. Spoilt => Spoilt'
  BY <1>4, SpoiltTurns
<1>9. ~Doomed
  BY <1>1 DEF Doomed
<1>10. ASSUME NEW V \in SUBSET Node, Neat(V)
       PROVE  Neat(V)'
  <2>1. /\ FrameIsRight(2, V)
        /\ n > 1 => n > 2 /\ IsEnd(todo[2])
    BY <1>1, <1>6, <1>10, VisitFinds
  <2>2. ChainIsRight(V)'
    <3>1. ChainIsRight(V) /\ \A i : (i \in 1..Len(<<>>)) = FALSE
      BY <1>5, <1>10 DEF Neat
    <3>. QED
      BY <1>4, <3>1, ChainTurns
  <2>3. FrameIsRight(1, V)'
    <3>1. PICK c : c = at
      OBVIOUS
    <3>2. Alike(2, 1, c, c)
      <4>1. c = BlockAt(2) /\ c = BlockAt(1)'
        BY <1>2, <3>1 DEF BlockAt
      <4>2. LeftAt(1)' = LeftAt(2)
        BY <1>1 DEF LeftAt
      <4>3. HasTerminator(c)' <=> HasTerminator(c)
        BY <1>2 DEF HasTerminator
      <4>4. \A a \in Blocks : ~InUse(a) => ~InUse(a)'
        BY <1>4, InUseTurns
      <4>5. /\ 2 <= Len(todo) => 2 \in 1..Len(todo) /\ 1 <= Len(todo') /\ todo'[1] = todo[2]
            /\ 2 > Len(todo) => 1 > Len(todo')
        BY <1>6, <1>7
      <4>. QED
        BY <4>1, <4>2, <4>3, <4>4, <4>5 DEF Alike
    <3>. QED
      BY <1>2, <2>1, <3>2, FrameKept
  <2>4. FramesAreRight(V)'
    <3>1. 1 = Len(<<>>) + 1 /\ \A l : (l \in 1..Len(<<>>)) = FALSE
      BY <1>5
    <3>. QED
      BY <1>1, <1>4, <1>10, <2>3, <3>1, FramesAfterVisit
  <2>5. OpenedAreRight(V)'
    <3>1. \A m, j : ~Pends(todo[1], m, j)
      BY <1>1 DEF Pends
    <3>2. OpenedAreRight(V)
      BY <1>10 DEF Neat
    <3>. QED
      BY <1>4, <3>1, <3>2, OpenedTurns
  <2>6. KeptApart' /\ KeptOpen' /\ BlocksAreRight'
    <3>1. KeptApart /\ KeptOpen /\ BlocksAreRight
      BY <1>10 DEF Neat
    <3>2. \A i, j \in 0..Len(<<>>) : i = j
      BY <1>5
    <3>3. \A i : (i \in 1..Len(<<>>)) = FALSE
      BY <1>5
    <3>4. ~(todo' # <<>> /\ todo'[1].do = "arm")
      <4>1. n > 1 => IsEnd(todo'[1])
        BY <1>7, <2>1
      <4>2. n = 1 => todo' = <<>>
        <5>1. todo' \in Seq(Tasks')
          BY DEF IInv
        <5>. QED
          BY <1>6, <5>1
      <4>. QED
        BY <1>6, <4>1, <4>2 DEF IsEnd
    <3>5. \A b \in Touched(0) :
             Settled(b)' /\ ((\E i \in 0..Len(<<>>) : b \in KeptNow(<<>>, i)) \/ WellFormed(b)')
      <4>1. Settled(at) /\ 0 \in 0..Len(<<>>)
        BY <1>5, <3>1 DEF BlocksAreRight, IInv
      <4>2. PICK c : c = at
        OBVIOUS
      <4>3. Settled(c)'
        BY <1>2, <4>1, <4>2 DEF Settled, IsOpen, WellFormed, HasTerminator
      <4>4. c \in KeptNow(<<>>, 0)
        BY <1>2, <4>2 DEF KeptNow
      <4>. QED
        BY <1>3, <4>1, <4>2, <4>3, <4>4
    <3>. QED
      BY <1>4, <3>1, <3>2, <3>3, <3>4, <3>5, BlocksAfter
  <2>. QED
    BY <2>2, <2>4, <2>5, <2>6 DEF Neat
<1>. QED
  BY <1>8, <1>9, <1>10 DEF Fares

\* The statements that leave the rest of their list only.
LEMMA SimpleVisitsFare ==
    ASSUME IInv, IInv', VisitAct \/ VisitReturn \/ VisitNothing
    PROVE  Fares
<1>1. PICK k : Stmt(k)
  BY DEF VisitAct, VisitReturn, VisitNothing
<1>2. /\ todo # <<>> /\ Head(todo) = todo[1] /\ todo[1].do = "visit" /\ todo[1].list # <<>>
      /\ Node_ \in Node /\ Tail(Head(todo).list) \in Seq(Node)
  <2>1. todo # <<>> /\ Head(todo).do = "visit" /\ Node_ \in Node /\ Tail(Head(todo).list) \in Seq(Node)
        /\ Head(todo).list # <<>>
    BY <1>1, StmtIsNode DEF Stmt
  <2>. QED
    BY <2>1 DEF IInv
<1>3. PICK x \in Node : x = Node_
  BY <1>2
<1>4. PICK c : c = at
  OBVIOUS
<1>5. at' = c /\ prog' = prog /\ todo' = <<Others>> \o Tail(todo)
  BY <1>4 DEF VisitAct, VisitReturn, VisitNothing, Proceed
\* What is appended, if anything.
<1>6. PICK code :
         /\ Emit(0, code) /\ DOMAIN code \subseteq {c} /\ (EmitsCode(x) <=> c \in DOMAIN code)
         /\ c \in DOMAIN code => /\ code[c] \in Seq(AnyInstructions) /\ code[c] # <<>>
                                 /\ IF IsReturn(x) THEN Ends(code[c]) ELSE GoesOn(code[c])
         /\ IsReturn(x) => EmitsCode(x)
         /\ ~IsOpened(x) /\ (EmitsCode(x) => prog.kind[x] \in {"act", "return"})
  <2>1. ASSUME NEW s, At(at, s) = At(c, s) PROVE DOMAIN At(at, s) = {c} /\ At(at, s)[c] = s
    BY <1>4 DEF At
  <2>2. /\ <<Act(x, 0)>> \in Seq(AnyInstructions) /\ GoesOn(<<Act(x, 0)>>) /\ <<Act(x, 0)>> # <<>>
        /\ <<Ret(x)>> \in Seq(AnyInstructions) /\ Ends(<<Ret(x)>>) /\ <<Ret(x)>> # <<>>
    <3>1. x \in Node \union {"none"} /\ 0 \in Nat
      OBVIOUS
    <3>. QED
      BY <3>1, CodeIs
  <2>3. CASE VisitAct
    <3>1. prog.kind[x] = "act" /\ prog.valued[x] /\ Emit(0, At(at, <<Act(x, 0)>>))
      BY <1>3, <2>3 DEF VisitAct, Stmt, Node_, Valued
    <3>2. EmitsCode(x) /\ ~IsReturn(x) /\ ~IsOpened(x)
      BY <3>1 DEF EmitsCode, IsReturn, IsOpened
    <3>. QED
      BY <1>4, <2>1, <2>2, <3>1, <3>2
  <2>4. CASE VisitReturn
    <3>1. prog.kind[x] = "return" /\ prog.valued[x] /\ Emit(0, At(at, <<Ret(x)>>))
      BY <1>3, <2>4 DEF VisitReturn, Stmt, Node_, Valued
    <3>2. EmitsCode(x) /\ IsReturn(x) /\ ~IsOpened(x)
      BY <3>1 DEF EmitsCode, IsReturn, IsOpened
    <3>. QED
      BY <1>4, <2>1, <2>2, <3>1, <3>2
  <2>5. CASE VisitNothing
    <3>1. prog.kind[x] = "loop" \/ (prog.kind[x] \in {"act", "return", "if", "ifElse", "match", "matchElse"} /\ ~prog.valued[x])
      BY <1>3, <2>5 DEF VisitNothing, Stmt, Node_, Valued
    <3>2. ~EmitsCode(x) /\ ~IsReturn(x) /\ ~IsOpened(x)
      BY <3>1 DEF EmitsCode, IsReturn, IsOpened
    <3>3. Emit(0, <<>>) /\ DOMAIN <<>> = {}
      BY <2>5, QuietEmit DEF VisitNothing
    <3>. QED
      BY <3>2, <3>3
  <2>. QED
    BY <2>3, <2>4, <2>5
<1>. DEFINE tasks == <<Others>>
<1>7. tasks \in Seq(AnyTasks) /\ Len(tasks) = 1 /\ tasks[1] = Others /\ Keeps(Others) = {} /\ Others.do = "visit"
  <2>1. Others \in AnyTasks
    BY <1>2 DEF Others, Visit, AnyTasks, Held
  <2>. QED
    BY <2>1, LeavesKept DEF Others
<1>. HIDE DEF tasks
<1>8. Touched(0) = {c}
  <2>1. Keeps(todo[1]) = {}
    BY <1>2 DEF Keeps
  <2>. QED
    BY <1>2, <1>4, <2>1, NewAre DEF Touched
<1>9. Turn(0, code, tasks)
  <2>1. \A i \in 1..Len(tasks) : Keeps(tasks[i]) \subseteq Touched(0)
    BY <1>7
  <2>2. todo' = tasks \o Tail(todo)
    BY <1>5 DEF tasks
  <2>. QED
    BY <1>2, <1>5, <1>6, <1>7, <1>8, <2>1, <2>2 DEF Turn
<1>10. Spoilt => Spoilt'
  BY <1>9, SpoiltTurns
<1>11. ~Doomed
  BY <1>2 DEF Doomed
<1>12. c \in Blocks /\ c \in Blocks'
  BY <1>4, <1>9, BlocksTurn DEF IInv
<1>13. ASSUME NEW V \in SUBSET Node, Neat(V), HasTerminator(c), EmitsCode(x)
       PROVE  ~Clean /\ Spoilt'
  <2>1. ~Clean
    BY <1>2, <1>3, <1>4, <1>13, VisitFinds
  <2>2. ~IsOpen(c)
    BY <1>12, <1>13, StatusIs
  <2>3. ~Settled(c)'
    BY <1>6, <1>9, <1>12, <1>13, <2>2, StatusTurns
  <2>. QED
    BY <1>12, <2>1, <2>3 DEF Spoilt
<1>14. ASSUME NEW V \in SUBSET Node, Neat(V), ~(HasTerminator(c) /\ EmitsCode(x))
       PROVE  Neat(V)'
  <2>1. /\ FrameIsRight(2, V) /\ ChainIsRight(V) /\ OpenedAreRight(V)
        /\ KeptApart /\ KeptOpen /\ BlocksAreRight
        /\ Len(todo) > 1 => Len(todo) > 2 /\ IsEnd(todo[2])
    BY <1>2, <1>14, VisitFinds DEF Neat
  <2>2. ChainIsRight(V)'
    <3>1. TaskFits(Others, V) /\ (Len(todo) = 1 \/ Follows(Others, todo[2]))
      <4>1. PICK n \in Nat : n = Len(todo) /\ n > 0
        BY <1>9, TasksTurn
      <4>2. Len(todo) = 1 \/ Len(todo) > 1
        BY <4>1
      <4>. QED
        BY <1>7, <2>1, <4>2 DEF TaskFits, Follows
    <3>2. \A i \in 1..Len(tasks) :
            /\ TaskFits(tasks[i], V)
            /\ ~(i < Len(tasks))
            /\ IF Len(todo) = 1 THEN tasks[i].do = "visit" ELSE Follows(tasks[i], todo[2])
      BY <1>7, <3>1
    <3>. QED
      BY <1>9, <2>1, <3>2, ChainTurns
  <2>3. Settled(c) /\ (HasTerminator(c) <=> ~IsOpen(c))
    BY <1>12, <2>1, StatusIs DEF BlocksAreRight, Settled
  <2>4. Settled(c)' /\ (HasTerminator(c)' <=> HasTerminator(c) \/ IsReturn(x))
    <3>1. c \in DOMAIN code => IsOpen(c)
      BY <1>6, <1>14, <2>3
    <3>2. /\ c \notin DOMAIN code => (IsOpen(c)' <=> IsOpen(c)) /\ (WellFormed(c)' <=> WellFormed(c))
          /\ c \in DOMAIN code => IF IsReturn(x) THEN WellFormed(c)' ELSE IsOpen(c)'
      BY <1>6, <1>9, <1>12, <3>1, StatusTurns
    <3>3. (IsOpen(c) => ~WellFormed(c)) /\ (Settled(c) => IsOpen(c) \/ WellFormed(c))
          /\ (IsOpen(c)' \/ WellFormed(c)' => Settled(c)')
      BY <1>12, StatusIs DEF Settled
    <3>4. (IsOpen(c)' => ~HasTerminator(c)') /\ (WellFormed(c)' => HasTerminator(c)')
      <4>1. blocks'[c] \in Seq(Instructions')
        BY <1>12 DEF IInv, Blocks
      <4>. QED
        BY <4>1 DEF IsOpen, HasTerminator, WellFormed
    <3>5. IsReturn(x) => c \in DOMAIN code
      BY <1>6
    <3>. QED
      BY <2>3, <3>1, <3>2, <3>3, <3>4, <3>5
  <2>5. FrameIsRight(2, V)'
    <3>1. PICK e : e = c /\ e = BlockAt(1 + 1)'
      BY <1>5 DEF BlockAt
    <3>2. 1 \in 1..Len(tasks) /\ 1 = Len(tasks) /\ tasks[1] = Others /\ (IsOpened(x) => x \in V)
          /\ (EmitsCode(x) => ~HasTerminator(at)) /\ (Len(todo) > 1 => Len(todo) > 2)
      BY <1>4, <1>6, <1>7, <1>14, <2>1
    <3>3. \/ e = c /\ (HasTerminator(c)' <=> HasTerminator(c) \/ IsReturn(x))
          \/ e = 0 /\ ~HasTerminator(c) /\ ~IsReturn(x)
      BY <2>4, <3>1
    <3>4. IF EmitsCode(x) /\ prog.kind[x] \notin {"act", "return"}
          THEN ~InUse(c)' \/ (1 + 1 = 3 /\ todo'[1].do = "arm" /\ c = at')
          ELSE e = c
      BY <1>6, <3>1
    <3>5. FrameIsRight(1 + 1, V)'
      BY <1>2, <1>3, <1>4, <1>9, <2>1, <3>1, <3>2, <3>3, <3>4, FrameAdvances
    <3>. QED
      BY <3>5
  <2>6. FramesAreRight(V)'
    <3>1. 2 = Len(tasks) + 1 /\ \A l \in 1..Len(tasks) : ~IsEnd(tasks[l])
      BY <1>7 DEF IsEnd
    <3>. QED
      BY <1>2, <1>9, <1>14, <2>5, <3>1, FramesAfterVisit
  <2>7. OpenedAreRight(V)'
    <3>1. \A m, j : ~Pends(todo[1], m, j)
      BY <1>2 DEF Pends
    <3>. QED
      BY <1>9, <2>1, <3>1, OpenedTurns
  <2>8. KeptApart' /\ KeptOpen' /\ BlocksAreRight'
    <3>1. KeptNow(tasks, 0) = {c} /\ KeptNow(tasks, 1) = {} /\ \A i \in 0..Len(tasks) : i = 0 \/ i = 1
      BY <1>5, <1>7 DEF KeptNow
    <3>2. \A i, j \in 0..Len(tasks) : i # j => KeptNow(tasks, i) \cap KeptNow(tasks, j) = {}
      BY <3>1
    <3>3. \A i \in 1..Len(tasks) : Keeps(tasks[i]) = {}
      BY <1>7
    <3>4. todo'[1].do # "arm"
      <4>1. 1 \in 1..Len(tasks)
        BY <1>7
      <4>2. todo'[1] = tasks[1]
        BY <1>9, <4>1, TasksTurn
      <4>. QED
        BY <1>7, <4>2
    <3>5. \A b \in Touched(0) :
             Settled(b)' /\ ((\E i \in 0..Len(tasks) : b \in KeptNow(tasks, i)) \/ WellFormed(b)')
      <4>1. 0 \in 0..Len(tasks)
        BY <1>7
      <4>2. c \in KeptNow(tasks, 0)
        BY <3>1, <4>1
      <4>. QED
        BY <1>8, <2>4, <4>1, <4>2
    <3>. QED
      BY <1>9, <2>1, <3>2, <3>3, <3>4, <3>5, BlocksAfter
  <2>. QED
    BY <2>2, <2>6, <2>7, <2>8 DEF Neat
<1>. QED
  BY <1>10, <1>11, <1>13, <1>14 DEF Fares
-----------------------------------------------------------------------------
\* The insertion point is given up if the turn keeps it for nothing.
LEMMA GivenUp ==
    ASSUME IInv, IInv', NEW new, NEW code, NEW tasks, Turn(new, code, tasks), KeptApart,
           NEW k \in 0..1, NEW c \in KeptAt(k), c \in Blocks, \A i \in 0..Len(tasks) : c \notin KeptNow(tasks, i)
    PROVE  ~InUse(c)'
<1>1. /\ Len(todo) \in Nat /\ Len(todo) > 0 /\ Len(tasks) \in Nat
      /\ Len(todo') = (Len(tasks) + Len(todo)) - 1
  BY TasksTurn
<1>2. ASSUME NEW l \in 0..Len(todo'), c \in KeptAt(l)' PROVE FALSE
  <2>1. CASE l <= Len(tasks) /\ KeptAt(l)' = IF l = 0 THEN {at'} ELSE Keeps(tasks[l])
    <3>1. KeptAt(l)' = KeptNow(tasks, l)
      BY <2>1 DEF KeptNow
    <3>. QED
      BY <1>1, <1>2, <2>1, <3>1
  <2>2. CASE \E m \in 2..Len(todo) : KeptAt(l)' = Keeps(todo[m]) /\ KeptAt(m) = Keeps(todo[m])
    <3>1. PICK m \in 2..Len(todo) : KeptAt(l)' = KeptAt(m)
      BY <2>2
    <3>2. m \in 0..Len(todo) /\ k \in 0..Len(todo) /\ m # k
      BY <1>1, <3>1
    <3>. QED
      BY <1>2, <3>1, <3>2 DEF KeptApart
  <2>. QED
    BY <2>1, <2>2, KeptTurns
<1>. QED
  BY <1>2 DEF InUse

\* What is appended to a block that has ended.
LEMMA SpoilsEnded ==
    ASSUME IInv, IInv', NEW new, NEW code, NEW tasks, Turn(new, code, tasks),
           NEW c \in Blocks, c \in DOMAIN code, code[c] # <<>>, HasTerminator(c)
    PROVE  Spoilt'
<1>1. ~IsOpen(c)
  BY StatusIs
<1>2. ~Settled(c)'
  BY <1>1, StatusTurns
<1>3. c \in Blocks'
  BY BlocksTurn
<1>. QED
  BY <1>2, <1>3 DEF Spoilt

\* What is appended to a block that is open, and what to a new one.
LEMMA EndsOpen ==
    ASSUME IInv, IInv', NEW new, NEW code, NEW tasks, Turn(new, code, tasks)
    PROVE  /\ \A b \in Blocks : IsOpen(b) /\ b \in DOMAIN code =>
                /\ Ends(code[b]) => WellFormed(b)' /\ Settled(b)' /\ HasTerminator(b)'
                /\ GoesOn(code[b]) => IsOpen(b)' /\ Settled(b)' /\ ~HasTerminator(b)'
           /\ \A b \in Blocks : b \notin DOMAIN code =>
                /\ Settled(b)' <=> Settled(b)
                /\ IsOpen(b)' <=> IsOpen(b)
                /\ WellFormed(b)' <=> WellFormed(b)
                /\ HasTerminator(b)' <=> HasTerminator(b)
           /\ \A b \in New(new) :
                /\ b \in DOMAIN code => (Ends(code[b]) => WellFormed(b)' /\ Settled(b)' /\ HasTerminator(b)')
                /\ b \notin DOMAIN code => IsOpen(b)' /\ Settled(b)' /\ ~HasTerminator(b)'
<1>1. \A b \in Blocks' : /\ IsOpen(b)' => ~HasTerminator(b)' /\ Settled(b)'
                         /\ WellFormed(b)' => HasTerminator(b)' /\ Settled(b)'
  <2>1. SUFFICES ASSUME NEW b \in Blocks'
                 PROVE  /\ IsOpen(b)' => ~HasTerminator(b)' /\ Settled(b)'
                        /\ WellFormed(b)' => HasTerminator(b)' /\ Settled(b)'
    OBVIOUS
  <2>2. blocks'[b] \in Seq(Instructions')
    BY <2>1 DEF IInv, Blocks
  <2>. QED
    BY <2>2 DEF IsOpen, HasTerminator, WellFormed, Settled
<1>2. Blocks \subseteq Blocks' /\ New(new) \subseteq Blocks'
  BY BlocksTurn
<1>3. \A b \in Blocks : b \notin DOMAIN code => (Settled(b)' <=> Settled(b))
  BY StatusTurns DEF Settled
<1>. QED
  BY <1>1, <1>2, <1>3, StatusTurns

\* A statement that is opened, x in block c, and what it leaves: d tasks, the last
\* of them the rest of its list, which goes on in e.
Opens(new, tasks, x, d, c, e, V, W) ==
    /\ todo[1].do = "visit" /\ todo[1].list # <<>> /\ x = Node_ /\ IsOpened(x) /\ (EmitsCode(x) => ~HasTerminator(at))
    /\ d \in 1..Len(tasks) /\ d = Len(tasks) /\ tasks[d] = Others /\ V \in SUBSET Node /\ W = V \union {x}
    /\ c = at /\ e = BlockAt(d + 1)'
    /\ \/ e = c /\ (HasTerminator(c)' <=> HasTerminator(c))
       \/ e = 0 /\ ~HasTerminator(c)
    /\ IF EmitsCode(x) THEN ~InUse(c)' \/ (d + 1 = 3 /\ todo'[1].do = "arm" /\ c = at') ELSE e = c
    /\ \A i \in 1..d : i < d => TaskFits(tasks[i], {x}) /\ Follows(tasks[i], tasks[i + 1])
    /\ \A l \in 1..d : IsEnd(tasks[l]) => FrameIsRight(l, W)'
    /\ \A j \in DOMAIN prog.parts[x] : \E i \in 1..d : Pends(tasks[i], x, j)
    /\ \A i, j \in 0..Len(tasks) : i # j => KeptNow(tasks, i) \cap KeptNow(tasks, j) = {}
    /\ \A i \in 1..Len(tasks) : tasks[i].do \notin {"endIf", "endFunc"} => \A b \in Keeps(tasks[i]) : IsOpen(b)'
    /\ \A b \in Touched(new) :
          Settled(b)' /\ ((\E i \in 0..Len(tasks) : b \in KeptNow(tasks, i)) \/ WellFormed(b)')
    /\ todo' # <<>> /\ todo'[1].do = "arm" => IsOpen(at)'

\* A turn that opens a statement for its parts keeps a neat program neat, with the
\* statement among those opened.
LEMMA OpeningKeeps ==
    ASSUME IInv, IInv', NEW new, NEW code, NEW tasks, Turn(new, code, tasks), NEW V, Neat(V),
           NEW x, NEW d, NEW c, NEW e, NEW W, Opens(new, tasks, x, d, c, e, V, W)
    PROVE  W \in SUBSET Node /\ Neat(W)'
<1>. SUFFICES ASSUME
           V \in SUBSET Node,
           todo[1].do = "visit", todo[1].list # <<>>, x = Node_, IsOpened(x), EmitsCode(x) => ~HasTerminator(at),
           d \in 1..Len(tasks), d = Len(tasks), tasks[d] = Others, W = V \union {x},
           c = at, e = BlockAt(d + 1)',
           \/ e = c /\ (HasTerminator(c)' <=> HasTerminator(c))
           \/ e = 0 /\ ~HasTerminator(c),
           IF EmitsCode(x) THEN ~InUse(c)' \/ (d + 1 = 3 /\ todo'[1].do = "arm" /\ c = at') ELSE e = c,
           \A i \in 1..d : i < d => TaskFits(tasks[i], {x}) /\ Follows(tasks[i], tasks[i + 1]),
           \A l \in 1..d : IsEnd(tasks[l]) => FrameIsRight(l, W)',
           \A j \in DOMAIN prog.parts[x] : \E i \in 1..d : Pends(tasks[i], x, j),
           \A i, j \in 0..Len(tasks) : i # j => KeptNow(tasks, i) \cap KeptNow(tasks, j) = {},
           \A i \in 1..Len(tasks) : tasks[i].do \notin {"endIf", "endFunc"} => \A b \in Keeps(tasks[i]) : IsOpen(b)',
           \A b \in Touched(new) :
              Settled(b)' /\ ((\E i \in 0..Len(tasks) : b \in KeptNow(tasks, i)) \/ WellFormed(b)'),
           todo' # <<>> /\ todo'[1].do = "arm" => IsOpen(at)'
    PROVE  W \in SUBSET Node /\ Neat(W)'
  BY DEF Opens
<1>1. /\ ChainIsRight(V) /\ FramesAreRight(V) /\ OpenedAreRight(V)
      /\ KeptApart /\ KeptOpen /\ BlocksAreRight /\ todo # <<>>
  BY DEF Neat, Turn
<1>2. /\ FrameIsRight(2, V) /\ (Len(todo) > 1 => Len(todo) > 2 /\ IsEnd(todo[2]))
      /\ x \in Reached /\ x \in Node
  BY <1>1, VisitFinds
<1>3. V \subseteq W /\ W \in SUBSET Node /\ x \in W
  BY <1>2
<1>4. ~IsReturn(x) /\ prog.kind[x] \notin {"act", "return"}
  BY DEF IsOpened, IsReturn
<1>5. ChainIsRight(W)'
  <2>1. PICK n \in Nat : n = Len(todo) /\ n > 0
    BY TasksTurn
  <2>2. TaskFits(Others, W) /\ Others.do = "visit" /\ (n = 1 \/ Follows(Others, todo[2]))
    <3>1. Others.do = "visit"
      BY LeavesKept DEF Others
    <3>2. n = 1 \/ n > 1
      BY <2>1
    <3>. QED
      BY <1>2, <2>1, <3>1, <3>2 DEF TaskFits, Follows
  <2>3. \A t : TaskFits(t, {x}) => TaskFits(t, W)
    BY <1>3 DEF TaskFits
  <2>4. \A i \in 1..Len(tasks) :
              /\ TaskFits(tasks[i], W)
              /\ i < Len(tasks) => Follows(tasks[i], tasks[i + 1])
              /\ i = Len(tasks) => IF Len(todo) = 1 THEN tasks[i].do = "visit" ELSE Follows(tasks[i], todo[2])
    <3>. SUFFICES ASSUME NEW i \in 1..d
                  PROVE  /\ TaskFits(tasks[i], W)
                         /\ i < d => Follows(tasks[i], tasks[i + 1])
                         /\ i = d => IF n = 1 THEN tasks[i].do = "visit" ELSE Follows(tasks[i], todo[2])
      BY <2>1
    <3>1. i < d \/ i = d
      BY TasksTurn
    <3>. QED
      BY <2>2, <2>3, <3>1
  <2>. QED
    BY <1>1, <1>3, <2>4, ChainTurns
<1>6. FramesAreRight(W)'
  <2>1. PICK f \in Nat : f = d + 1
    BY TasksTurn
  <2>2. FrameIsRight(d + 1, W)'
    <3>1. \/ e = c /\ (HasTerminator(c)' <=> HasTerminator(c) \/ IsReturn(x))
          \/ e = 0 /\ ~HasTerminator(c) /\ ~IsReturn(x)
      BY <1>4
    <3>2. IF EmitsCode(x) /\ prog.kind[x] \notin {"act", "return"}
          THEN ~InUse(c)' \/ (d + 1 = 3 /\ todo'[1].do = "arm" /\ c = at')
          ELSE e = c
      BY <1>4
    <3>. QED
      BY <1>2, <1>3, <3>1, <3>2, FrameAdvances
  <2>3. FrameIsRight(f, W)'
    BY ONLY <2>1, <2>2
  <2>. QED
    BY <1>3, <2>1, <2>3, FramesAfterVisit
<1>7. OpenedAreRight(W)'
  <2>1. \A n, j : ~Pends(todo[1], n, j)
    BY DEF Pends
  <2>2. \A n \in W : n \notin V =>
              /\ n \in Reached /\ IsOpened(n)
              /\ \A j \in DOMAIN prog.parts[n] : \E i \in 1..Len(tasks) : Pends(tasks[i], n, j)
    BY <1>2
  <2>. QED
    BY <1>1, <1>3, <2>1, <2>2, OpenedTurns
<1>8. KeptApart' /\ KeptOpen' /\ BlocksAreRight'
  BY <1>1, BlocksAfter
<1>. QED
  BY <1>3, <1>5, <1>6, <1>7, <1>8 DEF Neat
-----------------------------------------------------------------------------
\* What a program's table says of a statement.
LEMMA TableIs ==
    ASSUME IInv, NEW x \in Node
    PROVE  /\ prog.kind[x] \in Kinds /\ prog.valued[x] \in BOOLEAN /\ prog.parts[x] \in Seq(Seq(Node))
           /\ prog.kind[x] \in {"if", "while", "for", "forEver", "func"} => Len(prog.parts[x]) = 1
           /\ prog.kind[x] = "ifElse" => Len(prog.parts[x]) = 2
<1>1. prog \in ProgramTable /\ HasParts(prog)
  BY ProgramsAssumption DEF IInv
<1>. QED
  BY <1>1 DEF ProgramTable, HasParts

\* A statement with a body or a branch that is visited at once, and an end behind
\* it: its block c gets a branch, or is the function around it, and f is the first
\* block of the body; the other new blocks are kept, or end at once.
OpensBody(new, code, tasks, x, do, p, t, c, f) ==
    /\ todo[1].do = "visit" /\ todo[1].list # <<>> /\ x = Node_ /\ IsOpened(x)
    /\ do \in {"endThen", "endWhile", "endFor", "endFunc"} /\ t = Then(do, x, 0, p) /\ prog.kind[x] \in EndKinds(t)
    /\ do = "endFor" => p[2] # p[3]
    /\ Len(tasks) = 3 /\ tasks[1] = Part(x, 1) /\ tasks[2] = t /\ tasks[3] = Others
    /\ c = at /\ f = at' /\ f \in New(new) /\ f \notin DOMAIN code /\ f \notin Keeps(t)
    /\ IF do = "endFunc" THEN ~EmitsCode(x) /\ c \notin DOMAIN code /\ p = <<c>>
       ELSE EmitsCode(x) /\ c \in DOMAIN code /\ Ends(code[c]) /\ c \notin Keeps(t) /\ Keeps(t) \subseteq New(new)
    /\ \A b \in New(new) :
         \/ b \in {f} \union Keeps(t) /\ b \notin DOMAIN code
         \/ b \notin Keeps(t) /\ b \in DOMAIN code /\ Ends(code[b])

\* A turn that begins with the first part of a statement does so.
LEMMA BodyOpens ==
    ASSUME IInv, IInv', NEW new, NEW code, NEW tasks, Turn(new, code, tasks), NEW V \in SUBSET Node, Neat(V),
           NEW x, NEW do, NEW p, NEW t, NEW c, NEW f, OpensBody(new, code, tasks, x, do, p, t, c, f),
           EmitsCode(x) => ~HasTerminator(at)
    PROVE  V \union {x} \in SUBSET Node /\ Neat(V \union {x})'
<1>. SUFFICES ASSUME
           todo[1].do = "visit", todo[1].list # <<>>, x = Node_, IsOpened(x),
           do \in {"endThen", "endWhile", "endFor", "endFunc"}, t = Then(do, x, 0, p), prog.kind[x] \in EndKinds(t),
           do = "endFor" => p[2] # p[3],
           Len(tasks) = 3, tasks[1] = Part(x, 1), tasks[2] = t, tasks[3] = Others,
           c = at, f = at', f \in New(new), f \notin DOMAIN code, f \notin Keeps(t),
           IF do = "endFunc" THEN ~EmitsCode(x) /\ c \notin DOMAIN code /\ p = <<c>>
           ELSE EmitsCode(x) /\ c \in DOMAIN code /\ Ends(code[c]) /\ c \notin Keeps(t) /\ Keeps(t) \subseteq New(new),
           \A b \in New(new) :
              \/ b \in {f} \union Keeps(t) /\ b \notin DOMAIN code
              \/ b \notin Keeps(t) /\ b \in DOMAIN code /\ Ends(code[b])
    PROVE  V \union {x} \in SUBSET Node /\ Neat(V \union {x})'
  BY DEF OpensBody
<1>1. /\ KeptApart /\ KeptOpen /\ BlocksAreRight /\ todo # <<>>
  BY DEF Neat, Turn
<1>2. x \in Reached /\ x \in Node
  BY <1>1, VisitFinds
<1>3. PICK W : W = V \union {x}
  OBVIOUS
<1>4. /\ Len(tasks) = 3 /\ tasks[1] = Part(x, 1) /\ tasks[2] = t /\ tasks[3] = Others
      /\ \A i \in 0..Len(tasks) : i = 0 \/ i = 1 \/ i = 2 \/ i = 3
  <2>1. /\ Len(tasks) = 3 /\ tasks[1] = Part(x, 1) /\ tasks[2] = t /\ tasks[3] = Others
    OBVIOUS
  <2>. QED
    BY ONLY <2>1
<1>5. /\ Keeps(tasks[1]) = {} /\ tasks[1].do = "visit" /\ tasks[1].list = prog.parts[x][1]
      /\ Keeps(tasks[3]) = {} /\ tasks[3].do = "visit"
      /\ t.do = do /\ t.n = x /\ t.at = p
  BY <1>4, LeavesKept DEF Part, Others
<1>6. /\ Len(todo') \in Nat /\ Len(todo') >= 3
      /\ todo'[1] = tasks[1] /\ todo'[2] = tasks[2] /\ todo'[3] = tasks[3]
  <2>1. IInv /\ IInv' /\ Turn(new, code, tasks)
    OBVIOUS
  <2>2. /\ Len(todo) \in Nat /\ Len(todo) > 0 /\ Len(todo') = (Len(tasks) + Len(todo)) - 1
        /\ \A i \in 1..Len(tasks) : todo'[i] = tasks[i]
    BY ONLY <2>1, TasksTurn
  <2>. QED
    BY ONLY <1>4, <2>2
<1>7. /\ c \in Blocks /\ c \in Blocks' /\ Blocks \cap New(new) = {} /\ 0 \notin Blocks' /\ New(new) \subseteq Blocks'
  <2>1. c \in Blocks
    BY DEF IInv
  <2>. QED
    BY <2>1, BlocksTurn
<1>8. Settled(c) /\ (HasTerminator(c) <=> ~IsOpen(c))
  BY <1>1, <1>7, StatusIs DEF BlocksAreRight, Settled
<1>9. IsOpen(f)' /\ Settled(f)' /\ ~HasTerminator(f)'
  BY EndsOpen
<1>10. IF do = "endFunc" THEN Settled(c)' /\ (HasTerminator(c)' <=> HasTerminator(c)) /\ Keeps(t) = {c}
       ELSE IsOpen(c) /\ WellFormed(c)' /\ Settled(c)'
  <2>1. CASE do = "endFunc"
    <3>1. Keeps(t) = {c}
      BY <2>1, LeavesKept
    <3>. QED
      BY <1>7, <1>8, <2>1, <3>1, EndsOpen
  <2>2. CASE do # "endFunc"
    <3>1. IsOpen(c) /\ c \in DOMAIN code /\ Ends(code[c])
      BY <1>8, <2>2
    <3>. QED
      BY <1>7, <2>2, <3>1, EndsOpen
  <2>. QED
    BY <2>1, <2>2
<1>11. \A b \in New(new) : Settled(b)' /\ (b \in {f} \union Keeps(t) \/ WellFormed(b)')
  BY EndsOpen
<1>12. \A b \in Keeps(t) : do # "endFunc" => IsOpen(b)'
  BY EndsOpen
<1>13. Touched(new) = {c} \union New(new)
  <2>1. Keeps(todo[1]) = {}
    BY DEF Keeps
  <2>. QED
    BY <2>1 DEF Touched
<1>14. /\ KeptNow(tasks, 0) = {f} /\ KeptNow(tasks, 1) = {} /\ KeptNow(tasks, 2) = Keeps(t) /\ KeptNow(tasks, 3) = {}
  BY <1>4, <1>5 DEF KeptNow
<1>15. \A i, j \in 0..Len(tasks) : i # j => KeptNow(tasks, i) \cap KeptNow(tasks, j) = {}
  BY <1>4, <1>14
<1>16. \A i \in 1..Len(tasks) : tasks[i].do \notin {"endIf", "endFunc"} => \A b \in Keeps(tasks[i]) : IsOpen(b)'
  <2>1. \A i \in 1..Len(tasks) : i = 1 \/ i = 2 \/ i = 3
    BY <1>4
  <2>. QED
    BY <1>4, <1>5, <1>12, <2>1
<1>17. \A b \in Touched(new) :
          Settled(b)' /\ ((\E i \in 0..Len(tasks) : b \in KeptNow(tasks, i)) \/ WellFormed(b)')
  <2>1. 0 \in 0..Len(tasks) /\ 2 \in 0..Len(tasks)
    BY <1>4
  <2>2. \A b \in {f} \union Keeps(t) : \E i \in 0..Len(tasks) : b \in KeptNow(tasks, i)
    BY <1>14, <2>1
  <2>. QED
    BY <1>10, <1>11, <1>13, <2>2
<1>18. todo' # <<>> /\ todo'[1].do = "arm" => IsOpen(at)'
  BY <1>5, <1>6
<1>19. PICK e : e = BlockAt(3 + 1)' /\ e = IF do = "endFunc" THEN c ELSE 0
  <2>1. BlockAt(3 + 1)' = IF todo'[2].do = "endFunc" THEN todo'[2].at[1] ELSE 0
    BY DEF BlockAt
  <2>. QED
    BY <1>4, <1>5, <1>6, <2>1
<1>20. /\ \/ e = c /\ (HasTerminator(c)' <=> HasTerminator(c))
          \/ e = 0 /\ ~HasTerminator(c)
       /\ IF EmitsCode(x) THEN ~InUse(c)' \/ (3 + 1 = 3 /\ todo'[1].do = "arm" /\ c = at') ELSE e = c
  <2>1. CASE do = "endFunc"
    BY <1>10, <1>19, <2>1
  <2>2. CASE do # "endFunc"
    <3>1. c # f /\ \A i \in 0..Len(tasks) : c \notin KeptNow(tasks, i)
      BY <1>4, <1>7, <1>14, <2>2
    <3>2. 0 \in 0..1 /\ c \in KeptAt(0)
      BY DEF KeptAt
    <3>3. ~InUse(c)'
      BY <1>1, <1>7, <3>1, <3>2, GivenUp
    <3>. QED
      BY <1>8, <1>10, <1>19, <2>2, <3>3
  <2>. QED
    BY <2>1, <2>2
<1>21. \A i \in 1..3 : i < 3 => TaskFits(tasks[i], {x}) /\ Follows(tasks[i], tasks[i + 1])
  <2>1. TaskFits(tasks[1], {x}) /\ Follows(tasks[1], tasks[2])
    BY <1>4, <1>5 DEF TaskFits, Follows, IsEnd
  <2>2. TaskFits(tasks[2], {x}) /\ Follows(tasks[2], tasks[3])
    BY <1>4, <1>5 DEF TaskFits, Follows
  <2>3. \A i \in 1..3 : i < 3 => (i = 1 /\ i + 1 = 2) \/ (i = 2 /\ i + 1 = 3)
    OBVIOUS
  <2>. QED
    BY <2>1, <2>2, <2>3
<1>22. FrameIsRight(2, W)'
  <2>1. PICK L \in Seq(Node) : L = prog.parts[x][1]
    <3>1. IsOpened(x) /\ prog.parts[x] \in Seq(Seq(Node)) /\ prog.kind[x] \in {"if", "ifElse", "while", "for", "forEver", "func"}
      BY <1>2, <1>5, TableIs DEF EndKinds
    <3>2. Len(prog.parts[x]) \in {1, 2}
      BY <1>2, <3>1, TableIs
    <3>3. \A k \in {1, 2} : 1 \in 1..k
      OBVIOUS
    <3>4. 1 \in 1..Len(prog.parts[x])
      BY ONLY <3>2, <3>3
    <3>. QED
      BY <3>1, <3>4
  <2>2. L = ListAt(2)'
    <3>1. ListAt(2)' = IF 2 > Len(todo') THEN prog'.top
            ELSE CASE todo'[2].do = "endIf" -> IF prog'.kind[todo'[2].n] = "ifElse" THEN prog'.parts[todo'[2].n][2] ELSE <<>>
                   [] todo'[2].do = "endArm" -> prog'.parts[todo'[2].n][todo'[2].i]
                   [] OTHER -> prog'.parts[todo'[2].n][1]
      BY DEF ListAt
    <3>2. todo'[2] = t /\ t.do \notin {"endIf", "endArm"} /\ prog' = prog /\ ~(2 > Len(todo'))
      BY <1>4, <1>5, <1>6 DEF Turn
    <3>. QED
      BY <1>5, <2>1, <3>1, <3>2
  <2>3. L = LeftAt(2)'
    BY <1>5, <1>6, <2>1 DEF LeftAt
  <2>4. f = BlockAt(2)'
    BY DEF BlockAt
  <2>5. ~(2 <= Len(todo') /\ todo'[2].do = "endArm")
    BY <1>4, <1>5, <1>6
  <2>6. Len(L) \in Nat
    BY <2>1
  <2>. QED
    BY <1>9, <2>2, <2>3, <2>4, <2>5, <2>6, FrameBegins
<1>23. \A l \in 1..3 : IsEnd(tasks[l]) => FrameIsRight(l, W)'
  <2>1. ~IsEnd(tasks[1]) /\ ~IsEnd(tasks[3])
    BY <1>5 DEF IsEnd
  <2>2. \A l \in 1..3 : l = 1 \/ l = 2 \/ l = 3
    OBVIOUS
  <2>3. ASSUME NEW l \in 1..3, IsEnd(tasks[l]) PROVE FrameIsRight(l, W)'
    <3>1. l = 2
      BY <2>1, <2>2, <2>3
    <3>. QED
      BY ONLY <1>22, <3>1
  <2>. QED
    BY <2>3
<1>24. \A j \in DOMAIN prog.parts[x] : \E i \in 1..3 : Pends(tasks[i], x, j)
  <2>1. ASSUME NEW j \in DOMAIN prog.parts[x] PROVE Pends(tasks[2], x, j)
    <3>1. do # "endThen" => prog.kind[x] \in {"while", "for", "forEver", "func"}
      BY <1>5 DEF EndKinds
    <3>2. do # "endThen" => j = 1
      BY <1>2, <2>1, <3>1, TableIs
    <3>. QED
      BY <1>4, <1>5, <3>2 DEF Pends
  <2>. QED
    BY <2>1
<1>25. /\ 3 \in 1..Len(tasks) /\ 3 = Len(tasks) /\ tasks[3] = Others
       /\ IInv /\ IInv' /\ Turn(new, code, tasks) /\ V \in SUBSET Node /\ Neat(V)
       /\ todo[1].do = "visit" /\ todo[1].list # <<>> /\ x = Node_ /\ IsOpened(x)
       /\ (EmitsCode(x) => ~HasTerminator(at)) /\ c = at
  BY <1>4
<1>26. PICK d \in Nat : d = 3
  OBVIOUS
<1>27. e = BlockAt(d + 1)'
  BY ONLY <1>19, <1>26
<1>28. /\ \/ e = c /\ (HasTerminator(c)' <=> HasTerminator(c))
          \/ e = 0 /\ ~HasTerminator(c)
       /\ IF EmitsCode(x) THEN ~InUse(c)' \/ (d + 1 = 3 /\ todo'[1].do = "arm" /\ c = at') ELSE e = c
  BY ONLY <1>20, <1>26
<1>29. \A i \in 1..d : i < d => TaskFits(tasks[i], {x}) /\ Follows(tasks[i], tasks[i + 1])
  BY ONLY <1>21, <1>26
<1>30. \A l \in 1..d : IsEnd(tasks[l]) => FrameIsRight(l, W)'
  BY ONLY <1>23, <1>26
<1>31. \A j \in DOMAIN prog.parts[x] : \E i \in 1..d : Pends(tasks[i], x, j)
  BY ONLY <1>24, <1>26
<1>32. d \in 1..Len(tasks) /\ d = Len(tasks) /\ tasks[d] = Others
  BY ONLY <1>25, <1>26
<1>33. Opens(new, tasks, x, d, c, e, V, W)
  BY ONLY <1>3, <1>15, <1>16, <1>17, <1>18, <1>27, <1>28, <1>29, <1>30, <1>31, <1>32, <1>25 DEF Opens
<1>34. W \in SUBSET Node /\ Neat(W)'
  BY ONLY <1>25, <1>33, OpeningKeeps
<1>. QED
  BY ONLY <1>3, <1>34
-----------------------------------------------------------------------------
\* A visitor that opens a body: what it spoils is rejected, or the body is begun.
LEMMA BodyFares ==
    ASSUME IInv, IInv', NEW new, NEW code, NEW tasks, Turn(new, code, tasks),
           NEW x, NEW do, NEW p, NEW t, NEW c, NEW f, OpensBody(new, code, tasks, x, do, p, t, c, f)
    PROVE  Fares
<1>1. /\ todo # <<>> /\ todo[1].do = "visit" /\ todo[1].list # <<>> /\ x = Node_ /\ c = at /\ c \in Blocks
      /\ EmitsCode(x) => c \in DOMAIN code /\ Ends(code[c])
  BY DEF OpensBody, Turn, IInv
<1>2. (Spoilt => Spoilt') /\ ~Doomed
  BY <1>1, SpoiltTurns DEF Doomed
<1>3. ASSUME NEW V \in SUBSET Node, Neat(V)
      PROVE  (~Clean /\ (Spoilt' \/ Doomed')) \/ (\E W \in SUBSET Node : Neat(W)')
  <2>1. CASE EmitsCode(x) /\ HasTerminator(at)
    <3>1. ~Clean
      BY <1>1, <1>3, <2>1, VisitFinds
    <3>2. code[c] # <<>>
      BY <1>1, <2>1 DEF Ends
    <3>3. Spoilt'
      BY <1>1, <2>1, <3>2, SpoilsEnded
    <3>. QED
      BY <3>1, <3>3
  <2>2. CASE EmitsCode(x) => ~HasTerminator(at)
    <3>1. V \union {x} \in SUBSET Node /\ Neat(V \union {x})'
      BY <1>3, <2>2, BodyOpens
    <3>. QED
      BY <3>1
  <2>. QED
    BY <2>1, <2>2
<1>. QED
  BY <1>2, <1>3 DEF Fares

\* Three tasks in front of the others.
LEMMA ThreeTasks ==
    ASSUME NEW a \in AnyTasks, NEW b \in AnyTasks, NEW c \in AnyTasks
    PROVE  /\ <<a, b, c>> \in Seq(AnyTasks) /\ Len(<<a, b, c>>) = 3
           /\ <<a, b, c>>[1] = a /\ <<a, b, c>>[2] = b /\ <<a, b, c>>[3] = c
OBVIOUS

\* The first part and the rest of the list are lists of statements.
LEMMA ListsAre ==
    ASSUME IInv, NEW k, Stmt(k)
    PROVE  /\ todo # <<>> /\ todo[1].do = "visit" /\ todo[1].list # <<>> /\ Node_ \in Node /\ prog.kind[Node_] \in k
           /\ Others \in AnyTasks
           /\ prog.kind[Node_] \in {"if", "ifElse", "while", "for", "forEver", "func"} => Part(Node_, 1) \in AnyTasks
<1>1. todo # <<>> /\ Head(todo).do = "visit" /\ Node_ \in Node /\ Tail(Head(todo).list) \in Seq(Node)
      /\ Head(todo).list # <<>>
  BY StmtIsNode DEF Stmt
<1>2. Head(todo) = todo[1] /\ prog.kind[Node_] \in k
  BY <1>1 DEF IInv, Stmt, Node_
<1>3. \A list \in Seq(Node) : Visit(list) \in AnyTasks
  BY <1>1, LeavesTasks, 0 \in Nat
<1>4. ASSUME prog.kind[Node_] \in {"if", "ifElse", "while", "for", "forEver", "func"}
      PROVE  Part(Node_, 1) \in AnyTasks
  <2>1. prog.parts[Node_] \in Seq(Seq(Node)) /\ Len(prog.parts[Node_]) \in {1, 2}
    BY <1>1, <1>4, TableIs
  <2>2. \A n \in {1, 2} : 1 \in 1..n
    OBVIOUS
  <2>3. 1 \in 1..Len(prog.parts[Node_])
    BY ONLY <2>1, <2>2
  <2>4. prog.parts[Node_][1] \in Seq(Node)
    BY <2>1, <2>3
  <2>. QED
    BY <1>3, <2>4 DEF Part
<1>. QED
  BY <1>1, <1>2, <1>3, <1>4 DEF Others

\* The turn of a visitor that opens a body.
BodyTurn(new, code, x, do, p, t, c, f) ==
    /\ new \in Nat /\ Emit(new, code) /\ at' = f /\ Proceed(<<Part(x, 1), t, Others>>)
    /\ \A b \in DOMAIN code : b \in {c} \union New(new) /\ code[b] \in Seq(AnyInstructions)
    /\ do \in {"endThen", "endWhile", "endFor", "endFunc"} /\ t = Then(do, x, 0, p) /\ t \in AnyTasks
    /\ prog.kind[x] \in EndKinds(t) /\ (do = "endFor" => p[2] # p[3])
    /\ x = Node_ /\ c = at /\ f \in New(new) /\ f \notin DOMAIN code /\ f \notin Keeps(t)
    /\ IF do = "endFunc" THEN ~EmitsCode(x) /\ c \notin DOMAIN code /\ p = <<c>>
       ELSE EmitsCode(x) /\ c \in DOMAIN code /\ Ends(code[c]) /\ c \notin Keeps(t) /\ Keeps(t) \subseteq New(new)
    /\ \A b \in New(new) :
         \/ b \in {f} \union Keeps(t) /\ b \notin DOMAIN code
         \/ b \notin Keeps(t) /\ b \in DOMAIN code /\ Ends(code[b])

\* A visitor that goes on with the first part of its statement fares; behind a
\* return its branch is a second terminator.
LEMMA BodyTurnFares ==
    ASSUME IInv, IInv', NEW k, Stmt(k), NEW new, NEW code, NEW x, NEW do, NEW p, NEW t, NEW c, NEW f,
           BodyTurn(new, code, x, do, p, t, c, f), IsOpened(x)
    PROVE  Fares
<1>1. /\ new \in Nat /\ Emit(new, code) /\ at' = f /\ Proceed(<<Part(x, 1), t, Others>>)
      /\ \A b \in DOMAIN code : b \in {c} \union New(new) /\ code[b] \in Seq(AnyInstructions)
      /\ do \in {"endThen", "endWhile", "endFor", "endFunc"} /\ t = Then(do, x, 0, p) /\ t \in AnyTasks
      /\ prog.kind[x] \in EndKinds(t) /\ (do = "endFor" => p[2] # p[3])
      /\ x = Node_ /\ c = at /\ f \in New(new) /\ f \notin DOMAIN code /\ f \notin Keeps(t)
  BY DEF BodyTurn
<1>2. prog.kind[x] \in {"if", "ifElse", "while", "for", "forEver", "func"}
  <2>1. t.do = do
    BY <1>1, LeavesKept
  <2>. QED
    BY <1>1, <2>1 DEF EndKinds
<1>3. /\ todo # <<>> /\ todo[1].do = "visit" /\ todo[1].list # <<>>
      /\ Others \in AnyTasks /\ Part(x, 1) \in AnyTasks
  BY <1>1, <1>2, ListsAre
<1>4. PICK tasks : tasks = <<Part(x, 1), t, Others>>
  OBVIOUS
<1>5. tasks \in Seq(AnyTasks) /\ Len(tasks) = 3 /\ tasks[1] = Part(x, 1) /\ tasks[2] = t /\ tasks[3] = Others
  BY ONLY <1>1, <1>3, <1>4, ThreeTasks
<1>6. todo' = tasks \o Tail(todo) /\ prog' = prog
  BY ONLY <1>1, <1>4 DEF Proceed
<1>7. Turn(new, code, tasks)
  <2>1. f \in Touched(new) /\ c \in Touched(new) /\ New(new) \subseteq Touched(new)
    BY <1>1 DEF Touched
  <2>2. Keeps(t) \subseteq Touched(new)
    <3>1. do = "endFunc" => Keeps(t) = {c}
      BY <1>1, LeavesKept DEF BodyTurn
    <3>2. do # "endFunc" => Keeps(t) \subseteq New(new)
      BY DEF BodyTurn
    <3>. QED
      BY <2>1, <3>1, <3>2
  <2>3. Keeps(tasks[1]) = {} /\ Keeps(tasks[2]) = Keeps(t) /\ Keeps(tasks[3]) = {}
    BY <1>5, LeavesKept DEF Part, Others
  <2>4. \A i \in 1..Len(tasks) : Keeps(tasks[i]) \subseteq Touched(new)
    <3>1. \A i \in 1..3 : i = 1 \/ i = 2 \/ i = 3
      OBVIOUS
    <3>. QED
      BY ONLY <1>5, <2>2, <2>3, <3>1
  <2>5. \A b \in DOMAIN code : b \in Touched(new) /\ code[b] \in Seq(AnyInstructions)
    BY <1>1, <2>1
  <2>. QED
    BY <1>1, <1>3, <1>5, <1>6, <2>1, <2>4, <2>5 DEF Turn
<1>8. OpensBody(new, code, tasks, x, do, p, t, c, f)
  BY <1>1, <1>3, <1>5 DEF BodyTurn, OpensBody
<1>. QED
  BY <1>7, <1>8, BodyFares

\* visitIf ends the block with its test and goes on in the then block.
LEMMA VisitIfFares ==
    ASSUME IInv, IInv', VisitIf
    PROVE  Fares
<1>1. Stmt({"if", "ifElse"}) /\ Valued
  BY DEF VisitIf
<1>2. PICK x \in Node : x = Node_ /\ prog.kind[x] \in {"if", "ifElse"} /\ prog.valued[x] /\ todo # <<>>
  BY <1>1, ListsAre DEF Valued
<1>3. PICK c, f \in Nat, g \in Nat : c = at /\ f = NewBlock(1) /\ g = NewBlock(2)
  BY <1>2, NewAre
<1>4. c \in Nat /\ c \notin {f, g} /\ f # g /\ New(2) = {f, g} /\ 2 \in Nat
  BY <1>2, <1>3, NewAre
<1>5. PICK t : t = Then("endThen", x, 0, <<g>>)
  OBVIOUS
<1>6. t \in AnyTasks /\ Keeps(t) = {g} /\ t.do = "endThen"
  <2>1. 0 \in Nat
    OBVIOUS
  <2>2. Then("endThen", x, 0, <<g>>) \in AnyTasks
    BY ONLY <1>2, <1>3, <2>1, LeavesTasks
  <2>3. Keeps(Then("endThen", x, 0, <<g>>)) = {g} /\ Then("endThen", x, 0, <<g>>).do = "endThen"
    BY ONLY LeavesKept
  <2>. QED
    BY ONLY <1>5, <2>2, <2>3
<1>7. PICK code : code = At(at, <<CondBranch(Node_, 0, NewBlock(1), NewBlock(2))>>)
  OBVIOUS
<1>8. DOMAIN code = {c} /\ code[c] \in Seq(AnyInstructions) /\ Ends(code[c])
  <2>1. code[c] = <<CondBranch(x, 0, f, g)>> /\ DOMAIN code = {c}
    BY <1>2, <1>3, <1>7 DEF At
  <2>2. <<CondBranch(x, 0, f, g)>> \in Seq(AnyInstructions) /\ Ends(<<CondBranch(x, 0, f, g)>>)
    BY CodeIs, 0 \in Nat
  <2>. QED
    BY ONLY <2>1, <2>2
<1>9. Emit(2, code) /\ at' = f /\ Proceed(<<Part(x, 1), t, Others>>)
  BY <1>2, <1>3, <1>5, <1>7 DEF VisitIf
<1>10. EmitsCode(x) /\ IsOpened(x) /\ prog.kind[x] \in EndKinds(t)
  BY <1>2, <1>6 DEF EmitsCode, IsOpened, EndKinds
<1>11. BodyTurn(2, code, x, "endThen", <<g>>, t, c, f)
  BY <1>2, <1>3, <1>4, <1>5, <1>6, <1>8, <1>9, <1>10 DEF BodyTurn
<1>. QED
  BY <1>1, <1>10, <1>11, BodyTurnFares

\* visitWhile branches to the header, which tests; the body is next.
LEMMA VisitWhileFares ==
    ASSUME IInv, IInv', VisitWhile
    PROVE  Fares
<1>1. Stmt({"while"})
  BY DEF VisitWhile
<1>2. PICK x \in Node : x = Node_ /\ prog.kind[x] = "while" /\ todo # <<>>
  BY <1>1, ListsAre
<1>3. PICK c, h \in Nat, f \in Nat, g \in Nat : c = at /\ h = NewBlock(1) /\ f = NewBlock(2) /\ g = NewBlock(3)
  BY <1>2, NewAre
<1>4. /\ c \in Nat /\ c \notin {h, f, g} /\ h # f /\ h # g /\ f # g
      /\ New(3) = {h, f, g} /\ 3 \in Nat
  BY <1>2, <1>3, NewAre
<1>5. PICK t : t = Then("endWhile", x, 0, <<h, g>>)
  OBVIOUS
<1>6. t \in AnyTasks /\ Keeps(t) = {g} /\ t.do = "endWhile"
  <2>1. 0 \in Nat
    OBVIOUS
  <2>2. Then("endWhile", x, 0, <<h, g>>) \in AnyTasks
    BY ONLY <1>2, <1>3, <2>1, LeavesTasks
  <2>3. Keeps(Then("endWhile", x, 0, <<h, g>>)) = {g} /\ Then("endWhile", x, 0, <<h, g>>).do = "endWhile"
    BY ONLY LeavesKept
  <2>. QED
    BY ONLY <1>5, <2>2, <2>3
<1>7. PICK test : test = IF Valued THEN CondBranch(x, 0, f, g) ELSE Branch(g)
  OBVIOUS
<1>8. PICK code : code = [b \in {c, h} |-> IF b = c THEN <<Branch(h)>> ELSE <<test>>]
  OBVIOUS
<1>9. /\ DOMAIN code = {c, h} /\ code[c] \in Seq(AnyInstructions) /\ Ends(code[c])
      /\ code[h] \in Seq(AnyInstructions) /\ Ends(code[h])
  <2>1. code[c] = <<Branch(h)>> /\ DOMAIN code = {c, h} /\ code[h] = <<test>>
    BY ONLY <1>4, <1>8
  <2>2. <<CondBranch(x, 0, f, g)>> \in Seq(AnyInstructions) /\ Ends(<<CondBranch(x, 0, f, g)>>)
    BY CodeIs, 0 \in Nat
  <2>3. \A b \in Nat : <<Branch(b)>> \in Seq(AnyInstructions) /\ Ends(<<Branch(b)>>)
    BY CodeIs, 0 \in Nat
  <2>4. <<test>> \in Seq(AnyInstructions) /\ Ends(<<test>>)
    BY ONLY <1>3, <1>7, <2>2, <2>3
  <2>. QED
    BY ONLY <1>3, <2>1, <2>3, <2>4
<1>10. Emit(3, code) /\ at' = f /\ Proceed(<<Part(x, 1), t, Others>>)
  BY <1>2, <1>3, <1>5, <1>7, <1>8 DEF VisitWhile
<1>11. EmitsCode(x) /\ IsOpened(x) /\ prog.kind[x] \in EndKinds(t)
  BY <1>2, <1>6 DEF EmitsCode, IsOpened, EndKinds
<1>12. BodyTurn(3, code, x, "endWhile", <<h, g>>, t, c, f)
  BY <1>2, <1>3, <1>4, <1>5, <1>6, <1>9, <1>10, <1>11 DEF BodyTurn
<1>. QED
  BY <1>1, <1>11, <1>12, BodyTurnFares

\* visitFor does so too, and keeps the step block for the end of the body.
LEMMA VisitForFares ==
    ASSUME IInv, IInv', VisitFor
    PROVE  Fares
<1>1. Stmt({"for", "forEver"})
  BY DEF VisitFor
<1>2. PICK x \in Node : x = Node_ /\ prog.kind[x] \in {"for", "forEver"} /\ todo # <<>>
  BY <1>1, ListsAre
<1>3. PICK c, h \in Nat, f \in Nat, s \in Nat, g \in Nat :
         c = at /\ h = NewBlock(1) /\ f = NewBlock(2) /\ s = NewBlock(3) /\ g = NewBlock(4)
  BY <1>2, NewAre
<1>4. /\ c \in Nat /\ c \notin {h, f, s, g} /\ h # f /\ h # g /\ h # s /\ f # g /\ f # s /\ s # g
      /\ New(4) = {h, f, s, g} /\ 4 \in Nat
  BY <1>2, <1>3, NewAre
<1>5. PICK t : t = Then("endFor", x, 0, <<h, s, g>>)
  OBVIOUS
<1>6. t \in AnyTasks /\ Keeps(t) = {s, g} /\ t.do = "endFor"
  <2>1. 0 \in Nat
    OBVIOUS
  <2>2. Then("endFor", x, 0, <<h, s, g>>) \in AnyTasks
    BY ONLY <1>2, <1>3, <2>1, LeavesTasks
  <2>3. Keeps(Then("endFor", x, 0, <<h, s, g>>)) = {s, g} /\ Then("endFor", x, 0, <<h, s, g>>).do = "endFor"
    BY ONLY LeavesKept
  <2>. QED
    BY ONLY <1>5, <2>2, <2>3
<1>7. PICK test, init :
        /\ test = IF ~(prog.kind[x] = "for") THEN Branch(f)
                  ELSE IF Valued THEN CondBranch(x, 1, f, g) ELSE Branch(g)
        /\ init = IF prog.kind[x] = "for" THEN <<Act(x, 0)>> ELSE <<>>
  OBVIOUS
<1>8. PICK code : code = [b \in {c, h} |-> IF b = c THEN init \o <<Branch(h)>> ELSE <<test>>]
  OBVIOUS
<1>9. /\ DOMAIN code = {c, h} /\ code[c] \in Seq(AnyInstructions) /\ Ends(code[c])
      /\ code[h] \in Seq(AnyInstructions) /\ Ends(code[h])
  <2>1. code[c] = init \o <<Branch(h)>> /\ DOMAIN code = {c, h} /\ code[h] = <<test>>
    BY ONLY <1>4, <1>8
  <2>2. <<CondBranch(x, 1, f, g)>> \in Seq(AnyInstructions) /\ Ends(<<CondBranch(x, 1, f, g)>>)
    BY CodeIs, 1 \in Nat
  <2>3. \A b \in Nat : /\ <<Branch(b)>> \in Seq(AnyInstructions) /\ Ends(<<Branch(b)>>)
                       /\ <<Act(x, 0)>> \o <<Branch(b)>> \in Seq(AnyInstructions) /\ Ends(<<Act(x, 0)>> \o <<Branch(b)>>)
                       /\ <<>> \o <<Branch(b)>> = <<Branch(b)>>
    BY CodeIs, 0 \in Nat
  <2>4. <<test>> \in Seq(AnyInstructions) /\ Ends(<<test>>)
    BY ONLY <1>3, <1>7, <2>2, <2>3
  <2>5. init \o <<Branch(h)>> \in Seq(AnyInstructions) /\ Ends(init \o <<Branch(h)>>)
    <3>1. CASE init = <<>>
      BY ONLY <1>3, <2>3, <3>1
    <3>2. CASE init = <<Act(x, 0)>>
      BY ONLY <1>3, <2>3, <3>2
    <3>. QED
      BY ONLY <1>7, <3>1, <3>2
  <2>. QED
    BY ONLY <1>3, <2>1, <2>4, <2>5
<1>10. Emit(4, code) /\ at' = f /\ Proceed(<<Part(x, 1), t, Others>>)
  BY <1>2, <1>3, <1>5, <1>7, <1>8 DEF VisitFor
<1>11. EmitsCode(x) /\ IsOpened(x) /\ prog.kind[x] \in EndKinds(t)
  BY <1>2, <1>6 DEF EmitsCode, IsOpened, EndKinds
<1>12. <<h, s, g>>[2] # <<h, s, g>>[3]
  BY ONLY <1>4
<1>13. BodyTurn(4, code, x, "endFor", <<h, s, g>>, t, c, f)
  BY <1>2, <1>3, <1>4, <1>5, <1>6, <1>9, <1>10, <1>11, <1>12 DEF BodyTurn
<1>. QED
  BY <1>1, <1>11, <1>13, BodyTurnFares

\* visitFunc begins a function with an entry block, and keeps the block it left.
LEMMA VisitFuncFares ==
    ASSUME IInv, IInv', VisitFunc
    PROVE  Fares
<1>1. Stmt({"func"})
  BY DEF VisitFunc
<1>2. PICK x \in Node : x = Node_ /\ prog.kind[x] = "func" /\ todo # <<>>
  BY <1>1, ListsAre
<1>3. PICK c \in Nat, f \in Nat : c = at /\ f = NewBlock(1)
  BY <1>2, NewAre
<1>4. f # c /\ New(1) = {f} /\ 1 \in Nat
  BY <1>2, <1>3, NewAre
<1>5. PICK t : t = Then("endFunc", x, 0, <<c>>)
  OBVIOUS
<1>6. t \in AnyTasks /\ Keeps(t) = {c} /\ t.do = "endFunc"
  <2>1. 0 \in Nat
    OBVIOUS
  <2>2. Then("endFunc", x, 0, <<c>>) \in AnyTasks
    BY ONLY <1>2, <1>3, <2>1, LeavesTasks
  <2>3. Keeps(Then("endFunc", x, 0, <<c>>)) = {c} /\ Then("endFunc", x, 0, <<c>>).do = "endFunc"
    BY ONLY LeavesKept
  <2>. QED
    BY ONLY <1>5, <2>2, <2>3
<1>7. PICK code : code = <<>> /\ DOMAIN code = {}
  <2>1. DOMAIN <<>> = {}
    OBVIOUS
  <2>. QED
    BY <2>1
<1>8. Emit(1, code) /\ at' = f /\ Proceed(<<Part(x, 1), t, Others>>)
  BY <1>2, <1>3, <1>5, <1>7 DEF VisitFunc
<1>9. ~EmitsCode(x) /\ IsOpened(x) /\ prog.kind[x] \in EndKinds(t)
  BY <1>2, <1>6 DEF EmitsCode, IsOpened, EndKinds
<1>10. BodyTurn(1, code, x, "endFunc", <<c>>, t, c, f)
  BY <1>2, <1>3, <1>4, <1>5, <1>6, <1>7, <1>8, <1>9 DEF BodyTurn
<1>. QED
  BY <1>1, <1>9, <1>10, BodyTurnFares
-----------------------------------------------------------------------------
\* A match, behind a return or where code may come.
LEMMA VisitMatchFares ==
    ASSUME IInv, IInv', VisitMatch
    PROVE  Fares
<1>1. Stmt({"match", "matchElse"}) /\ Valued
  BY DEF VisitMatch
<1>2. PICK x \in Node : x = Node_ /\ prog.kind[x] \in {"match", "matchElse"} /\ prog.valued[x]
  BY <1>1, ListsAre DEF Valued
<1>3. todo # <<>> /\ todo[1].do = "visit" /\ todo[1].list # <<>> /\ Others \in AnyTasks
  BY <1>1, ListsAre
<1>4. PICK c \in Nat, g \in Nat : c = at /\ g = NewBlock(1)
  BY <1>3, NewAre
<1>5. g # c /\ New(1) = {g} /\ c \in Blocks
  BY <1>3, <1>4, NewAre
<1>6. PICK t : t = Then("arm", x, 1, <<g>>)
  OBVIOUS
<1>7. t \in AnyTasks /\ Keeps(t) = {g} /\ t.do = "arm" /\ t.n = x /\ t.i = 1
  <2>1. 1 \in Nat
    OBVIOUS
  <2>2. Then("arm", x, 1, <<g>>) \in AnyTasks
    BY ONLY <1>2, <1>4, <2>1, LeavesTasks
  <2>3. Keeps(Then("arm", x, 1, <<g>>)) = {g} /\ Then("arm", x, 1, <<g>>).do = "arm"
        /\ Then("arm", x, 1, <<g>>).n = x /\ Then("arm", x, 1, <<g>>).i = 1
    BY ONLY LeavesKept
  <2>. QED
    BY ONLY <1>6, <2>2, <2>3
<1>8. PICK code : code = <<>> /\ DOMAIN code = {}
  <2>1. DOMAIN <<>> = {}
    OBVIOUS
  <2>. QED
    BY <2>1
<1>9. PICK tasks : tasks = <<t, Others>>
  OBVIOUS
<1>10. tasks \in Seq(AnyTasks) /\ Len(tasks) = 2 /\ tasks[1] = t /\ tasks[2] = Others
  BY ONLY <1>3, <1>7, <1>9
<1>11. Emit(1, code) /\ at' = c /\ todo' = tasks \o Tail(todo) /\ prog' = prog
  BY <1>2, <1>4, <1>6, <1>8, <1>9 DEF VisitMatch, Proceed
<1>12. Touched(1) = {c, g}
  <2>1. Keeps(todo[1]) = {}
    BY <1>3 DEF Keeps
  <2>. QED
    BY <1>4, <1>5, <2>1 DEF Touched
<1>13. Keeps(Others) = {} /\ Others.do = "visit"
  BY LeavesKept DEF Others
<1>14. \A i \in 0..2 : i = 0 \/ i = 1 \/ i = 2
  OBVIOUS
<1>15. Turn(1, code, tasks)
  <2>1. \A i \in 1..Len(tasks) : Keeps(tasks[i]) \subseteq Touched(1)
    <3>1. \A i \in 1..2 : i = 1 \/ i = 2
      OBVIOUS
    <3>. QED
      BY ONLY <1>7, <1>10, <1>12, <1>13, <3>1
  <2>2. at' \in Touched(1) /\ 1 \in Nat
    BY <1>11, <1>12
  <2>3. \A b \in DOMAIN code : b \in Touched(1) /\ code[b] \in Seq(AnyInstructions)
    BY <1>8
  <2>. QED
    BY ONLY <1>3, <1>10, <1>11, <2>1, <2>2, <2>3 DEF Turn
<1>16. EmitsCode(x) /\ IsOpened(x)
  BY <1>2 DEF EmitsCode, IsOpened
<1>17. (Spoilt => Spoilt') /\ ~Doomed
  BY <1>3, <1>15, SpoiltTurns DEF Doomed
<1>18. /\ Settled(c)' <=> Settled(c)
       /\ IsOpen(c)' <=> IsOpen(c)
       /\ HasTerminator(c)' <=> HasTerminator(c)
       /\ IsOpen(g)' /\ Settled(g)'
  BY <1>5, <1>8, <1>15, EndsOpen
<1>19. todo' # <<>> /\ todo'[1] = t
  <2>1. /\ Len(todo) \in Nat /\ Len(todo) > 0 /\ Len(todo') = (Len(tasks) + Len(todo)) - 1
        /\ \A i \in 1..Len(tasks) : todo'[i] = tasks[i]
    BY ONLY IInv, IInv', <1>15, TasksTurn
  <2>2. 1 \in 1..2
    OBVIOUS
  <2>3. PICK n \in Nat : n = Len(todo') /\ n > 0
    BY ONLY <1>10, <2>1
  <2>. QED
    BY ONLY <1>10, <2>1, <2>2, <2>3
<1>20. ASSUME NEW V \in SUBSET Node, Neat(V), HasTerminator(c)
       PROVE  ~Clean /\ Doomed'
  <2>1. ~Clean
    BY <1>2, <1>3, <1>4, <1>16, <1>20, VisitFinds
  <2>2. HasTerminator(at)'
    <3>1. HasTerminator(c)'
      BY <1>18, <1>20
    <3>. QED
      BY <1>11, <3>1 DEF HasTerminator
  <2>3. Doomed'
    BY <1>7, <1>19, <2>2 DEF Doomed
  <2>. QED
    BY <2>1, <2>3
<1>21. ASSUME NEW V \in SUBSET Node, Neat(V), ~HasTerminator(c)
       PROVE  \E W \in SUBSET Node : Neat(W)'
  <2>1. KeptApart /\ KeptOpen /\ BlocksAreRight
    BY <1>21 DEF Neat
  <2>2. Settled(c) /\ IsOpen(c)
    BY <1>5, <1>21, <2>1, StatusIs DEF BlocksAreRight, Settled
  <2>3. PICK W : W = V \union {x}
    OBVIOUS
  <2>4. PICK d \in Nat : d = 2
    OBVIOUS
  <2>5. PICK e : e = BlockAt(d + 1)' /\ e = 0
    <3>1. BlockAt(2 + 1)' = IF todo'[1].do = "endFunc" THEN todo'[1].at[1] ELSE 0
      BY DEF BlockAt
    <3>2. BlockAt(2 + 1)' = 0
      BY <1>7, <1>19, <3>1
    <3>. QED
      BY ONLY <2>4, <3>2
  <2>6. IF EmitsCode(x) THEN ~InUse(c)' \/ (d + 1 = 3 /\ todo'[1].do = "arm" /\ c = at') ELSE e = c
    <3>1. d + 1 = 3
      BY ONLY <2>4
    <3>. QED
      BY ONLY <1>7, <1>11, <1>16, <1>19, <3>1
  <2>7. \A i \in 1..d : i < d => TaskFits(tasks[i], {x}) /\ Follows(tasks[i], tasks[i + 1])
    <3>1. TaskFits(tasks[1], {x}) /\ Follows(tasks[1], tasks[2])
      BY <1>2, <1>7, <1>10, <1>13 DEF TaskFits, Follows, EndKinds
    <3>2. \A i \in 1..d : i < d => i = 1 /\ i + 1 = 2
      BY ONLY <2>4
    <3>. QED
      BY ONLY <3>1, <3>2
  <2>8. \A l \in 1..d : ~IsEnd(tasks[l])
    <3>1. ~IsEnd(tasks[1]) /\ ~IsEnd(tasks[2])
      BY <1>7, <1>10, <1>13 DEF IsEnd
    <3>2. \A l \in 1..d : l = 1 \/ l = 2
      BY ONLY <2>4
    <3>. QED
      BY ONLY <3>1, <3>2
  <2>9. \A j \in DOMAIN prog.parts[x] : \E i \in 1..d : Pends(tasks[i], x, j)
    <3>1. \A j \in DOMAIN prog.parts[x] : j \in Nat /\ j >= 1
      BY <1>2, TableIs
    <3>2. \A j \in DOMAIN prog.parts[x] : Pends(tasks[1], x, j)
      BY ONLY <1>7, <1>10, <3>1 DEF Pends
    <3>3. 1 \in 1..d
      BY ONLY <2>4
    <3>. QED
      BY ONLY <3>2, <3>3
  <2>10. KeptNow(tasks, 0) = {c} /\ KeptNow(tasks, 1) = {g} /\ KeptNow(tasks, 2) = {}
    BY <1>7, <1>10, <1>11, <1>13 DEF KeptNow
  <2>11. \A i, j \in 0..Len(tasks) : i # j => KeptNow(tasks, i) \cap KeptNow(tasks, j) = {}
    BY ONLY <1>5, <1>10, <1>14, <2>10
  <2>12. \A i \in 1..Len(tasks) : tasks[i].do \notin {"endIf", "endFunc"} => \A b \in Keeps(tasks[i]) : IsOpen(b)'
    <3>1. \A i \in 1..2 : i = 1 \/ i = 2
      OBVIOUS
    <3>2. Keeps(tasks[1]) = {g} /\ Keeps(tasks[2]) = {}
      BY ONLY <1>7, <1>10, <1>13
    <3>3. \A i \in 1..Len(tasks) : \A b \in Keeps(tasks[i]) : b = g
      BY ONLY <1>10, <3>1, <3>2
    <3>. QED
      BY <1>18, <3>3
  <2>13. \A b \in Touched(1) :
          Settled(b)' /\ ((\E i \in 0..Len(tasks) : b \in KeptNow(tasks, i)) \/ WellFormed(b)')
    <3>1. 0 \in 0..Len(tasks) /\ 1 \in 0..Len(tasks)
      BY ONLY <1>10
    <3>2. Settled(c)' /\ Settled(g)'
      BY <1>18, <2>2
    <3>3. c \in KeptNow(tasks, 0) /\ g \in KeptNow(tasks, 1)
      BY ONLY <2>10
    <3>4. ASSUME NEW b \in Touched(1)
          PROVE  Settled(b)' /\ \E i \in 0..Len(tasks) : b \in KeptNow(tasks, i)
      <4>1. b = c \/ b = g
        BY ONLY <1>12, <3>4
      <4>. QED
        BY <3>1, <3>2, <3>3, <4>1
    <3>. QED
      BY <3>4
  <2>14. todo' # <<>> /\ todo'[1].do = "arm" => IsOpen(at)'
    <3>1. IsOpen(c)'
      BY <1>18, <2>2
    <3>. QED
      BY <1>11, <3>1 DEF IsOpen
  <2>15. d \in 1..Len(tasks) /\ d = Len(tasks) /\ tasks[d] = Others
    BY ONLY <1>10, <2>4
  <2>16. Opens(1, tasks, x, d, c, e, V, W)
    BY ONLY <1>2, <1>3, <1>4, <1>16, <1>21, <2>3, <2>5, <2>6, <2>7, <2>8, <2>9, <2>11, <2>12, <2>13, <2>14, <2>15
       DEF Opens
  <2>17. W \in SUBSET Node /\ Neat(W)'
    BY ONLY IInv, IInv', <1>15, <1>21, <2>16, OpeningKeeps
  <2>. QED
    BY <2>17
<1>. QED
  BY <1>17, <1>20, <1>21 DEF Fares
-----------------------------------------------------------------------------
\* What is known of the list that is at its end.
LEMMA HeadDone ==
    ASSUME IInv, todo # <<>>, IsEnd(todo[1]), NEW V, Neat(V)
    PROVE  \E L \in Seq(Node) :
             /\ L = ListAt(1) /\ NoDeadCode(L, Len(L)) /\ (\A i \in 1..Len(L) : IsOpened(L[i]) => L[i] \in V)
             /\ Returns(L, Len(L)) <=> HasTerminator(at)
             /\ todo[1].do = "endArm" =>
                  IF Straight(L, Len(L)) THEN at = todo[1].at[1] ELSE ~InUse(todo[1].at[1])
<1>1. ChainIsRight(V) /\ FramesAreRight(V) /\ OpenedAreRight(V)
  BY DEF Neat
<1>2. PICK n \in Nat : n = Len(todo) /\ n > 0
  BY <1>1, HeadsAre
<1>3. 1 \in 1..(Len(todo) + 1) /\ IsFrame(1)
  BY <1>1, <1>2, HeadsAre
<1>4. PICK L \in Seq(Node) : L = ListAt(1)
  BY <1>1, <1>3, ListIs
<1>5. FrameIsRight(1, V)
  BY <1>1, <1>3 DEF FramesAreRight
<1>6. PICK c : c = at /\ c # 0
  BY DEF IInv, Blocks
<1>7. BlockAt(1) = c /\ LeftAt(1) = <<>> /\ 1 <= Len(todo)
  BY <1>2, <1>6 DEF BlockAt, LeftAt
<1>8. PICK m \in 0..Len(L) :
         /\ Passed(L, <<>>, m, V) /\ GoesOnIn(c, L, m)
         /\ todo[1].do = "endArm" => ArmGoesOn(1, todo[1].at[1], L, c, m)
  BY <1>4, <1>5, <1>7 DEF FrameIsRight, Frame
<1>9. m = Len(L)
  <2>1. Len(L) = m + Len(<<>>) /\ m \in Nat
    BY <1>8 DEF Passed
  <2>2. Len(<<>>) = 0
    OBVIOUS
  <2>. QED
    BY <2>1, <2>2
<1>10. NoDeadCode(L, Len(L)) /\ \A i \in 1..Len(L) : IsOpened(L[i]) => L[i] \in V
  BY <1>8, <1>9 DEF Passed
<1>11. Returns(L, Len(L)) <=> HasTerminator(at)
  BY <1>6, <1>8, <1>9 DEF GoesOnIn
<1>12. todo[1].do = "endArm" => IF Straight(L, Len(L)) THEN at = todo[1].at[1] ELSE ~InUse(todo[1].at[1])
  BY <1>6, <1>8, <1>9 DEF ArmGoesOn
<1>. QED
  BY <1>4, <1>10, <1>11, <1>12

\* The parts of what is opened are clean if the program is.
LEMMA PartsAreClean ==
    ASSUME NEW V, OpenedAreRight(V), NEW n \in V, NEW j \in DOMAIN prog.parts[n], ~PartIsClean(n, j)
    PROVE  ~Clean
BY DEF OpenedAreRight, Clean

\* An end, or an arm, and what it leaves: d tasks, and the rest of the list around
\* it, which goes on in e.
Closes(new, tasks, d, b, e, V) ==
    /\ todo[1].do \notin {"visit", "endArm"} /\ d = Len(tasks) /\ b = at /\ e = BlockAt(d + 2)'
    /\ IF todo[1].do = "endFunc" THEN e = todo[1].at[1] /\ (HasTerminator(e)' <=> HasTerminator(e))
       ELSE e = 0 \/ (e # 0 /\ ~HasTerminator(e)')
    /\ todo[1].do = "arm" => ~InUse(b)'
    /\ \A i \in 1..d :
         /\ TaskFits(tasks[i], V)
         /\ IF i < d THEN Follows(tasks[i], tasks[i + 1]) ELSE tasks[i].do \notin {"visit", "endArm"}
         /\ IsEnd(tasks[i]) => FrameIsRight(i, V)'
         /\ i = 1 => tasks[i].do # "arm"
    /\ \A j \in DOMAIN prog.parts[todo[1].n] : Pends(todo[1], todo[1].n, j) =>
         (\E i \in 1..d : Pends(tasks[i], todo[1].n, j)) \/ PartIsDone(todo[1].n, j, V)
    /\ \A i, j \in 0..Len(tasks) : i # j => KeptNow(tasks, i) \cap KeptNow(tasks, j) = {}
    /\ \A i \in 1..Len(tasks) : tasks[i].do \notin {"endIf", "endFunc"} => \A x \in Keeps(tasks[i]) : IsOpen(x)'
    /\ \A x \in Touched(new) :
         Settled(x)' /\ ((\E i \in 0..Len(tasks) : x \in KeptNow(tasks, i)) \/ WellFormed(x)')

\* A turn that ends a part, and goes on in a block its task keeps or in a new one,
\* keeps a neat program neat.
LEMMA ClosingKeeps ==
    ASSUME IInv, IInv', NEW new, NEW code, NEW tasks, Turn(new, code, tasks), NEW V \in SUBSET Node, Neat(V),
           NEW d, NEW b, NEW e, Closes(new, tasks, d, b, e, V)
    PROVE  Neat(V)'
<1>1. /\ ChainIsRight(V) /\ FramesAreRight(V) /\ OpenedAreRight(V)
      /\ KeptApart /\ KeptOpen /\ BlocksAreRight /\ todo # <<>> /\ prog' = prog
  BY DEF Neat, Turn
<1>2. todo[1].do \notin {"visit", "endArm"} /\ d = Len(tasks) /\ b = at /\ e = BlockAt(d + 2)'
  BY DEF Closes
<1>3. /\ Len(todo) > 1 /\ todo[2].do = "visit" /\ IsFrame(3) /\ 3 \in 1..(Len(todo) + 1)
      /\ todo[1] \in Tasks /\ todo[1].n \in V
  BY <1>1, <1>2, HeadsAre
<1>4. /\ Len(todo) \in Nat /\ d \in Nat
      /\ Len(todo') = (d + Len(todo)) - 1
      /\ \A i \in 1..d : todo'[i] = tasks[i]
      /\ \A k \in 2..Len(todo) : todo'[(d + k) - 1] = todo[k]
  BY ONLY IInv, IInv', Turn(new, code, tasks), <1>2, TasksTurn
<1>5. PICK n \in Nat : n = Len(todo) /\ n > 1 /\ Len(todo') = (d + n) - 1
  BY ONLY <1>3, <1>4
<1>6. ChainIsRight(V)'
  <2>1. \A i \in 1..d : /\ TaskFits(tasks[i], V)
                        /\ IF i < d THEN Follows(tasks[i], tasks[i + 1]) ELSE tasks[i].do \notin {"visit", "endArm"}
    BY DEF Closes
  <2>2. ASSUME NEW i \in 1..Len(tasks)
        PROVE /\ TaskFits(tasks[i], V)
              /\ i < Len(tasks) => Follows(tasks[i], tasks[i + 1])
              /\ i = Len(tasks) => IF Len(todo) = 1 THEN tasks[i].do = "visit" ELSE Follows(tasks[i], todo[2])
    <3>1. tasks[i].do \notin {"visit", "endArm"} => Follows(tasks[i], todo[2])
      BY <1>3 DEF Follows
    <3>2. i \in 1..d /\ d = Len(tasks)
      BY ONLY <1>2, <2>2
    <3>3. (i = d => ~(i < d)) /\ Len(todo) # 1
      BY ONLY <1>4, <1>5, <3>2
    <3>. QED
      BY ONLY <2>1, <3>1, <3>2, <3>3
  <2>. QED
    BY ONLY IInv, IInv', Turn(new, code, tasks), <1>1, <2>2, ChainTurns
<1>7. FramesAreRight(V)'
  <2>1. ASSUME NEW l \in 1..(Len(todo') + 1), l <= d + 2, IsFrame(l)'
        PROVE  FrameIsRight(l, V)'
    <3>1. CASE l \in 1..d
      <4>1. IsEnd(tasks[l])
        <5>1. l \in 1..Len(todo') /\ todo'[l] = tasks[l]
          BY ONLY <1>4, <1>5, <3>1
        <5>. QED
          BY <2>1, <5>1 DEF IsFrame, IsEnd
      <4>. QED
        BY <3>1, <4>1 DEF Closes
    <3>2. CASE l = d + 1
      <4>1. l \in 1..Len(todo') /\ 2 \in 2..Len(todo) /\ (d + 2) - 1 = l
        BY ONLY <1>4, <1>5, <3>2
      <4>2. todo'[l].do = "visit"
        BY ONLY <1>3, <1>4, <4>1
      <4>. QED
        BY <2>1, <4>1, <4>2 DEF IsFrame, IsEnd
    <3>3. CASE l = d + 2
      <4>1. PICK c : c = BlockAt(3) /\ c = IF todo[1].do = "endFunc" THEN todo[1].at[1] ELSE 0
        BY DEF BlockAt
      <4>2. e = BlockAt(l)'
        BY ONLY <1>2, <3>3
      <4>3. /\ 3 <= Len(todo) => 3 \in 1..Len(todo) /\ l <= Len(todo') /\ todo'[l] = todo[3]
            /\ 3 > Len(todo) => l > Len(todo')
            /\ 3 \in Nat /\ l \in Nat
        <5>1. 3 <= Len(todo) => 3 \in 2..Len(todo) /\ (d + 3) - 1 = l
          BY ONLY <1>4, <1>5, <3>3
        <5>2. 3 <= Len(todo) => todo'[l] = todo[3]
          BY ONLY <1>4, <5>1
        <5>. QED
          BY ONLY <1>4, <1>5, <3>3, <5>2
      <4>4. LeftAt(l)' = LeftAt(3)
        <5>1. LeftAt(3) = todo[2].list
          BY DEF LeftAt
        <5>2. LeftAt(l)' = todo'[l - 1].list
          BY <1>4, <3>3 DEF LeftAt
        <5>3. l - 1 = (d + 2) - 1 /\ 2 \in 2..Len(todo)
          BY ONLY <1>4, <1>5, <3>3
        <5>4. todo'[l - 1] = todo[2]
          BY ONLY <1>4, <5>3
        <5>. QED
          BY ONLY <5>1, <5>2, <5>4
      <4>5. \/ c = e /\ (c # 0 => (HasTerminator(c)' <=> HasTerminator(c)))
            \/ c = 0 /\ e # 0 /\ ~HasTerminator(e)'
        BY <4>1 DEF Closes
      <4>6. \A a \in Blocks : ~InUse(a) \/ (3 = 3 /\ todo[1].do = "arm" /\ a = at) => ~InUse(a)'
        <5>1. todo[1].do = "arm" => ~InUse(b)'
          BY DEF Closes
        <5>. QED
          BY <1>2, <5>1, InUseTurns
      <4>7. Alike(3, l, c, e)
        BY <4>1, <4>2, <4>3, <4>4, <4>5, <4>6 DEF Alike
      <4>8. FrameIsRight(3, V)
        BY <1>1, <1>3 DEF FramesAreRight
      <4>. QED
        BY <1>1, <4>7, <4>8, FrameKept
    <3>. QED
      BY ONLY <1>4, <2>1, <3>1, <3>2, <3>3
  <2>. QED
    BY <1>1, <1>2, <2>1, FramesTurn
<1>8. OpenedAreRight(V)'
  <2>1. ASSUME NEW m, NEW j, m \in V, j \in DOMAIN prog.parts[m], Pends(todo[1], m, j)
        PROVE  (\E i \in 1..Len(tasks) : Pends(tasks[i], m, j)) \/ PartIsDone(m, j, V)
    <3>1. m = todo[1].n
      BY <2>1 DEF Pends
    <3>. QED
      BY <1>2, <2>1, <3>1 DEF Closes
  <2>. QED
    BY ONLY IInv, IInv', Turn(new, code, tasks), <1>1, <2>1, OpenedTurns
<1>9. KeptApart' /\ KeptOpen' /\ BlocksAreRight'
  <2>1. /\ \A i, j \in 0..Len(tasks) : i # j => KeptNow(tasks, i) \cap KeptNow(tasks, j) = {}
        /\ \A i \in 1..Len(tasks) : tasks[i].do \notin {"endIf", "endFunc"} => \A x \in Keeps(tasks[i]) : IsOpen(x)'
        /\ \A x \in Touched(new) :
             Settled(x)' /\ ((\E i \in 0..Len(tasks) : x \in KeptNow(tasks, i)) \/ WellFormed(x)')
    BY DEF Closes
  <2>2. ~(todo' # <<>> /\ todo'[1].do = "arm")
    <3>1. CASE d = 0
      <4>1. 2 \in 2..Len(todo) /\ (d + 2) - 1 = 1
        BY ONLY <1>4, <1>5, <3>1
      <4>. QED
        BY ONLY <1>3, <1>4, <4>1
    <3>2. CASE d # 0
      <4>1. 1 \in 1..d
        BY ONLY <1>4, <3>2
      <4>2. tasks[1].do # "arm"
        BY <4>1 DEF Closes
      <4>. QED
        BY ONLY <1>4, <4>1, <4>2
    <3>. QED
      BY <3>1, <3>2
  <2>. QED
    BY ONLY IInv, IInv', Turn(new, code, tasks), <1>1, <2>1, <2>2, BlocksAfter
<1>. QED
  BY <1>1, <1>6, <1>7, <1>8, <1>9 DEF Neat
-----------------------------------------------------------------------------
\* An end that leaves nothing in front of the rest of the list, which goes on in f.
LEMMA BareEndKeeps ==
    ASSUME IInv, IInv', NEW new, NEW code, Turn(new, code, <<>>), NEW V \in SUBSET Node, Neat(V),
           todo[1].do \notin {"visit", "endArm"}, NEW b, b = at, NEW f, f = at', b # f,
           IF todo[1].do = "endFunc" THEN f = todo[1].at[1] /\ Settled(f)' /\ (HasTerminator(f)' <=> HasTerminator(f))
           ELSE IsOpen(f)' /\ ~HasTerminator(f)' /\ Settled(f)',
           \A x \in Touched(new) : x = f \/ (WellFormed(x)' /\ Settled(x)'),
           \A j \in DOMAIN prog.parts[todo[1].n] :
              Pends(todo[1], todo[1].n, j) => PartIsDone(todo[1].n, j, V)
    PROVE  Neat(V)'
<1>1. PICK tasks : tasks = <<>> /\ Len(tasks) = 0 /\ \A i : (i \in 1..Len(tasks)) = FALSE
  <2>1. Len(<<>>) = 0 /\ \A i : (i \in 1..Len(<<>>)) = FALSE
    OBVIOUS
  <2>. QED
    BY ONLY <2>1
<1>2. Turn(new, code, tasks)
  BY ONLY <1>1, Turn(new, code, <<>>)
<1>3. KeptNow(tasks, 0) = {f} /\ \A i \in 0..Len(tasks) : i = 0
  BY <1>1 DEF KeptNow
<1>4. PICK d \in Nat : d = 0 /\ d = Len(tasks)
  BY <1>1
<1>5. b \in KeptAt(0) /\ b \in Blocks /\ f \in Blocks' /\ 0 \notin Blocks'
  <2>1. 0 \notin Blocks'
    BY <1>2, BlocksTurn
  <2>. QED
    BY <2>1 DEF KeptAt, IInv
<1>6. ~InUse(b)'
  <2>1. \A i \in 0..Len(tasks) : b \notin KeptNow(tasks, i)
    BY ONLY <1>3, b # f
  <2>2. 0 \in 0..1 /\ KeptApart
    BY DEF Neat
  <2>. QED
    BY ONLY IInv, IInv', <1>2, <1>5, <2>1, <2>2, GivenUp
<1>7. f = BlockAt(d + 2)'
  <2>1. f = BlockAt(0 + 2)'
    BY DEF BlockAt
  <2>. QED
    BY ONLY <1>4, <2>1
<1>8. \A x \in Touched(new) :
         Settled(x)' /\ ((\E i \in 0..Len(tasks) : x \in KeptNow(tasks, i)) \/ WellFormed(x)')
  <2>1. Settled(f)'
    OBVIOUS
  <2>2. 0 \in 0..Len(tasks) /\ f \in KeptNow(tasks, 0)
    BY <1>1, <1>3
  <2>3. ASSUME NEW x \in Touched(new)
        PROVE  Settled(x)' /\ ((\E i \in 0..Len(tasks) : x \in KeptNow(tasks, i)) \/ WellFormed(x)')
    <3>1. CASE x = f
      BY ONLY <2>1, <2>2, <3>1
    <3>2. CASE x # f
      BY <2>3, <3>2
    <3>. QED
      BY <3>1, <3>2
  <2>. QED
    BY <2>3
<1>9. IF todo[1].do = "endFunc" THEN f = todo[1].at[1] /\ (HasTerminator(f)' <=> HasTerminator(f))
      ELSE f = 0 \/ (f # 0 /\ ~HasTerminator(f)')
  BY <1>5
<1>10. \A i : (i \in 1..d) = FALSE
  BY ONLY <1>1, <1>4
<1>11. \A i, j \in 0..Len(tasks) : i # j => KeptNow(tasks, i) \cap KeptNow(tasks, j) = {}
  BY ONLY <1>3
<1>12. Closes(new, tasks, d, b, f, V)
  BY <1>1, <1>4, <1>6, <1>7, <1>8, <1>9, <1>10, <1>11 DEF Closes
<1>. QED
  BY ONLY IInv, IInv', <1>2, <1>12, V \in SUBSET Node, Neat(V), ClosingKeeps

\* The heads that are ends.
LEMMA EndFinds ==
    ASSUME IInv, NEW do, Doing(do), do # "visit"
    PROVE  /\ todo # <<>> /\ Head(todo) = todo[1] /\ todo[1].do = do /\ todo[1] \in Tasks
           /\ todo[1].n \in Node /\ at \in Blocks /\ Keeps(todo[1]) \subseteq Blocks
           /\ do \in {"endThen", "endIf", "arm", "endFunc"} => todo[1].at[1] \in Blocks /\ Keeps(todo[1]) = {todo[1].at[1]}
           /\ do = "endWhile" => todo[1].at[1] \in Blocks /\ todo[1].at[2] \in Blocks /\ Keeps(todo[1]) = {todo[1].at[2]}
           /\ do \in {"endFor", "endArm"} =>
                todo[1].at[1] \in Blocks /\ todo[1].at[2] \in Blocks /\ todo[1].at[3] \in Blocks
           /\ do = "endFor" => Keeps(todo[1]) = {todo[1].at[2], todo[1].at[3]}
           /\ do = "endArm" => Keeps(todo[1]) = {todo[1].at[2]}
<1>1. todo # <<>> /\ Head(todo) = todo[1] /\ todo[1].do = do /\ todo[1] \in Tasks
  BY DEF Doing, IInv
<1>2. at \in Blocks /\ Keeps(todo[1]) \subseteq Blocks
  BY <1>1, KeepsBlocks DEF IInv
<1>3. /\ todo[1].n \in Node
      /\ do \in {"endThen", "endIf", "arm", "endFunc"} => todo[1].at[1] \in Blocks
      /\ do = "endWhile" => todo[1].at[1] \in Blocks /\ todo[1].at[2] \in Blocks
      /\ do \in {"endFor", "endArm"} =>
           todo[1].at[1] \in Blocks /\ todo[1].at[2] \in Blocks /\ todo[1].at[3] \in Blocks
  BY <1>1, TasksHold
<1>. QED
  BY <1>1, <1>2, <1>3 DEF Keeps

\* What the head keeps is not the insertion point, and open, but for what an if or
\* a function around another has returned in.
LEMMA HeadKeeps ==
    ASSUME IInv, todo # <<>>, NEW V, Neat(V)
    PROVE  /\ at \notin Keeps(todo[1]) /\ Settled(at)
           /\ \A b \in Keeps(todo[1]) :
                /\ b \in Blocks /\ Settled(b)
                /\ todo[1].do \notin {"endIf", "endFunc"} => IsOpen(b)
           /\ todo[1].do = "arm" => IsOpen(at)
           /\ todo[1].do # "visit" =>
                todo[1].n \in V /\ OpenedAreRight(V) /\ prog.kind[todo[1].n] \in EndKinds(todo[1])
           /\ TaskFits(todo[1], V)
<1>1. KeptApart /\ KeptOpen /\ BlocksAreRight /\ ChainIsRight(V) /\ OpenedAreRight(V)
  BY DEF Neat
<1>2. 1 \in 1..Len(todo) /\ 0 \in 0..Len(todo) /\ 1 \in 0..Len(todo) /\ 0 # 1
  <2>1. PICK n \in Nat : n = Len(todo) /\ n > 0
    BY <1>1, HeadsAre
  <2>. QED
    BY <2>1
<1>3. KeptAt(0) = {at} /\ KeptAt(1) = Keeps(todo[1])
  BY DEF KeptAt
<1>4. KeptAt(0) \cap KeptAt(1) = {}
  BY ONLY <1>1, <1>2 DEF KeptApart
<1>5. at \notin Keeps(todo[1])
  BY ONLY <1>3, <1>4
<1>6. todo[1] \in Tasks /\ at \in Blocks /\ Keeps(todo[1]) \subseteq Blocks
  BY KeepsBlocks DEF IInv
<1>. QED
  BY <1>1, <1>2, <1>5, <1>6, HeadsAre DEF KeptOpen, BlocksAreRight, ChainIsRight

\* A loop whose body has returned is spoilt; the rest of the list goes on behind it.
LEMMA EndWhileFares ==
    ASSUME IInv, IInv', EndWhile
    PROVE  Fares
<1>1. Doing("endWhile")
  BY DEF EndWhile
<1>2. PICK t, b, h, g : t = todo[1] /\ b = at /\ h = t.at[1] /\ g = t.at[2]
  OBVIOUS
<1>3. /\ todo # <<>> /\ t = Head(todo) /\ t.do = "endWhile" /\ t.n \in Node
      /\ b \in Blocks /\ h \in Blocks /\ g \in Blocks /\ Keeps(t) = {g}
  BY <1>1, <1>2, EndFinds
<1>4. PICK code : code = At(at, <<Branch(h)>>)
  OBVIOUS
<1>5. DOMAIN code = {b} /\ code[b] \in Seq(AnyInstructions) /\ Ends(code[b]) /\ code[b] # <<>>
  <2>1. code[b] = <<Branch(h)>> /\ DOMAIN code = {b}
    BY <1>2, <1>4 DEF At
  <2>2. h \in Nat /\ 0 \in Nat
    BY <1>3 DEF IInv, Blocks
  <2>3. <<Branch(h)>> \in Seq(AnyInstructions) /\ Ends(<<Branch(h)>>)
    BY ONLY <2>2, CodeIs
  <2>. QED
    BY <2>1, <2>3
<1>6. Emit(0, code) /\ at' = g /\ todo' = <<>> \o Tail(todo) /\ prog' = prog
  BY <1>2, <1>3, <1>4 DEF EndWhile, Proceed
<1>7. Touched(0) = {b, g}
  BY <1>2, <1>3, NewAre DEF Touched
<1>8. Turn(0, code, <<>>)
  <2>1. <<>> \in Seq(AnyTasks) /\ \A i : (i \in 1..Len(<<>>)) = FALSE
    OBVIOUS
  <2>. QED
    BY <1>3, <1>5, <1>6, <1>7, <2>1 DEF Turn
<1>9. (Spoilt => Spoilt') /\ ~Doomed
  BY <1>2, <1>3, <1>8, SpoiltTurns DEF Doomed
<1>10. ASSUME NEW V \in SUBSET Node, Neat(V)
       PROVE  (~Clean /\ Spoilt') \/ Neat(V)'
  <2>1. PICK L \in Seq(Node) :
             /\ L = ListAt(1) /\ NoDeadCode(L, Len(L)) /\ (\A i \in 1..Len(L) : IsOpened(L[i]) => L[i] \in V)
             /\ Returns(L, Len(L)) <=> HasTerminator(at)
    BY <1>2, <1>3, <1>10, HeadDone DEF IsEnd
  <2>2. b # g /\ IsOpen(g) /\ Settled(b) /\ t.n \in V /\ OpenedAreRight(V) /\ prog.kind[t.n] = "while"
    BY <1>2, <1>3, <1>10, HeadKeeps DEF EndKinds
  <2>3. 1 \in DOMAIN prog.parts[t.n] /\ DOMAIN prog.parts[t.n] = {1} /\ L = prog.parts[t.n][1]
    <3>1. prog.parts[t.n] \in Seq(Seq(Node)) /\ Len(prog.parts[t.n]) = 1
      BY <1>3, <2>2, TableIs
    <3>2. L = prog.parts[t.n][1]
      <4>1. ~(1 > Len(todo))
        BY <1>3 DEF IInv
      <4>. QED
        BY <1>2, <1>3, <2>1, <4>1 DEF ListAt
    <3>. QED
      BY <3>1, <3>2
  <2>4. CASE HasTerminator(b)
    <3>1. ~PartIsClean(t.n, 1)
      BY <1>2, <2>1, <2>2, <2>3, <2>4 DEF PartIsClean
    <3>2. Spoilt'
      BY <1>3, <1>5, <1>8, <2>4, SpoilsEnded
    <3>. QED
      BY <2>2, <2>3, <3>1, <3>2, PartsAreClean
  <2>5. CASE ~HasTerminator(b)
    <3>1. IsOpen(b)
      BY <1>3, <2>2, <2>5, StatusIs DEF Settled
    <3>2. WellFormed(b)' /\ Settled(b)' /\ IsOpen(g)' /\ Settled(g)' /\ ~HasTerminator(g)'
      <4>1. Settled(g) /\ ~HasTerminator(g)
        BY <1>3, <2>2, StatusIs DEF Settled
      <4>. QED
        BY <1>3, <1>5, <1>8, <2>2, <3>1, <4>1, EndsOpen
    <3>3. PartIsDone(t.n, 1, V)
      <4>1. PartIsClean(t.n, 1)
        BY <1>2, <2>1, <2>2, <2>3, <2>5 DEF PartIsClean, IsMatch
      <4>. QED
        BY <2>1, <2>3, <4>1 DEF PartIsDone
    <3>4. \A x \in Touched(0) : x = g \/ (WellFormed(x)' /\ Settled(x)')
      BY <1>7, <3>2
    <3>5. \A j \in DOMAIN prog.parts[todo[1].n] : Pends(todo[1], todo[1].n, j) => PartIsDone(todo[1].n, j, V)
      BY <1>2, <2>3, <3>3
    <3>6. todo[1].do \notin {"visit", "endArm"} /\ todo[1].do # "endFunc" /\ g = at'
      BY <1>2, <1>3, <1>6
    <3>. QED
      BY <1>2, <1>8, <1>10, <2>2, <3>2, <3>4, <3>5, <3>6, BareEndKeeps
  <2>. QED
    BY <2>4, <2>5
<1>. QED
  BY <1>9, <1>10 DEF Fares
-----------------------------------------------------------------------------
\* The end of a for's body goes to the step, which goes back to the header: too
\* much if the body has returned.
LEMMA EndForFares ==
    ASSUME IInv, IInv', EndFor
    PROVE  Fares
<1>1. Doing("endFor")
  BY DEF EndFor
<1>2. PICK t, b, h, s, g : t = todo[1] /\ b = at /\ h = t.at[1] /\ s = t.at[2] /\ g = t.at[3]
  OBVIOUS
<1>3. /\ todo # <<>> /\ t = Head(todo) /\ t.do = "endFor" /\ t.n \in Node
      /\ b \in Blocks /\ h \in Blocks /\ s \in Blocks /\ g \in Blocks /\ Keeps(t) = {s, g}
  BY <1>1, <1>2, EndFinds
<1>4. PICK last : last = IF prog.kind[t.n] = "for" THEN <<Act(t.n, 2)>> ELSE <<>>
  OBVIOUS
<1>5. PICK code : code = [x \in {b, s} |-> IF x = b THEN <<Branch(s)>> ELSE last \o <<Branch(h)>>]
  OBVIOUS
<1>6. DOMAIN code = {b, s} /\ \A x \in {b, s} : code[x] \in Seq(AnyInstructions) /\ Ends(code[x]) /\ code[x] # <<>>
  <2>1. h \in Nat /\ s \in Nat /\ 2 \in Nat
    BY <1>3 DEF IInv, Blocks
  <2>2. \A x \in Nat : /\ <<Branch(x)>> \in Seq(AnyInstructions) /\ Ends(<<Branch(x)>>)
                       /\ <<Act(t.n, 2)>> \o <<Branch(x)>> \in Seq(AnyInstructions)
                       /\ Ends(<<Act(t.n, 2)>> \o <<Branch(x)>>)
                       /\ <<>> \o <<Branch(x)>> = <<Branch(x)>>
    BY ONLY <1>3, <2>1, CodeIs
  <2>3. last \o <<Branch(h)>> \in Seq(AnyInstructions) /\ Ends(last \o <<Branch(h)>>)
    <3>1. CASE last = <<>>
      BY ONLY <2>1, <2>2, <3>1
    <3>2. CASE last = <<Act(t.n, 2)>>
      BY ONLY <2>1, <2>2, <3>2
    <3>. QED
      BY ONLY <1>4, <3>1, <3>2
  <2>4. \A x \in {b, s} : code[x] = <<Branch(s)>> \/ code[x] = last \o <<Branch(h)>>
    BY ONLY <1>5
  <2>5. \A x \in {b, s} : code[x] \in Seq(AnyInstructions) /\ Ends(code[x])
    BY ONLY <2>1, <2>2, <2>3, <2>4
  <2>. QED
    BY <1>5, <2>5 DEF Ends
<1>7. Emit(0, code) /\ at' = g /\ todo' = <<>> \o Tail(todo) /\ prog' = prog
  BY <1>2, <1>3, <1>4, <1>5 DEF EndFor, Proceed
<1>8. Touched(0) = {b, s, g}
  BY <1>2, <1>3, NewAre DEF Touched
<1>9. Turn(0, code, <<>>)
  <2>1. <<>> \in Seq(AnyTasks) /\ \A i : (i \in 1..Len(<<>>)) = FALSE
    OBVIOUS
  <2>. QED
    BY <1>3, <1>6, <1>7, <1>8, <2>1 DEF Turn
<1>10. (Spoilt => Spoilt') /\ ~Doomed
  BY <1>2, <1>3, <1>9, SpoiltTurns DEF Doomed
<1>11. ASSUME NEW V \in SUBSET Node, Neat(V)
       PROVE  (~Clean /\ Spoilt') \/ Neat(V)'
  <2>1. PICK L \in Seq(Node) :
             /\ L = ListAt(1) /\ NoDeadCode(L, Len(L)) /\ (\A i \in 1..Len(L) : IsOpened(L[i]) => L[i] \in V)
             /\ Returns(L, Len(L)) <=> HasTerminator(at)
    BY <1>2, <1>3, <1>11, HeadDone DEF IsEnd
  <2>2. /\ b \notin {s, g} /\ IsOpen(s) /\ IsOpen(g) /\ Settled(b) /\ t.n \in V /\ OpenedAreRight(V)
        /\ prog.kind[t.n] \in {"for", "forEver"}
    BY <1>2, <1>3, <1>11, HeadKeeps DEF EndKinds
  <2>3. 1 \in DOMAIN prog.parts[t.n] /\ DOMAIN prog.parts[t.n] = {1} /\ L = prog.parts[t.n][1]
    <3>1. prog.parts[t.n] \in Seq(Seq(Node)) /\ Len(prog.parts[t.n]) = 1
      BY <1>3, <2>2, TableIs
    <3>2. L = prog.parts[t.n][1]
      <4>1. ~(1 > Len(todo))
        BY <1>3 DEF IInv
      <4>. QED
        BY <1>2, <1>3, <2>1, <4>1 DEF ListAt
    <3>. QED
      BY <3>1, <3>2
  <2>4. CASE HasTerminator(b)
    <3>1. ~PartIsClean(t.n, 1)
      BY <1>2, <2>1, <2>2, <2>3, <2>4 DEF PartIsClean
    <3>2. Spoilt'
      BY <1>3, <1>6, <1>9, <2>4, SpoilsEnded
    <3>. QED
      BY <2>2, <2>3, <3>1, <3>2, PartsAreClean
  <2>5. CASE ~HasTerminator(b)
    <3>1. IsOpen(b)
      BY <1>3, <2>2, <2>5, StatusIs DEF Settled
    <3>2. s # g
      BY <1>2, <1>3, <1>11, HeadKeeps DEF TaskFits
    <3>3. /\ WellFormed(b)' /\ Settled(b)' /\ WellFormed(s)' /\ Settled(s)'
          /\ IsOpen(g)' /\ Settled(g)' /\ ~HasTerminator(g)'
      <4>1. Settled(g) /\ ~HasTerminator(g)
        BY <1>3, <2>2, StatusIs DEF Settled
      <4>. QED
        BY <1>3, <1>6, <1>9, <2>2, <3>1, <3>2, <4>1, EndsOpen
    <3>4. PartIsDone(t.n, 1, V)
      <4>1. PartIsClean(t.n, 1)
        BY <1>2, <2>1, <2>2, <2>3, <2>5 DEF PartIsClean, IsMatch
      <4>. QED
        BY <2>1, <2>3, <4>1 DEF PartIsDone
    <3>5. \A x \in Touched(0) : x = g \/ (WellFormed(x)' /\ Settled(x)')
      BY <1>8, <3>3
    <3>6. \A j \in DOMAIN prog.parts[todo[1].n] : Pends(todo[1], todo[1].n, j) => PartIsDone(todo[1].n, j, V)
      BY <1>2, <2>3, <3>4
    <3>7. todo[1].do \notin {"visit", "endArm"} /\ todo[1].do # "endFunc" /\ g = at'
      BY <1>2, <1>3, <1>7
    <3>. QED
      BY <1>2, <1>9, <1>11, <2>2, <3>3, <3>5, <3>6, <3>7, BareEndKeeps
  <2>. QED
    BY <2>4, <2>5
<1>. QED
  BY <1>10, <1>11 DEF Fares

\* A function ends; the one around it goes on where it was.
LEMMA EndFuncFares ==
    ASSUME IInv, IInv', EndFunc
    PROVE  Fares
<1>1. Doing("endFunc")
  BY DEF EndFunc
<1>2. PICK t, b, g : t = todo[1] /\ b = at /\ g = t.at[1]
  OBVIOUS
<1>3. /\ todo # <<>> /\ t = Head(todo) /\ t.do = "endFunc" /\ t.n \in Node
      /\ b \in Blocks /\ g \in Blocks /\ Keeps(t) = {g}
  BY <1>1, <1>2, EndFinds
<1>4. PICK code : code = IF HasTerminator(b) THEN <<>> ELSE At(b, <<Ret("none")>>)
  OBVIOUS
<1>5. /\ \A x \in DOMAIN code : x = b /\ code[x] \in Seq(AnyInstructions) /\ Ends(code[x])
      /\ b \in DOMAIN code <=> ~HasTerminator(b)
  <2>1. CASE HasTerminator(b)
    <3>1. code = <<>> /\ DOMAIN <<>> = {}
      BY <1>4, <2>1
    <3>. QED
      BY <2>1, <3>1
  <2>2. CASE ~HasTerminator(b)
    <3>1. DOMAIN code = {b} /\ code[b] = <<Ret("none")>>
      BY <1>4, <2>2 DEF At
    <3>2. <<Ret("none")>> \in Seq(AnyInstructions) /\ Ends(<<Ret("none")>>)
      <4>1. "none" \in Node \union {"none"} /\ 0 \in Nat
        OBVIOUS
      <4>. QED
        BY ONLY <4>1, CodeIs
    <3>. QED
      BY <2>2, <3>1, <3>2
  <2>. QED
    BY <2>1, <2>2
<1>6. Emit(0, code) /\ at' = g /\ todo' = <<>> \o Tail(todo) /\ prog' = prog
  BY <1>2, <1>3, <1>4 DEF EndFunc, Proceed
<1>7. Touched(0) = {b, g}
  BY <1>2, <1>3, NewAre DEF Touched
<1>8. Turn(0, code, <<>>)
  <2>1. <<>> \in Seq(AnyTasks) /\ \A i : (i \in 1..Len(<<>>)) = FALSE
    OBVIOUS
  <2>. QED
    BY <1>3, <1>5, <1>6, <1>7, <2>1 DEF Turn
<1>9. (Spoilt => Spoilt') /\ ~Doomed
  BY <1>2, <1>3, <1>8, SpoiltTurns DEF Doomed
<1>10. ASSUME NEW V \in SUBSET Node, Neat(V)
       PROVE  Neat(V)'
  <2>1. PICK L \in Seq(Node) :
             /\ L = ListAt(1) /\ NoDeadCode(L, Len(L)) /\ (\A i \in 1..Len(L) : IsOpened(L[i]) => L[i] \in V)
    BY <1>2, <1>3, <1>10, HeadDone DEF IsEnd
  <2>2. b # g /\ Settled(g) /\ Settled(b) /\ t.n \in V /\ OpenedAreRight(V) /\ prog.kind[t.n] = "func"
    BY <1>2, <1>3, <1>10, HeadKeeps DEF EndKinds
  <2>3. 1 \in DOMAIN prog.parts[t.n] /\ DOMAIN prog.parts[t.n] = {1} /\ L = prog.parts[t.n][1]
    <3>1. prog.parts[t.n] \in Seq(Seq(Node)) /\ Len(prog.parts[t.n]) = 1
      BY <1>3, <2>2, TableIs
    <3>2. L = prog.parts[t.n][1]
      <4>1. ~(1 > Len(todo))
        BY <1>3 DEF IInv
      <4>. QED
        BY <1>2, <1>3, <2>1, <4>1 DEF ListAt
    <3>. QED
      BY <3>1, <3>2
  <2>4. WellFormed(b)' /\ Settled(b)'
    <3>1. CASE HasTerminator(b)
      <4>1. WellFormed(b) /\ b \notin DOMAIN code
        BY <1>3, <1>5, <2>2, <3>1, StatusIs DEF Settled
      <4>. QED
        BY <1>3, <1>8, <2>2, <4>1, EndsOpen
    <3>2. CASE ~HasTerminator(b)
      <4>1. IsOpen(b) /\ b \in DOMAIN code
        BY <1>3, <1>5, <2>2, <3>2, StatusIs DEF Settled
      <4>. QED
        BY <1>3, <1>5, <1>8, <4>1, EndsOpen
    <3>. QED
      BY <3>1, <3>2
  <2>5. Settled(g)' /\ (HasTerminator(g)' <=> HasTerminator(g))
    <3>1. g \notin DOMAIN code
      BY <1>5, <2>2
    <3>. QED
      BY <1>3, <1>8, <2>2, <3>1, EndsOpen
  <2>6. PartIsDone(t.n, 1, V)
    <3>1. PartIsClean(t.n, 1)
      BY <2>1, <2>2, <2>3 DEF PartIsClean, IsMatch
    <3>. QED
      BY <2>1, <2>3, <3>1 DEF PartIsDone
  <2>7. ASSUME NEW x \in Touched(0) PROVE x = g \/ (WellFormed(x)' /\ Settled(x)')
    <3>1. x = b \/ x = g
      BY ONLY <1>7, <2>7
    <3>2. CASE x = b
      BY ONLY <2>4, <3>2
    <3>. QED
      BY ONLY <3>1, <3>2
  <2>8. \A j \in DOMAIN prog.parts[todo[1].n] : Pends(todo[1], todo[1].n, j) => PartIsDone(todo[1].n, j, V)
    BY <1>2, <2>3, <2>6
  <2>9. todo[1].do \notin {"visit", "endArm"} /\ todo[1].do = "endFunc" /\ g = at' /\ g = todo[1].at[1]
    BY <1>2, <1>3, <1>6
  <2>. QED
    BY <1>2, <1>8, <1>10, <2>2, <2>5, <2>7, <2>8, <2>9, BareEndKeeps
<1>. QED
  BY <1>9, <1>10 DEF Fares

\* A match that has no arm left; behind a return it is spoilt now.
LEMMA EndMatchFares ==
    ASSUME IInv, IInv', EndMatch
    PROVE  Fares
<1>1. Doing("arm") /\ Head(todo).i > Len(prog.parts[Head(todo).n])
  BY DEF EndMatch
<1>2. PICK t, b, g : t = todo[1] /\ b = at /\ g = t.at[1]
  OBVIOUS
<1>3. /\ todo # <<>> /\ t = Head(todo) /\ t.do = "arm" /\ t.n \in Node /\ t \in Tasks
      /\ b \in Blocks /\ g \in Blocks /\ Keeps(t) = {g}
  BY <1>1, <1>2, EndFinds
<1>4. PICK code : code = At(at, <<Branch(g)>>)
  OBVIOUS
<1>5. DOMAIN code = {b} /\ code[b] \in Seq(AnyInstructions) /\ Ends(code[b]) /\ code[b] # <<>>
  <2>1. code[b] = <<Branch(g)>> /\ DOMAIN code = {b}
    BY <1>2, <1>4 DEF At
  <2>2. g \in Nat /\ 0 \in Nat
    BY <1>3 DEF IInv, Blocks
  <2>3. <<Branch(g)>> \in Seq(AnyInstructions) /\ Ends(<<Branch(g)>>)
    BY ONLY <2>2, CodeIs
  <2>. QED
    BY <2>1, <2>3
<1>6. Emit(0, code) /\ at' = g /\ todo' = <<>> \o Tail(todo) /\ prog' = prog
  BY <1>2, <1>3, <1>4 DEF EndMatch, Proceed
<1>7. Touched(0) = {b, g}
  BY <1>2, <1>3, NewAre DEF Touched
<1>8. Turn(0, code, <<>>)
  <2>1. <<>> \in Seq(AnyTasks) /\ \A i : (i \in 1..Len(<<>>)) = FALSE
    OBVIOUS
  <2>. QED
    BY <1>3, <1>5, <1>6, <1>7, <2>1 DEF Turn
<1>9. (Spoilt => Spoilt') /\ (Doomed => Spoilt')
  <2>1. Doomed => HasTerminator(b)
    BY <1>2 DEF Doomed
  <2>. QED
    BY <1>3, <1>5, <1>8, <2>1, SpoiltTurns, SpoilsEnded
<1>10. ASSUME NEW V \in SUBSET Node, Neat(V)
       PROVE  Neat(V)'
  <2>1. b # g /\ IsOpen(g) /\ IsOpen(b)
    BY <1>2, <1>3, <1>10, HeadKeeps
  <2>2. WellFormed(b)' /\ Settled(b)'
    BY <1>3, <1>5, <1>8, <2>1, EndsOpen
  <2>3. IsOpen(g)' /\ Settled(g)' /\ ~HasTerminator(g)'
    <3>1. Settled(g) /\ ~HasTerminator(g) /\ g \notin DOMAIN code
      BY <1>3, <1>5, <2>1, StatusIs DEF Settled
    <3>. QED
      BY <1>3, <1>8, <2>1, <3>1, EndsOpen
  <2>4. ASSUME NEW x \in Touched(0) PROVE x = g \/ (WellFormed(x)' /\ Settled(x)')
    <3>1. x = b \/ x = g
      BY ONLY <1>7, <2>4
    <3>2. CASE x = b
      BY ONLY <2>2, <3>2
    <3>. QED
      BY ONLY <3>1, <3>2
  <2>5. \A j \in DOMAIN prog.parts[todo[1].n] : ~Pends(todo[1], todo[1].n, j)
    <3>1. prog.parts[t.n] \in Seq(Seq(Node)) /\ t.i \in Nat /\ t.i > Len(prog.parts[t.n])
      BY <1>1, <1>3, TableIs, TasksHold
    <3>2. \A j \in DOMAIN prog.parts[t.n] : ~(j >= t.i)
      BY ONLY <3>1
    <3>. QED
      BY <1>2, <1>3, <3>2 DEF Pends
  <2>6. todo[1].do \notin {"visit", "endArm"} /\ todo[1].do # "endFunc" /\ g = at'
    BY <1>2, <1>3, <1>6
  <2>. QED
    BY <1>2, <1>8, <1>10, <2>1, <2>2, <2>3, <2>4, <2>5, <2>6, BareEndKeeps
<1>. QED
  BY <1>9, <1>10 DEF Fares
-----------------------------------------------------------------------------
\* Both branches of an if are done: those that have not returned go on together.
LEMMA EndIfFares ==
    ASSUME IInv, IInv', EndIf
    PROVE  Fares
<1>1. Doing("endIf")
  BY DEF EndIf
<1>2. PICK t, b, o, f : t = todo[1] /\ b = at /\ o = t.at[1] /\ f = NewBlock(1)
  OBVIOUS
<1>3. /\ todo # <<>> /\ t = Head(todo) /\ t.do = "endIf" /\ t.n \in Node
      /\ b \in Blocks /\ o \in Blocks /\ Keeps(t) = {o}
  BY <1>1, <1>2, EndFinds
<1>4. f \in Nat /\ f \notin Blocks /\ New(1) = {f} /\ 1 \in Nat
  BY <1>2, <1>3, NewAre
<1>5. PICK code : code = [x \in {y \in {b, o} : ~HasTerminator(y)} |-> <<Branch(f)>>]
  OBVIOUS
<1>6. /\ DOMAIN code = {y \in {b, o} : ~HasTerminator(y)}
      /\ \A x \in DOMAIN code : code[x] \in Seq(AnyInstructions) /\ Ends(code[x])
  <2>1. <<Branch(f)>> \in Seq(AnyInstructions) /\ Ends(<<Branch(f)>>)
    BY ONLY <1>3, <1>4, CodeIs
  <2>2. DOMAIN code = {y \in {b, o} : ~HasTerminator(y)}
    BY <1>5
  <2>3. \A x \in DOMAIN code : code[x] = <<Branch(f)>>
    BY <1>5
  <2>. QED
    BY ONLY <2>1, <2>2, <2>3
<1>7. Emit(1, code) /\ at' = f /\ todo' = <<>> \o Tail(todo) /\ prog' = prog
  BY <1>2, <1>3, <1>5 DEF EndIf, Proceed
<1>8. Touched(1) = {b, o, f}
  BY <1>2, <1>3, <1>4 DEF Touched
<1>9. Turn(1, code, <<>>)
  <2>1. <<>> \in Seq(AnyTasks) /\ \A i : (i \in 1..Len(<<>>)) = FALSE
    OBVIOUS
  <2>. QED
    BY <1>3, <1>4, <1>6, <1>7, <1>8, <2>1 DEF Turn
<1>10. (Spoilt => Spoilt') /\ ~Doomed
  BY <1>2, <1>3, <1>9, SpoiltTurns DEF Doomed
<1>11. ASSUME NEW V \in SUBSET Node, Neat(V)
       PROVE  Neat(V)'
  <2>1. PICK L \in Seq(Node) :
             /\ L = ListAt(1) /\ NoDeadCode(L, Len(L)) /\ (\A i \in 1..Len(L) : IsOpened(L[i]) => L[i] \in V)
    BY <1>2, <1>3, <1>11, HeadDone DEF IsEnd
  <2>2. Settled(o) /\ Settled(b) /\ t.n \in V /\ OpenedAreRight(V) /\ prog.kind[t.n] \in {"if", "ifElse"}
    BY <1>2, <1>3, <1>11, HeadKeeps DEF EndKinds
  <2>3. ASSUME NEW x \in {b, o} PROVE WellFormed(x)' /\ Settled(x)'
    <3>1. x \in Blocks /\ Settled(x)
      BY <1>3, <2>2, <2>3
    <3>2. CASE HasTerminator(x)
      <4>1. WellFormed(x) /\ x \notin DOMAIN code
        BY <1>6, <3>1, <3>2, StatusIs DEF Settled
      <4>. QED
        BY <1>9, <3>1, <4>1, EndsOpen
    <3>3. CASE ~HasTerminator(x)
      <4>1. IsOpen(x) /\ x \in DOMAIN code
        BY <1>6, <2>3, <3>1, <3>3, StatusIs DEF Settled
      <4>. QED
        BY <1>6, <1>9, <3>1, <4>1, EndsOpen
    <3>. QED
      BY <3>2, <3>3
  <2>4. IsOpen(f)' /\ Settled(f)' /\ ~HasTerminator(f)'
    <3>1. f \in New(1) /\ f \notin DOMAIN code
      BY <1>3, <1>4, <1>6
    <3>. QED
      BY <1>9, <3>1, EndsOpen
  <2>5. ASSUME NEW x \in Touched(1) PROVE x = f \/ (WellFormed(x)' /\ Settled(x)')
    <3>1. x = f \/ x \in {b, o}
      BY ONLY <1>8, <2>5
    <3>. QED
      BY <2>3, <3>1
  <2>6. ASSUME NEW j \in DOMAIN prog.parts[t.n], j = 2 PROVE PartIsDone(t.n, j, V)
    <3>1. prog.kind[t.n] = "ifElse"
      <4>1. prog.kind[t.n] = "if" => DOMAIN prog.parts[t.n] = 1..1
        BY <1>3, TableIs
      <4>. QED
        BY <2>2, <2>6, <4>1
    <3>2. L = prog.parts[t.n][j]
      <4>1. ~(1 > Len(todo))
        BY <1>3 DEF IInv
      <4>. QED
        BY <1>2, <1>3, <2>1, <2>6, <3>1, <4>1 DEF ListAt
    <3>3. PartIsClean(t.n, j)
      BY <2>1, <3>1, <3>2 DEF PartIsClean, IsMatch
    <3>. QED
      BY <2>1, <3>2, <3>3 DEF PartIsDone
  <2>7. \A j \in DOMAIN prog.parts[todo[1].n] : Pends(todo[1], todo[1].n, j) => PartIsDone(todo[1].n, j, V)
    BY <1>2, <1>3, <2>6 DEF Pends
  <2>8. todo[1].do \notin {"visit", "endArm"} /\ todo[1].do # "endFunc" /\ f = at' /\ b # f
    BY <1>2, <1>3, <1>4, <1>7
  <2>. QED
    BY <1>2, <1>9, <1>11, <2>4, <2>5, <2>7, <2>8, BareEndKeeps
<1>. QED
  BY <1>10, <1>11 DEF Fares

\* The branch that is taken is done: the other one follows, or the merge.
LEMMA EndThenFares ==
    ASSUME IInv, IInv', EndThen
    PROVE  Fares
<1>1. Doing("endThen")
  BY DEF EndThen
<1>2. PICK h, b, q, x : h = todo[1] /\ b = at /\ q = h.at[1] /\ x = h.n
  OBVIOUS
<1>3. /\ todo # <<>> /\ h = Head(todo) /\ h.do = "endThen" /\ x \in Node /\ h \in Tasks
      /\ b \in Blocks /\ q \in Blocks /\ Keeps(h) = {q}
  BY <1>1, <1>2, EndFinds
<1>4. prog.kind[x] \in {"if", "ifElse"}
  BY <1>2, <1>3, TasksHold
<1>5. PICK t : t = Then("endIf", x, 0, <<b>>)
  OBVIOUS
<1>6. t \in AnyTasks /\ Keeps(t) = {b} /\ t.do = "endIf" /\ t.n = x
  <2>1. 0 \in Nat /\ b \in Nat
    BY <1>3 DEF IInv, Blocks
  <2>2. Then("endIf", x, 0, <<b>>) \in AnyTasks
    BY ONLY <1>3, <2>1, LeavesTasks
  <2>3. /\ Keeps(Then("endIf", x, 0, <<b>>)) = {b} /\ Then("endIf", x, 0, <<b>>).do = "endIf"
        /\ Then("endIf", x, 0, <<b>>).n = x
    BY ONLY LeavesKept
  <2>. QED
    BY ONLY <1>5, <2>2, <2>3
<1>7. prog.kind[x] = "ifElse" => 2 \in DOMAIN prog.parts[x] /\ prog.parts[x][2] \in Seq(Node)
  <2>1. prog.parts[x] \in Seq(Seq(Node)) /\ (prog.kind[x] = "ifElse" => Len(prog.parts[x]) = 2)
    BY <1>3, TableIs
  <2>2. \A s \in Seq(Seq(Node)) : Len(s) = 2 => 2 \in DOMAIN s /\ s[2] \in Seq(Node)
    OBVIOUS
  <2>. QED
    BY ONLY <2>1, <2>2
<1>8. PICK tasks : tasks = IF prog.kind[x] = "ifElse" THEN <<Part(x, 2), t>> ELSE <<t>>
  OBVIOUS
<1>9. /\ tasks \in Seq(AnyTasks)
      /\ IF prog.kind[x] = "ifElse" THEN Len(tasks) = 2 /\ tasks[1] = Part(x, 2) /\ tasks[2] = t
         ELSE Len(tasks) = 1 /\ tasks[1] = t
  <2>1. prog.kind[x] = "ifElse" => Part(x, 2) \in AnyTasks
    BY <1>3, <1>7, LeavesTasks, 0 \in Nat DEF Part
  <2>. QED
    BY ONLY <1>6, <1>8, <2>1
<1>10. Keeps(Part(x, 2)) = {} /\ Part(x, 2).do = "visit" /\ Part(x, 2).list = prog.parts[x][2]
  BY LeavesKept DEF Part
<1>11. PICK d \in Nat :
         /\ d = Len(tasks) /\ d \in {1, 2} /\ tasks[d] = t
         /\ IF prog.kind[x] = "ifElse" THEN d = 2 /\ tasks[1] = Part(x, 2) ELSE d = 1
  BY ONLY <1>9
<1>12. PICK code : code = <<>> /\ DOMAIN code = {}
  <2>1. DOMAIN <<>> = {}
    OBVIOUS
  <2>. QED
    BY <2>1
<1>13. Emit(0, code) /\ at' = q /\ todo' = tasks \o Tail(todo) /\ prog' = prog
  BY <1>2, <1>3, <1>5, <1>8, <1>12, QuietEmit DEF EndThen, Proceed
<1>14. Touched(0) = {b, q}
  BY <1>2, <1>3, NewAre DEF Touched
<1>15. \A i \in 1..d : IF i = d THEN tasks[i] = t ELSE i = 1 /\ tasks[i] = Part(x, 2)
  BY ONLY <1>11
<1>16. Turn(0, code, tasks)
  <2>1. \A i \in 1..d : Keeps(tasks[i]) \subseteq Touched(0)
    BY ONLY <1>6, <1>10, <1>14, <1>15
  <2>2. \A i \in 1..Len(tasks) : Keeps(tasks[i]) \subseteq Touched(0)
    BY ONLY <1>11, <2>1
  <2>3. at' \in Touched(0) /\ 0 \in Nat
    BY <1>13, <1>14
  <2>. QED
    BY <1>3, <1>9, <1>12, <1>13, <2>2, <2>3 DEF Turn
<1>17. (Spoilt => Spoilt') /\ ~Doomed
  BY <1>2, <1>3, <1>16, SpoiltTurns DEF Doomed
<1>18. ASSUME NEW V \in SUBSET Node, Neat(V)
       PROVE  Neat(V)'
  <2>1. PICK L \in Seq(Node) :
             /\ L = ListAt(1) /\ NoDeadCode(L, Len(L)) /\ (\A i \in 1..Len(L) : IsOpened(L[i]) => L[i] \in V)
    BY <1>2, <1>3, <1>18, HeadDone DEF IsEnd
  <2>2. b # q /\ IsOpen(q) /\ Settled(b) /\ x \in V
    BY <1>2, <1>3, <1>18, HeadKeeps
  <2>3. IsOpen(q)' /\ Settled(q)' /\ ~HasTerminator(q)' /\ Settled(b)'
    <3>1. Settled(q) /\ ~HasTerminator(q)
      BY <1>3, <2>2, StatusIs DEF Settled
    <3>. QED
      BY <1>3, <1>12, <1>16, <2>2, <3>1, EndsOpen
  <2>4. /\ Len(todo) \in Nat /\ Len(todo) > 0 /\ Len(todo') = (d + Len(todo)) - 1
        /\ \A i \in 1..d : todo'[i] = tasks[i]
    BY ONLY IInv, IInv', <1>11, <1>16, TasksTurn
  <2>5. d \in 1..d /\ d <= Len(todo') /\ todo'[d] = t /\ 1 \in 1..d
    BY ONLY <1>11, <2>4
  <2>6. PICK e : e = BlockAt(d + 2)' /\ e = 0
    <3>1. BlockAt(d + 2)' = IF d + 2 <= 2 THEN at'
                            ELSE IF todo'[(d + 2) - 2].do = "endFunc" THEN todo'[(d + 2) - 2].at[1] ELSE 0
      BY DEF BlockAt
    <3>2. ~(d + 2 <= 2) /\ (d + 2) - 2 = d
      BY ONLY <1>11
    <3>3. BlockAt(d + 2)' = 0
      BY ONLY <1>6, <2>5, <3>1, <3>2
    <3>. QED
      BY ONLY <3>3
  <2>7. FrameIsRight(d, V)'
    <3>1. PICK M : M = (IF prog.kind[x] = "ifElse" THEN prog.parts[x][2] ELSE <<>>) /\ Len(M) \in Nat
      BY <1>7
    <3>2. M = ListAt(d)'
      <4>1. ListAt(d)' = IF d > Len(todo') THEN prog'.top
            ELSE CASE todo'[d].do = "endIf" -> IF prog'.kind[todo'[d].n] = "ifElse" THEN prog'.parts[todo'[d].n][2] ELSE <<>>
                   [] todo'[d].do = "endArm" -> prog'.parts[todo'[d].n][todo'[d].i]
                   [] OTHER -> prog'.parts[todo'[d].n][1]
        BY DEF ListAt
      <4>2. ~(d > Len(todo'))
        BY ONLY <1>11, <2>4
      <4>. QED
        BY <1>6, <1>13, <2>5, <3>1, <4>1, <4>2
    <3>3. M = LeftAt(d)'
      <4>1. CASE prog.kind[x] = "ifElse"
        <5>1. d = 2 /\ todo'[1] = Part(x, 2) /\ d - 1 = 1
          BY ONLY <1>11, <2>4, <2>5, <4>1
        <5>2. LeftAt(d)' = todo'[1].list
          BY <5>1 DEF LeftAt
        <5>. QED
          BY ONLY <1>10, <3>1, <4>1, <5>1, <5>2
      <4>2. CASE prog.kind[x] # "ifElse"
        BY <1>11, <3>1, <4>2 DEF LeftAt
      <4>. QED
        BY <4>1, <4>2
    <3>4. q = BlockAt(d)'
      BY <1>11, <1>13 DEF BlockAt
    <3>5. ~(d <= Len(todo') /\ todo'[d].do = "endArm")
      BY <1>6, <2>5
    <3>. QED
      BY <2>3, <3>1, <3>2, <3>3, <3>4, <3>5, FrameBegins
  <2>8. PartIsDone(x, 1, V)
    <3>1. L = prog.parts[x][1]
      <4>1. ~(1 > Len(todo))
        BY <1>3 DEF IInv
      <4>. QED
        BY <1>2, <1>3, <2>1, <4>1 DEF ListAt
    <3>2. PartIsClean(x, 1)
      BY <1>4, <2>1, <3>1 DEF PartIsClean, IsMatch
    <3>. QED
      BY <2>1, <3>1, <3>2 DEF PartIsDone
  <2>9. ASSUME NEW j \in DOMAIN prog.parts[x]
        PROVE  (\E i \in 1..d : Pends(tasks[i], x, j)) \/ PartIsDone(x, j, V)
    <3>1. j = 1 \/ j = 2
      BY <1>3, <1>4, TableIs
    <3>2. j = 2 => Pends(tasks[d], x, j)
      BY <1>6, <1>11 DEF Pends
    <3>3. CASE j = 1
      BY ONLY <2>8, <3>3
    <3>4. CASE j = 2
      BY ONLY <2>5, <3>2, <3>4
    <3>. QED
      BY ONLY <3>1, <3>3, <3>4
  <2>10. \A i \in 0..d : KeptNow(tasks, i) = IF i = 0 THEN {q} ELSE IF i = d THEN {b} ELSE {}
    <3>1. KeptNow(tasks, 0) = {q}
      BY <1>13 DEF KeptNow
    <3>2. \A i \in 1..d : KeptNow(tasks, i) = IF i = d THEN {b} ELSE {}
      <4>1. \A i \in 1..d : i # 0
        BY ONLY <1>11
      <4>2. \A i \in 1..d : KeptNow(tasks, i) = Keeps(tasks[i])
        BY ONLY <4>1 DEF KeptNow
      <4>. QED
        BY ONLY <1>6, <1>10, <1>15, <4>2
    <3>3. \A i \in 0..d : i = 0 \/ (i \in 1..d /\ i # 0)
      BY ONLY <1>11
    <3>. QED
      BY ONLY <3>1, <3>2, <3>3
  <2>11. \A i, j \in 0..d : i # j => KeptNow(tasks, i) \cap KeptNow(tasks, j) = {}
    <3>. SUFFICES ASSUME NEW i \in 0..d, NEW j \in 0..d, i # j, NEW y \in KeptNow(tasks, i), y \in KeptNow(tasks, j)
                  PROVE  FALSE
      OBVIOUS
    <3>1. (i = 0 /\ y = q) \/ (i = d /\ y = b)
      BY ONLY <2>10, i \in 0..d, y \in KeptNow(tasks, i)
    <3>2. (j = 0 /\ y = q) \/ (j = d /\ y = b)
      BY ONLY <2>10, j \in 0..d, y \in KeptNow(tasks, j)
    <3>. QED
      BY ONLY <2>2, <3>1, <3>2, i # j
  <2>12. \A i \in 1..d : tasks[i].do \notin {"endIf", "endFunc"} => Keeps(tasks[i]) = {}
    BY ONLY <1>6, <1>10, <1>15
  <2>13. ASSUME NEW y \in Touched(0)
         PROVE  Settled(y)' /\ ((\E i \in 0..d : y \in KeptNow(tasks, i)) \/ WellFormed(y)')
    <3>1. 0 \in 0..d /\ d \in 0..d /\ d # 0
      BY ONLY <1>11
    <3>2. q \in KeptNow(tasks, 0) /\ b \in KeptNow(tasks, d)
      BY ONLY <2>10, <3>1
    <3>3. CASE y = q
      BY ONLY <2>3, <3>1, <3>2, <3>3
    <3>4. CASE y = b
      BY ONLY <2>3, <3>1, <3>2, <3>4
    <3>. QED
      BY ONLY <1>14, <2>13, <3>3, <3>4
  <2>14. ASSUME NEW i \in 1..d
         PROVE  /\ TaskFits(tasks[i], V)
                /\ IF i < d THEN Follows(tasks[i], tasks[i + 1]) ELSE tasks[i].do \notin {"visit", "endArm"}
                /\ IsEnd(tasks[i]) => FrameIsRight(i, V)'
                /\ i = 1 => tasks[i].do # "arm"
    <3>1. CASE i = d
      <4>1. TaskFits(t, V) /\ t.do \notin {"visit", "endArm", "arm"}
        BY <1>4, <1>6, <2>2 DEF TaskFits, EndKinds
      <4>2. ~(i < d)
        BY ONLY <1>11, <3>1
      <4>3. FrameIsRight(i, V)'
        BY ONLY <2>7, <3>1
      <4>. QED
        BY ONLY <1>11, <3>1, <4>1, <4>2, <4>3
    <3>2. CASE i # d
      <4>1. i = 1 /\ tasks[i] = Part(x, 2) /\ i + 1 = d
        BY ONLY <1>11, <1>15, <2>14, <3>2
      <4>2. tasks[i].do = "visit" /\ tasks[i + 1] = t
        BY ONLY <1>10, <1>11, <4>1
      <4>3. TaskFits(tasks[i], V) /\ Follows(tasks[i], tasks[i + 1]) /\ ~IsEnd(tasks[i])
        BY <1>6, <4>2 DEF TaskFits, Follows, IsEnd
      <4>4. i < d
        BY ONLY <1>11, <4>1
      <4>. QED
        BY ONLY <4>2, <4>3, <4>4
    <3>. QED
      BY <3>1, <3>2
  <2>15. Closes(0, tasks, d, b, e, V)
    <3>1. \A j \in DOMAIN prog.parts[todo[1].n] : Pends(todo[1], todo[1].n, j) =>
            (\E i \in 1..d : Pends(tasks[i], todo[1].n, j)) \/ PartIsDone(todo[1].n, j, V)
      BY <1>2, <2>9
    <3>2. todo[1].do \notin {"visit", "endArm", "endFunc", "arm"}
      BY <1>2, <1>3
    <3>3. \A i, j \in 0..Len(tasks) : i # j => KeptNow(tasks, i) \cap KeptNow(tasks, j) = {}
      BY ONLY <1>11, <2>11
    <3>4. \A i \in 1..Len(tasks) : tasks[i].do \notin {"endIf", "endFunc"} => \A y \in Keeps(tasks[i]) : IsOpen(y)'
      BY <1>11, <2>12
    <3>5. \A y \in Touched(0) :
            Settled(y)' /\ ((\E i \in 0..Len(tasks) : y \in KeptNow(tasks, i)) \/ WellFormed(y)')
      BY <1>11, <2>13
    <3>. QED
      BY ONLY <1>2, <1>11, <2>6, <2>14, <3>1, <3>2, <3>3, <3>4, <3>5 DEF Closes
  <2>. QED
    BY ONLY IInv, IInv', <1>16, <1>18, <2>15, ClosingKeeps
<1>. QED
  BY <1>17, <1>18 DEF Fares
-----------------------------------------------------------------------------
\* An arm is begun; in a match behind a return its test spoils the block.
LEMMA VisitArmFares ==
    ASSUME IInv, IInv', VisitArm
    PROVE  Fares
<1>1. Doing("arm") /\ Head(todo).i <= Len(prog.parts[Head(todo).n])
  BY DEF VisitArm
<1>2. PICK h, b, z, x, i : h = todo[1] /\ b = at /\ z = h.at[1] /\ x = h.n /\ i = h.i
  OBVIOUS
<1>3. /\ todo # <<>> /\ h = Head(todo) /\ h.do = "arm" /\ x \in Node /\ h \in Tasks
      /\ b \in Blocks /\ z \in Blocks /\ Keeps(h) = {z}
  BY <1>1, <1>2, EndFinds
<1>4. PICK f \in Nat, g \in Nat : f = NewBlock(1) /\ g = NewBlock(2)
  BY <1>3, NewAre
<1>5. f \notin Blocks /\ g \notin Blocks /\ f # g /\ New(2) = {f, g} /\ 2 \in Nat /\ z \in Nat /\ b \in Nat
  <2>1. f \notin Blocks /\ g \notin Blocks /\ f # g /\ New(2) = {f, g}
    BY <1>3, <1>4, NewAre
  <2>2. z \in Nat /\ b \in Nat
    BY <1>3 DEF IInv, Blocks
  <2>. QED
    BY ONLY <2>1, <2>2
<1>6. /\ i \in Nat /\ i > 0 /\ prog.parts[x] \in Seq(Seq(Node)) /\ i \in 1..Len(prog.parts[x])
      /\ prog.parts[x][i] \in Seq(Node)
  <2>1. i \in Nat /\ i > 0 /\ prog.parts[x] \in Seq(Seq(Node)) /\ i <= Len(prog.parts[x])
    BY <1>1, <1>2, <1>3, TasksHold, TableIs
  <2>2. i \in 1..Len(prog.parts[x])
    BY ONLY <2>1
  <2>. QED
    BY ONLY <2>1, <2>2
<1>7. PICK s, t : s = Then("endArm", x, i, <<f, g, z>>) /\ t = Then("arm", x, i + 1, <<z>>)
  OBVIOUS
<1>8. /\ s \in AnyTasks /\ Keeps(s) = {g} /\ s.do = "endArm" /\ s.n = x /\ s.i = i /\ s.at = <<f, g, z>> /\ s.at[1] = f
      /\ t \in AnyTasks /\ Keeps(t) = {z} /\ t.do = "arm" /\ t.n = x /\ t.i = i + 1
      /\ Part(x, i) \in AnyTasks /\ Keeps(Part(x, i)) = {} /\ Part(x, i).do = "visit" /\ Part(x, i).list = prog.parts[x][i]
  <2>1. i + 1 \in Nat
    BY ONLY <1>6
  <2>2. Then("endArm", x, i, <<f, g, z>>) \in AnyTasks
    BY ONLY <1>3, <1>4, <1>5, <1>6, LeavesTasks
  <2>3. Then("arm", x, i + 1, <<z>>) \in AnyTasks
    BY ONLY <1>3, <1>5, <2>1, LeavesTasks
  <2>4. Part(x, i) \in AnyTasks
    BY ONLY <1>3, <1>5, <1>6, LeavesTasks DEF Part
  <2>5. Keeps(Part(x, i)) = {} /\ Part(x, i).do = "visit" /\ Part(x, i).list = prog.parts[x][i]
    BY LeavesKept DEF Part
  <2>6. Keeps(s) = {g} /\ Keeps(t) = {z}
    BY ONLY <1>7, LeavesKept
  <2>7. /\ s.do = "endArm" /\ s.n = x /\ s.i = i /\ s.at = <<f, g, z>>
        /\ t.do = "arm" /\ t.n = x /\ t.i = i + 1
    BY ONLY <1>7, LeavesKept
  <2>. QED
    BY ONLY <1>7, <2>2, <2>3, <2>4, <2>5, <2>6, <2>7
<1>9. PICK tasks : tasks = <<Part(x, i), s, t>>
  OBVIOUS
<1>10. /\ tasks \in Seq(AnyTasks) /\ Len(tasks) = 3 /\ tasks[1] = Part(x, i) /\ tasks[2] = s /\ tasks[3] = t
  BY ONLY <1>8, <1>9, ThreeTasks
<1>11. PICK code : code = At(at, <<IF ArmIsDefault(prog, x, i) THEN Branch(f) ELSE CondBranch(x, i, f, g)>>)
  OBVIOUS
<1>12. DOMAIN code = {b} /\ code[b] \in Seq(AnyInstructions) /\ Ends(code[b]) /\ code[b] # <<>>
  <2>1. code[b] = <<Branch(f)>> \/ code[b] = <<CondBranch(x, i, f, g)>>
    BY <1>2, <1>11 DEF At
  <2>2. DOMAIN code = {b}
    BY <1>2, <1>11 DEF At
  <2>3. /\ <<Branch(f)>> \in Seq(AnyInstructions) /\ Ends(<<Branch(f)>>)
        /\ <<CondBranch(x, i, f, g)>> \in Seq(AnyInstructions) /\ Ends(<<CondBranch(x, i, f, g)>>)
    BY ONLY <1>3, <1>4, <1>6, CodeIs
  <2>4. code[b] \in Seq(AnyInstructions) /\ Ends(code[b])
    BY ONLY <2>1, <2>3
  <2>. QED
    BY <2>2, <2>4 DEF Ends
<1>13. Emit(2, code) /\ at' = f /\ todo' = tasks \o Tail(todo) /\ prog' = prog
  BY <1>2, <1>3, <1>4, <1>7, <1>9, <1>11 DEF VisitArm, Proceed
<1>14. Touched(2) = {b, z, f, g}
  BY <1>2, <1>3, <1>5 DEF Touched
<1>15. \A k \in 1..3 : k = 1 \/ k = 2 \/ k = 3
  OBVIOUS
<1>16. Turn(2, code, tasks)
  <2>1. \A k \in 1..Len(tasks) : Keeps(tasks[k]) \subseteq Touched(2)
    BY ONLY <1>8, <1>10, <1>14, <1>15
  <2>2. at' \in Touched(2)
    BY <1>13, <1>14
  <2>. QED
    BY <1>3, <1>5, <1>10, <1>12, <1>13, <1>14, <2>1, <2>2 DEF Turn
<1>17. (Spoilt => Spoilt') /\ (Doomed => Spoilt')
  <2>1. Doomed => HasTerminator(b)
    BY <1>2 DEF Doomed
  <2>. QED
    BY <1>3, <1>12, <1>16, <2>1, SpoiltTurns, SpoilsEnded
<1>18. ASSUME NEW V \in SUBSET Node, Neat(V)
       PROVE  Neat(V)'
  <2>1. b # z /\ IsOpen(z) /\ IsOpen(b) /\ x \in V /\ KeptApart
    BY <1>2, <1>3, <1>18, HeadKeeps DEF Neat
  <2>2. prog.kind[x] \in {"match", "matchElse"}
    BY <1>2, <1>3, <1>18, HeadKeeps DEF EndKinds
  <2>3. WellFormed(b)' /\ Settled(b)'
    BY <1>3, <1>12, <1>16, <2>1, EndsOpen
  <2>4. IsOpen(z)' /\ Settled(z)'
    <3>1. Settled(z) /\ z \notin DOMAIN code
      BY <1>12, <2>1 DEF Settled
    <3>. QED
      BY <1>3, <1>16, <2>1, <3>1, EndsOpen
  <2>5. IsOpen(f)' /\ Settled(f)' /\ ~HasTerminator(f)' /\ IsOpen(g)' /\ Settled(g)'
    <3>1. f \in New(2) /\ g \in New(2) /\ f \notin DOMAIN code /\ g \notin DOMAIN code
      BY <1>3, <1>5, <1>12
    <3>. QED
      BY <1>16, <3>1, EndsOpen
  <2>6. /\ Len(todo) \in Nat /\ Len(todo) > 0 /\ Len(todo') = (3 + Len(todo)) - 1
        /\ todo'[1] = Part(x, i) /\ todo'[2] = s /\ todo'[3] = t
    <3>1. /\ Len(todo) \in Nat /\ Len(todo) > 0 /\ Len(todo') = (Len(tasks) + Len(todo)) - 1
          /\ \A k \in 1..Len(tasks) : todo'[k] = tasks[k]
      BY ONLY IInv, IInv', <1>16, TasksTurn
    <3>. QED
      BY ONLY <1>10, <3>1
  <2>7. KeptNow(tasks, 0) = {f} /\ KeptNow(tasks, 1) = {} /\ KeptNow(tasks, 2) = {g} /\ KeptNow(tasks, 3) = {z}
    BY <1>8, <1>10, <1>13 DEF KeptNow
  <2>8. \A k \in 0..3 : k = 0 \/ k = 1 \/ k = 2 \/ k = 3
    OBVIOUS
  <2>9. f # z /\ g # z /\ f # b /\ g # b
    BY <1>3, <1>5
  <2>10. ~InUse(b)'
    <3>1. \A k \in 0..3 : b \notin KeptNow(tasks, k)
      BY ONLY <2>1, <2>7, <2>8, <2>9
    <3>2. \A k \in 0..Len(tasks) : b \notin KeptNow(tasks, k)
      BY ONLY <1>10, <3>1
    <3>3. 0 \in 0..1 /\ b \in KeptAt(0)
      BY <1>2 DEF KeptAt
    <3>. QED
      BY ONLY IInv, IInv', <1>3, <1>16, <2>1, <3>2, <3>3, GivenUp
  <2>11. PICK d \in Nat : d = 3
    OBVIOUS
  <2>12. PICK e : e = BlockAt(d + 2)' /\ e = 0
    <3>1. BlockAt(3 + 2)' = IF todo'[3].do = "endFunc" THEN todo'[3].at[1] ELSE 0
      BY DEF BlockAt
    <3>2. BlockAt(3 + 2)' = 0
      BY ONLY <1>8, <2>6, <3>1
    <3>. QED
      BY ONLY <2>11, <3>2
  <2>13. FrameIsRight(2, V)'
    <3>1. PICK M : M = prog.parts[x][i] /\ Len(M) \in Nat
      BY <1>6
    <3>2. M = ListAt(2)'
      <4>1. ListAt(2)' = IF 2 > Len(todo') THEN prog'.top
            ELSE CASE todo'[2].do = "endIf" -> IF prog'.kind[todo'[2].n] = "ifElse" THEN prog'.parts[todo'[2].n][2] ELSE <<>>
                   [] todo'[2].do = "endArm" -> prog'.parts[todo'[2].n][todo'[2].i]
                   [] OTHER -> prog'.parts[todo'[2].n][1]
        BY DEF ListAt
      <4>2. ~(2 > Len(todo'))
        BY ONLY <2>6
      <4>. QED
        BY <1>8, <1>13, <2>6, <3>1, <4>1, <4>2
    <3>3. M = LeftAt(2)'
      BY <1>8, <2>6, <3>1 DEF LeftAt
    <3>4. f = BlockAt(2)'
      BY <1>13 DEF BlockAt
    <3>5. todo'[2].at[1] = f
      BY <1>8, <2>6
    <3>. QED
      BY <2>5, <3>1, <3>2, <3>3, <3>4, <3>5, FrameBegins
  <2>14. ASSUME NEW k \in 1..d
         PROVE  /\ TaskFits(tasks[k], V)
                /\ IF k < d THEN Follows(tasks[k], tasks[k + 1]) ELSE tasks[k].do \notin {"visit", "endArm"}
                /\ IsEnd(tasks[k]) => FrameIsRight(k, V)'
                /\ k = 1 => tasks[k].do # "arm"
    <3>1. CASE k = 1
      <4>1. TaskFits(tasks[1], V) /\ Follows(tasks[1], tasks[2]) /\ ~IsEnd(tasks[1]) /\ tasks[1].do # "arm"
        BY <1>8, <1>10 DEF TaskFits, Follows, IsEnd
      <4>2. k < d /\ k + 1 = 2
        BY ONLY <2>11, <3>1
      <4>. QED
        BY ONLY <3>1, <4>1, <4>2
    <3>2. CASE k = 2
      <4>1. TaskFits(tasks[2], V) /\ Follows(tasks[2], tasks[3])
        BY <1>6, <1>8, <1>10, <2>1, <2>2 DEF TaskFits, Follows, EndKinds
      <4>2. k < d /\ k + 1 = 3 /\ k # 1
        BY ONLY <2>11, <3>2
      <4>3. FrameIsRight(k, V)'
        BY ONLY <2>13, <3>2
      <4>. QED
        BY ONLY <3>2, <4>1, <4>2, <4>3
    <3>3. CASE k = 3
      <4>1. TaskFits(tasks[3], V) /\ tasks[3].do \notin {"visit", "endArm"} /\ ~IsEnd(tasks[3])
        BY <1>8, <1>10, <2>1, <2>2 DEF TaskFits, EndKinds, IsEnd
      <4>2. ~(k < d) /\ k # 1
        BY ONLY <2>11, <3>3
      <4>. QED
        BY ONLY <3>3, <4>1, <4>2
    <3>. QED
      BY ONLY <1>15, <2>11, <2>14, <3>1, <3>2, <3>3
  <2>15. ASSUME NEW j \in DOMAIN prog.parts[x], Pends(h, x, j)
         PROVE  \E k \in 1..d : Pends(tasks[k], x, j)
    <3>1. j >= i /\ j \in Nat
      BY <1>2, <1>3, <1>6, <2>15 DEF Pends
    <3>2. j = i \/ j >= i + 1
      BY ONLY <1>6, <3>1
    <3>3. (j = i => Pends(tasks[2], x, j)) /\ (j >= i + 1 => Pends(tasks[3], x, j))
      BY <1>8, <1>10 DEF Pends
    <3>4. 2 \in 1..d /\ 3 \in 1..d
      BY ONLY <2>11
    <3>. QED
      BY ONLY <3>2, <3>3, <3>4
  <2>16. Closes(2, tasks, d, b, e, V)
    <3>1. \A j \in DOMAIN prog.parts[todo[1].n] : Pends(todo[1], todo[1].n, j) =>
            (\E k \in 1..d : Pends(tasks[k], todo[1].n, j)) \/ PartIsDone(todo[1].n, j, V)
      BY <1>2, <2>15
    <3>2. todo[1].do = "arm"
      BY <1>2, <1>3
    <3>3. \A k, j \in 0..Len(tasks) : k # j => KeptNow(tasks, k) \cap KeptNow(tasks, j) = {}
      BY ONLY <1>5, <1>10, <2>7, <2>8, <2>9
    <3>4. \A k \in 1..Len(tasks) : \A y \in Keeps(tasks[k]) : y = g \/ y = z
      BY ONLY <1>8, <1>10, <1>15
    <3>5. \A k \in 1..Len(tasks) : tasks[k].do \notin {"endIf", "endFunc"} => \A y \in Keeps(tasks[k]) : IsOpen(y)'
      BY <2>4, <2>5, <3>4
    <3>6. ASSUME NEW y \in Touched(2)
          PROVE  Settled(y)' /\ ((\E k \in 0..Len(tasks) : y \in KeptNow(tasks, k)) \/ WellFormed(y)')
      <4>1. 0 \in 0..Len(tasks) /\ 2 \in 0..Len(tasks) /\ 3 \in 0..Len(tasks)
        BY ONLY <1>10
      <4>2. f \in KeptNow(tasks, 0) /\ g \in KeptNow(tasks, 2) /\ z \in KeptNow(tasks, 3)
        BY ONLY <2>7
      <4>3. CASE y = b
        BY ONLY <2>3, <4>3
      <4>4. CASE y = f
        BY ONLY <2>5, <4>1, <4>2, <4>4
      <4>5. CASE y = g
        BY ONLY <2>5, <4>1, <4>2, <4>5
      <4>6. CASE y = z
        BY ONLY <2>4, <4>1, <4>2, <4>6
      <4>. QED
        BY ONLY <1>14, <3>6, <4>3, <4>4, <4>5, <4>6
    <3>7. d = Len(tasks)
      BY ONLY <1>10, <2>11
    <3>. QED
      BY ONLY <1>2, <2>10, <2>12, <2>14, <3>1, <3>2, <3>3, <3>5, <3>6, <3>7 DEF Closes
  <2>. QED
    BY ONLY IInv, IInv', <1>16, <1>18, <2>16, ClosingKeeps
<1>. QED
  BY <1>17, <1>18 DEF Fares

\* An arm is done.  With a branch in it, and without a return behind that, the block
\* it has ended in is never ended.
LEMMA EndArmFares ==
    ASSUME IInv, IInv', EndArm
    PROVE  Fares
<1>1. Doing("endArm")
  BY DEF EndArm
<1>2. PICK t, b, a, g, z, x : t = todo[1] /\ b = at /\ a = t.at[1] /\ g = t.at[2] /\ z = t.at[3] /\ x = t.n
  OBVIOUS
<1>3. /\ todo # <<>> /\ t = Head(todo) /\ t.do = "endArm" /\ x \in Node /\ t \in Tasks
      /\ b \in Blocks /\ a \in Blocks /\ g \in Blocks /\ z \in Blocks /\ Keeps(t) = {g}
  BY <1>1, <1>2, EndFinds
<1>4. PICK code : code = IF HasTerminator(a) THEN <<>> ELSE At(b, <<Branch(z)>>)
  OBVIOUS
<1>5. /\ \A y \in DOMAIN code : y = b /\ code[y] \in Seq(AnyInstructions) /\ Ends(code[y])
      /\ b \in DOMAIN code <=> ~HasTerminator(a)
  <2>1. CASE HasTerminator(a)
    <3>1. code = <<>> /\ DOMAIN <<>> = {}
      BY <1>4, <2>1
    <3>. QED
      BY <2>1, <3>1
  <2>2. CASE ~HasTerminator(a)
    <3>1. DOMAIN code = {b} /\ code[b] = <<Branch(z)>>
      BY <1>4, <2>2 DEF At
    <3>2. z \in Nat
      BY <1>3 DEF IInv, Blocks
    <3>3. <<Branch(z)>> \in Seq(AnyInstructions) /\ Ends(<<Branch(z)>>)
      BY ONLY <1>3, <3>2, CodeIs
    <3>. QED
      BY <2>2, <3>1, <3>3
  <2>. QED
    BY <2>1, <2>2
<1>6. PICK tasks : tasks = <<>> /\ Len(tasks) = 0 /\ \A k : (k \in 1..Len(tasks)) = FALSE
  <2>1. Len(<<>>) = 0 /\ \A k : (k \in 1..Len(<<>>)) = FALSE
    OBVIOUS
  <2>. QED
    BY ONLY <2>1
<1>7. Emit(0, code) /\ at' = g /\ todo' = tasks \o Tail(todo) /\ prog' = prog
  BY <1>2, <1>3, <1>4, <1>6 DEF EndArm, Proceed
<1>8. Touched(0) = {b, g}
  BY <1>2, <1>3, NewAre DEF Touched
<1>9. Turn(0, code, tasks)
  <2>1. tasks \in Seq(AnyTasks)
    BY ONLY <1>6
  <2>. QED
    BY <1>3, <1>5, <1>6, <1>7, <1>8, <2>1 DEF Turn
<1>10. (Spoilt => Spoilt') /\ ~Doomed
  BY <1>2, <1>3, <1>9, SpoiltTurns DEF Doomed
<1>11. ASSUME NEW V \in SUBSET Node, Neat(V)
       PROVE  (~Clean /\ Spoilt') \/ Neat(V)'
  <2>1. /\ ChainIsRight(V) /\ FramesAreRight(V) /\ OpenedAreRight(V)
        /\ KeptApart /\ KeptOpen /\ BlocksAreRight
    BY <1>11 DEF Neat
  <2>2. PICK L \in Seq(Node) :
             /\ L = ListAt(1) /\ NoDeadCode(L, Len(L)) /\ (\A k \in 1..Len(L) : IsOpened(L[k]) => L[k] \in V)
             /\ Returns(L, Len(L)) <=> HasTerminator(at)
             /\ IF Straight(L, Len(L)) THEN at = todo[1].at[1] ELSE ~InUse(todo[1].at[1])
    BY <1>2, <1>3, <1>11, HeadDone DEF IsEnd
  <2>3. /\ b # g /\ IsOpen(g) /\ Settled(b) /\ x \in V /\ TaskFits(t, V)
        /\ prog.kind[x] \in {"match", "matchElse"}
    BY <1>2, <1>3, <1>11, HeadKeeps DEF EndKinds
  <2>4. t.i \in DOMAIN prog.parts[x] /\ L = prog.parts[x][t.i]
    <3>1. t.i \in DOMAIN prog.parts[x]
      BY <1>2, <1>3, <2>3, TableIs DEF TaskFits
    <3>2. ~(1 > Len(todo))
      BY <1>3 DEF IInv
    <3>. QED
      BY <1>2, <1>3, <2>2, <3>1, <3>2 DEF ListAt
  <2>5. PartIsClean(x, t.i) <=> Straight(L, Len(L)) \/ Returns(L, Len(L))
    BY <2>2, <2>3, <2>4 DEF PartIsClean, IsMatch
  <2>6. /\ Len(todo) > 2 /\ todo[2].do = "arm" /\ Len(todo) \in Nat
    BY <1>2, <1>3, <2>1, HeadsAre
  <2>7. /\ Len(todo') = (0 + Len(todo)) - 1
        /\ \A k \in 2..Len(todo) : todo'[(0 + k) - 1] = todo[k]
    <3>1. /\ Len(todo') = (Len(tasks) + Len(todo)) - 1
          /\ \A k \in 2..Len(todo) : todo'[(Len(tasks) + k) - 1] = todo[k]
      BY ONLY IInv, IInv', <1>9, TasksTurn
    <3>. QED
      BY ONLY <1>6, <3>1
  <2>8. PICK n \in Nat : n = Len(todo) /\ n > 2 /\ Len(todo') = n - 1
    BY ONLY <2>6, <2>7
  <2>9. todo'[1] = todo[2] /\ todo'[2] = todo[3]
    <3>1. 2 \in 2..n /\ 3 \in 2..n /\ (0 + 2) - 1 = 1 /\ (0 + 3) - 1 = 2
      BY ONLY <2>8
    <3>. QED
      BY ONLY <2>7, <2>8, <3>1
  <2>10. todo[3].do = "visit"
    BY <1>2, <1>3, <2>1, HeadsAre
  <2>11. CASE ~Straight(L, Len(L)) /\ ~Returns(L, Len(L))
    <3>1. ~Clean
      BY <2>1, <2>3, <2>4, <2>5, <2>11, PartsAreClean
    <3>2. ~InUse(a) /\ WellFormed(a)
      BY <1>2, <1>3, <2>1, <2>2, <2>11 DEF BlocksAreRight
    <3>3. HasTerminator(a)
      BY <3>2 DEF WellFormed
    <3>4. IsOpen(b) /\ b \notin DOMAIN code
      BY <1>2, <1>3, <1>5, <2>2, <2>3, <2>11, <3>3, StatusIs DEF Settled
    <3>5. IsOpen(b)' /\ ~WellFormed(b)'
      <4>1. ~WellFormed(b)
        BY <1>3, <3>4, StatusIs
      <4>. QED
        BY <1>3, <1>9, <3>4, <4>1, EndsOpen
    <3>6. ~InUse(b)'
      <4>1. KeptNow(tasks, 0) = {g} /\ \A k \in 0..Len(tasks) : k = 0
        BY <1>6, <1>7 DEF KeptNow
      <4>2. \A k \in 0..Len(tasks) : b \notin KeptNow(tasks, k)
        BY ONLY <2>3, <4>1
      <4>3. 0 \in 0..1 /\ b \in KeptAt(0)
        BY <1>2 DEF KeptAt
      <4>. QED
        BY ONLY IInv, IInv', <1>3, <1>9, <2>1, <4>2, <4>3, GivenUp
    <3>7. b \in Blocks'
      BY <1>3, <1>9, BlocksTurn
    <3>. QED
      BY <3>1, <3>5, <3>6, <3>7 DEF Spoilt
  <2>12. CASE Straight(L, Len(L)) \/ Returns(L, Len(L))
    <3>1. WellFormed(b)' /\ Settled(b)'
      <4>1. CASE HasTerminator(b)
        <5>1. WellFormed(b) /\ ~IsOpen(b)
          BY <1>3, <2>3, <4>1, StatusIs DEF Settled
        <5>2. HasTerminator(a)
          <6>1. CASE Straight(L, Len(L))
            BY <1>2, <2>2, <4>1, <6>1
          <6>2. CASE ~Straight(L, Len(L))
            BY <1>2, <1>3, <2>1, <2>2, <6>2 DEF BlocksAreRight, WellFormed
          <6>. QED
            BY <6>1, <6>2
        <5>3. b \notin DOMAIN code
          BY <1>5, <5>2
        <5>. QED
          BY <1>3, <1>9, <2>3, <5>1, <5>3, EndsOpen
      <4>2. CASE ~HasTerminator(b)
        <5>1. b = a
          BY <1>2, <2>2, <2>12, <4>2
        <5>2. b \in DOMAIN code /\ IsOpen(b)
          BY <1>3, <1>5, <2>3, <4>2, <5>1, StatusIs DEF Settled
        <5>. QED
          BY <1>3, <1>5, <1>9, <5>2, EndsOpen
      <4>. QED
        BY <4>1, <4>2
    <3>2. IsOpen(g)' /\ Settled(g)'
      <4>1. Settled(g) /\ g \notin DOMAIN code
        BY <1>5, <2>3 DEF Settled
      <4>. QED
        BY <1>3, <1>9, <2>3, <4>1, EndsOpen
    <3>3. ChainIsRight(V)'
      BY ONLY IInv, IInv', <1>6, <1>9, <2>1, ChainTurns
    <3>4. FramesAreRight(V)'
      <4>1. ASSUME NEW l \in 1..(Len(todo') + 1), l <= 0 + 2, IsFrame(l)'
            PROVE  FALSE
        <5>1. l = 1 \/ l = 2
          BY ONLY <2>8, <4>1
        <5>2. l \in 1..Len(todo') /\ ~IsEnd(todo'[l])
          <6>1. ~IsEnd(todo'[1]) /\ ~IsEnd(todo'[2])
            BY <2>6, <2>9, <2>10 DEF IsEnd
          <6>2. l \in 1..Len(todo')
            BY ONLY <2>8, <5>1
          <6>. QED
            BY ONLY <5>1, <6>1, <6>2
        <5>. QED
          BY <4>1, <5>2 DEF IsFrame, IsEnd
      <4>2. PICK d \in Nat : d = 0 /\ d = Len(tasks)
        BY ONLY <1>6
      <4>3. \A l \in 1..(Len(todo') + 1) : l <= d + 2 /\ IsFrame(l)' => FrameIsRight(l, V)'
        BY <4>1, <4>2
      <4>. QED
        BY ONLY IInv, IInv', <1>9, <2>1, <4>2, <4>3, FramesTurn
    <3>5. OpenedAreRight(V)'
      <4>1. ASSUME NEW m, NEW j, m \in V, j \in DOMAIN prog.parts[m], Pends(todo[1], m, j)
            PROVE  PartIsDone(m, j, V)
        <5>1. m = x /\ j = t.i
          BY <1>2, <1>3, <4>1 DEF Pends
        <5>2. PartIsDone(x, t.i, V)
          BY <2>2, <2>4, <2>5, <2>12 DEF PartIsDone
        <5>. QED
          BY ONLY <5>1, <5>2
      <4>. QED
        BY ONLY IInv, IInv', <1>9, <2>1, <4>1, OpenedTurns
    <3>6. KeptApart' /\ KeptOpen' /\ BlocksAreRight'
      <4>1. KeptNow(tasks, 0) = {g} /\ \A k \in 0..Len(tasks) : k = 0
        BY <1>6, <1>7 DEF KeptNow
      <4>2. \A k, j \in 0..Len(tasks) : k # j => KeptNow(tasks, k) \cap KeptNow(tasks, j) = {}
        BY ONLY <4>1
      <4>3. ASSUME NEW y \in Touched(0)
            PROVE  Settled(y)' /\ ((\E k \in 0..Len(tasks) : y \in KeptNow(tasks, k)) \/ WellFormed(y)')
        <5>1. 0 \in 0..Len(tasks) /\ g \in KeptNow(tasks, 0)
          BY ONLY <1>6, <4>1
        <5>2. CASE y = b
          BY ONLY <3>1, <5>2
        <5>3. CASE y = g
          BY ONLY <3>2, <5>1, <5>3
        <5>. QED
          BY ONLY <1>8, <4>3, <5>2, <5>3
      <4>4. IsOpen(at)'
        BY <1>7, <3>2 DEF IsOpen
      <4>5. \A k \in 1..Len(tasks) : tasks[k].do \notin {"endIf", "endFunc"} => \A y \in Keeps(tasks[k]) : IsOpen(y)'
        BY ONLY <1>6
      <4>. QED
        BY ONLY IInv, IInv', <1>9, <2>1, <4>2, <4>3, <4>4, <4>5, BlocksAfter
    <3>. QED
      BY <3>3, <3>4, <3>5, <3>6 DEF Neat
  <2>. QED
    BY <2>11, <2>12
<1>. QED
  BY <1>10, <1>11 DEF Fares
-----------------------------------------------------------------------------
\* Every visitor's turn fares.
LEMMA VisitorsFare ==
    ASSUME IInv, IInv', Visitors
    PROVE  Fares /\ prog' = prog /\ phase = "emit" /\ phase' = "emit"
<1>1. prog' = prog /\ phase = "emit" /\ phase' = "emit"
  BY DEF Visitors, VisitsEnd, VisitAct, VisitReturn, VisitNothing, VisitIf, EndThen, EndIf, VisitWhile,
         EndWhile, VisitFor, EndFor, VisitMatch, VisitArm, EndArm, EndMatch, VisitFunc, EndFunc,
         Stmt, Doing, Proceed
<1>2. \/ VisitsEnd \/ (VisitAct \/ VisitReturn \/ VisitNothing)
      \/ VisitIf \/ EndThen \/ EndIf
      \/ VisitWhile \/ EndWhile \/ VisitFor \/ EndFor
      \/ VisitMatch \/ VisitArm \/ EndArm \/ EndMatch
      \/ VisitFunc \/ EndFunc
  BY DEF Visitors
<1>3. CASE VisitsEnd
  BY ONLY IInv, IInv', <1>1, <1>3, VisitsEndFares
<1>4. CASE VisitAct \/ VisitReturn \/ VisitNothing
  BY ONLY IInv, IInv', <1>1, <1>4, SimpleVisitsFare
<1>5. CASE VisitIf
  BY ONLY IInv, IInv', <1>1, <1>5, VisitIfFares
<1>6. CASE EndThen
  BY ONLY IInv, IInv', <1>1, <1>6, EndThenFares
<1>7. CASE EndIf
  BY ONLY IInv, IInv', <1>1, <1>7, EndIfFares
<1>8. CASE VisitWhile
  BY ONLY IInv, IInv', <1>1, <1>8, VisitWhileFares
<1>9. CASE EndWhile
  BY ONLY IInv, IInv', <1>1, <1>9, EndWhileFares
<1>10. CASE VisitFor
  BY ONLY IInv, IInv', <1>1, <1>10, VisitForFares
<1>11. CASE EndFor
  BY ONLY IInv, IInv', <1>1, <1>11, EndForFares
<1>12. CASE VisitMatch
  BY ONLY IInv, IInv', <1>1, <1>12, VisitMatchFares
<1>13. CASE VisitArm
  BY ONLY IInv, IInv', <1>1, <1>13, VisitArmFares
<1>14. CASE EndArm
  BY ONLY IInv, IInv', <1>1, <1>14, EndArmFares
<1>15. CASE EndMatch
  BY ONLY IInv, IInv', <1>1, <1>15, EndMatchFares
<1>16. CASE VisitFunc
  BY ONLY IInv, IInv', <1>1, <1>16, VisitFuncFares
<1>17. CASE EndFunc
  BY ONLY IInv, IInv', <1>1, <1>17, EndFuncFares
<1>. QED
  BY ONLY <1>1, <1>2, <1>3, <1>4, <1>5, <1>6, <1>7, <1>8, <1>9, <1>10, <1>11, <1>12, <1>13, <1>14, <1>15, <1>16, <1>17

\* When nothing is left to visit, a program without fault is clean: the
\* statements that are in V if they are opened are closed under Reached.
LEMMA NothingLeft ==
    ASSUME IInv, todo = <<>>, NEW V \in SUBSET Node, Neat(V)
    PROVE  Clean
<1>1. FramesAreRight(V) /\ OpenedAreRight(V) /\ Len(todo) = 0
  BY DEF Neat
<1>2. PICK L \in Seq(Node) : L = prog.top
  BY ProgramsAssumption DEF IInv, ProgramTable
<1>3. FrameIsRight(1, V)
  <2>1. 1 \in 1..(Len(todo) + 1) /\ 1 = Len(todo) + 1 /\ ~(1 \in 1..Len(todo))
    BY <1>1
  <2>2. IsFrame(1)
    BY <2>1 DEF IsFrame
  <2>. QED
    BY <1>1, <2>1, <2>2 DEF FramesAreRight
<1>4. ListAt(1) = L /\ LeftAt(1) = <<>>
  BY <1>1, <1>2 DEF ListAt, LeftAt
<1>5. PICK m \in 0..Len(L) : Passed(L, <<>>, m, V)
  BY <1>3, <1>4 DEF FrameIsRight, Frame
<1>6. m = Len(L)
  <2>1. Len(L) = m + Len(<<>>) /\ m \in Nat
    BY <1>5 DEF Passed
  <2>2. Len(<<>>) = 0
    OBVIOUS
  <2>. QED
    BY <2>1, <2>2
<1>7. NoDeadCode(L, Len(L)) /\ \A i \in 1..Len(L) : IsOpened(L[i]) => L[i] \in V
  BY <1>5, <1>6 DEF Passed
<1>8. ASSUME NEW n \in V, NEW j \in DOMAIN prog.parts[n]
      PROVE  /\ PartIsClean(n, j)
             /\ \A i \in DOMAIN prog.parts[n][j] : IsOpened(prog.parts[n][j][i]) => prog.parts[n][j][i] \in V
  <2>1. ~Pending(n, j)
    BY <1>1 DEF Pending
  <2>. QED
    BY <1>1, <2>1 DEF OpenedAreRight, PartIsDone
<1>. DEFINE S == {n \in Node : IsOpened(n) => n \in V}
<1>9. Closed(S)
  <2>1. \A i \in DOMAIN prog.top : prog.top[i] \in S
    <3>1. \A i \in DOMAIN L : i \in 1..Len(L) /\ L[i] \in Node
      OBVIOUS
    <3>. QED
      BY <1>2, <1>7, <3>1
  <2>2. ASSUME NEW n \in S, IsOpened(n), NEW j \in DOMAIN prog.parts[n], NEW i \in DOMAIN prog.parts[n][j]
        PROVE  prog.parts[n][j][i] \in S
    <3>1. n \in V /\ n \in Node
      BY <2>2
    <3>2. PICK s \in Seq(Seq(Node)) : s = prog.parts[n]
      BY <3>1, TableIs
    <3>3. s[j] \in Seq(Node)
      BY <2>2, <3>2
    <3>4. prog.parts[n][j][i] \in Node
      BY <2>2, <3>2, <3>3
    <3>5. IsOpened(prog.parts[n][j][i]) => prog.parts[n][j][i] \in V
      BY <1>8, <2>2, <3>1
    <3>. QED
      BY <3>4, <3>5
  <2>. QED
    BY <2>1, <2>2 DEF Closed
<1>10. \A n \in Reached : IsOpened(n) => n \in V
  <2>1. S \in SUBSET Node
    OBVIOUS
  <2>. HIDE DEF S
  <2>2. \A n \in Reached : n \in S
    BY <1>9, <2>1 DEF Reached
  <2>. QED
    BY <2>2 DEF S
<1>. QED
  BY <1>2, <1>7, <1>8, <1>10 DEF Clean

\* The return at the end of main ends the block it goes to, if that was open.
LEMMA ReturnOfMain ==
    ASSUME IInv, IInv', Generated
    PROVE  /\ Blocks' = Blocks /\ at \in Blocks /\ todo = <<>> /\ prog' = prog
           /\ \A b \in Blocks : b # at => (WellFormed(b)' <=> WellFormed(b))
           /\ \A b \in Blocks : b = at => (WellFormed(b)' <=> Settled(b))
<1>1. at \in Blocks /\ Len(blocks) \in Nat /\ Blocks = 1..Len(blocks)
  BY DEF IInv, Blocks
<1>. DEFINE code == IF HasTerminator(at) THEN <<>> ELSE At(at, <<Ret("none")>>)
            none == [i \in 1..0 |-> <<>>]
            bs == blocks \o none
<1>2. Emit(0, code) /\ prog' = prog /\ todo = <<>>
  BY DEF Generated
<1>3. bs = blocks
  <2>1. none = <<>>
    OBVIOUS
  <2>2. blocks \in Seq(Seq(Instructions))
    BY DEF IInv
  <2>. QED
    BY <2>1, <2>2
<1>4. blocks' = [b \in DOMAIN bs |-> IF b \in DOMAIN code THEN bs[b] \o code[b] ELSE bs[b]]
  BY <1>2 DEF Emit
<1>. HIDE DEF bs, none, code
<1>5. Blocks' = Blocks /\ \A b \in Blocks : blocks'[b] = IF b \in DOMAIN code THEN blocks[b] \o code[b] ELSE blocks[b]
  BY <1>3, <1>4 DEF Blocks
<1>6. \A b \in Blocks : blocks[b] \in Seq(AnyInstructions)
  <2>1. Seq(Blocks) \subseteq Seq(Nat)
    BY <1>1
  <2>2. Instructions \subseteq AnyInstructions
    BY <2>1 DEF Instructions, AnyInstructions
  <2>3. \A b \in 1..Len(blocks) : blocks[b] \in Seq(Instructions)
    BY DEF IInv
  <2>4. Seq(Instructions) \subseteq Seq(AnyInstructions)
    BY <2>2
  <2>. QED
    BY <1>1, <2>3, <2>4
<1>7. ASSUME NEW b
      PROVE  /\ WellFormed(b)' <=> Ends(blocks'[b])
             /\ WellFormed(b) <=> Ends(blocks[b])
             /\ IsOpen(b) <=> GoesOn(blocks[b])
             /\ Settled(b) <=> (GoesOn(blocks[b]) \/ Ends(blocks[b]))
  BY DEF IsOpen, GoesOn, WellFormed, Ends, HasTerminator, Settled
<1>8. ASSUME NEW b \in Blocks, b # at
      PROVE  WellFormed(b)' <=> WellFormed(b)
  <2>1. b \notin DOMAIN code
    BY <1>8 DEF code, At
  <2>. QED
    BY <1>5, <1>7, <2>1
<1>9. ASSUME NEW b \in Blocks, b = at
      PROVE  WellFormed(b)' <=> Settled(b)
  <2>1. CASE HasTerminator(b)
    <3>1. b \notin DOMAIN code
      BY <1>9, <2>1 DEF code
    <3>2. blocks'[b] = blocks[b] /\ ~IsOpen(b)
      BY <1>5, <2>1, <3>1, StatusIs
    <3>. QED
      BY ONLY <1>7, <3>2
  <2>2. CASE ~HasTerminator(b)
    <3>1. PICK s \in Seq(AnyInstructions) : s = blocks[b]
      BY <1>6
    <3>2. PICK t \in Seq(AnyInstructions) : t = <<Ret("none")>> /\ Ends(t)
      <4>1. "none" \in Node \union {"none"} /\ 0 \in Nat
        OBVIOUS
      <4>. QED
        BY <4>1, CodeIs
    <3>3. DOMAIN code = {b} /\ code[b] = t
      BY <1>9, <2>2, <3>2 DEF code, At
    <3>4. blocks'[b] = s \o t
      BY <1>5, <3>1, <3>3
    <3>5. /\ GoesOn(s) /\ Ends(t) => Ends(s \o t)
          /\ ~GoesOn(s) /\ ~Ends(s) => ~Ends(s \o t)
      BY AppendedCode
    <3>6. ~Ends(s)
      BY <2>2, <3>1 DEF Ends, HasTerminator
    <3>. QED
      BY ONLY <1>7, <3>1, <3>2, <3>4, <3>5, <3>6
  <2>. QED
    BY <2>1, <2>2
<1>. QED
  BY <1>1, <1>2, <1>5, <1>8, <1>9

\* The return at the end of main: the program is clean if all blocks are well formed now.
LEMMA GeneratedTells ==
    ASSUME IInv, IInv', Generated, VerifyInv
    PROVE  Clean' <=> \A b \in Blocks' : WellFormed(b)'
<1>1. /\ Blocks' = Blocks /\ at \in Blocks /\ todo = <<>> /\ prog' = prog
      /\ \A b \in Blocks : b # at => (WellFormed(b)' <=> WellFormed(b))
      /\ \A b \in Blocks : b = at => (WellFormed(b)' <=> Settled(b))
  BY ONLY IInv, IInv', Generated, ReturnOfMain
<1>2. Clean' <=> Clean
  BY <1>1, SameProgram
<1>3. \A b : InUse(b) <=> b = at
  <2>1. \A k : (k \in 0..Len(todo)) <=> k = 0
    BY <1>1
  <2>. QED
    BY <2>1 DEF InUse, KeptAt
<1>4. (~Clean /\ Spoilt) \/ \E V \in SUBSET Node : Neat(V)
  BY <1>1 DEF VerifyInv, Generated, Doomed
<1>5. ASSUME ~Clean, Spoilt
      PROVE  ~ \A b \in Blocks' : WellFormed(b)'
  <2>1. PICK b \in Blocks : ~Settled(b) \/ (~InUse(b) /\ ~WellFormed(b))
    BY <1>5 DEF Spoilt
  <2>2. Settled(b) \/ ~WellFormed(b)
    BY DEF Settled
  <2>. QED
    BY ONLY <1>1, <1>3, <2>1, <2>2
<1>6. ASSUME NEW V \in SUBSET Node, Neat(V)
      PROVE  Clean /\ \A b \in Blocks' : WellFormed(b)'
  <2>1. Clean
    BY ONLY IInv, <1>1, <1>6, NothingLeft
  <2>2. \A b \in Blocks : Settled(b) /\ (InUse(b) \/ WellFormed(b))
    BY <1>6 DEF Neat, BlocksAreRight
  <2>. QED
    BY ONLY <1>1, <1>3, <2>1, <2>2
<1>. QED
  BY ONLY <1>2, <1>4, <1>5, <1>6

\* A back end that has every value leaves nothing out, so that the verifier sees
\* the blocks as they are.
LEMMA VerifiesAsIs ==
    ASSUME IInv, HasAllValues, NEW b \in Blocks, NEW left
    PROVE  Verifies(b, left) <=> WellFormed(b)
<1>. DEFINE ins == blocks[b]
<1>1. blocks \in Seq(Seq(Instructions)) /\ Blocks = DOMAIN blocks
  BY DEF IInv, Blocks
<1>2. ins \in Seq(Instructions) /\ Len(ins) \in Nat /\ DOMAIN ins = 1..Len(ins)
  BY <1>1
<1>3. ASSUME NEW i \in DOMAIN ins
      PROVE  ~IsFatal(ins[i]) /\ ~IsDropped(ins[i]) /\ (EndsBlock(ins[i]) <=> ins[i].op \in Terminators)
  <2>1. ins[i] \in Instructions
    BY <1>2
  <2>2. ins[i].n \in Node \union {"none"}
    BY <2>1 DEF Instructions
  <2>3. ~Lacks(ins[i])
    BY <2>2 DEF Lacks, HasAllValues
  <2>4. ~IsFatal(ins[i])
    BY <2>2, <2>3 DEF IsFatal, HasAllValues
  <2>. QED
    BY <2>3, <2>4 DEF IsDropped, EndsBlock
<1>4. HasTerminator(b) <=> Len(ins) # 0 /\ ins[Len(ins)].op \in Terminators
  BY <1>2 DEF HasTerminator
<1>5. Verifies(b, left) <=>
        \E k \in 1..Len(ins) :
          /\ ins[k].op \in Terminators
          /\ \A i \in 1..(k - 1) : ins[i].op \notin Terminators
          /\ ~(\E i \in (k + 1)..Len(ins) : TRUE)
  <2>1. ASSUME NEW k \in 1..Len(ins)
        PROVE  (\A i \in (k + 1)..Len(ins) : IsDropped(ins[i]) /\ ~left)
                 <=> ~(\E i \in (k + 1)..Len(ins) : TRUE)
    BY <1>2, <1>3
  <2>2. ASSUME NEW k \in 1..Len(ins)
        PROVE  (\A i \in 1..(k - 1) : ~EndsBlock(ins[i])) <=> \A i \in 1..(k - 1) : ins[i].op \notin Terminators
    BY <1>2, <1>3
  <2>. QED
    BY <1>2, <1>3, <2>1, <2>2 DEF Verifies
<1>6. ASSUME WellFormed(b)
      PROVE  Verifies(b, left)
  <2>1. Len(ins) \in 1..Len(ins) /\ ins[Len(ins)].op \in Terminators
    BY <1>2, <1>4, <1>6 DEF WellFormed
  <2>2. \A i \in 1..(Len(ins) - 1) : ins[i].op \notin Terminators
    BY <1>6 DEF WellFormed
  <2>3. ~(\E i \in (Len(ins) + 1)..Len(ins) : TRUE)
    BY <1>2
  <2>. QED
    BY <1>5, <2>1, <2>2, <2>3
<1>7. ASSUME Verifies(b, left)
      PROVE  WellFormed(b)
  <2>1. PICK k \in 1..Len(ins) :
          /\ ins[k].op \in Terminators
          /\ \A i \in 1..(k - 1) : ins[i].op \notin Terminators
          /\ ~(\E i \in (k + 1)..Len(ins) : TRUE)
    BY <1>5, <1>7
  <2>2. k = Len(ins)
    <3>1. k < Len(ins) => k + 1 \in (k + 1)..Len(ins)
      BY <1>2
    <3>. QED
      BY <1>2, <2>1, <3>1
  <2>. QED
    BY <1>2, <1>4, <2>1, <2>2 DEF WellFormed
<1>. QED
  BY <1>6, <1>7

\* Every step keeps the invariant.
LEMMA NextVerifyInv ==
    ASSUME IInv, IInv', VerifyInv, [Next]_vars
    PROVE  VerifyInv'
<1>1. CASE Visitors
  <2>1. Fares /\ prog' = prog /\ phase = "emit" /\ phase' = "emit"
    BY ONLY IInv, IInv', <1>1, VisitorsFare
  <2>2. Clean' <=> Clean
    BY <2>1, SameProgram
  <2>3. (~Clean /\ (Spoilt \/ Doomed)) \/ \E V \in SUBSET Node : Neat(V)
    BY <2>1 DEF VerifyInv
  <2>4. (~Clean' /\ (Spoilt' \/ Doomed')) \/ \E V \in SUBSET Node : Neat(V)'
    BY <2>1, <2>2, <2>3 DEF Fares
  <2>. QED
    BY <2>1, <2>4 DEF VerifyInv, VerifiesExactlyWhenClean
<1>2. CASE Generated
  <2>1. Clean' <=> \A b \in Blocks' : WellFormed(b)'
    BY ONLY IInv, IInv', VerifyInv, <1>2, GeneratedTells
  <2>2. phase' = "verify"
    BY <1>2 DEF Generated
  <2>. QED
    BY <2>1, <2>2 DEF VerifyInv, VerifiesExactlyWhenClean
<1>3. CASE Verify
  <2>1. prog' = prog /\ phase = "verify" /\ phase' \in {"run", "rejected"}
    BY ONLY <1>3 DEF Verify
  <2>2. PICK left \in BOOLEAN :
          phase' = IF \A b \in Blocks : Verifies(b, left) /\ StaysInside(b) THEN "run" ELSE "rejected"
    BY ONLY <1>3 DEF Verify, Blocks
  <2>3. Clean <=> \A b \in Blocks : WellFormed(b)
    BY <2>1 DEF VerifyInv
  <2>4. Clean' <=> Clean
    BY <2>1, SameProgram
  <2>5. HasAllValues' <=> HasAllValues
    BY <2>1 DEF HasAllValues
  <2>6. ASSUME HasAllValues
        PROVE  phase' = IF Clean THEN "run" ELSE "rejected"
    <3>1. \A b \in Blocks : StaysInside(b)
      BY DEF IInv, BranchesStayInside, Blocks
    <3>2. \A b \in Blocks : Verifies(b, left) <=> WellFormed(b)
      BY <2>6, VerifiesAsIs
    <3>. QED
      BY ONLY <2>2, <2>3, <3>1, <3>2
  <2>. QED
    BY ONLY <2>1, <2>4, <2>5, <2>6 DEF VerifyInv, VerifiesExactlyWhenClean
<1>4. CASE RunBranch \/ ReadOn \/ RunEffect \/ RunReturn
  <2>1. prog' = prog /\ phase = "run" /\ phase' \in {"run", "done"}
    BY ONLY <1>4 DEF RunBranch, ReadOn, RunEffect, RunReturn, BothHaveEffect, SourceActs
  <2>2. Clean' <=> Clean
    BY <2>1, SameProgram
  <2>3. HasAllValues' <=> HasAllValues
    BY <2>1 DEF HasAllValues
  <2>4. HasAllValues => Clean
    BY <2>1 DEF VerifyInv, VerifiesExactlyWhenClean
  <2>. QED
    BY ONLY <2>1, <2>2, <2>3, <2>4 DEF VerifyInv, VerifiesExactlyWhenClean
<1>5. CASE UNCHANGED vars
  <2>1. UNCHANGED <<phase, prog, blocks, owner, at, todo>>
    BY <1>5 DEF vars, emitted
  <2>2. Clean' <=> Clean
    BY <2>1, SameProgram
  <2>. HasAllValues' <=> HasAllValues
    BY <2>1 DEF HasAllValues
  <2>3. CASE phase = "emit"
    <3>1. Blocks' = Blocks
      BY <2>1 DEF Blocks
    <3>2. ASSUME NEW b
          PROVE  /\ IsOpen(b)' <=> IsOpen(b)
                 /\ HasTerminator(b)' <=> HasTerminator(b)
                 /\ WellFormed(b)' <=> WellFormed(b)
      BY <2>1 DEF IsOpen, WellFormed, HasTerminator
    <3>3. ASSUME NEW b
          PROVE  Settled(b)' <=> Settled(b)
      BY <3>2 DEF Settled
    <3>4. \A k : KeptAt(k)' = KeptAt(k)
      BY <2>1 DEF KeptAt, Keeps
    <3>5. \A b : InUse(b)' <=> InUse(b)
      BY <2>1, <3>4 DEF InUse
    <3>6. (Spoilt' <=> Spoilt) /\ (Doomed' <=> Doomed)
      <4>1. Spoilt' <=> Spoilt
        BY <3>1, <3>2, <3>3, <3>5 DEF Spoilt
      <4>2. Doomed' <=> Doomed
        BY <2>1 DEF Doomed, HasTerminator
      <4>. QED
        BY <4>1, <4>2
    <3>7. ASSUME NEW V \in SUBSET Node, Neat(V)
          PROVE  Neat(V)'
      <4>1. ChainIsRight(V)'
        BY <2>1, <3>7 DEF Neat, ChainIsRight, TaskFits, Follows, EndKinds, IsEnd
      <4>2. KeptApart' /\ KeptOpen' /\ BlocksAreRight'
        <5>1. KeptApart'
          BY <2>1, <3>4, <3>7 DEF Neat, KeptApart
        <5>2. BlocksAreRight'
          BY <3>1, <3>2, <3>3, <3>5, <3>7 DEF Neat, BlocksAreRight
        <5>3. KeptOpen'
          BY <2>1, <3>7 DEF Neat, KeptOpen, Keeps, IsOpen
        <5>. QED
          BY <5>1, <5>2, <5>3
      <4>3. OpenedAreRight(V)'
        BY <2>1, <3>7, SameProgram DEF Neat, OpenedAreRight, Pending, Pends, PartIsDone
      <4>4. FramesAreRight(V)'
        <5>1. ASSUME NEW k \in 1..(Len(todo) + 1), IsFrame(k)
              PROVE  FrameIsRight(k, V)'
          <6>1. PICK L, left, e : L = ListAt(k) /\ left = LeftAt(k) /\ e = BlockAt(k)
            OBVIOUS
          <6>2. L = ListAt(k)' /\ left = LeftAt(k)' /\ e = BlockAt(k)'
            BY <2>1, <6>1 DEF ListAt, LeftAt, BlockAt
          <6>3. Frame(k, L, left, e, V)
            BY <3>7, <5>1, <6>1 DEF Neat, FramesAreRight, FrameIsRight
          <6>4. PICK m \in 0..Len(L) :
                   /\ Passed(L, left, m, V) /\ GoesOnIn(e, L, m)
                   /\ k <= Len(todo) => (todo[k].do = "endArm" => ArmGoesOn(k, todo[k].at[1], L, e, m))
            BY <6>3 DEF Frame
          <6>5. Passed(L, left, m, V)'
            BY <2>1, <6>4, SameProgram DEF Passed
          <6>6. GoesOnIn(e, L, m)'
            BY <2>1, <6>4, SameProgram DEF GoesOnIn, HasTerminator
          <6>7. \A a : ArmGoesOn(k, a, L, e, m)' <=> ArmGoesOn(k, a, L, e, m)
            BY <2>1, <3>5, SameProgram DEF ArmGoesOn
          <6>8. Frame(k, L, left, e, V)'
            BY <2>1, <6>4, <6>5, <6>6, <6>7 DEF Frame
          <6>. QED
            BY <6>2, <6>8 DEF FrameIsRight
        <5>2. \A k : IsFrame(k)' <=> IsFrame(k)
          BY <2>1 DEF IsFrame, IsEnd
        <5>. QED
          BY <2>1, <5>1, <5>2 DEF FramesAreRight
      <4>. QED
        BY <4>1, <4>2, <4>3, <4>4 DEF Neat
    <3>. QED
      BY <2>1, <2>2, <2>3, <3>6, <3>7 DEF VerifyInv, VerifiesExactlyWhenClean
  <2>4. CASE phase = "verify"
    <3>1. Blocks' = Blocks /\ \A b : WellFormed(b)' <=> WellFormed(b)
      BY <2>1 DEF Blocks, WellFormed, HasTerminator
    <3>. QED
      BY <2>1, <2>2, <2>4, <3>1 DEF VerifyInv, VerifiesExactlyWhenClean
  <2>5. CASE phase \notin {"emit", "verify"}
    BY <2>1, <2>2, <2>5 DEF VerifyInv, VerifiesExactlyWhenClean
  <2>. QED
    BY ONLY <2>3, <2>4, <2>5
<1>. QED
  BY ONLY [Next]_vars, <1>1, <1>2, <1>3, <1>4, <1>5 DEF Next

\* The list of the program, and nothing behind it, is neat.
LEMMA InitVerifyInv == Init => VerifyInv
<1>. SUFFICES ASSUME Init PROVE VerifyInv
  OBVIOUS
<1>1. PICK L \in Seq(Node) : L = prog.top
  BY ProgramsAssumption DEF Init, ProgramTable
<1>2. /\ phase = "emit" /\ blocks = <<<<>>>> /\ at = 1 /\ todo = <<Visit(L)>> /\ prog.top = L
      /\ Len(todo) = 1 /\ todo[1].do = "visit" /\ todo[1].list = L /\ todo # <<>>
  BY <1>1 DEF Init, Visit
<1>3. Blocks = {1} /\ IsOpen(1) /\ ~HasTerminator(1)
  BY <1>2 DEF Blocks, IsOpen, HasTerminator
<1>4. KeptAt(0) = {1} /\ KeptAt(1) = {} /\ \A k : (k \in 0..Len(todo)) <=> (k = 0 \/ k = 1)
  BY <1>2 DEF KeptAt, Keeps
<1>5. ChainIsRight({})
  BY <1>2 DEF ChainIsRight, TaskFits
<1>6. FramesAreRight({})
  <2>1. ASSUME NEW k \in 1..(Len(todo) + 1), IsFrame(k)
        PROVE  k = 2
    BY <1>2, <2>1 DEF IsFrame, IsEnd
  <2>2. FrameIsRight(2, {})
    <3>1. ListAt(2) = L /\ LeftAt(2) = L /\ BlockAt(2) = 1 /\ ~(2 <= Len(todo))
      BY <1>2 DEF ListAt, LeftAt, BlockAt
    <3>2. PICK n \in Nat : n = Len(L)
      OBVIOUS
    <3>3. 0 \in 0..Len(L) /\ Len(L) = 0 + Len(L) /\ \A i \in 1..Len(L) : L[i] = L[0 + i]
      BY <3>2
    <3>4. \A i : ~(i \in 1..0)
      OBVIOUS
    <3>5. Passed(L, L, 0, {})
      BY <3>3, <3>4 DEF Passed, NoDeadCode
    <3>6. GoesOnIn(1, L, 0)
      BY <1>3, <3>4 DEF GoesOnIn, Returns
    <3>. QED
      BY <3>1, <3>3, <3>5, <3>6 DEF FrameIsRight, Frame
  <2>. QED
    BY <2>1, <2>2 DEF FramesAreRight
<1>7. KeptApart /\ KeptOpen /\ BlocksAreRight
  <2>1. KeptApart
    BY <1>4 DEF KeptApart
  <2>2. KeptOpen
    BY <1>2 DEF KeptOpen, Keeps
  <2>3. InUse(1)
    BY <1>4 DEF InUse
  <2>. QED
    BY <1>3, <2>1, <2>2, <2>3 DEF BlocksAreRight, Settled
<1>8. Neat({})
  BY <1>5, <1>6, <1>7 DEF Neat, OpenedAreRight
<1>. QED
  BY <1>2, <1>8 DEF VerifyInv, VerifiesExactlyWhenClean

\* Where no function uses a variable of one around it, LLVM's verifier accepts the
\* functions that the visitors leave exactly when the program is clean: no code
\* behind a return, no return at the end of a loop's body, no branch in an arm
\* that goes on.  Whatever else is nested in whatever
\* order, every block visitIf, visitWhile, visitFor, visitMatch and visitFunc
\* create gets one terminator, at its end.
THEOREM VerifierIsPredicted == Spec => []VerifiesExactlyWhenClean
<1>1. VerifyInv => VerifiesExactlyWhenClean
  BY DEF VerifyInv
<1>2. IInv /\ IInv' /\ VerifyInv /\ [Next]_vars => VerifyInv'
  BY ONLY NextVerifyInv
<1>. QED
  BY <1>1, <1>2, InitVerifyInv, Invariance, PTL DEF Spec
=============================================================================
