---------------------------- MODULE DrukVMProofs ----------------------------
(***************************************************************************)
(* The bytecode machine is correct for every program whose code is balanced*)
(* (Operands, Room), for every number of frames and of slots in a frame.   *)
(***************************************************************************)
EXTENDS DrukVM, SequenceTheorems, FiniteSetTheorems, TLAPS

LEMMA ConstantFacts ==
    /\ \A f \in Fn : Arity[f] \in Nat
    /\ ArgNames \subseteq Name /\ IsFiniteSet(ArgNames)
    /\ MaxFrames \in Nat \ {0} /\ FrameSlots \in Nat \ {0} /\ MaxIp \in Nat \ {0}
BY VMAssumption

LEMMA ValueFacts ==
    /\ Nil \in Value /\ Object \in Value
    /\ \A b \in BOOLEAN : BoolValue(b) \in Value
    /\ \A i \in Number : IntValue(i) \in Value
    /\ \A f \in Fn : FnValue(f) \in Value
    /\ \A v \in Value : v.type = "function" => v.f \in Fn
<1>1. Nil \in Value /\ Object \in Value
  BY DEF Value
<1>2. \A b \in BOOLEAN : BoolValue(b) \in Value
  BY DEF Value
<1>3. \A i \in Number : IntValue(i) \in Value
  BY DEF Value
<1>4. \A f \in Fn : FnValue(f) \in Value
  BY DEF Value
<1>5. ASSUME NEW v \in Value, v.type = "function"
      PROVE  v.f \in Fn
  <2>1. v # Nil /\ v # Object
    BY <1>5 DEF Nil, Object
  <2>2. \A b \in BOOLEAN : v # BoolValue(b)
    BY <1>5 DEF BoolValue
  <2>3. \A i \in Number : v # IntValue(i)
    BY <1>5 DEF IntValue
  <2>4. PICK f \in Fn : v = FnValue(f)
    BY <2>1, <2>2, <2>3 DEF Value
  <2>. QED
    BY <2>4 DEF FnValue
<1>. QED
  BY <1>1, <1>2, <1>3, <1>4, <1>5

\* A number times a number, as the bounds on the stack need it.
LEMMA Products ==
    /\ \A k, m \in Nat : k * m \in Nat /\ (k + 1) * m = k * m + m
    /\ \A k, n, m \in Nat : k <= n => k * m <= n * m
<1>1. \A k, m \in Nat : k * m \in Nat /\ (k + 1) * m = k * m + m
  OBVIOUS
<1>2. ASSUME NEW k \in Nat, NEW n \in Nat, NEW m \in Nat, k <= n
      PROVE  k * m <= n * m
  <2>1. n * m = k * m + (n - k) * m
    OBVIOUS
  <2>2. n - k \in Nat
    BY <1>2
  <2>3. (n - k) * m \in Nat /\ k * m \in Nat
    BY <2>2
  <2>. QED
    BY <2>1, <2>3
<1>. QED
  BY <1>1, <1>2
-----------------------------------------------------------------------------
\* What popping n values and pushing one does to a stack.
LEMMA PopThenPush ==
    ASSUME NEW s \in Seq(Value), NEW n \in 0..Len(s)
    PROVE  /\ SubSeq(s, 1, Len(s) - n) \in Seq(Value)
           /\ Len(SubSeq(s, 1, Len(s) - n)) = Len(s) - n
           /\ \A j \in 1..(Len(s) - n) : SubSeq(s, 1, Len(s) - n)[j] = s[j]
           /\ \A v \in Value :
                /\ Append(SubSeq(s, 1, Len(s) - n), v) \in Seq(Value)
                /\ Len(Append(SubSeq(s, 1, Len(s) - n), v)) = Len(s) - n + 1
                /\ \A j \in 1..(Len(s) - n) : Append(SubSeq(s, 1, Len(s) - n), v)[j] = s[j]
<1>. DEFINE k == Len(s) - n
            t == SubSeq(s, 1, k)
<1>1. k \in Nat /\ k <= Len(s) /\ \A i \in 1..k : s[i] \in Value
  BY ElementOfSeq, LenProperties
<1>2. t \in Seq(Value) /\ Len(t) = k /\ \A j \in 1..k : t[j] = s[j]
  <2>1. Len(t) = IF 1 <= k THEN k - 1 + 1 ELSE 0
    BY <1>1, SubSeqProperties
  <2>2. t \in Seq(Value) /\ \A i \in 1..(k - 1 + 1) : t[i] = s[1 + i - 1]
    BY <1>1, SubSeqProperties
  <2>. QED
    BY <1>1, <2>1, <2>2
<1>. HIDE DEF t, k
<1>3. \A v \in Value : /\ Append(t, v) \in Seq(Value)
                       /\ Len(Append(t, v)) = k + 1
                       /\ \A j \in 1..k : Append(t, v)[j] = s[j]
  BY <1>2, AppendProperties
<1>. QED
  BY <1>2, <1>3 DEF t, k

\* The running call has a frame, and its window is on the stack.
LEMMA FrameFacts ==
    ASSUME IInv, Running
    PROVE  /\ Len(frames) \in 1..MaxFrames
           /\ Frame_ \in Frame /\ Frame_ = frames[Len(frames)]
           /\ Arity[Frame_.fn] \in Nat
           /\ Frame_.slots \in Nat
           /\ Len(stack) \in Nat
           /\ Frame_.slots + 1 + Arity[Frame_.fn] <= Len(stack)
           /\ Len(stack) <= Frame_.slots + FrameSlots
<1>1. Len(frames) \in Nat /\ Len(frames) >= 1 /\ Len(frames) <= MaxFrames
  BY DEF IInv, TypeOK, WindowsInv
<1>2. frames[Len(frames)] \in Frame
  BY <1>1, ElementOfSeq DEF IInv, TypeOK
<1>3. Len(stack) \in Nat
  BY DEF IInv, TypeOK
<1>. QED
  BY <1>1, <1>2, <1>3, ConstantFacts DEF Frame_, Last, Frame, IInv, WindowsInv, Base

LEMMA OperandIsValue ==
    ASSUME IInv, Running, NEW n \in Nat, Operands(n + 1)
    PROVE  Top(n) \in Value
<1>1. Len(stack) - n \in 1..Len(stack)
  BY FrameFacts DEF Operands
<1>. QED
  BY <1>1, ElementOfSeq DEF Top, IInv, TypeOK

LEMMA OperandsAreValues ==
    ASSUME IInv, Running
    PROVE  /\ Operands(1) => Top(0) \in Value
           /\ Operands(2) => Top(0) \in Value /\ Top(1) \in Value
<1>1. Operands(1) => Top(0) \in Value
  <2>. SUFFICES ASSUME Operands(0 + 1) PROVE Top(0) \in Value
    OBVIOUS
  <2>. QED
    BY OperandIsValue
<1>2. Operands(2) => Operands(1)
  BY FrameFacts DEF Operands
<1>3. Operands(2) => Top(1) \in Value
  <2>. SUFFICES ASSUME Operands(1 + 1) PROVE Top(1) \in Value
    OBVIOUS
  <2>. QED
    BY OperandIsValue
<1>. QED
  BY <1>1, <1>2, <1>3
-----------------------------------------------------------------------------
\* What the stack looks like after an instruction that stays within its call.
StackWithinCall ==
    /\ stack' \in Seq(Value)
    /\ Frame_.slots + 1 + Arity[Frame_.fn] <= Len(stack')
    /\ Len(stack') <= Frame_.slots + FrameSlots
    /\ \A j \in 1..Frame_.slots : stack'[j] = stack[j]

WithinCall ==
    /\ Running
    /\ status' = status /\ frames' = frames /\ pending' = pending
    /\ ip' \in 0..MaxIp
    /\ lastResult' = lastResult /\ trace' = trace
    /\ StackWithinCall

\* The three shapes such an instruction has: pop n and push one, pop, store.
LEMMA PrefixWithinCall ==
    ASSUME IInv, Running, stack' \in Seq(Value), NEW k \in Nat,
           Frame_.slots + 1 + Arity[Frame_.fn] <= k,
           k <= Len(stack'), Len(stack') - Frame_.slots <= FrameSlots,
           \A j \in 1..k : stack'[j] = stack[j]
    PROVE  StackWithinCall
<1>. DEFINE base == Frame_.slots
            arity == Arity[Frame_.fn]
            len == Len(stack')
<1>1. base \in Nat /\ arity \in Nat /\ len \in Nat /\ FrameSlots \in Nat
  BY FrameFacts, ConstantFacts, LenProperties
<1>2. base + 1 + arity <= k /\ k <= len /\ len - base <= FrameSlots
  OBVIOUS
<1>. HIDE DEF base, arity, len
<1>3. base + 1 + arity <= len /\ len <= base + FrameSlots /\ \A j \in 1..base : j \in 1..k
  BY <1>1, <1>2
<1>. QED
  BY <1>3 DEF StackWithinCall, base, arity, len

LEMMA ReplaceWithinCall ==
    ASSUME IInv, Running, NEW n \in Nat, Operands(n), n = 0 => Room, NEW v \in Value,
           stack' = Append(Popped(n), v)
    PROVE  StackWithinCall
<1>. DEFINE base == Frame_.slots
            arity == Arity[Frame_.fn]
            len == Len(stack)
<1>1. /\ base \in Nat /\ arity \in Nat /\ len \in Nat /\ FrameSlots \in Nat
      /\ len - (base + 1 + arity) >= n /\ len <= base + FrameSlots
      /\ n = 0 => len - base < FrameSlots
  BY FrameFacts, ConstantFacts DEF Operands, Room
<1>2. /\ n \in 0..len /\ len - n \in Nat
      /\ base + 1 + arity <= len - n /\ len - n + 1 - base <= FrameSlots
  <2>. HIDE DEF base, arity, len
  <2>. QED
    BY <1>1
<1>3. stack \in Seq(Value)
  BY DEF IInv, TypeOK
<1>4. /\ stack' \in Seq(Value) /\ Len(stack') = len - n + 1
      /\ \A j \in 1..(len - n) : stack'[j] = stack[j]
  BY <1>2, <1>3, PopThenPush DEF Popped
<1>5. len - n <= Len(stack') /\ Len(stack') - base <= FrameSlots
  <2>. HIDE DEF base, arity, len
  <2>. QED
    BY <1>1, <1>2, <1>4
<1>. QED
  BY <1>2, <1>4, <1>5, PrefixWithinCall

LEMMA PushWithinCall ==
    ASSUME IInv, Running, Room, NEW v \in Value, stack' = Append(stack, v)
    PROVE  StackWithinCall
<1>. DEFINE base == Frame_.slots
            len == Len(stack)
<1>1. stack \in Seq(Value)
  BY DEF IInv, TypeOK
<1>2. /\ stack' \in Seq(Value) /\ Len(stack') = len + 1
      /\ \A j \in 1..len : stack'[j] = stack[j]
  BY <1>1, AppendProperties
<1>3. base \in Nat /\ len \in Nat /\ FrameSlots \in Nat /\ len - base < FrameSlots
  BY FrameFacts, ConstantFacts DEF Room
<1>4. len <= Len(stack') /\ Len(stack') - base <= FrameSlots
  <2>. HIDE DEF base, len
  <2>. QED
    BY <1>2, <1>3
<1>. QED
  BY <1>2, <1>3, <1>4, FrameFacts, PrefixWithinCall

LEMMA PopWithinCall ==
    ASSUME IInv, Running, Operands(1), stack' = Popped(1)
    PROVE  StackWithinCall
<1>. DEFINE base == Frame_.slots
            arity == Arity[Frame_.fn]
            len == Len(stack)
<1>1. /\ base \in Nat /\ arity \in Nat /\ len \in Nat /\ FrameSlots \in Nat
      /\ len - (base + 1 + arity) >= 1 /\ len <= base + FrameSlots
  BY FrameFacts, ConstantFacts DEF Operands
<1>2. /\ 1 \in 0..len /\ len - 1 \in Nat
      /\ base + 1 + arity <= len - 1 /\ len - 1 - base <= FrameSlots
  <2>. HIDE DEF base, arity, len
  <2>. QED
    BY <1>1
<1>3. stack \in Seq(Value)
  BY DEF IInv, TypeOK
<1>4. /\ stack' \in Seq(Value) /\ Len(stack') = len - 1
      /\ \A j \in 1..(len - 1) : stack'[j] = stack[j]
  BY <1>2, <1>3, PopThenPush DEF Popped
<1>5. len - 1 <= Len(stack') /\ Len(stack') - base <= FrameSlots
  <2>. HIDE DEF base, arity, len
  <2>. QED
    BY <1>1, <1>2, <1>4
<1>. QED
  BY <1>2, <1>4, <1>5, PrefixWithinCall

\* SetLocal may overwrite a parameter, so the part it keeps ends at the slot.
LEMMA StoreWithinCall ==
    ASSUME IInv, Running, NEW slot \in Nat, slot < Len(stack) - Frame_.slots, NEW v \in Value,
           stack' = [stack EXCEPT ![Frame_.slots + slot + 1] = v]
    PROVE  StackWithinCall
<1>. DEFINE base == Frame_.slots
            len == Len(stack)
<1>1. base \in Nat /\ len \in Nat /\ slot < len - base
  BY FrameFacts
<1>2. base + slot + 1 \in 1..len /\ \A j \in 1..base : j \in 1..len /\ j # base + slot + 1
  <2>. HIDE DEF base, len
  <2>. QED
    BY <1>1
<1>3. stack \in Seq(Value)
  BY DEF IInv, TypeOK
<1>4. /\ stack' \in Seq(Value) /\ Len(stack') = len
      /\ \A j \in 1..len : stack'[j] = IF j = base + slot + 1 THEN v ELSE stack[j]
  BY <1>2, <1>3, ExceptSeq
<1>5. \A j \in 1..base : stack'[j] = stack[j]
  BY <1>2, <1>4
<1>. QED
  BY <1>4, <1>5, FrameFacts DEF StackWithinCall

LEMMA SameWithinCall ==
    ASSUME IInv, Running, stack' = stack
    PROVE  StackWithinCall
BY FrameFacts DEF StackWithinCall, IInv, TypeOK

\* Such an instruction keeps everything that is known of frames and history.
LEMMA WithinCallKeeps ==
    ASSUME IInv, WithinCall
    PROVE  /\ WindowsInv' /\ PendingInv' /\ RestInv'
           /\ status' = "running"
<1>1. Running /\ Running'
  BY DEF WithinCall, Running
<1>2. WindowsInv'
  BY <1>1, FrameFacts
  DEF WithinCall, StackWithinCall, IInv, WindowsInv, Base, Frame_, Last
<1>3. PendingInv'
  <2>. SUFFICES ASSUME NEW i \in 1..Len(pending), NEW j \in 1..frames[i + 1].slots
                PROVE  stack'[j] = stack[j]
    BY <1>1 DEF PendingInv, IInv, WithinCall
  <2>1. Len(pending) = Len(frames) - 1 /\ Len(frames) \in Nat
    BY <1>1, FrameFacts DEF IInv, PendingInv
  <2>2. i + 1 \in 1..Len(frames)
    BY <2>1
  <2>3. frames[i + 1] \in Frame
    BY <2>2, ElementOfSeq DEF IInv, TypeOK
  <2>4. frames[i + 1].slots \in Nat /\ frames[i + 1].fn \in Fn
    BY <2>3 DEF Frame
  <2>5. CASE i + 1 = Len(frames)
    BY <1>1, <2>5, FrameFacts DEF WithinCall, StackWithinCall
  <2>6. CASE i + 1 # Len(frames)
    <3>1. Base(i + 1) <= frames[Len(frames)].slots
      BY <1>1, <2>1, <2>2, <2>6 DEF IInv, WindowsInv
    <3>2. frames[i + 1].slots <= Frame_.slots /\ Frame_.slots \in Nat
      <4>1. frames[i + 1].slots + 1 + Arity[frames[i + 1].fn] <= Frame_.slots
        BY <1>1, <3>1, FrameFacts DEF Base
      <4>2. Arity[frames[i + 1].fn] \in Nat /\ Frame_.slots \in Nat
        BY <1>1, <2>4, FrameFacts, ConstantFacts
      <4>. QED
        BY <4>1, <4>2, <2>4
    <3>3. j \in 1..Frame_.slots
      BY <2>4, <3>2
    <3>. QED
      BY <3>3 DEF WithinCall, StackWithinCall
  <2>. QED
    BY <2>5, <2>6
<1>. QED
  BY <1>1, <1>2, <1>3 DEF RestInv, Running
-----------------------------------------------------------------------------
LEMMA StepWithinCall ==
    ASSUME IInv, Step, StackWithinCall
    PROVE  WithinCall
BY ConstantFacts DEF WithinCall, Step, IInv, TypeOK

\* Every instruction on data stays within its call or fails.
LEMMA DataStaysWithin ==
    ASSUME IInv, Running, Data
    PROVE  (WithinCall /\ UNCHANGED store) \/ RuntimeError
<1>1. ASSUME NEW v \in Value, PushValue(v)
      PROVE  WithinCall /\ UNCHANGED store
  BY <1>1, PushWithinCall, StepWithinCall DEF PushValue
<1>2. ASSUME NEW slot \in 0..(FrameSlots - 1), GetLocal(slot)
      PROVE  WithinCall /\ UNCHANGED store
  <2>1. Frame_.slots + slot + 1 \in 1..Len(stack)
    BY <1>2, FrameFacts DEF GetLocal
  <2>2. stack[Frame_.slots + slot + 1] \in Value
    BY <2>1, ElementOfSeq DEF IInv, TypeOK
  <2>. QED
    BY <1>1, <1>2, <2>2 DEF GetLocal
<1>3. ASSUME NEW slot \in 0..(FrameSlots - 1), SetLocal(slot)
      PROVE  WithinCall /\ UNCHANGED store
  <2>1. slot \in Nat /\ Top(0) \in Value
    BY <1>3, ConstantFacts, OperandsAreValues DEF SetLocal
  <2>2. StackWithinCall
    BY <1>3, <2>1, StoreWithinCall DEF SetLocal
  <2>. QED
    BY <1>3, <2>2, StepWithinCall DEF SetLocal
<1>4. ASSUME Drop PROVE WithinCall /\ UNCHANGED store
  BY <1>4, PopWithinCall, StepWithinCall DEF Drop
<1>5. ASSUME NEW n \in Nat, Operands(n), n = 0 => Room, NEW v \in Value,
             Step, stack' = Append(Popped(n), v)
      PROVE  WithinCall
  <2>1. StackWithinCall
    BY <1>5, ReplaceWithinCall
  <2>. QED
    BY <1>5, <2>1, StepWithinCall
<1>6. ASSUME Equal PROVE WithinCall /\ UNCHANGED store
  <2>1. PICK r \in BOOLEAN : stack' = Append(Popped(2), BoolValue(r))
    BY <1>6 DEF Equal
  <2>. QED
    BY <1>5, <1>6, <2>1, ValueFacts DEF Equal
<1>7. ASSUME Compare PROVE WithinCall /\ UNCHANGED store
  <2>1. PICK r \in BOOLEAN : stack' = Append(Popped(2), BoolValue(r))
    BY <1>7 DEF Compare
  <2>. QED
    BY <1>5, <1>7, <2>1, ValueFacts DEF Compare
<1>8. ASSUME Not PROVE WithinCall /\ UNCHANGED store
  <2>1. PICK r \in BOOLEAN : stack' = Append(Popped(1), BoolValue(r))
    BY <1>8 DEF Not
  <2>2. Step /\ Operands(1) /\ UNCHANGED store
    BY <1>8 DEF Not
  <2>. QED
    BY <1>5, <2>1, <2>2, ValueFacts
<1>9. ASSUME NEW n \in 1..2, Arithmetic(n) PROVE WithinCall /\ UNCHANGED store
  <2>1. PICK r \in Number : stack' = Append(Popped(n), IntValue(r))
    BY <1>9 DEF Arithmetic
  <2>. QED
    BY <1>5, <1>9, <2>1, ValueFacts DEF Arithmetic
<1>10. ASSUME NEW n \in 0..FrameSlots, NEW v \in Value, Builtin(n, v)
       PROVE  WithinCall /\ UNCHANGED store
  BY <1>5, <1>10, ConstantFacts DEF Builtin
<1>11. ASSUME NEW n \in 0..FrameSlots, BuiltinFails(n) PROVE RuntimeError
  BY <1>11 DEF BuiltinFails
<1>12. ASSUME NEW n \in 1..2, ArithmeticFails(n) PROVE RuntimeError
  BY <1>12 DEF ArithmeticFails
<1>. QED
  BY <1>1, <1>2, <1>3, <1>4, <1>6, <1>7, <1>8, <1>9, <1>10, <1>11, <1>12 DEF Data

\* The globals and the cache that fits them.
StoreInv ==
    /\ DOMAIN globals \subseteq Name /\ globals \in [DOMAIN globals -> Value]
    /\ version \in Nat
    /\ cache = NoCache \/ cache \in [name : Name, slot : Name, version : Nat]
    /\ CacheInv

LEMMA SameStore ==
    ASSUME StoreInv, UNCHANGED store
    PROVE  StoreInv'
BY DEF StoreInv, store, CacheInv

LEMMA FilledCache ==
    ASSUME NEW n \in Name, n \in DOMAIN globals', version' \in Nat, cache' = Cached(n, version')
    PROVE  /\ cache' \in [name : Name, slot : Name, version : Nat]
           /\ CacheInv'
BY DEF Cached, CacheInv

LEMMA GlobalsStayWithin ==
    ASSUME IInv, Running, Globals
    PROVE  (WithinCall /\ StoreInv') \/ RuntimeError
<1>. StoreInv
  BY DEF IInv, TypeOK, StoreInv
<1>1. ASSUME NEW n \in Name, CacheHit(n) PROVE cache.slot = n /\ n \in DOMAIN globals
  BY <1>1 DEF CacheHit, StoreInv, CacheInv
<1>2. ASSUME NEW n \in Name, GetGlobal(n) PROVE WithinCall /\ StoreInv'
  <2>1. CASE CacheHit(n) /\ stack' = Append(stack, globals[cache.slot]) /\ UNCHANGED store
    <3>1. globals[cache.slot] \in Value
      BY <1>1, <2>1 DEF StoreInv
    <3>. QED
      BY <1>2, <2>1, <3>1, PushWithinCall, StepWithinCall, SameStore DEF GetGlobal
  <2>2. CASE /\ n \in DOMAIN globals /\ stack' = Append(stack, globals[n])
             /\ cache' = Cached(n, version) /\ UNCHANGED <<globals, version>>
    <3>1. globals[n] \in Value
      BY <2>2 DEF StoreInv
    <3>2. StoreInv'
      BY <2>2, FilledCache DEF StoreInv
    <3>. QED
      BY <1>2, <2>2, <3>1, <3>2, PushWithinCall, StepWithinCall DEF GetGlobal
  <2>. QED
    BY <1>2, <2>1, <2>2 DEF GetGlobal
<1>3. ASSUME NEW n \in Name, SetGlobal(n) PROVE WithinCall /\ StoreInv'
  <2>1. Top(0) \in Value /\ WithinCall
    BY <1>3, OperandsAreValues, SameWithinCall, StepWithinCall DEF SetGlobal
  <2>2. CASE CacheHit(n) /\ globals' = [globals EXCEPT ![cache.slot] = Top(0)] /\ UNCHANGED cache
    BY <1>1, <1>3, <2>1, <2>2 DEF SetGlobal, StoreInv, CacheInv
  <2>3. CASE /\ n \in DOMAIN globals /\ globals' = [globals EXCEPT ![n] = Top(0)]
             /\ cache' = Cached(n, version)
    BY <1>3, <2>1, <2>3, FilledCache DEF SetGlobal, StoreInv
  <2>. QED
    BY <1>3, <2>1, <2>2, <2>3 DEF SetGlobal
<1>4. ASSUME NEW n \in Name, DefineGlobal(n) PROVE WithinCall /\ StoreInv'
  <2>1. Top(0) \in Value /\ WithinCall
    BY <1>4, OperandsAreValues, PopWithinCall, StepWithinCall DEF DefineGlobal
  <2>2. /\ DOMAIN globals' = DOMAIN globals \cup {n}
        /\ globals' \in [DOMAIN globals' -> Value]
        /\ version' \in Nat
    BY <1>4, <2>1 DEF DefineGlobal, StoreInv
  <2>3. cache' \in [name : Name, slot : Name, version : Nat] /\ CacheInv'
    BY <1>4, <2>2, FilledCache DEF DefineGlobal
  <2>. QED
    BY <2>1, <2>2, <2>3 DEF StoreInv
<1>5. ASSUME NEW n \in Name, UndefinedGlobal(n) PROVE RuntimeError
  BY <1>5 DEF UndefinedGlobal
<1>. QED
  BY <1>2, <1>3, <1>4, <1>5 DEF Globals
-----------------------------------------------------------------------------
LEMMA InitIInv == Init => IInv
<1>. SUFFICES ASSUME Init PROVE IInv
  OBVIOUS
<1>1. TypeOK
  <2>1. globals \in [DOMAIN globals -> Value] /\ DOMAIN globals \subseteq Name
    BY DEF Init
  <2>. QED
    BY <2>1, ConstantFacts, ValueFacts, EmptySeq DEF Init, TypeOK
<1>. QED
  BY <1>1 DEF Init, IInv, WindowsInv, PendingInv, RestInv, CacheInv, Running

LEMMA WithinCallIInv ==
    ASSUME IInv, WithinCall, StoreInv'
    PROVE  IInv'
<1>1. TypeOK'
  BY DEF IInv, TypeOK, WithinCall, StackWithinCall, StoreInv
<1>. QED
  BY <1>1, WithinCallKeeps DEF IInv, StoreInv

LEMMA ErrorIInv ==
    ASSUME IInv, RuntimeError
    PROVE  IInv'
<1>1. trace' \in Seq(1..MaxIp)
  <2>1. Len(frames) - 1 \in Nat /\ Len(pending) = Len(frames) - 1
    BY FrameFacts DEF RuntimeError, IInv, PendingInv
  <2>2. \A i \in 1..(Len(frames) - 1) : frames[i].ip \in 1..MaxIp
    <3>. TAKE i \in 1..(Len(frames) - 1)
    <3>1. i \in 1..Len(pending) /\ pending[i].ip = frames[i].ip
      BY <2>1 DEF RuntimeError, IInv, PendingInv
    <3>2. pending[i] \in [ip : 1..MaxIp, below : Seq(Value)]
      BY <3>1, ElementOfSeq DEF IInv, TypeOK
    <3>. QED
      BY <3>1, <3>2
  <2>3. [i \in 1..(Len(frames) - 1) |-> frames[i].ip] \in Seq(1..MaxIp)
    BY <2>1, <2>2, IsASeq
  <2>4. ip + 1 \in 1..MaxIp
    BY ConstantFacts DEF RuntimeError, IInv, TypeOK
  <2>. QED
    BY <2>3, <2>4, AppendProperties DEF RuntimeError
<1>2. TypeOK'
  BY <1>1, ConstantFacts, EmptySeq DEF IInv, TypeOK, RuntimeError, store
<1>. QED
  BY <1>2, EmptySeq
  DEF IInv, RuntimeError, WindowsInv, PendingInv, RestInv, CacheInv, Running, store

\* What a Call does to the frames, frame by frame.
LEMMA CallFrames ==
    ASSUME IInv, NEW n \in Nat, Call(n)
    PROVE  /\ Running /\ n = Arity[Top(n).f] /\ Top(n).f \in Fn
           /\ Len(stack) - n - 1 \in Nat
           /\ Base(Len(frames)) <= Len(stack) - n - 1
           /\ Len(frames) + 1 <= MaxFrames
           /\ frames' \in Seq(Frame) /\ Len(frames') = Len(frames) + 1
           /\ \A i \in 1..Len(frames) :
                /\ frames'[i].slots = frames[i].slots /\ frames'[i].fn = frames[i].fn
                /\ frames'[i].ip = IF i = Len(frames) THEN ip + 1 ELSE frames[i].ip
           /\ frames'[Len(frames) + 1] =
                [fn |-> Top(n).f, ip |-> 0, slots |-> Len(stack) - n - 1]
<1>. DEFINE len == Len(frames)
            e == [frames[len] EXCEPT !.ip = ip + 1]
            saved == [frames EXCEPT ![len] = e]
            new == [fn |-> Top(n).f, ip |-> 0, slots |-> Len(stack) - n - 1]
<1>1. Running /\ n = Arity[Top(n).f] /\ Top(n).type = "function" /\ Operands(n + 1)
      /\ len # MaxFrames /\ frames' = Append(saved, new)
  BY DEF Call
<1>2. Top(n).f \in Fn
  BY <1>1, OperandIsValue, ValueFacts
<1>3. Len(stack) - n - 1 \in Nat /\ Base(len) <= Len(stack) - n - 1
  <2>. DEFINE base == Frame_.slots
              arity == Arity[Frame_.fn]
              top == Len(stack)
  <2>1. base \in Nat /\ arity \in Nat /\ top \in Nat /\ top - (base + 1 + arity) >= n + 1
    BY <1>1, FrameFacts DEF Operands
  <2>2. top - n - 1 \in Nat /\ base + 1 + arity <= top - n - 1
    <3>. HIDE DEF base, arity, top
    <3>. QED
      BY <2>1
  <2>. QED
    BY <1>1, <2>2, FrameFacts DEF Base
<1>4. len \in 1..MaxFrames /\ frames[len] \in Frame /\ len + 1 <= MaxFrames
  BY <1>1, FrameFacts, ConstantFacts
<1>5. ip + 1 \in 0..MaxIp
  BY ConstantFacts DEF Call, IInv, TypeOK
<1>6. e \in Frame /\ e.slots = frames[len].slots /\ e.fn = frames[len].fn /\ e.ip = ip + 1
  BY <1>4, <1>5 DEF Frame
<1>7. new \in Frame
  BY <1>2, <1>3, ConstantFacts DEF Frame
<1>. HIDE DEF e, new
<1>8. /\ saved \in Seq(Frame) /\ Len(saved) = len
      /\ \A i \in 1..len : saved[i] = IF i = len THEN e ELSE frames[i]
  BY <1>4, <1>6, ExceptSeq DEF IInv, TypeOK
<1>. HIDE DEF saved
<1>9. /\ frames' \in Seq(Frame) /\ Len(frames') = len + 1
      /\ \A i \in 1..len : frames'[i] = saved[i]
      /\ frames'[len + 1] = new
  BY <1>1, <1>7, <1>8, AppendProperties
<1>10. \A i \in 1..len :
         /\ frames'[i].slots = frames[i].slots /\ frames'[i].fn = frames[i].fn
         /\ frames'[i].ip = IF i = len THEN ip + 1 ELSE frames[i].ip
  BY <1>6, <1>8, <1>9
<1>. QED
  BY <1>1, <1>2, <1>3, <1>4, <1>9, <1>10 DEF new

\* A call starts at most FrameSlots - 1 values above its caller.
LEMMA CallWindows ==
    ASSUME IInv, NEW n \in Nat, Call(n)
    PROVE  WindowsInv'
<1>. DEFINE len == Len(frames)
            new == Len(stack) - n - 1
<1>1. /\ Running /\ Running' /\ stack' = stack /\ n = Arity[Top(n).f]
      /\ new \in Nat /\ Base(len) <= new
      /\ Len(frames') = len + 1 /\ len \in Nat /\ len >= 1
      /\ \A i \in 1..len : frames'[i].slots = frames[i].slots /\ frames'[i].fn = frames[i].fn
      /\ frames'[len + 1].slots = new /\ frames'[len + 1].fn = Top(n).f
  <2>1. Running /\ status' = status /\ stack' = stack
    BY DEF Call
  <2>2. Running' /\ len \in Nat /\ len >= 1
    BY <2>1, FrameFacts DEF Running
  <2>3. frames'[len + 1].slots = new /\ frames'[len + 1].fn = Top(n).f
    <3>1. frames'[len + 1] = [fn |-> Top(n).f, ip |-> 0, slots |-> new]
      BY CallFrames
    <3>. QED
      BY <3>1
  <2>4. /\ n = Arity[Top(n).f] /\ new \in Nat /\ Base(len) <= new
        /\ Len(frames') = len + 1
        /\ \A i \in 1..len : frames'[i].slots = frames[i].slots /\ frames'[i].fn = frames[i].fn
    BY CallFrames
  <2>. QED
    BY <2>1, <2>2, <2>3, <2>4
<1>2. \A i \in 1..len : frames[i].slots \in Nat /\ Arity[frames[i].fn] \in Nat /\ Base(i) \in Nat
  <2>. TAKE i \in 1..len
  <2>1. frames[i] \in Frame
    BY ElementOfSeq DEF IInv, TypeOK
  <2>2. frames[i].slots \in Nat /\ Arity[frames[i].fn] \in Nat
    BY <2>1, ConstantFacts DEF Frame
  <2>. QED
    BY <2>2 DEF Base
<1>3. new <= len * (FrameSlots - 1)
  <2>. DEFINE base == frames[len].slots
              m == FrameSlots - 1
  <2>1. base \in Nat /\ base <= (len - 1) * m /\ m \in Nat /\ new <= base + m
    <3>1. Len(stack) <= base + FrameSlots /\ Len(stack) \in Nat /\ base \in Nat
      BY <1>1, FrameFacts
    <3>2. base <= (len - 1) * m
      BY <1>1 DEF IInv, WindowsInv
    <3>. HIDE DEF base
    <3>. QED
      BY <3>1, <3>2, ConstantFacts
  <2>2. (len - 1) * m \in Nat /\ len * m = (len - 1) * m + m
    <3>. HIDE DEF m
    <3>1. len - 1 \in Nat /\ len = (len - 1) + 1
      BY <1>1
    <3>. QED
      BY <2>1, <3>1, Products
  <2>. HIDE DEF base, m
  <2>3. new <= len * m
    BY <1>1, <2>1, <2>2
  <2>. QED
    BY <2>3 DEF m
<1>4. \A i \in 1..Len(frames') : frames'[i].slots <= (i - 1) * (FrameSlots - 1)
  <2>. SUFFICES ASSUME NEW i \in 1..(len + 1)
                PROVE  frames'[i].slots <= (i - 1) * (FrameSlots - 1)
    BY <1>1
  <2>1. CASE i = len + 1
    <3>1. i - 1 = len
      BY <1>1, <2>1
    <3>. QED
      BY <1>1, <1>3, <2>1, <3>1
  <2>2. CASE i \in 1..len
    BY <1>1, <2>2 DEF IInv, WindowsInv
  <2>. QED
    BY <1>1, <2>1, <2>2
<1>5. \A i, j \in 1..Len(frames') : i < j => Base(i)' <= frames'[j].slots
  <2>. SUFFICES ASSUME NEW i \in 1..(len + 1), NEW j \in 1..(len + 1), i < j
                PROVE  Base(i)' <= frames'[j].slots
    BY <1>1
  <2>1. i \in 1..len /\ Base(i)' = Base(i)
    BY <1>1 DEF Base
  <2>2. CASE j \in 1..len
    BY <1>1, <2>1, <2>2 DEF IInv, WindowsInv
  <2>3. CASE j = len + 1
    <3>1. i = len \/ (i < len /\ Base(i) <= frames[len].slots)
      BY <1>1, <2>1 DEF IInv, WindowsInv
    <3>2. frames[len].slots <= Base(len)
      BY <1>1, <1>2, ElementOfSeq, ConstantFacts DEF Base
    <3>. QED
      BY <1>1, <1>2, <2>1, <2>3, <3>1, <3>2
  <2>. QED
    BY <1>1, <2>2, <2>3
<1>6. Base(Len(frames))' <= Len(stack') /\ Len(stack') <= new + FrameSlots
  <2>1. Base(Len(frames))' = new + 1 + n
    BY <1>1 DEF Base
  <2>2. /\ Len(stack) \in Nat /\ frames[len].slots \in Nat /\ frames[len].slots <= new
        /\ Len(stack) <= frames[len].slots + FrameSlots
    BY <1>1, <1>2, FrameFacts, ConstantFacts DEF Base
  <2>. QED
    BY <1>1, <2>1, <2>2, ConstantFacts
<1>7. \A i \in 1..(Len(frames') - 1) : frames'[i + 1].slots < frames'[i].slots + FrameSlots
  <2>. SUFFICES ASSUME NEW i \in 1..len
                PROVE  frames'[i + 1].slots < frames'[i].slots + FrameSlots
    BY <1>1
  <2>1. CASE i = len
    <3>1. /\ Len(stack) <= frames[len].slots + FrameSlots /\ Len(stack) \in Nat
          /\ frames[len].slots \in Nat
      BY <1>1, FrameFacts
    <3>2. new < frames[len].slots + FrameSlots
      BY <3>1, ConstantFacts
    <3>. QED
      BY <1>1, <2>1, <3>2
  <2>2. CASE i # len
    <3>1. i \in 1..(len - 1) /\ i + 1 \in 1..len
      BY <1>1, <2>2
    <3>2. frames[i + 1].slots < frames[i].slots + FrameSlots
      BY <1>1, <3>1 DEF IInv, WindowsInv
    <3>. QED
      BY <1>1, <3>1, <3>2
  <2>. QED
    BY <2>1, <2>2
<1>. QED
  BY <1>1, <1>4, <1>5, <1>6, <1>7 DEF WindowsInv, Frame_, Last

LEMMA CallPending ==
    ASSUME IInv, NEW n \in Nat, Call(n)
    PROVE  PendingInv' /\ pending' \in Seq([ip : 1..MaxIp, below : Seq(Value)])
<1>. DEFINE len == Len(frames)
            k == Len(stack) - n - 1
            entry == [ip |-> ip + 1, below |-> Popped(n + 1)]
<1>1. Running /\ Running' /\ stack' = stack /\ pending' = Append(pending, entry)
  BY DEF Call, Running
<1>2. /\ len \in Nat /\ len >= 1 /\ Len(pending) = len - 1
      /\ pending \in Seq([ip : 1..MaxIp, below : Seq(Value)])
      /\ stack \in Seq(Value) /\ Len(stack) \in Nat
  BY <1>1, FrameFacts DEF IInv, PendingInv, TypeOK
<1>3. k \in Nat /\ Len(frames') = len + 1
  BY CallFrames
<1>4. frames'[len + 1].slots = k /\ frames'[len].ip = ip + 1
  <2>1. frames'[len + 1] = [fn |-> Top(n).f, ip |-> 0, slots |-> k]
    BY CallFrames
  <2>2. len \in 1..len
    BY <1>2
  <2>. QED
    BY <2>1, <2>2, CallFrames
<1>5. /\ Popped(n + 1) \in Seq(Value) /\ Len(Popped(n + 1)) = k
      /\ \A j \in 1..k : Popped(n + 1)[j] = stack[j]
  <2>1. n + 1 \in 0..Len(stack) /\ Len(stack) - (n + 1) = k
    BY <1>2, <1>3
  <2>. QED
    BY <1>2, <2>1, PopThenPush DEF Popped
<1>6. ip + 1 \in 1..MaxIp
  BY ConstantFacts DEF Call, IInv, TypeOK
<1>7. entry \in [ip : 1..MaxIp, below : Seq(Value)] /\ entry.ip = ip + 1 /\ entry.below = Popped(n + 1)
  BY <1>5, <1>6
<1>. HIDE DEF entry
<1>8. /\ pending' \in Seq([ip : 1..MaxIp, below : Seq(Value)])
      /\ Len(pending') = len
      /\ \A i \in 1..(len - 1) : pending'[i] = pending[i]
      /\ pending'[len] = entry
  <2>1. /\ pending' \in Seq([ip : 1..MaxIp, below : Seq(Value)])
        /\ Len(pending') = Len(pending) + 1
        /\ \A i \in 1..Len(pending) : pending'[i] = pending[i]
        /\ pending'[Len(pending) + 1] = entry
    BY <1>1, <1>2, <1>7, AppendProperties
  <2>2. Len(pending) + 1 = len
    BY <1>2
  <2>. QED
    BY <1>2, <2>1, <2>2
<1>9. ASSUME NEW i \in 1..len
      PROVE  /\ pending'[i].ip = frames'[i].ip
             /\ Len(pending'[i].below) = frames'[i + 1].slots
             /\ \A j \in 1..frames'[i + 1].slots : pending'[i].below[j] = stack'[j]
  <2>1. CASE i = len
    BY <1>1, <1>4, <1>5, <1>7, <1>8, <2>1
  <2>2. CASE i # len
    <3>1. i \in 1..(len - 1) /\ i \in 1..len /\ i + 1 \in 1..len
      BY <1>2, <2>2
    <3>2. /\ pending[i].ip = frames[i].ip
          /\ Len(pending[i].below) = frames[i + 1].slots
          /\ \A j \in 1..frames[i + 1].slots : pending[i].below[j] = stack[j]
      BY <1>1, <1>2, <3>1 DEF IInv, PendingInv
    <3>3. frames'[i].ip = frames[i].ip /\ frames'[i + 1].slots = frames[i + 1].slots
      BY <2>2, <3>1, CallFrames
    <3>. QED
      BY <1>1, <1>8, <3>1, <3>2, <3>3
  <2>. QED
    BY <2>1, <2>2
<1>10. Len(pending') = Len(frames') - 1
  BY <1>2, <1>3, <1>8
<1>11. PendingInv'
  <2>. SUFFICES ASSUME NEW i \in 1..Len(pending')
                PROVE  /\ pending'[i].ip = frames'[i].ip
                       /\ Len(pending'[i].below) = frames'[i + 1].slots
                       /\ \A j \in 1..frames'[i + 1].slots : pending'[i].below[j] = stack'[j]
    BY <1>10 DEF PendingInv
  <2>. QED
    BY <1>8, <1>9
<1>. QED
  BY <1>8, <1>11

LEMMA CallIInv ==
    ASSUME IInv, NEW n \in Nat, Call(n)
    PROVE  IInv'
<1>1. frames' \in Seq(Frame) /\ Len(frames') <= MaxFrames
  BY CallFrames
<1>2. /\ status' = status /\ stack' = stack /\ ip' = 0 /\ UNCHANGED store
      /\ lastResult' = lastResult /\ trace' = trace
  BY DEF Call
<1>3. TypeOK'
  <2>1. pending' \in Seq([ip : 1..MaxIp, below : Seq(Value)])
    BY CallPending
  <2>2. 0 \in 0..MaxIp
    BY ConstantFacts
  <2>. QED
    BY <1>1, <1>2, <2>1, <2>2 DEF IInv, TypeOK, store
<1>4. RestInv' /\ CacheInv'
  <2>1. Running'
    BY <1>2, CallFrames DEF Running
  <2>2. CacheInv
    BY DEF IInv
  <2>. QED
    BY <1>2, <2>1, <2>2 DEF RestInv, CacheInv, store
<1>5. WindowsInv' /\ PendingInv'
  BY CallWindows, CallPending
<1>. QED
  BY <1>3, <1>4, <1>5 DEF IInv
-----------------------------------------------------------------------------
\* Dropping the last of a sequence.
LEMMA FrontOfSeq ==
    ASSUME NEW S, NEW s \in Seq(S), Len(s) >= 1
    PROVE  /\ Front(s) \in Seq(S) /\ Len(Front(s)) = Len(s) - 1
           /\ \A i \in 1..(Len(s) - 1) : Front(s)[i] = s[i]
<1>1. \A i \in 1..(Len(s) - 1) : s[i] \in S
  BY ElementOfSeq
<1>2. Len(s) - 1 \in Nat
  BY LenProperties
<1>. DEFINE n == Len(s) - 1
<1>3. Len(SubSeq(s, 1, n)) = IF 1 <= n THEN n - 1 + 1 ELSE 0
  BY <1>1, <1>2, SubSeqProperties
<1>4. /\ SubSeq(s, 1, n) \in Seq(S)
      /\ \A i \in 1..(n - 1 + 1) : SubSeq(s, 1, n)[i] = s[1 + i - 1]
  BY <1>1, <1>2, SubSeqProperties
<1>. HIDE DEF n
<1>5. n \in Nat
  BY <1>2 DEF n
<1>6. /\ SubSeq(s, 1, n) \in Seq(S) /\ Len(SubSeq(s, 1, n)) = n
      /\ \A i \in 1..n : SubSeq(s, 1, n)[i] = s[i]
  BY <1>3, <1>4, <1>5
<1>. QED
  BY <1>6 DEF Front, n

\* What a Return finds: the caller's frame and what the history says of it.
LEMMA ReturnFacts ==
    ASSUME IInv, Return
    PROVE  /\ Running /\ Len(frames) \in Nat /\ Len(frames) >= 2
           /\ frames' \in Seq(Frame) /\ Len(frames') = Len(frames) - 1
           /\ \A i \in 1..(Len(frames) - 1) : frames'[i] = frames[i]
           /\ Len(pending) = Len(frames) - 1
           /\ pending' \in Seq([ip : 1..MaxIp, below : Seq(Value)])
           /\ Len(pending') = Len(pending) - 1
           /\ \A i \in 1..(Len(pending) - 1) : pending'[i] = pending[i]
           /\ Top(0) \in Value
           /\ Frame_.slots \in Nat /\ Frame_.slots <= Len(stack)
           /\ stack' \in Seq(Value) /\ Len(stack') = Frame_.slots + 1
           /\ \A j \in 1..Frame_.slots : stack'[j] = stack[j]
           /\ stack' = Append(SubSeq(stack, 1, Frame_.slots), Top(0))
           /\ ip' = frames[Len(frames) - 1].ip
<1>1. /\ Running /\ Operands(1) /\ Len(frames) > 1
      /\ frames' = Front(frames) /\ pending' = Front(pending)
      /\ stack' = Append(SubSeq(stack, 1, Frame_.slots), Top(0))
      /\ ip' = Last(frames').ip
  BY DEF Return
<1>2. Len(frames) \in Nat /\ Len(frames) >= 2 /\ Len(pending) = Len(frames) - 1
  BY <1>1, FrameFacts DEF IInv, PendingInv
<1>3. /\ frames' \in Seq(Frame) /\ Len(frames') = Len(frames) - 1
      /\ \A i \in 1..(Len(frames) - 1) : frames'[i] = frames[i]
  <2>1. frames \in Seq(Frame) /\ Len(frames) >= 1
    BY <1>2 DEF IInv, TypeOK
  <2>2. frames' = Front(frames)
    BY <1>1
  <2>. QED
    BY <2>1, <2>2, FrontOfSeq
<1>4. /\ pending' \in Seq([ip : 1..MaxIp, below : Seq(Value)])
      /\ Len(pending') = Len(pending) - 1
      /\ \A i \in 1..(Len(pending) - 1) : pending'[i] = pending[i]
  <2>1. Len(pending) >= 1 /\ pending \in Seq([ip : 1..MaxIp, below : Seq(Value)])
    BY <1>2 DEF IInv, TypeOK
  <2>2. pending' = Front(pending)
    BY <1>1
  <2>. QED
    BY <2>1, <2>2, FrontOfSeq
<1>5. Top(0) \in Value
  BY <1>1, OperandsAreValues
<1>6. Frame_.slots \in Nat /\ Frame_.slots <= Len(stack) /\ Len(stack) \in Nat
  BY <1>1, FrameFacts
<1>7. /\ stack' \in Seq(Value) /\ Len(stack') = Frame_.slots + 1
      /\ \A j \in 1..Frame_.slots : stack'[j] = stack[j]
  <2>. DEFINE n == Len(stack) - Frame_.slots
  <2>1. n \in 0..Len(stack) /\ Len(stack) - n = Frame_.slots
    BY <1>6
  <2>2. stack \in Seq(Value)
    BY DEF IInv, TypeOK
  <2>. HIDE DEF n
  <2>. QED
    BY <1>1, <1>5, <2>1, <2>2, PopThenPush
<1>8. ip' = frames[Len(frames) - 1].ip
  <2>1. Len(frames) - 1 \in 1..(Len(frames) - 1)
    BY <1>2
  <2>. QED
    BY <1>1, <1>3, <2>1 DEF Last
<1>. QED
  BY <1>1, <1>2, <1>3, <1>4, <1>5, <1>6, <1>7, <1>8

LEMMA ReturnIInv ==
    ASSUME IInv, Return
    PROVE  IInv'
<1>. DEFINE len == Len(frames)
<1>1. /\ status' = status /\ Running /\ Running' /\ UNCHANGED store
      /\ lastResult' = lastResult /\ trace' = trace
  BY DEF Return, Running
<1>2. len \in Nat /\ len >= 2 /\ len - 1 \in 1..len /\ len - 1 \in 1..(len - 1)
  BY ReturnFacts
<1>3. \A i \in 1..len : /\ frames[i] \in Frame /\ frames[i].slots \in Nat
                        /\ frames[i].ip \in 0..MaxIp /\ Arity[frames[i].fn] \in Nat
  <2>. TAKE i \in 1..len
  <2>1. frames[i] \in Frame
    BY ElementOfSeq DEF IInv, TypeOK
  <2>. QED
    BY <2>1, ConstantFacts DEF Frame
<1>4. TypeOK'
  <2>1. Len(frames') <= MaxFrames
    <3>1. Len(frames') = len - 1 /\ len <= MaxFrames
      BY ReturnFacts DEF IInv, TypeOK
    <3>. QED
      BY <1>2, <3>1, ConstantFacts
  <2>2. ip' \in 0..MaxIp
    BY <1>2, <1>3, ReturnFacts
  <2>. QED
    BY <1>1, <2>1, <2>2, ReturnFacts DEF IInv, TypeOK, store
<1>5. WindowsInv'
  <2>1. \A i \in 1..(len - 1) : frames'[i] = frames[i] /\ Base(i)' = Base(i) /\ i \in 1..len
    BY <1>2, ReturnFacts DEF Base
  <2>2. Len(frames') = len - 1
    BY ReturnFacts
  <2>3. \A i \in 1..Len(frames') : frames'[i].slots <= (i - 1) * (FrameSlots - 1)
    BY <1>1, <2>1, <2>2 DEF IInv, WindowsInv
  <2>4. \A i, j \in 1..Len(frames') : i < j => Base(i)' <= frames'[j].slots
    BY <1>1, <2>1, <2>2 DEF IInv, WindowsInv
  <2>5. Base(len - 1) <= Frame_.slots /\ Frame_.slots = frames[len].slots
    <3>1. len - 1 < len /\ len \in 1..len
      BY <1>2
    <3>2. Base(len - 1) <= frames[len].slots
      BY <1>1, <1>2, <3>1 DEF IInv, WindowsInv
    <3>. QED
      BY <1>1, <3>2, FrameFacts
  <2>6. frames'[len - 1].slots + 1 + Arity[frames'[len - 1].fn] <= Len(stack')
    <3>1. /\ frames'[len - 1].slots + 1 + Arity[frames'[len - 1].fn] = Base(len - 1)
          /\ Base(len - 1) \in Nat
      BY <1>2, <1>3, <2>1 DEF Base
    <3>2. Len(stack') = Frame_.slots + 1 /\ Frame_.slots \in Nat
      BY ReturnFacts
    <3>. QED
      BY <2>5, <3>1, <3>2
  <2>7. Frame_.slots + 1 <= frames[len - 1].slots + FrameSlots
    <3>1. (len - 1) + 1 = len
      BY <1>2
    <3>2. frames[(len - 1) + 1].slots < frames[len - 1].slots + FrameSlots
      BY <1>1, <1>2 DEF IInv, WindowsInv
    <3>3. Frame_.slots < frames[len - 1].slots + FrameSlots
      BY <2>5, <3>1, <3>2
    <3>. QED
      BY <1>2, <1>3, <2>5, <3>3, ConstantFacts
  <2>8. Len(stack') <= Frame_'.slots + FrameSlots
    BY <1>2, <2>1, <2>2, <2>7, ReturnFacts DEF Frame_, Last
  <2>9. \A i \in 1..(Len(frames') - 1) : frames'[i + 1].slots < frames'[i].slots + FrameSlots
    <3>. SUFFICES ASSUME NEW i \in 1..(len - 2)
                  PROVE  frames'[i + 1].slots < frames'[i].slots + FrameSlots
      BY <1>2, <2>2
    <3>1. i \in 1..(len - 1) /\ i + 1 \in 1..(len - 1)
      BY <1>2
    <3>2. frames[i + 1].slots < frames[i].slots + FrameSlots
      BY <1>1, <3>1 DEF IInv, WindowsInv
    <3>. QED
      BY <2>1, <3>1, <3>2
  <2>10. Len(frames') >= 1
    BY <1>2, <2>2
  <2>11. Base(Len(frames))' <= Len(stack')
    BY <2>2, <2>6 DEF Base
  <2>. QED
    BY <2>3, <2>4, <2>8, <2>9, <2>10, <2>11 DEF WindowsInv
<1>6. PendingInv'
  <2>1. /\ Len(pending') = len - 2 /\ Len(frames') = len - 1 /\ Len(pending) = len - 1
        /\ \A i \in 1..(len - 2) : pending'[i] = pending[i]
        /\ \A i \in 1..(len - 1) : frames'[i] = frames[i]
    <3>1. /\ Len(pending') = Len(pending) - 1 /\ Len(pending) = len - 1 /\ Len(frames') = len - 1
          /\ \A i \in 1..(Len(pending) - 1) : pending'[i] = pending[i]
          /\ \A i \in 1..(len - 1) : frames'[i] = frames[i]
      BY ReturnFacts
    <3>2. Len(pending) - 1 = len - 2
      BY <1>2, <3>1
    <3>. QED
      BY <3>1, <3>2
  <2>. SUFFICES ASSUME NEW i \in 1..(len - 2)
                PROVE  /\ pending'[i].ip = frames'[i].ip
                       /\ Len(pending'[i].below) = frames'[i + 1].slots
                       /\ \A j \in 1..frames'[i + 1].slots : pending'[i].below[j] = stack'[j]
    <3>1. Len(pending') = Len(frames') - 1
      BY <1>2, <2>1
    <3>. QED
      BY <2>1, <3>1 DEF PendingInv
  <2>2. i \in 1..(len - 1) /\ i + 1 \in 1..(len - 1) /\ i + 1 \in 1..len /\ i + 1 < len /\ len \in 1..len
    BY <1>2
  <2>3. /\ pending[i].ip = frames[i].ip
        /\ Len(pending[i].below) = frames[i + 1].slots
        /\ \A j \in 1..frames[i + 1].slots : pending[i].below[j] = stack[j]
    BY <1>1, <2>1, <2>2 DEF IInv, PendingInv
  <2>4. \A j \in 1..frames[i + 1].slots : j \in 1..Frame_.slots
    <3>1. Base(i + 1) <= frames[len].slots
      BY <1>1, <2>2 DEF IInv, WindowsInv
    <3>2. frames[i + 1].slots <= Frame_.slots /\ Frame_.slots \in Nat
      <4>1. frames[i + 1].slots + 1 + Arity[frames[i + 1].fn] <= Frame_.slots
        BY <1>1, <3>1, FrameFacts DEF Base
      <4>2. Frame_.slots \in Nat
        BY ReturnFacts
      <4>3. frames[i + 1].slots \in Nat /\ Arity[frames[i + 1].fn] \in Nat
        BY <1>3, <2>2
      <4>. QED
        BY <4>1, <4>2, <4>3
    <3>. QED
      BY <1>3, <2>2, <3>2
  <2>. QED
    BY <2>1, <2>2, <2>3, <2>4, ReturnFacts
<1>7. RestInv' /\ CacheInv'
  <2>1. CacheInv
    BY DEF IInv
  <2>. QED
    BY <1>1, <2>1 DEF RestInv, CacheInv, store
<1>. QED
  BY <1>4, <1>5, <1>6, <1>7 DEF IInv
-----------------------------------------------------------------------------
LEMMA ReturnFromScriptIInv ==
    ASSUME IInv, ReturnFromScript
    PROVE  IInv'
<1>1. /\ Running /\ Operands(1) /\ Len(frames) = 1
      /\ status' = "ok" /\ frames' = <<>> /\ lastResult' = Top(0) /\ stack' = <<Top(0)>>
      /\ ip' = ip /\ pending' = pending /\ trace' = trace /\ UNCHANGED store
  BY DEF ReturnFromScript
<1>2. Top(0) \in Value
  BY <1>1, OperandsAreValues
<1>3. stack' \in Seq(Value) /\ Len(stack') = 1
  BY <1>1, <1>2
<1>4. TypeOK'
  BY <1>1, <1>2, <1>3, ConstantFacts, EmptySeq DEF IInv, TypeOK, store
<1>5. pending = <<>>
  BY <1>1, EmptySeq DEF IInv, PendingInv, TypeOK
<1>6. CacheInv'
  BY <1>1 DEF IInv, CacheInv, store
<1>. QED
  BY <1>1, <1>3, <1>4, <1>5, <1>6 DEF IInv, WindowsInv, PendingInv, RestInv, Running

LEMMA InterpretIInv ==
    ASSUME IInv, NEW f \in Fn, Interpret(f)
    PROVE  IInv'
<1>. DEFINE e == [fn |-> f, ip |-> 0, slots |-> 0]
<1>1. /\ Arity[f] = 0 /\ status' = "running" /\ stack' = <<FnValue(f)>> /\ frames' = <<e>>
      /\ ip' = 0 /\ pending' = <<>> /\ lastResult' = Nil /\ trace' = <<>> /\ UNCHANGED store
  BY DEF Interpret
<1>2. e \in Frame /\ e.fn = f /\ e.slots = 0
  BY ConstantFacts DEF Frame
<1>. HIDE DEF e
<1>3. frames' \in Seq(Frame) /\ Len(frames') = 1 /\ frames'[1] = e
  BY <1>1, <1>2
<1>4. stack' \in Seq(Value) /\ Len(stack') = 1
  BY <1>1, ValueFacts
<1>5. TypeOK'
  BY <1>1, <1>3, <1>4, ConstantFacts, ValueFacts, EmptySeq DEF IInv, TypeOK, store
<1>6. WindowsInv'
  <2>1. \A i \in 1..1 : i = 1
    OBVIOUS
  <2>2. \A i \in 1..1 : frames'[i].slots <= (i - 1) * (FrameSlots - 1)
    BY <1>2, <1>3, <2>1, ConstantFacts
  <2>3. Base(1)' = 1
    BY <1>1, <1>2, <1>3 DEF Base
  <2>4. Len(stack') <= frames'[1].slots + FrameSlots
    BY <1>2, <1>3, <1>4, ConstantFacts
  <2>. QED
    BY <1>3, <1>4, <2>1, <2>2, <2>3, <2>4 DEF WindowsInv, Frame_, Last
<1>7. CacheInv'
  BY <1>1 DEF IInv, CacheInv, store
<1>. QED
  BY <1>1, <1>3, <1>5, <1>6, <1>7 DEF IInv, PendingInv, RestInv, Running

LEMMA SetArgsIInv ==
    ASSUME IInv, NEW v \in Value, NEW n \in ArgNames, SetArgs(v, n)
    PROVE  IInv'
<1>1. /\ ~Running /\ UNCHANGED <<status, registers, cache, lastResult, trace>>
      /\ globals' = [m \in DOMAIN globals \cup ArgNames |->
                       IF m \in ArgNames THEN (IF m = n THEN v ELSE Object) ELSE globals[m]]
      /\ version' = version + Cardinality(ArgNames \ DOMAIN globals)
  BY DEF SetArgs
<1>2. DOMAIN globals' = DOMAIN globals \cup ArgNames /\ DOMAIN globals' \subseteq Name
  BY <1>1, ConstantFacts DEF IInv, TypeOK
<1>3. globals' \in [DOMAIN globals' -> Value]
  BY <1>1, <1>2, ValueFacts DEF IInv, TypeOK
<1>4. version' \in Nat
  <2>1. IsFiniteSet(ArgNames \ DOMAIN globals)
    BY ConstantFacts, FS_Difference
  <2>2. Cardinality(ArgNames \ DOMAIN globals) \in Nat
    BY <2>1, FS_CardinalityType
  <2>. QED
    BY <1>1, <2>2 DEF IInv, TypeOK
<1>5. TypeOK'
  BY <1>1, <1>2, <1>3, <1>4 DEF IInv, TypeOK, registers
<1>6. CacheInv'
  BY <1>1, <1>2 DEF IInv, CacheInv
<1>. QED
  BY <1>1, <1>5, <1>6 DEF IInv, WindowsInv, PendingInv, RestInv, Running, registers

THEOREM NextIInv ==
    ASSUME IInv, [Next]_vars
    PROVE  IInv'
<1>1. ASSUME Running, Data PROVE IInv'
  <2>1. StoreInv
    BY DEF IInv, TypeOK, StoreInv
  <2>. QED
    BY <1>1, <2>1, DataStaysWithin, SameStore, WithinCallIInv, ErrorIInv
<1>2. ASSUME Running, Globals PROVE IInv'
  BY <1>2, GlobalsStayWithin, WithinCallIInv, ErrorIInv
<1>3. ASSUME Running, Control PROVE IInv'
  <2>. StoreInv
    BY DEF IInv, TypeOK, StoreInv
  <2>1. ASSUME Jump PROVE IInv'
    <3>1. WithinCall /\ UNCHANGED store
      BY <1>3, <2>1, SameWithinCall DEF Jump, WithinCall
    <3>. QED
      BY <3>1, SameStore, WithinCallIInv
  <2>2. ASSUME JumpIfFalse PROVE IInv'
    <3>1. CASE Step /\ UNCHANGED <<stack, store>>
      <4>1. WithinCall /\ UNCHANGED store
        BY <1>3, <3>1, SameWithinCall, StepWithinCall
      <4>. QED
        BY <4>1, SameStore, WithinCallIInv
    <3>. QED
      BY <2>1, <2>2, <3>1 DEF JumpIfFalse
  <2>3. ASSUME NEW n \in 0..FrameSlots, Call(n) PROVE IInv'
    BY <2>3, CallIInv, ConstantFacts
  <2>4. ASSUME NEW n \in 0..FrameSlots, CallFails(n) PROVE IInv'
    BY <2>4, ErrorIInv DEF CallFails
  <2>. QED
    BY <1>3, <2>1, <2>2, <2>3, <2>4, ReturnIInv, ReturnFromScriptIInv DEF Control
<1>4. ASSUME Api PROVE IInv'
  BY <1>4, SetArgsIInv DEF Api
<1>5. CASE UNCHANGED vars
  <2>1. TypeOK'
    BY <1>5 DEF vars, registers, store, IInv, TypeOK
  <2>2. WindowsInv'
    BY <1>5 DEF vars, registers, IInv, WindowsInv, Running, Base, Frame_, Last
  <2>3. PendingInv'
    BY <1>5 DEF vars, registers, IInv, PendingInv, Running
  <2>4. RestInv' /\ CacheInv'
    BY <1>5 DEF vars, registers, store, IInv, RestInv, CacheInv, Running
  <2>. QED
    BY <2>1, <2>2, <2>3, <2>4 DEF IInv
<1>. QED
  BY <1>1, <1>2, <1>3, <1>4, <1>5, InterpretIInv DEF Next
-----------------------------------------------------------------------------
\* IInv is an invariant of the machine.
THEOREM Invariance == Spec => []IInv
<1>. QED
  BY InitIInv, NextIInv, PTL DEF Spec

\* The registers keep their types and calls never nest deeper than MaxFrames.
THEOREM TypeCorrect == Spec => []TypeOK
<1>1. IInv => TypeOK
  BY DEF IInv
<1>. QED
  BY Invariance, <1>1, PTL

\* However calls nest, what they hold stays within the stack: the frame limit
\* is all the checking that balanced code needs.
THEOREM StackBounded == Spec => []StackInBounds
<1>1. ASSUME IInv PROVE StackInBounds
  <2>1. CASE ~Running
    <3>1. Len(stack) <= 1 /\ Len(stack) \in Nat
      BY <1>1, <2>1 DEF IInv, RestInv, TypeOK
    <3>2. 1 * 1 <= FrameSlots * MaxFrames
      <4>1. 1 * MaxFrames <= FrameSlots * MaxFrames
        BY ConstantFacts, Products
      <4>2. FrameSlots * MaxFrames \in Nat
        BY ConstantFacts, Products
      <4>. QED
        BY <4>1, <4>2, ConstantFacts
    <3>3. FrameSlots * MaxFrames \in Nat
      BY ConstantFacts, Products
    <3>. QED
      BY <3>1, <3>2, <3>3 DEF StackInBounds, StackMax
  <2>2. CASE Running
    <3>. DEFINE k == Len(frames) - 1
                m == FrameSlots - 1
    <3>1. k \in Nat /\ k + 1 <= MaxFrames /\ m \in Nat
      BY <1>1, <2>2, FrameFacts, ConstantFacts
    <3>2. Len(stack) \in Nat /\ Len(stack) <= k * m + FrameSlots
      <4>1. /\ Frame_.slots \in Nat /\ Len(stack) \in Nat
            /\ Len(stack) <= Frame_.slots + FrameSlots /\ Frame_.slots <= k * m
        BY <1>1, <2>2, FrameFacts DEF IInv, WindowsInv
      <4>2. k * m \in Nat
        BY <3>1, Products
      <4>. HIDE DEF k, m
      <4>. QED
        BY <4>1, <4>2, ConstantFacts
    <3>. HIDE DEF k
    <3>3. (k + 1) * FrameSlots <= MaxFrames * FrameSlots /\ (k + 1) * FrameSlots \in Nat
      BY <3>1, ConstantFacts, Products
    <3>4. k * m <= k * FrameSlots /\ k * m \in Nat /\ k * FrameSlots \in Nat
      <4>1. m * k <= FrameSlots * k
        BY <3>1, ConstantFacts, Products
      <4>. QED
        BY <3>1, <4>1, ConstantFacts, Products
    <3>5. (k + 1) * FrameSlots = k * FrameSlots + FrameSlots
      BY <3>1, ConstantFacts, Products
    <3>6. MaxFrames * FrameSlots = FrameSlots * MaxFrames /\ MaxFrames * FrameSlots \in Nat
      BY ConstantFacts, Products
    <3>. HIDE DEF m
    <3>. QED
      BY <3>2, <3>3, <3>4, <3>5, <3>6, ConstantFacts DEF StackInBounds, StackMax
  <2>. QED
    BY <2>1, <2>2
<1>. QED
  BY Invariance, <1>1, PTL

\* No instruction touches what the callers of the running call hold.
THEOREM CallersKept == Spec => []CallersAreUntouched
<1>1. ASSUME IInv PROVE CallersAreUntouched
  <2>1. pending \in Seq([ip : 1..MaxIp, below : Seq(Value)]) /\ stack \in Seq(Value)
    BY <1>1 DEF IInv, TypeOK
  <2>2. CASE ~Running
    <3>1. DOMAIN pending = {}
      BY <1>1, <2>2 DEF IInv, RestInv
    <3>. QED
      BY <3>1 DEF CallersAreUntouched
  <2>3. CASE Running
    <3>. SUFFICES ASSUME NEW i \in 1..Len(pending)
                  PROVE  /\ Len(pending[i].below) <= Len(stack)
                         /\ pending[i].below = SubSeq(stack, 1, Len(pending[i].below))
      BY <2>1, LenProperties DEF CallersAreUntouched
    <3>. DEFINE k == frames[i + 1].slots
    <3>1. Len(pending) = Len(frames) - 1 /\ Len(frames) \in Nat
      BY <1>1, <2>3, FrameFacts DEF IInv, PendingInv
    <3>2. i + 1 \in 1..Len(frames) /\ Len(frames) \in 1..Len(frames)
      BY <3>1
    <3>3. frames[i + 1] \in Frame
      BY <1>1, <3>2, ElementOfSeq DEF IInv, TypeOK
    <3>4. k \in Nat /\ Arity[frames[i + 1].fn] \in Nat
      BY <3>3, ConstantFacts DEF Frame
    <3>5. /\ pending[i].below \in Seq(Value) /\ Len(pending[i].below) = k
          /\ \A j \in 1..k : pending[i].below[j] = stack[j]
      <4>1. pending[i] \in [ip : 1..MaxIp, below : Seq(Value)]
        BY <2>1, ElementOfSeq
      <4>. QED
        BY <1>1, <2>3, <4>1 DEF IInv, PendingInv
    <3>6. k <= Len(stack) /\ Len(stack) \in Nat
      <4>1. i + 1 # Len(frames) => Base(i + 1) <= frames[Len(frames)].slots
        BY <1>1, <2>3, <3>1, <3>2 DEF IInv, WindowsInv
      <4>2. i + 1 # Len(frames) => k + 1 + Arity[frames[i + 1].fn] <= Frame_.slots
        BY <1>1, <2>3, <4>1, FrameFacts DEF Base
      <4>3. k <= Frame_.slots
        <5>1. CASE i + 1 = Len(frames)
          BY <1>1, <2>3, <3>4, <5>1, FrameFacts
        <5>2. CASE i + 1 # Len(frames)
          BY <1>1, <2>3, <3>4, <4>2, <5>2, FrameFacts
        <5>. QED
          BY <5>1, <5>2
      <4>. HIDE DEF k
      <4>. QED
        BY <1>1, <2>3, <3>4, <4>3, FrameFacts
    <3>. HIDE DEF k
    <3>7. \A j \in 1..k : j \in 1..Len(stack)
      BY <3>4, <3>6
    <3>8. \A j \in 1..k : stack[j] \in Value
      BY <2>1, <3>7, ElementOfSeq
    <3>9. /\ SubSeq(stack, 1, k) \in Seq(Value)
          /\ Len(SubSeq(stack, 1, k)) = k
          /\ \A j \in 1..k : SubSeq(stack, 1, k)[j] = stack[j]
      <4>1. Len(SubSeq(stack, 1, k)) = IF 1 <= k THEN k - 1 + 1 ELSE 0
        BY <3>4, <3>8, SubSeqProperties
      <4>2. /\ SubSeq(stack, 1, k) \in Seq(Value)
            /\ \A j \in 1..(k - 1 + 1) : SubSeq(stack, 1, k)[j] = stack[1 + j - 1]
        BY <3>4, <3>8, SubSeqProperties
      <4>. QED
        BY <3>4, <4>1, <4>2
    <3>10. pending[i].below = SubSeq(stack, 1, k)
      BY <3>5, <3>9, SeqEqual
    <3>. QED
      BY <3>5, <3>6, <3>10
  <2>. QED
    BY <2>2, <2>3
<1>. QED
  BY Invariance, <1>1, PTL

\* A caller gets back its own values with the result on top, and goes on right
\* behind the call.
THEOREM CallsBalanced == Spec => CallsReturnBalanced
<1>1. ASSUME IInv, Return
      PROVE  ip' = Last(pending).ip /\ stack' = Append(Last(pending).below, Top(0))
  <2>. DEFINE last == Len(pending)
              k == Frame_.slots
  <2>1. /\ Running /\ last = Len(frames) - 1 /\ Len(frames) \in Nat /\ Len(frames) >= 2
        /\ ip' = frames[Len(frames) - 1].ip /\ k \in Nat /\ k <= Len(stack)
        /\ stack' = Append(SubSeq(stack, 1, k), Top(0))
    BY <1>1, ReturnFacts
  <2>2. last \in 1..Len(pending) /\ last + 1 = Len(frames) /\ last = Len(frames) - 1
    BY <2>1
  <2>3. /\ pending[last].ip = frames[last].ip
        /\ Len(pending[last].below) = frames[last + 1].slots
        /\ \A j \in 1..frames[last + 1].slots : pending[last].below[j] = stack[j]
    BY <1>1, <2>1, <2>2 DEF IInv, PendingInv
  <2>4. frames[last + 1].slots = k
    BY <1>1, <2>1, <2>2, FrameFacts
  <2>5. pending[last].below \in Seq(Value)
    <3>1. pending[last] \in [ip : 1..MaxIp, below : Seq(Value)]
      BY <1>1, <2>2, ElementOfSeq DEF IInv, TypeOK
    <3>. QED
      BY <3>1
  <2>. DEFINE n == Len(stack) - k
  <2>6. /\ SubSeq(stack, 1, k) \in Seq(Value) /\ Len(SubSeq(stack, 1, k)) = k
        /\ \A j \in 1..k : SubSeq(stack, 1, k)[j] = stack[j]
    <3>1. n \in 0..Len(stack) /\ Len(stack) - n = k /\ stack \in Seq(Value)
      BY <1>1, <2>1 DEF IInv, TypeOK
    <3>. HIDE DEF n
    <3>. QED
      BY <3>1, PopThenPush
  <2>7. pending[last].below = SubSeq(stack, 1, k)
    BY <2>3, <2>4, <2>5, <2>6, SeqEqual
  <2>. QED
    BY <2>1, <2>2, <2>3, <2>7 DEF Last
<1>2. IInv /\ [Next]_vars =>
        [Return => /\ ip' = Last(pending).ip
                   /\ stack' = Append(Last(pending).below, Top(0))]_vars
  BY <1>1
<1>. QED
  BY Invariance, <1>2, PTL DEF Spec, CallsReturnBalanced

\* The trace of an error names the position of every call under way.
THEOREM TracesAreTrue == Spec => TraceIsTrue
<1>1. ASSUME IInv, [Next]_vars, status = "running", status' = "error"
      PROVE  RuntimeError
  <2>. Running
    BY <1>1 DEF Running
  <2>1. ASSUME Data PROVE RuntimeError
    BY <1>1, <2>1, DataStaysWithin DEF WithinCall
  <2>2. ASSUME Globals PROVE RuntimeError
    BY <1>1, <2>2, GlobalsStayWithin DEF WithinCall
  <2>3. ASSUME Control PROVE RuntimeError
    <3>1. ~Jump /\ ~JumpIfFalse /\ ~Return /\ ~ReturnFromScript
      BY <1>1 DEF Jump, JumpIfFalse, Step, Return, ReturnFromScript
    <3>2. ASSUME NEW n \in 0..FrameSlots PROVE ~Call(n)
      BY <1>1 DEF Call
    <3>3. ASSUME NEW n \in 0..FrameSlots, CallFails(n) PROVE RuntimeError
      BY <3>3 DEF CallFails
    <3>. QED
      BY <2>3, <3>1, <3>2, <3>3 DEF Control
  <2>4. ~Api /\ \A f \in Fn : ~Interpret(f)
    BY DEF Api, SetArgs, Interpret
  <2>5. ~UNCHANGED vars
    BY <1>1 DEF vars
  <2>. QED
    BY <1>1, <2>1, <2>2, <2>3, <2>4, <2>5 DEF Next
<1>2. ASSUME IInv, RuntimeError
      PROVE  trace' = Append([i \in DOMAIN pending |-> pending[i].ip], ip + 1)
  <2>1. Running /\ trace' = Append([i \in 1..(Len(frames) - 1) |-> frames[i].ip], ip + 1)
    BY <1>2 DEF RuntimeError
  <2>2. /\ Len(pending) = Len(frames) - 1
        /\ \A i \in 1..Len(pending) : pending[i].ip = frames[i].ip
    BY <1>2, <2>1 DEF IInv, PendingInv
  <2>3. DOMAIN pending = 1..Len(pending)
    BY <1>2, LenProperties DEF IInv, TypeOK
  <2>4. [i \in 1..(Len(frames) - 1) |-> frames[i].ip] = [i \in DOMAIN pending |-> pending[i].ip]
    BY <2>2, <2>3
  <2>. QED
    BY <2>1, <2>4
<1>3. IInv /\ [Next]_vars =>
        [status = "running" /\ status' = "error" =>
           trace' = Append([i \in DOMAIN pending |-> pending[i].ip], ip + 1)]_vars
  BY <1>1, <1>2
<1>. QED
  BY Invariance, <1>3, PTL DEF Spec, TraceIsTrue

\* The cache never shows: a global is read and assigned by its name.
THEOREM CacheInvisible == Spec => CacheIsTransparent
<1>1. ASSUME IInv, NEW n \in Name, CacheHit(n)
      PROVE  cache.slot = n /\ n \in DOMAIN globals
  BY <1>1 DEF CacheHit, IInv, CacheInv
<1>2. ASSUME IInv, NEW n \in Name, GetGlobal(n)
      PROVE  n \in DOMAIN globals /\ stack' = Append(stack, globals[n])
  BY <1>1, <1>2 DEF GetGlobal
<1>3. ASSUME IInv, NEW n \in Name, SetGlobal(n)
      PROVE  n \in DOMAIN globals /\ globals' = [globals EXCEPT ![n] = Top(0)]
  BY <1>1, <1>3 DEF SetGlobal
<1>4. IInv /\ [Next]_vars =>
        [\A n \in Name :
           /\ GetGlobal(n) => n \in DOMAIN globals /\ stack' = Append(stack, globals[n])
           /\ SetGlobal(n) => n \in DOMAIN globals /\ globals' = [globals EXCEPT ![n] = Top(0)]]_vars
  BY <1>2, <1>3
<1>. QED
  BY Invariance, <1>4, PTL DEF Spec, CacheIsTransparent
=============================================================================
