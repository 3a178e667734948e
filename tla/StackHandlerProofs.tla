------------------------- MODULE StackHandlerProofs -------------------------
(***************************************************************************)
(* STACKHANDLER's array implements BoundedStack, for every capacity and     *)
(* every element type.                                                     *)
(***************************************************************************)
EXTENDS StackHandler, SequenceTheorems, TLAPS

\* PUSH and POP keep the types.
LEMMA PushTypeOK ==
  ASSUME TypeOK, NEW x \in Info, Push(x)
  PROVE  STACK1' \in [BORNE -> Info] /\ PTR' \in 0..N /\ el' \in Info
BY StackAssumption DEF Push, TypeOK, FULL, BORNE

\* See PushTypeOK.
LEMMA PopTypeOK ==
  ASSUME TypeOK, Pop
  PROVE  STACK1' \in [BORNE -> Info] /\ PTR' \in 0..N /\ el' \in Info
BY StackAssumption DEF Pop, TypeOK, EMPTY, BORNE

\* The types hold in every state.
LEMMA StackTypeOK == Spec => []TypeOK
<1>1. Init => TypeOK
  BY StackAssumption DEF Init, TypeOK
<1>2. TypeOK /\ [Next]_vars => TypeOK'
  BY PushTypeOK, PopTypeOK DEF Next, vars, TypeOK
<1> QED BY <1>1, <1>2, PTL DEF Spec

\* The elements form a sequence, before and after a call.
LEMMA CellsAreSequence ==
  ASSUME NEW A \in [BORNE -> Info], NEW top \in 0..N
  PROVE  /\ [k \in 1..(N - top) |-> A[N + 1 - k]] \in Seq(Info)
         /\ Len([k \in 1..(N - top) |-> A[N + 1 - k]]) = N - top
<1>1. N - top \in Nat
  BY StackAssumption
<1>2. \A k \in 1..(N - top) : A[N + 1 - k] \in Info
  BY <1>1, StackAssumption DEF BORNE
<1> QED BY <1>1, <1>2, IsASeq, LenProperties

\* The cells in use, as a sequence.
LEMMA StackIsSequence ==
  ASSUME TypeOK
  PROVE  stack \in Seq(Info) /\ Len(stack) = N - PTR
BY CellsAreSequence DEF TypeOK, stack

\* A PUSH on the array is one on the sequence.
LEMMA PushStep ==
  ASSUME TypeOK, NEW x \in Info, Push(x)
  PROVE  stack' = Abstract!PUSH(stack, x)
<1>1. CASE FULL
  <2>1. stack' = stack
    BY <1>1 DEF Push, stack
  <2>2. Len(stack) = N
    BY <1>1, StackIsSequence, StackAssumption DEF FULL
  <2> QED BY <2>1, <2>2 DEF Abstract!PUSH, Abstract!FULL
<1>2. CASE ~FULL
  <2>1. Len(stack) # N
    BY <1>2, StackIsSequence, StackAssumption DEF FULL, TypeOK
  <2>2. stack' \in Seq(Info) /\ Len(stack') = N - PTR'
    BY PushTypeOK, CellsAreSequence DEF stack
  <2>3. Len(stack') = Len(stack) + 1
    BY <1>2, <2>2, StackIsSequence, StackAssumption DEF Push, TypeOK
  <2>4. ASSUME NEW k \in 1..Len(stack') PROVE stack'[k] = Append(stack, x)[k]
    <3>1. CASE k = Len(stack) + 1
      <4>1. k \in 1..(N - PTR') /\ N + 1 - k = PTR /\ PTR \in BORNE
        BY <1>2, <2>2, <3>1, StackIsSequence, StackAssumption DEF FULL, TypeOK, BORNE
      <4>2. stack'[k] = STACK1'[PTR]
        BY <4>1 DEF stack
      <4>3. STACK1'[PTR] = x
        BY <1>2, <4>1 DEF Push, TypeOK
      <4> QED BY <3>1, <4>2, <4>3, StackIsSequence, AppendProperties
    <3>2. CASE k \in 1..Len(stack)
      BY <1>2, <2>2, <2>3, <3>2, StackIsSequence, AppendProperties, StackAssumption
         DEF Push, stack, TypeOK, BORNE
    <3> QED BY <2>2, <2>3, <3>1, <3>2, StackIsSequence, LenProperties
  <2>5. stack' = Append(stack, x)
    BY <2>2, <2>3, <2>4, StackIsSequence, SeqEqual, AppendProperties
  <2> QED BY <2>1, <2>5 DEF Abstract!PUSH, Abstract!FULL
<1> QED BY <1>1, <1>2

\* A sequence without its last element.
LEMMA FrontOfSequence ==
  ASSUME NEW S, NEW s \in Seq(S), NEW n \in Nat, Len(s) = n + 1
  PROVE  LET rest == SubSeq(s, 1, Len(s) - 1)
         IN  /\ rest \in Seq(S) /\ Len(rest) = n
             /\ \A k \in 1..Len(rest) : rest[k] = s[k]
<1>1. \A k \in 1..n : s[k] \in S
  BY LenProperties
<1> DEFINE rest == SubSeq(s, 1, n)
<1>2. /\ rest \in Seq(S)
      /\ Len(rest) = IF 1 <= n THEN n - 1 + 1 ELSE 0
      /\ \A k \in 1..(n - 1 + 1) : rest[k] = s[1 + k - 1]
  BY <1>1, SubSeqProperties
<1>3. Len(s) - 1 = n
  OBVIOUS
<1> HIDE DEF rest
<1>4. Len(rest) = n
  <2>1. CASE n = 0
    BY <1>2, <2>1
  <2>2. CASE n >= 1
    BY <1>2, <2>2
  <2> QED BY <2>1, <2>2
<1>5. ASSUME NEW k \in 1..Len(rest) PROVE rest[k] = s[k]
  <2>1. k \in 1..(n - 1 + 1) /\ 1 + k - 1 = k
    BY <1>4
  <2> QED BY <1>2, <2>1
<1>6. rest = SubSeq(s, 1, Len(s) - 1)
  BY <1>3 DEF rest
<1> QED BY <1>2, <1>4, <1>5, <1>6

\* A POP on the array is one on the sequence.
LEMMA PopStep ==
  ASSUME TypeOK, Pop
  PROVE  stack' = Abstract!POP(stack) /\ el' \in Abstract!POPPED(stack, Info)
<1> USE DEF Abstract!POP, Abstract!POPPED, Abstract!EMPTY
<1>1. CASE EMPTY
  <2>1. stack' = stack /\ el' \in Info
    BY <1>1 DEF Pop, stack
  <2>2. stack = << >>
    BY <1>1, StackIsSequence, EmptySeq, StackAssumption DEF EMPTY
  <2> QED BY <2>1, <2>2
<1>2. CASE ~EMPTY
  <2>1. stack # << >> /\ Len(stack) \in Nat \ {0}
    BY <1>2, StackIsSequence, EmptySeq, StackAssumption DEF EMPTY, TypeOK
  <2>2. stack' \in Seq(Info) /\ Len(stack') = N - PTR'
    BY PopTypeOK, CellsAreSequence DEF stack
  <2>3. Len(stack') = Len(stack) - 1
    BY <1>2, <2>2, StackIsSequence, StackAssumption DEF Pop, TypeOK
  <2> DEFINE rest == SubSeq(stack, 1, Len(stack) - 1)
  <2>4. /\ rest \in Seq(Info) /\ Len(rest) = Len(stack) - 1
        /\ \A k \in 1..Len(rest) : rest[k] = stack[k]
    BY <2>1, StackIsSequence, FrontOfSequence
  <2>5. \A k \in 1..Len(stack') : stack'[k] = stack[k]
    BY <1>2, <2>2, <2>3, StackIsSequence, StackAssumption DEF Pop, stack, TypeOK
  <2>6. stack' = rest
    <3> HIDE DEF rest
    <3> QED BY <2>2, <2>3, <2>4, <2>5, SeqEqual
  <2>7. el' = stack[Len(stack)]
    BY <1>2, StackIsSequence, StackAssumption DEF Pop, EMPTY, stack, TypeOK
  <2> QED BY <2>1, <2>6, <2>7
<1> QED BY <1>1, <1>2

\* Every PUSH and POP does to the elements what BoundedStack says, at its
\* limits too, for every capacity (stackhandler.adb:8-22).
THEOREM ArrayIsStack == Spec => LastInFirstOut
<1>1. TypeOK /\ [Next]_vars =>
        [\/ \E x \in Info : stack' = Abstract!PUSH(stack, x) /\ el' = el
         \/ stack' = Abstract!POP(stack) /\ el' \in Abstract!POPPED(stack, Info)]_<<stack, el>>
  <2> SUFFICES ASSUME TypeOK, [Next]_vars
               PROVE  \/ \E x \in Info : stack' = Abstract!PUSH(stack, x) /\ el' = el
                      \/ stack' = Abstract!POP(stack) /\ el' \in Abstract!POPPED(stack, Info)
                      \/ <<stack, el>>' = <<stack, el>>
    OBVIOUS
  <2>1. ASSUME NEW x \in Info, Push(x)
        PROVE  stack' = Abstract!PUSH(stack, x) /\ el' = el
    BY <2>1, PushStep DEF Push
  <2>2. CASE UNCHANGED vars
    BY <2>2 DEF vars, stack
  <2> QED BY <2>1, <2>2, PopStep DEF Next
<1> QED BY <1>1, StackTypeOK, PTL DEF Spec, LastInFirstOut

=============================================================================
