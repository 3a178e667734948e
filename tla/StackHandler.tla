---------------------------- MODULE StackHandler ----------------------------
(***************************************************************************)
(* The body of the generic package STACKHANDLER (ada/stackhandler.adb): an  *)
(* array of N cells filled from the top down; PTR is the next free cell.    *)
(* A client calls PUSH and POP in any order.                               *)
(***************************************************************************)
EXTENDS Integers, Sequences

CONSTANTS N,       \* the capacity
          Info     \* the private element type

ASSUME StackAssumption == N \in Nat /\ Info # {}

VARIABLES STACK1,  \* the array; its cells are not initialized
          PTR,
          el       \* the client's variable, the out parameter of POP

vars == <<STACK1, PTR, el>>

BORNE == 1..N

EMPTY == PTR = N
FULL  == PTR = 0

Init == STACK1 \in [BORNE -> Info] /\ PTR = N /\ el \in Info

\* A POP that reads the cell before it moves PTR.
PopReadsFirst ==
    /\ IF ~EMPTY THEN /\ PTR' = PTR + 1
                      /\ el' \in IF PTR = 0 THEN Info ELSE {STACK1[PTR]}
                 ELSE el' \in Info /\ UNCHANGED PTR
    /\ UNCHANGED STACK1

Push(x) ==
    /\ IF ~FULL THEN /\ STACK1' = [STACK1 EXCEPT ![PTR] = x]
                     /\ PTR' = PTR - 1
                ELSE UNCHANGED <<STACK1, PTR>>
    /\ UNCHANGED el

\* On an empty stack the out parameter is not assigned: a scalar comes back undefined.
Pop ==
    /\ IF ~EMPTY THEN /\ PTR' = PTR + 1
                      /\ el' = STACK1[PTR + 1]
                 ELSE el' \in Info /\ UNCHANGED PTR
    /\ UNCHANGED STACK1

Next == (\E x \in Info : Push(x)) \/ Pop

Spec == Init /\ [][Next]_vars

TypeOK == STACK1 \in [BORNE -> Info] /\ PTR \in 0..N /\ el \in Info

-----------------------------------------------------------------------------
(* The array implements the stack of BoundedStack.                          *)

\* The elements, from the bottom of the stack to the top.
stack == [k \in 1..(N - PTR) |-> STACK1[N + 1 - k]]

Abstract == INSTANCE BoundedStack

\* Every call does to the sequence of the elements what BoundedStack says, and a POP
\* delivers the element pushed last, if there is one (stackhandler.adb:8-22).
LastInFirstOut ==
    [][\/ \E x \in Info : stack' = Abstract!PUSH(stack, x) /\ el' = el
       \/ stack' = Abstract!POP(stack) /\ el' \in Abstract!POPPED(stack, Info)]_<<stack, el>>

=============================================================================
