---------------------------- MODULE BoundedStack ----------------------------
(***************************************************************************)
(* What the package STACKHANDLER promises (ada/stackhandler.ads): a stack   *)
(* of at most N elements, on which a PUSH when it is FULL and a POP when it *)
(* is EMPTY do nothing.  The stack is the sequence of its elements, from    *)
(* the bottom to the top.                                                  *)
(***************************************************************************)
EXTENDS Naturals, Sequences

CONSTANT N      \* the capacity

EMPTY(stack) == stack = <<>>
FULL(stack)  == Len(stack) = N

PUSH(stack, el) == IF FULL(stack) THEN stack ELSE Append(stack, el)

\* POP has two results: the stack it leaves, and the element it took.  A POP from an empty stack
\* assigns nothing to its out parameter, which may then hold any value of its type.
POP(stack)          == IF EMPTY(stack) THEN stack ELSE SubSeq(stack, 1, Len(stack) - 1)
POPPED(stack, Info) == IF EMPTY(stack) THEN Info ELSE {stack[Len(stack)]}

=============================================================================
