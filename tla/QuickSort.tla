----------------------------- MODULE QuickSort -----------------------------
(***************************************************************************)
(* The parallel quicksort of ada/quick_sort.adb.  P tasks SORT take segments *)
(* of LIST from the task RESSOURCE, a stack of bounds, partition them and   *)
(* give both parts back; the task WATCHDOG fills LIST, gives the whole list *)
(* to RESSOURCE, and polls the stack: when it is empty it prints LIST and   *)
(* aborts the others.                                                      *)
(*                                                                         *)
(* A rendezvous with RESSOURCE is one step: its caller waits, and between   *)
(* the two PUSHes of POSER, or the two POPs of PRENDRE, the stack is empty  *)
(* for WATCHDOG exactly when it is before or after both.  Every access of a *)
(* task SORT to LIST is a step of its own, but for the exchange of two      *)
(* elements of its segment, which is one.                                  *)
(***************************************************************************)
EXTENDS Integers, Sequences, FiniteSets

CONSTANTS
    M,            \* the length of LIST
    P,            \* the number of tasks SORT
    N,            \* the capacity of the stack
    Value,        \* the numbers the user may enter
    ByPriority    \* WATCHDOG, of priority 1, runs only when no task of
                  \* priority 2 can: one processor, and no task waits for PUT

ASSUME QuickSortAssumption ==
    /\ M \in Nat \ {0} /\ P \in Nat \ {0} /\ N \in Nat
    /\ Value \subseteq Int
    /\ ByPriority \in BOOLEAN

VARIABLES
    input,        \* what the user enters
    LIST,
    stack,        \* the bounds of the segments to sort: ELG, ELD, ELG, ELD...
    pc, ELG, ELD, G, D, MEDIUM,     \* of each task SORT
    watchdog      \* "get", "poll" or "done"

locals == <<ELG, ELD, G, D, MEDIUM>>
vars == <<input, LIST, stack, pc, locals, watchdog>>

Sort  == 1..P
Index == 1..M

Segments == INSTANCE BoundedStack
EMPTY == Segments!EMPTY(stack)
FULL  == Segments!FULL(stack)

Init ==
    /\ input \in [Index -> Value]
    /\ LIST = input             \* GET fills LIST before any task can read it
    /\ stack = <<>>
    /\ pc = [t \in Sort |-> "prendre"]
    /\ ELG = [t \in Sort |-> 1] /\ ELD = [t \in Sort |-> 1]
    /\ G = [t \in Sort |-> 1] /\ D = [t \in Sort |-> 1]
    /\ MEDIUM = [t \in Sort |-> input[1]]
    /\ watchdog = "get"

-----------------------------------------------------------------------------
(* The entries of RESSOURCE.                                                *)

POSER(elg, eld) ==
    /\ ~FULL
    /\ stack' = Segments!PUSH(Segments!PUSH(stack, elg), eld)

-----------------------------------------------------------------------------
(* A task SORT, until WATCHDOG aborts it.                                   *)

Here(t, l) == watchdog # "done" /\ pc[t] = l
Goto(t, l) == pc' = [pc EXCEPT ![t] = l]

-----------------------------------------------------------------------------
(* Slips of the kind this code invites.  Next has none of them: they show   *)
(* that the properties below can be broken.                                *)

\* A segment of two elements is dropped with those of one.
PrendreDropsPairs(t) ==
    /\ Here(t, "prendre")
    /\ ~EMPTY
    /\ \E eld \in Segments!POPPED(stack, Int), elg \in Segments!POPPED(Segments!POP(stack), Int) :
           /\ stack' = Segments!POP(Segments!POP(stack))
           /\ ELG' = [ELG EXCEPT ![t] = elg] /\ ELD' = [ELD EXCEPT ![t] = eld]
           /\ IF elg + 1 < eld
              THEN /\ G' = [G EXCEPT ![t] = elg] /\ D' = [D EXCEPT ![t] = eld]
                   /\ Goto(t, "medium")
              ELSE UNCHANGED <<G, D, pc>>
    /\ UNCHANGED <<input, LIST, MEDIUM, watchdog>>

\* The scan from the left passes elements equal to MEDIUM.
ScanGPassesEqual(t) ==
    /\ Here(t, "scan_g")
    /\ IF LIST[G[t]] <= MEDIUM[t]
       THEN G' = [G EXCEPT ![t] = @ + 1] /\ UNCHANGED pc
       ELSE Goto(t, "scan_d") /\ UNCHANGED G
    /\ UNCHANGED <<input, LIST, stack, ELG, ELD, D, MEDIUM, watchdog>>

\* Equal elements are exchanged, and G and D stay on them.
SwapStays(t) ==
    /\ Here(t, "swap")
    /\ LIST' = IF G[t] <= D[t]
               THEN [LIST EXCEPT ![G[t]] = LIST[D[t]], ![D[t]] = LIST[G[t]]]
               ELSE LIST
    /\ Goto(t, IF G[t] > D[t] THEN "poser_left" ELSE "scan_g")
    /\ UNCHANGED <<input, stack, locals, watchdog>>

\* The left part is given back up to G.
PoserLeftOverlaps(t) ==
    /\ Here(t, "poser_left")
    /\ POSER(ELG[t], G[t])
    /\ ELG' = [ELG EXCEPT ![t] = G[t]]
    /\ Goto(t, "poser_right")
    /\ UNCHANGED <<input, LIST, ELD, G, D, MEDIUM, watchdog>>

\* The right part is given back twice.
PoserRightAgain(t) ==
    /\ Here(t, "poser_right")
    /\ POSER(ELG[t], ELD[t])
    /\ Goto(t, "poser_right") \/ Goto(t, "prendre")
    /\ UNCHANGED <<input, LIST, locals, watchdog>>

\* The list is taken to end at M + 1.
SubmitPastEnd ==
    /\ watchdog = "get"
    /\ POSER(1, M + 1)
    /\ watchdog' = "poll"
    /\ UNCHANGED <<input, LIST, pc, locals>>

-----------------------------------------------------------------------------
(* The entry PRENDRE, and the partition.                                    *)

\* PRENDRE; a segment of one element or none is dropped.
Prendre(t) ==
    /\ Here(t, "prendre")
    /\ ~EMPTY
    /\ \E eld \in Segments!POPPED(stack, Int), elg \in Segments!POPPED(Segments!POP(stack), Int) :
           /\ stack' = Segments!POP(Segments!POP(stack))
           /\ ELG' = [ELG EXCEPT ![t] = elg] /\ ELD' = [ELD EXCEPT ![t] = eld]
           /\ IF elg < eld
              THEN /\ G' = [G EXCEPT ![t] = elg] /\ D' = [D EXCEPT ![t] = eld]
                   /\ Goto(t, "medium")
              ELSE UNCHANGED <<G, D, pc>>
    /\ UNCHANGED <<input, LIST, MEDIUM, watchdog>>

ReadMedium(t) ==
    /\ Here(t, "medium")
    /\ MEDIUM' = [MEDIUM EXCEPT ![t] = LIST[(ELG[t] + ELD[t]) \div 2]]
    /\ Goto(t, "scan_g")
    /\ UNCHANGED <<input, LIST, stack, ELG, ELD, G, D, watchdog>>

ScanG(t) ==
    /\ Here(t, "scan_g")
    /\ IF LIST[G[t]] < MEDIUM[t]
       THEN G' = [G EXCEPT ![t] = @ + 1] /\ UNCHANGED pc
       ELSE Goto(t, "scan_d") /\ UNCHANGED G
    /\ UNCHANGED <<input, LIST, stack, ELG, ELD, D, MEDIUM, watchdog>>

ScanD(t) ==
    /\ Here(t, "scan_d")
    /\ IF LIST[D[t]] > MEDIUM[t]
       THEN D' = [D EXCEPT ![t] = @ - 1] /\ UNCHANGED pc
       ELSE Goto(t, "swap") /\ UNCHANGED D
    /\ UNCHANGED <<input, LIST, stack, ELG, ELD, G, MEDIUM, watchdog>>

\* The exchange through I, and the test that ends the partition.
Swap(t) ==
    /\ Here(t, "swap")
    /\ IF G[t] <= D[t]
       THEN /\ LIST' = [LIST EXCEPT ![G[t]] = LIST[D[t]], ![D[t]] = LIST[G[t]]]
            /\ G' = [G EXCEPT ![t] = @ + 1] /\ D' = [D EXCEPT ![t] = @ - 1]
       ELSE UNCHANGED <<LIST, G, D>>
    /\ Goto(t, IF G'[t] > D'[t] THEN "poser_left" ELSE "scan_g")
    /\ UNCHANGED <<input, stack, ELG, ELD, MEDIUM, watchdog>>

\* The left part goes back first; the task keeps the bounds of the right one.
PoserLeft(t) ==
    /\ Here(t, "poser_left")
    /\ POSER(ELG[t], D[t])
    /\ ELG' = [ELG EXCEPT ![t] = G[t]]
    /\ Goto(t, "poser_right")
    /\ UNCHANGED <<input, LIST, ELD, G, D, MEDIUM, watchdog>>

PoserRight(t) ==
    /\ Here(t, "poser_right")
    /\ POSER(ELG[t], ELD[t])
    /\ Goto(t, "prendre")
    /\ UNCHANGED <<input, LIST, locals, watchdog>>

SortNext(t) == \/ Prendre(t) \/ ReadMedium(t) \/ ScanG(t) \/ ScanD(t) \/ Swap(t)
               \/ PoserLeft(t) \/ PoserRight(t)

-----------------------------------------------------------------------------
(* The task WATCHDOG.                                                       *)

\* All tasks SORT wait: for a segment, or for room on the stack.
Idle == \A t \in Sort : \/ pc[t] = "prendre" /\ EMPTY
                        \/ pc[t] \in {"poser_left", "poser_right"} /\ FULL

MayRun == ByPriority => Idle

Submit ==
    /\ watchdog = "get" /\ MayRun
    /\ POSER(1, M)
    /\ watchdog' = "poll"
    /\ UNCHANGED <<input, LIST, pc, locals>>

\* EMPTY is read without a rendezvous; LIST is printed and all tasks aborted.
PrintAndAbort ==
    /\ watchdog = "poll" /\ MayRun
    /\ EMPTY
    /\ watchdog' = "done"
    /\ UNCHANGED <<input, LIST, stack, pc, locals>>

Next == (\E t \in Sort : SortNext(t)) \/ Submit \/ PrintAndAbort

Spec == Init /\ [][Next]_vars

\* Every task that can run does.
FairSpec == Spec /\ (\A t \in Sort : WF_vars(SortNext(t))) /\ WF_vars(Submit) /\ WF_vars(PrintAndAbort)

-----------------------------------------------------------------------------
(* Correctness.                                                             *)

Locations == {"prendre", "medium", "scan_g", "scan_d", "swap", "poser_left", "poser_right"}

TypeOK ==
    /\ input \in [Index -> Value] /\ LIST \in [Index -> Value]
    /\ stack \in Seq(0..M + 1) /\ Len(stack) <= N
    /\ pc \in [Sort -> Locations]
    /\ ELG \in [Sort -> 1..M + 1] /\ ELD \in [Sort -> 0..M]
    /\ G \in [Sort -> 1..M + 1] /\ D \in [Sort -> 0..M]
    /\ MEDIUM \in [Sort -> Value]
    /\ watchdog \in {"get", "poll", "done"}

\* The segments still to be sorted: on the stack, and in the hands of a task.
Stacked == {stack[2 * k - 1]..stack[2 * k] : k \in 1..(Len(stack) \div 2)}
Held(t) == IF pc[t] = "prendre" THEN {} ELSE ELG[t]..ELD[t]
Outstanding == Stacked \cup {Held(t) : t \in Sort}

\* Two tasks never work on a common element of LIST, and no segment that waits
\* on the stack is being worked on: LIST itself is unprotected
\* (quick_sort.adb:20, :62-85).
SegmentsDisjoint ==
    /\ \A t, u \in Sort : t # u => Held(t) \cap Held(u) = {}
    /\ \A t \in Sort, s \in Stacked : Held(t) \cap s = {}
    /\ \A j, k \in 1..(Len(stack) \div 2) :
          j # k => (stack[2 * j - 1]..stack[2 * j]) \cap (stack[2 * k - 1]..stack[2 * k]) = {}

\* The scans of a partition stop inside LIST: no subscript is out of range
\* (quick_sort.adb:67-77).
ScansInRange ==
    \A t \in Sort : /\ pc[t] = "scan_g" => G[t] \in Held(t)
                    /\ pc[t] = "scan_d" => D[t] \in Held(t)

\* What is left to do is inside the outstanding segments: two elements that no
\* such segment has both of are in order already.
OrderedElsewhere ==
    watchdog # "get" =>
        \A i, j \in Index : \/ i >= j
                            \/ LIST[i] <= LIST[j]
                            \/ \E s \in Outstanding : {i, j} \subseteq s

Sorted == \A i, j \in Index : i < j => LIST[i] <= LIST[j]

\* LIST is always a rearrangement of what the user entered.
SameNumbers ==
    \A v \in Value : Cardinality({i \in Index : LIST[i] = v})
                     = Cardinality({i \in Index : input[i] = v})

\* What WATCHDOG prints is the numbers the user entered, sorted
\* (quick_sort.adb:99, :106-110).
PrintsSorted == watchdog = "done" => Sorted /\ SameNumbers

\* No task ever waits for room on the stack (quick_sort.adb:34).
RoomLeft == \A t \in Sort : pc[t] \in {"poser_left", "poser_right"} => ~FULL

\* The program prints its result and ends.
Ends == <>(watchdog = "done")

=============================================================================
