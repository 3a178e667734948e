--------------------------- MODULE QuickSortProofs ---------------------------
(***************************************************************************)
(* The parallel quicksort keeps its segments apart, stays inside LIST and  *)
(* prints its numbers sorted, for every list, every number of tasks and    *)
(* every stack that holds whole pairs of bounds.                           *)
(***************************************************************************)
EXTENDS QuickSort, TLAPS, FiniteSetTheorems, SequenceTheorems

\* The bounds of a segment are pushed one by one (quick_sort.adb:37-38): a stack of odd
\* capacity could take the first and drop the second.  The program has N = 100.
EvenCapacity == N % 2 = 0

\* Where task t is in its partition.  What it passed on the left is at most MEDIUM,
\* what it passed on the right at least; a scan has an element ahead that stops it.
TaskInv(t) ==
    /\ pc[t] = "medium" => ELG[t] < ELD[t] /\ G[t] = ELG[t] /\ D[t] = ELD[t]
    /\ pc[t] \in {"scan_g", "scan_d", "swap", "poser_left"} =>
          /\ ELG[t] < ELD[t]
          /\ ELG[t] <= G[t] /\ D[t] <= ELD[t]
          /\ \A i \in ELG[t]..(G[t] - 1) : LIST[i] <= MEDIUM[t]
          /\ \A i \in (D[t] + 1)..ELD[t] : LIST[i] >= MEDIUM[t]
    /\ pc[t] = "scan_g" => \E i \in G[t]..ELD[t] : LIST[i] >= MEDIUM[t]
    /\ pc[t] \in {"scan_g", "scan_d"} => \E i \in ELG[t]..D[t] : LIST[i] <= MEDIUM[t]
    /\ pc[t] \in {"scan_d", "swap"} => G[t] <= ELD[t] /\ LIST[G[t]] >= MEDIUM[t]
    /\ pc[t] = "swap" => ELG[t] <= D[t] /\ LIST[D[t]] <= MEDIUM[t]
    /\ pc[t] = "poser_left" => D[t] < G[t] /\ G[t] <= ELD[t] + 1 /\ ELG[t] <= D[t] + 1

\* Before WATCHDOG gives the list nothing has begun; after it there is room for a pair.
StartInv ==
    /\ watchdog = "get" => stack = <<>> /\ \A t \in Sort : pc[t] = "prendre"
    /\ watchdog # "get" => N # 0

\* The segment at place k of the stack.
Place(k) == stack[2 * k - 1]..stack[2 * k]

\* SegmentsDisjoint by the places on the stack, for h of them.
Apart(h) ==
    /\ \A t, u \in Sort : t # u => Held(t) \cap Held(u) = {}
    /\ \A t \in Sort, k \in 1..h : Held(t) \cap Place(k) = {}
    /\ \A j, k \in 1..h : j # k => Place(j) \cap Place(k) = {}

\* OrderedElsewhere likewise.
Ordered(h) ==
    watchdog # "get" =>
        \A i, j \in Index :
            i < j => \/ LIST[i] <= LIST[j]
                     \/ \E t \in Sort : i \in Held(t) /\ j \in Held(t)
                     \/ \E k \in 1..h : i \in Place(k) /\ j \in Place(k)

StackInv(h) ==
    /\ Len(stack) = 2 * h
    /\ \A k \in 1..h : stack[2 * k - 1] \in 1..M + 1 /\ stack[2 * k] \in 0..M
    /\ Apart(h) /\ Ordered(h)

\* The inductive invariant.
SortInv == /\ TypeOK /\ StartInv
           /\ \A t \in Sort : TaskInv(t)
           /\ \E h \in Nat : StackInv(h)

-----------------------------------------------------------------------------
(* The beginning.                                                           *)

\* The inductive invariant holds when the tasks start.
LEMMA SortInvInit == Init => SortInv
<1> SUFFICES ASSUME Init PROVE SortInv
  OBVIOUS
<1>1. TypeOK
  <2>1. input[1] \in Value /\ 1 \in 1..M + 1 /\ 1 \in 0..M
    BY QuickSortAssumption DEF Init, Index
  <2>2. stack \in Seq(0..M + 1) /\ Len(stack) <= N
    BY QuickSortAssumption DEF Init
  <2> QED BY <2>1, <2>2 DEF Init, TypeOK, Locations
<1>2. StartInv /\ \A t \in Sort : TaskInv(t)
  BY DEF Init, StartInv, TaskInv
<1>3. StackInv(0)
  BY DEF Init, StackInv, Apart, Ordered, Held
<1> QED BY <1>1, <1>2, <1>3 DEF SortInv

-----------------------------------------------------------------------------
(* Steps within a partition.                                                *)

\* A step of t that changes neither bounds nor LIST leaves the segments as they are
\* and does not touch the other tasks.
LEMMA PrivateStep ==
  ASSUME SortInv, NEW t \in Sort, pc[t] # "prendre", pc'[t] # "prendre",
         UNCHANGED <<LIST, stack, ELG, ELD, watchdog>>,
         \A u \in Sort \ {t} : /\ pc'[u] = pc[u] /\ G'[u] = G[u]
                               /\ D'[u] = D[u] /\ MEDIUM'[u] = MEDIUM[u]
  PROVE  /\ StartInv' /\ (\E h \in Nat : StackInv(h)')
         /\ \A u \in Sort \ {t} : TaskInv(u)'
<1>1. \A u \in Sort : Held(u)' = Held(u)
  BY DEF Held
<1>2. PICK h \in Nat : StackInv(h)
  BY DEF SortInv
<1>3. StackInv(h)'
  BY <1>1, <1>2 DEF StackInv, Apart, Ordered, Place
<1>4. watchdog # "get"
  BY DEF SortInv, StartInv
<1>5. StartInv'
  BY <1>4 DEF SortInv, StartInv
<1>6. \A u \in Sort \ {t} : TaskInv(u)'
  BY DEF SortInv, TaskInv
<1> QED BY <1>3, <1>5, <1>6

\* MEDIUM is an element of the segment: it stops both scans (quick_sort.adb:65).
LEMMA ReadMediumStep ==
  ASSUME SortInv, NEW t \in Sort, ReadMedium(t)
  PROVE  SortInv'
<1>1. /\ pc[t] = "medium" /\ pc'[t] = "scan_g"
      /\ MEDIUM'[t] = LIST[(ELG[t] + ELD[t]) \div 2]
  BY DEF ReadMedium, Here, Goto, SortInv, TypeOK
<1>2. ELG[t] < ELD[t] /\ G[t] = ELG[t] /\ D[t] = ELD[t] /\ ELG[t] \in 1..M + 1 /\ ELD[t] \in 0..M
  BY <1>1 DEF SortInv, TaskInv, TypeOK
<1>3. (ELG[t] + ELD[t]) \div 2 \in ELG[t]..ELD[t] /\ (ELG[t] + ELD[t]) \div 2 \in Index
  BY <1>2, QuickSortAssumption DEF Index
<1>4. MEDIUM'[t] \in Value
  BY <1>1, <1>3 DEF SortInv, TypeOK
<1>5. TypeOK'
  BY <1>4 DEF ReadMedium, Here, Goto, SortInv, TypeOK, Locations
<1>6. TaskInv(t)'
  <2>1. G' = G /\ D' = D /\ ELG' = ELG /\ ELD' = ELD /\ LIST' = LIST
    BY DEF ReadMedium
  <2>2. MEDIUM'[t] \in Int
    BY <1>4, QuickSortAssumption
  <2>3. PICK m \in ELG[t]..ELD[t] : LIST[m] = MEDIUM'[t]
    BY <1>1, <1>3
  <2> QED BY <1>1, <1>2, <2>1, <2>2, <2>3 DEF TaskInv
<1>7. /\ StartInv' /\ (\E h \in Nat : StackInv(h)')
      /\ \A u \in Sort \ {t} : TaskInv(u)'
  BY <1>1, PrivateStep DEF ReadMedium, Goto, SortInv, TypeOK
<1> QED BY <1>5, <1>6, <1>7 DEF SortInv

\* G does not pass the element that stops it (quick_sort.adb:67).
LEMMA ScanGStep ==
  ASSUME SortInv, NEW t \in Sort, ScanG(t)
  PROVE  SortInv'
<1>1. pc[t] = "scan_g" /\ pc'[t] \in {"scan_g", "scan_d"}
  BY DEF ScanG, Here, Goto, SortInv, TypeOK
<1>2. /\ ELG[t] \in 1..M + 1 /\ ELD[t] \in 0..M /\ G[t] \in 1..M + 1 /\ D[t] \in 0..M
      /\ MEDIUM[t] \in Int /\ \A i \in Index : LIST[i] \in Int
  BY QuickSortAssumption DEF SortInv, TypeOK
<1>3. TaskInv(t)
  BY DEF SortInv
<1>4. PICK i \in G[t]..ELD[t] : LIST[i] >= MEDIUM[t]
  BY <1>1, <1>3 DEF TaskInv
<1>5. CASE LIST[G[t]] < MEDIUM[t]
  <2>1. G'[t] = G[t] + 1 /\ pc' = pc /\ i # G[t]
    BY <1>2, <1>4, <1>5, QuickSortAssumption DEF ScanG, SortInv, TypeOK, Index
  <2>2. G[t] + 1 \in 1..M + 1 /\ i \in (G[t] + 1)..ELD[t]
    BY <1>2, <1>4, <2>1, QuickSortAssumption
  <2>3. TypeOK'
    BY <1>5, <2>1, <2>2 DEF ScanG, SortInv, TypeOK
  <2>4. TaskInv(t)'
    BY <1>1, <1>2, <1>3, <1>4, <1>5, <2>1, <2>2, QuickSortAssumption DEF ScanG, TaskInv, Index
  <2>5. /\ StartInv' /\ (\E h \in Nat : StackInv(h)')
        /\ \A u \in Sort \ {t} : TaskInv(u)'
    BY <1>1, <1>5, PrivateStep DEF ScanG, Goto, SortInv, TypeOK
  <2> QED BY <2>3, <2>4, <2>5 DEF SortInv
<1>6. CASE ~(LIST[G[t]] < MEDIUM[t])
  <2>1. pc'[t] = "scan_d" /\ G' = G
    BY <1>6 DEF ScanG, Goto, SortInv, TypeOK
  <2>2. TypeOK'
    BY <1>6 DEF ScanG, Goto, SortInv, TypeOK, Locations
  <2>3. G[t] <= ELD[t] /\ LIST[G[t]] >= MEDIUM[t]
    BY <1>2, <1>4, <1>6, QuickSortAssumption DEF Index
  <2>4. TaskInv(t)'
    BY <1>1, <1>2, <1>3, <2>1, <2>3 DEF ScanG, TaskInv
  <2>5. /\ StartInv' /\ (\E h \in Nat : StackInv(h)')
        /\ \A u \in Sort \ {t} : TaskInv(u)'
    BY <1>1, <1>6, PrivateStep DEF ScanG, Goto, SortInv, TypeOK
  <2> QED BY <2>2, <2>4, <2>5 DEF SortInv
<1> QED BY <1>5, <1>6

\* D does not pass the element that stops it (quick_sort.adb:68).
LEMMA ScanDStep ==
  ASSUME SortInv, NEW t \in Sort, ScanD(t)
  PROVE  SortInv'
<1>1. pc[t] = "scan_d" /\ pc'[t] \in {"scan_d", "swap"}
  BY DEF ScanD, Here, Goto, SortInv, TypeOK
<1>2. /\ ELG[t] \in 1..M + 1 /\ ELD[t] \in 0..M /\ G[t] \in 1..M + 1 /\ D[t] \in 0..M
      /\ MEDIUM[t] \in Int /\ \A i \in Index : LIST[i] \in Int
  BY QuickSortAssumption DEF SortInv, TypeOK
<1>3. TaskInv(t)
  BY DEF SortInv
<1>4. PICK i \in ELG[t]..D[t] : LIST[i] <= MEDIUM[t]
  BY <1>1, <1>3 DEF TaskInv
<1>5. CASE LIST[D[t]] > MEDIUM[t]
  <2>1. D'[t] = D[t] - 1 /\ pc' = pc /\ i # D[t]
    BY <1>2, <1>4, <1>5, QuickSortAssumption DEF ScanD, SortInv, TypeOK, Index
  <2>2. D[t] - 1 \in 0..M /\ i \in ELG[t]..(D[t] - 1)
    BY <1>2, <1>4, <2>1, QuickSortAssumption
  <2>3. TypeOK'
    BY <1>5, <2>1, <2>2 DEF ScanD, SortInv, TypeOK
  <2>4. TaskInv(t)'
    BY <1>1, <1>2, <1>3, <1>4, <1>5, <2>1, <2>2, QuickSortAssumption DEF ScanD, TaskInv, Index
  <2>5. /\ StartInv' /\ (\E h \in Nat : StackInv(h)')
        /\ \A u \in Sort \ {t} : TaskInv(u)'
    BY <1>1, <1>5, PrivateStep DEF ScanD, Goto, SortInv, TypeOK
  <2> QED BY <2>3, <2>4, <2>5 DEF SortInv
<1>6. CASE ~(LIST[D[t]] > MEDIUM[t])
  <2>1. pc'[t] = "swap" /\ D' = D
    BY <1>6 DEF ScanD, Goto, SortInv, TypeOK
  <2>2. TypeOK'
    BY <1>6 DEF ScanD, Goto, SortInv, TypeOK, Locations
  <2>3. ELG[t] <= D[t] /\ LIST[D[t]] <= MEDIUM[t]
    BY <1>2, <1>3, <1>1, <1>4, <1>6, QuickSortAssumption DEF Index, TaskInv
  <2>4. TaskInv(t)'
    BY <1>1, <1>2, <1>3, <2>1, <2>3 DEF ScanD, TaskInv
  <2>5. /\ StartInv' /\ (\E h \in Nat : StackInv(h)')
        /\ \A u \in Sort \ {t} : TaskInv(u)'
    BY <1>1, <1>6, PrivateStep DEF ScanD, Goto, SortInv, TypeOK
  <2> QED BY <2>2, <2>4, <2>5 DEF SortInv
<1> QED BY <1>5, <1>6

\* A task whose segment keeps its elements keeps its place in the partition.
LEMMA OtherTask ==
  ASSUME TypeOK, NEW u \in Sort, TaskInv(u),
         pc'[u] = pc[u], G'[u] = G[u], D'[u] = D[u], MEDIUM'[u] = MEDIUM[u],
         ELG'[u] = ELG[u], ELD'[u] = ELD[u],
         \A i \in Held(u) : LIST'[i] = LIST[i]
  PROVE  TaskInv(u)'
<1>1. /\ ELG[u] \in 1..M + 1 /\ ELD[u] \in 0..M /\ G[u] \in 1..M + 1 /\ D[u] \in 0..M
      /\ pc[u] \in Locations
  BY DEF TypeOK
<1>2. CASE pc[u] \in {"prendre", "medium", "poser_right"}
  BY <1>2 DEF TaskInv
<1>3. CASE pc[u] \in {"scan_g", "scan_d", "swap", "poser_left"}
  <2>1. \A i \in ELG[u]..ELD[u] : LIST'[i] = LIST[i]
    BY <1>3 DEF Held
  <2>2. ELG[u] <= G[u] /\ D[u] <= ELD[u] /\ G[u] <= ELD[u] + 1 /\ ELG[u] <= D[u] + 1
    BY <1>1, <1>3, QuickSortAssumption DEF TaskInv
  <2>3. /\ \A i \in ELG[u]..(G[u] - 1) : i \in ELG[u]..ELD[u]
        /\ \A i \in (D[u] + 1)..ELD[u] : i \in ELG[u]..ELD[u]
        /\ \A i \in G[u]..ELD[u] : i \in ELG[u]..ELD[u]
        /\ \A i \in ELG[u]..D[u] : i \in ELG[u]..ELD[u]
    BY <1>1, <2>2, QuickSortAssumption
  <2>4. /\ pc[u] \in {"scan_d", "swap"} => G[u] \in ELG[u]..ELD[u]
        /\ pc[u] = "swap" => D[u] \in ELG[u]..ELD[u]
    BY <1>1, <2>2, QuickSortAssumption DEF TaskInv
  <2> QED BY <1>3, <2>1, <2>3, <2>4 DEF TaskInv
<1> QED BY <1>1, <1>2, <1>3 DEF Locations

\* An element outside the segment of t is in order with every element of it.
LEMMA OutsideInOrder ==
  ASSUME TypeOK, NEW h \in Nat, StackInv(h), watchdog # "get", NEW t \in Sort,
         NEW e \in Index, e \in Held(t), NEW j \in Index, j \notin Held(t)
  PROVE  (e < j => LIST[e] <= LIST[j]) /\ (j < e => LIST[j] <= LIST[e])
<1>1. \A u \in Sort : ~(e \in Held(u) /\ j \in Held(u))
  BY DEF StackInv, Apart
<1>2. \A k \in 1..h : ~(e \in Place(k) /\ j \in Place(k))
  BY DEF StackInv, Apart
<1> QED BY <1>1, <1>2 DEF StackInv, Ordered

\* The exchange stays in the segment, and each of the two elements stops the next
\* scan towards it (quick_sort.adb:69-76).
LEMMA SwapStep ==
  ASSUME SortInv, NEW t \in Sort, Swap(t)
  PROVE  SortInv'
<1> DEFINE g == G[t]  d == D[t]
<1>1. /\ pc[t] = "swap" /\ watchdog # "get"
      /\ UNCHANGED <<input, stack, ELG, ELD, MEDIUM, watchdog>>
  BY DEF Swap, Here, SortInv, StartInv
<1>2. /\ ELG[t] \in 1..M + 1 /\ ELD[t] \in 0..M /\ g \in 1..M + 1 /\ d \in 0..M
      /\ MEDIUM[t] \in Int /\ \A i \in Index : LIST[i] \in Int
  BY QuickSortAssumption DEF SortInv, TypeOK
<1>3. /\ ELG[t] < ELD[t] /\ ELG[t] <= g /\ d <= ELD[t] /\ g <= ELD[t] /\ ELG[t] <= d
      /\ \A i \in ELG[t]..(g - 1) : LIST[i] <= MEDIUM[t]
      /\ \A i \in (d + 1)..ELD[t] : LIST[i] >= MEDIUM[t]
      /\ LIST[g] >= MEDIUM[t] /\ LIST[d] <= MEDIUM[t]
  BY <1>1 DEF SortInv, TaskInv
<1>4. /\ g \in Index /\ d \in Index /\ Held(t) = ELG[t]..ELD[t]
      /\ g \in Held(t) /\ d \in Held(t) /\ Held(t) \subseteq Index
  BY <1>1, <1>2, <1>3, QuickSortAssumption DEF Held, Index
<1>5. /\ LIST' \in [Index -> Value]
      /\ \A i \in Index : LIST'[i] = CASE g <= d /\ i = d -> LIST[g]
                                       [] g <= d /\ i = g /\ i # d -> LIST[d]
                                       [] OTHER -> LIST[i]
  <2>1. CASE g <= d
    <3>1. LIST' = [LIST EXCEPT ![g] = LIST[d], ![d] = LIST[g]]
      BY <2>1 DEF Swap
    <3> QED BY <2>1, <3>1, <1>4 DEF SortInv, TypeOK
  <2>2. CASE ~(g <= d)
    BY <2>2 DEF Swap, SortInv, TypeOK
  <2> QED BY <2>1, <2>2
<1>6. /\ g <= d => G' = [G EXCEPT ![t] = g + 1] /\ D' = [D EXCEPT ![t] = d - 1]
      /\ ~(g <= d) => G' = G /\ D' = D
      /\ pc' = [pc EXCEPT ![t] = IF G'[t] > D'[t] THEN "poser_left" ELSE "scan_g"]
  BY DEF Swap, Goto
<1>7. pc'[t] = (IF G'[t] > D'[t] THEN "poser_left" ELSE "scan_g")
  BY <1>6 DEF SortInv, TypeOK
<1>8. /\ g <= d => G'[t] = g + 1 /\ D'[t] = d - 1
      /\ ~(g <= d) => G'[t] = g /\ D'[t] = d
  BY <1>6 DEF SortInv, TypeOK
<1>9. TypeOK'
  <2>1. G' \in [Sort -> 1..M + 1] /\ D' \in [Sort -> 0..M]
    <3>1. g + 1 \in 1..M + 1 /\ d - 1 \in 0..M
      BY <1>2, <1>3, QuickSortAssumption
    <3> QED BY <1>6, <3>1 DEF SortInv, TypeOK
  <2>2. pc' \in [Sort -> Locations]
    BY <1>6 DEF SortInv, TypeOK, Locations
  <2> QED BY <1>1, <1>5, <2>1, <2>2 DEF SortInv, TypeOK
<1>10. TaskInv(t)'
  <2>1. CASE g <= d
    <3>1. /\ \A i \in ELG[t]..g : LIST'[i] <= MEDIUM[t]
          /\ \A i \in d..ELD[t] : LIST'[i] >= MEDIUM[t]
      <4>1. \A i \in ELG[t]..g : i \in Index /\ (i = g \/ i \in ELG[t]..(g - 1))
        BY <1>2, <1>3, QuickSortAssumption DEF Index
      <4>2. \A i \in d..ELD[t] : i \in Index /\ (i = d \/ i \in (d + 1)..ELD[t])
        BY <1>2, <1>3, QuickSortAssumption DEF Index
      <4>3. \A i \in ELG[t]..g : i = d => i = g
        BY <1>2, <2>1, QuickSortAssumption
      <4>4. \A i \in d..ELD[t] : i = g => i = d
        BY <1>2, <2>1, QuickSortAssumption
      <4>5. g = d => LIST[g] = MEDIUM[t]
        BY <1>2, <1>3, <1>4
      <4>6. \A i \in ELG[t]..g : LIST'[i] <= MEDIUM[t]
        <5> TAKE i \in ELG[t]..g
        <5>1. CASE i = d
          BY <1>2, <1>4, <1>5, <2>1, <4>1, <4>3, <4>5, <5>1
        <5>2. CASE i # d /\ i = g
          BY <1>3, <1>5, <2>1, <4>1, <5>2
        <5>3. CASE i # d /\ i # g
          BY <1>3, <1>5, <2>1, <4>1, <5>3
        <5> QED BY <5>1, <5>2, <5>3
      <4>7. \A i \in d..ELD[t] : LIST'[i] >= MEDIUM[t]
        <5> TAKE i \in d..ELD[t]
        <5>1. CASE i = d
          BY <1>3, <1>5, <2>1, <4>2, <5>1
        <5>2. CASE i # d
          BY <1>3, <1>5, <2>1, <4>2, <4>4, <5>2
        <5> QED BY <5>1, <5>2
      <4> QED BY <4>6, <4>7
    <3>2. /\ G'[t] = g + 1 /\ D'[t] = d - 1 /\ ELG'[t] = ELG[t] /\ ELD'[t] = ELD[t]
          /\ MEDIUM'[t] = MEDIUM[t]
      BY <1>1, <1>8, <2>1
    <3>3. /\ ELG'[t] < ELD'[t] /\ ELG'[t] <= G'[t] /\ D'[t] <= ELD'[t]
          /\ G'[t] <= ELD'[t] + 1 /\ ELG'[t] <= D'[t] + 1
          /\ \A i \in ELG'[t]..(G'[t] - 1) : LIST'[i] <= MEDIUM'[t]
          /\ \A i \in (D'[t] + 1)..ELD'[t] : LIST'[i] >= MEDIUM'[t]
      <4>1. G'[t] - 1 = g /\ D'[t] + 1 = d
        BY <1>2, <3>2, QuickSortAssumption
      <4>2. ELG[t] <= g + 1 /\ d - 1 <= ELD[t] /\ g + 1 <= ELD[t] + 1
        BY <1>2, <1>3, QuickSortAssumption
      <4> QED BY <1>3, <3>1, <3>2, <4>1, <4>2
    <3>4. CASE g + 1 > d - 1
      <4>1. pc'[t] = "poser_left" /\ D'[t] < G'[t]
        BY <1>2, <1>7, <3>2, <3>4, QuickSortAssumption
      <4> QED BY <3>3, <4>1 DEF TaskInv
    <3>5. CASE ~(g + 1 > d - 1)
      <4>1. pc'[t] = "scan_g"
        BY <1>7, <3>2, <3>5
      <4>2. /\ d \in (g + 1)..ELD[t] /\ d \in d..ELD[t]
            /\ g \in ELG[t]..(d - 1) /\ g \in ELG[t]..g
        BY <1>2, <1>3, <3>5, QuickSortAssumption
      <4> QED BY <3>1, <3>2, <3>3, <4>1, <4>2 DEF TaskInv
    <3> QED BY <3>4, <3>5
  <2>2. CASE ~(g <= d)
    <3>1. pc'[t] = "poser_left" /\ d < g /\ g <= ELD[t] + 1 /\ ELG[t] <= d + 1
      BY <1>2, <1>3, <1>7, <1>8, <2>2, QuickSortAssumption
    <3>2. LIST' = LIST
      BY <2>2 DEF Swap
    <3> QED BY <1>1, <1>3, <1>8, <2>2, <3>1, <3>2 DEF TaskInv
  <2> QED BY <2>1, <2>2
<1>11. PICK h \in Nat : StackInv(h)
  BY DEF SortInv
<1>12. \A i \in Index \ Held(t) : LIST'[i] = LIST[i]
  BY <1>4, <1>5
<1>13. \A u \in Sort : Held(u)' = Held(u)
  BY <1>1, <1>6, <1>7 DEF Held, SortInv, TypeOK
<1>14. \A u \in Sort \ {t} : TaskInv(u)'
  <2> TAKE u \in Sort \ {t}
  <2>1. CASE pc[u] \in {"prendre", "poser_right"}
    BY <1>6, <2>1 DEF TaskInv, SortInv, TypeOK
  <2>2. CASE pc[u] \notin {"prendre", "poser_right"}
    <3>1. Held(u) \cap Held(t) = {}
      BY <1>11 DEF StackInv, Apart
    <3>2. ELG[u] <= ELD[u] => Held(u) \subseteq Index
      BY QuickSortAssumption DEF Held, SortInv, TypeOK, Index
    <3>3. ELG[u] \in 1..M + 1 /\ ELD[u] \in 0..M
      BY DEF SortInv, TypeOK
    <3>4. Held(u) \subseteq Index
      BY <3>2, <3>3, QuickSortAssumption DEF Held, Index
    <3>5. \A i \in Held(u) : LIST'[i] = LIST[i]
      BY <1>12, <3>1, <3>4
    <3>6. pc'[u] = pc[u] /\ G'[u] = G[u] /\ D'[u] = D[u]
      BY <1>6 DEF SortInv, TypeOK
    <3> QED BY <1>1, <3>5, <3>6, OtherTask DEF SortInv
  <2> QED BY <2>1, <2>2
<1>15. \A i \in Held(t) : \E e \in Held(t) : LIST'[i] = LIST[e]
  BY <1>4, <1>5
<1>16. Ordered(h)'
  <2> SUFFICES ASSUME NEW i \in Index, NEW j \in Index, i < j
               PROVE  \/ LIST'[i] <= LIST'[j]
                      \/ \E u \in Sort : i \in Held(u) /\ j \in Held(u)
                      \/ \E k \in 1..h : i \in Place(k) /\ j \in Place(k)
    BY <1>1, <1>13 DEF Ordered, Place
  <2>1. CASE i \in Held(t) /\ j \in Held(t)
    BY <2>1
  <2>2. CASE i \notin Held(t) /\ j \notin Held(t)
    BY <1>1, <1>11, <1>12, <2>2 DEF StackInv, Ordered
  <2>3. CASE i \in Held(t) /\ j \notin Held(t)
    <3>1. PICK e \in Held(t) : LIST'[i] = LIST[e]
      BY <1>15, <2>3
    <3>2. e \in Index /\ e < j
      BY <1>2, <1>4, <2>3, QuickSortAssumption DEF Index
    <3>3. LIST[e] <= LIST[j]
      BY <1>1, <1>11, <2>3, <3>2, OutsideInOrder DEF SortInv
    <3> QED BY <1>12, <2>3, <3>1, <3>3
  <2>4. CASE i \notin Held(t) /\ j \in Held(t)
    <3>1. PICK e \in Held(t) : LIST'[j] = LIST[e]
      BY <1>15, <2>4
    <3>2. e \in Index /\ i < e
      BY <1>2, <1>4, <2>4, QuickSortAssumption DEF Index
    <3>3. LIST[i] <= LIST[e]
      BY <1>1, <1>11, <2>4, <3>2, OutsideInOrder DEF SortInv
    <3> QED BY <1>12, <2>4, <3>1, <3>3
  <2> QED BY <2>1, <2>2, <2>3, <2>4
<1>17. StackInv(h)'
  BY <1>1, <1>11, <1>13, <1>16 DEF StackInv, Apart, Place
<1>18. StartInv'
  BY <1>1 DEF SortInv, StartInv
<1> QED BY <1>9, <1>10, <1>14, <1>17, <1>18 DEF SortInv

-----------------------------------------------------------------------------
(* The entries of RESSOURCE.                                                *)

\* A stack of whole pairs that is not full takes both bounds.
LEMMA PosedPair ==
  ASSUME EvenCapacity, TypeOK, NEW h \in Nat, Len(stack) = 2 * h,
         NEW a \in 0..M + 1, NEW b \in 0..M + 1, POSER(a, b)
  PROVE  /\ stack' \in Seq(0..M + 1) /\ Len(stack') = 2 * (h + 1) /\ Len(stack') <= N
         /\ \A i \in 1..(2 * h) : stack'[i] = stack[i]
         /\ stack'[2 * h + 1] = a /\ stack'[2 * h + 2] = b
         /\ N # 0
<1>1. stack \in Seq(0..M + 1) /\ 2 * h < N /\ 2 * h + 1 < N
  <2>1. stack \in Seq(0..M + 1) /\ Len(stack) <= N
    BY DEF TypeOK
  <2>2. Len(stack) # N
    BY DEF POSER, FULL, Segments!FULL
  <2>3. 2 * h < N
    BY <2>1, <2>2, QuickSortAssumption
  <2>4. 2 * h + 1 < N
    BY <2>3, QuickSortAssumption DEF EvenCapacity
  <2> QED BY <2>1, <2>3, <2>4
<1>2. Segments!PUSH(stack, a) = Append(stack, a)
  BY <1>1, QuickSortAssumption DEF Segments!PUSH, Segments!FULL
<1>3. Len(Append(stack, a)) = 2 * h + 1 /\ Append(stack, a) \in Seq(0..M + 1)
  BY <1>1
<1>4. stack' = Append(Append(stack, a), b)
  BY <1>1, <1>2, <1>3, QuickSortAssumption DEF POSER, Segments!PUSH, Segments!FULL
<1>5. /\ stack' \in Seq(0..M + 1) /\ Len(stack') = 2 * h + 2
      /\ \A i \in 1..(2 * h) : stack'[i] = stack[i]
      /\ stack'[2 * h + 1] = a /\ stack'[2 * h + 2] = b
  BY <1>1, <1>3, <1>4
<1> QED BY <1>1, <1>5, QuickSortAssumption

\* The pair is a new place on top of the others.
LEMMA PosedPlace ==
  ASSUME EvenCapacity, TypeOK, NEW h \in Nat, Len(stack) = 2 * h,
         NEW a \in 1..M + 1, NEW b \in 0..M, POSER(a, b),
         \A k \in 1..h : stack[2 * k - 1] \in 1..M + 1 /\ stack[2 * k] \in 0..M
  PROVE  /\ \A k \in 1..h : Place(k)' = Place(k)
         /\ Place(h + 1)' = a..b
         /\ \A k \in 1..(h + 1) : stack'[2 * k - 1] \in 1..M + 1 /\ stack'[2 * k] \in 0..M
         /\ \A k \in 1..(h + 1) : k \in 1..h \/ k = h + 1
<1>1. /\ \A i \in 1..(2 * h) : stack'[i] = stack[i]
      /\ stack'[2 * h + 1] = a /\ stack'[2 * h + 2] = b
  <2>1. a \in 0..M + 1 /\ b \in 0..M + 1
    BY QuickSortAssumption
  <2> QED BY <2>1, PosedPair
<1>2. \A k \in 1..h : 2 * k - 1 \in 1..(2 * h) /\ 2 * k \in 1..(2 * h)
  OBVIOUS
<1>3. \A k \in 1..h : stack'[2 * k - 1] = stack[2 * k - 1] /\ stack'[2 * k] = stack[2 * k]
  BY <1>1, <1>2
<1>4. 2 * (h + 1) - 1 = 2 * h + 1 /\ 2 * (h + 1) = 2 * h + 2
  OBVIOUS
<1>5. \A k \in 1..(h + 1) : k \in 1..h \/ k = h + 1
  OBVIOUS
<1> QED BY <1>1, <1>3, <1>4, <1>5 DEF Place

\* The left part goes on the stack; with the right part, all that was held is
\* outstanding, and the two parts are in order with each other (quick_sort.adb:81).
LEMMA PoserLeftStep ==
  ASSUME EvenCapacity, SortInv, NEW t \in Sort, PoserLeft(t)
  PROVE  SortInv'
<1> DEFINE g == G[t]  d == D[t]
<1>1. /\ pc[t] = "poser_left" /\ watchdog # "get"
      /\ POSER(ELG[t], D[t])
      /\ UNCHANGED <<input, LIST, ELD, G, D, MEDIUM, watchdog>>
      /\ ELG' = [ELG EXCEPT ![t] = G[t]] /\ pc' = [pc EXCEPT ![t] = "poser_right"]
  BY DEF PoserLeft, Here, Goto, SortInv, StartInv
<1>2. /\ ELG[t] \in 1..M + 1 /\ ELD[t] \in 0..M /\ g \in 1..M + 1 /\ d \in 0..M
      /\ MEDIUM[t] \in Int /\ \A i \in Index : LIST[i] \in Int
  BY QuickSortAssumption DEF SortInv, TypeOK
<1>3. /\ ELG[t] <= g /\ d <= ELD[t] /\ d < g
      /\ \A i \in ELG[t]..(g - 1) : LIST[i] <= MEDIUM[t]
      /\ \A i \in (d + 1)..ELD[t] : LIST[i] >= MEDIUM[t]
  BY <1>1 DEF SortInv, TaskInv
<1>4. PICK h \in Nat : StackInv(h)
  BY DEF SortInv
<1>5. /\ stack' \in Seq(0..M + 1) /\ Len(stack') = 2 * (h + 1) /\ Len(stack') <= N /\ N # 0
  <2>1. ELG[t] \in 0..M + 1 /\ d \in 0..M + 1
    BY <1>2, QuickSortAssumption
  <2> QED BY <1>1, <1>4, <2>1, PosedPair DEF SortInv, StackInv
<1>6. /\ \A k \in 1..h : Place(k)' = Place(k)
      /\ Place(h + 1)' = ELG[t]..d
      /\ \A k \in 1..(h + 1) : stack'[2 * k - 1] \in 1..M + 1 /\ stack'[2 * k] \in 0..M
      /\ \A k \in 1..(h + 1) : k \in 1..h \/ k = h + 1
  BY <1>1, <1>2, <1>4, PosedPlace DEF SortInv, StackInv
<1>7. pc'[t] = "poser_right" /\ ELG'[t] = g /\ Held(t) = ELG[t]..ELD[t] /\ Held(t)' = g..ELD[t]
  BY <1>1 DEF Held, SortInv, TypeOK
<1>8. \A u \in Sort \ {t} : Held(u)' = Held(u)
  BY <1>1 DEF Held, SortInv, TypeOK
<1>9. /\ Held(t)' \subseteq Held(t) /\ Place(h + 1)' \subseteq Held(t)
      /\ Held(t)' \cap Place(h + 1)' = {}
  BY <1>2, <1>3, <1>6, <1>7, QuickSortAssumption
<1>10. TypeOK'
  <2>1. ELG' \in [Sort -> 1..M + 1] /\ pc' \in [Sort -> Locations]
    BY <1>1, <1>2 DEF SortInv, TypeOK, Locations
  <2> QED BY <1>1, <1>5, <2>1 DEF SortInv, TypeOK
<1>11. \A u \in Sort : TaskInv(u)'
  <2> TAKE u \in Sort
  <2>1. CASE u = t
    BY <1>7, <2>1 DEF TaskInv
  <2>2. CASE u # t
    <3>1. pc'[u] = pc[u] /\ ELG'[u] = ELG[u]
      BY <1>1, <2>2 DEF SortInv, TypeOK
    <3> QED BY <1>1, <3>1, OtherTask DEF SortInv
  <2> QED BY <2>1, <2>2
<1>12. Apart(h + 1)'
  <2>1. Apart(h)
    BY <1>4 DEF StackInv
  <2>2. \A u, v \in Sort : u # v => Held(u)' \cap Held(v)' = {}
    BY <1>8, <1>9, <2>1 DEF Apart
  <2>3. \A u \in Sort, k \in 1..(h + 1) : Held(u)' \cap Place(k)' = {}
    <3> TAKE u \in Sort, k \in 1..(h + 1)
    <3>1. CASE k \in 1..h
      BY <1>6, <1>8, <1>9, <2>1, <3>1 DEF Apart
    <3>2. CASE k = h + 1
      BY <1>8, <1>9, <2>1, <3>2 DEF Apart
    <3> QED BY <1>6, <3>1, <3>2
  <2>4. \A j, k \in 1..(h + 1) : j # k => Place(j)' \cap Place(k)' = {}
    <3>1. \A j, k \in 1..h : j # k => Place(j)' \cap Place(k)' = {}
      BY <1>6, <2>1 DEF Apart
    <3>2. \A j \in 1..h : Place(j)' \cap Place(h + 1)' = {}
      BY <1>6, <1>9, <2>1 DEF Apart
    <3> QED BY <1>6, <3>1, <3>2
  <2> QED BY <2>2, <2>3, <2>4 DEF Apart
<1>13. Ordered(h + 1)'
  <2> SUFFICES ASSUME NEW i \in Index, NEW j \in Index, i < j
               PROVE  \/ LIST[i] <= LIST[j]
                      \/ \E u \in Sort : i \in Held(u)' /\ j \in Held(u)'
                      \/ \E k \in 1..(h + 1) : i \in Place(k)' /\ j \in Place(k)'
    BY <1>1 DEF Ordered
  <2>1. \/ LIST[i] <= LIST[j]
        \/ \E u \in Sort : i \in Held(u) /\ j \in Held(u)
        \/ \E k \in 1..h : i \in Place(k) /\ j \in Place(k)
    BY <1>1, <1>4 DEF StackInv, Ordered
  <2>2. CASE \E k \in 1..h : i \in Place(k) /\ j \in Place(k)
    <3>1. \A k \in 1..h : k \in 1..(h + 1)
      OBVIOUS
    <3> QED BY <1>6, <2>2, <3>1
  <2>3. CASE \E u \in Sort \ {t} : i \in Held(u) /\ j \in Held(u)
    BY <1>8, <2>3
  <2>4. CASE i \in Held(t) /\ j \in Held(t)
    <3>1. CASE i < g /\ j > d
      <4>1. i \in ELG[t]..(g - 1) /\ j \in (d + 1)..ELD[t]
        BY <1>2, <1>7, <2>4, <3>1, QuickSortAssumption DEF Index
      <4>2. LIST[i] <= MEDIUM[t] /\ LIST[j] >= MEDIUM[t] /\ LIST[i] \in Int /\ LIST[j] \in Int
        BY <1>2, <1>3, <4>1
      <4> QED BY <1>2, <4>2
    <3>2. CASE ~(i < g)
      BY <1>2, <1>7, <2>4, <3>2, QuickSortAssumption DEF Index
    <3>3. CASE ~(j > d)
      <4>1. i \in Place(h + 1)' /\ j \in Place(h + 1)'
        BY <1>2, <1>6, <1>7, <2>4, <3>3, QuickSortAssumption DEF Index
      <4>2. h + 1 \in 1..(h + 1)
        OBVIOUS
      <4> QED BY <4>1, <4>2
    <3> QED BY <3>1, <3>2, <3>3
  <2> QED BY <2>1, <2>2, <2>3, <2>4
<1>14. StackInv(h + 1)'
  BY <1>5, <1>6, <1>12, <1>13 DEF StackInv
<1>15. StartInv'
  BY <1>1, <1>5 DEF SortInv, StartInv
<1>16. \E k \in Nat : StackInv(k)'
  BY <1>14
<1> QED BY <1>10, <1>11, <1>15, <1>16 DEF SortInv

\* The right part goes on the stack as it was held (quick_sort.adb:84).
LEMMA PoserRightStep ==
  ASSUME EvenCapacity, SortInv, NEW t \in Sort, PoserRight(t)
  PROVE  SortInv'
<1>1. /\ pc[t] = "poser_right" /\ watchdog # "get"
      /\ POSER(ELG[t], ELD[t])
      /\ UNCHANGED <<input, LIST, ELG, ELD, G, D, MEDIUM, watchdog>>
      /\ pc' = [pc EXCEPT ![t] = "prendre"]
  BY DEF PoserRight, Here, Goto, SortInv, StartInv, locals
<1>2. ELG[t] \in 1..M + 1 /\ ELD[t] \in 0..M
  BY DEF SortInv, TypeOK
<1>3. PICK h \in Nat : StackInv(h)
  BY DEF SortInv
<1>4. /\ stack' \in Seq(0..M + 1) /\ Len(stack') = 2 * (h + 1) /\ Len(stack') <= N /\ N # 0
  <2>1. ELG[t] \in 0..M + 1 /\ ELD[t] \in 0..M + 1
    BY <1>2, QuickSortAssumption
  <2> QED BY <1>1, <1>3, <2>1, PosedPair DEF SortInv, StackInv
<1>5. /\ \A k \in 1..h : Place(k)' = Place(k)
      /\ Place(h + 1)' = ELG[t]..ELD[t]
      /\ \A k \in 1..(h + 1) : stack'[2 * k - 1] \in 1..M + 1 /\ stack'[2 * k] \in 0..M
      /\ \A k \in 1..(h + 1) : k \in 1..h \/ k = h + 1
  BY <1>1, <1>2, <1>3, PosedPlace DEF SortInv, StackInv
<1>6. Held(t)' = {} /\ Place(h + 1)' = Held(t)
  BY <1>1, <1>5 DEF Held, SortInv, TypeOK
<1>7. \A u \in Sort \ {t} : Held(u)' = Held(u)
  BY <1>1 DEF Held, SortInv, TypeOK
<1>8. TypeOK'
  <2>1. pc' \in [Sort -> Locations]
    BY <1>1 DEF SortInv, TypeOK, Locations
  <2> QED BY <1>1, <1>4, <2>1 DEF SortInv, TypeOK
<1>9. \A u \in Sort : TaskInv(u)'
  <2> TAKE u \in Sort
  <2>1. CASE u = t
    BY <1>1, <2>1 DEF TaskInv, SortInv, TypeOK
  <2>2. CASE u # t
    <3>1. pc'[u] = pc[u]
      BY <1>1, <2>2 DEF SortInv, TypeOK
    <3> QED BY <1>1, <3>1, OtherTask DEF SortInv
  <2> QED BY <2>1, <2>2
<1>10. Apart(h + 1)'
  <2>1. Apart(h)
    BY <1>3 DEF StackInv
  <2>2. \A u, v \in Sort : u # v => Held(u)' \cap Held(v)' = {}
    BY <1>6, <1>7, <2>1 DEF Apart
  <2>3. \A u \in Sort, k \in 1..(h + 1) : Held(u)' \cap Place(k)' = {}
    <3> TAKE u \in Sort, k \in 1..(h + 1)
    <3>1. CASE k \in 1..h
      BY <1>5, <1>6, <1>7, <2>1, <3>1 DEF Apart
    <3>2. CASE k = h + 1
      BY <1>6, <1>7, <2>1, <3>2 DEF Apart
    <3> QED BY <1>5, <3>1, <3>2
  <2>4. \A j, k \in 1..(h + 1) : j # k => Place(j)' \cap Place(k)' = {}
    <3>1. \A j, k \in 1..h : j # k => Place(j)' \cap Place(k)' = {}
      BY <1>5, <2>1 DEF Apart
    <3>2. \A j \in 1..h : Place(j)' \cap Place(h + 1)' = {}
      BY <1>5, <1>6, <2>1 DEF Apart
    <3> QED BY <1>5, <3>1, <3>2
  <2> QED BY <2>2, <2>3, <2>4 DEF Apart
<1>11. Ordered(h + 1)'
  <2> SUFFICES ASSUME NEW i \in Index, NEW j \in Index, i < j
               PROVE  \/ LIST[i] <= LIST[j]
                      \/ \E u \in Sort : i \in Held(u)' /\ j \in Held(u)'
                      \/ \E k \in 1..(h + 1) : i \in Place(k)' /\ j \in Place(k)'
    BY <1>1 DEF Ordered
  <2>1. \/ LIST[i] <= LIST[j]
        \/ \E u \in Sort : i \in Held(u) /\ j \in Held(u)
        \/ \E k \in 1..h : i \in Place(k) /\ j \in Place(k)
    BY <1>1, <1>3 DEF StackInv, Ordered
  <2>2. h + 1 \in 1..(h + 1) /\ \A k \in 1..h : k \in 1..(h + 1)
    OBVIOUS
  <2>3. CASE \E k \in 1..h : i \in Place(k) /\ j \in Place(k)
    BY <1>5, <2>2, <2>3
  <2>4. CASE \E u \in Sort \ {t} : i \in Held(u) /\ j \in Held(u)
    BY <1>7, <2>4
  <2>5. CASE i \in Held(t) /\ j \in Held(t)
    BY <1>6, <2>2, <2>5
  <2> QED BY <2>1, <2>3, <2>4, <2>5
<1>12. StackInv(h + 1)'
  BY <1>4, <1>5, <1>10, <1>11 DEF StackInv
<1>13. StartInv'
  BY <1>1, <1>4 DEF SortInv, StartInv
<1>14. \E k \in Nat : StackInv(k)'
  BY <1>12
<1> QED BY <1>8, <1>9, <1>13, <1>14 DEF SortInv

\* What POP leaves of a stack.
LEMMA AllButLast ==
  ASSUME NEW S, NEW s \in Seq(S), s # <<>>
  PROVE  /\ SubSeq(s, 1, Len(s) - 1) \in Seq(S)
         /\ Len(SubSeq(s, 1, Len(s) - 1)) = Len(s) - 1
         /\ \A i \in 1..(Len(s) - 1) : SubSeq(s, 1, Len(s) - 1)[i] = s[i]
<1> DEFINE n == Len(s) - 1
<1>1. n \in Nat /\ \A i \in 1..n : s[i] \in S
  OBVIOUS
<1> HIDE DEF n
<1>2. /\ SubSeq(s, 1, n) \in Seq(S)
      /\ Len(SubSeq(s, 1, n)) = IF 1 <= n THEN n - 1 + 1 ELSE 0
      /\ \A i \in 1..(n - 1 + 1) : SubSeq(s, 1, n)[i] = s[1 + i - 1]
  BY <1>1, SubSeqProperties
<1>3. n - 1 + 1 = n /\ (IF 1 <= n THEN n - 1 + 1 ELSE 0) = n /\ \A i \in 1..n : 1 + i - 1 = i
  BY <1>1
<1>4. /\ SubSeq(s, 1, n) \in Seq(S) /\ Len(SubSeq(s, 1, n)) = n
      /\ \A i \in 1..n : SubSeq(s, 1, n)[i] = s[i]
  BY <1>2, <1>3
<1> QED BY <1>4 DEF n

\* The two POPs of PRENDRE take the place on top, which is held when it has two elements.
LEMMA TakenPlace ==
  ASSUME SortInv, NEW t \in Sort, Prendre(t), NEW n \in Nat, StackInv(n)
  PROVE  LET h   == n - 1
             elg == stack[2 * n - 1]
             eld == stack[2 * n]
         IN  /\ h \in Nat /\ n \in 1..n /\ h \in 0..n
             /\ elg \in 1..M + 1 /\ eld \in 0..M /\ Place(n) = elg..eld
             /\ stack' \in Seq(0..M + 1) /\ Len(stack') = 2 * h /\ Len(stack') <= N
             /\ \A i \in 1..(2 * h) : stack'[i] = stack[i]
             /\ ELG' = [ELG EXCEPT ![t] = elg] /\ ELD' = [ELD EXCEPT ![t] = eld]
             /\ elg < eld => /\ G' = [G EXCEPT ![t] = elg] /\ D' = [D EXCEPT ![t] = eld]
                             /\ pc' = [pc EXCEPT ![t] = "medium"]
             /\ ~(elg < eld) => UNCHANGED <<G, D, pc>>
             /\ pc[t] = "prendre" /\ watchdog # "get" /\ UNCHANGED <<input, LIST, MEDIUM, watchdog>>
             /\ \A k \in 1..h : Place(k)' = Place(k) /\ k \in 1..n /\ k # n
             /\ \A k \in 1..n : k \in 1..h \/ k = n
             /\ \A u \in Sort \ {t} : Held(u)' = Held(u)
             /\ Held(t)' = IF elg < eld THEN Place(n) ELSE {}
<1>2. stack \in Seq(0..M + 1) /\ Len(stack) = 2 * n /\ stack # <<>> /\ Len(stack) <= N
  BY DEF SortInv, TypeOK, StackInv, Prendre, EMPTY, Segments!EMPTY
<1>3. n # 0
  BY <1>2
<1> DEFINE h == n - 1
           low == SubSeq(stack, 1, Len(stack) - 1)
           elg == stack[2 * n - 1]
           eld == stack[2 * n]
<1>4. h \in Nat /\ n = h + 1 /\ n \in 1..n /\ h \in 0..n
  BY <1>3
<1>5. /\ low \in Seq(0..M + 1) /\ Len(low) = 2 * n - 1
      /\ \A i \in 1..(2 * n - 1) : low[i] = stack[i]
  <2>1. Len(stack) - 1 = 2 * n - 1
    BY <1>2
  <2> QED BY <1>2, <2>1, AllButLast
<1>6. low # <<>>
  BY <1>3, <1>5
<1>7. /\ stack' = SubSeq(low, 1, Len(low) - 1)
      /\ ELG' = [ELG EXCEPT ![t] = elg] /\ ELD' = [ELD EXCEPT ![t] = eld]
      /\ elg < eld => /\ G' = [G EXCEPT ![t] = elg] /\ D' = [D EXCEPT ![t] = eld]
                      /\ pc' = [pc EXCEPT ![t] = "medium"]
      /\ ~(elg < eld) => UNCHANGED <<G, D, pc>>
  <2>1. Segments!POP(stack) = low /\ Segments!POPPED(stack, Int) = {eld}
    BY <1>2 DEF Segments!POP, Segments!POPPED, Segments!EMPTY
  <2>2. Segments!POP(low) = SubSeq(low, 1, Len(low) - 1)
    BY <1>6 DEF Segments!POP, Segments!EMPTY
  <2>3. Segments!POPPED(low, Int) = {elg}
    <3>1. low[2 * n - 1] = stack[2 * n - 1]
      BY <1>3, <1>5
    <3> QED BY <1>5, <1>6, <3>1 DEF Segments!POPPED, Segments!EMPTY
  <2> QED BY <2>1, <2>2, <2>3 DEF Prendre, Goto
<1>8. /\ stack' \in Seq(0..M + 1) /\ Len(stack') = 2 * h /\ Len(stack') <= N
      /\ \A i \in 1..(2 * h) : stack'[i] = stack[i]
  <2>1. /\ stack' \in Seq(0..M + 1) /\ Len(stack') = 2 * n - 2
        /\ \A i \in 1..(2 * n - 2) : stack'[i] = low[i]
    <3>1. Len(low) - 1 = 2 * n - 2
      BY <1>3, <1>5
    <3>2. /\ SubSeq(low, 1, Len(low) - 1) \in Seq(0..M + 1)
          /\ Len(SubSeq(low, 1, Len(low) - 1)) = Len(low) - 1
          /\ \A i \in 1..(Len(low) - 1) : SubSeq(low, 1, Len(low) - 1)[i] = low[i]
      <4> HIDE DEF low
      <4> QED BY <1>5, <1>6, AllButLast
    <3> QED BY <1>7, <3>1, <3>2
  <2>2. 2 * n - 2 = 2 * h /\ \A i \in 1..(2 * n - 2) : i \in 1..(2 * n - 1)
    BY <1>3
  <2>3. Len(stack') <= N
    BY <1>2, <2>1, QuickSortAssumption
  <2> QED BY <1>5, <2>1, <2>2, <2>3
<1>9. elg \in 1..M + 1 /\ eld \in 0..M /\ Place(n) = elg..eld
  BY <1>4 DEF StackInv, Place
<1>10. \A k \in 1..h : Place(k)' = Place(k) /\ k \in 1..n /\ k # n
  <2>1. \A k \in 1..h : 2 * k - 1 \in 1..(2 * h) /\ 2 * k \in 1..(2 * h)
    BY <1>4
  <2>2. \A k \in 1..h : k \in 1..n /\ k # n
    BY <1>4
  <2> QED BY <1>8, <2>1, <2>2 DEF Place
<1>11. \A k \in 1..n : k \in 1..h \/ k = n
  BY <1>4
<1>12. /\ pc[t] = "prendre" /\ watchdog # "get" /\ UNCHANGED <<input, LIST, MEDIUM, watchdog>>
  BY <1>2 DEF Prendre, Here, SortInv, StartInv
<1>13. /\ \A u \in Sort \ {t} : Held(u)' = Held(u)
       /\ Held(t)' = IF elg < eld THEN Place(n) ELSE {}
  <2>1. \A u \in Sort \ {t} : Held(u)' = Held(u)
    BY <1>7 DEF Held, SortInv, TypeOK
  <2>2. Held(t)' = IF elg < eld THEN Place(n) ELSE {}
    BY <1>7, <1>9, <1>12 DEF Held, SortInv, TypeOK
  <2> QED BY <2>1, <2>2
<1> QED BY <1>4, <1>7, <1>8, <1>9, <1>10, <1>11, <1>12, <1>13

\* The segment on top is held, or dropped when it has no two elements
\* (quick_sort.adb:42-46, :62-64).
LEMMA PrendreStep ==
  ASSUME SortInv, NEW t \in Sort, Prendre(t)
  PROVE  SortInv'
<1>1. PICK n \in Nat : StackInv(n)
  BY DEF SortInv
<1> DEFINE h == n - 1
           elg == stack[2 * n - 1]
           eld == stack[2 * n]
<1>2. /\ h \in Nat /\ n \in 1..n /\ h \in 0..n
      /\ elg \in 1..M + 1 /\ eld \in 0..M /\ Place(n) = elg..eld
      /\ stack' \in Seq(0..M + 1) /\ Len(stack') = 2 * h /\ Len(stack') <= N
      /\ \A i \in 1..(2 * h) : stack'[i] = stack[i]
      /\ ELG' = [ELG EXCEPT ![t] = elg] /\ ELD' = [ELD EXCEPT ![t] = eld]
      /\ elg < eld => /\ G' = [G EXCEPT ![t] = elg] /\ D' = [D EXCEPT ![t] = eld]
                      /\ pc' = [pc EXCEPT ![t] = "medium"]
      /\ ~(elg < eld) => UNCHANGED <<G, D, pc>>
      /\ pc[t] = "prendre" /\ watchdog # "get" /\ UNCHANGED <<input, LIST, MEDIUM, watchdog>>
      /\ \A k \in 1..h : Place(k)' = Place(k) /\ k \in 1..n /\ k # n
      /\ \A k \in 1..n : k \in 1..h \/ k = n
      /\ \A u \in Sort \ {t} : Held(u)' = Held(u)
      /\ Held(t)' = IF elg < eld THEN Place(n) ELSE {}
  BY <1>1, TakenPlace
<1>3. TypeOK'
  <2>1. ELG' \in [Sort -> 1..M + 1] /\ ELD' \in [Sort -> 0..M]
    BY <1>2 DEF SortInv, TypeOK
  <2>2. G' \in [Sort -> 1..M + 1] /\ D' \in [Sort -> 0..M] /\ pc' \in [Sort -> Locations]
    BY <1>2 DEF SortInv, TypeOK, Locations
  <2> QED BY <1>2, <2>1, <2>2 DEF SortInv, TypeOK
<1>4. \A u \in Sort : TaskInv(u)'
  <2> TAKE u \in Sort
  <2>1. CASE u = t /\ elg < eld
    BY <1>2, <2>1 DEF TaskInv, SortInv, TypeOK
  <2>2. CASE u = t /\ ~(elg < eld)
    BY <1>2, <2>2 DEF TaskInv
  <2>3. CASE u # t
    <3>1. /\ pc'[u] = pc[u] /\ ELG'[u] = ELG[u] /\ ELD'[u] = ELD[u]
          /\ G'[u] = G[u] /\ D'[u] = D[u]
      BY <1>2, <2>3 DEF SortInv, TypeOK
    <3> QED BY <1>2, <3>1, OtherTask DEF SortInv
  <2> QED BY <2>1, <2>2, <2>3
<1>5. Apart(h)'
  <2>1. Apart(n)
    BY <1>1 DEF StackInv
  <2>2. \A u, v \in Sort : u # v => Held(u)' \cap Held(v)' = {}
    BY <1>2, <2>1 DEF Apart
  <2>3. \A u \in Sort, k \in 1..h : Held(u)' \cap Place(k)' = {}
    BY <1>2, <2>1 DEF Apart
  <2>4. \A j, k \in 1..h : j # k => Place(j)' \cap Place(k)' = {}
    BY <1>2, <2>1 DEF Apart
  <2> QED BY <2>2, <2>3, <2>4 DEF Apart
<1>6. Ordered(h)'
  <2> SUFFICES ASSUME NEW i \in Index, NEW j \in Index, i < j
               PROVE  \/ LIST[i] <= LIST[j]
                      \/ \E u \in Sort : i \in Held(u)' /\ j \in Held(u)'
                      \/ \E k \in 1..h : i \in Place(k)' /\ j \in Place(k)'
    BY <1>2 DEF Ordered
  <2>1. \/ LIST[i] <= LIST[j]
        \/ \E u \in Sort : i \in Held(u) /\ j \in Held(u)
        \/ \E k \in 1..n : i \in Place(k) /\ j \in Place(k)
    BY <1>1, <1>2 DEF StackInv, Ordered
  <2>2. CASE \E k \in 1..h : i \in Place(k) /\ j \in Place(k)
    BY <1>2, <2>2
  <2>3. CASE i \in Place(n) /\ j \in Place(n)
    <3>1. elg < eld
      BY <1>2, <2>3, QuickSortAssumption DEF Index
    <3> QED BY <1>2, <2>3, <3>1
  <2>4. CASE \E u \in Sort : i \in Held(u) /\ j \in Held(u)
    BY <1>2, <2>4 DEF Held
  <2> QED BY <1>2, <2>1, <2>2, <2>3, <2>4
<1>7. StackInv(h)'
  <2>1. \A k \in 1..h : stack'[2 * k - 1] \in 1..M + 1 /\ stack'[2 * k] \in 0..M
    <3>1. \A k \in 1..h : 2 * k - 1 \in 1..(2 * h) /\ 2 * k \in 1..(2 * h)
      BY <1>2
    <3> QED BY <1>1, <1>2, <3>1 DEF StackInv
  <2> QED BY <1>2, <1>5, <1>6, <2>1 DEF StackInv
<1>8. StartInv'
  BY <1>2 DEF SortInv, StartInv
<1>9. \E k \in Nat : StackInv(k)'
  BY <1>2, <1>7
<1> QED BY <1>3, <1>4, <1>8, <1>9 DEF SortInv

-----------------------------------------------------------------------------
(* The task WATCHDOG.                                                       *)

\* The first segment is the whole list (quick_sort.adb:104).
LEMMA SubmitStep ==
  ASSUME EvenCapacity, SortInv, Submit
  PROVE  SortInv'
<1>1. /\ stack = <<>> /\ \A t \in Sort : pc[t] = "prendre"
      /\ POSER(1, M) /\ watchdog' = "poll" /\ UNCHANGED <<input, LIST, pc, locals>>
  BY DEF Submit, SortInv, StartInv
<1>2. 1 \in 1..M + 1 /\ M \in 0..M /\ 1 \in 0..M + 1 /\ M \in 0..M + 1 /\ 0 \in Nat
  BY QuickSortAssumption
<1>3. Len(stack) = 2 * 0 /\ \A k \in 1..0 : stack[2 * k - 1] \in 1..M + 1 /\ stack[2 * k] \in 0..M
  BY <1>1
<1>4. stack' \in Seq(0..M + 1) /\ Len(stack') = 2 * (0 + 1) /\ Len(stack') <= N /\ N # 0
  BY <1>1, <1>2, <1>3, PosedPair DEF SortInv
<1>5. /\ Place(0 + 1)' = 1..M
      /\ \A k \in 1..(0 + 1) : stack'[2 * k - 1] \in 1..M + 1 /\ stack'[2 * k] \in 0..M
  BY <1>1, <1>2, <1>3, PosedPlace DEF SortInv
<1>6. \A t \in Sort : Held(t)' = {} /\ TaskInv(t)'
  BY <1>1 DEF Held, TaskInv
<1>7. TypeOK'
  BY <1>1, <1>4 DEF SortInv, TypeOK, locals
<1>8. Apart(1)' /\ Ordered(1)'
  <2>1. Place(1)' = 1..M
    BY <1>5
  <2>2. 1 \in 1..1 /\ \A k \in 1..1 : k = 1
    OBVIOUS
  <2>3. Apart(1)'
    BY <1>6, <2>2 DEF Apart
  <2>4. \A i, j \in Index : i \in Place(1)' /\ j \in Place(1)'
    BY <2>1 DEF Index
  <2>5. Ordered(1)'
    BY <2>2, <2>4 DEF Ordered
  <2> QED BY <2>3, <2>5
<1>9. StackInv(1)'
  BY <1>4, <1>5, <1>8 DEF StackInv
<1>10. StartInv'
  BY <1>1, <1>4 DEF StartInv
<1> QED BY <1>6, <1>7, <1>9, <1>10 DEF SortInv

\* Nothing but watchdog changes.
LEMMA QuietStep ==
  ASSUME SortInv, UNCHANGED <<input, LIST, stack, pc, ELG, ELD, G, D, MEDIUM>>,
         watchdog' \in {watchdog, "done"}, watchdog' # watchdog => watchdog # "get"
  PROVE  SortInv'
<1>1. PICK h \in Nat : StackInv(h)
  BY DEF SortInv
<1>2. StackInv(h)'
  BY <1>1 DEF StackInv, Apart, Ordered, Place, Held
<1>3. TypeOK' /\ StartInv' /\ \A t \in Sort : TaskInv(t)'
  BY DEF SortInv, TypeOK, StartInv, TaskInv
<1> QED BY <1>2, <1>3 DEF SortInv

-----------------------------------------------------------------------------
(* Every step.                                                              *)

\* Every step of the program keeps the inductive invariant.
LEMMA SortInvNext == EvenCapacity /\ SortInv /\ [Next]_vars => SortInv'
<1> SUFFICES ASSUME EvenCapacity, SortInv, [Next]_vars PROVE SortInv'
  OBVIOUS
<1>1. ASSUME NEW t \in Sort, SortNext(t) PROVE SortInv'
  BY <1>1, PrendreStep, ReadMediumStep, ScanGStep, ScanDStep, SwapStep, PoserLeftStep,
     PoserRightStep DEF SortNext
<1>2. CASE Submit
  BY <1>2, SubmitStep
<1>3. CASE PrintAndAbort
  <2>1. UNCHANGED <<input, LIST, stack, pc, ELG, ELD, G, D, MEDIUM>> /\ watchdog # "get"
    BY <1>3 DEF PrintAndAbort, locals
  <2>2. watchdog' = "done"
    BY <1>3 DEF PrintAndAbort
  <2> QED BY <2>1, <2>2, QuietStep
<1>4. CASE UNCHANGED vars
  <2>1. UNCHANGED <<input, LIST, stack, pc, ELG, ELD, G, D, MEDIUM>> /\ watchdog' = watchdog
    BY <1>4 DEF vars, locals
  <2> QED BY <2>1, QuietStep
<1> QED BY <1>1, <1>2, <1>3, <1>4 DEF Next

\* The inductive invariant holds in every state of the program.
THEOREM SortInvAlways == ASSUME EvenCapacity PROVE Spec => []SortInv
<1>1. Init => SortInv
  BY SortInvInit
<1>2. SortInv /\ [Next]_vars => SortInv'
  BY SortInvNext
<1> QED BY <1>1, <1>2, PTL DEF Spec

\* The variables of quick_sort.adb keep their ranges; the stack holds bounds of LIST
\* or the positions next to it.
THEOREM QuickSortTypeOK == ASSUME EvenCapacity PROVE Spec => []TypeOK
<1>1. SortInv => TypeOK
  BY DEF SortInv
<1> QED BY <1>1, SortInvAlways, PTL

\* The tasks never work on a common element, nor on one of a segment that waits
\* (quick_sort.adb:62-85).
THEOREM SegmentsStayDisjoint == ASSUME EvenCapacity PROVE Spec => []SegmentsDisjoint
<1>1. SortInv => SegmentsDisjoint
  <2> SUFFICES ASSUME SortInv PROVE SegmentsDisjoint
    OBVIOUS
  <2>1. PICK h \in Nat : StackInv(h)
    BY DEF SortInv
  <2>2. Len(stack) \div 2 = h
    BY <2>1 DEF StackInv
  <2>3. Stacked = {Place(k) : k \in 1..h}
    BY <2>2 DEF Stacked, Place
  <2> QED BY <2>1, <2>2, <2>3 DEF SegmentsDisjoint, StackInv, Apart, Place
<1> QED BY <1>1, SortInvAlways, PTL

\* No scan of a partition leaves its segment, so no subscript leaves LIST
\* (quick_sort.adb:67-77).
THEOREM ScansStayInRange == ASSUME EvenCapacity PROVE Spec => []ScansInRange
<1>1. SortInv => ScansInRange
  <2> SUFFICES ASSUME SortInv, NEW t \in Sort
               PROVE  /\ pc[t] = "scan_g" => G[t] \in Held(t)
                      /\ pc[t] = "scan_d" => D[t] \in Held(t)
    BY DEF ScansInRange
  <2>1. /\ ELG[t] \in 1..M + 1 /\ ELD[t] \in 0..M /\ G[t] \in 1..M + 1 /\ D[t] \in 0..M
        /\ TaskInv(t)
    BY DEF SortInv, TypeOK
  <2>2. CASE pc[t] = "scan_g"
    <3>1. ELG[t] <= G[t] /\ \E i \in G[t]..ELD[t] : LIST[i] >= MEDIUM[t]
      BY <2>1, <2>2 DEF TaskInv
    <3> QED BY <2>1, <2>2, <3>1, QuickSortAssumption DEF Held
  <2>3. CASE pc[t] = "scan_d"
    <3>1. D[t] <= ELD[t] /\ \E i \in ELG[t]..D[t] : LIST[i] <= MEDIUM[t]
      BY <2>1, <2>3 DEF TaskInv
    <3> QED BY <2>1, <2>3, <3>1, QuickSortAssumption DEF Held
  <2> QED BY <2>2, <2>3
<1> QED BY <1>1, SortInvAlways, PTL

\* What is out of order is inside one outstanding segment.
THEOREM OrderedElsewhereAlways == ASSUME EvenCapacity PROVE Spec => []OrderedElsewhere
<1>1. SortInv => OrderedElsewhere
  <2> SUFFICES ASSUME SortInv, watchdog # "get", NEW i \in Index, NEW j \in Index, i < j
               PROVE  LIST[i] <= LIST[j] \/ \E s \in Outstanding : {i, j} \subseteq s
    BY QuickSortAssumption DEF OrderedElsewhere, Index
  <2>1. PICK h \in Nat : StackInv(h)
    BY DEF SortInv
  <2>2. Len(stack) \div 2 = h
    BY <2>1 DEF StackInv
  <2>3. /\ \A t \in Sort : Held(t) \in Outstanding
        /\ \A k \in 1..h : Place(k) \in Outstanding
    BY <2>2 DEF Outstanding, Stacked, Place
  <2> QED BY <2>1, <2>3 DEF StackInv, Ordered
<1> QED BY <1>1, SortInvAlways, PTL

-----------------------------------------------------------------------------
(* The result.                                                              *)

\* An exchange of two elements leaves as many of each number.
LEMMA ExchangeKeepsNumbers ==
  ASSUME LIST \in [Index -> Value], NEW g \in Index, NEW d \in Index,
         LIST' = [LIST EXCEPT ![g] = LIST[d], ![d] = LIST[g]], NEW v
  PROVE  Cardinality({i \in Index : LIST'[i] = v}) = Cardinality({i \in Index : LIST[i] = v})
<1> DEFINE A == {i \in Index : LIST[i] = v}
           B == {i \in Index : LIST'[i] = v}
           swap == [i \in B |-> IF i = g THEN d ELSE IF i = d THEN g ELSE i]
<1>1. \A i \in Index : LIST'[i] = LIST[IF i = g THEN d ELSE IF i = d THEN g ELSE i]
  OBVIOUS
<1>2. swap \in [B -> A]
  BY <1>1
<1>3. \A i, j \in B : swap[i] = swap[j] => i = j
  OBVIOUS
<1>4. \A j \in A : \E i \in B : swap[i] = j
  <2> TAKE j \in A
  <2>1. (IF j = g THEN d ELSE IF j = d THEN g ELSE j) \in B
    BY <1>1
  <2> QED BY <2>1
<1>5. IsFiniteSet(B)
  <2>1. IsFiniteSet(Index)
    BY FS_Interval, QuickSortAssumption DEF Index
  <2> QED BY <2>1, FS_Subset
<1>6. ExistsBijection(B, A)
  <2> HIDE DEF swap
  <2>1. swap \in Bijection(B, A)
    BY <1>2, <1>3, <1>4 DEF Bijection, Injection, Surjection, IsInjective
  <2> QED BY <2>1 DEF ExistsBijection
<1> QED BY <1>5, <1>6, FS_Bijection

\* Once WATCHDOG has printed, nothing moves LIST; with the priorities it prints only
\* when all tasks wait for a segment.
ResultInv == /\ SameNumbers
             /\ ByPriority /\ watchdog = "done" => Sorted

\* The result before anything has run.
LEMMA ResultInvInit == Init => ResultInv
  BY DEF Init, ResultInv, SameNumbers

\* Every step keeps the numbers, and WATCHDOG prints only a sorted list.
LEMMA ResultInvNext == EvenCapacity /\ SortInv /\ ResultInv /\ [Next]_vars => ResultInv'
<1> SUFFICES ASSUME EvenCapacity, SortInv, ResultInv, [Next]_vars PROVE ResultInv'
  OBVIOUS
<1>1. ASSUME UNCHANGED <<input, LIST, watchdog>> PROVE ResultInv'
  BY <1>1 DEF ResultInv, SameNumbers, Sorted
<1>2. ASSUME NEW t \in Sort, Swap(t) PROVE ResultInv'
  <2>1. watchdog # "done" /\ UNCHANGED <<input, watchdog>>
    BY <1>2 DEF Swap, Here
  <2>2. CASE G[t] <= D[t]
    <3>1. LIST' = [LIST EXCEPT ![G[t]] = LIST[D[t]], ![D[t]] = LIST[G[t]]]
      BY <1>2, <2>2 DEF Swap
    <3>2. G[t] \in Index /\ D[t] \in Index
      <4>1. pc[t] = "swap" /\ TaskInv(t) /\ G[t] \in 1..M + 1 /\ D[t] \in 0..M
            /\ ELG[t] \in 1..M + 1 /\ ELD[t] \in 0..M
        BY <1>2 DEF Swap, Here, SortInv, TypeOK
      <4>2. G[t] <= ELD[t] /\ ELG[t] <= D[t]
        BY <4>1 DEF TaskInv
      <4> QED BY <4>1, <4>2, QuickSortAssumption DEF Index
    <3>3. SameNumbers'
      BY <2>1, <3>1, <3>2, ExchangeKeepsNumbers DEF ResultInv, SameNumbers, SortInv, TypeOK
    <3> QED BY <2>1, <3>3 DEF ResultInv
  <2>3. CASE ~(G[t] <= D[t])
    <3>1. LIST' = LIST
      BY <1>2, <2>3 DEF Swap
    <3> QED BY <1>1, <2>1, <3>1
  <2> QED BY <2>2, <2>3
<1>3. ASSUME NEW t \in Sort, SortNext(t) PROVE ResultInv'
  BY <1>1, <1>2, <1>3 DEF SortNext, Prendre, ReadMedium, ScanG, ScanD, PoserLeft, PoserRight
<1>4. CASE Submit
  BY <1>4 DEF Submit, ResultInv, SameNumbers
<1>5. CASE PrintAndAbort
  <2>1. UNCHANGED <<input, LIST>> /\ stack = <<>> /\ watchdog # "get" /\ (ByPriority => Idle)
    BY <1>5 DEF PrintAndAbort, MayRun, EMPTY, Segments!EMPTY
  <2>2. ASSUME ByPriority PROVE Sorted
    <3>1. ~FULL
      BY <2>1, QuickSortAssumption DEF FULL, Segments!FULL, SortInv, StartInv
    <3>2. \A t \in Sort : Held(t) = {}
      BY <2>1, <2>2, <3>1 DEF Idle, Held
    <3>3. PICK h \in Nat : StackInv(h)
      BY DEF SortInv
    <3>4. h = 0
      BY <2>1, <3>3 DEF StackInv
    <3>5. Ordered(0)
      BY <3>3, <3>4 DEF StackInv
    <3> QED BY <2>1, <3>2, <3>5 DEF Ordered, Sorted
  <2>3. SameNumbers' /\ (Sorted => Sorted')
    BY <2>1 DEF ResultInv, SameNumbers, Sorted
  <2> QED BY <2>2, <2>3 DEF ResultInv
<1>6. CASE UNCHANGED vars
  BY <1>1, <1>6 DEF vars
<1> QED BY <1>3, <1>4, <1>5, <1>6 DEF Next

\* What the program prints is the numbers the user entered, sorted, when WATCHDOG
\* runs at a lower priority than the tasks SORT (quick_sort.adb:99, :106-110).
THEOREM PrintsSortedNumbers == ASSUME EvenCapacity, ByPriority PROVE Spec => []PrintsSorted
<1>1. Init => ResultInv
  BY ResultInvInit
<1>2. SortInv /\ ResultInv /\ [Next]_vars => ResultInv'
  BY ResultInvNext
<1>3. ResultInv => PrintsSorted
  BY DEF ResultInv, PrintsSorted
<1> QED BY <1>1, <1>2, <1>3, SortInvAlways, PTL DEF Spec

-----------------------------------------------------------------------------
(* Room on the stack.                                                       *)

\* Until the first exchange of a partition the scans have between them an element
\* equal to MEDIUM; after it both have left the ends of the segment.
PassedInv(t) ==
    /\ pc[t] \in {"scan_g", "scan_d", "swap"} =>
          \/ ELG[t] < G[t] /\ D[t] < ELD[t]
          \/ \E m \in G[t]..D[t] : LIST[m] = MEDIUM[t]
    /\ pc[t] = "poser_left" => ELG[t] < G[t] /\ D[t] < ELD[t]

\* Each of the h segments on the stack, and each task that gives back its right part,
\* has an element of LIST of its own, in no other segment; a segment without
\* elements has one that no segment has any more.
OwnCells(h, cell, mine) ==
    /\ Len(stack) = 2 * h
    /\ \A j, k \in 1..h : j # k => cell[j] # cell[k] /\ cell[j] \notin Place(k)
    /\ \A k \in 1..h, t \in Sort : cell[k] \notin Held(t)
    /\ \A t \in Sort : pc[t] = "poser_right" =>
          /\ \A k \in 1..h : mine[t] # cell[k] /\ mine[t] \notin Place(k)
          /\ \A u \in Sort \ {t} : /\ mine[t] \notin Held(u)
                                   /\ pc[u] = "poser_right" => mine[u] # mine[t]

CellInv == \E h \in Nat : \E cell \in [1..h -> Index], mine \in [Sort -> Index] : OwnCells(h, cell, mine)

RoomInv == (\A t \in Sort : PassedInv(t)) /\ CellInv

\* A task keeps its PassedInv when its part of LIST and what it knows of it stay.
LEMMA PassedOther ==
  ASSUME TypeOK, NEW u \in Sort, TaskInv(u), PassedInv(u),
         pc'[u] = pc[u], G'[u] = G[u], D'[u] = D[u], MEDIUM'[u] = MEDIUM[u],
         ELG'[u] = ELG[u], ELD'[u] = ELD[u],
         \A i \in Held(u) : LIST'[i] = LIST[i]
  PROVE  PassedInv(u)'
<1>1. ELG[u] \in 1..M + 1 /\ ELD[u] \in 0..M /\ G[u] \in 1..M + 1 /\ D[u] \in 0..M
  BY DEF TypeOK
<1>2. pc[u] \in {"scan_g", "scan_d", "swap"} => \A m \in G[u]..D[u] : m \in Held(u)
  BY <1>1, QuickSortAssumption DEF TaskInv, Held
<1> QED BY <1>2 DEF PassedInv

\* A step in a partition (quick_sort.adb:65-79).
LEMMA PassedPartition ==
  ASSUME SortInv, NEW t \in Sort, PassedInv(t), ReadMedium(t) \/ ScanG(t) \/ ScanD(t) \/ Swap(t)
  PROVE  PassedInv(t)'
<1>1. /\ ELG[t] \in 1..M + 1 /\ ELD[t] \in 0..M /\ G[t] \in 1..M + 1 /\ D[t] \in 0..M
      /\ MEDIUM[t] \in Int /\ \A i \in Index : LIST[i] \in Int
      /\ pc \in [Sort -> Locations] /\ G \in [Sort -> 1..M + 1] /\ D \in [Sort -> 0..M]
      /\ MEDIUM \in [Sort -> Value]
  BY QuickSortAssumption DEF SortInv, TypeOK
<1>2. TaskInv(t)
  BY DEF SortInv
<1>3. CASE ReadMedium(t)
  <2>1. /\ pc'[t] = "scan_g" /\ MEDIUM'[t] = LIST[(ELG[t] + ELD[t]) \div 2]
        /\ G' = G /\ D' = D /\ LIST' = LIST
        /\ ELG[t] < ELD[t] /\ G[t] = ELG[t] /\ D[t] = ELD[t]
    BY <1>1, <1>2, <1>3 DEF ReadMedium, Here, Goto, TaskInv
  <2>2. (ELG[t] + ELD[t]) \div 2 \in G[t]..D[t]
    BY <1>1, <2>1, QuickSortAssumption
  <2> QED BY <2>1, <2>2 DEF PassedInv
<1>4. CASE ScanG(t)
  <2>1. /\ pc[t] = "scan_g" /\ UNCHANGED <<LIST, ELG, ELD, D, MEDIUM>>
        /\ \/ LIST[G[t]] < MEDIUM[t] /\ G'[t] = G[t] + 1 /\ pc'[t] = "scan_g"
           \/ G'[t] = G[t] /\ pc'[t] = "scan_d"
    BY <1>1, <1>4 DEF ScanG, Here, Goto
  <2>2. CASE LIST[G[t]] < MEDIUM[t] /\ G'[t] = G[t] + 1 /\ pc'[t] = "scan_g"
    <3>1. \A m \in G[t]..D[t] : LIST[m] = MEDIUM[t] => m \in G'[t]..D[t]
      <4> SUFFICES ASSUME NEW m \in G[t]..D[t], LIST[m] = MEDIUM[t] PROVE m \in G'[t]..D[t]
        OBVIOUS
      <4>1. m # G[t] \/ LIST[G[t]] = MEDIUM[t]
        OBVIOUS
      <4>2. m # G[t]
        BY <1>1, <2>2, <4>1
      <4> QED BY <1>1, <2>2, <4>2
    <3> QED BY <1>1, <2>1, <2>2, <3>1, QuickSortAssumption DEF PassedInv
  <2>3. CASE G'[t] = G[t] /\ pc'[t] = "scan_d"
    BY <2>1, <2>3 DEF PassedInv
  <2> QED BY <2>1, <2>2, <2>3
<1>5. CASE ScanD(t)
  <2>1. /\ pc[t] = "scan_d" /\ UNCHANGED <<LIST, ELG, ELD, G, MEDIUM>>
        /\ \/ LIST[D[t]] > MEDIUM[t] /\ D'[t] = D[t] - 1 /\ pc'[t] = "scan_d"
           \/ D'[t] = D[t] /\ pc'[t] = "swap"
    BY <1>1, <1>5 DEF ScanD, Here, Goto
  <2>2. CASE LIST[D[t]] > MEDIUM[t] /\ D'[t] = D[t] - 1 /\ pc'[t] = "scan_d"
    <3>1. \A m \in G[t]..D[t] : LIST[m] = MEDIUM[t] => m \in G[t]..D'[t]
      <4> SUFFICES ASSUME NEW m \in G[t]..D[t], LIST[m] = MEDIUM[t] PROVE m \in G[t]..D'[t]
        OBVIOUS
      <4>1. m # D[t] \/ LIST[D[t]] = MEDIUM[t]
        OBVIOUS
      <4>2. m # D[t]
        BY <1>1, <2>2, <4>1
      <4> QED BY <1>1, <2>2, <4>2
    <3> QED BY <1>1, <2>1, <2>2, <3>1, QuickSortAssumption DEF PassedInv
  <2>3. CASE D'[t] = D[t] /\ pc'[t] = "swap"
    BY <2>1, <2>3 DEF PassedInv
  <2> QED BY <2>1, <2>2, <2>3
<1>6. CASE Swap(t)
  <2>1. /\ pc[t] = "swap" /\ UNCHANGED <<ELG, ELD, MEDIUM>>
        /\ pc'[t] \in {"poser_left", "scan_g"}
        /\ \/ G[t] <= D[t] /\ G'[t] = G[t] + 1 /\ D'[t] = D[t] - 1
           \/ ~(G[t] <= D[t]) /\ G' = G /\ D' = D /\ LIST' = LIST
    BY <1>1, <1>6 DEF Swap, Here, Goto
  <2>2. ELG[t] <= G[t] /\ D[t] <= ELD[t]
    BY <1>2, <2>1 DEF TaskInv
  <2>3. ELG'[t] < G'[t] /\ D'[t] < ELD'[t]
    <3>1. CASE G[t] <= D[t] /\ G'[t] = G[t] + 1 /\ D'[t] = D[t] - 1
      BY <1>1, <2>1, <2>2, <3>1, QuickSortAssumption
    <3>2. CASE ~(G[t] <= D[t]) /\ G' = G /\ D' = D /\ LIST' = LIST
      <4>1. G[t]..D[t] = {}
        BY <1>1, <3>2, QuickSortAssumption
      <4> QED BY <2>1, <3>2, <4>1 DEF PassedInv
    <3> QED BY <2>1, <3>1, <3>2
  <2> QED BY <2>1, <2>3 DEF PassedInv
<1> QED BY <1>3, <1>4, <1>5, <1>6

\* Every step of a task keeps PassedInv of all tasks.
LEMMA PassedStep ==
  ASSUME SortInv, \A u \in Sort : PassedInv(u), NEW t \in Sort, SortNext(t)
  PROVE  \A u \in Sort : PassedInv(u)'
<1>1. ASSUME NEW u \in Sort \ {t} PROVE PassedInv(u)'
  <2>1. /\ pc'[u] = pc[u] /\ G'[u] = G[u] /\ D'[u] = D[u] /\ MEDIUM'[u] = MEDIUM[u]
        /\ ELG'[u] = ELG[u] /\ ELD'[u] = ELD[u]
    BY DEF SortInv, TypeOK, SortNext, Prendre, ReadMedium, ScanG, ScanD, Swap, PoserLeft, PoserRight, Goto, locals
  <2>2. \A i \in Held(u) : LIST'[i] = LIST[i]
    <3>1. CASE Swap(t) /\ G[t] <= D[t]
      <4>1. /\ pc[t] = "swap" /\ LIST' = [LIST EXCEPT ![G[t]] = LIST[D[t]], ![D[t]] = LIST[G[t]]]
        BY <3>1 DEF Swap, Here
      <4>2. G[t] \in Held(t) /\ D[t] \in Held(t)
        <5>1. ELG[t] <= G[t] /\ D[t] <= ELD[t] /\ G[t] <= ELD[t] /\ ELG[t] <= D[t]
          BY <4>1 DEF SortInv, TaskInv
        <5> QED BY <4>1, <5>1, QuickSortAssumption DEF SortInv, TypeOK, Held
      <4>3. Held(t) \cap Held(u) = {}
        BY DEF SortInv, StackInv, Apart
      <4>4. \A i \in Held(u) : i # G[t] /\ i # D[t]
        BY <4>2, <4>3
      <4>5. LIST \in [Index -> Value] /\ \A i \in Held(u) : i \in Index
        BY QuickSortAssumption DEF SortInv, TypeOK, Held, Index
      <4> QED BY <4>1, <4>4, <4>5
    <3>2. CASE ~(Swap(t) /\ G[t] <= D[t])
      <4>1. LIST' = LIST
        BY <3>2 DEF SortNext, Prendre, ReadMedium, ScanG, ScanD, Swap, PoserLeft, PoserRight
      <4> QED BY <4>1
    <3> QED BY <3>1, <3>2
  <2> QED BY <2>1, <2>2, PassedOther DEF SortInv
<1>2. PassedInv(t)'
  <2>1. CASE Prendre(t) \/ PoserLeft(t) \/ PoserRight(t)
    <3>1. pc'[t] \in {"prendre", "medium", "poser_right"}
      BY <2>1 DEF Prendre, PoserLeft, PoserRight, Here, Goto, SortInv, TypeOK
    <3> QED BY <3>1 DEF PassedInv
  <2> QED BY <2>1, PassedPartition DEF SortNext
<1> QED BY <1>1, <1>2

\* What a step of t changes of the segments held.
LEMMA OthersHold ==
  ASSUME TypeOK, NEW t \in Sort, SortNext(t)
  PROVE  \A u \in Sort \ {t} : pc'[u] = pc[u] /\ Held(u)' = Held(u)
BY DEF TypeOK, SortNext, Prendre, ReadMedium, ScanG, ScanD, Swap, PoserLeft, PoserRight, Goto, Held, locals

\* Within a partition no segment changes.
LEMMA CellsPartition ==
  ASSUME SortInv, CellInv, NEW t \in Sort, ReadMedium(t) \/ ScanG(t) \/ ScanD(t) \/ Swap(t)
  PROVE  CellInv'
<1>1. PICK h \in Nat : \E c \in [1..h -> Index], m \in [Sort -> Index] : OwnCells(h, c, m)
  BY DEF CellInv
<1>2. PICK cell \in [1..h -> Index], mine \in [Sort -> Index] : OwnCells(h, cell, mine)
  BY <1>1
<1>3. /\ stack' = stack /\ ELG' = ELG /\ ELD' = ELD
      /\ pc[t] # "prendre" /\ pc'[t] # "prendre" /\ pc'[t] # "poser_right"
  BY DEF ReadMedium, ScanG, ScanD, Swap, Here, Goto, SortInv, TypeOK
<1>4. \A u \in Sort \ {t} : pc'[u] = pc[u] /\ Held(u)' = Held(u)
  BY OthersHold DEF SortNext, SortInv
<1>5. Held(t)' = Held(t)
  BY <1>3 DEF Held
<1>6. \A k \in 1..h : Place(k)' = Place(k)
  BY <1>3 DEF Place
<1>7. OwnCells(h, cell, mine)'
  BY <1>2, <1>3, <1>4, <1>5, <1>6 DEF OwnCells
<1> QED BY <1>7 DEF CellInv

\* The segment taken gives up its element.
LEMMA CellsPrendre ==
  ASSUME SortInv, CellInv, NEW t \in Sort, Prendre(t)
  PROVE  CellInv'
<1>1. PICK n \in Nat : \E c \in [1..n -> Index], m \in [Sort -> Index] : OwnCells(n, c, m)
  BY DEF CellInv
<1>2. PICK cell \in [1..n -> Index], mine \in [Sort -> Index] : OwnCells(n, cell, mine)
  BY <1>1
<1>3. n # 0 /\ Len(stack) = 2 * n
  BY <1>2 DEF OwnCells, Prendre, EMPTY, Segments!EMPTY, SortInv, TypeOK
<1> DEFINE h == n - 1
           own == [k \in 1..h |-> cell[k]]
<1>4. h \in Nat /\ n = h + 1 /\ n \in 1..n /\ \A k \in 1..h : k \in 1..n /\ k # n
  BY <1>3
<1>5. /\ Len(stack') = 2 * h /\ \A k \in 1..h : Place(k)' = Place(k)
      /\ Held(t)' \subseteq Place(n) /\ pc'[t] \in {"prendre", "medium"}
  <2>1. PICK m \in Nat : StackInv(m)
    BY DEF SortInv
  <2>2. m = n
    BY <1>3, <2>1 DEF StackInv
  <2>3. StackInv(n)
    BY <2>1, <2>2
  <2>4. /\ Len(stack') = 2 * (n - 1) /\ \A k \in 1..(n - 1) : Place(k)' = Place(k)
        /\ Held(t)' \subseteq Place(n)
    BY <2>3, TakenPlace
  <2>5. pc'[t] \in {"prendre", "medium"}
    BY DEF Prendre, Here, Goto, SortInv, TypeOK
  <2> QED BY <2>4, <2>5
<1>6. \A u \in Sort \ {t} : pc'[u] = pc[u] /\ Held(u)' = Held(u)
  BY OthersHold DEF SortNext, SortInv
<1>7. own \in [1..h -> Index] /\ \A k \in 1..h : own[k] = cell[k]
  BY <1>4
<1> HIDE DEF own, h
<1>8. OwnCells(h, own, mine)'
  <2>1. \A j, k \in 1..h : j # k => own[j] # own[k] /\ own[j] \notin Place(k)'
    BY <1>2, <1>4, <1>5, <1>7 DEF OwnCells
  <2>2. \A k \in 1..h, u \in Sort : own[k] \notin Held(u)'
    BY <1>2, <1>4, <1>5, <1>6, <1>7 DEF OwnCells
  <2>3. ASSUME NEW u \in Sort, pc'[u] = "poser_right"
        PROVE  /\ \A k \in 1..h : mine[u] # own[k] /\ mine[u] \notin Place(k)'
               /\ \A v \in Sort \ {u} : /\ mine[u] \notin Held(v)'
                                        /\ pc'[v] = "poser_right" => mine[v] # mine[u]
    <3>1. u # t /\ pc[u] = "poser_right"
      BY <1>5, <1>6, <2>3
    <3>2. \A v \in Sort \ {u} : pc'[v] = "poser_right" => pc[v] = "poser_right"
      BY <1>5, <1>6
    <3> QED BY <1>2, <1>4, <1>5, <1>6, <1>7, <3>1, <3>2 DEF OwnCells
  <2> QED BY <1>5, <2>1, <2>2, <2>3 DEF OwnCells
<1> QED BY <1>4, <1>7, <1>8 DEF CellInv


\* The left part gets the first element of the segment, the right part the last: each
\* is outside the other part (quick_sort.adb:81).
LEMMA CellsPoserLeft ==
  ASSUME EvenCapacity, SortInv, NEW t \in Sort, PassedInv(t), CellInv, PoserLeft(t)
  PROVE  CellInv'
<1>1. PICK h \in Nat : \E c \in [1..h -> Index], m \in [Sort -> Index] : OwnCells(h, c, m)
  BY DEF CellInv
<1>2. PICK cell \in [1..h -> Index], mine \in [Sort -> Index] : OwnCells(h, cell, mine)
  BY <1>1
<1>3. PICK m \in Nat : StackInv(m)
  BY DEF SortInv
<1>4. StackInv(h)
  <2>1. m = h
    BY <1>2, <1>3 DEF OwnCells, StackInv
  <2> QED BY <1>3, <2>1
<1>5. /\ pc[t] = "poser_left" /\ POSER(ELG[t], D[t]) /\ UNCHANGED <<ELD, G, D>>
      /\ ELG' = [ELG EXCEPT ![t] = G[t]] /\ pc' = [pc EXCEPT ![t] = "poser_right"]
  BY DEF PoserLeft, Here, Goto
<1>6. /\ ELG[t] \in 1..M + 1 /\ ELD[t] \in 0..M /\ G[t] \in 1..M + 1 /\ D[t] \in 0..M
      /\ ELG[t] < ELD[t] /\ ELG[t] < G[t] /\ D[t] < ELD[t] /\ D[t] < G[t] /\ D[t] <= ELD[t]
      /\ ELG[t] <= G[t]
  BY <1>5 DEF SortInv, TypeOK, TaskInv, PassedInv
<1>7. PICK first \in Index, last \in Index :
         /\ first # last /\ first \in Held(t) /\ last \in Held(t)
         /\ first \notin G[t]..ELD[t] /\ last \notin ELG[t]..D[t]
  <2>1. /\ ELG[t] \in Index /\ ELD[t] \in Index /\ ELG[t] # ELD[t]
        /\ ELG[t] \in Held(t) /\ ELD[t] \in Held(t)
        /\ ELG[t] \notin G[t]..ELD[t] /\ ELD[t] \notin ELG[t]..D[t]
    BY <1>5, <1>6, QuickSortAssumption DEF Held, Index
  <2> QED BY <2>1
<1> DEFINE own == [k \in 1..(h + 1) |-> IF k = h + 1 THEN first ELSE cell[k]]
           her == [mine EXCEPT ![t] = last]
<1>8. /\ Len(stack') = 2 * (h + 1)
      /\ \A k \in 1..h : Place(k)' = Place(k)
      /\ Place(h + 1)' = ELG[t]..D[t]
      /\ \A k \in 1..(h + 1) : k \in 1..h \/ k = h + 1
  <2>1. ELG[t] \in 0..M + 1 /\ D[t] \in 0..M + 1
    BY <1>6, QuickSortAssumption
  <2>2. TypeOK /\ Len(stack) = 2 * h
    BY <1>4 DEF SortInv, StackInv
  <2>3. \A k \in 1..h : stack[2 * k - 1] \in 1..M + 1 /\ stack[2 * k] \in 0..M
    BY <1>4 DEF StackInv
  <2>4. Len(stack') = 2 * (h + 1)
    BY <1>5, <2>1, <2>2, PosedPair
  <2>5. /\ \A k \in 1..h : Place(k)' = Place(k)
        /\ Place(h + 1)' = ELG[t]..D[t]
        /\ \A k \in 1..(h + 1) : k \in 1..h \/ k = h + 1
    <3> DEFINE a == ELG[t]  b == D[t]
    <3>1. a \in 1..M + 1 /\ b \in 0..M /\ POSER(a, b)
      BY <1>5, <1>6
    <3> HIDE DEF a, b
    <3>2. /\ \A k \in 1..h : Place(k)' = Place(k)
          /\ Place(h + 1)' = a..b
          /\ \A k \in 1..(h + 1) : k \in 1..h \/ k = h + 1
      BY <2>2, <2>3, <3>1, PosedPlace
    <3> QED BY <3>2 DEF a, b
  <2> QED BY <2>4, <2>5
<1>9. /\ pc'[t] = "poser_right" /\ Held(t)' = G[t]..ELD[t] /\ Held(t) = ELG[t]..ELD[t]
      /\ \A u \in Sort \ {t} : pc'[u] = pc[u] /\ Held(u)' = Held(u)
  BY <1>5 DEF Held, SortInv, TypeOK
<1>10. /\ Place(h + 1)' \subseteq Held(t) /\ Held(t)' \subseteq Held(t)
  BY <1>6, <1>8, <1>9
<1>11. Apart(h)
  BY <1>4 DEF StackInv
<1>12. /\ own \in [1..(h + 1) -> Index] /\ her \in [Sort -> Index]
       /\ own[h + 1] = first /\ \A k \in 1..h : own[k] = cell[k]
       /\ her[t] = last /\ \A u \in Sort \ {t} : her[u] = mine[u]
  <2>1. \A k \in 1..(h + 1) : k = h + 1 \/ cell[k] \in Index
    BY <1>8
  <2>2. h + 1 \in 1..(h + 1) /\ \A k \in 1..h : k \in 1..(h + 1) /\ k # h + 1
    OBVIOUS
  <2> QED BY <1>7, <2>1, <2>2
<1> HIDE DEF own, her
<1>13. /\ \A k \in 1..h : cell[k] # first /\ cell[k] # last
       /\ \A u \in Sort \ {t} : pc[u] = "poser_right" => mine[u] # first /\ mine[u] # last
  BY <1>2, <1>7 DEF OwnCells
<1>14. \A j, k \in 1..(h + 1) : j # k => own[j] # own[k] /\ own[j] \notin Place(k)'
  <2>1. \A j, k \in 1..h : j # k => own[j] # own[k] /\ own[j] \notin Place(k)'
    BY <1>2, <1>8, <1>12 DEF OwnCells
  <2>2. \A k \in 1..h : /\ own[k] # own[h + 1] /\ own[k] \notin Place(h + 1)'
                        /\ own[h + 1] \notin Place(k)'
    BY <1>2, <1>7, <1>8, <1>10, <1>11, <1>12, <1>13 DEF OwnCells, Apart
  <2> QED BY <1>8, <2>1, <2>2
<1>15. \A k \in 1..(h + 1), u \in Sort : own[k] \notin Held(u)'
  <2>1. \A k \in 1..h, u \in Sort : own[k] \notin Held(u)'
    <3> TAKE k \in 1..h, u \in Sort
    <3>1. own[k] \notin Held(u) /\ own[k] \notin Held(t)
      BY <1>2, <1>12 DEF OwnCells
    <3> QED BY <1>9, <1>10, <3>1
  <2>2. \A u \in Sort : own[h + 1] \notin Held(u)'
    BY <1>7, <1>9, <1>11, <1>12 DEF Apart
  <2> QED BY <1>8, <2>1, <2>2
<1>16. ASSUME NEW u \in Sort, pc'[u] = "poser_right"
       PROVE  /\ \A k \in 1..(h + 1) : her[u] # own[k] /\ her[u] \notin Place(k)'
              /\ \A v \in Sort \ {u} : /\ her[u] \notin Held(v)'
                                       /\ pc'[v] = "poser_right" => her[v] # her[u]
  <2>1. CASE u = t
    <3>1. \A k \in 1..h : her[u] # own[k] /\ her[u] \notin Place(k)'
      BY <1>7, <1>8, <1>11, <1>12, <1>13, <2>1 DEF Apart
    <3>2. her[u] # own[h + 1] /\ her[u] \notin Place(h + 1)'
      BY <1>7, <1>8, <1>12, <2>1
    <3>3. \A v \in Sort \ {u} : /\ her[u] \notin Held(v)'
                                /\ pc'[v] = "poser_right" => her[v] # her[u]
      BY <1>7, <1>9, <1>11, <1>12, <1>13, <2>1 DEF Apart
    <3> QED BY <1>8, <3>1, <3>2, <3>3
  <2>2. CASE u # t
    <3>1. pc[u] = "poser_right" /\ her[u] = mine[u] /\ mine[u] \notin Held(t)
      BY <1>2, <1>9, <1>12, <1>16, <2>2 DEF OwnCells
    <3>2. \A k \in 1..h : her[u] # own[k] /\ her[u] \notin Place(k)'
      BY <1>2, <1>8, <1>12, <3>1 DEF OwnCells
    <3>3. her[u] # own[h + 1] /\ her[u] \notin Place(h + 1)'
      BY <1>10, <1>12, <1>13, <2>2, <3>1
    <3>4. her[u] \notin Held(t)' /\ her[t] # her[u]
      BY <1>10, <1>12, <1>13, <2>2, <3>1
    <3>5. \A v \in Sort \ {u, t} : /\ her[u] \notin Held(v)'
                                   /\ pc'[v] = "poser_right" => her[v] # her[u]
      BY <1>2, <1>9, <1>12, <3>1 DEF OwnCells
    <3> QED BY <1>8, <3>2, <3>3, <3>4, <3>5
  <2> QED BY <2>1, <2>2
<1>17. OwnCells(h + 1, own, her)'
  <2>1. Len(stack)' = 2 * (h + 1)
    BY <1>8
  <2>2. \A u \in Sort : pc'[u] = "poser_right" =>
          /\ \A k \in 1..(h + 1) : her[u] # own[k] /\ her[u] \notin Place(k)'
          /\ \A v \in Sort \ {u} : /\ her[u] \notin Held(v)'
                                   /\ pc'[v] = "poser_right" => her[v] # her[u]
    BY <1>16
  <2> QED BY <1>14, <1>15, <2>1, <2>2 DEF OwnCells
<1> QED BY <1>12, <1>17 DEF CellInv

\* The right part goes on the stack with the element of the task (quick_sort.adb:84).
LEMMA CellsPoserRight ==
  ASSUME EvenCapacity, SortInv, NEW t \in Sort, CellInv, PoserRight(t)
  PROVE  CellInv'
<1>1. PICK h \in Nat : \E c \in [1..h -> Index], m \in [Sort -> Index] : OwnCells(h, c, m)
  BY DEF CellInv
<1>2. PICK cell \in [1..h -> Index], mine \in [Sort -> Index] : OwnCells(h, cell, mine)
  BY <1>1
<1>3. PICK m \in Nat : StackInv(m)
  BY DEF SortInv
<1>4. StackInv(h)
  <2>1. m = h
    BY <1>2, <1>3 DEF OwnCells, StackInv
  <2> QED BY <1>3, <2>1
<1>5. /\ pc[t] = "poser_right" /\ POSER(ELG[t], ELD[t])
      /\ ELG[t] \in 1..M + 1 /\ ELD[t] \in 0..M
      /\ pc'[t] = "prendre" /\ Held(t) = ELG[t]..ELD[t]
  BY DEF PoserRight, Here, Goto, SortInv, TypeOK, Held
<1> DEFINE own == [k \in 1..(h + 1) |-> IF k = h + 1 THEN mine[t] ELSE cell[k]]
<1>6. /\ Len(stack') = 2 * (h + 1)
      /\ \A k \in 1..h : Place(k)' = Place(k)
      /\ Place(h + 1)' = Held(t)
      /\ \A k \in 1..(h + 1) : k \in 1..h \/ k = h + 1
  <2>1. ELG[t] \in 0..M + 1 /\ ELD[t] \in 0..M + 1
    BY <1>5, QuickSortAssumption
  <2>2. TypeOK /\ Len(stack) = 2 * h
    BY <1>4 DEF SortInv, StackInv
  <2>3. \A k \in 1..h : stack[2 * k - 1] \in 1..M + 1 /\ stack[2 * k] \in 0..M
    BY <1>4 DEF StackInv
  <2>4. Len(stack') = 2 * (h + 1)
    BY <1>5, <2>1, <2>2, PosedPair
  <2>5. /\ \A k \in 1..h : Place(k)' = Place(k)
        /\ Place(h + 1)' = ELG[t]..ELD[t]
        /\ \A k \in 1..(h + 1) : k \in 1..h \/ k = h + 1
    <3> DEFINE a == ELG[t]  b == ELD[t]
    <3>1. a \in 1..M + 1 /\ b \in 0..M /\ POSER(a, b)
      BY <1>5
    <3> HIDE DEF a, b
    <3>2. /\ \A k \in 1..h : Place(k)' = Place(k)
          /\ Place(h + 1)' = a..b
          /\ \A k \in 1..(h + 1) : k \in 1..h \/ k = h + 1
      BY <2>2, <2>3, <3>1, PosedPlace
    <3> QED BY <3>2 DEF a, b
  <2> QED BY <1>5, <2>4, <2>5
<1>7. Held(t)' = {} /\ \A u \in Sort \ {t} : pc'[u] = pc[u] /\ Held(u)' = Held(u)
  BY <1>5, OthersHold DEF SortNext, SortInv, Held
<1>8. own \in [1..(h + 1) -> Index] /\ own[h + 1] = mine[t] /\ \A k \in 1..h : own[k] = cell[k]
  <2>1. \A k \in 1..(h + 1) : k = h + 1 \/ cell[k] \in Index
    BY <1>6
  <2>2. h + 1 \in 1..(h + 1) /\ \A k \in 1..h : k \in 1..(h + 1) /\ k # h + 1
    OBVIOUS
  <2> QED BY <2>1, <2>2
<1> HIDE DEF own
<1>9. \A j, k \in 1..(h + 1) : j # k => own[j] # own[k] /\ own[j] \notin Place(k)'
  <2>1. \A j, k \in 1..h : j # k => own[j] # own[k] /\ own[j] \notin Place(k)'
    BY <1>2, <1>6, <1>8 DEF OwnCells
  <2>2. \A k \in 1..h : /\ own[k] # own[h + 1] /\ own[k] \notin Place(h + 1)'
                        /\ own[h + 1] \notin Place(k)'
    BY <1>2, <1>5, <1>6, <1>8 DEF OwnCells
  <2> QED BY <1>6, <2>1, <2>2
<1>10. \A k \in 1..(h + 1), u \in Sort : own[k] \notin Held(u)'
  <2>1. \A k \in 1..h, u \in Sort : own[k] \notin Held(u)'
    BY <1>2, <1>7, <1>8 DEF OwnCells
  <2>2. \A u \in Sort : own[h + 1] \notin Held(u)'
    BY <1>2, <1>5, <1>7, <1>8 DEF OwnCells
  <2> QED BY <1>6, <2>1, <2>2
<1>11. ASSUME NEW u \in Sort, pc'[u] = "poser_right"
       PROVE  /\ \A k \in 1..(h + 1) : mine[u] # own[k] /\ mine[u] \notin Place(k)'
              /\ \A v \in Sort \ {u} : /\ mine[u] \notin Held(v)'
                                       /\ pc'[v] = "poser_right" => mine[v] # mine[u]
  <2>1. u # t /\ pc[u] = "poser_right"
    BY <1>5, <1>7, <1>11
  <2>2. \A k \in 1..h : mine[u] # own[k] /\ mine[u] \notin Place(k)'
    BY <1>2, <1>6, <1>8, <2>1 DEF OwnCells
  <2>3. mine[u] # own[h + 1] /\ mine[u] \notin Place(h + 1)'
    BY <1>2, <1>5, <1>6, <1>8, <2>1 DEF OwnCells
  <2>4. \A v \in Sort \ {u} : /\ mine[u] \notin Held(v)'
                              /\ pc'[v] = "poser_right" => mine[v] # mine[u]
    BY <1>2, <1>5, <1>7, <2>1 DEF OwnCells
  <2> QED BY <1>6, <2>2, <2>3, <2>4
<1>12. OwnCells(h + 1, own, mine)'
  BY <1>6, <1>9, <1>10, <1>11 DEF OwnCells
<1> QED BY <1>8, <1>12 DEF CellInv

\* The whole list gets its first element.
LEMMA CellsSubmit ==
  ASSUME EvenCapacity, SortInv, Submit
  PROVE  CellInv'
<1>1. /\ stack = <<>> /\ \A t \in Sort : pc[t] = "prendre"
      /\ POSER(1, M) /\ UNCHANGED pc
  BY DEF Submit, SortInv, StartInv
<1>2. 1 \in Index /\ 1 \in 0..M + 1 /\ M \in 0..M + 1
  BY QuickSortAssumption DEF Index
<1>3. Len(stack') = 2 * (0 + 1)
  <2>1. TypeOK /\ Len(stack) = 2 * 0 /\ 0 \in Nat
    BY <1>1 DEF SortInv
  <2> QED BY <1>1, <1>2, <2>1, PosedPair
<1> DEFINE own  == [k \in 1..1 |-> 1]
           mine == [t \in Sort |-> 1]
<1>4. own \in [1..1 -> Index] /\ mine \in [Sort -> Index]
  BY <1>2
<1>5. \A t \in Sort : Held(t)' = {} /\ pc'[t] # "poser_right"
  BY <1>1 DEF Held
<1>6. \A j, k \in 1..1 : j = k
  OBVIOUS
<1> HIDE DEF own, mine
<1>7. OwnCells(1, own, mine)'
  BY <1>3, <1>5, <1>6 DEF OwnCells
<1> QED BY <1>4, <1>7 DEF CellInv

\* RoomInv is inductive with SortInv.
LEMMA RoomInvInit == Init => RoomInv
<1> SUFFICES ASSUME Init PROVE RoomInv
  OBVIOUS
<1> DEFINE own  == [k \in 1..0 |-> 1]
           mine == [t \in Sort |-> 1]
<1>1. own \in [1..0 -> Index] /\ mine \in [Sort -> Index]
  BY QuickSortAssumption DEF Index
<1>2. stack = <<>> /\ \A t \in Sort : Held(t) = {} /\ pc[t] = "prendre"
  BY DEF Init, Held
<1> HIDE DEF own, mine
<1>3. OwnCells(0, own, mine)
  BY <1>2 DEF OwnCells
<1>4. \A t \in Sort : PassedInv(t)
  BY <1>2 DEF PassedInv
<1> QED BY <1>1, <1>3, <1>4 DEF RoomInv, CellInv

\* Every step keeps it.
LEMMA RoomInvNext == EvenCapacity /\ SortInv /\ RoomInv /\ [Next]_vars => RoomInv'
<1> SUFFICES ASSUME EvenCapacity, SortInv, RoomInv, [Next]_vars PROVE RoomInv'
  OBVIOUS
<1>1. ASSUME NEW t \in Sort, SortNext(t) PROVE RoomInv'
  <2>1. \A u \in Sort : PassedInv(u)'
    BY <1>1, PassedStep DEF RoomInv
  <2>2. CellInv'
    BY <1>1, CellsPartition, CellsPrendre, CellsPoserLeft, CellsPoserRight DEF SortNext, RoomInv
  <2> QED BY <2>1, <2>2 DEF RoomInv
<1>2. ASSUME UNCHANGED <<LIST, pc, locals>> PROVE \A u \in Sort : PassedInv(u)'
  BY <1>2 DEF RoomInv, PassedInv, locals
<1>3. CASE Submit
  BY <1>2, <1>3, CellsSubmit DEF Submit, RoomInv
<1>4. CASE PrintAndAbort \/ UNCHANGED vars
  <2>1. UNCHANGED <<LIST, stack, pc, locals>>
    BY <1>4 DEF PrintAndAbort, vars
  <2>2. CellInv'
    <3>1. PICK h \in Nat : \E c \in [1..h -> Index], m \in [Sort -> Index] : OwnCells(h, c, m)
      BY DEF RoomInv, CellInv
    <3>2. PICK cell \in [1..h -> Index], mine \in [Sort -> Index] : OwnCells(h, cell, mine)
      BY <3>1
    <3>3. /\ pc' = pc /\ stack' = stack
          /\ \A u \in Sort : Held(u)' = Held(u)
          /\ \A k \in 1..h : Place(k)' = Place(k)
      BY <2>1 DEF Held, Place, locals
    <3>4. OwnCells(h, cell, mine)'
      BY <3>2, <3>3 DEF OwnCells
    <3> QED BY <3>4 DEF CellInv
  <2> QED BY <1>2, <2>1, <2>2 DEF RoomInv
<1> QED BY <1>1, <1>3, <1>4 DEF Next

\* One segment of the h outstanding ones has its element in a task's hands: h is
\* less than M.
LEMMA FewerThanM ==
  ASSUME NEW h \in Nat, NEW cell \in [1..h -> Index], NEW e \in Index,
         \A j, k \in 1..h : j # k => cell[j] # cell[k],
         \A k \in 1..h : cell[k] # e
  PROVE  h < M
<1>1. IsFiniteSet(Index) /\ Cardinality(Index) = M
  BY QuickSortAssumption, FS_Interval DEF Index
<1>2. IsFiniteSet(Index \ {e}) /\ Cardinality(Index \ {e}) = M - 1
  BY <1>1, FS_RemoveElement
<1>3. cell \in Injection(1..h, Index \ {e})
  BY DEF Injection, IsInjective
<1>4. Cardinality(1..h) <= Cardinality(Index \ {e})
  BY <1>2, <1>3, FS_Injection
<1>5. Cardinality(1..h) = h
  BY FS_Interval
<1> QED BY <1>2, <1>4, <1>5, QuickSortAssumption

\* No task waits for room on the stack, as long as it holds a pair of bounds for each
\* element of LIST (quick_sort.adb:34; the program has M = 10, N = 100).
THEOREM NoTaskWaitsForRoom == ASSUME EvenCapacity, N >= 2 * M PROVE Spec => []RoomLeft
<1>1. SortInv /\ RoomInv => RoomLeft
  <2> SUFFICES ASSUME SortInv, RoomInv, NEW t \in Sort, pc[t] \in {"poser_left", "poser_right"}
               PROVE  ~FULL
    BY DEF RoomLeft
  <2>1. PICK h \in Nat : \E c \in [1..h -> Index], m \in [Sort -> Index] : OwnCells(h, c, m)
    BY DEF RoomInv, CellInv
  <2>2. PICK cell \in [1..h -> Index], mine \in [Sort -> Index] : OwnCells(h, cell, mine)
    BY <2>1
  <2>3. h < M
    <3>1. CASE pc[t] = "poser_left"
      <4>1. ELG[t] \in Held(t) /\ ELG[t] \in Index
        BY <3>1, QuickSortAssumption DEF SortInv, TypeOK, TaskInv, Held, Index
      <4>2. /\ \A j, k \in 1..h : j # k => cell[j] # cell[k]
            /\ \A k \in 1..h : cell[k] # ELG[t]
        BY <2>2, <4>1 DEF OwnCells
      <4> QED BY <4>1, <4>2, FewerThanM
    <3>2. CASE pc[t] = "poser_right"
      <4>1. /\ \A j, k \in 1..h : j # k => cell[j] # cell[k]
            /\ \A k \in 1..h : cell[k] # mine[t]
        BY <2>2, <3>2 DEF OwnCells
      <4> QED BY <4>1, FewerThanM
    <3> QED BY <3>1, <3>2
  <2>4. Len(stack) = 2 * h
    BY <2>2 DEF OwnCells
  <2> QED BY <2>3, <2>4, QuickSortAssumption DEF FULL, Segments!FULL
<1>2. Init => SortInv /\ RoomInv
  BY SortInvInit, RoomInvInit
<1>3. SortInv /\ RoomInv /\ [Next]_vars => SortInv' /\ RoomInv'
  BY SortInvNext, RoomInvNext
<1> QED BY <1>1, <1>2, <1>3, PTL DEF Spec

=============================================================================
