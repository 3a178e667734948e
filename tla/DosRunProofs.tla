---------------------------- MODULE DosRunProofs ----------------------------
(***************************************************************************)
(* Theorems about a session of XREP and XC: one run of XREP that ends by   *)
(* itself has rewritten the files of the whole tree, each of them once;    *)
(* one run of XC has compared the files of the whole tree, each of them    *)
(* once, and so finds what XREP did.                                       *)
(***************************************************************************)
EXTENDS DosSessionProofs

-----------------------------------------------------------------------------
(* What a run of XREP has done so far.                                      *)

\* Slot i of directory d is a subdirectory e that findfirst finds.
Lists(dk, d, i, e) == i \in 1..Len(dk[d]) /\ dk[d][i].attr = "dir" /\ dk[d][i].opens = e

\* The files of directory d that a run must rewrite.
Wanted(d) ==
    {n \in setup.flag :
        /\ Attr(first, d, n) = "plain" /\ n.ext # "XRP" /\ Writable(first, d, Xrp(n))
        /\ NUL \notin ToSet(Text(first, d, n)) /\ ShortLines(Text(first, d, n))}

\* What they are to hold.
Goal == [d \in Dirs |-> [n \in Wanted(d) |-> Rewritten(Text(first, d, n))]]

\* The first p positions of a text, rewritten.
NewLines(t, p) == FlattenSeq([j \in 1..p |-> NewLine(Append(t, EOFCHAR), j)])

Begun == [d \in Dirs |-> [n \in Wanted(d) |->
             [p \in 0..Len(Text(first, d, n)) |-> NewLines(Text(first, d, n), p)]]]

\* From disk one to disk two .XRP files come and go: the other entries keep their slots, and
\* subdirectories are those there were.
Stays(one, two) == \A d \in Dirs, n \in Names :
    /\ n.ext # "XRP" \/ Attr(one, d, n) \in DirAttrs =>
          /\ Attr(two, d, n) = Attr(one, d, n) /\ SlotOf(two, d, n) = SlotOf(one, d, n)
          /\ Child(two, d, n) = Child(one, d, n)
    /\ Attr(two, d, n) \in DirAttrs => Attr(one, d, n) \in DirAttrs
    /\ Writable(one, d, n) => Writable(two, d, n)

\* The calls of process_dir are a path down the tree.
PathIn(dk, fr) == \A k \in 1..(Len(fr) - 1) : Lists(dk, fr[k].dir, fr[k].at, fr[k + 1].dir)

\* The search of call f has passed every subdirectory.
Searched(dk, f) == \A i, x : Lists(dk, f.dir, i, x) => i <= f.at

\* Call k has come back from the subdirectory in slot i of its directory.
Past(fr, ph, k, i) == IF k < Len(fr) THEN i < fr[k].at ELSE ph = "subdirs" /\ i <= fr[k].at

\* done are the directories whose calls have returned: with each one its subdirectories,
\* and those of the calls at work that their searches have passed.
WalkIn(dk, fr, ph, done) ==
    /\ \A k \in 1..Len(fr) : fr[k].dir \notin done
    /\ \A d \in done, e \in Dirs : \A i \in 1..Len(dk[d]) : Lists(dk, d, i, e) => e \in done
    /\ \A k \in 1..Len(fr), e \in Dirs : \A i \in 1..Len(dk[fr[k].dir]) :
          Lists(dk, fr[k].dir, i, e) /\ Past(fr, ph, k, i) => e \in done
    /\ \A d \in Dirs, e \in done : \A i \in 1..Len(dk[d]) :
          Lists(dk, d, i, e) => d \in done \/ \E k \in 1..Len(fr) : d = fr[k].dir /\ Past(fr, ph, k, i)

\* The directories of which process_flag is finished.
Flagged(fr, ph, done) == done \union {fr[k].dir : k \in {k \in 1..Len(fr) : k < Len(fr) \/ ph = "subdirs"}}

\* Their files are rewritten, and so are those that the search of process_flag has passed; no other
\* is touched.
FilesIn(one, goal, dk, fr, ph, done) ==
    /\ \A d \in Flagged(fr, ph, done) : \A n \in DOMAIN goal[d] : Text(dk, d, n) = goal[d][n]
    /\ \A d \in Dirs \ (Flagged(fr, ph, done) \union {Last(fr).dir}) :
          \A n \in DOMAIN goal[d] : Text(dk, d, n) = Text(one, d, n)
    /\ ph # "subdirs" => \A n \in DOMAIN goal[Last(fr).dir] :
          LET d == Last(fr).dir
              i == SlotOf(one, d, n)
          IN  /\ i > Last(fr).at => Text(dk, d, n) = Text(one, d, n)
              /\ i < Last(fr).at => Text(dk, d, n) = goal[d][n]
              /\ i = Last(fr).at /\ ph = "flag" => Text(dk, d, n) = goal[d][n]

\* What replace() has done of file n in directory d, which the search found in slot at: n keeps its
\* text until it is truncated, then its lines are rewritten one by one.
CopyIn(one, goal, begun, dk, ph, at, d, n, left) ==
    /\ \A m \in DOMAIN goal[d] : SlotOf(one, d, m) = at <=> m = n
    /\ n \in DOMAIN goal[d] =>
          LET t == Text(one, d, n) IN
          /\ ph \in {"prompt", "backup", "reopen"} => Text(dk, d, n) = t
          /\ ph = "reopen" => Text(dk, d, Xrp(n)) = t
          /\ ph = "lines" => \E p \in 0..Len(t) :
                /\ p # 0 => t[p] = NL
                /\ left = SubSeq(t, p + 1, Len(t)) /\ Text(dk, d, n) = begun[d][n][p]
          /\ ph = "tail" => Text(dk, d, n) = goal[d][n]

FileInv == phase \in Copying =>
              /\ file.dir = top.dir
              /\ CopyIn(first, Goal, Begun, disk, phase, top.at, file.dir, name, rest)

PathInv == /\ frames[1].dir = setup.dir /\ PathIn(first, frames)
           /\ setup.nosubdirs => Len(frames) = 1 /\ phase # "subdirs"

DoneInv == \E done \in SUBSET Dirs :
              WalkIn(first, frames, phase, done) /\ FilesIn(first, Goal, disk, frames, phase, done)

\* What holds while the first XREP of a session runs and no write was cut.
RunIn == Stays(first, disk) /\ PathInv /\ FileInv /\ DoneInv

RunInv ==
    /\ first \in Disks
    /\ typed = <<>> => disk = first /\ phase = "idle" /\ ending = "none" /\ ~full
    /\ Len(typed) = 1 /\ ~full =>
          /\ phase # "idle" => RunIn
          /\ phase = "idle" /\ ending = "normal" => EveryFileOnce(first)

-----------------------------------------------------------------------------
(* The text a file is to hold.                                              *)

\* FlattenSeq adds one text after another.
LEMMA FlattenAdds ==
  ASSUME NEW n \in Nat, NEW S \in [1..n -> Seq(STRING)]
  PROVE  \E g \in [0..n -> Seq(STRING)] :
            /\ g[0] = <<>> /\ \A k \in 1..n : g[k] = g[k - 1] \o S[k]
            /\ \A seqs \in Seq(Seq(STRING)) :
                  Len(seqs) <= n /\ (\A j \in 1..Len(seqs) : seqs[j] = S[j]) => FlattenSeq(seqs) = g[Len(seqs)]
<1> DEFINE V == Seq(STRING)
           ch == [s \in SUBSET (1..n) |-> Max(s)]
           h == [p \in (1..n) \X V |-> p[2] \o S[p[1]]]
<1>1. PICK it \in [SUBSET (1..n) -> V] :
             it = [s \in SUBSET (1..n) |-> IF s = {} THEN <<>> ELSE h[<<ch[s], it[s \ {ch[s]}]>>]]
  <2>1. IsFiniteSet(1..n)
    BY FS_Interval
  <2>2. \A s \in SUBSET (1..n) : s # {} => ch[s] \in s
    BY MaxOfNumbers
  <2>3. ASSUME NEW x \in 1..n, NEW v \in V PROVE h[<<x, v>>] \in V
    <3>1. v \o S[x] \in Seq(STRING)
      BY ConcatProperties
    <3>2. h[<<x, v>>] = v \o S[x]
      OBVIOUS
    <3> HIDE DEF h
    <3> QED BY <3>1, <3>2
  <2>4. <<>> \in V
    OBVIOUS
  <2> HIDE DEF ch, h, V
  <2>5. Chooses(1..n, ch) /\ StepsIn(1..n, V, h)
    BY <2>2, <2>3 DEF Chooses, StepsIn
  <2> DEFINE I == 1..n
             base == <<>>
  <2> HIDE DEF I, base
  <2>6. Recursions(I, V, base, ch, h) # {}
    BY <2>1, <2>4, <2>5, Recursion DEF I, base
  <2> QED BY <2>6 DEF Recursions, I, base
<1> DEFINE g == [k \in 0..n |-> it[1..k]]
<1>2. g \in [0..n -> Seq(STRING)]
  <2>1. \A k \in 0..n : 1..k \in SUBSET (1..n)
    OBVIOUS
  <2> QED BY <2>1
<1>3. g[0] = <<>>
  BY <1>1
<1>4. ASSUME NEW k \in 1..n PROVE g[k] = g[k - 1] \o S[k]
  <2>1. 1..k \in SUBSET (1..n) /\ 1..k # {}
    <3>1. \A i \in 1..k : i \in 1..n
      OBVIOUS
    <3>2. k \in 1..k
      OBVIOUS
    <3> QED BY <3>1, <3>2
  <2>2. Max(1..k) \in 1..k /\ \A y \in 1..k : Max(1..k) >= y
    BY <2>1, MaxOfNumbers
  <2>3. Max(1..k) = k
    BY <2>2
  <2>4. (1..k) \ {k} = 1..(k - 1)
    OBVIOUS
  <2>5. ch[1..k] = k
    BY <2>1, <2>3
  <2>6. it[1..k] = h[<<k, it[1..(k - 1)]>>]
    <3> HIDE DEF ch, h
    <3> QED BY <1>1, <2>1, <2>4, <2>5
  <2>7. it[1..(k - 1)] \in V
    <3>1. 1..(k - 1) \in SUBSET (1..n)
      OBVIOUS
    <3> QED BY <3>1
  <2> DEFINE v == it[1..(k - 1)]
  <2>8. h[<<k, v>>] = v \o S[k]
    <3>1. v \in V
      BY <2>7
    <3> HIDE DEF v
    <3> QED BY <3>1
  <2>9. k \in 0..n /\ k - 1 \in 0..n
    OBVIOUS
  <2>10. g[k] = it[1..k] /\ g[k - 1] = v
    BY <2>9
  <2> HIDE DEF g, v, h
  <2> QED BY <2>6, <2>8, <2>10 DEF v
<1> HIDE DEF g
<1>6. 1 \in 1..n => g[1] = S[1]
  <2> SUFFICES ASSUME 1 \in 1..n PROVE g[1] = S[1]
    OBVIOUS
  <2>1. g[1] = g[1 - 1] \o S[1] /\ S[1] \in Seq(STRING)
    BY <1>4
  <2>2. <<>> \o S[1] = S[1]
    BY <2>1
  <2>3. 1 - 1 = 0
    OBVIOUS
  <2> QED BY <2>1, <2>2, <2>3, <1>3
<1>5. ASSUME NEW seqs \in Seq(Seq(STRING)), Len(seqs) <= n, \A j \in 1..Len(seqs) : seqs[j] = S[j]
      PROVE  FlattenSeq(seqs) = g[Len(seqs)]
  <2> DEFINE k == Len(seqs)
             F(f) == [i \in 1..k |-> IF i = 1 THEN seqs[i] ELSE f[i - 1] \o seqs[i]]
             flat == CHOOSE f : f = F(f)
  <2>1. k \in 0..n /\ \A j \in 1..k : seqs[j] = S[j]
    BY <1>5
  <2>2. CASE k = 0
    <3>1. seqs = <<>>
      BY <2>2
    <3>2. FlattenSeq(seqs) = seqs
      BY <2>2 DEF FlattenSeq
    <3> QED BY <2>2, <3>1, <3>2, <1>3
  <2>3. CASE k # 0
    <3>1. FlattenSeq(seqs) = (CHOOSE f : f = [i \in 1..Len(seqs) |-> IF i = 1 THEN seqs[i] ELSE f[i - 1] \o seqs[i]])[Len(seqs)]
      BY <2>3 DEF FlattenSeq
    <3>2. FlattenSeq(seqs) = flat[k]
      BY <3>1
    <3> HIDE DEF k
    <3>3. \E f : f = F(f)
      <4> DEFINE f == [i \in 1..k |-> g[i]]
      <4>1. ASSUME NEW i \in 1..k PROVE f[i] = F(f)[i]
        <5>0. i \in 1..n
          BY <2>1
        <5>1. g[i] = g[i - 1] \o S[i] /\ seqs[i] = S[i]
          BY <5>0, <1>4, <2>1
        <5>2. CASE i = 1
          <6>1. g[i] = S[i]
            BY <5>0, <5>2, <1>6
          <6> QED BY <5>1, <5>2, <6>1
        <5>3. CASE i # 1
          <6>1. i - 1 \in 1..k
            BY <5>3, <2>1
          <6> QED BY <5>1, <5>3, <6>1
        <5> QED BY <5>2, <5>3
      <4>2. f = F(f)
        BY <4>1
      <4> HIDE DEF F, f
      <4> QED BY <4>2
    <3>4. flat = F(flat)
      <4> HIDE DEF F
      <4> QED BY <3>3
    <3> HIDE DEF flat
    <3> DEFINE P == {i \in Nat : i + 1 \in 1..k => flat[i + 1] = g[i + 1]}
    <3>5. P = Nat
      <4>1. 0 \in P
        <5>1. 1 \in 1..n /\ 1 \in 1..k
          BY <2>1, <2>3
        <5>3. F(flat)[1] = S[1]
          BY <5>1, <2>1
        <5>4. flat[1] = g[1]
          <6> HIDE DEF F
          <6> QED BY <5>1, <5>3, <3>4, <1>6
        <5> QED BY <5>4
      <4>2. ASSUME NEW i \in P PROVE i + 1 \in P
        <5> SUFFICES ASSUME i + 1 + 1 \in 1..k PROVE flat[i + 1 + 1] = g[i + 1 + 1]
          OBVIOUS
        <5>1. i + 1 \in 1..k /\ flat[i + 1] = g[i + 1]
          BY <2>1
        <5>2. F(flat)[i + 1 + 1] = flat[i + 1] \o S[i + 1 + 1]
          <6> DEFINE x == i + 1 + 1
          <6>1. x \in 1..k /\ x # 1 /\ x - 1 = i + 1
            BY <2>1
          <6> HIDE DEF x
          <6>2. F(flat)[x] = flat[x - 1] \o S[x]
            BY <6>1, <2>1
          <6> QED BY <6>1, <6>2 DEF x
        <5>3. i + 1 + 1 \in 1..n /\ (i + 1 + 1) - 1 = i + 1
          BY <2>1
        <5>4. g[i + 1 + 1] = g[i + 1] \o S[i + 1 + 1]
          BY <5>3, <1>4
        <5> HIDE DEF F
        <5> QED BY <3>4, <5>1, <5>2, <5>3, <5>4
      <4>3. P \in SUBSET Nat
        BY DEF P
      <4> HIDE DEF P
      <4> QED BY <4>1, <4>2, <4>3, NumbersInduct
    <3>6. k - 1 \in Nat /\ (k - 1) + 1 = k /\ k \in 1..k
      BY <2>1, <2>3
    <3>7. k - 1 \in P
      <4> HIDE DEF P
      <4> QED BY <3>5, <3>6
    <3>8. flat[k] = g[k]
      BY <3>6, <3>7
    <3> QED BY <3>2, <3>8 DEF k
  <2> QED BY <2>2, <2>3
<1> QED BY <1>2, <1>3, <1>4, <1>5

\* Empty texts add nothing.
LEMMA FlattenSkips ==
  ASSUME NEW n \in Nat, NEW g \in [0..n -> Seq(STRING)], NEW S,
         \A k \in 1..n : g[k] = g[k - 1] \o S[k],
         NEW p \in 0..n, NEW q \in (p + 1)..n, \A k \in (p + 1)..(q - 1) : S[k] = <<>>
  PROVE  g[q] = g[p] \o S[q]
<1> DEFINE P == {i \in Nat : p + i < q => g[p + i] = g[p]}
<1>1. 0 \in P
  BY DEF P
<1>2. ASSUME NEW i \in P PROVE i + 1 \in P
  <2> SUFFICES ASSUME p + (i + 1) < q PROVE g[p + (i + 1)] = g[p]
    BY DEF P
  <2> DEFINE k == p + (i + 1)
  <2>1. k \in 1..n /\ k \in (p + 1)..(q - 1) /\ k - 1 = p + i /\ p + i < q
    OBVIOUS
  <2>2. g[p + i] = g[p]
    BY <2>1
  <2>3. g[p] \in Seq(STRING)
    OBVIOUS
  <2> HIDE DEF k
  <2>4. g[k] = g[k - 1] \o <<>>
    BY <2>1
  <2> QED BY <2>1, <2>2, <2>3, <2>4 DEF k
<1>3. P \in SUBSET Nat
  BY DEF P
<1>4. P = Nat
  <2> HIDE DEF P
  <2> QED BY <1>1, <1>2, <1>3, NumbersInduct
<1>5. q - 1 - p \in Nat /\ p + (q - 1 - p) < q /\ p + (q - 1 - p) = q - 1 /\ q \in 1..n
  OBVIOUS
<1>6. g[q - 1] = g[p]
  BY <1>4, <1>5
<1> QED BY <1>5, <1>6

\* The line that ends at a position begins after the end of the line before it.
LEMMA LineIs ==
  ASSUME NEW t \in Seq(STRING), NEW p \in 0..Len(t), p # 0 => t[p] = NL,
         NEW q \in LineEnds(Append(t, EOFCHAR)), p < q,
         \A j \in (p + 1)..(q - 1) : j \notin LineEnds(Append(t, EOFCHAR))
  PROVE  LET u == Append(t, EOFCHAR) IN
         LineTo(u, q) = SubSeq(u, p + 1, q) /\ q \in 1..Len(u) /\ Len(LineTo(u, q)) = q - p
<1> DEFINE u == Append(t, EOFCHAR)
           I == {0} \union {i \in LineEnds(u) : i < q}
<1>1. /\ EOFCHAR \in STRING /\ Len(t) \in Nat /\ Len(u) = Len(t) + 1 /\ u \in Seq(STRING)
      /\ \A j \in 1..Len(t) : u[j] = t[j]
  BY XrepAssumption
<1>2. q \in LineEnds(u) /\ \A j \in (p + 1)..(q - 1) : j \notin LineEnds(u)
  OBVIOUS
<1> HIDE DEF u
<1>3. I \in SUBSET Nat /\ q \in 1..Len(u)
  BY <1>1, <1>2 DEF LineEnds
<1>4. p \in I
  BY <1>1 DEF LineEnds
<1>5. \A i \in I : p >= i
  BY <1>1, <1>2, <1>3 DEF LineEnds
<1>6. Max(I) = p
  <2>1. Max(I) = CHOOSE x \in I : \A y \in I : x >= y
    BY DEF Max
  <2> HIDE DEF I
  <2>2. Max(I) \in I /\ \A y \in I : Max(I) >= y
    BY <2>1, <1>4, <1>5
  <2>3. Max(I) \in Nat /\ p \in Nat /\ Max(I) >= p /\ p >= Max(I)
    BY <2>2, <1>3, <1>4, <1>5
  <2> QED BY <2>3
<1>7. LineTo(u, q) = SubSeq(u, p + 1, q)
  BY <1>6 DEF LineTo
<1>8. Len(SubSeq(u, p + 1, q)) = q - p
  BY <1>1, <1>3
<1> QED BY <1>3, <1>7, <1>8 DEF u

\* The new text of a file begins empty, and each line read adds what replaces it.
LEMMA NewLinesAdd ==
  ASSUME setup.pairs \in Seq(TextPair), NEW t \in Seq(STRING)
  PROVE  LET u == Append(t, EOFCHAR) IN
         /\ NewLines(t, 0) = <<>> /\ NewLines(t, Len(u)) = Rewritten(t)
         /\ \A p \in 0..Len(t), q \in LineEnds(u) :
               /\ p # 0 => t[p] = NL
               /\ p < q /\ \A j \in (p + 1)..(q - 1) : j \notin LineEnds(u)
               => NewLines(t, q) = NewLines(t, p) \o Replaced(SubSeq(u, p + 1, q)).line
<1> DEFINE u == Append(t, EOFCHAR)
           n == Len(u)
           S == [j \in 1..n |-> NewLine(u, j)]
<1>1. /\ EOFCHAR \in STRING /\ Len(t) \in Nat /\ n = Len(t) + 1 /\ u \in Seq(STRING)
      /\ \A j \in 1..Len(t) : u[j] = t[j]
  BY XrepAssumption
<1>2. \A p \in 0..n : NewLines(t, p) = FlattenSeq([j \in 1..p |-> S[j]])
  <2> SUFFICES ASSUME NEW p \in 0..n PROVE NewLines(t, p) = FlattenSeq([j \in 1..p |-> S[j]])
    OBVIOUS
  <2>1. [j \in 1..p |-> S[j]] = [j \in 1..p |-> NewLine(u, j)]
    <3> HIDE DEF u
    <3> QED BY <1>1
  <2> QED BY <2>1 DEF NewLines
<1>3. ASSUME NEW q \in LineEnds(u), NEW p \in 0..Len(t), p # 0 => t[p] = NL, p < q,
             \A j \in (p + 1)..(q - 1) : j \notin LineEnds(u)
      PROVE  LineTo(u, q) = SubSeq(u, p + 1, q) /\ q \in 1..n
  BY <1>3, LineIs
<1>4. \A j \in 1..n : S[j] \in Seq(STRING)
  <2> SUFFICES ASSUME NEW j \in 1..n PROVE S[j] \in Seq(STRING)
    OBVIOUS
  <2>1. S[j] = NewLine(u, j)
    OBVIOUS
  <2>2. CASE j \in LineEnds(u)
    <3> DEFINE I == {0} \union {i \in LineEnds(u) : i < j}
    <3> HIDE DEF u
    <3>1. Max(I) \in 0..(j - 1)
      <4>1. CASE \A i \in LineEnds(u) : ~(i < j)
        <5>1. I = {0}
          BY <4>1
        <5>2. Max(I) = CHOOSE x \in I : \A y \in I : x >= y
          BY DEF Max
        <5>3. 0 \in I /\ \A y \in I : 0 >= y
          BY <5>1
        <5>4. Max(I) \in {0}
          <6> HIDE DEF I
          <6> QED BY <5>1, <5>2, <5>3
        <5>5. 0 \in 0..(j - 1)
          BY <1>1
        <5> QED BY <5>4, <5>5
      <4>2. CASE \E i \in LineEnds(u) : i < j
        <5> DEFINE J == {i \in LineEnds(u) : i < j}
        <5>1. J \in SUBSET (1..n) /\ J # {} /\ \A i \in J : i \in 1..(j - 1)
          BY <4>2, <1>1 DEF LineEnds
        <5>2. Max(J) \in J /\ \A y \in J : Max(J) >= y
          <6>1. n \in Nat
            BY <1>1
          <6> HIDE DEF J, n
          <6> QED BY <5>1, <6>1, MaxOfNumbers
        <5>3. Max(J) \in I /\ \A y \in I : Max(J) >= y
          <6>1. I = {0} \union J
            OBVIOUS
          <6>2. Max(J) \in 1..(j - 1) /\ j \in Nat
            BY <1>1, <5>1, <5>2
          <6>3. Max(J) >= 0
            BY <6>2
          <6> HIDE DEF I, J
          <6> QED BY <5>2, <6>1, <6>3
        <5>4. Max(I) = CHOOSE x \in I : \A y \in I : x >= y
          BY DEF Max
        <5>5. Max(I) \in I
          <6> HIDE DEF J, I
          <6> QED BY <5>3, <5>4
        <5> QED BY <5>5, <5>1
      <4> QED BY <4>1, <4>2
    <3>2. LineTo(u, j) = SubSeq(u, Max(I) + 1, j)
      BY DEF LineTo
    <3> HIDE DEF I
    <3>3. SubSeq(u, Max(I) + 1, j) \in Seq(STRING)
      <4>1. \A i \in (Max(I) + 1)..j : u[i] \in STRING
        BY <1>1, <3>1
      <4> QED BY <1>1, <3>1, <4>1, SubSeqProperties
    <3>4. Replaced(LineTo(u, j)).line \in Seq(STRING)
      BY <3>2, <3>3, ReplacedFacts
    <3> QED BY <2>1, <2>2, <3>4 DEF NewLine
  <2>3. CASE j \notin LineEnds(u)
    BY <2>1, <2>3 DEF NewLine
  <2> QED BY <2>2, <2>3
<1>5. PICK g \in [0..n -> Seq(STRING)] :
            /\ g[0] = <<>> /\ \A k \in 1..n : g[k] = g[k - 1] \o S[k]
            /\ \A k \in 0..n : FlattenSeq([j \in 1..k |-> S[j]]) = g[k]
  <2>1. n \in Nat
    BY <1>1
  <2> HIDE DEF n, S
  <2>2. PICK T : T = S
    OBVIOUS
  <2>3. T \in [1..n -> Seq(STRING)]
    <3>1. S \in [1..n -> Seq(STRING)]
      <4>1. S = [j \in 1..n |-> S[j]]
        BY DEF S
      <4> QED BY <4>1, <1>4
    <3> QED BY <3>1, <2>2
  <2>4. \E g \in [0..n -> Seq(STRING)] :
            /\ g[0] = <<>> /\ \A k \in 1..n : g[k] = g[k - 1] \o T[k]
            /\ \A seqs \in Seq(Seq(STRING)) :
                  Len(seqs) <= n /\ (\A j \in 1..Len(seqs) : seqs[j] = T[j]) => FlattenSeq(seqs) = g[Len(seqs)]
    BY <2>1, <2>3, FlattenAdds
  <2>5. PICK g \in [0..n -> Seq(STRING)] :
            /\ g[0] = <<>> /\ \A k \in 1..n : g[k] = g[k - 1] \o T[k]
            /\ \A seqs \in Seq(Seq(STRING)) :
                  Len(seqs) <= n /\ (\A j \in 1..Len(seqs) : seqs[j] = T[j]) => FlattenSeq(seqs) = g[Len(seqs)]
    BY <2>4
  <2>6. ASSUME NEW k \in 0..n PROVE FlattenSeq([j \in 1..k |-> S[j]]) = g[k]
    <3> DEFINE seqs == [j \in 1..k |-> T[j]]
    <3>1. seqs \in Seq(Seq(STRING)) /\ Len(seqs) = k /\ \A j \in 1..k : seqs[j] = T[j]
      BY <2>1, <2>3
    <3> HIDE DEF seqs
    <3>2. Len(seqs) <= n /\ \A j \in 1..Len(seqs) : seqs[j] = T[j]
      BY <2>1, <3>1
    <3>3. FlattenSeq(seqs) = g[Len(seqs)]
      BY <2>5, <3>1, <3>2
    <3> QED BY <2>2, <3>1, <3>3, Zenon DEF seqs
  <2> QED BY <2>2, <2>5, <2>6, Zenon
<1>6. \A k \in 0..n : NewLines(t, k) = g[k]
  <2> HIDE DEF n, S
  <2> QED BY <1>2, <1>5
<1>7. NewLines(t, 0) = <<>>
  <2> HIDE DEF n
  <2> QED BY <1>1, <1>5, <1>6
<1>8. NewLines(t, n) = Rewritten(t)
  BY DEF NewLines, Rewritten
<1>9. ASSUME NEW q \in LineEnds(u), NEW p \in 0..Len(t), p # 0 => t[p] = NL, p < q,
             \A j \in (p + 1)..(q - 1) : j \notin LineEnds(u)
      PROVE  NewLines(t, q) = NewLines(t, p) \o Replaced(SubSeq(u, p + 1, q)).line
  <2>1. LineTo(u, q) = SubSeq(u, p + 1, q) /\ q \in 1..n
    BY <1>3, <1>9
  <2>2. \A j \in (p + 1)..(q - 1) : S[j] = <<>>
    <3> SUFFICES ASSUME NEW j \in (p + 1)..(q - 1) PROVE S[j] = <<>>
      OBVIOUS
    <3> HIDE DEF u
    <3>1. j \in 1..n
      BY <1>1, <2>1
    <3> QED BY <3>1, <1>9 DEF NewLine
  <2>3. S[q] = Replaced(SubSeq(u, p + 1, q)).line
    <3> HIDE DEF u
    <3> QED BY <2>1, <1>9 DEF NewLine
  <2>4. p \in 0..n /\ q \in (p + 1)..n /\ n \in Nat
    <3> HIDE DEF n
    <3> QED BY <1>1, <2>1, <1>9
  <2> HIDE DEF n, S
  <2>5. g[q] = g[p] \o S[q]
    <3>1. PICK T : T = S
      OBVIOUS
    <3>2. (\A j \in (p + 1)..(q - 1) : T[j] = <<>>) /\ \A k \in 1..n : g[k] = g[k - 1] \o T[k]
      BY <3>1, <2>2, <1>5, Zenon
    <3>3. g[q] = g[p] \o T[q]
      BY <2>4, <3>2, FlattenSkips
    <3> QED BY <3>1, <3>3, Zenon
  <2>6. q \in 0..n
    BY <2>4
  <2> QED BY <2>3, <2>4, <2>5, <2>6, <1>6
<1> QED BY <1>7, <1>8, <1>9

\* The EOF is one more character.
LEMMA EofAppended ==
  ASSUME NEW r \in Seq(STRING)
  PROVE  /\ Append(r, EOFCHAR) \in Seq(STRING) /\ Len(Append(r, EOFCHAR)) = Len(r) + 1
         /\ Append(r, EOFCHAR)[Len(r) + 1] = EOFCHAR /\ \A i \in 1..Len(r) : Append(r, EOFCHAR)[i] = r[i]
<1>1. EOFCHAR \in STRING
  BY XrepAssumption
<1>2. Append(r, EOFCHAR) \in Seq(STRING)
  BY <1>1, AppendProperties
<1> QED BY <1>2

\* The next line read ends at the next end of a line of the text, the EOF added.
LEMMA NextLineEnds ==
  ASSUME NEW t \in Seq(STRING), ShortLines(t), NEW p \in 0..Len(t), p # 0 => t[p] = NL,
         rest = SubSeq(t, p + 1, Len(t))
  PROVE  LET u == Append(t, EOFCHAR) IN
         \E q \in LineEnds(u) :
            /\ p < q /\ NextLine = SubSeq(u, p + 1, q) /\ \A j \in (p + 1)..(q - 1) : j \notin LineEnds(u)
            /\ Len(NextLine) > Len(rest) => q = Len(u)
            /\ ~(Len(NextLine) > Len(rest)) =>
                  /\ q \in 1..Len(t) /\ t[q] = NL
                  /\ SubSeq(rest, Len(NextLine) + 1, Len(rest)) = SubSeq(t, q + 1, Len(t))
<1> DEFINE u == Append(t, EOFCHAR)
           m == Len(t) - p
           I == {i \in 1..Len(rest) : rest[i] = NL}
           nl == SelectInSeq(rest, LAMBDA c : c = NL)
<1>1. /\ EOFCHAR \in STRING /\ Len(t) \in Nat /\ Len(u) = Len(t) + 1 /\ u \in Seq(STRING)
      /\ \A j \in 1..Len(t) : u[j] = t[j]
      /\ u[Len(t) + 1] = EOFCHAR /\ sline_ssize \in Nat
  BY XrepAssumption
<1>9. ASSUME NEW q \in LineEnds(u), p < q, \A j \in (p + 1)..(q - 1) : j \notin LineEnds(u)
      PROVE  q - p < sline_ssize
  <2>1. Len(LineTo(u, q)) = q - p
    BY <1>9, LineIs
  <2>2. Len(LineTo(u, q)) < sline_ssize
    BY DEF ShortLines
  <2> QED BY <2>1, <2>2
<1> HIDE DEF u
<1>2. m \in Nat /\ p + m = Len(t)
  BY <1>1
<1>3. rest \in Seq(STRING) /\ Len(rest) = m /\ \A i \in 1..m : rest[i] = t[p + i]
  BY <1>1
<1>4. nl = IF I # {} THEN Min(I) ELSE 0
  BY DEF SelectInSeq
<1>5. I # {} => Min(I) \in I /\ \A y \in I : Min(I) <= y
  <2>1. I \in SUBSET Nat
    BY <1>3
  <2> HIDE DEF I
  <2> QED BY <2>1, MinOfNumbers
<1>6. nl \in 0..m /\ (nl = 0 => I = {}) /\ (nl # 0 => nl \in I /\ \A y \in I : nl <= y)
  <2> HIDE DEF nl, m
  <2>1. \A i \in I : i \in 1..m /\ i # 0
    BY <1>2, <1>3
  <2> HIDE DEF I
  <2>2. 0 \in 0..m /\ \A i \in 1..m : i \in 0..m
    BY <1>2
  <2> QED BY <1>4, <1>5, <2>1, <2>2
<1> HIDE DEF nl, m
<1>7. CASE nl # 0
  <2> DEFINE q == p + nl
  <2>1. nl \in 1..m /\ rest[nl] = NL
    BY <1>1, <1>2, <1>3, <1>6, <1>7
  <2>4. q \in 1..Len(t) /\ t[q] = NL /\ q \in LineEnds(u) /\ p < q
    BY <1>1, <1>2, <1>3, <2>1 DEF LineEnds
  <2>5. ASSUME NEW j \in (p + 1)..(q - 1) PROVE j \notin LineEnds(u)
    <3>1. j - p \in 1..m /\ j - p < nl /\ p + (j - p) = j /\ j \in 1..Len(t)
      BY <1>1, <1>2, <2>1
    <3>2. j - p \notin I
      <4>1. j - p \in Int /\ ~(nl <= j - p)
        BY <3>1, <2>1
      <4> HIDE DEF I
      <4> QED BY <4>1, <1>6, <1>7
    <3>3. t[j] # NL
      BY <3>1, <3>2, <1>3
    <3>4. u[j] # NL /\ j # Len(u)
      BY <3>1, <3>3, <1>1
    <3> QED BY <3>4 DEF LineEnds
  <2>9. nl \in 1..(sline_ssize + 1)
    <3>1. q - p < sline_ssize
      BY <2>4, <2>5, <1>9
    <3> QED BY <3>1, <2>1, <1>1, <1>2
  <2>2. NextLine = SubSeq(rest, 1, nl)
    BY <2>9 DEF NextLine, nl
  <2>3. Len(NextLine) = nl /\ Len(rest) = m
    BY <2>1, <2>2, <1>3
  <2>6. SubSeq(rest, 1, nl) = SubSeq(u, p + 1, q)
    <3>1. SubSeq(rest, 1, nl) = [i \in 1..nl |-> rest[i]]
      BY <1>3, <2>1
    <3>2. SubSeq(u, p + 1, q) = [i \in 1..nl |-> u[p + i]]
      BY <1>1, <1>2, <2>1
    <3>3. \A i \in 1..nl : i \in 1..m /\ p + i \in 1..Len(t)
      BY <1>1, <1>2, <2>1
    <3>4. \A i \in 1..nl : rest[i] = u[p + i]
      BY <3>3, <1>1, <1>3
    <3> QED BY <3>1, <3>2, <3>4
  <2>7. SubSeq(rest, nl + 1, m) = SubSeq(t, q + 1, Len(t))
    <3>1. \A i \in 1..(m - nl) : nl + i \in 1..m /\ p + (nl + i) = q + i
      BY <1>1, <1>2, <2>1
    <3>2. SubSeq(rest, nl + 1, m) = [i \in 1..(m - nl) |-> rest[nl + i]]
      BY <1>2, <1>3, <2>1
    <3>3. SubSeq(t, q + 1, Len(t)) = [i \in 1..(m - nl) |-> t[q + i]]
      <4>1. q \in 1..Len(t) /\ Len(t) - (q + 1) + 1 = m - nl
        BY <1>1, <1>2, <2>1
      <4> HIDE DEF q
      <4>2. SubSeq(t, q + 1, Len(t)) = [i \in 1..(Len(t) - q) |-> t[q + i]]
        BY <4>1, <1>1
      <4>3. Len(t) - q = m - nl
        BY <4>1, <1>1, <1>2
      <4> QED BY <4>2, <4>3
    <3>4. \A i \in 1..(m - nl) : rest[nl + i] = t[q + i]
      BY <3>1, <1>3
    <3> QED BY <3>2, <3>3, <3>4
  <2>8. ~(Len(NextLine) > Len(rest))
    BY <2>1, <2>3, <1>2
  <2> HIDE DEF q
  <2> QED BY <2>2, <2>3, <2>4, <2>5, <2>6, <2>7, <2>8 DEF u
<1>8. CASE nl = 0
  <2> DEFINE q == Len(t) + 1
  <2>4. q \in LineEnds(u) /\ p < q /\ q = Len(u)
    BY <1>1, <1>2 DEF LineEnds
  <2>5. ASSUME NEW j \in (p + 1)..(q - 1) PROVE j \notin LineEnds(u)
    <3>1. j - p \in 1..m /\ p + (j - p) = j /\ j \in 1..Len(t)
      BY <1>1, <1>2
    <3>2. t[j] # NL
      BY <3>1, <1>3, <1>6, <1>8
    <3>3. u[j] # NL /\ j # Len(u)
      BY <3>1, <3>2, <1>1
    <3> QED BY <3>3 DEF LineEnds
  <2>1. ~(Len(rest) > sline_ssize) /\ nl \notin 1..(sline_ssize + 1)
    <3>1. q - p < sline_ssize
      BY <2>4, <2>5, <1>9
    <3> QED BY <3>1, <1>1, <1>2, <1>3, <1>8
  <2>2. NextLine = Append(rest, EOFCHAR)
    BY <2>1 DEF NextLine, nl
  <2>3. Len(NextLine) > Len(rest)
    BY <2>2, <1>3, <1>2
  <2>6. Append(rest, EOFCHAR) = SubSeq(u, p + 1, q)
    <3> DEFINE a == Append(rest, EOFCHAR)
               b == SubSeq(u, p + 1, q)
    <3>1. a \in Seq(STRING) /\ Len(a) = m + 1 /\ a[m + 1] = EOFCHAR /\ \A i \in 1..m : a[i] = rest[i]
      <4>1. PICK r \in Seq(STRING) : r = rest
        BY <1>3
      <4>2. Len(r) = m
        BY <4>1, <1>3
      <4>3. Append(r, EOFCHAR) \in Seq(STRING) /\ Len(Append(r, EOFCHAR)) = Len(r) + 1
            /\ Append(r, EOFCHAR)[Len(r) + 1] = EOFCHAR /\ \A i \in 1..Len(r) : Append(r, EOFCHAR)[i] = r[i]
        BY EofAppended
      <4> QED BY <4>1, <4>2, <4>3, Zenon
    <3>2. b \in Seq(STRING)
      <4>1. \A i \in (p + 1)..q : u[i] \in STRING
        BY <1>1
      <4> QED BY <1>1, <4>1, SubSeqProperties
    <3>3. Len(b) = m + 1 /\ \A i \in 1..(m + 1) : b[i] = u[p + i]
      BY <1>1, <1>2
    <3>4. \A i \in 1..m : p + i \in 1..Len(t)
      BY <1>1, <1>2
    <3>5. \A i \in 1..(m + 1) : a[i] = b[i]
      <4> SUFFICES ASSUME NEW i \in 1..(m + 1) PROVE a[i] = b[i]
        OBVIOUS
      <4> HIDE DEF a, b
      <4>1. CASE i = m + 1
        <5>1. p + i = Len(t) + 1
          BY <4>1, <1>2
        <5> QED BY <4>1, <5>1, <3>1, <3>3, <1>1
      <4>2. CASE i # m + 1
        <5>1. i \in 1..m
          BY <4>2, <1>2
        <5> QED BY <5>1, <3>1, <3>3, <3>4, <1>1, <1>3
      <4> QED BY <4>1, <4>2
    <3> HIDE DEF a, b
    <3>6. a = b
      BY <3>1, <3>2, <3>3, <3>5, SeqEqual
    <3> QED BY <3>6 DEF a, b
  <2> HIDE DEF q
  <2> QED BY <2>2, <2>3, <2>4, <2>5, <2>6 DEF u
<1> QED BY <1>7, <1>8

-----------------------------------------------------------------------------
(* The disk the walk goes through.                                          *)

\* What the wanted files are to hold is settled when the run begins.
LEMMA GoalKept ==
  ASSUME UNCHANGED <<setup, first>>
  PROVE  (\A t : Rewritten(t)' = Rewritten(t)) /\ Goal' = Goal /\ Begun' = Begun
<1>1. \A d : Wanted(d)' = Wanted(d)
  BY DEF Wanted
<1>2. \A line : Replaced(line)' = Replaced(line)
  BY DEF Replaced, FoldLeft, MapThenFoldSet
<1>3. \A t, j : NewLine(t, j)' = NewLine(t, j)
  BY <1>2 DEF NewLine
<1>4. \A t : Rewritten(t)' = Rewritten(t)
  BY <1>3 DEF Rewritten
<1>5. \A t, p : NewLines(t, p)' = NewLines(t, p)
  BY <1>3 DEF NewLines
<1>6. Goal' = Goal
  BY <1>1, <1>4 DEF Goal
<1>7. Begun' = Begun
  BY <1>1, <1>5 DEF Begun
<1> QED BY <1>4, <1>6, <1>7

\* What a run must reach and what it must have done change with nothing but the disk.
LEMMA OnceKept == ASSUME UNCHANGED <<disk, setup, first>>, EveryFileOnce(first) PROVE EveryFileOnce(first)'
<1>1. Reached' = Reached
  BY DEF Reached
<1>2. \A t : Rewritten(t)' = Rewritten(t)
  BY GoalKept
<1> QED BY <1>1, <1>2 DEF EveryFileOnce

\* What a run has left to rewrite is a file that findfirst finds.
LEMMA WantedType ==
  ASSUME WellFormed(first), XrepType, NEW d \in Dirs
  PROVE  /\ DOMAIN Goal[d] = Wanted(d)
         /\ \A n \in Wanted(d) :
               /\ n \in Names /\ n \in setup.flag /\ n.ext # "XRP" /\ Attr(first, d, n) = "plain"
               /\ SlotOf(first, d, n) \in Nat \ {0} /\ Text(first, d, n) \in Seq(STRING)
               /\ Goal[d][n] = Rewritten(Text(first, d, n))
               /\ \A p \in 0..Len(Text(first, d, n)) : Begun[d][n][p] = NewLines(Text(first, d, n), p)
<1>1. /\ DOMAIN Goal[d] = Wanted(d)
      /\ \A n \in Wanted(d) :
            /\ Goal[d][n] = Rewritten(Text(first, d, n))
            /\ \A p \in 0..Len(Text(first, d, n)) : Begun[d][n][p] = NewLines(Text(first, d, n), p)
  BY DEF Goal, Begun
<1>2. ASSUME NEW n \in Wanted(d)
      PROVE  /\ n \in Names /\ n \in setup.flag /\ n.ext # "XRP" /\ Attr(first, d, n) = "plain"
             /\ SlotOf(first, d, n) \in Nat \ {0} /\ Text(first, d, n) \in Seq(STRING)
  <2>1. n \in setup.flag /\ n.ext # "XRP" /\ Attr(first, d, n) = "plain"
    BY DEF Wanted
  <2>2. n \in Names
    BY <2>1 DEF XrepType, Setup
  <2>3. SlotOf(first, d, n) # 0 /\ Text(first, d, n) \in Seq(STRING)
    BY <2>1, NamedHasSlot
  <2>4. SlotOf(first, d, n) \in 0..Len(first[d]) /\ Len(first[d]) \in Nat
    BY SlotFound
  <2> QED BY <2>1, <2>2, <2>3, <2>4
<1> QED BY <1>1, <1>2

\* Subdirectories stay where they are.
LEMMA ListsStay ==
  ASSUME NEW one, NEW two, WellFormed(one), WellFormed(two), Stays(one, two), NEW d \in Dirs
  PROVE  \A i, e : Lists(one, d, i, e) <=> Lists(two, d, i, e)
<1>1. /\ Len(one[d]) \in Nat /\ \A i \in 1..Len(one[d]) : one[d][i] \in Slot
      /\ Len(two[d]) \in Nat /\ \A i \in 1..Len(two[d]) : two[d][i] \in Slot
  BY SlotFound
<1>2. "dir" \in DirAttrs /\ "dir" # "free" /\ d # NoDir
  BY DosAssumption DEF DirAttrs
<1>3. ASSUME NEW i, NEW e, Lists(one, d, i, e) PROVE Lists(two, d, i, e)
  <2> DEFINE n == one[d][i].name
  <2>1. i \in 1..Len(one[d]) /\ one[d][i].attr = "dir" /\ one[d][i].opens = e /\ n \in Names
    BY <1>1, <1>3 DEF Lists, Slot
  <2>2. SlotOf(one, d, n) = i /\ Attr(one, d, n) = "dir"
    BY <2>1, <1>2, SlotSays
  <2>3. Child(one, d, n) = e
    BY <2>1, <2>2, <1>2 DEF Child
  <2> HIDE DEF n
  <2>4. SlotOf(two, d, n) = i /\ Attr(two, d, n) = "dir" /\ Child(two, d, n) = e
    BY <2>1, <2>2, <2>3, <1>2 DEF Stays
  <2>5. two[d][i].attr = "dir" /\ two[d][i].opens = e /\ i # 0
    BY <2>1, <2>4, <1>1, <1>2 DEF Attr, Child
  <2>6. i \in 1..Len(two[d])
    BY <2>4, <2>5, SlotFound
  <2> QED BY <2>5, <2>6 DEF Lists
<1>4. ASSUME NEW i, NEW e, Lists(two, d, i, e) PROVE Lists(one, d, i, e)
  <2> DEFINE n == two[d][i].name
  <2>1. i \in 1..Len(two[d]) /\ two[d][i].attr = "dir" /\ two[d][i].opens = e /\ n \in Names
    BY <1>1, <1>4 DEF Lists, Slot
  <2>2. SlotOf(two, d, n) = i /\ Attr(two, d, n) = "dir"
    BY <2>1, <1>2, SlotSays
  <2>3. Child(two, d, n) = e
    BY <2>1, <2>2, <1>2 DEF Child
  <2> HIDE DEF n
  <2>4. SlotOf(one, d, n) = i /\ Attr(one, d, n) = "dir" /\ Child(one, d, n) = e
    BY <2>1, <2>2, <2>3, <1>2 DEF Stays
  <2>5. one[d][i].attr = "dir" /\ one[d][i].opens = e /\ i # 0
    BY <2>1, <2>4, <1>1, <1>2 DEF Attr, Child
  <2>6. i \in 1..Len(one[d])
    BY <2>4, <2>5, SlotFound
  <2> QED BY <2>5, <2>6 DEF Lists
<1> QED BY <1>3, <1>4

\* A search passes over no entry it looks for.
LEMMA FindSkipsNone ==
  ASSUME NEW dk, WellFormed(dk), NEW d \in Dirs, NEW names, NEW attrs, NEW i \in Nat,
         NEW j \in (i + 1)..Len(dk[d]), dk[d][j].name \in names, dk[d][j].attr \in attrs
  PROVE  Find(dk, d, names, attrs, i) # 0 /\ Find(dk, d, names, attrs, i) <= j
<1> DEFINE I == {k \in (i + 1)..Len(dk[d]) : dk[d][k].name \in names /\ dk[d][k].attr \in attrs}
<1>1. Find(dk, d, names, attrs, i) = IF I # {} THEN Min(I) ELSE 0
  BY DEF Find, SelectInSubSeq
<1>2. Len(dk[d]) \in Nat
  BY SlotFound
<1>3. I \in SUBSET Nat /\ j \in I /\ \A k \in I : k # 0
  BY <1>2
<1>4. Min(I) \in I /\ \A y \in I : Min(I) <= y
  <2> HIDE DEF I
  <2> QED BY <1>3, MinOfNumbers
<1> HIDE DEF I
<1> QED BY <1>1, <1>3, <1>4

\* The next subdirectory is the first one listed after those the search has passed.
LEMMA NextDirIs ==
  ASSUME TypeInv, phase # "idle"
  PROVE  /\ NextDir # 0 =>
               /\ Lists(disk, top.dir, NextDir, disk[top.dir][NextDir].opens) /\ NextDir > top.at
               /\ \A i, e : Lists(disk, top.dir, i, e) /\ i < NextDir => i <= top.at
         /\ NextDir = 0 => \A i, e : Lists(disk, top.dir, i, e) => i <= top.at
<1>1. top \in Frame /\ WellFormed(disk)
  BY TopType DEF TypeInv, DiskType
<1> DEFINE d == top.dir
           a == top.at
           attrs == {"dir"}
<1>2. d \in Dirs /\ a \in Nat
  BY <1>1 DEF Frame
<1>3. Len(disk[d]) \in Nat /\ \A i \in 1..Len(disk[d]) : disk[d][i] \in Slot
  BY <1>1, <1>2, SlotFound
<1>4. NextDir = Find(disk, d, Names, attrs, a)
  BY DEF NextDir
<1> HIDE DEF d, a, attrs
<1>5. ASSUME NextDir # 0 PROVE Lists(disk, d, NextDir, disk[d][NextDir].opens) /\ NextDir > a
  <2>1. NextDir \in (a + 1)..Len(disk[d]) /\ disk[d][NextDir].attr \in attrs
    BY <1>1, <1>2, <1>4, <1>5, FoundEntry
  <2>2. NextDir \in 1..Len(disk[d]) /\ NextDir > a /\ disk[d][NextDir].attr = "dir"
    BY <2>1, <1>2, <1>3 DEF attrs
  <2> QED BY <2>2 DEF Lists
<1>6. ASSUME NEW i, NEW e, Lists(disk, d, i, e), i > a PROVE NextDir # 0 /\ NextDir <= i
  <2>1. i \in (a + 1)..Len(disk[d]) /\ disk[d][i].attr \in attrs
    BY <1>2, <1>3, <1>6 DEF Lists, attrs
  <2>2. disk[d][i].name \in Names
    BY <1>2, <1>3, <2>1 DEF Slot
  <2> QED BY <2>1, <2>2, <1>1, <1>2, <1>4, FindSkipsNone
<1>7. NextDir \in Nat
  BY <1>1, <1>2, <1>3, <1>4, FoundEntry
<1>8. ASSUME NEW i, NEW e, Lists(disk, d, i, e) PROVE i \in Nat
  BY <1>3, <1>8 DEF Lists
<1>9. \A i, e : Lists(disk, d, i, e) /\ ~(i <= a) => NextDir # 0 /\ ~(i < NextDir)
  BY <1>2, <1>6, <1>7, <1>8
<1>10. NextDir = 0 => \A i, e : Lists(disk, d, i, e) => i <= a
  BY <1>9
<1> QED BY <1>5, <1>9, <1>10 DEF d, a

\* The next file is the first one after those the search has passed.
LEMMA NextFileIs ==
  ASSUME TypeInv, phase # "idle"
  PROVE  /\ NextFile # 0 =>
               /\ NextFile > top.at /\ disk[top.dir][NextFile].name \in Names
               /\ SlotOf(disk, top.dir, disk[top.dir][NextFile].name) = NextFile
         /\ \A n \in setup.flag :
               Attr(disk, top.dir, n) = "plain" /\ SlotOf(disk, top.dir, n) > top.at =>
                  NextFile # 0 /\ NextFile <= SlotOf(disk, top.dir, n)
<1>1. top \in Frame /\ WellFormed(disk)
  BY TopType DEF TypeInv, DiskType
<1> DEFINE d == top.dir
           a == top.at
           attrs == {"plain", "readonly"}
<1>2. d \in Dirs /\ a \in Nat /\ d # NoDir
  BY <1>1, DosAssumption DEF Frame
<1>3. Len(disk[d]) \in Nat /\ \A i \in 1..Len(disk[d]) : disk[d][i] \in Slot
  BY <1>1, <1>2, SlotFound
<1>4. NextFile = Find(disk, d, setup.flag, attrs, a)
  BY DEF NextFile
<1> HIDE DEF d, a, attrs
<1>5. ASSUME NextFile # 0
      PROVE  NextFile > a /\ disk[d][NextFile].name \in Names /\ SlotOf(disk, d, disk[d][NextFile].name) = NextFile
  <2>1. NextFile \in (a + 1)..Len(disk[d]) /\ disk[d][NextFile].attr \in attrs
    BY <1>1, <1>2, <1>4, <1>5, FoundEntry
  <2>2. NextFile \in 1..Len(disk[d]) /\ NextFile > a
    BY <2>1, <1>2, <1>3
  <2>3. disk[d][NextFile].attr # "free" /\ disk[d][NextFile].name \in Names
    BY <2>1, <2>2, <1>3 DEF attrs, Slot
  <2> QED BY <2>2, <2>3, <1>1, <1>2, SlotSays
<1>6. ASSUME NEW n \in setup.flag, Attr(disk, d, n) = "plain", SlotOf(disk, d, n) > a
      PROVE  NextFile # 0 /\ NextFile <= SlotOf(disk, d, n)
  <2> DEFINE i == SlotOf(disk, d, n)
  <2>1. i # 0 /\ disk[d][i].attr = "plain"
    BY <1>2, <1>6 DEF Attr
  <2>2. i \in 1..Len(disk[d]) /\ disk[d][i].name = n
    BY <2>1, <1>1, <1>2, SlotFound
  <2> HIDE DEF i
  <2>3. i > a
    BY <1>6 DEF i
  <2>4. i \in (a + 1)..Len(disk[d]) /\ disk[d][i].attr \in attrs /\ disk[d][i].name \in setup.flag
    BY <1>2, <1>3, <1>6, <2>1, <2>2, <2>3 DEF attrs, i
  <2>5. NextFile # 0 /\ NextFile <= i
    BY <2>4, <1>1, <1>2, <1>4, FindSkipsNone
  <2> QED BY <2>5 DEF i
<1> QED BY <1>5, <1>6 DEF d, a

-----------------------------------------------------------------------------
(* The tree and the path of calls in it.                                    *)

\* A subdirectory is a level below the one that lists it, and no other lists it.
LEMMA TreeFacts ==
  ASSUME NEW dk, WellFormed(dk), IsTree(dk)
  PROVE  /\ \E level \in [Dirs -> Nat] :
               \A d, e \in Dirs : \A i : Lists(dk, d, i, e) => level[e] = level[d] + 1
         /\ \A c, d \in Dirs : \A i, j, e : Lists(dk, c, i, e) /\ Lists(dk, d, j, e) => c = d /\ i = j
<1>1. ASSUME NEW d \in Dirs, NEW i, NEW e, Lists(dk, d, i, e)
      PROVE  i \in 1..Len(dk[d]) /\ dk[d][i].attr \in DirAttrs /\ dk[d][i].opens = e /\ dk[d][i] \in ToSet(dk[d])
  <2>1. i \in 1..Len(dk[d]) /\ dk[d][i].attr \in DirAttrs /\ dk[d][i].opens = e
    BY <1>1 DEF Lists, DirAttrs
  <2>2. DOMAIN dk[d] = 1..Len(dk[d])
    BY SlotFound
  <2> QED BY <2>1, <2>2 DEF ToSet
<1>2. PICK level \in [Dirs -> 0..Cardinality(Dirs)] :
         \A d \in Dirs : \A s \in ToSet(dk[d]) : s.attr \in DirAttrs => level[s.opens] = level[d] + 1
  BY DEF IsTree
<1>3. level \in [Dirs -> Nat]
  <2>1. Cardinality(Dirs) \in Nat
    BY DosAssumption, FS_CardinalityType
  <2> QED BY <2>1
<1>4. \A d, e \in Dirs : \A i : Lists(dk, d, i, e) => level[e] = level[d] + 1
  BY <1>1, <1>2
<1>5. ASSUME NEW c \in Dirs, NEW d \in Dirs, NEW i, NEW j, NEW e, Lists(dk, c, i, e), Lists(dk, d, j, e)
      PROVE  c = d /\ i = j
  <2>1. i \in 1..Len(dk[c]) /\ dk[c][i].attr \in DirAttrs /\ dk[c][i].opens = e
    BY <1>1, <1>5
  <2>2. j \in 1..Len(dk[d]) /\ dk[d][j].attr \in DirAttrs /\ dk[d][j].opens = e
    BY <1>1, <1>5
  <2>3. dk[c][i].opens = dk[d][j].opens
    BY <2>1, <2>2
  <2> QED BY <2>1, <2>2, <2>3 DEF IsTree
<1>6. \E lev \in [Dirs -> Nat] : \A d, e \in Dirs : \A i : Lists(dk, d, i, e) => lev[e] = lev[d] + 1
  BY <1>3, <1>4
<1>7. \A c, d \in Dirs : \A i, j, e : Lists(dk, c, i, e) /\ Lists(dk, d, j, e) => c = d /\ i = j
  BY <1>5
<1> QED BY <1>6, <1>7

\* The calls of process_dir are in different directories, and what the last of them lists is in
\* none of these.
LEMMA PathApart ==
  ASSUME NEW dk, WellFormed(dk), IsTree(dk), NEW fr \in Seq(Frame), fr # <<>>, PathIn(dk, fr)
  PROVE  /\ \A j, k \in 1..Len(fr) : fr[j].dir = fr[k].dir => j = k
         /\ \A e \in Dirs : \A i : Lists(dk, fr[Len(fr)].dir, i, e) => \A k \in 1..Len(fr) : fr[k].dir # e
<1> DEFINE n == Len(fr)
<1>1. n \in Nat \ {0} /\ \A k \in 1..n : fr[k] \in Frame
  OBVIOUS
<1>2. \A k \in 1..n : fr[k].dir \in Dirs
  BY <1>1 DEF Frame
<1>3. PICK level \in [Dirs -> Nat] : \A d, e \in Dirs : \A i : Lists(dk, d, i, e) => level[e] = level[d] + 1
  BY TreeFacts
<1>4. ASSUME NEW k \in 1..(n - 1) PROVE level[fr[k + 1].dir] = level[fr[k].dir] + 1
  <2>1. k \in 1..n /\ k + 1 \in 1..n
    BY <1>1
  <2>2. Lists(dk, fr[k].dir, fr[k].at, fr[k + 1].dir)
    BY DEF PathIn
  <2> QED BY <2>1, <2>2, <1>2, <1>3
<1> HIDE DEF n
<1> DEFINE base == level[fr[1].dir]
           P == {k \in Nat : k + 1 <= n => level[fr[k + 1].dir] = base + k}
<1>5. base \in Nat
  BY <1>1, <1>2
<1>6. P = Nat
  <2>1. 0 \in P
    BY <1>5
  <2>2. ASSUME NEW k \in P PROVE k + 1 \in P
    <3> SUFFICES ASSUME (k + 1) + 1 <= n PROVE level[fr[(k + 1) + 1].dir] = base + (k + 1)
      OBVIOUS
    <3>1. k + 1 \in 1..(n - 1) /\ k + 1 <= n
      BY <1>1
    <3>2. level[fr[(k + 1) + 1].dir] = level[fr[k + 1].dir] + 1
      BY <3>1, <1>4
    <3>3. level[fr[k + 1].dir] = base + k
      BY <3>1
    <3> HIDE DEF base
    <3> QED BY <3>2, <3>3, <1>5
  <2>3. P \in SUBSET Nat
    BY DEF P
  <2> HIDE DEF P
  <2> QED BY <2>1, <2>2, <2>3, NumbersInduct
<1>7. \A k \in 1..n : level[fr[k].dir] = base + (k - 1)
  <2> SUFFICES ASSUME NEW k \in 1..n PROVE level[fr[k].dir] = base + (k - 1)
    OBVIOUS
  <2>1. k - 1 \in Nat /\ (k - 1) + 1 = k /\ k <= n
    BY <1>1
  <2>2. k - 1 \in P
    <3> HIDE DEF P
    <3> QED BY <2>1, <1>6
  <2> HIDE DEF base
  <2> QED BY <2>1, <2>2
<1> HIDE DEF base, P
<1>8. \A j, k \in 1..n : fr[j].dir = fr[k].dir => j = k
  <2> SUFFICES ASSUME NEW j \in 1..n, NEW k \in 1..n, fr[j].dir = fr[k].dir PROVE j = k
    OBVIOUS
  <2>1. base + (j - 1) = base + (k - 1)
    BY <1>7
  <2> QED BY <2>1, <1>5, <1>1
<1>9. ASSUME NEW e \in Dirs, NEW i, Lists(dk, fr[n].dir, i, e), NEW k \in 1..n PROVE fr[k].dir # e
  <2>1. level[e] = level[fr[n].dir] + 1
    BY <1>1, <1>2, <1>3, <1>9
  <2>2. level[fr[n].dir] = base + (n - 1) /\ level[fr[k].dir] = base + (k - 1)
    BY <1>1, <1>7
  <2>3. base + (k - 1) # base + (n - 1) + 1
    BY <1>1, <1>5
  <2> QED BY <2>1, <2>2, <2>3
<1> QED BY <1>8, <1>9 DEF n

\* process_dir reaches nothing outside a set of directories that has the start and the
\* subdirectories of its own.
LEMMA ReachedWithin ==
  ASSUME WellFormed(disk), NEW D \in SUBSET Dirs, setup.dir \in D,
         ~setup.nosubdirs => \A d \in D, e \in Dirs : \A i : Lists(disk, d, i, e) => e \in D
  PROVE  Reached \subseteq D
<1> DEFINE N == Cardinality(Dirs)
           Below(s) == {x.opens : x \in {x \in UNION {ToSet(disk[d]) : d \in s} : x.attr = "dir"}}
           F(f) == [k \in 0..N |-> IF k = 0 THEN {setup.dir} ELSE f[k - 1] \union Below(f[k - 1])]
           level == CHOOSE f : f = F(f)
<1>1. N \in Nat
  BY DosAssumption, FS_CardinalityType
<1>2. Reached = IF setup.nosubdirs THEN {setup.dir} ELSE level[N]
  BY DEF Reached
<1>3. CASE setup.nosubdirs
  BY <1>2, <1>3
<1>4. CASE ~setup.nosubdirs
  <2>1. ASSUME NEW s \in SUBSET Dirs PROVE Below(s) \in SUBSET Dirs
    <3> SUFFICES ASSUME NEW d \in s, NEW x \in ToSet(disk[d]), x.attr = "dir" PROVE x.opens \in Dirs
      OBVIOUS
    <3>1. DOMAIN disk[d] = 1..Len(disk[d])
      BY SlotFound
    <3>2. PICK i \in 1..Len(disk[d]) : x = disk[d][i]
      BY <3>1 DEF ToSet
    <3> QED BY <3>2 DEF WellFormed, DirAttrs
  <2>2. ASSUME NEW s \in SUBSET D PROVE Below(s) \in SUBSET D
    <3> SUFFICES ASSUME NEW d \in s, NEW x \in ToSet(disk[d]), x.attr = "dir" PROVE x.opens \in D
      OBVIOUS
    <3>1. DOMAIN disk[d] = 1..Len(disk[d]) /\ d \in D
      BY SlotFound
    <3>2. PICK i \in 1..Len(disk[d]) : x = disk[d][i]
      BY <3>1 DEF ToSet
    <3>3. Lists(disk, d, i, x.opens)
      BY <3>2 DEF Lists
    <3>4. x.opens \in Dirs
      BY <3>2, <3>1 DEF WellFormed, DirAttrs
    <3> QED BY <3>1, <3>3, <3>4, <1>4
  <2> HIDE DEF Below
  <2>3. \E f : f = F(f)
    <3> DEFINE S == 1..N
               V == SUBSET Dirs
               base == {setup.dir}
               ch == [s \in SUBSET S |-> Max(s)]
               h == [p \in S \X V |-> p[2] \union Below(p[2])]
    <3>1. PICK it \in [SUBSET S -> V] :
                 it = [s \in SUBSET S |-> IF s = {} THEN base ELSE h[<<ch[s], it[s \ {ch[s]}]>>]]
      <4>1. IsFiniteSet(S)
        BY <1>1, FS_Interval
      <4>2. \A s \in SUBSET S : s # {} => ch[s] \in s
        BY <1>1, MaxOfNumbers
      <4>3. \A x \in S, v \in V : h[<<x, v>>] \in V
        BY <2>1
      <4>4. base \in V
        OBVIOUS
      <4> HIDE DEF ch, h, V, S, base
      <4>5. Chooses(S, ch) /\ StepsIn(S, V, h)
        BY <4>2, <4>3 DEF Chooses, StepsIn
      <4>6. Recursions(S, V, base, ch, h) # {}
        BY <4>1, <4>4, <4>5, Recursion
      <4> QED BY <4>6 DEF Recursions
    <3> DEFINE g == [k \in 0..N |-> it[1..k]]
    <3>2. g[0] = {setup.dir}
      BY <1>1, <3>1
    <3>3. ASSUME NEW k \in 1..N PROVE g[k] = g[k - 1] \union Below(g[k - 1])
      <4>1. 1..k \in SUBSET S /\ 1..k # {}
        <5>1. \A i \in 1..k : i \in 1..N
          BY <1>1
        <5>2. k \in 1..k
          BY <1>1
        <5> QED BY <5>1, <5>2
      <4>2. Max(1..k) \in 1..k /\ \A y \in 1..k : Max(1..k) >= y
        BY <4>1, <1>1, MaxOfNumbers
      <4>3. Max(1..k) = k
        BY <4>2
      <4>4. (1..k) \ {k} = 1..(k - 1)
        OBVIOUS
      <4>5. ch[1..k] = k
        BY <4>1, <4>3
      <4>6. it[1..k] = h[<<k, it[1..(k - 1)]>>]
        <5> HIDE DEF ch, h
        <5> QED BY <3>1, <4>1, <4>4, <4>5
      <4>7. it[1..(k - 1)] \in V
        <5>1. 1..(k - 1) \in SUBSET S
          BY <1>1
        <5> QED BY <5>1
      <4> DEFINE v == it[1..(k - 1)]
      <4>8. h[<<k, v>>] = v \union Below(v)
        <5>1. v \in V
          BY <4>7
        <5> HIDE DEF v
        <5> QED BY <5>1
      <4>9. k \in 0..N /\ k - 1 \in 0..N
        BY <1>1
      <4>10. g[k] = it[1..k] /\ g[k - 1] = v
        BY <4>9
      <4> HIDE DEF g, v, h
      <4> QED BY <4>6, <4>8, <4>10 DEF v
    <3>4. g = F(g)
      <4>1. ASSUME NEW k \in 0..N PROVE g[k] = F(g)[k]
        <5> HIDE DEF g
        <5>1. CASE k = 0
          BY <5>1, <3>2
        <5>2. CASE k # 0
          <6>1. k \in 1..N
            BY <5>2, <1>1
          <6> QED BY <5>2, <6>1, <3>3
        <5> QED BY <5>1, <5>2
      <4>2. g = [k \in 0..N |-> g[k]]
        OBVIOUS
      <4>3. F(g) = [k \in 0..N |-> F(g)[k]]
        OBVIOUS
      <4> HIDE DEF g, F
      <4> QED BY <4>1, <4>2, <4>3
    <3> HIDE DEF g, F
    <3> QED BY <3>4
  <2>4. level = F(level)
    <3> HIDE DEF F
    <3> QED BY <2>3
  <2> HIDE DEF level
  <2> DEFINE P == {k \in Nat : k <= N => level[k] \in SUBSET D}
  <2>5. P = Nat
    <3>1. 0 \in P
      <4>1. F(level)[0] = {setup.dir}
        BY <1>1
      <4>2. level[0] = {setup.dir}
        <5> HIDE DEF F
        <5> QED BY <4>1, <2>4
      <4> QED BY <4>2
    <3>2. ASSUME NEW k \in P PROVE k + 1 \in P
      <4> SUFFICES ASSUME k + 1 <= N PROVE level[k + 1] \in SUBSET D
        OBVIOUS
      <4>1. k <= N /\ k + 1 \in 0..N /\ k + 1 # 0 /\ (k + 1) - 1 = k
        BY <1>1
      <4>2. level[k] \in SUBSET D
        BY <4>1
      <4>3. F(level)[k + 1] = level[k] \union Below(level[k])
        BY <4>1
      <4>4. level[k + 1] = level[k] \union Below(level[k])
        <5> HIDE DEF F
        <5> QED BY <4>3, <2>4
      <4> QED BY <4>2, <4>4, <2>2
    <3>3. P \in SUBSET Nat
      BY DEF P
    <3> HIDE DEF P
    <3> QED BY <3>1, <3>2, <3>3, NumbersInduct
  <2>6. level[N] \in SUBSET D
    <3>1. N \in P
      <4> HIDE DEF P
      <4> QED BY <2>5, <1>1
    <3> QED BY <3>1, <1>1
  <2> QED BY <2>6, <1>2, <1>4
<1> QED BY <1>3, <1>4

-----------------------------------------------------------------------------
(* How the walk goes on.                                                    *)

\* The directories of the calls are directories.
LEMMA PathType == ASSUME NEW fr \in Seq(Frame), fr # <<>>
                  PROVE  /\ Len(fr) \in Nat \ {0} /\ Last(fr) = fr[Len(fr)] /\ Len(fr) \in 1..Len(fr)
                         /\ \A k \in 1..Len(fr) : fr[k].dir \in Dirs /\ fr[k].at \in Nat
<1>1. Len(fr) \in Nat \ {0} /\ Last(fr) = fr[Len(fr)] /\ \A k \in 1..Len(fr) : fr[k] \in Frame
  BY DEF Last
<1> QED BY <1>1 DEF Frame

\* The calls but for the last one.
LEMMA FrontIs ==
  ASSUME NEW fr \in Seq(Frame), fr # <<>>
  PROVE  /\ Front(fr) \in Seq(Frame) /\ Len(Front(fr)) = Len(fr) - 1
         /\ \A k \in 1..(Len(fr) - 1) : Front(fr)[k] = fr[k]
<1> HIDE DEF Frame
<1> DEFINE k == Len(fr) - 1
<1>1. k \in Nat /\ \A i \in 1..k : i \in 1..Len(fr) /\ 1 + i - 1 = i
  OBVIOUS
<1>2. Front(fr) = SubSeq(fr, 1, k)
  BY DEF Front
<1> HIDE DEF k
<1>3. /\ Front(fr) \in Seq(Frame) /\ Len(Front(fr)) = IF 1 <= k THEN k - 1 + 1 ELSE 0
      /\ \A i \in 1..(k - 1 + 1) : Front(fr)[i] = fr[1 + i - 1]
  BY <1>1, <1>2, SubSeqProperties
<1>4. Len(Front(fr)) = k /\ k - 1 + 1 = k
  BY <1>1, <1>3
<1>5. \A i \in 1..k : Front(fr)[i] = fr[i]
  BY <1>1, <1>3, <1>4
<1> QED BY <1>3, <1>4, <1>5 DEF k

\* The search of process_flag, and what replace does, leave the walk where it is.
LEMMA WalkStays ==
  ASSUME NEW dk, NEW fr \in Seq(Frame), fr # <<>>, NEW fr2 \in Seq(Frame), NEW ph, NEW ph2, NEW done,
         ph # "subdirs", ph2 # "subdirs", Len(fr2) = Len(fr),
         \A k \in 1..Len(fr) : fr2[k].dir = fr[k].dir /\ (k < Len(fr) => fr2[k].at = fr[k].at)
  PROVE  /\ WalkIn(dk, fr, ph, done) => WalkIn(dk, fr2, ph2, done)
         /\ PathIn(dk, fr) => PathIn(dk, fr2)
         /\ Flagged(fr2, ph2, done) = Flagged(fr, ph, done)
<1>1. Len(fr) \in Nat \ {0}
  BY PathType
<1>2. ASSUME NEW k \in 1..Len(fr), NEW i PROVE Past(fr2, ph2, k, i) <=> Past(fr, ph, k, i)
  BY <1>1 DEF Past
<1>3. WalkIn(dk, fr, ph, done) => WalkIn(dk, fr2, ph2, done)
  BY <1>2 DEF WalkIn
<1>4. PathIn(dk, fr) => PathIn(dk, fr2)
  <2> SUFFICES ASSUME PathIn(dk, fr), NEW k \in 1..(Len(fr) - 1)
               PROVE  Lists(dk, fr2[k].dir, fr2[k].at, fr2[k + 1].dir)
    BY DEF PathIn
  <2>1. k \in 1..Len(fr) /\ k < Len(fr) /\ k + 1 \in 1..Len(fr)
    BY <1>1
  <2> QED BY <2>1 DEF PathIn
<1>5. Flagged(fr2, ph2, done) = Flagged(fr, ph, done)
  <2>1. {fr2[k].dir : k \in {k \in 1..Len(fr2) : k < Len(fr2) \/ ph2 = "subdirs"}}
        = {fr[k].dir : k \in {k \in 1..Len(fr) : k < Len(fr) \/ ph = "subdirs"}}
    BY <1>1
  <2> QED BY <2>1 DEF Flagged
<1> QED BY <1>3, <1>4, <1>5

\* process_flag is finished in the last directory, and its subdirectories come.
LEMMA WalkTurns ==
  ASSUME NEW dk, NEW fr \in Seq(Frame), fr # <<>>, NEW fr2 \in Seq(Frame), NEW ph, NEW done,
         ph # "subdirs", Len(fr2) = Len(fr),
         \A k \in 1..Len(fr) : fr2[k].dir = fr[k].dir /\ (k < Len(fr) => fr2[k].at = fr[k].at),
         fr2[Len(fr)].at = 0
  PROVE  /\ WalkIn(dk, fr, ph, done) => WalkIn(dk, fr2, "subdirs", done)
         /\ PathIn(dk, fr) => PathIn(dk, fr2)
         /\ Flagged(fr2, "subdirs", done) = Flagged(fr, ph, done) \union {fr[Len(fr)].dir}
<1>1. Len(fr) \in Nat \ {0}
  BY PathType
<1>2. ASSUME NEW k \in 1..Len(fr), NEW m, NEW i \in 1..m PROVE Past(fr2, "subdirs", k, i) <=> Past(fr, ph, k, i)
  <2>1. CASE k < Len(fr)
    BY <2>1 DEF Past
  <2>2. CASE ~(k < Len(fr))
    <3>1. k = Len(fr)
      BY <2>2, <1>1
    <3>2. ~(i <= 0)
      OBVIOUS
    <3> QED BY <2>2, <3>1, <3>2 DEF Past
  <2> QED BY <2>1, <2>2
<1>3. WalkIn(dk, fr, ph, done) => WalkIn(dk, fr2, "subdirs", done)
  BY <1>2 DEF WalkIn
<1>4. PathIn(dk, fr) => PathIn(dk, fr2)
  <2> SUFFICES ASSUME PathIn(dk, fr), NEW k \in 1..(Len(fr) - 1)
               PROVE  Lists(dk, fr2[k].dir, fr2[k].at, fr2[k + 1].dir)
    BY DEF PathIn
  <2>1. k \in 1..Len(fr) /\ k < Len(fr) /\ k + 1 \in 1..Len(fr)
    BY <1>1
  <2> QED BY <2>1 DEF PathIn
<1>5. Flagged(fr2, "subdirs", done) = Flagged(fr, ph, done) \union {fr[Len(fr)].dir}
  <2>1. {fr2[k].dir : k \in {k \in 1..Len(fr2) : k < Len(fr2) \/ "subdirs" = "subdirs"}}
        = {fr[k].dir : k \in {k \in 1..Len(fr) : k < Len(fr) \/ ph = "subdirs"}} \union {fr[Len(fr)].dir}
    <3>1. \A k \in 1..Len(fr) : k < Len(fr) \/ k = Len(fr)
      BY <1>1
    <3> QED BY <1>1, <3>1
  <2> QED BY <2>1 DEF Flagged
<1> QED BY <1>3, <1>4, <1>5

\* The search of process_dir finds the next subdirectory and goes down into it: it was not in it before.
LEMMA WalkEnters ==
  ASSUME NEW dk, WellFormed(dk), IsTree(dk), NEW fr \in Seq(Frame), fr # <<>>, NEW fr2 \in Seq(Frame),
         NEW done \in SUBSET Dirs, WalkIn(dk, fr, "subdirs", done), PathIn(dk, fr),
         NEW next \in Nat, NEW e \in Dirs, Lists(dk, fr[Len(fr)].dir, next, e), next > fr[Len(fr)].at,
         \A i, x : Lists(dk, fr[Len(fr)].dir, i, x) /\ i < next => i <= fr[Len(fr)].at,
         Len(fr2) = Len(fr) + 1,
         \A k \in 1..Len(fr) : fr2[k].dir = fr[k].dir /\ (k < Len(fr) => fr2[k].at = fr[k].at),
         fr2[Len(fr)].at = next, fr2[Len(fr) + 1].dir = e
  PROVE  /\ WalkIn(dk, fr2, "flag", done) /\ PathIn(dk, fr2)
         /\ Flagged(fr2, "flag", done) = Flagged(fr, "subdirs", done)
         /\ e \notin Flagged(fr, "subdirs", done)
<1> DEFINE n == Len(fr)
           ph == "subdirs"
<1>1. n \in Nat \ {0} /\ n \in 1..n /\ \A k \in 1..n : fr[k].dir \in Dirs /\ fr[k].at \in Nat
  BY PathType
<1>2. /\ \A j, k \in 1..n : fr[j].dir = fr[k].dir => j = k
      /\ \A k \in 1..n : fr[k].dir # e
  BY PathApart
<1>3. e \notin done
  <2> SUFFICES ASSUME e \in done PROVE FALSE
    OBVIOUS
  <2>1. next \in 1..Len(dk[fr[n].dir])
    BY DEF Lists
  <2>2. fr[n].dir \in done \/ \E k \in 1..n : fr[n].dir = fr[k].dir /\ Past(fr, ph, k, next)
    BY <1>1, <2>1 DEF WalkIn
  <2>3. fr[n].dir \notin done
    BY <1>1 DEF WalkIn
  <2>4. PICK k \in 1..n : fr[n].dir = fr[k].dir /\ Past(fr, ph, k, next)
    BY <2>2, <2>3
  <2>5. k = n
    BY <2>4, <1>1, <1>2
  <2>6. next <= fr[n].at
    BY <2>4, <2>5, <1>1 DEF Past
  <2> QED BY <2>6, <1>1
<1>4. /\ \A k \in 1..n : fr2[k].dir = fr[k].dir /\ (k < n => fr2[k].at = fr[k].at)
      /\ Len(fr2) = n + 1 /\ fr2[n].at = next /\ fr2[n + 1].dir = e
  OBVIOUS
<1>5. \A k \in 1..(n + 1) : k \in 1..n \/ k = n + 1
  BY <1>1
<1>6. ASSUME NEW i, NEW m, i \in 1..m PROVE ~Past(fr2, "flag", n + 1, i)
  BY <1>1 DEF Past
<1>7. ASSUME NEW k \in 1..n, NEW i \in Nat, NEW x, Lists(dk, fr[k].dir, i, x), Past(fr2, "flag", k, i)
      PROVE  Past(fr, ph, k, i)
  <2>1. CASE k < n
    BY <2>1, <1>1, <1>4, <1>7 DEF Past
  <2>2. CASE k = n
    <3>1. i < next
      BY <2>2, <1>1, <1>4, <1>7 DEF Past
    <3>2. i <= fr[n].at
      BY <3>1, <2>2, <1>7
    <3> QED BY <3>2, <2>2 DEF Past
  <2> QED BY <2>1, <2>2, <1>1
<1>8. ASSUME NEW k \in 1..n, NEW i \in Nat, Past(fr, ph, k, i) PROVE Past(fr2, "flag", k, i)
  <2>1. CASE k < n
    BY <2>1, <1>1, <1>4, <1>8 DEF Past
  <2>2. CASE k = n
    <3>1. i <= fr[n].at
      BY <2>2, <1>8 DEF Past
    <3>2. i < next
      BY <3>1, <1>1
    <3> QED BY <3>2, <2>2, <1>1, <1>4 DEF Past
  <2> QED BY <2>1, <2>2, <1>1
<1> HIDE DEF n, ph
<1>9. \A m : \A i \in 1..m : i \in Nat
  OBVIOUS
<1>10. \A k \in 1..(n + 1) : fr2[k].dir \notin done
  BY <1>1, <1>3, <1>4, <1>5 DEF WalkIn, n, ph
<1>11. \A d \in done, x \in Dirs : \A i \in 1..Len(dk[d]) : Lists(dk, d, i, x) => x \in done
  BY DEF WalkIn
<1>12. ASSUME NEW k \in 1..(n + 1), NEW x \in Dirs, NEW i \in 1..Len(dk[fr2[k].dir]),
              Lists(dk, fr2[k].dir, i, x), Past(fr2, "flag", k, i)
       PROVE  x \in done
  <2>1. k \in 1..n
    BY <1>5, <1>6, <1>12
  <2>2. i \in Nat /\ fr2[k].dir = fr[k].dir
    BY <2>1, <1>4, <1>9
  <2>3. Past(fr, ph, k, i)
    BY <2>1, <2>2, <1>7, <1>12
  <2> QED BY <2>1, <2>2, <2>3, <1>12 DEF WalkIn, n, ph
<1>13. ASSUME NEW d \in Dirs, NEW x \in done, NEW i \in 1..Len(dk[d]), Lists(dk, d, i, x)
       PROVE  d \in done \/ \E k \in 1..(n + 1) : d = fr2[k].dir /\ Past(fr2, "flag", k, i)
  <2>1. d \in done \/ \E k \in 1..n : d = fr[k].dir /\ Past(fr, ph, k, i)
    BY <1>13 DEF WalkIn, n, ph
  <2>2. ASSUME NEW k \in 1..n, d = fr[k].dir, Past(fr, ph, k, i)
        PROVE  k \in 1..(n + 1) /\ d = fr2[k].dir /\ Past(fr2, "flag", k, i)
    BY <1>1, <1>4, <1>8, <1>9, <2>2
  <2> QED BY <2>1, <2>2
<1>14. WalkIn(dk, fr2, "flag", done)
  BY <1>4, <1>10, <1>11, <1>12, <1>13 DEF WalkIn
<1>15. PathIn(dk, fr2)
  <2> SUFFICES ASSUME NEW k \in 1..n PROVE Lists(dk, fr2[k].dir, fr2[k].at, fr2[k + 1].dir)
    <3>1. Len(fr2) - 1 = n
      BY <1>1, <1>4
    <3> QED BY <3>1 DEF PathIn
  <2>1. CASE k < n
    <3>1. k \in 1..(n - 1) /\ k + 1 \in 1..n
      BY <2>1, <1>1
    <3>2. Lists(dk, fr[k].dir, fr[k].at, fr[k + 1].dir)
      BY <3>1 DEF PathIn, n
    <3> QED BY <2>1, <3>1, <3>2, <1>4
  <2>2. CASE k = n
    BY <2>2, <1>1, <1>4 DEF n
  <2> QED BY <2>1, <2>2, <1>1
<1>16. Flagged(fr2, "flag", done) = Flagged(fr, ph, done)
  <2>1. {fr2[k].dir : k \in {k \in 1..(n + 1) : k < n + 1 \/ "flag" = "subdirs"}} = {fr[k].dir : k \in 1..n}
    BY <1>1, <1>4
  <2>2. {fr[k].dir : k \in {k \in 1..n : k < n \/ ph = "subdirs"}} = {fr[k].dir : k \in 1..n}
    BY DEF ph
  <2> QED BY <2>1, <2>2, <1>4 DEF Flagged, n
<1>17. e \notin Flagged(fr, ph, done)
  BY <1>2, <1>3 DEF Flagged, n
<1> QED BY <1>14, <1>15, <1>16, <1>17 DEF ph

\* The last call has passed all that its directory lists, and returns.
LEMMA WalkLeaves ==
  ASSUME NEW dk, WellFormed(dk), IsTree(dk), NEW fr \in Seq(Frame), Len(fr) > 1,
         NEW done \in SUBSET Dirs, WalkIn(dk, fr, "subdirs", done), PathIn(dk, fr),
         Searched(dk, fr[Len(fr)]),
         NEW more, more = done \union {fr[Len(fr)].dir}
  PROVE  /\ WalkIn(dk, Front(fr), "subdirs", more) /\ PathIn(dk, Front(fr))
         /\ Flagged(Front(fr), "subdirs", more) = Flagged(fr, "subdirs", done)
<1> DEFINE n == Len(fr)
           ph == "subdirs"
           fr2 == Front(fr)
<1>1. n \in Nat \ {0} /\ n \in 1..n /\ \A k \in 1..n : fr[k].dir \in Dirs /\ fr[k].at \in Nat
  BY PathType
<1>2. \A j, k \in 1..n : fr[j].dir = fr[k].dir => j = k
  BY PathApart
<1>3. n - 1 \in 1..n /\ n - 1 # n /\ (n - 1) + 1 = n /\ \A k \in 1..(n - 1) : k \in 1..n /\ k # n
  BY <1>1
<1>4. Len(fr2) = n - 1 /\ \A k \in 1..(n - 1) : fr2[k] = fr[k]
  BY FrontIs
<1> HIDE DEF fr2
<1>5. Lists(dk, fr[n - 1].dir, fr[n - 1].at, fr[n].dir)
  <2> DEFINE k == n - 1
  <2>1. k \in 1..(Len(fr) - 1) /\ k + 1 = n
    BY <1>1
  <2> HIDE DEF k, n
  <2>2. Lists(dk, fr[k].dir, fr[k].at, fr[k + 1].dir)
    BY <2>1 DEF PathIn
  <2>3. Lists(dk, fr[k].dir, fr[k].at, fr[n].dir)
    BY <2>1, <2>2
  <2> QED BY <2>3 DEF k
<1> DEFINE d0 == fr[n].dir
<1>6. ASSUME NEW d \in Dirs, NEW i, Lists(dk, d, i, d0) PROVE d = fr[n - 1].dir /\ i = fr[n - 1].at
  BY <1>1, <1>3, <1>5, <1>6, TreeFacts
<1>7. ASSUME NEW i, NEW x \in Dirs, Lists(dk, d0, i, x) PROVE x \in done
  <2>1. i <= fr[n].at
    BY <1>7 DEF Searched
  <2>2. Past(fr, ph, n, i)
    BY <2>1, <1>1 DEF Past
  <2>3. i \in 1..Len(dk[d0])
    BY <1>7 DEF Lists
  <2> QED BY <2>2, <2>3, <1>1, <1>7 DEF WalkIn
<1>8. ASSUME NEW k \in 1..(n - 1), k # n - 1, NEW i PROVE Past(fr2, ph, k, i) <=> Past(fr, ph, k, i)
  <2>1. k < n - 1 /\ k < n
    BY <1>1, <1>8
  <2> QED BY <2>1, <1>4 DEF Past
<1>9. ASSUME NEW i \in Nat PROVE Past(fr2, ph, n - 1, i) <=> Past(fr, ph, n - 1, i) \/ i = fr[n - 1].at
  <2>4. ~(n - 1 < Len(fr2)) /\ n - 1 < Len(fr) /\ n - 1 \in 1..(n - 1)
    BY <1>1, <1>4
  <2>5. fr2[n - 1] = fr[n - 1]
    BY <2>4, <1>4
  <2>1. Past(fr2, ph, n - 1, i) <=> i <= fr[n - 1].at
    BY <2>4, <2>5 DEF Past
  <2>2. Past(fr, ph, n - 1, i) <=> i < fr[n - 1].at
    BY <2>4 DEF Past
  <2>3. fr[n - 1].at \in Nat
    BY <1>1, <1>3
  <2> QED BY <2>1, <2>2, <2>3
<1>10. more \in SUBSET Dirs /\ d0 \in Dirs
  BY <1>1
<1>11. \A m : \A i \in 1..m : i \in Nat
  OBVIOUS
<1>18. more = done \union {d0}
  OBVIOUS
<1> HIDE DEF n, ph, d0
<1>12. \A k \in 1..(n - 1) : fr2[k].dir \notin more
  <2> SUFFICES ASSUME NEW k \in 1..(n - 1) PROVE fr[k].dir \notin more
    BY <1>4
  <2>1. fr[k].dir # d0
    BY <1>1, <1>2, <1>3 DEF d0
  <2>2. fr[k].dir \notin done
    BY <1>3 DEF WalkIn, n
  <2> QED BY <2>1, <2>2, <1>18
<1>13. ASSUME NEW d \in more, NEW x \in Dirs, NEW i \in 1..Len(dk[d]), Lists(dk, d, i, x) PROVE x \in more
  <2>1. CASE d \in done
    BY <2>1, <1>13, <1>18 DEF WalkIn
  <2>2. CASE d = d0
    BY <2>2, <1>7, <1>13, <1>18
  <2> QED BY <2>1, <2>2, <1>18
<1>14. ASSUME NEW k \in 1..(n - 1), NEW x \in Dirs, NEW i \in 1..Len(dk[fr[k].dir]),
              Lists(dk, fr[k].dir, i, x), Past(fr2, ph, k, i)
       PROVE  x \in more
  <2>1. k \in 1..n /\ fr[k].dir \in Dirs /\ i \in Nat
    BY <1>1, <1>3, <1>11
  <2>2. CASE Past(fr, ph, k, i)
    BY <2>1, <2>2, <1>14, <1>18 DEF WalkIn, n, ph
  <2>3. CASE ~Past(fr, ph, k, i)
    <3>1. k = n - 1 /\ i = fr[n - 1].at
      BY <2>1, <2>3, <1>8, <1>9, <1>14
    <3>2. Lists(dk, fr[k].dir, i, d0)
      BY <3>1, <1>5 DEF d0
    <3>3. x = d0
      BY <3>2, <1>14 DEF Lists
    <3> QED BY <3>3, <1>18
  <2> QED BY <2>2, <2>3
<1>15. ASSUME NEW d \in Dirs, NEW x \in more, NEW i \in 1..Len(dk[d]), Lists(dk, d, i, x)
       PROVE  d \in more \/ \E k \in 1..(n - 1) : d = fr[k].dir /\ Past(fr2, ph, k, i)
  <2>1. CASE x \in done
    <3>1. d \in done \/ \E k \in 1..n : d = fr[k].dir /\ Past(fr, ph, k, i)
      BY <2>1, <1>15 DEF WalkIn, n, ph
    <3>2. CASE d \in done
      BY <3>2, <1>18
    <3>3. ASSUME NEW k \in 1..n, d = fr[k].dir, Past(fr, ph, k, i), d # d0
          PROVE  k \in 1..(n - 1) /\ Past(fr2, ph, k, i)
      <4>1. k # n
        BY <3>3 DEF d0
      <4>2. k \in 1..(n - 1)
        BY <4>1, <1>1
      <4>3. Past(fr2, ph, k, i)
        BY <4>2, <3>3, <1>8, <1>9, <1>11
      <4> QED BY <4>2, <4>3
    <3> QED BY <3>1, <3>2, <3>3, <1>18
  <2>2. CASE x = d0
    <3>1. d = fr[n - 1].dir /\ i = fr[n - 1].at /\ i \in Nat /\ n - 1 \in 1..(n - 1)
      BY <2>2, <1>1, <1>3, <1>6, <1>11, <1>15
    <3>2. Past(fr2, ph, n - 1, i)
      BY <3>1, <1>9
    <3> QED BY <3>1, <3>2
  <2> QED BY <2>1, <2>2, <1>18
<1>16. WalkIn(dk, fr2, ph, more)
  <2>1. Len(fr2) = n - 1
    BY <1>4
  <2>2. \A k \in 1..(n - 1), x \in Dirs : \A i \in 1..Len(dk[fr2[k].dir]) :
           Lists(dk, fr2[k].dir, i, x) /\ Past(fr2, ph, k, i) => x \in more
    <3> SUFFICES ASSUME NEW k \in 1..(n - 1), NEW x \in Dirs, NEW i \in 1..Len(dk[fr2[k].dir]),
                        Lists(dk, fr2[k].dir, i, x), Past(fr2, ph, k, i)
                 PROVE  x \in more
      OBVIOUS
    <3>1. fr2[k].dir = fr[k].dir
      BY <1>4
    <3> QED BY <3>1, <1>14
  <2>3. \A d \in Dirs, x \in more : \A i \in 1..Len(dk[d]) :
           Lists(dk, d, i, x) => d \in more \/ \E k \in 1..(n - 1) : d = fr2[k].dir /\ Past(fr2, ph, k, i)
    <3> SUFFICES ASSUME NEW d \in Dirs, NEW x \in more, NEW i \in 1..Len(dk[d]), Lists(dk, d, i, x), d \notin more
                 PROVE  \E k \in 1..(n - 1) : d = fr2[k].dir /\ Past(fr2, ph, k, i)
      OBVIOUS
    <3>1. PICK k \in 1..(n - 1) : d = fr[k].dir /\ Past(fr2, ph, k, i)
      BY <1>15
    <3>2. fr2[k].dir = fr[k].dir
      BY <1>4
    <3> QED BY <3>1, <3>2
  <2>4. \A d \in more, x \in Dirs : \A i \in 1..Len(dk[d]) : Lists(dk, d, i, x) => x \in more
    BY <1>13
  <2> QED BY <2>1, <2>2, <2>3, <2>4, <1>12 DEF WalkIn
<1>17. PathIn(dk, fr2)
  <2> SUFFICES ASSUME NEW k \in 1..((n - 1) - 1) PROVE Lists(dk, fr2[k].dir, fr2[k].at, fr2[k + 1].dir)
    BY <1>4 DEF PathIn
  <2>1. k \in 1..(n - 1) /\ k + 1 \in 1..(n - 1)
    BY <1>1
  <2>2. Lists(dk, fr[k].dir, fr[k].at, fr[k + 1].dir)
    BY <2>1 DEF PathIn, n
  <2> QED BY <2>1, <2>2, <1>4
<1>19. Flagged(fr2, ph, more) = Flagged(fr, ph, done)
  <2> DEFINE A == {fr[k].dir : k \in 1..(n - 1)}
  <2>1. {fr2[k].dir : k \in {k \in 1..Len(fr2) : k < Len(fr2) \/ ph = "subdirs"}} = A
    BY <1>4 DEF ph
  <2>2. {fr[k].dir : k \in {k \in 1..n : k < n \/ ph = "subdirs"}} = A \union {d0}
    <3>1. \A k \in 1..n : k \in 1..(n - 1) \/ k = n
      BY <1>1
    <3>2. {k \in 1..n : k < n \/ ph = "subdirs"} = 1..n
      BY DEF ph
    <3>3. {fr[k].dir : k \in 1..n} = {fr[k].dir : k \in 1..(n - 1)} \union {fr[n].dir}
      BY <3>1, <1>1, <1>3
    <3> QED BY <3>2, <3>3 DEF d0
  <2> HIDE DEF A
  <2>3. Flagged(fr2, ph, more) = more \union A
    BY <2>1 DEF Flagged
  <2>4. Flagged(fr, ph, done) = done \union (A \union {d0})
    BY <2>2 DEF Flagged, n
  <2> QED BY <2>3, <2>4, <1>18
<1> QED BY <1>16, <1>17, <1>19 DEF ph, fr2

-----------------------------------------------------------------------------
(* The steps of the walk.                                                   *)

\* The first disk and the disk of now, while XREP runs.
LEMMA RunFacts ==
  ASSUME TypeInv, first \in Disks, phase # "idle", Stays(first, disk)
  PROVE  /\ WellFormed(disk) /\ WellFormed(first) /\ IsTree(first) /\ XrepType
         /\ frames \in Seq(Frame) /\ frames # <<>> /\ Len(frames) \in Nat \ {0}
         /\ top \in Frame /\ top = frames[Len(frames)] /\ top = Last(frames) /\ top.dir \in Dirs /\ top.at \in Nat
         /\ \A d \in Dirs : \A i, e : Lists(first, d, i, e) <=> Lists(disk, d, i, e)
         /\ \A d \in Dirs : \A n \in DOMAIN Goal[d] :
               /\ n \in Names /\ n \in setup.flag /\ n.ext # "XRP"
               /\ Attr(disk, d, n) = "plain" /\ SlotOf(disk, d, n) = SlotOf(first, d, n)
               /\ SlotOf(first, d, n) \in Nat \ {0}
<1>1. WellFormed(disk) /\ WellFormed(first) /\ IsTree(first) /\ XrepType
  BY SessionAssumption, TreeAssumption DEF TypeInv, DiskType
<1>2. frames \in Seq(Frame) /\ frames # <<>> /\ Len(frames) \in Nat \ {0} /\ top \in Frame
  BY <1>1, TopType DEF XrepType
<1>3. top = frames[Len(frames)] /\ top = Last(frames)
  BY <1>2 DEF top, Last
<1>4. top.dir \in Dirs /\ top.at \in Nat
  BY <1>2 DEF Frame
<1>5. \A d \in Dirs : \A i, e : Lists(first, d, i, e) <=> Lists(disk, d, i, e)
  BY <1>1, ListsStay
<1>6. ASSUME NEW d \in Dirs, NEW n \in DOMAIN Goal[d]
      PROVE  /\ n \in Names /\ n \in setup.flag /\ n.ext # "XRP"
             /\ Attr(disk, d, n) = "plain" /\ SlotOf(disk, d, n) = SlotOf(first, d, n)
             /\ SlotOf(first, d, n) \in Nat \ {0}
  <2>1. /\ n \in Names /\ n \in setup.flag /\ n.ext # "XRP" /\ Attr(first, d, n) = "plain"
        /\ SlotOf(first, d, n) \in Nat \ {0}
    BY <1>1, WantedType
  <2> QED BY <2>1 DEF Stays
<1> QED BY <1>1, <1>2, <1>3, <1>4, <1>5, <1>6

\* process_flag is not finished in the directory it searches.
LEMMA TopUnflagged ==
  ASSUME NEW dk, WellFormed(dk), IsTree(dk), NEW fr \in Seq(Frame), fr # <<>>, PathIn(dk, fr),
         NEW ph, ph # "subdirs", NEW done, WalkIn(dk, fr, ph, done)
  PROVE  Last(fr).dir \notin Flagged(fr, ph, done)
<1>1. Len(fr) \in Nat \ {0} /\ Len(fr) \in 1..Len(fr) /\ Last(fr) = fr[Len(fr)]
  BY PathType
<1>2. fr[Len(fr)].dir \notin done
  BY <1>1 DEF WalkIn
<1>3. \A k \in 1..Len(fr) : fr[k].dir = fr[Len(fr)].dir => k = Len(fr)
  BY <1>1, PathApart
<1> QED BY <1>1, <1>2, <1>3 DEF Flagged

\* Another call at the end of the path.
LEMMA TopSet ==
  ASSUME frames \in Seq(Frame), frames # <<>>, NEW f \in Frame, NEW g \in Frame
  PROVE  /\ SetTop(f) \in Seq(Frame) /\ SetTop(f) # <<>> /\ Len(SetTop(f)) = Len(frames)
         /\ \A k \in 1..Len(frames) : SetTop(f)[k] = IF k < Len(frames) THEN frames[k] ELSE f
         /\ Last(SetTop(f)) = f
         /\ LET more == Append(SetTop(f), g) IN
            /\ more \in Seq(Frame) /\ more # <<>> /\ Len(more) = Len(frames) + 1
            /\ \A k \in 1..Len(frames) : more[k] = IF k < Len(frames) THEN frames[k] ELSE f
            /\ more[Len(frames) + 1] = g /\ Last(more) = g
<1> HIDE DEF Frame
<1> DEFINE s == SetTop(f)
           n == Len(frames)
<1>1. n \in Nat \ {0}
  OBVIOUS
<1>2. s \in Seq(Frame) /\ Len(s) = n /\ \A k \in 1..n : s[k] = IF k < n THEN frames[k] ELSE f
  BY <1>1 DEF SetTop
<1> HIDE DEF s, n
<1>3. s # <<>> /\ Last(s) = f
  BY <1>1, <1>2 DEF Last
<1> DEFINE m == Append(s, g)
<1>4. m \in Seq(Frame) /\ m # <<>> /\ Len(m) = n + 1 /\ (\A k \in 1..n : m[k] = s[k]) /\ m[n + 1] = g
  BY <1>1, <1>2, AppendProperties
<1> HIDE DEF m
<1>5. Last(m) = g
  BY <1>1, <1>4 DEF Last
<1> QED BY <1>2, <1>3, <1>4, <1>5 DEF s, n, m

\* Finding the next file leaves no wanted file between it and the one before.
LEMMA RunFinds ==
  ASSUME TypeInv, first \in Disks, phase # "idle", RunIn, first' = first, FindFile
  PROVE  RunIn'
<1>1. phase = "flag" /\ NextFile # 0 /\ UNCHANGED <<disk, setup>> /\ phase' \in {"prompt", "backup"}
  BY DEF FindFile
<1> DEFINE f == [top EXCEPT !.at = NextFile, !.slash = TRUE]
           fr2 == SetTop(f)
           n0 == disk[top.dir][NextFile].name
           d == top.dir
<1>2. frames' = fr2 /\ file' = [dir |-> d, name |-> n0]
  BY DEF FindFile
<1>3. Stays(first, disk) /\ PathInv /\ DoneInv
  BY DEF RunIn
<1>4. /\ WellFormed(disk) /\ WellFormed(first) /\ IsTree(first)
      /\ frames \in Seq(Frame) /\ frames # <<>> /\ Len(frames) \in Nat \ {0}
      /\ top \in Frame /\ top = frames[Len(frames)] /\ top = Last(frames) /\ d \in Dirs /\ top.at \in Nat
      /\ \A n \in DOMAIN Goal[d] :
            /\ n \in Names /\ n \in setup.flag /\ Attr(disk, d, n) = "plain"
            /\ SlotOf(disk, d, n) = SlotOf(first, d, n) /\ SlotOf(first, d, n) \in Nat \ {0}
  BY <1>3, RunFacts
<1>5. NextFile \in Nat /\ NextFile > top.at /\ n0 \in Names /\ SlotOf(disk, d, n0) = NextFile
  BY <1>1, NextFound, NextFileIs
<1>6. \A n \in setup.flag : Attr(disk, d, n) = "plain" /\ SlotOf(disk, d, n) > top.at => NextFile <= SlotOf(disk, d, n)
  BY <1>1, NextFileIs
<1>7. f \in Frame /\ f.dir = d /\ f.at = NextFile
  BY <1>4, <1>5 DEF Frame
<1> HIDE DEF f, n0, fr2, d
<1>8. /\ fr2 \in Seq(Frame) /\ Len(fr2) = Len(frames) /\ Last(fr2) = f
      /\ \A k \in 1..Len(frames) : fr2[k] = IF k < Len(frames) THEN frames[k] ELSE f
  BY <1>4, <1>7, TopSet DEF fr2
<1>9. \A k \in 1..Len(frames) : fr2[k].dir = frames[k].dir /\ (k < Len(frames) => fr2[k].at = frames[k].at)
  <2>1. \A k \in 1..Len(frames) : k < Len(frames) \/ k = Len(frames)
    BY <1>4
  <2>2. f.dir = frames[Len(frames)].dir
    BY <1>4, <1>7 DEF d
  <2> QED BY <1>8, <2>1, <2>2
<1>10. Goal' = Goal /\ Begun' = Begun
  BY <1>1, GoalKept
<1>11. PathIn(first, fr2)
  <2>1. phase # "subdirs" /\ "backup" # "subdirs" /\ PathIn(first, frames)
    BY <1>1, <1>3 DEF PathInv
  <2> QED BY <2>1, <1>4, <1>8, <1>9, WalkStays
<1>12. PathInv'
  <2>1. fr2[1].dir = setup.dir /\ (setup.nosubdirs => Len(fr2) = 1)
    <3>1. 1 \in 1..Len(frames)
      BY <1>4
    <3> QED BY <3>1, <1>3, <1>8, <1>9 DEF PathInv
  <2>2. phase' # "subdirs"
    BY <1>1
  <2> QED BY <2>1, <2>2, <1>1, <1>2, <1>11 DEF PathInv
<1>13. PICK done \in SUBSET Dirs :
          WalkIn(first, frames, phase, done) /\ FilesIn(first, Goal, disk, frames, phase, done)
  BY <1>3 DEF DoneInv
<1>14. PICK ph : ph = phase'
  OBVIOUS
<1>15. ph # "subdirs" /\ ph # "flag" /\ phase # "subdirs"
  BY <1>1, <1>14
<1>16. WalkIn(first, fr2, ph, done) /\ Flagged(fr2, ph, done) = Flagged(frames, phase, done)
  <2>1. frames \in Seq(Frame) /\ frames # <<>> /\ fr2 \in Seq(Frame) /\ Len(fr2) = Len(frames)
    BY <1>4, <1>8
  <2> HIDE DEF Frame
  <2>2. Flagged(fr2, ph, done) = Flagged(frames, phase, done)
    BY <2>1, <1>9, <1>15, WalkStays
  <2>3. WalkIn(first, frames, phase, done) => WalkIn(first, fr2, ph, done)
    BY <2>1, <1>9, <1>15, WalkStays
  <2> QED BY <2>2, <2>3, <1>13
<1>17. \A n \in DOMAIN Goal[d] : LET i == SlotOf(first, d, n) IN
          /\ i > top.at => Text(disk, d, n) = Text(first, d, n)
          /\ i <= top.at => Text(disk, d, n) = Goal[d][n]
          /\ i > top.at => i >= NextFile
  <2> SUFFICES ASSUME NEW n \in DOMAIN Goal[d]
               PROVE  LET i == SlotOf(first, d, n) IN
                      /\ i > top.at => Text(disk, d, n) = Text(first, d, n)
                      /\ i <= top.at => Text(disk, d, n) = Goal[d][n]
                      /\ i > top.at => i >= NextFile
    OBVIOUS
  <2> DEFINE i == SlotOf(first, d, n)
  <2>1. i \in Nat /\ i = SlotOf(disk, d, n) /\ n \in setup.flag /\ Attr(disk, d, n) = "plain"
    BY <1>4
  <2>2. /\ i > top.at => Text(disk, d, n) = Text(first, d, n)
        /\ i < top.at => Text(disk, d, n) = Goal[d][n]
        /\ i = top.at => Text(disk, d, n) = Goal[d][n]
    BY <1>1, <1>4, <1>13 DEF FilesIn, d
  <2>3. i > top.at => NextFile <= i
    BY <2>1, <1>6
  <2> HIDE DEF i
  <2>4. i <= top.at => i < top.at \/ i = top.at
    BY <2>1, <1>4
  <2>5. NextFile <= i => i >= NextFile
    BY <2>1, <1>5
  <2> QED BY <2>2, <2>3, <2>4, <2>5 DEF i
<1>18. FilesIn(first, Goal, disk, fr2, ph, done)
  <2>1. Last(fr2).dir = d /\ Last(fr2).at = NextFile /\ Last(frames).dir = d
    BY <1>4, <1>7, <1>8 DEF d
  <2>2. ASSUME NEW n \in DOMAIN Goal[d]
        PROVE  /\ SlotOf(first, d, n) > NextFile => Text(disk, d, n) = Text(first, d, n)
               /\ SlotOf(first, d, n) < NextFile => Text(disk, d, n) = Goal[d][n]
    <3> DEFINE i == SlotOf(first, d, n)
    <3>1. i \in Nat
      BY <1>4
    <3>2. /\ i > top.at => Text(disk, d, n) = Text(first, d, n)
          /\ i <= top.at => Text(disk, d, n) = Goal[d][n]
          /\ i > top.at => i >= NextFile
      BY <1>17
    <3> HIDE DEF i
    <3>3. (i > NextFile => i > top.at) /\ (i < NextFile => i <= top.at)
      BY <3>1, <3>2, <1>4, <1>5
    <3> QED BY <3>2, <3>3 DEF i
  <2> QED BY <2>1, <2>2, <1>13, <1>15, <1>16 DEF FilesIn
<1>19. DoneInv'
  BY <1>1, <1>2, <1>10, <1>14, <1>16, <1>18 DEF DoneInv
<1>20. CopyIn(first, Goal, Begun, disk, ph, NextFile, d, n0, rest')
  <2>1. \A m \in DOMAIN Goal[d] : SlotOf(first, d, m) = NextFile <=> m = n0
    <3> SUFFICES ASSUME NEW m \in DOMAIN Goal[d] PROVE SlotOf(disk, d, m) = NextFile <=> m = n0
      BY <1>4
    <3>1. ASSUME SlotOf(disk, d, m) = NextFile PROVE m = n0
      <4>1. disk[d][SlotOf(disk, d, m)].name = m
        BY <3>1, <1>1, <1>4, SlotFound
      <4> QED BY <4>1, <3>1 DEF n0, d
    <3> QED BY <3>1, <1>5
  <2>2. n0 \in DOMAIN Goal[d] => Text(disk, d, n0) = Text(first, d, n0)
    <3> SUFFICES ASSUME n0 \in DOMAIN Goal[d] PROVE Text(disk, d, n0) = Text(first, d, n0)
      OBVIOUS
    <3>1. SlotOf(first, d, n0) > top.at
      BY <1>4, <1>5
    <3> QED BY <3>1, <1>17
  <2>3. ph # "reopen" /\ ph # "lines" /\ ph # "tail"
    BY <1>1, <1>14
  <2> QED BY <2>1, <2>2, <2>3 DEF CopyIn
<1>21. FileInv'
  <2>1. file'.dir = d /\ file'.name = n0 /\ top'.dir = d /\ top'.at = NextFile
    BY <1>2, <1>7, <1>8 DEF top
  <2>2. CopyIn(first', Goal', Begun', disk', phase', top'.at, file'.dir, file'.name, rest')
    BY <2>1, <1>1, <1>10, <1>14, <1>20
  <2> QED BY <2>1, <2>2 DEF FileInv, name
<1>22. Stays(first, disk)'
  BY <1>1, <1>3
<1> QED BY <1>12, <1>19, <1>21, <1>22 DEF RunIn

\* A run that has rewritten the wanted files of every directory it reaches has done all.
LEMMA OnceDone ==
  ASSUME WellFormed(first), XrepType, NEW D \in SUBSET Dirs, Reached \subseteq D,
         \A d \in D : \A n \in DOMAIN Goal[d] : Text(disk, d, n) = Goal[d][n]
  PROVE  EveryFileOnce(first)
<1> SUFFICES ASSUME NEW d \in D, NEW s \in ToSet(first[d]),
                    s.attr = "plain" /\ s.name \in setup.flag,
                    NUL \notin ToSet(s.text) /\ ShortLines(s.text),
                    s.name.ext # "XRP" /\ Writable(first, d, Xrp(s.name))
             PROVE  Text(disk, d, s.name) = Rewritten(s.text)
  BY DEF EveryFileOnce
<1>1. DOMAIN first[d] = 1..Len(first[d])
  BY SlotFound
<1>2. PICK i \in 1..Len(first[d]) : first[d][i] = s
  BY <1>1 DEF ToSet
<1> DEFINE n == s.name
<1>3. first[d][i].attr # "free" /\ first[d][i].name = n
  BY <1>2
<1>4. Attr(first, d, n) = first[d][i].attr /\ Text(first, d, n) = first[d][i].text
  <2> HIDE DEF n
  <2> QED BY <1>3, SlotSays
<1>5. n \in Wanted(d)
  BY <1>2, <1>4 DEF Wanted
<1>6. n \in DOMAIN Goal[d] /\ Goal[d][n] = Rewritten(Text(first, d, n))
  <2> HIDE DEF n
  <2> QED BY <1>5, WantedType
<1> QED BY <1>2, <1>4, <1>6

\* When process_flag is finished the wanted files of the directory are rewritten.
LEMMA TopRewritten ==
  ASSUME TypeInv, first \in Disks, phase = "flag", Stays(first, disk), NextFile = 0,
         NEW done, FilesIn(first, Goal, disk, frames, phase, done)
  PROVE  \A n \in DOMAIN Goal[top.dir] : Text(disk, top.dir, n) = Goal[top.dir][n]
<1> SUFFICES ASSUME NEW n \in DOMAIN Goal[top.dir] PROVE Text(disk, top.dir, n) = Goal[top.dir][n]
  OBVIOUS
<1> DEFINE d == top.dir
           i == SlotOf(first, d, n)
<1>1. /\ d \in Dirs /\ top.at \in Nat /\ top = Last(frames)
      /\ n \in setup.flag /\ Attr(disk, d, n) = "plain" /\ SlotOf(disk, d, n) = i /\ i \in Nat
  <2>1. phase # "idle"
    OBVIOUS
  <2>2. top.dir \in Dirs /\ top.at \in Nat /\ top = Last(frames)
    BY <2>1, RunFacts
  <2>3. /\ n \in setup.flag /\ Attr(disk, d, n) = "plain" /\ SlotOf(disk, d, n) = SlotOf(first, d, n)
        /\ SlotOf(first, d, n) \in Nat \ {0}
    BY <2>1, <2>2, RunFacts
  <2> QED BY <2>2, <2>3
<1>2. ~(SlotOf(disk, d, n) > top.at)
  BY <1>1, NextFileIs
<1>3. /\ i < top.at => Text(disk, d, n) = Goal[d][n]
      /\ i = top.at => Text(disk, d, n) = Goal[d][n]
  BY <1>1 DEF FilesIn
<1>4. i < top.at \/ i = top.at
  <2> HIDE DEF i, d
  <2> QED BY <1>1, <1>2
<1> QED BY <1>3, <1>4

\* process_flag is finished: with opt_no_subdirs all is done.
LEMMA RunTurns ==
  ASSUME TypeInv, first \in Disks, phase # "idle", RunIn, first' = first, EndFlag
  PROVE  IF phase' = "idle" THEN EveryFileOnce(first)' ELSE RunIn'
<1>1. phase = "flag" /\ NextFile = 0 /\ UNCHANGED <<disk, setup>>
  BY DEF EndFlag
<1>2. Stays(first, disk) /\ PathInv /\ DoneInv
  BY DEF RunIn
<1> DEFINE d == top.dir
<1>3. /\ WellFormed(disk) /\ WellFormed(first) /\ IsTree(first) /\ XrepType
      /\ frames \in Seq(Frame) /\ frames # <<>> /\ Len(frames) \in Nat \ {0}
      /\ top \in Frame /\ top = frames[Len(frames)] /\ top = Last(frames) /\ d \in Dirs /\ top.at \in Nat
  BY <1>2, RunFacts
<1>4. PICK done \in SUBSET Dirs :
         WalkIn(first, frames, phase, done) /\ FilesIn(first, Goal, disk, frames, phase, done)
  BY <1>2 DEF DoneInv
<1>5. \A n \in DOMAIN Goal[d] : Text(disk, d, n) = Goal[d][n]
  BY <1>1, <1>2, <1>4, TopRewritten
<1>6. CASE setup.nosubdirs
  <2>1. Len(frames) = 1 /\ setup.dir = d
    BY <1>2, <1>3, <1>6 DEF PathInv
  <2>2. phase' = "idle"
    BY <1>1, <1>6, <2>1 DEF EndFlag, Return, Ends
  <2>3. Reached \subseteq {d}
    <3> DEFINE D == {d}
    <3>1. D \in SUBSET Dirs /\ setup.dir \in D
      BY <1>3, <2>1
    <3> HIDE DEF D
    <3>2. Reached \subseteq D
      BY <3>1, <1>3, <1>6, ReachedWithin
    <3> QED BY <3>2 DEF D
  <2>4. EveryFileOnce(first)
    <3>1. {d} \in SUBSET Dirs /\ \A c \in {d} : \A n \in DOMAIN Goal[c] : Text(disk, c, n) = Goal[c][n]
      BY <1>3, <1>5
    <3> HIDE DEF d
    <3> QED BY <1>3, <2>3, <3>1, OnceDone
  <2>5. EveryFileOnce(first)'
    BY <2>4, <1>1, OnceKept
  <2> QED BY <2>2, <2>5
<1>7. CASE ~setup.nosubdirs
  <2> DEFINE f == [top EXCEPT !.at = 0]
             fr2 == SetTop(f)
  <2>1. frames' = fr2 /\ phase' = "subdirs"
    BY <1>1, <1>7 DEF EndFlag
  <2>2. f \in Frame /\ f.dir = d /\ f.at = 0
    BY <1>3 DEF Frame
  <2> HIDE DEF f, fr2, d
  <2>3. /\ fr2 \in Seq(Frame) /\ Len(fr2) = Len(frames) /\ Last(fr2) = f
        /\ \A k \in 1..Len(frames) : fr2[k] = IF k < Len(frames) THEN frames[k] ELSE f
    BY <1>3, <2>2, TopSet DEF fr2
  <2>4. /\ \A k \in 1..Len(frames) : fr2[k].dir = frames[k].dir /\ (k < Len(frames) => fr2[k].at = frames[k].at)
        /\ fr2[Len(frames)].at = 0
    <3>1. \A k \in 1..Len(frames) : k < Len(frames) \/ k = Len(frames)
      BY <1>3
    <3>2. f.dir = frames[Len(frames)].dir
      BY <1>3, <2>2 DEF d
    <3>3. Len(frames) \in 1..Len(frames) /\ ~(Len(frames) < Len(frames))
      BY <1>3
    <3> QED BY <2>2, <2>3, <3>1, <3>2, <3>3
  <2>5. /\ frames \in Seq(Frame) /\ frames # <<>> /\ fr2 \in Seq(Frame) /\ Len(fr2) = Len(frames)
        /\ phase # "subdirs"
    BY <1>1, <1>3, <2>3
  <2>6. PathIn(first, frames)
    BY <1>2 DEF PathInv
  <2>7. PathIn(first, fr2)
    BY <2>4, <2>5, <2>6, WalkTurns
  <2>8. WalkIn(first, fr2, "subdirs", done)
    <3> HIDE DEF Frame
    <3>1. WalkIn(first, frames, phase, done) => WalkIn(first, fr2, "subdirs", done)
      BY <2>4, <2>5, WalkTurns
    <3> QED BY <3>1, <1>4
  <2>9. Flagged(fr2, "subdirs", done) = Flagged(frames, phase, done) \union {d}
    <3> HIDE DEF Frame
    <3>1. Flagged(fr2, "subdirs", done) = Flagged(frames, phase, done) \union {frames[Len(frames)].dir}
      BY <2>4, <2>5, WalkTurns
    <3> QED BY <3>1, <1>3 DEF d
  <2>10. FilesIn(first, Goal, disk, fr2, "subdirs", done)
    <3>1. Last(frames).dir = d
      BY <1>3 DEF d
    <3> QED BY <3>1, <2>9, <1>4, <1>5 DEF FilesIn
  <2>11. Goal' = Goal /\ Begun' = Begun
    BY <1>1, GoalKept
  <2>12. DoneInv'
    BY <1>1, <2>1, <2>8, <2>10, <2>11 DEF DoneInv
  <2>13. PathInv'
    <3>1. fr2[1].dir = setup.dir
      <4>1. 1 \in 1..Len(frames)
        BY <1>3
      <4> QED BY <4>1, <1>2, <2>4 DEF PathInv
    <3> QED BY <3>1, <1>1, <1>7, <2>1, <2>7 DEF PathInv
  <2>14. FileInv'
    BY <2>1 DEF FileInv, Copying
  <2>15. Stays(first, disk)' /\ phase' # "idle"
    BY <1>1, <1>2, <2>1
  <2> QED BY <2>12, <2>13, <2>14, <2>15 DEF RunIn
<1> QED BY <1>6, <1>7

\* Going down into a subdirectory.
LEMMA RunEnters ==
  ASSUME TypeInv, first \in Disks, phase # "idle", RunIn, first' = first, EnterDir
  PROVE  RunIn'
<1>1. phase = "subdirs" /\ NextDir # 0 /\ UNCHANGED <<disk, setup>> /\ phase' = "flag"
  BY DEF EnterDir
<1>2. Stays(first, disk) /\ PathInv /\ DoneInv
  BY DEF RunIn
<1> DEFINE d == top.dir
           e == disk[top.dir][NextDir].opens
           f == [top EXCEPT !.at = NextDir]
           g == [dir |-> e, at |-> 0, slash |-> FALSE]
           fr2 == Append(SetTop(f), g)
           n == Len(frames)
<1>3. /\ WellFormed(disk) /\ WellFormed(first) /\ IsTree(first)
      /\ frames \in Seq(Frame) /\ frames # <<>> /\ n \in Nat \ {0}
      /\ top \in Frame /\ top = frames[n] /\ top = Last(frames) /\ d \in Dirs /\ top.at \in Nat
      /\ \A i, x : Lists(first, d, i, x) <=> Lists(disk, d, i, x)
  BY <1>2, RunFacts
<1>4. NextDir \in Nat /\ e \in Dirs
  BY <1>1, NextFound
<1>5. /\ Lists(first, d, NextDir, e) /\ NextDir > top.at
      /\ \A i, x : Lists(first, d, i, x) /\ i < NextDir => i <= top.at
  BY <1>1, <1>3, NextDirIs
<1>6. frames' = fr2
  BY DEF EnterDir
<1>7. f \in Frame /\ f.dir = d /\ f.at = NextDir
  BY <1>3, <1>4 DEF Frame
<1>8. g \in Frame /\ g.dir = e /\ g.at = 0
  BY <1>4 DEF Frame
<1> HIDE DEF d, e, f, g, fr2, n
<1>9. /\ fr2 \in Seq(Frame) /\ Len(fr2) = n + 1 /\ Last(fr2) = g /\ fr2[n + 1] = g
      /\ \A k \in 1..n : fr2[k] = IF k < n THEN frames[k] ELSE f
  BY <1>3, <1>7, <1>8, TopSet DEF fr2, n
<1>10. /\ \A k \in 1..n : fr2[k].dir = frames[k].dir /\ (k < n => fr2[k].at = frames[k].at)
       /\ fr2[n].at = NextDir /\ fr2[n + 1].dir = e
  <2>1. \A k \in 1..n : k < n \/ k = n
    BY <1>3
  <2>2. f.dir = frames[n].dir
    BY <1>3, <1>7 DEF d
  <2>3. n \in 1..n /\ ~(n < n)
    BY <1>3
  <2> QED BY <1>7, <1>8, <1>9, <2>1, <2>2, <2>3
<1>11. PICK done \in SUBSET Dirs :
          WalkIn(first, frames, "subdirs", done) /\ FilesIn(first, Goal, disk, frames, "subdirs", done)
  BY <1>1, <1>2 DEF DoneInv
<1>12. /\ WalkIn(first, fr2, "flag", done) /\ PathIn(first, fr2)
       /\ Flagged(fr2, "flag", done) = Flagged(frames, "subdirs", done)
       /\ e \notin Flagged(frames, "subdirs", done)
  <2>1. PathIn(first, frames)
    BY <1>2 DEF PathInv
  <2>2. /\ Lists(first, frames[n].dir, NextDir, e) /\ NextDir > frames[n].at
        /\ \A i, x : Lists(first, frames[n].dir, i, x) /\ i < NextDir => i <= frames[n].at
    BY <1>3, <1>5 DEF d
  <2> HIDE DEF Frame
  <2> DEFINE next == NextDir
  <2>3. next \in Nat /\ e \in Dirs
    BY <1>4
  <2> HIDE DEF next
  <2>4. /\ Lists(first, frames[n].dir, next, e) /\ next > frames[n].at
        /\ \A i, x : Lists(first, frames[n].dir, i, x) /\ i < next => i <= frames[n].at
        /\ fr2[n].at = next
    BY <2>2, <1>10 DEF next
  <2>5. /\ Len(fr2) = Len(frames) + 1
        /\ \A k \in 1..Len(frames) : fr2[k].dir = frames[k].dir /\ (k < Len(frames) => fr2[k].at = frames[k].at)
        /\ fr2[Len(frames)].at = next /\ fr2[Len(frames) + 1].dir = e
        /\ Lists(first, frames[Len(frames)].dir, next, e) /\ next > frames[Len(frames)].at
        /\ \A i, x : Lists(first, frames[Len(frames)].dir, i, x) /\ i < next => i <= frames[Len(frames)].at
    BY <1>9, <1>10, <2>4 DEF n
  <2>6. /\ WellFormed(first) /\ IsTree(first) /\ frames \in Seq(Frame) /\ frames # <<>> /\ fr2 \in Seq(Frame)
        /\ done \in SUBSET Dirs /\ WalkIn(first, frames, "subdirs", done)
    BY <1>3, <1>9, <1>11
  <2> QED BY <2>1, <2>3, <2>5, <2>6, WalkEnters
<1>13. FilesIn(first, Goal, disk, fr2, "flag", done)
  <2> DEFINE F == Flagged(frames, "subdirs", done)
  <2>1. Last(fr2).dir = e /\ Last(fr2).at = 0 /\ Last(frames).dir \in F
    <3>1. Last(frames) = frames[n] /\ n \in 1..n
      BY <1>3
    <3> QED BY <3>1, <1>8, <1>9 DEF Flagged, n
  <2>2. Flagged(fr2, "flag", done) = F /\ e \notin F /\ e \in Dirs
    BY <1>4, <1>12
  <2> HIDE DEF F
  <2>3. /\ \A x \in F : \A m \in DOMAIN Goal[x] : Text(disk, x, m) = Goal[x][m]
        /\ \A x \in Dirs \ (F \union {Last(frames).dir}) : \A m \in DOMAIN Goal[x] : Text(disk, x, m) = Text(first, x, m)
    BY <1>11 DEF FilesIn, F
  <2>4. \A x \in Dirs \ F : \A m \in DOMAIN Goal[x] : Text(disk, x, m) = Text(first, x, m)
    BY <2>1, <2>3
  <2>5. \A m \in DOMAIN Goal[e] : SlotOf(first, e, m) \in Nat \ {0}
    BY <1>1, <1>2, <1>4, RunFacts
  <2>6. \A m \in DOMAIN Goal[e] : /\ Text(disk, e, m) = Text(first, e, m)
                                  /\ ~(SlotOf(first, e, m) < 0) /\ SlotOf(first, e, m) # 0
    BY <2>2, <2>4, <2>5
  <2> QED BY <2>1, <2>2, <2>3, <2>4, <2>6 DEF FilesIn
<1>14. Goal' = Goal /\ Begun' = Begun
  BY <1>1, GoalKept
<1>15. DoneInv'
  BY <1>1, <1>6, <1>12, <1>13, <1>14 DEF DoneInv
<1>16. PathInv'
  <2>1. fr2[1].dir = setup.dir
    <3>1. 1 \in 1..n
      BY <1>3
    <3> QED BY <3>1, <1>2, <1>10 DEF PathInv
  <2>2. ~setup.nosubdirs
    BY <1>1, <1>2 DEF PathInv
  <2> QED BY <2>1, <2>2, <1>1, <1>6, <1>12 DEF PathInv
<1>17. FileInv'
  BY <1>1 DEF FileInv, Copying
<1>18. Stays(first, disk)'
  BY <1>1, <1>2
<1> QED BY <1>15, <1>16, <1>17, <1>18 DEF RunIn

\* Coming back from a subdirectory, and from the start.
LEMMA RunLeaves ==
  ASSUME TypeInv, first \in Disks, phase # "idle", RunIn, first' = first, LeaveDir
  PROVE  IF phase' = "idle" THEN EveryFileOnce(first)' ELSE RunIn'
<1>1. phase = "subdirs" /\ NextDir = 0 /\ UNCHANGED <<disk, setup>>
  BY DEF LeaveDir
<1>2. Stays(first, disk) /\ PathInv /\ DoneInv
  BY DEF RunIn
<1> DEFINE d == top.dir
           n == Len(frames)
<1>3. /\ WellFormed(disk) /\ WellFormed(first) /\ IsTree(first) /\ XrepType
      /\ frames \in Seq(Frame) /\ frames # <<>> /\ n \in Nat \ {0}
      /\ top \in Frame /\ top = frames[n] /\ top = Last(frames) /\ d \in Dirs /\ top.at \in Nat
      /\ \A c \in Dirs : \A i, x : Lists(first, c, i, x) <=> Lists(disk, c, i, x)
  BY <1>2, RunFacts
<1>4. \A i, x : Lists(first, d, i, x) => i <= top.at
  BY <1>1, <1>3, NextDirIs
<1>5. PICK done \in SUBSET Dirs :
          WalkIn(first, frames, "subdirs", done) /\ FilesIn(first, Goal, disk, frames, "subdirs", done)
  BY <1>1, <1>2 DEF DoneInv
<1>6. CASE n = 1
  <2> DEFINE D == done \union {d}
  <2>1. setup.dir = d /\ D \in SUBSET Dirs
    BY <1>2, <1>3, <1>6 DEF PathInv
  <2>2. phase' = "idle"
    BY <1>6 DEF LeaveDir, Return, Ends
  <2>3. ASSUME NEW c \in D, NEW x \in Dirs, NEW i, Lists(disk, c, i, x) PROVE x \in D
    <3>0. Lists(first, c, i, x)
      <4>1. c \in Dirs
        BY <2>1
      <4> HIDE DEF D, d
      <4> QED BY <4>1, <1>3, <2>3
    <3>1. i \in 1..Len(first[c])
      BY <3>0 DEF Lists
    <3>2. CASE c \in done
      <4> HIDE DEF D, d
      <4>1. x \in done
        BY <3>0, <3>1, <3>2, <1>5 DEF WalkIn
      <4> QED BY <4>1 DEF D
    <3>3. CASE c = d
      <4> HIDE DEF D
      <4>1. i <= top.at /\ top = frames[1] /\ Len(frames) = 1
        BY <1>3, <1>4, <1>6, <3>0, <3>3
      <4>2. Past(frames, "subdirs", 1, i) /\ 1 \in 1..Len(frames) /\ c = frames[1].dir
        BY <4>1, <3>3 DEF Past
      <4>3. x \in done
        BY <4>2, <3>0, <3>1, <1>5 DEF WalkIn
      <4> QED BY <4>3 DEF D
    <3> QED BY <3>2, <3>3
  <2>4. \A c \in D : \A m \in DOMAIN Goal[c] : Text(disk, c, m) = Goal[c][m]
    <3>1. D \subseteq Flagged(frames, "subdirs", done)
      <4>1. top = frames[n] /\ n = 1
        BY <1>3, <1>6
      <4>2. 1 \in 1..Len(frames) /\ d = frames[1].dir
        BY <4>1
      <4> QED BY <4>2 DEF Flagged
    <3> QED BY <3>1, <1>5 DEF FilesIn
  <2> HIDE DEF D
  <2>5. setup.dir \in D
    BY <2>1 DEF D
  <2>6. Reached \subseteq D
    BY <1>3, <2>1, <2>3, <2>5, ReachedWithin
  <2>7. EveryFileOnce(first)
    BY <1>3, <2>1, <2>4, <2>6, OnceDone
  <2>8. EveryFileOnce(first)'
    BY <2>7, <1>1, OnceKept
  <2> QED BY <2>2, <2>8
<1>7. CASE n # 1
  <2> DEFINE fr2 == Front(frames)
             more == done \union {frames[n].dir}
  <2>1. frames' = fr2 /\ phase' = "subdirs"
    BY <1>7 DEF LeaveDir, Return
  <2>2. fr2 \in Seq(Frame) /\ Len(fr2) = n - 1 /\ \A k \in 1..(n - 1) : fr2[k] = frames[k]
    <3> HIDE DEF Frame
    <3>1. frames \in Seq(Frame) /\ frames # <<>> /\ Len(frames) \in Nat \ {0}
      BY <1>3
    <3> QED BY <3>1, FrontIs
  <2> HIDE DEF d, n, fr2
  <2>3. n > 1 /\ n - 1 \in Nat \ {0} /\ \A k \in 1..(n - 1) : k \in 1..n
    BY <1>3, <1>7
  <2>4. /\ WalkIn(first, fr2, "subdirs", more) /\ PathIn(first, fr2) /\ more \in SUBSET Dirs
        /\ Flagged(fr2, "subdirs", more) = Flagged(frames, "subdirs", done)
    <3>1. PathIn(first, frames)
      BY <1>2 DEF PathInv
    <3>2. Searched(first, frames[n])
      BY <1>3, <1>4 DEF d, Searched
    <3> HIDE DEF Frame
    <3>3. Len(frames) > 1 /\ Searched(first, frames[Len(frames)])
      BY <2>3, <3>2 DEF n
    <3>4. more = done \union {frames[Len(frames)].dir}
      BY DEF n
    <3>5. WellFormed(first) /\ IsTree(first) /\ frames \in Seq(Frame) /\ WalkIn(first, frames, "subdirs", done)
      BY <1>3, <1>5
    <3>6. more \in SUBSET Dirs
      <4>1. frames[n].dir \in Dirs
        BY <1>3 DEF d
      <4> QED BY <4>1
    <3> HIDE DEF more
    <3>7. /\ WalkIn(first, Front(frames), "subdirs", more) /\ PathIn(first, Front(frames))
          /\ Flagged(Front(frames), "subdirs", more) = Flagged(frames, "subdirs", done)
      BY <3>1, <3>3, <3>4, <3>5, WalkLeaves
    <3> QED BY <3>6, <3>7 DEF fr2
  <2> HIDE DEF more
  <2>5. FilesIn(first, Goal, disk, fr2, "subdirs", more)
    <3> DEFINE F == Flagged(frames, "subdirs", done)
    <3>1. Last(frames).dir \in F
      <4>1. n \in 1..n
        BY <1>3
      <4> QED BY <4>1, <1>3 DEF Flagged, n
    <3> HIDE DEF F
    <3>2. /\ \A x \in F : \A m \in DOMAIN Goal[x] : Text(disk, x, m) = Goal[x][m]
          /\ \A x \in Dirs \ (F \union {Last(frames).dir}) : \A m \in DOMAIN Goal[x] : Text(disk, x, m) = Text(first, x, m)
      BY <1>5 DEF FilesIn, F
    <3>3. \A x \in Dirs \ F : \A m \in DOMAIN Goal[x] : Text(disk, x, m) = Text(first, x, m)
      BY <3>1, <3>2
    <3>4. Flagged(fr2, "subdirs", more) = F
      BY <2>4 DEF F
    <3> QED BY <3>2, <3>3, <3>4 DEF FilesIn
  <2>6. Goal' = Goal /\ Begun' = Begun
    BY <1>1, GoalKept
  <2>7. DoneInv'
    BY <1>1, <2>1, <2>4, <2>5, <2>6 DEF DoneInv
  <2>8. PathInv'
    <3>1. fr2[1].dir = setup.dir
      <4>1. 1 \in 1..(n - 1)
        <5> DEFINE k == n - 1
        <5>1. k \in Nat \ {0}
          BY <2>3
        <5> HIDE DEF k
        <5>2. 1 \in 1..k
          BY <5>1
        <5> QED BY <5>2 DEF k
      <4> QED BY <4>1, <1>2, <2>2 DEF PathInv
    <3>2. ~setup.nosubdirs
      BY <1>1, <1>2 DEF PathInv
    <3> QED BY <3>1, <3>2, <1>1, <2>1, <2>4 DEF PathInv
  <2>9. FileInv'
    BY <2>1 DEF FileInv, Copying
  <2>10. Stays(first, disk)' /\ phase' # "idle"
    BY <1>1, <1>2, <2>1
  <2> QED BY <2>7, <2>8, <2>9, <2>10 DEF RunIn
<1> QED BY <1>6, <1>7

-----------------------------------------------------------------------------
(* The steps within a file.                                                 *)

\* Changing a file that is not a subdirectory, and only a backup in its slot, keeps the rest.
LEMMA StaysKept ==
  ASSUME NEW one, NEW two, NEW three, Stays(one, two), NEW d \in Dirs, NEW m \in Names, Spares(two, three, d, m),
         Attr(two, d, m) \in {"free", "plain"}, Attr(three, d, m) \in {"free", "plain"},
         m.ext = "XRP" \/ (Attr(three, d, m) = Attr(two, d, m) /\ SlotOf(three, d, m) = SlotOf(two, d, m))
  PROVE  Stays(one, three)
<1> SUFFICES ASSUME NEW e \in Dirs, NEW n \in Names
             PROVE  /\ n.ext # "XRP" \/ Attr(one, e, n) \in DirAttrs =>
                          /\ Attr(three, e, n) = Attr(one, e, n) /\ SlotOf(three, e, n) = SlotOf(one, e, n)
                          /\ Child(three, e, n) = Child(one, e, n)
                    /\ Attr(three, e, n) \in DirAttrs => Attr(one, e, n) \in DirAttrs
                    /\ Writable(one, e, n) => Writable(three, e, n)
  BY DEF Stays
<1>1. /\ n.ext # "XRP" \/ Attr(one, e, n) \in DirAttrs =>
            /\ Attr(two, e, n) = Attr(one, e, n) /\ SlotOf(two, e, n) = SlotOf(one, e, n)
            /\ Child(two, e, n) = Child(one, e, n)
      /\ Attr(two, e, n) \in DirAttrs => Attr(one, e, n) \in DirAttrs
      /\ Writable(one, e, n) => Writable(two, e, n)
  BY DEF Stays
<1>2. CASE <<e, n>> # <<d, m>>
  <2>1. /\ Attr(three, e, n) = Attr(two, e, n) /\ SlotOf(three, e, n) = SlotOf(two, e, n)
        /\ Child(three, e, n) = Child(two, e, n)
    BY <1>2 DEF Spares
  <2> QED BY <1>1, <2>1 DEF Writable
<1>3. CASE <<e, n>> = <<d, m>>
  <2>1. e = d /\ n = m
    BY <1>3
  <2>2. Attr(two, e, n) \notin DirAttrs /\ Attr(three, e, n) \notin DirAttrs
    BY <2>1 DEF DirAttrs
  <2>3. Writable(three, e, n)
    BY <2>1 DEF Writable
  <2>4. Child(two, e, n) = NoDir /\ Child(three, e, n) = NoDir
    BY <2>2 DEF Child
  <2>5. Attr(one, e, n) \notin DirAttrs
    BY <1>1, <2>2
  <2>6. n.ext # "XRP" => Attr(three, e, n) = Attr(two, e, n) /\ SlotOf(three, e, n) = SlotOf(two, e, n)
    BY <2>1
  <2> QED BY <1>1, <2>2, <2>3, <2>4, <2>5, <2>6
<1> QED BY <1>2, <1>3

\* The wanted files keep their texts when another file is changed.
LEMMA WantedSpared ==
  ASSUME TypeInv, first \in Disks, phase # "idle", Stays(first, disk),
         NEW after, NEW d \in Dirs, NEW m \in Names, Spares(disk, after, d, m)
  PROVE  \A e \in Dirs : \A n \in DOMAIN Goal[e] : <<e, n>> # <<d, m>> => Text(after, e, n) = Text(disk, e, n)
<1> SUFFICES ASSUME NEW e \in Dirs, NEW n \in DOMAIN Goal[e], <<e, n>> # <<d, m>>
             PROVE  Text(after, e, n) = Text(disk, e, n)
  OBVIOUS
<1>1. n \in Names /\ Attr(disk, e, n) = "plain"
  BY RunFacts
<1> QED BY <1>1 DEF Spares

\* What a step within a file must do: leave the other wanted files alone, and keep what CopyIn says
\* of this one, until it is finished.
LEMMA RunCopies ==
  ASSUME TypeInv, first \in Disks, phase \in Copying, RunIn, UNCHANGED <<first, setup, frames, file>>,
         NEW after, disk' = after, NEW ph \in Copying \union {"flag"}, phase' = ph, NEW left, rest' = left,
         Stays(first, after),
         \A e \in Dirs : \A n \in DOMAIN Goal[e] : <<e, n>> # <<file.dir, name>> => Text(after, e, n) = Text(disk, e, n),
         ph # "flag" => CopyIn(first, Goal, Begun, after, ph, top.at, file.dir, name, left),
         ph = "flag" /\ name \in DOMAIN Goal[file.dir] => Text(after, file.dir, name) = Goal[file.dir][name]
  PROVE  RunIn'
<1>1. /\ phase # "idle" /\ phase # "flag" /\ phase # "subdirs" /\ ph # "subdirs"
      /\ Stays(first, disk) /\ PathInv /\ FileInv /\ DoneInv
  BY DEF RunIn, Copying
<1> DEFINE d == top.dir
<1>2. /\ WellFormed(first) /\ IsTree(first) /\ frames \in Seq(Frame) /\ frames # <<>> /\ Len(frames) \in Nat \ {0}
      /\ top = Last(frames) /\ d \in Dirs /\ top.at \in Nat
  BY <1>1, RunFacts
<1>3. Goal' = Goal /\ Begun' = Begun
  BY GoalKept
<1>4. file.dir = d /\ \A m \in DOMAIN Goal[d] : SlotOf(first, d, m) = top.at <=> m = name
  BY <1>1 DEF FileInv, CopyIn
<1>5. PICK done \in SUBSET Dirs :
         WalkIn(first, frames, phase, done) /\ FilesIn(first, Goal, disk, frames, phase, done)
  BY <1>1 DEF DoneInv
<1>6. PathIn(first, frames)
  BY <1>1 DEF PathInv
<1>7. WalkIn(first, frames, ph, done) /\ Flagged(frames, ph, done) = Flagged(frames, phase, done)
  <2> HIDE DEF Frame
  <2>1. WalkIn(first, frames, phase, done) => WalkIn(first, frames, ph, done)
    BY <1>1, <1>2, WalkStays
  <2>2. Flagged(frames, ph, done) = Flagged(frames, phase, done)
    BY <1>1, <1>2, WalkStays
  <2> QED BY <2>1, <2>2, <1>5
<1>8. d \notin Flagged(frames, phase, done)
  <2> HIDE DEF Frame
  <2>1. Last(frames).dir \notin Flagged(frames, phase, done)
    BY <1>1, <1>2, <1>5, <1>6, TopUnflagged
  <2> QED BY <2>1, <1>2
<1>9. FilesIn(first, Goal, after, frames, ph, done)
  <2> DEFINE F == Flagged(frames, phase, done)
  <2>1. F \subseteq Dirs
    <3>1. \A k \in 1..Len(frames) : frames[k].dir \in Dirs
      BY <1>2, PathType
    <3> QED BY <3>1 DEF Flagged
  <2>2. /\ \A e \in F : \A n \in DOMAIN Goal[e] : Text(disk, e, n) = Goal[e][n]
        /\ \A e \in Dirs \ (F \union {d}) : \A n \in DOMAIN Goal[e] : Text(disk, e, n) = Text(first, e, n)
        /\ \A n \in DOMAIN Goal[d] :
              /\ SlotOf(first, d, n) > top.at => Text(disk, d, n) = Text(first, d, n)
              /\ SlotOf(first, d, n) < top.at => Text(disk, d, n) = Goal[d][n]
    BY <1>1, <1>2, <1>5 DEF FilesIn
  <2> HIDE DEF F, d
  <2>3. \A e \in F : \A n \in DOMAIN Goal[e] : Text(after, e, n) = Goal[e][n]
    BY <2>1, <2>2, <1>4, <1>8 DEF F
  <2>4. \A e \in Dirs \ (F \union {d}) : \A n \in DOMAIN Goal[e] : Text(after, e, n) = Text(first, e, n)
    BY <2>2, <1>4
  <2>5. ASSUME NEW n \in DOMAIN Goal[d]
        PROVE  /\ SlotOf(first, d, n) > top.at => Text(after, d, n) = Text(first, d, n)
               /\ SlotOf(first, d, n) < top.at => Text(after, d, n) = Goal[d][n]
               /\ SlotOf(first, d, n) = top.at /\ ph = "flag" => Text(after, d, n) = Goal[d][n]
    <3> DEFINE i == SlotOf(first, d, n)
               at == top.at
    <3>1. i \in Nat /\ at \in Nat
      <4>1. SlotOf(first, d, n) \in Nat \ {0}
        BY <1>1, <1>2, RunFacts
      <4> QED BY <4>1, <1>2
    <3>2. (i > at => Text(disk, d, n) = Text(first, d, n)) /\ (i < at => Text(disk, d, n) = Goal[d][n])
      BY <2>2
    <3>3. i = at <=> n = name
      BY <1>4
    <3>4. n # name => Text(after, d, n) = Text(disk, d, n)
      BY <1>2, <1>4
    <3>5. i = at /\ ph = "flag" => Text(after, d, n) = Goal[d][n]
      BY <3>3, <1>4
    <3> HIDE DEF i, at
    <3>6. i > at \/ i < at => i # at
      BY <3>1
    <3> QED BY <3>2, <3>3, <3>4, <3>5, <3>6 DEF i, at
  <2> QED BY <2>3, <2>4, <2>5, <1>2, <1>7 DEF FilesIn, F, d
<1>10. DoneInv'
  BY <1>3, <1>7, <1>9 DEF DoneInv
<1>11. PathInv'
  BY <1>1 DEF PathInv
<1>12. FileInv'
  <2>1. CASE ph = "flag"
    BY <2>1 DEF FileInv, Copying
  <2>2. CASE ph # "flag"
    <3>1. CopyIn(first, Goal, Begun, after, ph, top.at, file.dir, name, left)
      BY <2>2
    <3>2. top' = top /\ name' = name /\ file'.dir = top.dir
      BY <1>4 DEF top, name
    <3>3. top'.dir = top.dir /\ top'.at = top.at /\ file' = file
      BY <3>2
    <3> QED BY <3>1, <3>2, <3>3, <1>3 DEF FileInv
  <2> QED BY <2>1, <2>2
<1>13. Stays(first, disk)'
  OBVIOUS
<1> QED BY <1>10, <1>11, <1>12, <1>13 DEF RunIn

\* What is known of the file being replaced when it is wanted.
LEMMA WantedFile ==
  ASSUME TypeInv, first \in Disks, phase \in Copying, RunIn, name \in DOMAIN Goal[file.dir]
  PROVE  /\ file.dir \in Dirs /\ name \in Names /\ name # backup /\ backup = Xrp(name)
         /\ Attr(disk, file.dir, name) = "plain" /\ Writable(disk, file.dir, backup)
         /\ LET t == Text(first, file.dir, name) IN
            /\ t \in Seq(STRING) /\ ShortLines(t) /\ NUL \notin ToSet(t)
            /\ Goal[file.dir][name] = Rewritten(t)
            /\ \A p \in 0..Len(t) : Begun[file.dir][name][p] = NewLines(t, p)
<1>1. phase # "idle" /\ Stays(first, disk) /\ FileInv
  BY DEF RunIn, Copying
<1> DEFINE d == file.dir
<1>2. d \in Dirs /\ file.name \in Names /\ WellFormed(first) /\ XrepType
  BY SessionAssumption DEF TypeInv, XrepType
<1>3. /\ name \in Names /\ name.ext # "XRP" /\ Attr(first, d, name) = "plain"
      /\ Text(first, d, name) \in Seq(STRING) /\ Goal[d][name] = Rewritten(Text(first, d, name))
      /\ \A p \in 0..Len(Text(first, d, name)) : Begun[d][name][p] = NewLines(Text(first, d, name), p)
      /\ name \in Wanted(d)
  BY <1>2, WantedType
<1>4. /\ Writable(first, d, Xrp(name)) /\ NUL \notin ToSet(Text(first, d, name))
      /\ ShortLines(Text(first, d, name))
  BY <1>3 DEF Wanted
<1>5. name # backup /\ backup = Xrp(name)
  BY <1>2, <1>3, OtherThanBackup DEF backup, name
<1>6. backup \in Names
  BY <1>3, <1>5, BackupNamed
<1>7. Attr(disk, d, name) = "plain" /\ Writable(disk, d, backup)
  BY <1>1, <1>2, <1>3, <1>4, <1>5, <1>6 DEF Stays
<1> QED BY <1>2, <1>3, <1>4, <1>5, <1>7

\* A change of the backup leaves the wanted files alone.
LEMMA BackupStays ==
  ASSUME TypeInv, first \in Disks, phase # "idle", Stays(first, disk), file.dir \in Dirs, backup \in Names,
         NEW after, Spares(disk, after, file.dir, backup),
         Writable(disk, file.dir, backup), Attr(after, file.dir, backup) \in {"free", "plain"}
  PROVE  /\ Stays(first, after)
         /\ \A e \in Dirs : \A n \in DOMAIN Goal[e] : Text(after, e, n) = Text(disk, e, n)
<1>1. backup.ext = "XRP"
  <2>1. file.name \in [base : STRING, ext : STRING]
    BY XrepAssumption DEF TypeInv, XrepType
  <2> QED BY <2>1 DEF backup, Xrp
<1>2. Attr(disk, file.dir, backup) \in {"free", "plain"}
  BY DEF Writable
<1>3. Stays(first, after)
  BY <1>1, <1>2, StaysKept
<1>4. \A e \in Dirs : \A n \in DOMAIN Goal[e] : n.ext # "XRP"
  BY RunFacts
<1>5. ASSUME NEW e \in Dirs, NEW n \in DOMAIN Goal[e] PROVE Text(after, e, n) = Text(disk, e, n)
  <2>1. <<e, n>> # <<file.dir, backup>>
    BY <1>1, <1>4
  <2> QED BY <2>1, WantedSpared
<1> QED BY <1>3, <1>5

\* Answering the question about the backup.
LEMMA RunAnswers ==
  ASSUME TypeInv, first \in Disks, RunIn, first' = first,
         NEW key \in {"Y", "A", "Q", "other"}, key # "Q", Answer(key)
  PROVE  RunIn'
<1>1. /\ phase = "prompt" /\ phase' = "backup" /\ rest' = rest /\ disk' = disk
      /\ UNCHANGED <<setup, frames, file>>
  BY DEF Answer
<1>2. Stays(first, disk) /\ FileInv /\ phase \in Copying
  BY <1>1 DEF RunIn, Copying
<1>3. CopyIn(first, Goal, Begun, disk, phase, top.at, file.dir, name, rest)
  BY <1>2 DEF FileInv
<1>4. CopyIn(first, Goal, Begun, disk, "backup", top.at, file.dir, name, rest)
  BY <1>1, <1>3 DEF CopyIn
<1>5. "backup" \in Copying \union {"flag"} /\ "backup" # "flag"
  BY DEF Copying
<1> QED BY <1>1, <1>2, <1>4, <1>5, RunCopies

\* A step that gives up a file which is not wanted.
LEMMA RunGivesUp ==
  ASSUME TypeInv, first \in Disks, phase \in Copying, RunIn, UNCHANGED <<first, setup, frames, file, rest>>,
         phase' = "flag", name \notin DOMAIN Goal[file.dir],
         NEW after, disk' = after, Stays(first, after),
         \A e \in Dirs : \A n \in DOMAIN Goal[e] : <<e, n>> # <<file.dir, name>> => Text(after, e, n) = Text(disk, e, n)
  PROVE  RunIn'
<1>1. "flag" \in Copying \union {"flag"}
  OBVIOUS
<1>2. PICK left : left = rest
  OBVIOUS
<1> QED BY <1>1, <1>2, RunCopies

\* The backup cannot be made, or the file is binary: it was not wanted.
LEMMA RunSkips == ASSUME TypeInv, first \in Disks, RunIn, first' = first, BackupRefused \/ BinaryFile PROVE RunIn'
<1>1. /\ phase = "backup" /\ phase' = "flag" /\ phase \in Copying /\ phase # "idle"
      /\ UNCHANGED <<setup, frames, file, rest>>
  BY DEF BackupRefused, BinaryFile, Copying
<1>2. Stays(first, disk) /\ FileInv
  BY DEF RunIn
<1>3. CASE BackupRefused
  <2>1. disk' = disk /\ ~Writable(disk, file.dir, backup)
    BY <1>3 DEF BackupRefused
  <2>2. name \notin DOMAIN Goal[file.dir]
    BY <1>1, <2>1, WantedFile
  <2> QED BY <1>1, <1>2, <2>1, <2>2, RunGivesUp
<1>4. CASE BinaryFile
  <2> DEFINE after == Delete(created, file.dir, backup)
  <2>1. disk' = after /\ Writable(disk, file.dir, backup) /\ NUL \in ToSet(source)
    BY <1>4 DEF BinaryFile
  <2>2. /\ file.dir \in Dirs /\ backup \in Names /\ name \in Names
        /\ name # backup => source = Text(disk, file.dir, name)
        /\ Spares(disk, after, file.dir, backup) /\ Attr(after, file.dir, backup) = "free"
    BY <1>1, <2>1, BackupFacts
  <2> HIDE DEF after
  <2>3. name \notin DOMAIN Goal[file.dir]
    <3> SUFFICES ASSUME name \in DOMAIN Goal[file.dir] PROVE FALSE
      OBVIOUS
    <3>1. name # backup /\ NUL \notin ToSet(Text(first, file.dir, name))
      BY <1>1, WantedFile
    <3>2. Text(disk, file.dir, name) = Text(first, file.dir, name)
      BY <1>1, <1>2 DEF FileInv, CopyIn
    <3> QED BY <2>1, <2>2, <3>1, <3>2
  <2>4. Stays(first, after) /\ \A e \in Dirs : \A n \in DOMAIN Goal[e] : <<e, n>> # <<file.dir, name>> => Text(after, e, n) = Text(disk, e, n)
    BY <1>1, <1>2, <2>1, <2>2, BackupStays
  <2> QED BY <1>1, <2>1, <2>3, <2>4, RunGivesUp
<1> QED BY <1>3, <1>4

\* The backup is made.
LEMMA RunBacksUp == ASSUME TypeInv, first \in Disks, RunIn, first' = first, MakeBackup, ~full' PROVE RunIn'
<1> DEFINE after == Write(created, file.dir, backup, source)
<1>1. /\ phase = "backup" /\ phase' = "reopen" /\ phase \in Copying /\ phase # "idle"
      /\ UNCHANGED <<setup, frames, file, rest>> /\ disk' = after
      /\ Writable(disk, file.dir, backup) /\ Fits(created, source)
  BY DEF MakeBackup, Copying
<1>2. Stays(first, disk) /\ FileInv
  BY DEF RunIn
<1>3. /\ file.dir \in Dirs /\ backup \in Names /\ name \in Names
      /\ name # backup => source = Text(disk, file.dir, name)
      /\ Spares(disk, after, file.dir, backup) /\ Attr(after, file.dir, backup) = "plain"
      /\ Text(after, file.dir, backup) = source
  BY <1>1, BackupFacts
<1> HIDE DEF after
<1>4. Stays(first, after) /\ \A e \in Dirs : \A n \in DOMAIN Goal[e] : <<e, n>> # <<file.dir, backup>> => Text(after, e, n) = Text(disk, e, n)
  BY <1>1, <1>2, <1>3, BackupStays
<1>5. \A e \in Dirs : \A n \in DOMAIN Goal[e] : Text(after, e, n) = Text(disk, e, n)
  BY <1>1, <1>2, <1>3, BackupStays
<1>6. CopyIn(first, Goal, Begun, disk, phase, top.at, file.dir, name, rest)
  BY <1>1, <1>2 DEF FileInv
<1>7. ASSUME name \in DOMAIN Goal[file.dir]
      PROVE  /\ Text(after, file.dir, name) = Text(first, file.dir, name)
             /\ Text(after, file.dir, Xrp(name)) = Text(first, file.dir, name)
  <2>1. name # backup /\ backup = Xrp(name)
    BY <1>1, <1>7, WantedFile
  <2>2. Text(disk, file.dir, name) = Text(first, file.dir, name)
    BY <1>1, <1>6, <1>7 DEF CopyIn
  <2> QED BY <2>1, <2>2, <1>3, <1>5, <1>7
<1>8. PICK left : left = rest
  OBVIOUS
<1>9. CopyIn(first, Goal, Begun, after, "reopen", top.at, file.dir, name, left)
  BY <1>6, <1>7 DEF CopyIn
<1>10. "reopen" \in Copying \union {"flag"} /\ "reopen" # "flag"
  BY DEF Copying
<1> QED BY <1>1, <1>4, <1>5, <1>8, <1>9, <1>10, RunCopies

\* The file is truncated.
LEMMA RunReopens == ASSUME TypeInv, first \in Disks, RunIn, first' = first, Reopen PROVE RunIn'
<1>1. /\ phase = "reopen" /\ phase \in Copying /\ phase # "idle" /\ UNCHANGED <<setup, frames, file>>
  BY DEF Reopen, Copying
<1>2. Stays(first, disk) /\ FileInv
  BY DEF RunIn
<1>3. CASE ~Writable(disk, file.dir, name)
  <2>1. disk' = disk /\ rest' = rest /\ phase' = "flag"
    BY <1>3 DEF Reopen
  <2>2. name \notin DOMAIN Goal[file.dir]
    <3> SUFFICES ASSUME name \in DOMAIN Goal[file.dir] PROVE FALSE
      OBVIOUS
    <3>1. Attr(disk, file.dir, name) = "plain"
      BY <1>1, WantedFile
    <3> QED BY <3>1, <1>3 DEF Writable
  <2> QED BY <1>1, <1>2, <2>1, <2>2, RunGivesUp
<1>4. CASE Writable(disk, file.dir, name)
  <2> DEFINE after == Create(disk, file.dir, name)
             left == Text(after, file.dir, backup)
  <2>1. disk' = after /\ rest' = left /\ phase' = "lines"
    BY <1>4 DEF Reopen
  <2>2. /\ file.dir \in Dirs /\ name \in Names /\ backup \in Names
        /\ Spares(disk, after, file.dir, name)
        /\ Attr(after, file.dir, name) = "plain" /\ Text(after, file.dir, name) = <<>>
        /\ SlotOf(after, file.dir, name) = SlotOf(disk, file.dir, name)
        /\ name # backup => left = Text(disk, file.dir, backup)
    BY <1>1, <1>4, ReopenFacts
  <2>3. Attr(disk, file.dir, name) = "plain"
    <3>1. Attr(disk, file.dir, name) \in FileAttrs
      BY <1>1 DEF TypeInv, AttrType
    <3> QED BY <3>1, <1>4 DEF Writable, FileAttrs
  <2> HIDE DEF after, left
  <2>4. Stays(first, after)
    BY <2>2, <2>3, <1>2, StaysKept
  <2>5. \A e \in Dirs : \A n \in DOMAIN Goal[e] : <<e, n>> # <<file.dir, name>> => Text(after, e, n) = Text(disk, e, n)
    BY <2>2, <1>1, <1>2, WantedSpared
  <2>6. CopyIn(first, Goal, Begun, disk, phase, top.at, file.dir, name, rest)
    BY <1>1, <1>2 DEF FileInv
  <2>7. ASSUME name \in DOMAIN Goal[file.dir]
        PROVE  LET t == Text(first, file.dir, name) IN
               /\ 0 \in 0..Len(t) /\ left = SubSeq(t, 0 + 1, Len(t))
               /\ Text(after, file.dir, name) = Begun[file.dir][name][0]
    <3>1. PICK t \in Seq(STRING) : t = Text(first, file.dir, name)
      BY <1>1, <2>7, WantedFile
    <3>2. name # backup /\ backup = Xrp(name) /\ (\A p \in 0..Len(t) : Begun[file.dir][name][p] = NewLines(t, p))
      BY <1>1, <2>7, <3>1, WantedFile
    <3>3. Text(disk, file.dir, backup) = t
      BY <1>1, <2>6, <2>7, <3>1, <3>2 DEF CopyIn
    <3>4. NewLines(t, 0) = <<>>
      <4>1. setup.pairs \in Seq(TextPair)
        BY DEF TypeInv, XrepType, Setup
      <4> QED BY <4>1, NewLinesAdd
    <3>5. 0 \in 0..Len(t) /\ t = SubSeq(t, 1, Len(t))
      OBVIOUS
    <3>6. left = t
      BY <2>2, <3>2, <3>3
    <3>7. Text(after, file.dir, name) = Begun[file.dir][name][0]
      BY <2>2, <3>2, <3>4, <3>5
    <3> QED BY <3>1, <3>5, <3>6, <3>7
  <2>8. CopyIn(first, Goal, Begun, after, "lines", top.at, file.dir, name, left)
    BY <2>6, <2>7 DEF CopyIn
  <2>9. "lines" \in Copying \union {"flag"} /\ "lines" # "flag"
    BY DEF Copying
  <2> QED BY <1>1, <2>1, <2>4, <2>5, <2>8, <2>9, RunCopies
<1> QED BY <1>3, <1>4

\* A line is rewritten.
LEMMA RunRewrites == ASSUME TypeInv, first \in Disks, RunIn, first' = first, RewriteLine, ~full' PROVE RunIn'
<1> DEFINE line == Replaced(NextLine).line
           after == Write(disk, file.dir, name, line)
           left == SubSeq(rest, Len(NextLine) + 1, Len(rest))
           ph == IF Len(NextLine) > Len(rest) THEN "tail" ELSE "lines"
<1>1. /\ phase = "lines" /\ phase \in Copying /\ phase # "idle" /\ phase \in Rewriting
      /\ UNCHANGED <<setup, frames, file>>
      /\ disk' = after /\ rest' = left /\ phase' = ph /\ Fits(disk, line)
  BY DEF RewriteLine, Copying, Rewriting
<1>2. Stays(first, disk) /\ FileInv
  BY DEF RunIn
<1>3. rest \in Seq(STRING) /\ setup.pairs \in Seq(TextPair)
  BY DEF TypeInv, XrepType, Setup
<1>4. line \in Seq(STRING)
  BY <1>3, NextLineFacts, ReplacedFacts
<1>5. PICK new \in Seq(STRING) : new = line
  BY <1>4
<1> HIDE DEF line
<1>6. /\ file.dir \in Dirs /\ name \in Names
      /\ Spares(disk, after, file.dir, name) /\ Attr(after, file.dir, name) = "plain"
      /\ SlotOf(after, file.dir, name) = SlotOf(disk, file.dir, name)
      /\ Text(after, file.dir, name) = Text(disk, file.dir, name) \o line
  BY <1>1, <1>4, RewriteFacts
<1>7. Attr(disk, file.dir, name) = "plain"
  BY <1>1 DEF TypeInv, AttrType
<1> HIDE DEF after, left
<1>8. Stays(first, after)
  BY <1>2, <1>6, <1>7, StaysKept
<1>9. \A e \in Dirs : \A n \in DOMAIN Goal[e] : <<e, n>> # <<file.dir, name>> => Text(after, e, n) = Text(disk, e, n)
  BY <1>1, <1>2, <1>6, WantedSpared
<1>10. CopyIn(first, Goal, Begun, disk, phase, top.at, file.dir, name, rest)
  BY <1>1, <1>2 DEF FileInv
<1>11. ASSUME name \in DOMAIN Goal[file.dir]
       PROVE  LET t == Text(first, file.dir, name) IN
              /\ ph = "lines" => \E q \in 0..Len(t) :
                    /\ q # 0 => t[q] = NL
                    /\ left = SubSeq(t, q + 1, Len(t)) /\ Text(after, file.dir, name) = Begun[file.dir][name][q]
              /\ ph = "tail" => Text(after, file.dir, name) = Goal[file.dir][name]
  <2>1. PICK t \in Seq(STRING) : t = Text(first, file.dir, name)
    BY <1>1, <1>11, WantedFile
  <2>2. /\ ShortLines(t) /\ Goal[file.dir][name] = Rewritten(t)
        /\ \A p \in 0..Len(t) : Begun[file.dir][name][p] = NewLines(t, p)
    BY <1>1, <1>11, <2>1, WantedFile
  <2>3. PICK p \in 0..Len(t) : /\ p # 0 => t[p] = NL
                               /\ rest = SubSeq(t, p + 1, Len(t)) /\ Text(disk, file.dir, name) = Begun[file.dir][name][p]
    BY <1>1, <1>10, <1>11, <2>1 DEF CopyIn
  <2> DEFINE u == Append(t, EOFCHAR)
  <2>4. Len(u) = Len(t) + 1
    BY EofAppended
  <2> HIDE DEF u
  <2>5. PICK q \in LineEnds(u) :
            /\ p < q /\ NextLine = SubSeq(u, p + 1, q) /\ \A j \in (p + 1)..(q - 1) : j \notin LineEnds(u)
            /\ Len(NextLine) > Len(rest) => q = Len(u)
            /\ ~(Len(NextLine) > Len(rest)) =>
                  /\ q \in 1..Len(t) /\ t[q] = NL
                  /\ SubSeq(rest, Len(NextLine) + 1, Len(rest)) = SubSeq(t, q + 1, Len(t))
    BY <2>2, <2>3, NextLineEnds DEF u
  <2>6. NewLines(t, q) = NewLines(t, p) \o line
    <3>1. NewLines(t, q) = NewLines(t, p) \o Replaced(SubSeq(u, p + 1, q)).line
      BY <1>3, <2>3, <2>5, NewLinesAdd DEF u
    <3> QED BY <3>1, <2>5 DEF line
  <2>7. Text(after, file.dir, name) = NewLines(t, q)
    BY <1>6, <2>2, <2>3, <2>6
  <2>8. ASSUME ph = "tail" PROVE Text(after, file.dir, name) = Goal[file.dir][name]
    <3>1. q = Len(u)
      BY <2>5, <2>8
    <3>2. NewLines(t, Len(u)) = Rewritten(t)
      BY <1>3, NewLinesAdd DEF u
    <3> QED BY <2>2, <2>7, <3>1, <3>2
  <2>9. ASSUME ph = "lines"
        PROVE  /\ q \in 0..Len(t) /\ t[q] = NL
               /\ left = SubSeq(t, q + 1, Len(t)) /\ Text(after, file.dir, name) = Begun[file.dir][name][q]
    <3>1. q \in 1..Len(t) /\ t[q] = NL /\ left = SubSeq(t, q + 1, Len(t))
      BY <2>5, <2>9 DEF left
    <3>2. q \in 0..Len(t)
      BY <3>1
    <3> QED BY <2>2, <2>7, <3>1, <3>2
  <2> HIDE DEF ph
  <2> QED BY <2>1, <2>8, <2>9
<1>12. ph \in Copying \union {"flag"} /\ ph # "flag" /\ ph \in {"lines", "tail"}
  BY DEF Copying
<1> HIDE DEF ph
<1>13. CopyIn(first, Goal, Begun, after, ph, top.at, file.dir, name, left)
  BY <1>10, <1>11, <1>12 DEF CopyIn
<1> QED BY <1>1, <1>8, <1>9, <1>12, <1>13, RunCopies

\* The file is finished.
LEMMA RunFinishes == ASSUME TypeInv, first \in Disks, RunIn, first' = first, FinishFile PROVE RunIn'
<1>1. /\ phase = "tail" /\ phase' = "flag" /\ phase \in Copying /\ phase # "idle" /\ phase \in Rewriting
      /\ UNCHANGED <<setup, frames, file, rest>>
      /\ disk' = IF local_replacement > 0 THEN disk ELSE Delete(disk, file.dir, backup)
  BY DEF FinishFile, Copying, Rewriting
<1>2. Stays(first, disk) /\ FileInv /\ WellFormed(disk)
  BY DEF RunIn, TypeInv, DiskType
<1>3. PICK after : disk' = after
  OBVIOUS
<1>4. /\ Stays(first, after)
      /\ \A e \in Dirs : \A n \in DOMAIN Goal[e] : Text(after, e, n) = Text(disk, e, n)
  <2>1. CASE after = disk
    BY <1>2, <2>1
  <2>2. CASE after = Delete(disk, file.dir, backup)
    <3>1. file.dir \in Dirs /\ backup \in Names /\ Attr(disk, file.dir, backup) = "plain"
      BY <1>1, RewriteFacts DEF TypeInv, AttrType
    <3>2. Spares(disk, after, file.dir, backup) /\ Attr(after, file.dir, backup) = "free"
      BY <1>2, <2>2, <3>1, FileDeleted
    <3> QED BY <1>1, <1>2, <3>1, <3>2, BackupStays DEF Writable
  <2> QED BY <1>1, <1>3, <2>1, <2>2
<1>5. ASSUME name \in DOMAIN Goal[file.dir] PROVE Text(after, file.dir, name) = Goal[file.dir][name]
  <2>1. CopyIn(first, Goal, Begun, disk, phase, top.at, file.dir, name, rest)
    BY <1>1, <1>2 DEF FileInv
  <2>2. Text(disk, file.dir, name) = Goal[file.dir][name]
    BY <1>1, <1>5, <2>1 DEF CopyIn
  <2>3. file.dir \in Dirs
    BY <1>1, RewriteFacts
  <2> QED BY <1>4, <1>5, <2>2, <2>3
<1>6. "flag" \in Copying \union {"flag"}
  OBVIOUS
<1>7. PICK left : left = rest
  OBVIOUS
<1> QED BY <1>1, <1>3, <1>4, <1>5, <1>6, <1>7, RunCopies

\* Escape: the file will not be finished.
LEMMA RunEscapes == ASSUME TypeInv, first \in Disks, RunIn, first' = first, PressEscape PROVE RunIn'
<1> DEFINE after == Create(disk, file.dir, name)
<1>1. /\ phase = "lines" /\ phase' = "restore" /\ phase \in Copying /\ phase # "idle" /\ phase \in Rewriting
      /\ UNCHANGED <<setup, frames, file, rest>> /\ disk' = after
  BY DEF PressEscape, Copying, Rewriting
<1>2. Stays(first, disk) /\ FileInv
  BY DEF RunIn
<1>3. /\ file.dir \in Dirs /\ name \in Names
      /\ Spares(disk, after, file.dir, name) /\ Attr(after, file.dir, name) = "plain"
      /\ SlotOf(after, file.dir, name) = SlotOf(disk, file.dir, name)
  BY <1>1, RewriteFacts
<1>4. Attr(disk, file.dir, name) = "plain"
  BY <1>1 DEF TypeInv, AttrType
<1> HIDE DEF after
<1>5. Stays(first, after)
  BY <1>2, <1>3, <1>4, StaysKept
<1>6. \A e \in Dirs : \A n \in DOMAIN Goal[e] : <<e, n>> # <<file.dir, name>> => Text(after, e, n) = Text(disk, e, n)
  BY <1>1, <1>2, <1>3, WantedSpared
<1>7. PICK left : left = rest
  OBVIOUS
<1>8. CopyIn(first, Goal, Begun, after, "restore", top.at, file.dir, name, left)
  BY <1>1, <1>2 DEF FileInv, CopyIn
<1>9. "restore" \in Copying \union {"flag"} /\ "restore" # "flag"
  BY DEF Copying
<1> QED BY <1>1, <1>5, <1>6, <1>7, <1>8, <1>9, RunCopies

-----------------------------------------------------------------------------
(* The whole run.                                                           *)

\* A run that starts has done nothing.
LEMMA RunStarts ==
  ASSUME TypeInv', first \in Disks, disk = first, NEW c, NEW a, NEW nosubdirs, XrepStart(c, a, nosubdirs), first' = first
  PROVE  RunIn'
<1> DEFINE fr == <<[dir |-> setup'.dir, at |-> 0, slash |-> TRUE]>>
<1>1. disk' = first /\ frames' = fr /\ phase' = "flag"
  BY DEF XrepStart
<1>2. /\ fr[1].dir = setup'.dir /\ fr[1].at = 0 /\ Len(fr) = 1 /\ Last(fr) = fr[1]
  BY DEF Last
<1> HIDE DEF fr
<1>3. WellFormed(first)
  BY SessionAssumption
<1>4. Stays(first, disk)'
  BY <1>1 DEF Stays
<1>5. FileInv'
  BY <1>1 DEF FileInv, Copying
<1>6. PathIn(first, fr)
  BY <1>2 DEF PathIn
<1>7. PathInv'
  BY <1>1, <1>2, <1>6 DEF PathInv
<1>8. WalkIn(first, fr, "flag", {}) /\ Flagged(fr, "flag", {}) = {}
  BY <1>2 DEF WalkIn, Flagged, Past
<1>9. setup'.dir \in Dirs
  <2>1. frames' \in Seq(Frame)
    BY DEF TypeInv, XrepType
  <2>2. fr[1] \in Frame
    <3> HIDE DEF Frame
    <3>1. PICK s \in Seq(Frame) : s = fr
      BY <2>1, <1>1
    <3>2. 1 \in 1..Len(s)
      BY <3>1, <1>2
    <3>3. s[1] \in Frame
      BY <3>2
    <3> QED BY <3>1, <3>3
  <2> QED BY <2>2, <1>2 DEF Frame
<1>10. PICK goal : goal = Goal'
  OBVIOUS
<1>11. ASSUME NEW n \in DOMAIN goal[setup'.dir]
       PROVE  ~(SlotOf(first, setup'.dir, n) < 0) /\ SlotOf(first, setup'.dir, n) # 0
  <2> DEFINE d == setup'.dir
  <2>1. Attr(first, d, n) = "plain"
    BY <1>9, <1>10, <1>11 DEF Goal, Wanted
  <2> HIDE DEF d
  <2>2. Attr(first, d, n) # "free"
    BY <2>1
  <2>3. SlotOf(first, d, n) # 0 /\ SlotOf(first, d, n) \in 0..Len(first[d]) /\ Len(first[d]) \in Nat
    BY <2>2, <1>3, <1>9, NamedHasSlot, SlotFound DEF d
  <2> QED BY <2>3 DEF d
<1>12. FilesIn(first, goal, first, fr, "flag", {})
  BY <1>2, <1>8, <1>9, <1>11 DEF FilesIn
<1>13. DoneInv'
  BY <1>1, <1>8, <1>10, <1>12 DEF DoneInv
<1> QED BY <1>4, <1>5, <1>7, <1>13 DEF RunIn

\* The first state of a session.
LEMMA RunInit == Init => RunInv
<1> SUFFICES ASSUME Init PROVE RunInv
  OBVIOUS
<1>1. /\ first \in Disks /\ disk = first /\ typed = <<>> /\ phase = "idle" /\ ending = "none" /\ full = FALSE
  BY DEF Init, XrepInit
<1>2. Len(typed) # 1
  BY <1>1
<1> QED BY <1>1, <1>2 DEF RunInv

\* What a command does to RunInv.
LEMMA RunTyped ==
  ASSUME TypeInv, TypeInv', RunInv, NEW c \in Command, Type(c)
  PROVE  RunInv'
<1>1. typed' = Append(typed, c) /\ first' = first /\ first \in Disks
  BY DEF Type, RunInv
<1>2. typed' # <<>> /\ (Len(typed') = 1 => typed = <<>>)
  <2> HIDE DEF Command
  <2>1. typed \in Seq(Command)
    BY DEF TypeInv
  <2>2. Len(typed') = Len(typed) + 1 /\ Len(typed) \in Nat
    BY <1>1, <2>1
  <2> QED BY <2>1, <2>2
<1>3. ASSUME typed = <<>>, ~full'
      PROVE  (phase' # "idle" => RunIn') /\ ~(phase' = "idle" /\ ending' = "normal")
  <2>1. disk = first /\ phase = "idle" /\ ending = "none"
    BY <1>3 DEF RunInv
  <2>2. CASE c.program = "xrep"
    <3>1. XrepStart(c.container, c.files, c.nosubdirs) \/ XrepRefused(c.container, c.files)
      BY <2>2 DEF Type
    <3>2. CASE XrepStart(c.container, c.files, c.nosubdirs)
      <4>1. RunIn'
        BY <3>2, <1>1, <2>1, RunStarts
      <4>2. phase' = "flag"
        BY <3>2 DEF XrepStart
      <4> QED BY <4>1, <4>2
    <3>3. CASE XrepRefused(c.container, c.files)
      BY <3>3 DEF XrepRefused, Ends
    <3> QED BY <3>1, <3>2, <3>3
  <2>3. CASE c.program # "xrep"
    <3>1. UNCHANGED xrepVars
      BY <2>3 DEF Type
    <3> QED BY <3>1, <2>1 DEF xrepVars
  <2> QED BY <2>2, <2>3
<1> QED BY <1>1, <1>2, <1>3 DEF RunInv

\* What a step of XREP does to RunInv.
LEMMA RunXrep ==
  ASSUME TypeInv, RunInv, XrepStep \/ PressEscape \/ Interrupt, UNCHANGED <<first, typed>>
  PROVE  RunInv'
<1>1. first \in Disks /\ first' = first
  BY DEF RunInv
<1>2. phase # "idle"
  BY DEF XrepStep, FindFile, EndFlag, EnterDir, LeaveDir, Answer, BackupRefused, BinaryFile, MakeBackup,
         Reopen, RewriteLine, DivideError, FinishFile, RestoreFile, PressEscape, Interrupt
<1>3. full => full'
  <2>1. CASE FindFile \/ EnterDir \/ EndFlag \/ LeaveDir
    BY <2>1 DEF FindFile, EnterDir, EndFlag, LeaveDir
  <2>2. CASE \E key \in {"Y", "A", "Q", "other"} : Answer(key)
    BY <2>2 DEF Answer
  <2>3. CASE BackupRefused \/ BinaryFile \/ MakeBackup \/ Reopen \/ RewriteLine
    BY <2>3 DEF BackupRefused, BinaryFile, MakeBackup, Reopen, RewriteLine
  <2>4. CASE DivideError \/ FinishFile \/ RestoreFile \/ PressEscape \/ Interrupt
    BY <2>4 DEF DivideError, FinishFile, RestoreFile, PressEscape, Interrupt
  <2> QED BY <2>1, <2>2, <2>3, <2>4 DEF XrepStep
<1>4. typed # <<>>
  BY <1>2 DEF RunInv
<1>5. ASSUME Len(typed) = 1, ~full'
      PROVE  (phase' # "idle" => RunIn') /\ (phase' = "idle" /\ ending' = "normal" => EveryFileOnce(first)')
  <2>1. RunIn
    BY <1>2, <1>3, <1>5 DEF RunInv
  <2>2. ASSUME RunIn', phase' # "idle" PROVE phase' # "idle" /\ RunIn'
    BY <2>2
  <2>3. CASE FindFile \/ EnterDir
    <3>1. phase' # "idle"
      BY <2>3 DEF FindFile, EnterDir
    <3> QED BY <3>1, <2>1, <2>3, <1>1, <1>2, RunFinds, RunEnters
  <2>4. CASE EndFlag \/ LeaveDir
    BY <2>1, <2>4, <1>1, <1>2, RunTurns, RunLeaves
  <2>5. ASSUME NEW key \in {"Y", "A", "Q", "other"}, Answer(key)
        PROVE  (phase' # "idle" => RunIn') /\ ~(phase' = "idle" /\ ending' = "normal")
    <3>1. CASE key = "Q"
      BY <2>5, <3>1 DEF Answer, Ends
    <3>2. CASE key # "Q"
      <4>1. phase' = "backup"
        BY <2>5, <3>2 DEF Answer
      <4>2. RunIn'
        BY <2>1, <2>5, <3>2, <1>1, RunAnswers
      <4> QED BY <4>1, <4>2
    <3> QED BY <3>1, <3>2
  <2>6. CASE BackupRefused \/ BinaryFile
    <3>1. phase' # "idle"
      BY <2>6 DEF BackupRefused, BinaryFile
    <3> QED BY <3>1, <2>1, <2>6, <1>1, RunSkips
  <2>7. CASE MakeBackup
    <3>1. phase' # "idle"
      BY <2>7 DEF MakeBackup
    <3> QED BY <3>1, <2>1, <2>7, <1>1, <1>5, RunBacksUp
  <2>8. CASE Reopen
    <3>1. phase' # "idle"
      BY <2>8 DEF Reopen
    <3> QED BY <3>1, <2>1, <2>8, <1>1, RunReopens
  <2>9. CASE RewriteLine
    <3>1. phase' # "idle"
      BY <2>9 DEF RewriteLine
    <3> QED BY <3>1, <2>1, <2>9, <1>1, <1>5, RunRewrites
  <2>10. CASE FinishFile
    <3>1. phase' # "idle"
      BY <2>10 DEF FinishFile
    <3> QED BY <3>1, <2>1, <2>10, <1>1, RunFinishes
  <2>11. CASE PressEscape
    <3>1. phase' # "idle"
      BY <2>11 DEF PressEscape
    <3> QED BY <3>1, <2>1, <2>11, <1>1, RunEscapes
  <2>12. CASE DivideError \/ RestoreFile \/ Interrupt
    BY <2>12 DEF DivideError, RestoreFile, Interrupt, Ends
  <2> QED BY <2>3, <2>4, <2>5, <2>6, <2>7, <2>8, <2>9, <2>10, <2>11, <2>12 DEF XrepStep
<1> QED BY <1>1, <1>4, <1>5 DEF RunInv

\* What a step that leaves XREP and the disk alone does to RunInv.
LEMMA RunElsewhere ==
  ASSUME RunInv, UNCHANGED <<disk, xrepVars, first, typed>>
  PROVE  RunInv'
<1>1. UNCHANGED <<disk, phase, setup, frames, file, rest, ending, full, first, typed>>
  BY DEF xrepVars
<1>2. ASSUME EveryFileOnce(first) PROVE EveryFileOnce(first)'
  BY <1>1, <1>2, OnceKept
<1>3. ASSUME RunIn PROVE RunIn'
  <2>1. Goal' = Goal /\ Begun' = Begun
    BY <1>1, GoalKept
  <2>2. top' = top /\ name' = name
    BY <1>1 DEF top, name
  <2> QED BY <1>1, <1>3, <2>1, <2>2 DEF RunIn, PathInv, FileInv, DoneInv
<1> QED BY <1>1, <1>2, <1>3 DEF RunInv

\* Every step keeps what the first run has done.
LEMMA RunNext == TypeInv /\ TypeInv' /\ RunInv /\ [Next]_vars => RunInv'
<1> SUFFICES ASSUME TypeInv, TypeInv', RunInv, [Next]_vars PROVE RunInv'
  OBVIOUS
<1>1. CASE Len(typed) < Len(Commands) /\ \E c \in Commands[Len(typed) + 1] : Type(c)
  BY <1>1, CommandsType, RunTyped
<1>2. CASE XrepRuns \/ XrepStops
  BY <1>2, RunXrep DEF XrepRuns, XrepStops
<1>3. CASE XcRuns \/ XcStops
  <2>1. disk' = disk
    BY <1>3 DEF XcRuns, XcStops, XcStep, XcSubdir, XcFile, XcKey, XcReturn, XcFileKey, XcEscape, XcDiskError
  <2> QED BY <1>3, <2>1, RunElsewhere DEF XcRuns, XcStops
<1>4. CASE UNCHANGED vars
  BY <1>4, RunElsewhere DEF vars
<1> QED BY <1>1, <1>2, <1>3, <1>4 DEF Next

\* OneRunDoesAll: whatever tree of directories the disk holds, a first run of XREP that ends by itself
\* and was cut nowhere has rewritten, each once, all the flagged text files of the tree below its start,
\* although it creates and removes backups in the directory that findnext goes through.
THEOREM OneRunRewritesTheTree == Spec => []OneRunDoesAll
<1>1. RunInv /\ CopyInv => OneRunDoesAll
  <2> SUFFICES ASSUME RunInv, CopyInv, Len(typed) = 1, ending = "normal", ~full PROVE EveryFileOnce(first)
    BY DEF OneRunDoesAll
  <2>1. phase = "idle"
    BY DEF CopyInv
  <2> QED BY <2>1 DEF RunInv
<1> QED BY <1>1, RunInit, RunNext, TypesHold, CopyHolds, PTL DEF Spec

-----------------------------------------------------------------------------
(* XC walks the tree too.                                                   *)

\* A change of one file leaves the directories a tree.
LEMMA TreeSpared ==
  ASSUME NEW one, NEW two, WellFormed(one), WellFormed(two), IsTree(one), NEW d \in Dirs, NEW m \in Names,
         Spares(one, two, d, m), Attr(one, d, m) \notin DirAttrs, Attr(two, d, m) \notin DirAttrs
  PROVE  IsTree(two)
<1>1. ASSUME NEW e \in Dirs, NEW i \in 1..Len(two[e]), two[e][i].attr \in DirAttrs
      PROVE  i \in 1..Len(one[e]) /\ one[e][i].attr \in DirAttrs /\ one[e][i].opens = two[e][i].opens
  <2> DEFINE n == two[e][i].name
  <2>1. e # NoDir /\ \A x \in DirAttrs : x # "free"
    BY DosAssumption DEF DirAttrs
  <2>2. n \in Names /\ two[e][i].attr # "free"
    BY <1>1, <2>1, SlotFound DEF Slot
  <2>3. SlotOf(two, e, n) = i /\ Attr(two, e, n) = two[e][i].attr
    BY <2>2, SlotSays
  <2>4. Child(two, e, n) = two[e][i].opens
    BY <2>3, <1>1 DEF Child
  <2> HIDE DEF n
  <2>5. <<e, n>> # <<d, m>>
    BY <2>3, <1>1
  <2>6. /\ Attr(two, e, n) = Attr(one, e, n) /\ SlotOf(two, e, n) = SlotOf(one, e, n)
        /\ Child(two, e, n) = Child(one, e, n)
    BY <2>2, <2>5 DEF Spares
  <2>7. Attr(one, e, n) \in DirAttrs /\ SlotOf(one, e, n) = i
    BY <2>3, <2>6, <1>1
  <2>8. i # 0 /\ i \in 1..Len(one[e])
    BY <2>1, <2>7, SlotFound DEF Attr
  <2>9. one[e][i].attr \in DirAttrs /\ Child(one, e, n) = one[e][i].opens
    BY <2>1, <2>7, <2>8 DEF Attr, Child
  <2> QED BY <2>4, <2>6, <2>8, <2>9
<1>2. ASSUME NEW e \in Dirs PROVE DOMAIN one[e] = 1..Len(one[e]) /\ DOMAIN two[e] = 1..Len(two[e])
  BY SlotFound
<1>3. PICK level \in [Dirs -> 0..Cardinality(Dirs)] :
         \A e \in Dirs : \A s \in ToSet(one[e]) : s.attr \in DirAttrs => level[s.opens] = level[e] + 1
  BY DEF IsTree
<1>4. ASSUME NEW e \in Dirs, NEW s \in ToSet(two[e]), s.attr \in DirAttrs
      PROVE  level[s.opens] = level[e] + 1
  <2>1. PICK i \in 1..Len(two[e]) : s = two[e][i]
    BY <1>2 DEF ToSet
  <2>2. i \in 1..Len(one[e]) /\ one[e][i].attr \in DirAttrs /\ one[e][i].opens = s.opens
    BY <1>1, <1>4, <2>1
  <2>3. one[e][i] \in ToSet(one[e])
    BY <2>2, <1>2 DEF ToSet
  <2> DEFINE o == one[e][i]
  <2>4. o \in ToSet(one[e]) /\ o.attr \in DirAttrs /\ o.opens = s.opens
    BY <2>2, <2>3
  <2> HIDE DEF o
  <2>5. level[o.opens] = level[e] + 1
    BY <2>4, <1>3
  <2> QED BY <2>4, <2>5
<1>5. ASSUME NEW e \in Dirs, NEW f \in Dirs, NEW i \in 1..Len(two[e]), NEW j \in 1..Len(two[f]),
             two[e][i].attr \in DirAttrs, two[f][j].attr \in DirAttrs, two[e][i].opens = two[f][j].opens
      PROVE  e = f /\ i = j
  <2>1. i \in 1..Len(one[e]) /\ one[e][i].attr \in DirAttrs /\ one[e][i].opens = two[e][i].opens
    BY <1>1, <1>5
  <2>2. j \in 1..Len(one[f]) /\ one[f][j].attr \in DirAttrs /\ one[f][j].opens = two[f][j].opens
    BY <1>1, <1>5
  <2> QED BY <2>1, <2>2, <1>5 DEF IsTree
<1>6. \E lev \in [Dirs -> 0..Cardinality(Dirs)] :
         \A e \in Dirs : \A s \in ToSet(two[e]) : s.attr \in DirAttrs => lev[s.opens] = lev[e] + 1
  <2> WITNESS level \in [Dirs -> 0..Cardinality(Dirs)]
  <2> QED BY <1>4
<1>7. \A e, f \in Dirs : \A i \in 1..Len(two[e]), j \in 1..Len(two[f]) :
         two[e][i].attr \in DirAttrs /\ two[f][j].attr \in DirAttrs /\ two[e][i].opens = two[f][j].opens
            => e = f /\ i = j
  BY <1>5
<1> QED BY <1>6, <1>7 DEF IsTree

\* A step of XREP changes one file, if any.
OneFileChanges == \E d \in Dirs, m \in Names :
    /\ WellFormed(disk') /\ Spares(disk, disk', d, m)
    /\ Attr(disk, d, m) \notin DirAttrs /\ Attr(disk', d, m) \notin DirAttrs

\* See OneFileChanges.
LEMMA XrepChangesOne ==
  ASSUME TypeInv, XrepStep \/ PressEscape \/ Interrupt
  PROVE  disk' = disk \/ OneFileChanges
<1>1. /\ "plain" \notin DirAttrs /\ "free" \notin DirAttrs
      /\ \A x \in FileAttrs : x \notin DirAttrs /\ x # "free"
  BY DEF DirAttrs, FileAttrs
<1>2. CASE \/ FindFile \/ EndFlag \/ EnterDir \/ LeaveDir \/ BackupRefused
           \/ \E key \in {"Y", "A", "Q", "other"} : Answer(key)
  BY <1>2 DEF FindFile, EndFlag, EnterDir, LeaveDir, BackupRefused, Answer
<1> DEFINE d == file.dir
           n == name
           b == backup
<1>3. ASSUME phase = "backup", Writable(disk, d, b), NEW t \in Seq(STRING), disk' = Write(created, d, b, t)
      PROVE  OneFileChanges
  BY <1>1, <1>3, BackupFacts DEF OneFileChanges, Writable
<1>4. CASE BinaryFile
  BY <1>1, <1>4, BackupFacts DEF BinaryFile, OneFileChanges, Writable
<1>5. CASE MakeBackup
  BY <1>3, <1>5, BackupFacts DEF MakeBackup
<1>6. CASE Reopen
  <2>1. CASE Writable(disk, d, n)
    <3>1. phase = "reopen" /\ disk' = Create(disk, d, n)
      BY <1>6, <2>1 DEF Reopen
    <3> QED BY <1>1, <2>1, <3>1, ReopenFacts DEF OneFileChanges, Writable
  <2>2. CASE ~Writable(disk, d, n)
    BY <1>6, <2>2 DEF Reopen
  <2> QED BY <2>1, <2>2
<1>7. ASSUME phase \in Rewriting
      PROVE  /\ d \in Dirs /\ n \in Names /\ b \in Names /\ WellFormed(disk)
             /\ Attr(disk, d, n) = "plain" /\ Attr(disk, d, b) = "plain"
  BY <1>7, RewriteFacts DEF TypeInv, AttrType, DiskType
<1>8. ASSUME phase \in Rewriting, NEW t \in Seq(STRING), disk' = Write(disk, d, n, t) PROVE OneFileChanges
  BY <1>1, <1>7, <1>8, RewriteFacts DEF OneFileChanges
<1>9. CASE RewriteLine \/ DivideError
  <2> DEFINE t == Replaced(NextLine).line
  <2>1. phase = "lines" /\ disk' \in {disk, Write(disk, d, n, t)}
    BY <1>9 DEF RewriteLine, DivideError
  <2>2. rest \in Seq(STRING) /\ setup.pairs \in Seq(TextPair)
    BY DEF TypeInv, XrepType, Setup
  <2>3. t \in Seq(STRING)
    BY <2>2, NextLineFacts, ReplacedFacts
  <2> HIDE DEF t
  <2> QED BY <1>8, <2>1, <2>3 DEF Rewriting
<1>10. CASE FinishFile
  <2>1. phase \in Rewriting /\ disk' \in {disk, Delete(disk, d, b)}
    BY <1>10 DEF FinishFile, Rewriting
  <2>2. /\ WellFormed(Delete(disk, d, b)) /\ Spares(disk, Delete(disk, d, b), d, b)
        /\ Attr(Delete(disk, d, b), d, b) = "free"
    BY <1>1, <1>7, <2>1, FileDeleted
  <2> QED BY <1>1, <1>7, <2>1, <2>2 DEF OneFileChanges
<1>11. CASE PressEscape
  <2>1. phase \in Rewriting /\ disk' = Create(disk, d, n)
    BY <1>11 DEF PressEscape, Rewriting
  <2> QED BY <1>1, <1>7, <2>1, RewriteFacts DEF OneFileChanges
<1>12. CASE RestoreFile
  <2>1. phase \in Rewriting /\ disk' = Write(disk, d, n, Text(disk, d, b))
    BY <1>12 DEF RestoreFile, Rewriting
  <2> QED BY <1>8, <2>1, RewriteFacts
<1>13. CASE Interrupt
  <2>1. disk' \in Partial \union {disk}
    BY <1>13 DEF Interrupt
  <2>2. CASE phase = "backup" /\ Writable(disk, d, b) /\ \E t \in Seq(STRING) : disk' = Write(created, d, b, t)
    BY <1>3, <2>2
  <2>3. CASE phase \in {"lines", "tail"} /\ \E k \in 0..Len(Text(disk, d, n)) :
                disk' = PutText(disk, d, n, SubSeq(Text(disk, d, n), 1, k))
    <3>1. PICK k \in 0..Len(Text(disk, d, n)) : disk' = PutText(disk, d, n, SubSeq(Text(disk, d, n), 1, k))
      BY <2>3
    <3>2. phase \in Rewriting
      BY <2>3 DEF Rewriting
    <3>3. WellFormed(disk') /\ Spares(disk, disk', d, n)
      BY <3>1, <3>2, RewriteFacts
    <3>4. Attr(disk', d, n) = "plain"
      <4> DEFINE u == Text(disk, d, n)
                 v == SubSeq(u, 1, k)
      <4>1. u \in Seq(STRING) /\ k \in Nat /\ k <= Len(u)
        BY <3>2, RewriteFacts
      <4>2. v \in Seq(STRING)
        <5> HIDE DEF u
        <5> QED BY <4>1
      <4>3. disk' = PutText(disk, d, n, v)
        BY <3>1
      <4>4. d \in Dirs /\ n \in Names /\ WellFormed(disk) /\ Attr(disk, d, n) = "plain"
        BY <3>2, <1>7
      <4>5. Attr(disk, d, n) \in FileAttrs
        BY <4>4 DEF FileAttrs
      <4> HIDE DEF u, v, d, n
      <4>6. Attr(PutText(disk, d, n, v), d, n) = Attr(disk, d, n)
        BY <4>2, <4>4, <4>5, TextPut
      <4> QED BY <4>3, <4>4, <4>6
    <3> QED BY <1>1, <1>7, <3>2, <3>3, <3>4 DEF OneFileChanges
  <2>4. CASE phase = "restore" /\ \E t \in Seq(STRING) : disk' = Write(disk, d, n, t)
    BY <1>8, <2>4 DEF Rewriting
  <2> QED BY <2>1, <2>2, <2>3, <2>4, PartialDisks
<1> QED BY <1>2, <1>4, <1>5, <1>6, <1>9, <1>10, <1>11, <1>12, <1>13 DEF XrepStep

\* The directories stay a tree.
LEMMA TreeNext == TypeInv /\ IsTree(disk) /\ [Next]_vars => IsTree(disk)'
<1> SUFFICES ASSUME TypeInv, IsTree(disk), [Next]_vars PROVE IsTree(disk')
  OBVIOUS
<1>1. WellFormed(disk)
  BY DEF TypeInv, DiskType
<1>2. CASE XrepRuns \/ XrepStops
  <2>1. disk' = disk \/ OneFileChanges
    BY <1>2, XrepChangesOne DEF XrepRuns, XrepStops
  <2> QED BY <1>1, <2>1, TreeSpared DEF OneFileChanges
<1>3. ASSUME NEW c, Type(c) PROVE disk' = disk
  BY <1>3 DEF Type, XrepStart, XrepRefused, XcStart, XcTwoFiles, XcRefused, XcBreakNaming
<1>4. CASE XcRuns \/ XcStops
  BY <1>4 DEF XcRuns, XcStops, XcStep, XcSubdir, XcFile, XcKey, XcReturn, XcFileKey, XcEscape, XcDiskError
<1>5. CASE UNCHANGED vars
  BY <1>5 DEF vars
<1> QED BY <1>2, <1>3, <1>4, <1>5 DEF Next

\* They are one in every state.
LEMMA TreeHolds == Spec => []IsTree(disk)
<1>1. Init => IsTree(disk)
  BY TreeAssumption DEF Init
<1> QED BY <1>1, TreeNext, TypesHold, PTL DEF Spec

\* A name of a directory leads to a directory, or to none.
LEMMA ChildType ==
  ASSUME NEW dk, WellFormed(dk), NEW d \in Dirs \union {NoDir}, NEW n
  PROVE  /\ Child(dk, d, n) \in Dirs \union {NoDir}
         /\ d = NoDir => Child(dk, d, n) = NoDir /\ ~Readable(dk, d, n)
<1>1. "free" \notin DirAttrs /\ "free" \notin FileAttrs
  BY DEF DirAttrs, FileAttrs
<1>2. CASE d = NoDir
  BY <1>1, <1>2 DEF Child, Attr, Readable
<1>3. CASE d # NoDir
  <2>1. d \in Dirs
    BY <1>3
  <2>2. CASE Attr(dk, d, n) \in DirAttrs
    <3> DEFINE i == SlotOf(dk, d, n)
    <3>1. i # 0 /\ dk[d][i].attr \in DirAttrs
      BY <1>1, <1>3, <2>2 DEF Attr
    <3>2. i \in 1..Len(dk[d])
      BY <3>1, <2>1, SlotFound
    <3>3. Child(dk, d, n) = dk[d][i].opens
      BY <2>2 DEF Child
    <3> HIDE DEF i
    <3>4. dk[d][i].opens \in Dirs
      BY <3>1, <3>2, <2>1 DEF WellFormed
    <3> QED BY <1>3, <3>3, <3>4
  <2>3. CASE Attr(dk, d, n) \notin DirAttrs
    BY <1>3, <2>3 DEF Child
  <2> QED BY <2>2, <2>3
<1> QED BY <1>2, <1>3

-----------------------------------------------------------------------------
(* The place in the target tree.                                            *)

\* A path is followed one name at a time.
LEMMA ResolveAdds ==
  ASSUME NEW n \in Nat, NEW path, DOMAIN path = 1..n, NEW dir \in Dirs \union {NoDir}, WellFormed(disk)
  PROVE  \E g : /\ g[0] = dir /\ g[n] = Resolve(dir, path)
                /\ \A k \in 1..n : g[k] = Child(disk, g[k - 1], path[k])
<1> DEFINE S == 1..n
           V == Dirs \union {NoDir}
           F(it) == [s \in SUBSET (DOMAIN path) |->
                       IF s = {} THEN dir ELSE Child(disk, it[s \ {Max(s)}], path[Max(s)])]
           iter == CHOOSE it : it = F(it)
           ch == [s \in SUBSET S |-> Max(s)]
           h == [p \in S \X V |-> Child(disk, p[2], path[p[1]])]
           g == [k \in 0..n |-> iter[1..k]]
<1>1. Resolve(dir, path) = iter[DOMAIN path]
  BY DEF Resolve, FoldLeft, MapThenFoldSet
<1>2. \E it : it = F(it)
  <2>1. IsFiniteSet(S)
    BY FS_Interval
  <2>2. \A s \in SUBSET S : s # {} => ch[s] \in s
    BY MaxOfNumbers
  <2>3. \A x \in S, v \in V : h[<<x, v>>] = Child(disk, v, path[x]) /\ h[<<x, v>>] \in V
    <3>1. \A v \in V : \A m : Child(disk, v, m) \in V
      BY ChildType
    <3> HIDE DEF V
    <3> QED BY <3>1
  <2> HIDE DEF ch, h, V
  <2>4. PICK it \in [SUBSET S -> V] :
               it = [s \in SUBSET S |-> IF s = {} THEN dir ELSE h[<<ch[s], it[s \ {ch[s]}]>>]]
    <3>1. Chooses(S, ch) /\ StepsIn(S, V, h)
      BY <2>2, <2>3 DEF Chooses, StepsIn
    <3>2. dir \in V
      BY DEF V
    <3> HIDE DEF S
    <3>3. Recursions(S, V, dir, ch, h) # {}
      BY <2>1, <3>1, <3>2, Recursion
    <3> QED BY <3>3 DEF Recursions
  <2>5. \A s \in SUBSET S : s # {} => /\ ch[s] = Max(s) /\ ch[s] \in S
                                      /\ h[<<ch[s], it[s \ {ch[s]}]>>] = Child(disk, it[s \ {Max(s)}], path[Max(s)])
    BY <2>2, <2>3 DEF ch
  <2>6. it = F(it)
    BY <2>4, <2>5
  <2> QED BY <2>6
<1>3. iter = F(iter)
  <2> HIDE DEF F
  <2> QED BY <1>2
<1>4. iter[{}] = dir /\ 1..0 = {}
  <2> HIDE DEF iter
  <2>1. iter[{}] = F(iter)[{}]
    BY <1>3
  <2> QED BY <2>1
<1>5. ASSUME NEW k \in 1..n PROVE iter[1..k] = Child(disk, iter[1..(k - 1)], path[k])
  <2> HIDE DEF iter
  <2>1. 1..k \in SUBSET S /\ 1..k # {}
    <3>1. \A i \in 1..k : i \in 1..n
      OBVIOUS
    <3>2. k \in 1..k
      OBVIOUS
    <3> QED BY <3>1, <3>2
  <2>2. Max(1..k) \in 1..k /\ \A y \in 1..k : Max(1..k) >= y
    BY <2>1, MaxOfNumbers
  <2>3. Max(1..k) = k
    BY <2>2
  <2>4. (1..k) \ {k} = 1..(k - 1)
    OBVIOUS
  <2>5. iter[1..k] = F(iter)[1..k]
    BY <1>3
  <2> QED BY <2>1, <2>3, <2>4, <2>5
<1> HIDE DEF iter
<1>6. g[0] = dir /\ g[n] = Resolve(dir, path) /\ \A k \in 1..n : g[k] = Child(disk, g[k - 1], path[k])
  BY <1>1, <1>4, <1>5
<1> QED BY <1>6

\* The last name of a path leads on from where the names before it lead.
LEMMA ResolveAppends ==
  ASSUME WellFormed(disk), NEW dir \in Dirs \union {NoDir}, NEW p \in Seq(Names), NEW m \in Names
  PROVE  Resolve(dir, Append(p, m)) = Child(disk, Resolve(dir, p), m)
<1> DEFINE n == Len(p)
           one == p
           q == Append(p, m)
<1>1. n \in Nat /\ n + 1 \in Nat /\ DOMAIN one = 1..n /\ DOMAIN q = 1..(n + 1)
      /\ q[n + 1] = m /\ \A k \in 1..n : q[k] = one[k]
  OBVIOUS
<1> HIDE DEF n, one, q
<1> DEFINE Follows(g, k, s) == /\ g[0] = dir /\ g[k] = Resolve(dir, s)
                               /\ \A i \in 1..k : g[i] = Child(disk, g[i - 1], s[i])
<1>10. \A k \in Nat : \A s : DOMAIN s = 1..k => \E g : Follows(g, k, s)
  BY ResolveAdds
<1> HIDE DEF Follows
<1>11. PICK g : Follows(g, n, one)
  BY <1>1, <1>10
<1>12. PICK h : Follows(h, n + 1, q)
  BY <1>1, <1>10
<1>2. g[0] = dir /\ g[n] = Resolve(dir, one) /\ \A k \in 1..n : g[k] = Child(disk, g[k - 1], one[k])
  BY <1>11 DEF Follows
<1>3. h[0] = dir /\ h[n + 1] = Resolve(dir, q) /\ \A k \in 1..(n + 1) : h[k] = Child(disk, h[k - 1], q[k])
  BY <1>12 DEF Follows
<1> DEFINE P == {k \in Nat : k <= n => h[k] = g[k]}
<1>4. 0 \in P
  BY <1>2, <1>3
<1>5. ASSUME NEW k \in P PROVE k + 1 \in P
  <2>1. CASE k + 1 <= n
    <3>1. k \in Nat /\ k <= n /\ k + 1 \in 1..n /\ k + 1 \in 1..(n + 1) /\ (k + 1) - 1 = k
      BY <2>1, <1>1
    <3>2. h[k] = g[k]
      BY <3>1
    <3>3. g[k + 1] = Child(disk, g[k], one[k + 1]) /\ h[k + 1] = Child(disk, h[k], q[k + 1])
      BY <3>1, <1>2, <1>3
    <3>4. h[k + 1] = g[k + 1]
      BY <3>1, <3>2, <3>3, <1>1
    <3> QED BY <3>4
  <2> QED BY <2>1
<1>6. P = Nat
  <2>1. P \in SUBSET Nat
    BY DEF P
  <2> HIDE DEF P
  <2> QED BY <1>4, <1>5, <2>1, NumbersInduct
<1>7. h[n] = g[n]
  BY <1>1, <1>6
<1>8. n + 1 \in 1..(n + 1) /\ (n + 1) - 1 = n
  BY <1>1
<1>9. h[n + 1] = Child(disk, h[n], m)
  BY <1>1, <1>3, <1>8
<1> QED BY <1>2, <1>3, <1>7, <1>9 DEF one, q

\* An empty path leads nowhere else.
LEMMA ResolveNothing ==
  ASSUME WellFormed(disk), NEW dir \in Dirs \union {NoDir} PROVE Resolve(dir, <<>>) = dir
<1>1. DOMAIN <<>> = 1..0 /\ 0 \in Nat
  OBVIOUS
<1>2. PICK g : g[0] = dir /\ g[0] = Resolve(dir, <<>>)
  <2> DEFINE e == <<>>
             z == 0
  <2>1. DOMAIN e = 1..z /\ z \in Nat
    BY <1>1
  <2> HIDE DEF e, z
  <2>2. \E g : g[0] = dir /\ g[z] = Resolve(dir, e)
    BY <2>1, ResolveAdds
  <2> QED BY <2>2 DEF e, z
<1> QED BY <1>2

-----------------------------------------------------------------------------
(* The directories XC goes down to.                                         *)

\* What taking a step h again and again gives, N times at most.
Iterations(N, V, base, h) == {g \in [0..N -> V] : g = [k \in 0..N |-> IF k = 0 THEN base ELSE h[g[k - 1]]]}
Maps(V, h) == \A v \in V : h[v] \in V

\* There is such a function.
LEMMA Iterates ==
  ASSUME NEW N \in Nat, NEW V, NEW base \in V, NEW h, Maps(V, h)
  PROVE  Iterations(N, V, base, h) # {}
<1> USE DEF Maps
<1> DEFINE S == 1..N
           ch == [s \in SUBSET S |-> Max(s)]
           hh == [p \in S \X V |-> h[p[2]]]
<1>1. PICK it \in [SUBSET S -> V] : it = [s \in SUBSET S |-> IF s = {} THEN base ELSE hh[<<ch[s], it[s \ {ch[s]}]>>]]
  <2>1. IsFiniteSet(S)
    BY FS_Interval
  <2>2. \A s \in SUBSET S : s # {} => ch[s] \in s
    BY MaxOfNumbers
  <2>3. \A x \in S, v \in V : hh[<<x, v>>] \in V
    OBVIOUS
  <2> HIDE DEF ch, hh, S
  <2>4. Chooses(S, ch) /\ StepsIn(S, V, hh)
    BY <2>2, <2>3 DEF Chooses, StepsIn
  <2>5. Recursions(S, V, base, ch, hh) # {}
    BY <2>1, <2>4, Recursion
  <2> QED BY <2>5 DEF Recursions
<1> DEFINE g == [k \in 0..N |-> it[1..k]]
<1>2. ASSUME NEW k \in 0..N PROVE 1..k \in SUBSET S /\ it[1..k] \in V
  <2>1. 1..k \in SUBSET S
    OBVIOUS
  <2> QED BY <2>1
<1>3. g[0] = base
  BY <1>1
<1>4. ASSUME NEW k \in 1..N PROVE g[k] = h[g[k - 1]]
  <2>1. 1..k \in SUBSET S /\ 1..k # {} /\ k \in 0..N /\ k - 1 \in 0..N
    <3>1. k \in 1..k /\ k \in 0..N /\ k - 1 \in 0..N
      OBVIOUS
    <3> QED BY <3>1, <1>2
  <2>2. Max(1..k) \in 1..k /\ \A y \in 1..k : Max(1..k) >= y
    BY <2>1, MaxOfNumbers
  <2>3. Max(1..k) = k
    BY <2>2
  <2>4. (1..k) \ {k} = 1..(k - 1)
    OBVIOUS
  <2>5. ch[1..k] = k
    BY <2>1, <2>3
  <2> DEFINE v == it[1..(k - 1)]
  <2>6. v \in V /\ g[k - 1] = v /\ g[k] = it[1..k]
    BY <2>1, <1>2
  <2>7. it[1..k] = hh[<<k, v>>]
    <3> HIDE DEF ch, hh, S
    <3> QED BY <1>1, <2>1, <2>4, <2>5
  <2>8. hh[<<k, v>>] = h[v]
    <3> HIDE DEF v
    <3> QED BY <2>6
  <2> HIDE DEF g, v, hh
  <2> QED BY <2>6, <2>7, <2>8
<1>5. g \in [0..N -> V]
  BY <1>2
<1>6. g = [k \in 0..N |-> g[k]]
  OBVIOUS
<1> HIDE DEF g
<1>7. \A k \in 0..N : g[k] = IF k = 0 THEN base ELSE h[g[k - 1]]
  <2> SUFFICES ASSUME NEW k \in 0..N, k # 0 PROVE g[k] = h[g[k - 1]]
    BY <1>3
  <2>1. k \in 1..N
    OBVIOUS
  <2> QED BY <2>1, <1>4
<1>8. g = [k \in 0..N |-> IF k = 0 THEN base ELSE h[g[k - 1]]]
  BY <1>6, <1>7
<1> QED BY <1>5, <1>8 DEF Iterations

\* Slot i of directory d is a subdirectory e that scandir goes down to.
Descends(dk, jb, d, i, e) == Lists(dk, d, i, e) /\ dk[d][i].name \in jb.flag /\ "scandir" \in jb.opt

\* A source directory and the target directory at the same place, if there is one.
Places == Dirs \X (Dirs \union {NoDir})

Start(jb) == <<jb.source, jb.target>>

\* The place below place p that slot i of its source directory leads to.
Under(dk, p, i) == <<dk[p[1]][i].opens, Child(dk, p[2], dk[p[1]][i].name)>>

\* D has the start and what is below its places.
ClosedIn(dk, jb, D) ==
    /\ Start(jb) \in D
    /\ \A p \in D : p \in Places => \A i, e : Descends(dk, jb, p[1], i, e) => Under(dk, p, i) \in D

\* What scandir goes down to leads from a place to a place.
LEMMA UnderType ==
  ASSUME NEW dk, WellFormed(dk), NEW p \in Places, NEW i, NEW e, Lists(dk, p[1], i, e)
  PROVE  /\ Under(dk, p, i) \in Places /\ Under(dk, p, i)[1] = e /\ e \in Dirs
         /\ i \in Nat \ {0} /\ i \in 1..Len(dk[p[1]]) /\ dk[p[1]][i] \in Slot
<1>1. p[1] \in Dirs /\ p[2] \in Dirs \union {NoDir}
  BY DEF Places
<1>2. i \in 1..Len(dk[p[1]]) /\ dk[p[1]][i].attr \in DirAttrs /\ dk[p[1]][i].opens = e
  BY DEF Lists, DirAttrs
<1>3. e \in Dirs
  BY <1>1, <1>2 DEF WellFormed
<1>4. Len(dk[p[1]]) \in Nat /\ dk[p[1]][i] \in Slot
  BY <1>1, <1>2, SlotFound
<1>5. Child(dk, p[2], dk[p[1]][i].name) \in Dirs \union {NoDir}
  BY <1>1, ChildType
<1> QED BY <1>2, <1>3, <1>4, <1>5 DEF Under, Places

\* Mirrored is the least set of places that is closed.
LEMMA MirroredFacts ==
  ASSUME WellFormed(disk), IsTree(disk), job.source \in Dirs, job.target \in Dirs
  PROVE  /\ Mirrored \in SUBSET Places /\ ClosedIn(disk, job, Mirrored)
         /\ \A D : ClosedIn(disk, job, D) => Mirrored \subseteq D
<1> DEFINE N == Cardinality(Dirs)
           Below(P) ==
              UNION {{<<s.opens, IF p[2] = NoDir THEN NoDir ELSE Child(disk, p[2], s.name)>> :
                         s \in {s \in ToSet(disk[p[1]]) : s.attr = "dir" /\ s.name \in job.flag}} : p \in P}
           F(f) == [k \in 0..N |-> IF k = 0 THEN {Start(job)} ELSE f[k - 1] \union Below(f[k - 1])]
           level == CHOOSE f : f = F(f)
           scan == "scandir" \in job.opt
<1>1. N \in Nat
  BY DosAssumption, FS_CardinalityType
<1>2. Mirrored = IF scan THEN level[N] ELSE level[0]
  BY DEF Mirrored, Start
<1>3. Start(job) \in Places
  BY DEF Start, Places
<1>4. ASSUME NEW P \in SUBSET Places
      PROVE  \A q : q \in Below(P) <=> \E p \in P : \E i, e :
                       Lists(disk, p[1], i, e) /\ disk[p[1]][i].name \in job.flag /\ q = Under(disk, p, i)
  <2>1. ASSUME NEW p \in P
        PROVE  /\ p[1] \in Dirs /\ DOMAIN disk[p[1]] = 1..Len(disk[p[1]])
               /\ \A n : Child(disk, p[2], n) = IF p[2] = NoDir THEN NoDir ELSE Child(disk, p[2], n)
    <3>1. p[1] \in Dirs /\ p[2] \in Dirs \union {NoDir}
      BY DEF Places
    <3> QED BY <3>1, SlotFound, ChildType
  <2>2. ASSUME NEW q, q \in Below(P)
        PROVE  \E p \in P : \E i, e :
                  Lists(disk, p[1], i, e) /\ disk[p[1]][i].name \in job.flag /\ q = Under(disk, p, i)
    <3>1. PICK p \in P : \E s \in ToSet(disk[p[1]]) :
                /\ s.attr = "dir" /\ s.name \in job.flag
                /\ q = <<s.opens, IF p[2] = NoDir THEN NoDir ELSE Child(disk, p[2], s.name)>>
      BY <2>2
    <3>2. PICK s \in ToSet(disk[p[1]]) :
                /\ s.attr = "dir" /\ s.name \in job.flag
                /\ q = <<s.opens, IF p[2] = NoDir THEN NoDir ELSE Child(disk, p[2], s.name)>>
      BY <3>1
    <3>3. PICK i \in 1..Len(disk[p[1]]) : s = disk[p[1]][i]
      BY <2>1 DEF ToSet
    <3>4. q = Under(disk, p, i)
      BY <3>2, <3>3, <2>1 DEF Under
    <3>5. Lists(disk, p[1], i, s.opens) /\ disk[p[1]][i].name \in job.flag
      BY <3>2, <3>3 DEF Lists
    <3> QED BY <3>4, <3>5
  <2>3. ASSUME NEW p \in P, NEW i, NEW e, Lists(disk, p[1], i, e), disk[p[1]][i].name \in job.flag
        PROVE  Under(disk, p, i) \in Below(P)
    <3> DEFINE s == disk[p[1]][i]
    <3>1. i \in 1..Len(disk[p[1]]) /\ s.attr = "dir"
      BY <2>3 DEF Lists
    <3>2. s \in ToSet(disk[p[1]])
      BY <3>1, <2>1 DEF ToSet
    <3>3. Under(disk, p, i) = <<s.opens, IF p[2] = NoDir THEN NoDir ELSE Child(disk, p[2], s.name)>>
      BY <2>1 DEF Under
    <3>4. s.name \in job.flag
      BY <2>3
    <3> HIDE DEF s
    <3> QED BY <3>1, <3>2, <3>3, <3>4
  <2> HIDE DEF Below
  <2> QED BY <2>2, <2>3
<1> HIDE DEF Below
<1>5. ASSUME NEW P \in SUBSET Places PROVE Below(P) \in SUBSET Places
  <2> SUFFICES ASSUME NEW q \in Below(P) PROVE q \in Places
    OBVIOUS
  <2>1. PICK p \in P : \E i, e : Lists(disk, p[1], i, e) /\ q = Under(disk, p, i)
    BY <1>4
  <2> QED BY <2>1, UnderType
<1>6. \E f : f = F(f)
  <2> DEFINE V == SUBSET Places
             h == [P \in V |-> P \union Below(P)]
             base == {Start(job)}
  <2>1. base \in V /\ \A v \in V : h[v] = v \union Below(v) /\ h[v] \in V
    BY <1>3, <1>5
  <2> HIDE DEF V, h, base, N
  <2>5. Iterations(N, V, base, h) # {}
    BY <1>1, <2>1, Iterates DEF Maps
  <2>2. PICK g \in [0..N -> V] : g = [k \in 0..N |-> IF k = 0 THEN base ELSE h[g[k - 1]]]
    BY <2>5 DEF Iterations
  <2>3. ASSUME NEW k \in 0..N, k # 0 PROVE h[g[k - 1]] = g[k - 1] \union Below(g[k - 1])
    <3>1. k - 1 \in 0..N
      BY <1>1, <2>3
    <3> QED BY <3>1, <2>1
  <2>4. g = F(g)
    <3>1. \A k \in 0..N : (IF k = 0 THEN base ELSE h[g[k - 1]]) = (IF k = 0 THEN {Start(job)} ELSE g[k - 1] \union Below(g[k - 1]))
      BY <2>3 DEF base
    <3> QED BY <2>2, <3>1
  <2> QED BY <2>4
<1>7. level = F(level)
  <2> HIDE DEF F
  <2> QED BY <1>6
<1> HIDE DEF level
<1>8. level[0] = {Start(job)}
  <2>1. F(level)[0] = {Start(job)}
    BY <1>1
  <2> HIDE DEF F
  <2> QED BY <2>1, <1>7
<1>9. ASSUME NEW k \in Nat, k + 1 <= N PROVE level[k + 1] = level[k] \union Below(level[k])
  <2>1. k + 1 \in 0..N /\ k + 1 # 0 /\ (k + 1) - 1 = k
    BY <1>1, <1>9
  <2>2. F(level)[k + 1] = level[k] \union Below(level[k])
    BY <2>1
  <2> HIDE DEF F
  <2> QED BY <2>2, <1>7
<1> HIDE DEF F
<1>10. \A k \in Nat : k <= N => level[k] \in SUBSET Places
  <2> DEFINE A == {k \in Nat : k <= N => level[k] \in SUBSET Places}
  <2>1. 0 \in A
    BY <1>3, <1>8
  <2>2. ASSUME NEW k \in A PROVE k + 1 \in A
    <3> SUFFICES ASSUME k + 1 <= N PROVE level[k + 1] \in SUBSET Places
      OBVIOUS
    <3>1. k <= N /\ k \in Nat
      BY <1>1
    <3>2. level[k] \in SUBSET Places
      BY <3>1
    <3> QED BY <3>1, <3>2, <1>5, <1>9
  <2>3. A \in SUBSET Nat
    BY DEF A
  <2>4. A = Nat
    <3> HIDE DEF A
    <3> QED BY <2>1, <2>2, <2>3, NumbersInduct
  <2> QED BY <2>4
<1>11. ASSUME NEW D, ClosedIn(disk, job, D) PROVE Mirrored \subseteq D
  <2>1. CASE ~scan
    BY <1>2, <1>8, <1>11, <2>1 DEF ClosedIn
  <2>2. CASE scan
    <3> DEFINE A == {k \in Nat : k <= N => level[k] \subseteq D}
    <3>1. 0 \in A
      BY <1>8, <1>11 DEF ClosedIn
    <3>2. ASSUME NEW k \in A PROVE k + 1 \in A
      <4> SUFFICES ASSUME k + 1 <= N, NEW q \in level[k + 1] PROVE q \in D
        OBVIOUS
      <4>1. k <= N /\ k \in Nat
        BY <1>1
      <4>2. level[k] \subseteq D /\ level[k] \in SUBSET Places
        BY <4>1, <1>10
      <4>3. CASE q \in level[k]
        BY <4>2, <4>3
      <4>4. CASE q \in Below(level[k])
        <5>1. PICK p \in level[k] : \E i, e :
                 Lists(disk, p[1], i, e) /\ disk[p[1]][i].name \in job.flag /\ q = Under(disk, p, i)
          BY <1>4, <4>2, <4>4
        <5>2. p \in D /\ p \in Places
          BY <4>2
        <5> QED BY <5>1, <5>2, <1>11, <2>2 DEF ClosedIn, Descends
      <4> QED BY <4>1, <4>3, <4>4, <1>9
    <3>3. A \in SUBSET Nat
      BY DEF A
    <3>4. A = Nat
      <4> HIDE DEF A
      <4> QED BY <3>1, <3>2, <3>3, NumbersInduct
    <3> QED BY <3>4, <1>1, <1>2, <2>2
  <2> QED BY <2>1, <2>2
<1>12. Mirrored \in SUBSET Places
  BY <1>1, <1>2, <1>10
<1>13. PICK depth \in [Dirs -> 0..N] : \A d, e \in Dirs : \A i : Lists(disk, d, i, e) => depth[e] = depth[d] + 1
  <2>1. PICK depth \in [Dirs -> 0..N] :
           \A d \in Dirs : \A s \in ToSet(disk[d]) : s.attr \in DirAttrs => depth[s.opens] = depth[d] + 1
    BY DEF IsTree
  <2>2. ASSUME NEW d \in Dirs, NEW e \in Dirs, NEW i, Lists(disk, d, i, e) PROVE depth[e] = depth[d] + 1
    <3>1. DOMAIN disk[d] = 1..Len(disk[d])
      BY SlotFound
    <3>2. disk[d][i] \in ToSet(disk[d]) /\ disk[d][i].attr \in DirAttrs /\ disk[d][i].opens = e
      BY <3>1, <2>2 DEF ToSet, Lists, DirAttrs
    <3> DEFINE s == disk[d][i]
    <3>3. s \in ToSet(disk[d]) /\ s.attr \in DirAttrs /\ s.opens = e
      BY <3>2
    <3> HIDE DEF s
    <3> QED BY <3>3, <2>1
  <2> QED BY <2>1, <2>2
<1> DEFINE Rank(q) == depth[q[1]] - depth[job.source]
           Ranked(k) == \A q \in level[k] : Rank(q) \in 0..k /\ q \in level[Rank(q)]
<1>14. \A q \in Places : depth[q[1]] \in 0..N /\ depth[job.source] \in 0..N
  BY DEF Places
<1>15. \A k \in Nat : k <= N => Ranked(k)
  <2> DEFINE A == {k \in Nat : k <= N => Ranked(k)}
  <2>1. 0 \in A
    <3>1. Rank(Start(job)) = 0
      BY <1>3, <1>14, <1>1 DEF Start
    <3>2. 0 \in 0..0
      OBVIOUS
    <3> HIDE DEF Rank
    <3> QED BY <1>8, <3>1, <3>2
  <2>2. ASSUME NEW k \in A PROVE k + 1 \in A
    <3> SUFFICES ASSUME k + 1 <= N, NEW q \in level[k + 1] PROVE Rank(q) \in 0..(k + 1) /\ q \in level[Rank(q)]
      OBVIOUS
    <3>1. k <= N /\ k \in Nat /\ k + 1 \in Nat
      BY <1>1
    <3>2. Ranked(k)
      BY <3>1
    <3>3. level[k] \in SUBSET Places /\ level[k + 1] \in SUBSET Places
      BY <3>1, <1>10
    <3>4. CASE q \in level[k]
      <4>1. Rank(q) \in 0..k /\ q \in level[Rank(q)]
        BY <3>2, <3>4
      <4> HIDE DEF Rank
      <4> QED BY <4>1, <3>1
    <3>5. CASE q \in Below(level[k])
      <4>1. PICK p \in level[k] : \E i, e :
               Lists(disk, p[1], i, e) /\ disk[p[1]][i].name \in job.flag /\ q = Under(disk, p, i)
        BY <1>4, <3>3, <3>5
      <4>2. PICK i, e : Lists(disk, p[1], i, e) /\ disk[p[1]][i].name \in job.flag /\ q = Under(disk, p, i)
        BY <4>1
      <4>3. Rank(p) \in 0..k /\ p \in level[Rank(p)] /\ p \in Places
        BY <3>2, <3>3
      <4>4. q[1] = e /\ e \in Dirs /\ p[1] \in Dirs
        <5>1. p[1] \in Dirs
          BY <4>3 DEF Places
        <5>2. Under(disk, p, i)[1] = e /\ e \in Dirs
          BY <4>2, <4>3, UnderType
        <5> QED BY <4>2, <5>1, <5>2
      <4>5. depth[q[1]] = depth[p[1]] + 1
        BY <4>2, <4>4, <1>13
      <4>6. Rank(q) = Rank(p) + 1
        BY <4>3, <4>5, <1>14, <1>1
      <4> HIDE DEF Rank
      <4> DEFINE r == Rank(p)
      <4>7. r \in Nat /\ r <= N /\ r + 1 <= N /\ r + 1 \in 0..(k + 1)
        BY <4>3, <3>1, <1>1
      <4>8. level[r] \in SUBSET Places /\ p \in level[r]
        BY <4>3, <4>7, <1>10
      <4> HIDE DEF r
      <4>9. q \in Below(level[r])
        BY <1>4, <4>2, <4>8
      <4>10. q \in level[r + 1]
        BY <4>7, <4>9, <1>9
      <4> QED BY <4>6, <4>7, <4>10 DEF r
    <3> QED BY <3>1, <3>4, <3>5, <1>9
  <2>3. A \in SUBSET Nat
    BY DEF A
  <2>4. A = Nat
    <3> HIDE DEF A
    <3> QED BY <2>1, <2>2, <2>3, NumbersInduct
  <2> HIDE DEF Ranked
  <2> QED BY <2>4
<1>16. ASSUME NEW j \in Nat, j <= N PROVE level[j] \subseteq level[N]
  <2> DEFINE A == {k \in Nat : j <= k /\ k <= N => level[j] \subseteq level[k]}
  <2>1. 0 \in A
    <3>1. j <= 0 => j = 0
      OBVIOUS
    <3> QED BY <3>1
  <2>2. ASSUME NEW k \in A PROVE k + 1 \in A
    <3> SUFFICES ASSUME j <= k + 1, k + 1 <= N PROVE level[j] \subseteq level[k + 1]
      OBVIOUS
    <3>1. CASE j = k + 1
      BY <3>1
    <3>2. CASE j # k + 1
      <4>1. k \in Nat /\ j <= k /\ k <= N
        BY <1>1, <3>2
      <4>2. level[j] \subseteq level[k]
        BY <4>1
      <4> QED BY <4>1, <4>2, <1>9
    <3> QED BY <3>1, <3>2
  <2>3. A \in SUBSET Nat
    BY DEF A
  <2>4. A = Nat
    <3> HIDE DEF A
    <3> QED BY <2>1, <2>2, <2>3, NumbersInduct
  <2>5. N \in A
    <3> HIDE DEF A
    <3> QED BY <2>4, <1>1
  <2>6. j <= N /\ N <= N
    BY <1>1, <1>16
  <2> QED BY <2>5, <2>6
<1>17. Start(job) \in Mirrored
  BY <1>1, <1>2, <1>8, <1>16
<1>18. ASSUME NEW p \in Mirrored, NEW i, NEW e, Descends(disk, job, p[1], i, e) PROVE Under(disk, p, i) \in Mirrored
  <2>1. scan /\ Mirrored = level[N] /\ p \in Places /\ Lists(disk, p[1], i, e) /\ disk[p[1]][i].name \in job.flag
    BY <1>2, <1>12, <1>18 DEF Descends
  <2>2. Ranked(N)
    <3> HIDE DEF Ranked
    <3> QED BY <1>1, <1>15
  <2>3. Rank(p) \in 0..N /\ p \in level[Rank(p)]
    BY <2>1, <2>2
  <2>4. e \in Dirs /\ p[1] \in Dirs
    BY <2>1, UnderType DEF Places
  <2>5. depth[e] = depth[p[1]] + 1 /\ depth[e] \in 0..N
    BY <2>1, <2>4, <1>13
  <2>6. Rank(p) + 1 <= N
    BY <2>1, <2>3, <2>5, <1>14, <1>1
  <2> DEFINE r == Rank(p)
  <2>7. r \in Nat /\ r <= N /\ r + 1 <= N /\ r + 1 \in Nat /\ p \in level[r]
    BY <2>3, <2>6, <1>1
  <2> HIDE DEF r
  <2>8. level[r] \in SUBSET Places
    BY <2>7, <1>10
  <2>9. Under(disk, p, i) \in Below(level[r])
    BY <1>4, <2>1, <2>7, <2>8
  <2>10. Under(disk, p, i) \in level[r + 1]
    BY <2>7, <2>9, <1>9
  <2> QED BY <2>1, <2>7, <2>10, <1>16
<1> QED BY <1>11, <1>12, <1>17, <1>18 DEF ClosedIn

-----------------------------------------------------------------------------
(* The statistics.                                                          *)

Count == [total : Nat, dirs : Nat, positive : Nat, negative : Nat, notfound : Nat]

\* The statistics after one more comparison.
Counted(cnt, v, opt) == [Tally(cnt, v, opt) EXCEPT !.total = @ + 1]

\* The statistics with the comparison that the user is asked about.
Due == IF xcPhase = "paused" THEN [CountAfter(verdict, job.opt) EXCEPT !.total = @ + 1] ELSE count

\* What can be compared, and what each comparison finds.
Pairs    == [dir : Dirs \union {NoDir}, name : Names] \X [dir : Dirs \union {NoDir}, name : Names]
Verdicts == [c \in Pairs |-> Compare(c[1], c[2], job.opt)]

\* The comparisons of F that find v.
Judged(F, vs, v) == {c \in F : vs[c] = v}

\* The statistics of the comparisons F.
Tallied(cnt, F, vs, opt) ==
    /\ cnt.total = Cardinality(F)
    /\ cnt.positive = Cardinality(Judged(F, vs, "same"))
    /\ cnt.notfound = Cardinality(Judged(F, vs, "missing"))
    /\ cnt.negative = Cardinality(Judged(F, vs, "different"))
                      + IF "existance" \in opt THEN Cardinality(Judged(F, vs, "missing")) ELSE 0

\* What Tally does to each number.
LEMMA TallyIs ==
  ASSUME NEW cnt \in Count, NEW v, NEW opt
  PROVE  /\ Tally(cnt, v, opt) \in Count /\ Counted(cnt, v, opt) \in Count
         /\ Tally(cnt, v, opt).dirs = cnt.dirs /\ Counted(cnt, v, opt).dirs = cnt.dirs
         /\ Counted(cnt, v, opt).total = cnt.total + 1
         /\ Counted(cnt, v, opt).positive = cnt.positive + IF v = "same" THEN 1 ELSE 0
         /\ Counted(cnt, v, opt).notfound = cnt.notfound + IF v = "missing" THEN 1 ELSE 0
         /\ Counted(cnt, v, opt).negative =
               cnt.negative + IF v = "different" \/ (v = "missing" /\ "existance" \in opt) THEN 1 ELSE 0
<1> DEFINE a == IF v = "same" THEN 1 ELSE 0
           b == IF v = "different" \/ (v = "missing" /\ "existance" \in opt) THEN 1 ELSE 0
           c == IF v = "missing" THEN 1 ELSE 0
<1>1. a \in Nat /\ b \in Nat /\ c \in Nat
  OBVIOUS
<1>2. Tally(cnt, v, opt) = [cnt EXCEPT !.positive = @ + a, !.negative = @ + b, !.notfound = @ + c]
  BY DEF Tally
<1>3. Counted(cnt, v, opt) = [Tally(cnt, v, opt) EXCEPT !.total = @ + 1]
  BY DEF Counted
<1> HIDE DEF a, b, c
<1>7. PICK t0 \in Nat, d0 \in Nat, p0 \in Nat, n0 \in Nat, f0 \in Nat :
         cnt = [total |-> t0, dirs |-> d0, positive |-> p0, negative |-> n0, notfound |-> f0]
  BY DEF Count
<1>8. Tally(cnt, v, opt) = [total |-> t0, dirs |-> d0, positive |-> p0 + a, negative |-> n0 + b, notfound |-> f0 + c]
  BY <1>2, <1>7
<1>4. /\ Tally(cnt, v, opt) \in Count /\ Tally(cnt, v, opt).dirs = cnt.dirs
      /\ Tally(cnt, v, opt).total = cnt.total /\ Tally(cnt, v, opt).positive = cnt.positive + a
      /\ Tally(cnt, v, opt).negative = cnt.negative + b /\ Tally(cnt, v, opt).notfound = cnt.notfound + c
  BY <1>1, <1>7, <1>8 DEF Count
<1> DEFINE t == Tally(cnt, v, opt)
<1>5. t \in Count
  BY <1>4
<1> HIDE DEF t
<1>6. /\ [t EXCEPT !.total = @ + 1] \in Count
      /\ [t EXCEPT !.total = @ + 1].total = t.total + 1 /\ [t EXCEPT !.total = @ + 1].dirs = t.dirs
      /\ [t EXCEPT !.total = @ + 1].positive = t.positive /\ [t EXCEPT !.total = @ + 1].negative = t.negative
      /\ [t EXCEPT !.total = @ + 1].notfound = t.notfound
  BY <1>5 DEF Count
<1> QED BY <1>3, <1>4, <1>6 DEF a, b, c, t

\* One comparison more, and its number.
LEMMA TallyAdds ==
  ASSUME NEW F, IsFiniteSet(F), NEW c, c \notin F, NEW vs, NEW cnt \in Count, NEW opt, Tallied(cnt, F, vs, opt)
  PROVE  IsFiniteSet(F \union {c}) /\ Tallied(Counted(cnt, vs[c], opt), F \union {c}, vs, opt)
<1> DEFINE v == vs[c]
           G == F \union {c}
<1>1. IsFiniteSet(G) /\ Cardinality(G) = Cardinality(F) + 1
  BY FS_AddElement
<1>2. ASSUME NEW w
      PROVE  /\ Cardinality(Judged(F, vs, w)) \in Nat
             /\ Cardinality(Judged(G, vs, w)) = Cardinality(Judged(F, vs, w)) + IF v = w THEN 1 ELSE 0
  <2> DEFINE J == Judged(F, vs, w)
  <2>1. J \in SUBSET F /\ c \notin J
    BY DEF Judged
  <2>2. IsFiniteSet(J) /\ Cardinality(J) \in Nat
    BY <2>1, FS_Subset, FS_CardinalityType
  <2>3. CASE v = w
    <3>1. Judged(G, vs, w) = J \union {c}
      BY <2>3 DEF Judged
    <3> HIDE DEF J
    <3>2. Cardinality(J \union {c}) = Cardinality(J) + 1
      BY <2>1, <2>2, FS_AddElement
    <3>3. Cardinality(Judged(G, vs, w)) = Cardinality(J) + 1
      BY <3>1, <3>2
    <3> HIDE DEF G, v
    <3> QED BY <2>2, <2>3, <3>3 DEF J
  <2>4. CASE v # w
    <3>1. Judged(G, vs, w) = J
      BY <2>4 DEF Judged
    <3> HIDE DEF G, v
    <3> QED BY <2>2, <2>4, <3>1
  <2> QED BY <2>3, <2>4
<1> HIDE DEF v, G
<1>3. /\ Counted(cnt, v, opt).total = cnt.total + 1
      /\ Counted(cnt, v, opt).positive = cnt.positive + IF v = "same" THEN 1 ELSE 0
      /\ Counted(cnt, v, opt).notfound = cnt.notfound + IF v = "missing" THEN 1 ELSE 0
      /\ Counted(cnt, v, opt).negative =
            cnt.negative + IF v = "different" \/ (v = "missing" /\ "existance" \in opt) THEN 1 ELSE 0
  BY TallyIs
<1>4. Tallied(Counted(cnt, v, opt), G, vs, opt)
  <2> DEFINE same == Cardinality(Judged(F, vs, "same"))
             missing == Cardinality(Judged(F, vs, "missing"))
             different == Cardinality(Judged(F, vs, "different"))
             new == Counted(cnt, v, opt)
  <2>1. /\ same \in Nat /\ missing \in Nat /\ different \in Nat
        /\ Cardinality(Judged(G, vs, "same")) = same + IF v = "same" THEN 1 ELSE 0
        /\ Cardinality(Judged(G, vs, "missing")) = missing + IF v = "missing" THEN 1 ELSE 0
        /\ Cardinality(Judged(G, vs, "different")) = different + IF v = "different" THEN 1 ELSE 0
    BY <1>2
  <2>2. /\ cnt.total = Cardinality(F) /\ cnt.positive = same /\ cnt.notfound = missing
        /\ cnt.negative = different + IF "existance" \in opt THEN missing ELSE 0
    BY DEF Tallied
  <2> HIDE DEF same, missing, different
  <2>3. new.total = Cardinality(G) /\ new.positive = Cardinality(Judged(G, vs, "same"))
        /\ new.notfound = Cardinality(Judged(G, vs, "missing"))
    BY <1>1, <1>3, <2>1, <2>2
  <2>4. new.negative = Cardinality(Judged(G, vs, "different"))
                       + IF "existance" \in opt THEN Cardinality(Judged(G, vs, "missing")) ELSE 0
    BY <1>3, <2>1, <2>2
  <2> QED BY <2>3, <2>4 DEF Tallied
<1> QED BY <1>1, <1>4 DEF v, G

\* Whether XC pauses or not, a file is counted once and by its verdict.
LEMMA FileCounted ==
  ASSUME count \in Count, NEW v, verdict' = v, job' = job,
         count' = [CountBefore(v, job.opt) EXCEPT !.total = @ + IF Pauses(v, job.opt) THEN 0 ELSE 1],
         xcPhase' = IF Pauses(v, job.opt) THEN "paused" ELSE "scan"
  PROVE  count' \in Count /\ count'.dirs = count.dirs /\ Due' = Counted(count, v, job.opt)
<1> DEFINE t == Tally(count, v, job.opt)
<1>1. t \in Count /\ t.dirs = count.dirs
  BY TallyIs
<1>2. ASSUME NEW r \in Count
      PROVE  /\ [r EXCEPT !.total = @ + 0] = r
             /\ [r EXCEPT !.total = @ + 1] \in Count /\ [r EXCEPT !.total = @ + 1].dirs = r.dirs
  <2>1. PICK t0 \in Nat, d0 \in Nat, p0 \in Nat, n0 \in Nat, f0 \in Nat :
         r = [total |-> t0, dirs |-> d0, positive |-> p0, negative |-> n0, notfound |-> f0]
    BY DEF Count
  <2>2. t0 + 0 = t0 /\ t0 + 1 \in Nat
    OBVIOUS
  <2>3. [r EXCEPT !.total = @ + 1] = [total |-> t0 + 1, dirs |-> d0, positive |-> p0, negative |-> n0, notfound |-> f0]
    BY <2>1
  <2>4. [r EXCEPT !.total = @ + 0] = [total |-> t0 + 0, dirs |-> d0, positive |-> p0, negative |-> n0, notfound |-> f0]
    BY <2>1
  <2>5. [r EXCEPT !.total = @ + 0] = r
    BY <2>1, <2>2, <2>4
  <2>6. [r EXCEPT !.total = @ + 1] \in Count
    BY <2>2, <2>3 DEF Count
  <2> QED BY <2>1, <2>3, <2>5, <2>6
<1>3. Counted(count, v, job.opt) = [t EXCEPT !.total = @ + 1]
  BY DEF Counted
<1>4. CASE ~Pauses(v, job.opt)
  <2>1. count' = [t EXCEPT !.total = @ + 1] /\ xcPhase' = "scan"
    BY <1>4 DEF CountBefore
  <2>2. Due' = count'
    BY <2>1 DEF Due
  <2> HIDE DEF t
  <2> QED BY <1>1, <1>2, <1>3, <2>1, <2>2
<1>5. CASE Pauses(v, job.opt) /\ v = "different"
  <2>1. count' = [t EXCEPT !.total = @ + 0] /\ xcPhase' = "paused"
    BY <1>5 DEF CountBefore
  <2>2. Due' = [count' EXCEPT !.total = @ + 1]
    BY <1>5, <2>1 DEF Due, CountAfter
  <2> HIDE DEF t
  <2> QED BY <1>1, <1>2, <1>3, <2>1, <2>2
<1>6. CASE Pauses(v, job.opt) /\ v # "different"
  <2>1. count' = [count EXCEPT !.total = @ + 0] /\ xcPhase' = "paused"
    BY <1>6 DEF CountBefore
  <2>2. count' = count
    BY <1>2, <2>1
  <2>3. Due' = [t EXCEPT !.total = @ + 1]
    BY <1>6, <2>1, <2>2 DEF Due, CountAfter
  <2> HIDE DEF t
  <2> QED BY <1>3, <2>2, <2>3
<1> QED BY <1>4, <1>5, <1>6

-----------------------------------------------------------------------------
(* How far a scan is.                                                       *)

\* Slot i of directory d is an entry scandir looks for; a file that it compares.
Shown(dk, jb, d, i) ==
    i \in 1..Len(dk[d]) /\ dk[d][i].name \in jb.flag /\ dk[d][i].attr \in FileAttrs \union DirAttrs
ToCompare(dk, jb, d, i) == Shown(dk, jb, d, i) /\ dk[d][i].attr # "dir"

\* The calls at work on directory d have gone past slot i: none is at work there, or its search is.
Passed(tr, d, i) == \A k \in 1..Len(tr) : tr[k].dir = d => i <= tr[k].at

\* The calls of scandir are a path down the tree, and each knows its own.
TrailIn(dk, jb, tr) ==
    /\ tr[1].dir = jb.source /\ tr[1].path = <<>>
    /\ \A k \in 1..(Len(tr) - 1) :
          /\ Descends(dk, jb, tr[k].dir, tr[k].at, tr[k + 1].dir)
          /\ tr[k + 1].path = Append(tr[k].path, dk[tr[k].dir][tr[k].at].name) /\ tr[k + 1].old = tr[k].path

\* D are the places scandir has been called at: what the searches have passed, and nothing else.
ScanIn(dk, jb, tr, D) ==
    /\ Start(jb) \in D
    /\ \A p, q \in D : p[1] = q[1] => p = q
    /\ \A p \in D, e \in Dirs : \A i \in 1..Len(dk[p[1]]) :
          Descends(dk, jb, p[1], i, e) /\ Passed(tr, p[1], i) => Under(dk, p, i) \in D
    /\ \A q \in D : q # Start(jb) =>
          \E p \in D : \E i \in 1..Len(dk[p[1]]) : Descends(dk, jb, p[1], i, q[1]) /\ Passed(tr, p[1], i)

\* Name n at place p is compared with its counterpart.
Pairing(jb, p, n) ==
    <<[dir |-> p[1], name |-> n],
      IF jb.single THEN [dir |-> jb.target, name |-> jb.only] ELSE [dir |-> p[2], name |-> n]>>

\* The comparisons made so far.
Files(dk, jb, tr, D) ==
    UNION {{Pairing(jb, p, dk[p[1]][i].name) :
               i \in {i \in 1..Len(dk[p[1]]) : ToCompare(dk, jb, p[1], i) /\ Passed(tr, p[1], i)}} : p \in D}

\* What they are.
LEMMA FilesAre ==
  ASSUME NEW dk, NEW jb, NEW tr, NEW D
  PROVE  \A c : c \in Files(dk, jb, tr, D) <=> \E p \in D : \E i :
                   ToCompare(dk, jb, p[1], i) /\ Passed(tr, p[1], i) /\ c = Pairing(jb, p, dk[p[1]][i].name)
<1>1. ASSUME NEW c, c \in Files(dk, jb, tr, D)
      PROVE  \E p \in D : \E i :
                ToCompare(dk, jb, p[1], i) /\ Passed(tr, p[1], i) /\ c = Pairing(jb, p, dk[p[1]][i].name)
  BY <1>1 DEF Files
<1>2. ASSUME NEW p \in D, NEW i, ToCompare(dk, jb, p[1], i), Passed(tr, p[1], i)
      PROVE  Pairing(jb, p, dk[p[1]][i].name) \in Files(dk, jb, tr, D)
  <2>1. i \in 1..Len(dk[p[1]])
    BY <1>2 DEF ToCompare, Shown
  <2> QED BY <1>2, <2>1 DEF Files
<1> QED BY <1>1, <1>2

\* All the files XC is to compare.
LEMMA ComparedAre ==
  ASSUME WellFormed(disk), Mirrored \in SUBSET Places
  PROVE  \A c : c \in Compared <=> \E p \in Mirrored : \E i :
                   ToCompare(disk, job, p[1], i) /\ c = Pairing(job, p, disk[p[1]][i].name)
<1> DEFINE C(p, n) == <<[dir |-> p[1], name |-> n],
                        IF job.single THEN [dir |-> job.target, name |-> job.only] ELSE [dir |-> p[2], name |-> n]>>
           Chosen(p) == {s \in ToSet(disk[p[1]]) : s.attr \in FileAttrs \union {"odddir"} /\ s.name \in job.flag}
<1>1. Compared = UNION {{C(p, s.name) : s \in Chosen(p)} : p \in Mirrored}
  BY DEF Compared
<1>2. \A p, n : C(p, n) = Pairing(job, p, n)
  BY DEF Pairing
<1> HIDE DEF C
<1>3. ASSUME NEW p \in Mirrored PROVE DOMAIN disk[p[1]] = 1..Len(disk[p[1]]) /\ p[1] \in Dirs
  <2>1. p[1] \in Dirs
    BY DEF Places
  <2> QED BY <2>1, SlotFound
<1>4. \A a : a \in FileAttrs \union {"odddir"} <=> a \in FileAttrs \union DirAttrs /\ a # "dir"
  BY DEF FileAttrs, DirAttrs
<1>5. ASSUME NEW c, c \in Compared
      PROVE  \E p \in Mirrored : \E i : ToCompare(disk, job, p[1], i) /\ c = Pairing(job, p, disk[p[1]][i].name)
  <2>1. PICK p \in Mirrored : \E s \in Chosen(p) : c = C(p, s.name)
    BY <1>1, <1>5
  <2>2. PICK s \in Chosen(p) : c = C(p, s.name)
    BY <2>1
  <2>3. PICK i \in 1..Len(disk[p[1]]) : s = disk[p[1]][i]
    BY <1>3 DEF ToSet
  <2>4. ToCompare(disk, job, p[1], i)
    BY <2>3, <1>4 DEF ToCompare, Shown
  <2> QED BY <2>2, <2>3, <2>4, <1>2
<1>6. ASSUME NEW p \in Mirrored, NEW i, ToCompare(disk, job, p[1], i)
      PROVE  Pairing(job, p, disk[p[1]][i].name) \in Compared
  <2> DEFINE s == disk[p[1]][i]
  <2>1. s \in ToSet(disk[p[1]])
    BY <1>3, <1>6 DEF ToSet, ToCompare, Shown
  <2>2. s \in Chosen(p)
    BY <1>4, <1>6, <2>1 DEF ToCompare, Shown
  <2>3. Pairing(job, p, s.name) = C(p, s.name)
    BY <1>2
  <2> HIDE DEF s, Chosen
  <2>4. C(p, s.name) \in Compared
    BY <1>1, <2>2
  <2> QED BY <2>3, <2>4 DEF s
<1> HIDE DEF Chosen
<1> QED BY <1>5, <1>6

\* The entry scandir finds is the first one behind those its search has passed.
LEMMA EntryIs ==
  ASSUME TypeInv, xcPhase = "scan"
  PROVE  /\ last \in TrailStep /\ Entry \in Nat
         /\ Entry # 0 => Shown(disk, job, last.dir, Entry) /\ Entry > last.at
         /\ \A i : Shown(disk, job, last.dir, i) => i \in Nat /\ i # 0 /\ (i > last.at => Entry # 0 /\ Entry <= i)
<1>1. last \in TrailStep /\ WellFormed(disk)
  BY EntryFound DEF TypeInv, DiskType
<1> DEFINE d == last.dir
           a == last.at
           attrs == FileAttrs \union DirAttrs
<1>2. d \in Dirs /\ a \in Nat
  BY <1>1 DEF TrailStep
<1>3. Len(disk[d]) \in Nat
  BY <1>1, <1>2, SlotFound
<1>4. Entry = Find(disk, d, job.flag, attrs, a)
  BY DEF Entry
<1> HIDE DEF d, a, attrs
<1>5. Entry \in Nat
  BY <1>1, <1>2, <1>3, <1>4, FoundEntry
<1>6. ASSUME Entry # 0 PROVE Shown(disk, job, d, Entry) /\ Entry > a
  <2>1. Entry \in (a + 1)..Len(disk[d]) /\ disk[d][Entry].name \in job.flag /\ disk[d][Entry].attr \in attrs
    BY <1>1, <1>2, <1>4, <1>6, FoundEntry
  <2>2. Entry \in 1..Len(disk[d]) /\ Entry > a
    BY <2>1, <1>2, <1>3
  <2> QED BY <2>1, <2>2 DEF Shown, attrs
<1>7. ASSUME NEW i, Shown(disk, job, d, i) PROVE i \in Nat /\ i # 0 /\ (i > a => Entry # 0 /\ Entry <= i)
  <2>1. i \in 1..Len(disk[d]) /\ disk[d][i].name \in job.flag /\ disk[d][i].attr \in attrs
    BY <1>7 DEF Shown, attrs
  <2>2. i \in Nat /\ i # 0
    BY <2>1, <1>3
  <2>3. ASSUME i > a PROVE Entry # 0 /\ Entry <= i
    <3>1. i \in (a + 1)..Len(disk[d])
      BY <2>1, <2>3, <1>2, <1>3
    <3> QED BY <2>1, <3>1, <1>1, <1>2, <1>4, FindSkipsNone
  <2> QED BY <2>2, <2>3
<1> QED BY <1>1, <1>5, <1>6, <1>7 DEF d, a

\* The calls of scandir are in different directories, and what the last of them lists is in none.
LEMMA TrailApart ==
  ASSUME NEW dk, WellFormed(dk), IsTree(dk), NEW jb, NEW tr \in Seq(TrailStep), tr # <<>>, TrailIn(dk, jb, tr)
  PROVE  /\ Len(tr) \in Nat \ {0} /\ \A k \in 1..Len(tr) : tr[k] \in TrailStep
         /\ \A j, k \in 1..Len(tr) : tr[j].dir = tr[k].dir => j = k
         /\ \A e \in Dirs : \A i : Lists(dk, tr[Len(tr)].dir, i, e) => \A k \in 1..Len(tr) : tr[k].dir # e
<1> DEFINE n == Len(tr)
           f(k) == [dir |-> tr[k].dir, at |-> tr[k].at, slash |-> FALSE]
           fr == [k \in 1..n |-> f(k)]
<1>1. n \in Nat \ {0} /\ \A k \in 1..n : tr[k] \in TrailStep
  OBVIOUS
<1> HIDE DEF n
<1>2. \A k \in 1..n : f(k) \in Frame
  BY <1>1 DEF Frame, TrailStep
<1>3. fr \in Seq(Frame) /\ Len(fr) = n /\ fr # <<>> /\ \A k \in 1..n : fr[k] = f(k)
  <2> HIDE DEF f, Frame
  <2>1. fr \in Seq(Frame) /\ Len(fr) = n /\ \A k \in 1..n : fr[k] = f(k)
    BY <1>1, <1>2
  <2>2. fr # <<>>
    BY <2>1, <1>1
  <2> QED BY <2>1, <2>2
<1>4. \A k \in 1..n : fr[k].dir = tr[k].dir /\ fr[k].at = tr[k].at
  BY <1>3
<1> HIDE DEF fr, f
<1>5. PathIn(dk, fr)
  <2> SUFFICES ASSUME NEW k \in 1..(n - 1) PROVE Lists(dk, fr[k].dir, fr[k].at, fr[k + 1].dir)
    BY <1>3 DEF PathIn
  <2>1. k \in 1..n /\ k + 1 \in 1..n
    BY <1>1
  <2>2. Descends(dk, jb, tr[k].dir, tr[k].at, tr[k + 1].dir)
    BY DEF TrailIn, n
  <2> QED BY <2>1, <2>2, <1>4 DEF Descends
<1>6. \A j, k \in 1..n : fr[j].dir = fr[k].dir => j = k
  BY <1>3, <1>5, PathApart
<1>7. \A e \in Dirs : \A i : Lists(dk, fr[n].dir, i, e) => \A k \in 1..n : fr[k].dir # e
  BY <1>3, <1>5, PathApart
<1>8. n \in 1..n
  BY <1>1
<1> QED BY <1>1, <1>4, <1>6, <1>7, <1>8 DEF n

-----------------------------------------------------------------------------
(* How the trail goes on.                                                   *)

\* Each directory has one call at most.
Apart(tr) == \A j, k \in 1..Len(tr) : tr[j].dir = tr[k].dir => j = k

\* The search of the last call tells what is passed in its directory.
LEMMA PassedLast ==
  ASSUME NEW tr \in Seq(TrailStep), tr # <<>>, Apart(tr)
  PROVE  /\ Last(tr) = tr[Len(tr)] /\ Last(tr) \in TrailStep
         /\ \A i : Passed(tr, Last(tr).dir, i) <=> i <= Last(tr).at
<1>1. Len(tr) \in 1..Len(tr) /\ Last(tr) = tr[Len(tr)] /\ tr[Len(tr)] \in TrailStep
  BY DEF Last
<1>2. \A k \in 1..Len(tr) : tr[k].dir = Last(tr).dir => k = Len(tr)
  BY <1>1 DEF Apart
<1> QED BY <1>1, <1>2 DEF Passed

\* The trail when the last call goes on to slot i.
Moved(tr, i) == [tr EXCEPT ![Len(tr)].at = i]

\* What it is then.
LEMMA TrailMoves ==
  ASSUME NEW tr \in Seq(TrailStep), tr # <<>>, Apart(tr), NEW i \in Nat,
         NEW two, two = Moved(tr, i)
  PROVE  /\ two \in Seq(TrailStep) /\ Len(two) = Len(tr) /\ two # <<>> /\ Apart(two)
         /\ \A k \in 1..Len(tr) : two[k].dir = tr[k].dir /\ two[k].path = tr[k].path /\ two[k].old = tr[k].old
         /\ \A k \in 1..(Len(tr) - 1) : two[k] = tr[k]
         /\ two[Len(tr)].at = i
         /\ \A d, j : Passed(two, d, j) <=> IF d = Last(tr).dir THEN j <= i ELSE Passed(tr, d, j)
<1> DEFINE n == Len(tr)
           f == [tr[n] EXCEPT !.at = i]
<1>1. n \in Nat \ {0} /\ n \in 1..n /\ \A k \in 1..n : tr[k] \in TrailStep
  OBVIOUS
<1>2. two = [tr EXCEPT ![n] = f]
  BY DEF Moved
<1>3. f \in TrailStep /\ f.dir = tr[n].dir /\ f.path = tr[n].path /\ f.old = tr[n].old /\ f.at = i
  BY <1>1 DEF TrailStep
<1>4. two \in Seq(TrailStep) /\ Len(two) = n /\ two[n] = f /\ \A k \in 1..n : k # n => two[k] = tr[k]
  <2> HIDE DEF f, TrailStep
  <2> QED BY <1>1, <1>2, <1>3
<1>5. two # <<>> /\ \A k \in 1..(n - 1) : k \in 1..n /\ k # n
  BY <1>1, <1>4
<1> HIDE DEF f, n
<1>6. \A k \in 1..n : two[k].dir = tr[k].dir /\ two[k].path = tr[k].path /\ two[k].old = tr[k].old
  BY <1>3, <1>4
<1>7. Apart(two)
  BY <1>4, <1>6 DEF Apart, n
<1>8. Last(two) = f /\ Last(tr) = tr[n]
  BY <1>4 DEF Last, n
<1>9. ASSUME NEW d, NEW j PROVE Passed(two, d, j) <=> IF d = Last(tr).dir THEN j <= i ELSE Passed(tr, d, j)
  <2>1. CASE d = Last(tr).dir
    <3>1. Passed(two, Last(two).dir, j) <=> j <= Last(two).at
      BY <1>4, <1>5, <1>7, PassedLast
    <3> QED BY <2>1, <3>1, <1>3, <1>8
  <2>2. CASE d # Last(tr).dir
    <3>1. \A k \in 1..n : tr[k].dir = d => k # n
      BY <2>2, <1>8
    <3> QED BY <2>2, <3>1, <1>4, <1>6 DEF Passed, n
  <2> QED BY <2>1, <2>2
<1>10. \A k \in 1..(n - 1) : two[k] = tr[k]
  BY <1>4, <1>5
<1>11. two[n].at = i
  BY <1>3, <1>4
<1> QED BY <1>4, <1>5, <1>6, <1>7, <1>9, <1>10, <1>11 DEF n

\* The path does not depend on where the last search is.
LEMMA TrailKept ==
  ASSUME NEW dk, NEW jb, NEW tr \in Seq(TrailStep), tr # <<>>, TrailIn(dk, jb, tr), NEW two, Len(two) = Len(tr),
         \A k \in 1..Len(tr) : two[k].dir = tr[k].dir /\ two[k].path = tr[k].path /\ two[k].old = tr[k].old,
         \A k \in 1..(Len(tr) - 1) : two[k] = tr[k]
  PROVE  TrailIn(dk, jb, two)
<1> DEFINE n == Len(tr)
<1>1. n \in Nat \ {0}
  OBVIOUS
<1> HIDE DEF n
<1>2. two[1].dir = jb.source /\ two[1].path = <<>>
  <2>1. 1 \in 1..n
    BY <1>1
  <2> QED BY <2>1 DEF TrailIn, n
<1>3. ASSUME NEW k \in 1..(n - 1)
      PROVE  /\ Descends(dk, jb, two[k].dir, two[k].at, two[k + 1].dir)
             /\ two[k + 1].path = Append(two[k].path, dk[two[k].dir][two[k].at].name) /\ two[k + 1].old = two[k].path
  <2>1. k + 1 \in 1..n
    BY <1>1
  <2>2. two[k] = tr[k] /\ two[k + 1].dir = tr[k + 1].dir /\ two[k + 1].path = tr[k + 1].path
        /\ two[k + 1].old = tr[k + 1].old
    BY <2>1 DEF n
  <2>3. /\ Descends(dk, jb, tr[k].dir, tr[k].at, tr[k + 1].dir)
        /\ tr[k + 1].path = Append(tr[k].path, dk[tr[k].dir][tr[k].at].name) /\ tr[k + 1].old = tr[k].path
    BY DEF TrailIn, n
  <2> QED BY <2>2, <2>3
<1> QED BY <1>2, <1>3 DEF TrailIn, n

\* A call is made on another directory.
LEMMA TrailPushes ==
  ASSUME NEW tr \in Seq(TrailStep), tr # <<>>, NEW f \in TrailStep
  PROVE  /\ Append(tr, f) \in Seq(TrailStep) /\ Len(Append(tr, f)) = Len(tr) + 1 /\ Append(tr, f) # <<>>
         /\ \A k \in 1..Len(tr) : Append(tr, f)[k] = tr[k]
         /\ Append(tr, f)[Len(tr) + 1] = f /\ Last(Append(tr, f)) = f
         /\ \A d, j : Passed(Append(tr, f), d, j) <=> Passed(tr, d, j) /\ (d = f.dir => j <= f.at)
<1> HIDE DEF TrailStep
<1> DEFINE two == Append(tr, f)
           n == Len(tr)
<1>1. /\ two \in Seq(TrailStep) /\ Len(two) = n + 1 /\ two # <<>> /\ n \in Nat
      /\ two[n + 1] = f /\ \A k \in 1..n : two[k] = tr[k]
  OBVIOUS
<1>2. Last(two) = f
  BY <1>1 DEF Last
<1> HIDE DEF two, n
<1>3. n + 1 \in 1..(n + 1) /\ \A k \in 1..(n + 1) : k \in 1..n \/ k = n + 1
  BY <1>1
<1>4. \A k \in 1..n : k \in 1..(n + 1)
  BY <1>1
<1>5. \A d, j : Passed(two, d, j) <=> Passed(tr, d, j) /\ (d = f.dir => j <= f.at)
  BY <1>1, <1>3, <1>4 DEF Passed, n
<1> QED BY <1>1, <1>2, <1>5 DEF two, n

\* The last call returns.
LEMMA TrailPops ==
  ASSUME NEW dk, NEW jb, NEW tr \in Seq(TrailStep), Len(tr) # 1, tr # <<>>, Apart(tr), TrailIn(dk, jb, tr)
  PROVE  /\ Front(tr) \in Seq(TrailStep) /\ Len(Front(tr)) = Len(tr) - 1 /\ Front(tr) # <<>> /\ TrailIn(dk, jb, Front(tr))
         /\ \A k \in 1..Len(Front(tr)) : k \in 1..Len(tr) /\ Front(tr)[k] = tr[k]
         /\ Last(Front(tr)).path = Last(tr).old
         /\ \A d, j : Passed(Front(tr), d, j) <=> d = Last(tr).dir \/ Passed(tr, d, j)
<1> HIDE DEF TrailStep
<1> DEFINE k0 == Len(tr) - 1
           two == Front(tr)
<1>1. k0 \in Nat \ {0} /\ Len(tr) = k0 + 1 /\ \A i \in 1..k0 : i \in 1..Len(tr) /\ 1 + i - 1 = i
  OBVIOUS
<1>2. two = SubSeq(tr, 1, k0)
  BY DEF Front
<1> HIDE DEF k0, two
<1>3. /\ two \in Seq(TrailStep) /\ Len(two) = IF 1 <= k0 THEN k0 - 1 + 1 ELSE 0
      /\ \A i \in 1..(k0 - 1 + 1) : two[i] = tr[1 + i - 1]
  BY <1>1, <1>2, SubSeqProperties
<1>4. Len(two) = k0 /\ k0 - 1 + 1 = k0 /\ two # <<>> /\ Last(two) = two[k0] /\ k0 \in 1..k0
  BY <1>1, <1>3 DEF Last
<1>5. \A i \in 1..k0 : two[i] = tr[i]
  BY <1>1, <1>3, <1>4
<1>6. TrailIn(dk, jb, two)
  <2>1. two[1].dir = jb.source /\ two[1].path = <<>>
    <3>1. 1 \in 1..k0
      BY <1>1
    <3> QED BY <3>1, <1>5 DEF TrailIn
  <2>2. ASSUME NEW k \in 1..(k0 - 1)
        PROVE  /\ Descends(dk, jb, two[k].dir, two[k].at, two[k + 1].dir)
               /\ two[k + 1].path = Append(two[k].path, dk[two[k].dir][two[k].at].name) /\ two[k + 1].old = two[k].path
    <3>1. k \in 1..k0 /\ k + 1 \in 1..k0 /\ k \in 1..(Len(tr) - 1)
      BY <1>1
    <3>2. two[k] = tr[k] /\ two[k + 1] = tr[k + 1]
      BY <3>1, <1>5
    <3> QED BY <3>1, <3>2 DEF TrailIn
  <2> QED BY <2>1, <2>2, <1>4 DEF TrailIn
<1>7. Last(two).path = Last(tr).old
  <2>1. k0 \in 1..(Len(tr) - 1) /\ k0 + 1 = Len(tr)
    BY <1>1
  <2>2. tr[k0 + 1].old = tr[k0].path
    BY <2>1 DEF TrailIn
  <2>3. Last(tr) = tr[k0 + 1]
    BY <1>1 DEF Last
  <2> QED BY <2>2, <2>3, <1>4, <1>5
<1>8. Last(tr) = tr[k0 + 1]
  BY <1>1 DEF Last
<1>9. ASSUME NEW d, NEW j PROVE Passed(two, d, j) <=> d = Last(tr).dir \/ Passed(tr, d, j)
  <2>1. \A k \in 1..Len(tr) : k \in 1..k0 \/ k = k0 + 1
    BY <1>1
  <2>2. k0 + 1 \in 1..Len(tr) /\ \A k \in 1..k0 : k \in 1..Len(tr) /\ k # k0 + 1
    BY <1>1
  <2>3. CASE d = Last(tr).dir
    <3>1. \A k \in 1..k0 : tr[k].dir # d
      BY <2>2, <2>3, <1>8 DEF Apart
    <3> QED BY <2>3, <3>1, <1>4, <1>5 DEF Passed
  <2>4. CASE d # Last(tr).dir
    <3>1. \A k \in 1..Len(tr) : tr[k].dir = d => k \in 1..k0
      BY <2>1, <2>4, <1>8
    <3> QED BY <2>2, <2>4, <3>1, <1>4, <1>5 DEF Passed
  <2> QED BY <2>3, <2>4
<1> QED BY <1>1, <1>3, <1>4, <1>5, <1>6, <1>7, <1>9 DEF two, k0

-----------------------------------------------------------------------------
(* What has been seen.                                                      *)

\* What the searches have passed decides which files are compared.
LEMMA FilesSame ==
  ASSUME NEW dk, NEW jb, NEW tr, NEW two, NEW D,
         \A p \in D : \A i : ToCompare(dk, jb, p[1], i) => (Passed(two, p[1], i) <=> Passed(tr, p[1], i))
  PROVE  Files(dk, jb, two, D) = Files(dk, jb, tr, D)
<1>1. ASSUME NEW c PROVE c \in Files(dk, jb, two, D) <=> c \in Files(dk, jb, tr, D)
  BY FilesAre
<1> QED BY <1>1

\* One file more is passed.
LEMMA FilesMore ==
  ASSUME NEW dk, WellFormed(dk), NEW jb, NEW tr, NEW two, NEW D \in SUBSET Places, NEW p0 \in D, NEW i0,
         \A p, q \in D : p[1] = q[1] => p = q,
         ToCompare(dk, jb, p0[1], i0), ~Passed(tr, p0[1], i0), Passed(two, p0[1], i0),
         \A p \in D : \A i : ToCompare(dk, jb, p[1], i) /\ (p[1] # p0[1] \/ i # i0) =>
             (Passed(two, p[1], i) <=> Passed(tr, p[1], i))
  PROVE  /\ Files(dk, jb, two, D) = Files(dk, jb, tr, D) \union {Pairing(jb, p0, dk[p0[1]][i0].name)}
         /\ Pairing(jb, p0, dk[p0[1]][i0].name) \notin Files(dk, jb, tr, D)
<1> DEFINE c0 == Pairing(jb, p0, dk[p0[1]][i0].name)
<1>1. ASSUME NEW p \in D, NEW i, ToCompare(dk, jb, p[1], i), Pairing(jb, p, dk[p[1]][i].name) = c0
      PROVE  p = p0 /\ i = i0
  <2>1. p[1] = p0[1] /\ dk[p[1]][i].name = dk[p0[1]][i0].name
    BY <1>1 DEF Pairing
  <2>2. p = p0 /\ p0[1] \in Dirs
    BY <2>1 DEF Places
  <2>3. /\ i \in 1..Len(dk[p0[1]]) /\ i0 \in 1..Len(dk[p0[1]])
        /\ dk[p0[1]][i].attr # "free" /\ dk[p0[1]][i0].attr # "free"
    BY <1>1, <2>2 DEF ToCompare, Shown, FileAttrs, DirAttrs
  <2> QED BY <2>1, <2>2, <2>3 DEF WellFormed
<1>2. c0 \notin Files(dk, jb, tr, D)
  <2> SUFFICES ASSUME c0 \in Files(dk, jb, tr, D) PROVE FALSE
    OBVIOUS
  <2> HIDE DEF c0
  <2>1. PICK p \in D : \E i : ToCompare(dk, jb, p[1], i) /\ Passed(tr, p[1], i) /\ c0 = Pairing(jb, p, dk[p[1]][i].name)
    BY FilesAre
  <2> QED BY <2>1, <1>1
<1>3. ASSUME NEW c PROVE c \in Files(dk, jb, two, D) <=> c \in Files(dk, jb, tr, D) \union {c0}
  <2>1. ASSUME c \in Files(dk, jb, two, D) PROVE c \in Files(dk, jb, tr, D) \union {c0}
    <3>1. PICK p \in D : \E i : ToCompare(dk, jb, p[1], i) /\ Passed(two, p[1], i) /\ c = Pairing(jb, p, dk[p[1]][i].name)
      BY <2>1, FilesAre
    <3>2. PICK i : ToCompare(dk, jb, p[1], i) /\ Passed(two, p[1], i) /\ c = Pairing(jb, p, dk[p[1]][i].name)
      BY <3>1
    <3>3. CASE p[1] = p0[1] /\ i = i0
      BY <3>2, <3>3
    <3>4. CASE p[1] # p0[1] \/ i # i0
      <4>1. Passed(tr, p[1], i)
        BY <3>2, <3>4
      <4> HIDE DEF c0
      <4> QED BY <3>2, <4>1, FilesAre
    <3> QED BY <3>3, <3>4
  <2>2. c0 \in Files(dk, jb, two, D)
    BY FilesAre
  <2>3. ASSUME c \in Files(dk, jb, tr, D) PROVE c \in Files(dk, jb, two, D)
    <3>1. PICK p \in D : \E i : ToCompare(dk, jb, p[1], i) /\ Passed(tr, p[1], i) /\ c = Pairing(jb, p, dk[p[1]][i].name)
      BY <2>3, FilesAre
    <3>2. PICK i : ToCompare(dk, jb, p[1], i) /\ Passed(tr, p[1], i) /\ c = Pairing(jb, p, dk[p[1]][i].name)
      BY <3>1
    <3>3. p[1] # p0[1] \/ i # i0
      BY <3>2
    <3>4. Passed(two, p[1], i)
      BY <3>2, <3>3
    <3> HIDE DEF c0
    <3> QED BY <3>2, <3>4, FilesAre
  <2> HIDE DEF c0
  <2> QED BY <2>1, <2>2, <2>3
<1> HIDE DEF c0
<1>4. Files(dk, jb, two, D) = Files(dk, jb, tr, D) \union {c0}
  BY <1>3
<1> QED BY <1>2, <1>4 DEF c0

\* No other subdirectory is passed.
LEMMA ScanSame ==
  ASSUME NEW dk, NEW jb, NEW tr, NEW two, NEW D, ScanIn(dk, jb, tr, D),
         \A p \in D : \A i, e : Descends(dk, jb, p[1], i, e) => (Passed(two, p[1], i) <=> Passed(tr, p[1], i))
  PROVE  ScanIn(dk, jb, two, D)
<1>1. Start(jb) \in D /\ \A p, q \in D : p[1] = q[1] => p = q
  BY DEF ScanIn
<1>2. ASSUME NEW p \in D, NEW e \in Dirs, NEW i \in 1..Len(dk[p[1]]), Descends(dk, jb, p[1], i, e), Passed(two, p[1], i)
      PROVE  Under(dk, p, i) \in D
  BY <1>2 DEF ScanIn
<1>3. ASSUME NEW q \in D, q # Start(jb)
      PROVE  \E p \in D : \E i \in 1..Len(dk[p[1]]) : Descends(dk, jb, p[1], i, q[1]) /\ Passed(two, p[1], i)
  <2>1. PICK p \in D : \E i \in 1..Len(dk[p[1]]) : Descends(dk, jb, p[1], i, q[1]) /\ Passed(tr, p[1], i)
    BY <1>3 DEF ScanIn
  <2> QED BY <2>1
<1> QED BY <1>1, <1>2, <1>3 DEF ScanIn

\* A directory scandir goes down to has not been read before.
LEMMA ScanFresh ==
  ASSUME NEW dk, WellFormed(dk), IsTree(dk), NEW jb, NEW tr \in Seq(TrailStep), tr # <<>>, TrailIn(dk, jb, tr),
         NEW D \in SUBSET Places, ScanIn(dk, jb, tr, D)
  PROVE  \A e \in Dirs : \A i : Descends(dk, jb, Last(tr).dir, i, e) /\ ~Passed(tr, Last(tr).dir, i) =>
             \A q \in D : q[1] # e
<1> SUFFICES ASSUME NEW e \in Dirs, NEW i, Descends(dk, jb, Last(tr).dir, i, e), ~Passed(tr, Last(tr).dir, i)
             PROVE  \A q \in D : q[1] # e
  OBVIOUS
<1>1. /\ Len(tr) \in Nat \ {0} /\ \A k \in 1..Len(tr) : tr[k] \in TrailStep
      /\ \A d \in Dirs : \A j : Lists(dk, tr[Len(tr)].dir, j, d) => \A k \in 1..Len(tr) : tr[k].dir # d
  BY TrailApart
<1>2. Last(tr) = tr[Len(tr)] /\ Lists(dk, Last(tr).dir, i, e) /\ 1 \in 1..Len(tr) /\ Len(tr) \in 1..Len(tr)
  BY <1>1 DEF Last, Descends
<1>3. Start(jb)[1] # e
  <2>1. tr[1].dir = jb.source
    BY DEF TrailIn
  <2> QED BY <1>1, <1>2, <2>1 DEF Start
<1>4. ASSUME NEW q \in D, q[1] = e PROVE FALSE
  <2>1. PICK p \in D : \E j \in 1..Len(dk[p[1]]) : Descends(dk, jb, p[1], j, q[1]) /\ Passed(tr, p[1], j)
    BY <1>3, <1>4 DEF ScanIn
  <2>2. PICK j : Descends(dk, jb, p[1], j, e) /\ Passed(tr, p[1], j)
    BY <2>1, <1>4
  <2>3. Lists(dk, p[1], j, e)
    BY <2>2 DEF Descends
  <2>4. p[1] \in Dirs /\ Last(tr).dir \in Dirs
    BY <1>1, <1>2 DEF Places, TrailStep
  <2>5. p[1] = Last(tr).dir /\ j = i
    BY <1>2, <2>3, <2>4, TreeFacts
  <2> QED BY <2>2, <2>5
<1> QED BY <1>4

\* A place below a place of the tree is a place.
UndersPlaced(dk) == \A p \in Places : \A j, x : Lists(dk, p[1], j, x) => Under(dk, p, j) \in Places /\ Under(dk, p, j)[1] = x

\* See UnderType.
LEMMA UndersArePlaced == \A dk : WellFormed(dk) => UndersPlaced(dk)
  BY UnderType DEF UndersPlaced

\* The comparisons at the places of D are as far as they were; at place q there are none.
PassSame(dk, jb, tr, two, D) ==
    \A p \in D : \A j : ToCompare(dk, jb, p[1], j) => (Passed(two, p[1], j) <=> Passed(tr, p[1], j))
PassNone(dk, jb, two, q) == \A j : ToCompare(dk, jb, q[1], j) => ~Passed(two, q[1], j)

\* Then a new place adds no comparison.
LEMMA FilesNoMore ==
  ASSUME NEW dk, NEW jb, NEW tr, NEW two, NEW D, NEW q, PassSame(dk, jb, tr, two, D), PassNone(dk, jb, two, q)
  PROVE  Files(dk, jb, two, D \union {q}) = Files(dk, jb, tr, D)
<1>1. ASSUME NEW c PROVE c \in Files(dk, jb, two, D \union {q}) <=> c \in Files(dk, jb, tr, D)
  <2>1. c \in Files(dk, jb, two, D \union {q}) <=> \E p \in D \union {q} : \E j :
           ToCompare(dk, jb, p[1], j) /\ Passed(two, p[1], j) /\ c = Pairing(jb, p, dk[p[1]][j].name)
    BY FilesAre
  <2>2. c \in Files(dk, jb, tr, D) <=> \E p \in D : \E j :
           ToCompare(dk, jb, p[1], j) /\ Passed(tr, p[1], j) /\ c = Pairing(jb, p, dk[p[1]][j].name)
    BY FilesAre
  <2> QED BY <2>1, <2>2 DEF PassSame, PassNone
<1> QED BY <1>1

\* What is passed when a call below the last one begins.
LEMMA PassedBelow ==
  ASSUME NEW tr \in Seq(TrailStep), tr # <<>>, Apart(tr), NEW i \in Nat, NEW f \in TrailStep, f.at = 0,
         NEW two, two = Append(Moved(tr, i), f)
  PROVE  \A d, j : Passed(two, d, j) <=>
            (IF d = Last(tr).dir THEN j <= i ELSE Passed(tr, d, j)) /\ (d = f.dir => j <= 0)
<1> DEFINE at == Moved(tr, i)
<1>1. /\ at \in Seq(TrailStep) /\ at # <<>>
      /\ \A d, j : Passed(at, d, j) <=> IF d = Last(tr).dir THEN j <= i ELSE Passed(tr, d, j)
  BY TrailMoves
<1> HIDE DEF at
<1>3. \A d, j : Passed(two, d, j) <=> Passed(at, d, j) /\ (d = f.dir => j <= 0)
  BY <1>1, TrailPushes DEF at
<1> QED BY <1>1, <1>3

\* The last call has passed all that is shown before slot i.
Reaches(dk, jb, tr, i) == \A j : Shown(dk, jb, Last(tr).dir, j) => j \in Nat /\ (j < i => j <= Last(tr).at)

\* scandir goes down from place p0 of the last call, by slot i, to directory e.
Enters(dk, jb, tr, D, p0, i, e, f) ==
    /\ WellFormed(dk) /\ IsTree(dk) /\ tr \in Seq(TrailStep) /\ tr # <<>> /\ TrailIn(dk, jb, tr)
    /\ D \in SUBSET Places /\ ScanIn(dk, jb, tr, D) /\ p0 \in D /\ p0[1] = Last(tr).dir
    /\ i \in Nat /\ e \in Dirs /\ Descends(dk, jb, Last(tr).dir, i, e) /\ i > Last(tr).at /\ Reaches(dk, jb, tr, i)
    /\ f \in TrailStep /\ f.dir = e /\ f.at = 0

\* Place new is read too, where nothing has been compared.
Entered(dk, jb, tr, two, D, new) ==
    /\ new \notin D /\ ScanIn(dk, jb, two, D \union {new})
    /\ Files(dk, jb, two, D \union {new}) = Files(dk, jb, tr, D)

\* See Enters and Entered.
LEMMA ScanEnters ==
  ASSUME NEW dk, NEW jb, NEW tr, NEW D, NEW p0, NEW i, NEW e, NEW f, Enters(dk, jb, tr, D, p0, i, e, f),
         NEW two, two = Append(Moved(tr, i), f), NEW new, new = Under(dk, p0, i)
  PROVE  Entered(dk, jb, tr, two, D, new)
<1>0. /\ WellFormed(dk) /\ IsTree(dk) /\ tr \in Seq(TrailStep) /\ tr # <<>> /\ TrailIn(dk, jb, tr)
      /\ D \in SUBSET Places /\ ScanIn(dk, jb, tr, D) /\ p0 \in D /\ p0[1] = Last(tr).dir
      /\ i \in Nat /\ e \in Dirs /\ Descends(dk, jb, Last(tr).dir, i, e) /\ i > Last(tr).at /\ Reaches(dk, jb, tr, i)
      /\ f \in TrailStep /\ f.dir = e /\ f.at = 0
  BY DEF Enters
<1> USE <1>0
<1> DEFINE d0 == Last(tr).dir
           D2 == D \union {new}
<1>1. Apart(tr)
  BY TrailApart DEF Apart
<1>2. \A j : Passed(tr, d0, j) <=> j <= Last(tr).at
  BY <1>1, PassedLast
<1>3. Last(tr).at \in Nat
  <2>1. Last(tr) \in TrailStep
    BY <1>1, PassedLast
  <2> QED BY <2>1 DEF TrailStep
<1>4. ~Passed(tr, d0, i)
  BY <1>2, <1>3
<1>6. \A d, j : Passed(two, d, j) <=> (IF d = d0 THEN j <= i ELSE Passed(tr, d, j)) /\ (d = e => j <= 0)
  BY <1>1, PassedBelow
<1>7. Lists(dk, p0[1], i, e) /\ Lists(dk, d0, i, e) /\ p0 \in Places
  BY DEF Descends
<1>18. UndersPlaced(dk)
  BY UndersArePlaced
<1>8. new \in Places /\ new[1] = e
  BY <1>7, <1>18 DEF UndersPlaced
<1>9. \A q \in D : q[1] # e
  <2>1. \A x \in Dirs : \A j : Descends(dk, jb, Last(tr).dir, j, x) /\ ~Passed(tr, Last(tr).dir, j) =>
             \A q \in D : q[1] # x
    BY ScanFresh
  <2> QED BY <1>4, <2>1
<1>10. \A j : Passed(two, e, j) => j <= 0
  BY <1>6
<1>11. ASSUME NEW p \in D, NEW j, p[1] # d0 \/ j # i, Shown(dk, jb, p[1], j)
       PROVE  Passed(two, p[1], j) <=> Passed(tr, p[1], j)
  <2>1. p[1] # e
    BY <1>9
  <2>2. CASE p[1] # d0
    BY <2>1, <2>2, <1>6
  <2>3. CASE p[1] = d0
    <3>1. j \in Nat /\ j # i /\ (j < i => j <= Last(tr).at)
      BY <2>3, <1>11 DEF Reaches
    <3>2. j <= i <=> j <= Last(tr).at
      BY <3>1, <1>3
    <3> QED BY <2>1, <2>3, <3>2, <1>2, <1>6
  <2> QED BY <2>2, <2>3
<1>12. ASSUME NEW p \in Places, NEW j, NEW x, Descends(dk, jb, p[1], j, x)
       PROVE  /\ Shown(dk, jb, p[1], j) /\ ~ToCompare(dk, jb, p[1], j)
              /\ j \in Nat \ {0} /\ x \in Dirs /\ j \in 1..Len(dk[p[1]])
  <2>1. Lists(dk, p[1], j, x) /\ dk[p[1]][j].name \in jb.flag
    BY <1>12 DEF Descends
  <2>2. j \in Nat \ {0} /\ x \in Dirs /\ j \in 1..Len(dk[p[1]])
    BY <2>1, UnderType
  <2>3. dk[p[1]][j].attr = "dir"
    BY <2>1 DEF Lists
  <2> QED BY <2>1, <2>2, <2>3 DEF Shown, ToCompare, DirAttrs
<1>13. Passed(two, d0, i)
  <2>1. d0 # e /\ i <= i
    BY <1>9
  <2> QED BY <2>1, <1>6
<1>14. ScanIn(dk, jb, two, D2)
  <2>1. Start(jb) \in D2
    BY DEF ScanIn
  <2>2. \A p, q \in D2 : p[1] = q[1] => p = q
    <3>1. \A p, q \in D : p[1] = q[1] => p = q
      BY DEF ScanIn
    <3> QED BY <3>1, <1>8, <1>9
  <2>3. ASSUME NEW p \in D2, NEW x \in Dirs, NEW j \in 1..Len(dk[p[1]]), Descends(dk, jb, p[1], j, x), Passed(two, p[1], j)
        PROVE  Under(dk, p, j) \in D2
    <3>1. p \in Places
      BY <1>8
    <3>2. Shown(dk, jb, p[1], j) /\ j \in Nat \ {0}
      BY <3>1, <2>3, <1>12
    <3>3. CASE p = new
      <4>1. j <= 0
        BY <2>3, <3>3, <1>8, <1>10
      <4> QED BY <3>2, <4>1
    <3>4. CASE p \in D /\ (p[1] # d0 \/ j # i)
      <4>1. Passed(tr, p[1], j)
        BY <2>3, <3>2, <3>4, <1>11
      <4>2. Under(dk, p, j) \in D
        BY <2>3, <3>4, <4>1 DEF ScanIn
      <4> QED BY <4>2
    <3>5. CASE p \in D /\ p[1] = d0 /\ j = i
      <4>1. p = p0
        BY <3>5 DEF ScanIn
      <4> QED BY <3>5, <4>1
    <3> QED BY <3>3, <3>4, <3>5
  <2>4. ASSUME NEW q \in D2, q # Start(jb)
        PROVE  \E p \in D2 : \E j \in 1..Len(dk[p[1]]) : Descends(dk, jb, p[1], j, q[1]) /\ Passed(two, p[1], j)
    <3>1. CASE q = new
      <4>1. Descends(dk, jb, p0[1], i, q[1]) /\ Passed(two, p0[1], i)
        BY <3>1, <1>8, <1>13
      <4>2. i \in 1..Len(dk[p0[1]])
        BY <4>1, <1>7 DEF Lists
      <4> QED BY <4>1, <4>2
    <3>2. CASE q \in D
      <4>1. PICK p \in D : \E j \in 1..Len(dk[p[1]]) : Descends(dk, jb, p[1], j, q[1]) /\ Passed(tr, p[1], j)
        BY <2>4, <3>2 DEF ScanIn
      <4>2. PICK j \in 1..Len(dk[p[1]]) : Descends(dk, jb, p[1], j, q[1]) /\ Passed(tr, p[1], j)
        BY <4>1
      <4>3. p[1] # d0 \/ j # i
        BY <4>2, <1>4
      <4>4. Shown(dk, jb, p[1], j)
        <5>1. p \in Places
          OBVIOUS
        <5> QED BY <5>1, <4>2, <1>12
      <4>5. Passed(two, p[1], j)
        BY <4>2, <4>3, <4>4, <1>11
      <4> QED BY <4>2, <4>5
    <3> QED BY <3>1, <3>2
  <2> HIDE DEF D2
  <2> QED BY <2>1, <2>2, <2>3, <2>4 DEF ScanIn
<1> HIDE DEF D2
<1>15. PassSame(dk, jb, tr, two, D)
  <2>1. ~ToCompare(dk, jb, d0, i)
    BY <1>7, <1>12
  <2> SUFFICES ASSUME NEW p \in D, NEW j, ToCompare(dk, jb, p[1], j) PROVE Passed(two, p[1], j) <=> Passed(tr, p[1], j)
    BY DEF PassSame
  <2>2. Shown(dk, jb, p[1], j) /\ (p[1] # d0 \/ j # i)
    BY <2>1 DEF ToCompare
  <2> QED BY <2>2, <1>11
<1>19. PassNone(dk, jb, two, new)
  <2> SUFFICES ASSUME NEW j, ToCompare(dk, jb, new[1], j), Passed(two, new[1], j) PROVE FALSE
    BY DEF PassNone
  <2>1. j <= 0
    BY <1>8, <1>10
  <2>2. j \in 1..Len(dk[e]) /\ Len(dk[e]) \in Nat
    BY <1>8, SlotFound DEF ToCompare, Shown
  <2> QED BY <2>1, <2>2
<1>16. new \notin D
  BY <1>8, <1>9
<1>17. Files(dk, jb, two, D2) = Files(dk, jb, tr, D)
  <2>1. Files(dk, jb, two, D \union {new}) = Files(dk, jb, tr, D)
    BY <1>15, <1>19, FilesNoMore
  <2> QED BY <2>1 DEF D2
<1> QED BY <1>14, <1>16, <1>17 DEF D2, Entered

-----------------------------------------------------------------------------
(* What a scan knows.                                                       *)

\* Where a path leads from a directory.
Follow == [x \in (Dirs \union {NoDir}) \X Seq(Names) |-> Resolve(x[1], x[2])]

\* The places where the calls of scandir are.
PlacedIn(tr, to, target, D) == \A k \in 1..Len(tr) : <<tr[k].dir, to[<<target, tr[k].path>>]>> \in D

\* D is in every set that is closed.
Within(dk, jb, D) == \A C : ClosedIn(dk, jb, C) => D \subseteq C

JobType(jb) == jb.source \in Dirs /\ jb.target \in Dirs /\ (jb.single => jb.only \in Names)

\* The places read so far, D, and the statistics of the comparisons made there.
Walked(dk, jb, to, tr, D) ==
    D \in SUBSET Places /\ Within(dk, jb, D) /\ ScanIn(dk, jb, tr, D) /\ PlacedIn(tr, to, jb.target, D)
Told(dk, jb, vs, tr, cnt, D) ==
    /\ cnt.dirs + 1 = Cardinality(D)
    /\ IsFiniteSet(Files(dk, jb, tr, D)) /\ Tallied(cnt, Files(dk, jb, tr, D), vs, jb.opt)

Scanning ==
    /\ JobType(job) /\ TrailIn(disk, job, trail) /\ logged = Last(trail).path
    /\ \E D : Walked(disk, job, Follow, trail, D) /\ Told(disk, job, Verdicts, trail, Due, D)

\* What is known when XC has ended by itself.
Finished ==
    /\ JobType(job) /\ IsFiniteSet(Compared) /\ CountsTheTrees
    /\ \A p, q \in Mirrored : p[1] = q[1] => p = q
XcDone == AtPrompt("xc") /\ xcEnding = "normal" => Finished

XcInv ==
    /\ count \in Count
    /\ xcPhase \in {"scan", "paused"} => Scanning
    /\ XcDone

\* Sets of places are finite.
LEMMA PlacesFinite == IsFiniteSet(Places) /\ \A D \in SUBSET Places : IsFiniteSet(D) /\ Cardinality(D) \in Nat
<1>1. IsFiniteSet(Dirs \union {NoDir})
  BY DosAssumption, FS_AddElement
<1>2. IsFiniteSet(Places)
  BY <1>1, DosAssumption, FS_Product DEF Places
<1> QED BY <1>2, FS_Subset, FS_CardinalityType

\* What is compared is a pair of files.
LEMMA PairingType ==
  ASSUME NEW dk, WellFormed(dk), NEW jb, JobType(jb), NEW p \in Places, NEW i, ToCompare(dk, jb, p[1], i)
  PROVE  Pairing(jb, p, dk[p[1]][i].name) \in Pairs
<1>1. p[1] \in Dirs /\ p[2] \in Dirs \union {NoDir}
  BY DEF Places
<1>2. dk[p[1]][i] \in Slot
  BY <1>1, SlotFound DEF ToCompare, Shown
<1>3. dk[p[1]][i].name \in Names
  BY <1>2 DEF Slot
<1> QED BY <1>1, <1>3 DEF Pairing, Pairs, JobType

\* What the disk and the job do not change.
LEMMA FollowSame == ASSUME disk' = disk PROVE Follow' = Follow
BY DEF Follow, Resolve, FoldLeft, MapThenFoldSet

\* See Verdicts.
LEMMA VerdictsSame == ASSUME disk' = disk, job' = job PROVE Verdicts' = Verdicts
BY DEF Verdicts, Compare

\* See Finished.
LEMMA FinishedSame == ASSUME UNCHANGED <<disk, job, count>>, Finished PROVE Finished'
<1>1. Mirrored' = Mirrored
  BY DEF Mirrored
<1>2. Compared' = Compared
  BY <1>1 DEF Compared
<1>3. \A v : Found(v)' = Found(v)
  BY <1>2 DEF Found, Compare
<1> QED BY <1>1, <1>2, <1>3 DEF CountsTheTrees, Finished

\* The entries scandir looks for.
LEMMA ShownIs ==
  ASSUME NEW dk, NEW jb, NEW d, NEW i
  PROVE  /\ ToCompare(dk, jb, d, i) => Shown(dk, jb, d, i)
         /\ \A e : Descends(dk, jb, d, i, e) => Shown(dk, jb, d, i) /\ i \in 1..Len(dk[d]) /\ ~ToCompare(dk, jb, d, i)
BY DEF ToCompare, Shown, Descends, Lists, DirAttrs

\* When a search goes on, the entry it finds is all that it passes.
LEMMA EntryPasses ==
  ASSUME TypeInv, IsTree(disk), xcPhase = "scan", TrailIn(disk, job, trail), Entry # 0
  PROVE  /\ trail \in Seq(TrailStep) /\ trail # <<>> /\ Apart(trail) /\ Entry \in Nat /\ last.dir \in Dirs
         /\ Passed(At(Entry), last.dir, Entry) /\ ~Passed(trail, last.dir, Entry)
         /\ \A d, j : Shown(disk, job, d, j) /\ (d # last.dir \/ j # Entry) =>
               (Passed(At(Entry), d, j) <=> Passed(trail, d, j))
<1>1. trail \in Seq(TrailStep) /\ trail # <<>> /\ WellFormed(disk)
  BY DEF TypeInv, DiskType, XcType
<1>2. Apart(trail)
  BY <1>1, TrailApart DEF Apart
<1> DEFINE i == Entry
<1>3. /\ last \in TrailStep /\ i \in Nat /\ i # 0 /\ Shown(disk, job, last.dir, i) /\ i > last.at
      /\ \A j : Shown(disk, job, last.dir, j) => j \in Nat /\ j # 0 /\ (j > last.at => i <= j)
  BY EntryIs
<1>4. last.dir \in Dirs /\ last.at \in Nat
  BY <1>3 DEF TrailStep
<1>5. \A j : Passed(trail, last.dir, j) <=> j <= last.at
  BY <1>1, <1>2, PassedLast DEF last
<1>6. \A d, j : Passed(At(i), d, j) <=> IF d = last.dir THEN j <= i ELSE Passed(trail, d, j)
  BY <1>1, <1>2, <1>3, TrailMoves DEF last, At, Moved
<1> HIDE DEF i
<1>7. Passed(At(i), last.dir, i) /\ ~Passed(trail, last.dir, i)
  BY <1>3, <1>4, <1>5, <1>6
<1>8. ASSUME NEW d, NEW j, Shown(disk, job, d, j), d # last.dir \/ j # i
      PROVE  Passed(At(i), d, j) <=> Passed(trail, d, j)
  <2>1. CASE d # last.dir
    BY <1>6, <2>1
  <2>2. CASE d = last.dir
    <3>1. j \in Nat /\ (j > last.at => i <= j) /\ j # i
      BY <1>3, <1>8, <2>2
    <3>2. j <= i <=> j <= last.at
      BY <3>1, <1>3, <1>4
    <3> QED BY <2>2, <3>2, <1>5, <1>6
  <2> QED BY <2>1, <2>2
<1> QED BY <1>1, <1>2, <1>3, <1>4, <1>7, <1>8 DEF i

-----------------------------------------------------------------------------
(* What a step of the scan adds.                                            *)

\* The last call, and its place.
LEMMA LastPlaced ==
  ASSUME TypeInv, IsTree(disk), TrailIn(disk, job, trail), xcPhase \in {"scan", "paused"}, NEW D, NEW to,
         PlacedIn(trail, to, job.target, D)
  PROVE  /\ WellFormed(disk) /\ trail \in Seq(TrailStep) /\ trail # <<>> /\ Apart(trail)
         /\ last = trail[Len(trail)] /\ last \in TrailStep /\ Len(trail) \in Nat \ {0} /\ Len(trail) \in 1..Len(trail)
         /\ <<last.dir, to[<<job.target, last.path>>]>> \in D
<1>1. WellFormed(disk) /\ trail \in Seq(TrailStep) /\ trail # <<>>
  BY DEF TypeInv, DiskType, XcType
<1>2. Apart(trail)
  BY <1>1, TrailApart DEF Apart
<1>3. last = trail[Len(trail)] /\ last \in TrailStep
  BY <1>1, <1>2, PassedLast DEF last
<1>4. Len(trail) \in Nat \ {0}
  BY <1>1
<1>5. Len(trail) \in 1..Len(trail)
  BY <1>4
<1> QED BY <1>1, <1>2, <1>3, <1>4, <1>5 DEF PlacedIn

\* A search goes on in its directory.
LEMMA ScanGoesOn ==
  ASSUME TypeInv, IsTree(disk), xcPhase = "scan", Entry # 0, TrailIn(disk, job, trail), trail' = At(Entry)
  PROVE  /\ TrailIn(disk, job, trail') /\ Last(trail').path = last.path
         /\ \A D, to : PlacedIn(trail, to, job.target, D) => PlacedIn(trail', to, job.target, D)
<1>1. trail \in Seq(TrailStep) /\ trail # <<>> /\ Apart(trail) /\ Entry \in Nat
  BY EntryPasses
<1> DEFINE two == At(Entry)
<1>2. /\ two \in Seq(TrailStep) /\ Len(two) = Len(trail) /\ two # <<>>
      /\ \A k \in 1..Len(trail) : two[k].dir = trail[k].dir /\ two[k].path = trail[k].path /\ two[k].old = trail[k].old
      /\ \A k \in 1..(Len(trail) - 1) : two[k] = trail[k]
  BY <1>1, TrailMoves DEF At, Moved
<1> HIDE DEF two
<1>3. TrailIn(disk, job, two)
  BY <1>1, <1>2, TrailKept
<1>4. Len(trail) \in 1..Len(trail)
  BY <1>1
<1>5. Last(two).path = last.path
  BY <1>2, <1>4 DEF last, Last
<1>6. \A D, to : PlacedIn(trail, to, job.target, D) => PlacedIn(two, to, job.target, D)
  BY <1>2 DEF PlacedIn
<1> QED BY <1>3, <1>5, <1>6 DEF two

\* A subdirectory that scandir does not go down to.
LEMMA XcSkips ==
  ASSUME TypeInv, IsTree(disk), Scanning, XcSubdir, "scandir" \notin job.opt
  PROVE  Scanning' /\ count' = count
<1>1. /\ xcPhase = "scan" /\ xcPhase' = "scan" /\ Entry # 0 /\ trail' = At(Entry) /\ disk[last.dir][Entry].attr = "dir"
      /\ UNCHANGED <<disk, job, logged, count, verdict>>
  BY DEF XcSubdir
<1>2. JobType(job) /\ TrailIn(disk, job, trail) /\ logged = last.path
  BY DEF Scanning, last
<1>3. PICK D : Walked(disk, job, Follow, trail, D) /\ Told(disk, job, Verdicts, trail, Due, D)
  BY DEF Scanning
<1>4. Follow' = Follow /\ Verdicts' = Verdicts /\ Due = count /\ Due' = count
  BY <1>1, FollowSame, VerdictsSame DEF Due
<1>5. /\ TrailIn(disk, job, trail') /\ Last(trail').path = last.path
      /\ PlacedIn(trail, Follow, job.target, D) => PlacedIn(trail', Follow, job.target, D)
  BY <1>1, <1>2, ScanGoesOn
<1>6. \A d, j : Shown(disk, job, d, j) /\ (d # last.dir \/ j # Entry) =>
               (Passed(At(Entry), d, j) <=> Passed(trail, d, j))
  BY <1>1, <1>2, EntryPasses
<1>7. Files(disk, job, trail', D) = Files(disk, job, trail, D)
  <2>1. ~ToCompare(disk, job, last.dir, Entry)
    BY <1>1 DEF ToCompare
  <2>2. \A p \in D : \A j : ToCompare(disk, job, p[1], j) => (Passed(trail', p[1], j) <=> Passed(trail, p[1], j))
    BY <2>1, <1>1, <1>6, ShownIs
  <2> QED BY <2>2, FilesSame
<1>8. ScanIn(disk, job, trail', D)
  <2>1. \A d, j, e : ~Descends(disk, job, d, j, e)
    BY DEF Descends
  <2>2. ScanIn(disk, job, trail, D)
    BY <1>3 DEF Walked
  <2> QED BY <2>1, <2>2, ScanSame
<1>9. Walked(disk, job, Follow, trail', D) /\ Told(disk, job, Verdicts, trail', count, D)
  BY <1>3, <1>4, <1>5, <1>7, <1>8 DEF Walked, Told
<1> QED BY <1>1, <1>2, <1>4, <1>5, <1>9 DEF Scanning

\* A file is compared.
LEMMA XcCompares ==
  ASSUME TypeInv, IsTree(disk), Scanning, XcFile, count \in Count
  PROVE  Scanning' /\ count' \in Count
<1> DEFINE slot == disk[last.dir][Entry]
           i == Entry
<1>1. /\ xcPhase = "scan" /\ i # 0 /\ trail' = At(i) /\ slot.attr # "dir"
      /\ UNCHANGED <<disk, job, logged>>
  BY DEF XcFile
<1>2. JobType(job) /\ TrailIn(disk, job, trail) /\ logged = last.path
  BY DEF Scanning, last
<1>3. PICK D : Walked(disk, job, Follow, trail, D) /\ Told(disk, job, Verdicts, trail, Due, D)
  BY DEF Scanning
<1>4. Follow' = Follow /\ Verdicts' = Verdicts /\ Due = count
  BY <1>1, FollowSame, VerdictsSame DEF Due
<1>5. /\ TrailIn(disk, job, trail') /\ Last(trail').path = last.path
      /\ PlacedIn(trail, Follow, job.target, D) => PlacedIn(trail', Follow, job.target, D)
  BY <1>1, <1>2, ScanGoesOn
<1>6. /\ Passed(trail', last.dir, i) /\ ~Passed(trail, last.dir, i)
      /\ \A d, j : Shown(disk, job, d, j) /\ (d # last.dir \/ j # i) =>
               (Passed(trail', d, j) <=> Passed(trail, d, j))
  BY <1>1, <1>2, EntryPasses
<1> DEFINE p0 == <<last.dir, Follow[<<job.target, last.path>>]>>
           c == Pairing(job, p0, slot.name)
<1>7. /\ WellFormed(disk) /\ last \in TrailStep /\ p0 \in D
  BY <1>1, <1>2, <1>3, LastPlaced DEF Walked
<1>8. Shown(disk, job, last.dir, i) /\ ToCompare(disk, job, last.dir, i)
  <2>1. Shown(disk, job, last.dir, i)
    BY <1>1, EntryIs
  <2> QED BY <2>1, <1>1 DEF ToCompare
<1>9. /\ D \in SUBSET Places /\ ScanIn(disk, job, trail, D) /\ \A p, q \in D : p[1] = q[1] => p = q
  BY <1>3 DEF Walked, ScanIn
<1>10. /\ Files(disk, job, trail', D) = Files(disk, job, trail, D) \union {c} /\ c \notin Files(disk, job, trail, D)
  <2> HIDE DEF p0, i
  <2>1. p0[1] = last.dir
    BY DEF p0
  <2>2. \A p \in D : \A j : ToCompare(disk, job, p[1], j) /\ (p[1] # p0[1] \/ j # i) =>
             (Passed(trail', p[1], j) <=> Passed(trail, p[1], j))
    BY <2>1, <1>6, ShownIs
  <2>3. ToCompare(disk, job, p0[1], i) /\ ~Passed(trail, p0[1], i) /\ Passed(trail', p0[1], i)
    BY <2>1, <1>6, <1>8
  <2>4. /\ Files(disk, job, trail', D) = Files(disk, job, trail, D) \union {Pairing(job, p0, disk[p0[1]][i].name)}
        /\ Pairing(job, p0, disk[p0[1]][i].name) \notin Files(disk, job, trail, D)
    BY <2>2, <2>3, <1>7, <1>9, FilesMore
  <2>5. Pairing(job, p0, disk[p0[1]][i].name) = c
    BY <2>1 DEF i
  <2> QED BY <2>4, <2>5
<1>11. ScanIn(disk, job, trail', D)
  <2>1. \A p \in D : \A j, e : Descends(disk, job, p[1], j, e) => (Passed(trail', p[1], j) <=> Passed(trail, p[1], j))
    <3> HIDE DEF i
    <3> QED BY <1>6, <1>8, ShownIs
  <2> QED BY <2>1, <1>9, ScanSame
<1>12. c \in Pairs
  <2>1. p0 \in Places /\ p0[1] = last.dir
    BY <1>7, <1>9
  <2> HIDE DEF p0
  <2> QED BY <2>1, <1>2, <1>7, <1>8, PairingType
<1>13. c = <<[dir |-> last.dir, name |-> slot.name], Counterpart(slot.name)>>
  <2>1. job.target \in Dirs /\ last.path \in Seq(Names)
    BY <1>2, <1>7 DEF JobType, TrailStep
  <2>2. Follow[<<job.target, last.path>>] = Resolve(job.target, logged)
    BY <2>1, <1>2 DEF Follow
  <2> QED BY <2>2 DEF Pairing, Counterpart
<1> DEFINE v == Compare([dir |-> last.dir, name |-> slot.name], Counterpart(slot.name), job.opt)
<1>14. Verdicts[c] = v
  BY <1>12, <1>13 DEF Verdicts
<1>15. /\ verdict' = v /\ count' = [CountBefore(v, job.opt) EXCEPT !.total = @ + IF Pauses(v, job.opt) THEN 0 ELSE 1]
       /\ xcPhase' = IF Pauses(v, job.opt) THEN "paused" ELSE "scan"
  BY DEF XcFile
<1> HIDE DEF v, c, slot, i, p0
<1>16. count' \in Count /\ count'.dirs = count.dirs /\ Due' = Counted(count, v, job.opt)
  BY <1>1, <1>15, FileCounted
<1>17. Due'.dirs = count.dirs
  BY <1>16, TallyIs
<1>18. Told(disk, job, Verdicts, trail', Due', D)
  <2> DEFINE F == Files(disk, job, trail, D)
  <2>1. IsFiniteSet(F) /\ Tallied(count, F, Verdicts, job.opt) /\ count.dirs + 1 = Cardinality(D)
    BY <1>3, <1>4 DEF Told
  <2> HIDE DEF F
  <2>2. IsFiniteSet(F \union {c}) /\ Tallied(Counted(count, Verdicts[c], job.opt), F \union {c}, Verdicts, job.opt)
    BY <2>1, <1>10, TallyAdds DEF F
  <2>3. Files(disk, job, trail', D) = F \union {c} /\ Due' = Counted(count, Verdicts[c], job.opt)
    BY <1>10, <1>14, <1>16 DEF F
  <2> QED BY <2>1, <2>2, <2>3, <1>17 DEF Told
<1>19. Walked(disk, job, Follow, trail', D)
  BY <1>3, <1>5, <1>11 DEF Walked
<1> QED BY <1>1, <1>2, <1>4, <1>5, <1>16, <1>18, <1>19 DEF Scanning

\* A call more.
LEMMA CallAdded ==
  ASSUME NEW dk, NEW jb, NEW tr \in Seq(TrailStep), tr # <<>>, TrailIn(dk, jb, tr), NEW f \in TrailStep,
         Descends(dk, jb, tr[Len(tr)].dir, tr[Len(tr)].at, f.dir),
         f.path = Append(tr[Len(tr)].path, dk[tr[Len(tr)].dir][tr[Len(tr)].at].name), f.old = tr[Len(tr)].path
  PROVE  TrailIn(dk, jb, Append(tr, f))
<1> DEFINE two == Append(tr, f)
           n == Len(tr)
<1>1. n \in Nat \ {0}
  OBVIOUS
<1>2. /\ Len(two) = n + 1 /\ two[n + 1] = f /\ \A k \in 1..n : two[k] = tr[k]
  BY TrailPushes
<1> HIDE DEF two, n
<1>3. two[1].dir = jb.source /\ two[1].path = <<>>
  <2>1. 1 \in 1..n
    BY <1>1
  <2> QED BY <1>2, <2>1 DEF TrailIn
<1>4. ASSUME NEW k \in 1..(Len(two) - 1)
      PROVE  /\ Descends(dk, jb, two[k].dir, two[k].at, two[k + 1].dir)
             /\ two[k + 1].path = Append(two[k].path, dk[two[k].dir][two[k].at].name) /\ two[k + 1].old = two[k].path
  <2>1. k \in 1..n
    BY <1>1, <1>2
  <2>2. CASE k = n
    BY <1>2, <2>1, <2>2 DEF n
  <2>3. CASE k # n
    <3>1. k \in 1..(n - 1) /\ k + 1 \in 1..n
      BY <1>1, <2>1, <2>3
    <3> QED BY <1>2, <2>1, <3>1 DEF TrailIn, n
  <2> QED BY <2>2, <2>3
<1> QED BY <1>3, <1>4 DEF TrailIn, two

\* Where the path of a call below leads in the target tree.
LEMMA FollowsOn ==
  ASSUME WellFormed(disk), NEW target \in Dirs, NEW path \in Seq(Names), NEW n \in Names
  PROVE  Follow[<<target, Append(path, n)>>] = Child(disk, Follow[<<target, path>>], n)
<1>1. Append(path, n) \in Seq(Names) /\ target \in Dirs \union {NoDir}
  BY AppendProperties
<1>2. Resolve(target, Append(path, n)) = Child(disk, Resolve(target, path), n)
  BY <1>1, ResolveAppends
<1> QED BY <1>1, <1>2 DEF Follow

\* The last call stands at the entry it found.
LEMMA AtEntry ==
  ASSUME TypeInv, IsTree(disk), xcPhase = "scan", Entry # 0, TrailIn(disk, job, trail)
  PROVE  /\ TrailIn(disk, job, At(Entry))
         /\ At(Entry) \in Seq(TrailStep) /\ Len(At(Entry)) = Len(trail) /\ At(Entry) # <<>>
         /\ At(Entry)[Len(trail)].at = Entry
         /\ \A k \in 1..Len(trail) : At(Entry)[k].dir = trail[k].dir /\ At(Entry)[k].path = trail[k].path
<1>1. trail \in Seq(TrailStep) /\ trail # <<>> /\ Apart(trail) /\ Entry \in Nat
  BY EntryPasses
<1> DEFINE two == At(Entry)
<1>5. two = Moved(trail, Entry)
  BY DEF At, Moved
<1> HIDE DEF two
<1>2. /\ two \in Seq(TrailStep) /\ Len(two) = Len(trail) /\ two # <<>>
      /\ \A k \in 1..Len(trail) : two[k].dir = trail[k].dir /\ two[k].path = trail[k].path /\ two[k].old = trail[k].old
      /\ \A k \in 1..(Len(trail) - 1) : two[k] = trail[k]
  BY <1>1, <1>5, TrailMoves
<1>4. two[Len(trail)].at = Entry
  BY <1>1, <1>5, TrailMoves
<1>3. TrailIn(disk, job, two)
  BY <1>1, <1>2, TrailKept
<1> QED BY <1>2, <1>3, <1>4 DEF two

\* A directory more.
LEMMA DirCounted ==
  ASSUME NEW cnt \in Count
  PROVE  /\ [cnt EXCEPT !.dirs = @ + 1] \in Count /\ [cnt EXCEPT !.dirs = @ + 1].dirs = cnt.dirs + 1
         /\ \A F, vs, opt : Tallied(cnt, F, vs, opt) => Tallied([cnt EXCEPT !.dirs = @ + 1], F, vs, opt)
<1>1. PICK t0 \in Nat, d0 \in Nat, p0 \in Nat, n0 \in Nat, f0 \in Nat :
         cnt = [total |-> t0, dirs |-> d0, positive |-> p0, negative |-> n0, notfound |-> f0]
  BY DEF Count
<1> DEFINE new == [total |-> t0, dirs |-> d0 + 1, positive |-> p0, negative |-> n0, notfound |-> f0]
<1>2. [cnt EXCEPT !.dirs = @ + 1] = new
  BY <1>1
<1>3. new \in Count /\ new.dirs = cnt.dirs + 1
  BY <1>1 DEF Count
<1>4. \A F, vs, opt : Tallied(cnt, F, vs, opt) => Tallied(new, F, vs, opt)
  BY <1>1 DEF Tallied
<1> QED BY <1>2, <1>3, <1>4

\* scandir goes down to a subdirectory.
LEMMA XcDescends ==
  ASSUME TypeInv, TypeInv', IsTree(disk), Scanning, XcSubdir, "scandir" \in job.opt, count \in Count
  PROVE  Scanning' /\ count' \in Count
<1> DEFINE slot == disk[last.dir][Entry]
           i == Entry
           f == [dir |-> slot.opens, at |-> 0, path |-> Append(last.path, slot.name), old |-> logged]
<1>1. /\ xcPhase = "scan" /\ xcPhase' = "scan" /\ i # 0 /\ slot.attr = "dir"
      /\ trail' = Append(At(i), f) /\ logged' = Append(last.path, slot.name)
      /\ count' = [count EXCEPT !.dirs = @ + 1]
      /\ UNCHANGED <<disk, job>>
  BY DEF XcSubdir
<1>2. JobType(job) /\ TrailIn(disk, job, trail) /\ logged = last.path
  BY DEF Scanning, last
<1>3. PICK D : Walked(disk, job, Follow, trail, D) /\ Told(disk, job, Verdicts, trail, Due, D)
  BY DEF Scanning
<1>4. Follow' = Follow /\ Verdicts' = Verdicts /\ Due = count /\ Due' = count'
  BY <1>1, FollowSame, VerdictsSame DEF Due
<1> DEFINE to == Follow
           p0 == <<last.dir, to[<<job.target, last.path>>]>>
           new == Under(disk, p0, i)
           at == At(i)
<1>5. /\ WellFormed(disk) /\ trail \in Seq(TrailStep) /\ trail # <<>> /\ Apart(trail) /\ last \in TrailStep /\ p0 \in D
      /\ last = trail[Len(trail)] /\ Len(trail) \in 1..Len(trail)
  BY <1>1, <1>2, <1>3, LastPlaced DEF Walked
<1>6. TrailIn(disk, job, at)
  BY <1>1, <1>2, AtEntry
<1>7. /\ at \in Seq(TrailStep) /\ Len(at) = Len(trail) /\ at # <<>> /\ at[Len(trail)].at = i
      /\ \A k \in 1..Len(trail) : at[k].dir = trail[k].dir /\ at[k].path = trail[k].path
  BY <1>1, <1>2, AtEntry
<1>8. slot \in Slot /\ slot.opens \in Dirs
  BY <1>1, EntryFound
<1>9. /\ slot.name \in Names /\ last.path \in Seq(Names) /\ last.dir \in Dirs /\ job.target \in Dirs
  BY <1>2, <1>5, <1>8 DEF Slot, TrailStep, JobType
<1>10. f \in TrailStep
  <2>1. Append(last.path, slot.name) \in Seq(Names)
    BY <1>9, AppendProperties
  <2> HIDE DEF slot
  <2> QED BY <2>1, <1>2, <1>8, <1>9 DEF TrailStep
<1>11. /\ i \in Nat /\ Shown(disk, job, last.dir, i) /\ i > last.at
       /\ \A j : Shown(disk, job, last.dir, j) => j \in Nat /\ (j > last.at => i <= j)
  BY <1>1, EntryIs
<1>12. Descends(disk, job, last.dir, i, slot.opens)
  BY <1>1, <1>11 DEF Descends, Lists, Shown
<1>13. last = trail[Len(trail)] /\ Len(trail) \in 1..Len(trail) /\ last.at \in Nat
  BY <1>5 DEF TrailStep
<1> HIDE DEF slot, i, at, to
<1>14. /\ f.dir = slot.opens /\ f.at = 0 /\ f.path = Append(last.path, slot.name) /\ f.old = last.path
       /\ slot = disk[last.dir][i]
  BY <1>2 DEF slot, i
<1> HIDE DEF f
<1>15. TrailIn(disk, job, trail')
  <2>1. at[Len(at)].dir = last.dir /\ at[Len(at)].at = i /\ at[Len(at)].path = last.path
    BY <1>7, <1>13
  <2>2. TrailIn(disk, job, Append(at, f))
    BY <2>1, <1>6, <1>7, <1>10, <1>12, <1>14, CallAdded
  <2> QED BY <2>2, <1>1 DEF at
<1>16. Last(trail').path = logged'
  BY <1>1, <1>7, <1>10, <1>14, TrailPushes DEF at
<1>17. new = <<slot.opens, Child(disk, to[<<job.target, last.path>>], slot.name)>>
  BY <1>14 DEF Under
<1>18. D \in SUBSET Places /\ Within(disk, job, D) /\ ScanIn(disk, job, trail, D) /\ PlacedIn(trail, to, job.target, D)
  BY <1>3 DEF Walked, to
<1>19. /\ new \notin D /\ ScanIn(disk, job, trail', D \union {new})
       /\ Files(disk, job, trail', D \union {new}) = Files(disk, job, trail, D)
  <2>1. p0[1] = Last(trail).dir /\ Descends(disk, job, Last(trail).dir, i, slot.opens) /\ i > Last(trail).at
    BY <1>11, <1>12 DEF last
  <2>2. Reaches(disk, job, trail, i)
    BY <1>11, <1>13 DEF last, Reaches
  <2>3. trail' = Append(Moved(trail, i), f)
    BY <1>1 DEF At, Moved, i
  <2> HIDE DEF p0
  <2>4. Enters(disk, job, trail, D, p0, i, slot.opens, f)
    BY <2>1, <2>2, <1>2, <1>5, <1>8, <1>10, <1>11, <1>14, <1>18 DEF Enters
  <2>5. new = Under(disk, p0, i)
    OBVIOUS
  <2> HIDE DEF new
  <2>6. \A two, x : two = Append(Moved(trail, i), f) /\ x = Under(disk, p0, i) => Entered(disk, job, trail, two, D, x)
    BY <2>4, ScanEnters
  <2>7. Entered(disk, job, trail, trail', D, new)
    BY <2>3, <2>5, <2>6
  <2> QED BY <2>7 DEF Entered
<1>20. D \union {new} \in SUBSET Places
  <2>1. p0 \in Places /\ Lists(disk, p0[1], i, slot.opens)
    BY <1>5, <1>12, <1>18 DEF Descends
  <2>2. new \in Places
    BY <2>1, <1>5, UnderType
  <2> QED BY <2>2, <1>18
<1>21. Within(disk, job, D \union {new})
  <2> SUFFICES ASSUME NEW C, ClosedIn(disk, job, C) PROVE D \union {new} \subseteq C
    BY DEF Within
  <2>1. D \subseteq C
    BY <1>18 DEF Within
  <2>2. p0 \in C /\ p0 \in Places /\ Descends(disk, job, p0[1], i, slot.opens)
    BY <2>1, <1>5, <1>12, <1>18
  <2> HIDE DEF p0
  <2>3. new \in C
    BY <2>2 DEF ClosedIn
  <2> QED BY <2>1, <2>3
<1>22. PlacedIn(trail', to, job.target, D \union {new})
  <2> SUFFICES ASSUME NEW k \in 1..Len(trail')
               PROVE  <<trail'[k].dir, to[<<job.target, trail'[k].path>>]>> \in D \union {new}
    BY DEF PlacedIn
  <2>1. /\ Len(trail') = Len(at) + 1 /\ trail'[Len(at) + 1] = f /\ \A j \in 1..Len(at) : trail'[j] = at[j]
    BY <1>1, <1>7, <1>10, TrailPushes DEF at
  <2>2. CASE k = Len(at) + 1
    <3>1. to[<<job.target, Append(last.path, slot.name)>>] = Child(disk, to[<<job.target, last.path>>], slot.name)
      BY <1>5, <1>9, FollowsOn DEF to
    <3>2. <<trail'[k].dir, to[<<job.target, trail'[k].path>>]>> = new
      BY <2>1, <2>2, <3>1, <1>14, <1>17
    <3> QED BY <3>2
  <2>3. CASE k # Len(at) + 1
    <3>1. k \in 1..Len(trail) /\ k \in 1..Len(at)
      BY <2>1, <2>3, <1>7
    <3>2. trail'[k].dir = trail[k].dir /\ trail'[k].path = trail[k].path
      BY <2>1, <3>1, <1>7
    <3> QED BY <3>1, <3>2, <1>18 DEF PlacedIn
  <2> QED BY <2>2, <2>3
<1> HIDE DEF new, p0
<1>23. Told(disk, job, Verdicts, trail', count', D \union {new})
  <2>1. /\ count.dirs + 1 = Cardinality(D) /\ IsFiniteSet(Files(disk, job, trail, D))
        /\ Tallied(count, Files(disk, job, trail, D), Verdicts, job.opt)
    BY <1>3, <1>4 DEF Told
  <2>2. IsFiniteSet(D)
    BY <1>18, PlacesFinite
  <2>3. Cardinality(D \union {new}) = Cardinality(D) + 1
    BY <2>2, <1>19, FS_AddElement
  <2>4. count'.dirs = count.dirs + 1 /\ Tallied(count', Files(disk, job, trail, D), Verdicts, job.opt)
    BY <2>1, <1>1, DirCounted
  <2> QED BY <2>1, <2>3, <2>4, <1>19 DEF Told
<1>24. count' \in Count
  BY <1>1, DirCounted
<1>25. Walked(disk, job, Follow', trail', D \union {new})
  BY <1>4, <1>19, <1>20, <1>21, <1>22 DEF Walked, to
<1> QED BY <1>1, <1>2, <1>4, <1>15, <1>16, <1>23, <1>24, <1>25 DEF Scanning

\* The key pressed at a pause adds what was due.
LEMMA XcGoesOn ==
  ASSUME TypeInv, Scanning, XcKey, count \in Count
  PROVE  Scanning' /\ count' \in Count
<1>1. /\ xcPhase = "paused" /\ xcPhase' = "scan" /\ count' = [CountAfter(verdict, job.opt) EXCEPT !.total = @ + 1]
      /\ UNCHANGED <<disk, job, trail, logged>>
  BY DEF XcKey
<1>2. Follow' = Follow /\ Verdicts' = Verdicts /\ Due' = Due
  BY <1>1, FollowSame, VerdictsSame DEF Due
<1>3. count' \in Count
  <2> DEFINE c == CountAfter(verdict, job.opt)
  <2>1. c \in Count
    BY TallyIs DEF CountAfter
  <2>2. count' = [c EXCEPT !.total = @ + 1]
    BY <1>1
  <2> HIDE DEF c
  <2> QED BY <2>1, <2>2 DEF Count
<1> QED BY <1>1, <1>2, <1>3 DEF Scanning

\* A call returns to the one above it.
LEMMA XcReturns ==
  ASSUME TypeInv, IsTree(disk), Scanning, XcReturn, Len(trail) # 1
  PROVE  Scanning' /\ count' = count
<1>1. /\ xcPhase = "scan" /\ xcPhase' = "scan" /\ Entry = 0 /\ trail' = Front(trail) /\ logged' = last.old
      /\ UNCHANGED <<disk, job, count, verdict>>
  BY DEF XcReturn
<1>2. JobType(job) /\ TrailIn(disk, job, trail)
  BY DEF Scanning
<1>3. PICK D : Walked(disk, job, Follow, trail, D) /\ Told(disk, job, Verdicts, trail, Due, D)
  BY DEF Scanning
<1>4. Follow' = Follow /\ Verdicts' = Verdicts /\ Due = count /\ Due' = count
  BY <1>1, FollowSame, VerdictsSame DEF Due
<1>5. /\ WellFormed(disk) /\ trail \in Seq(TrailStep) /\ trail # <<>> /\ Apart(trail)
  BY <1>1, <1>2, <1>3, LastPlaced DEF Walked
<1> DEFINE two == Front(trail)
<1>6. /\ TrailIn(disk, job, two) /\ Last(two).path = Last(trail).old
      /\ \A k \in 1..Len(two) : k \in 1..Len(trail) /\ two[k] = trail[k]
      /\ \A d, j : Passed(two, d, j) <=> d = Last(trail).dir \/ Passed(trail, d, j)
  BY <1>2, <1>5, TrailPops
<1> HIDE DEF two
<1>7. \A j : Shown(disk, job, last.dir, j) => Passed(trail, last.dir, j)
  <2>1. \A j : Shown(disk, job, last.dir, j) => j \in Nat /\ ~(j > last.at)
    BY <1>1, EntryIs
  <2>2. last.at \in Nat
    BY <1>1, EntryIs DEF TrailStep
  <2>3. \A j : Passed(trail, last.dir, j) <=> j <= last.at
    BY <1>5, PassedLast DEF last
  <2> QED BY <2>1, <2>2, <2>3
<1>8. \A d, j : Shown(disk, job, d, j) => (Passed(two, d, j) <=> Passed(trail, d, j))
  BY <1>6, <1>7 DEF last
<1>9. /\ D \in SUBSET Places /\ Within(disk, job, D) /\ ScanIn(disk, job, trail, D) /\ PlacedIn(trail, Follow, job.target, D)
  BY <1>3 DEF Walked
<1>10. Files(disk, job, two, D) = Files(disk, job, trail, D)
  <2>1. \A p \in D : \A j : ToCompare(disk, job, p[1], j) => (Passed(two, p[1], j) <=> Passed(trail, p[1], j))
    BY <1>8, ShownIs
  <2> QED BY <2>1, FilesSame
<1>11. ScanIn(disk, job, two, D)
  <2>1. \A p \in D : \A j, e : Descends(disk, job, p[1], j, e) => (Passed(two, p[1], j) <=> Passed(trail, p[1], j))
    BY <1>8, ShownIs
  <2> QED BY <2>1, <1>9, ScanSame
<1>12. PlacedIn(two, Follow, job.target, D)
  BY <1>6, <1>9 DEF PlacedIn
<1>13. Walked(disk, job, Follow, two, D) /\ Told(disk, job, Verdicts, two, count, D)
  BY <1>3, <1>4, <1>9, <1>10, <1>11, <1>12 DEF Walked, Told
<1>14. Last(two).path = last.old
  BY <1>6 DEF last
<1>15. trail' = two
  BY <1>1 DEF two
<1> QED BY <1>1, <1>2, <1>4, <1>6, <1>13, <1>14, <1>15 DEF Scanning

\* The first call returns when everything has been passed.
LEMMA XcReturnsAll ==
  ASSUME TypeInv, IsTree(disk), Scanning, xcPhase = "scan", Entry = 0, Len(trail) = 1, count \in Count
  PROVE  Finished
<1>1. JobType(job) /\ TrailIn(disk, job, trail)
  BY DEF Scanning
<1>2. PICK D : Walked(disk, job, Follow, trail, D) /\ Told(disk, job, Verdicts, trail, Due, D)
  BY DEF Scanning
<1>3. /\ WellFormed(disk) /\ trail \in Seq(TrailStep) /\ trail # <<>> /\ Apart(trail)
  BY <1>1, <1>2, LastPlaced DEF Walked
<1>4. /\ D \in SUBSET Places /\ Within(disk, job, D) /\ ScanIn(disk, job, trail, D)
  BY <1>2 DEF Walked
<1>5. \A d, j : Shown(disk, job, d, j) => Passed(trail, d, j)
  <2>1. \A j : Shown(disk, job, last.dir, j) => j \in Nat /\ ~(j > last.at)
    BY EntryIs
  <2>2. last.at \in Nat
    BY EntryIs DEF TrailStep
  <2>3. \A j : Passed(trail, last.dir, j) <=> j <= last.at
    BY <1>3, PassedLast DEF last
  <2>4. last = trail[1]
    BY <1>3, PassedLast DEF last
  <2>5. \A d, j : d # last.dir => Passed(trail, d, j)
    BY <2>4 DEF Passed
  <2> QED BY <2>1, <2>2, <2>3, <2>5
<1>6. ClosedIn(disk, job, D)
  <2>1. Start(job) \in D
    BY <1>4 DEF ScanIn
  <2>2. ASSUME NEW p \in D, p \in Places, NEW i, NEW e, Descends(disk, job, p[1], i, e) PROVE Under(disk, p, i) \in D
    <3>1. i \in 1..Len(disk[p[1]]) /\ Passed(trail, p[1], i)
      BY <2>2, <1>5, ShownIs
    <3>2. e \in Dirs
      BY <2>2, <1>3, UnderType DEF Descends
    <3> QED BY <2>2, <3>1, <3>2, <1>4 DEF ScanIn
  <2> QED BY <2>1, <2>2 DEF ClosedIn
<1>7. /\ Mirrored \in SUBSET Places /\ ClosedIn(disk, job, Mirrored) /\ Mirrored \subseteq D
  BY <1>1, <1>3, <1>6, MirroredFacts DEF JobType
<1>8. D = Mirrored
  BY <1>4, <1>7 DEF Within
<1>9. Files(disk, job, trail, D) = Compared
  <2> DEFINE E(c) == \E p \in Mirrored : \E i : ToCompare(disk, job, p[1], i) /\ c = Pairing(job, p, disk[p[1]][i].name)
  <2>1. \A c : c \in Compared <=> E(c)
    BY <1>3, <1>7, ComparedAre
  <2>2. \A c : c \in Files(disk, job, trail, D) <=> \E p \in D : \E i :
                  ToCompare(disk, job, p[1], i) /\ Passed(trail, p[1], i) /\ c = Pairing(job, p, disk[p[1]][i].name)
    BY FilesAre
  <2>3. \A c : c \in Files(disk, job, trail, D) <=> E(c)
    BY <2>2, <1>5, <1>8, ShownIs
  <2> HIDE DEF E
  <2> QED BY <2>1, <2>3
<1>10. \A c \in Compared : c \in Pairs
  <2>1. \A c \in Compared : \E p \in Mirrored : \E i :
           ToCompare(disk, job, p[1], i) /\ c = Pairing(job, p, disk[p[1]][i].name)
    BY <1>3, <1>7, ComparedAre
  <2> QED BY <2>1, <1>1, <1>3, <1>7, PairingType
<1>11. \A v : Judged(Compared, Verdicts, v) = {c \in Compared : Compare(c[1], c[2], job.opt) = v}
  BY <1>10 DEF Judged, Verdicts
<1>12. /\ count.dirs + 1 = Cardinality(Mirrored) /\ Tallied(count, Compared, Verdicts, job.opt)
       /\ Cardinality(Mirrored) \in Nat
  BY <1>2, <1>8, <1>9, <1>7, PlacesFinite DEF Told, Due
<1>13. \A v : Found(v) = Cardinality(Judged(Compared, Verdicts, v))
  BY <1>11 DEF Found
<1>14. count.dirs = Cardinality(Mirrored) - 1
  <2>1. count.dirs \in Nat
    BY DEF Count
  <2> QED BY <2>1, <1>12
<1>15. CountsTheTrees
  BY <1>12, <1>13, <1>14 DEF CountsTheTrees, Tallied
<1>16. IsFiniteSet(Compared)
  BY <1>2, <1>9 DEF Told
<1>17. \A p, q \in Mirrored : p[1] = q[1] => p = q
  BY <1>4, <1>8 DEF ScanIn
<1> QED BY <1>1, <1>15, <1>16, <1>17 DEF Finished

-----------------------------------------------------------------------------
(* The statistics of XC.                                                    *)

\* A scan begins at its start, with nothing counted.
LEMMA ScanBegins ==
  ASSUME NEW dk, WellFormed(dk), NEW jb, JobType(jb), NEW to, to[<<jb.target, <<>>>>] = jb.target, NEW vs,
         NEW tr, tr = <<[dir |-> jb.source, at |-> 0, path |-> <<>>, old |-> <<>>]>>
  PROVE  /\ TrailIn(dk, jb, tr) /\ Last(tr).path = <<>>
         /\ Walked(dk, jb, to, tr, {Start(jb)}) /\ Told(dk, jb, vs, tr, NoCount, {Start(jb)})
<1> DEFINE f == [dir |-> jb.source, at |-> 0, path |-> <<>>, old |-> <<>>]
           D == {Start(jb)}
<1>1. Len(tr) = 1 /\ tr[1] = f /\ Last(tr) = f /\ f.dir = jb.source /\ f.at = 0 /\ f.path = <<>>
  BY DEF Last
<1> HIDE DEF f
<1>2. TrailIn(dk, jb, tr)
  BY <1>1 DEF TrailIn
<1>3. Start(jb) \in Places /\ Start(jb)[1] = jb.source /\ Start(jb)[2] = jb.target
  BY DEF Start, Places, JobType
<1>4. \A j : Passed(tr, jb.source, j) => j <= 0
  BY <1>1 DEF Passed
<1>5. ASSUME NEW j, Shown(dk, jb, jb.source, j) PROVE ~Passed(tr, jb.source, j)
  <2>1. j \in 1..Len(dk[jb.source]) /\ Len(dk[jb.source]) \in Nat
    BY <1>5, SlotFound DEF Shown, JobType
  <2> QED BY <2>1, <1>4
<1>6. ScanIn(dk, jb, tr, D)
  <2>1. \A j, e : Descends(dk, jb, jb.source, j, e) => ~Passed(tr, jb.source, j)
    BY <1>5, ShownIs
  <2> QED BY <2>1, <1>3 DEF ScanIn
<1>7. Within(dk, jb, D)
  BY DEF Within, ClosedIn
<1>8. PlacedIn(tr, to, jb.target, D)
  BY <1>1 DEF PlacedIn, Start
<1>9. Files(dk, jb, tr, D) = {}
  <2> SUFFICES ASSUME NEW c, c \in Files(dk, jb, tr, D) PROVE FALSE
    OBVIOUS
  <2>1. PICK p \in D : \E i : ToCompare(dk, jb, p[1], i) /\ Passed(tr, p[1], i)
    BY FilesAre
  <2>2. p[1] = jb.source
    BY <1>3
  <2> QED BY <2>1, <2>2, <1>5, ShownIs
<1>10. Told(dk, jb, vs, tr, NoCount, D)
  <2>1. IsFiniteSet({}) /\ Cardinality({}) = 0 /\ Cardinality(D) = 1
    BY FS_EmptySet, FS_Singleton
  <2>2. \A v : Judged({}, vs, v) = {}
    BY DEF Judged
  <2>3. NoCount.total = 0 /\ NoCount.dirs = 0 /\ NoCount.positive = 0 /\ NoCount.negative = 0 /\ NoCount.notfound = 0
    BY DEF NoCount
  <2>4. \A v : Cardinality(Judged({}, vs, v)) = 0
    BY <2>1, <2>2
  <2>5. Tallied(NoCount, {}, vs, jb.opt)
    BY <2>1, <2>3, <2>4 DEF Tallied
  <2> HIDE DEF D
  <2>6. NoCount.dirs + 1 = Cardinality(D)
    BY <2>1, <2>3
  <2> QED BY <2>1, <2>5, <2>6, <1>9 DEF Told
<1> QED BY <1>1, <1>2, <1>3, <1>6, <1>7, <1>8, <1>10 DEF Walked

\* main starts a scan.
LEMMA XcStarts ==
  ASSUME TypeInv, NEW a \in Argument, NEW b \in Argument, NEW o, XcStart(a, b, o)
  PROVE  Scanning' /\ count' \in Count
<1>1. /\ ~Refuses(a, b) /\ count' = NoCount /\ logged' = <<>> /\ xcPhase' = "scan" /\ disk' = disk
      /\ job' = [source |-> ArgDir(a), flag |-> ArgFlag(a), target |-> ArgDir(b),
                 single |-> OneFile(b), only |-> TheName(b), opt |-> Options(o)]
      /\ trail' = <<[dir |-> ArgDir(a), at |-> 0, path |-> <<>>, old |-> <<>>]>>
  BY DEF XcStart
<1>2. WellFormed(disk) /\ cwd \in Dirs
  BY DEF TypeInv, DiskType
<1>3. ~Lost(a) /\ ~Lost(b)
  BY <1>1 DEF Refuses, AnyEntry
<1>4. ArgDir(a) \in Dirs /\ ArgDir(b) \in Dirs
  BY <1>2, <1>3 DEF ArgDir, Lost, Argument
<1>5. ASSUME OneFile(b) PROVE TheName(b) \in Names
  <2>1. b.whole = NoDir /\ Find(disk, ArgDir(b), b.flag, FileAttrs, 0) # 0
    BY <1>5 DEF OneFile, AnyFile
  <2>2. ArgFlag(b) = b.flag /\ b.flag \in SUBSET Names
    BY <2>1 DEF ArgFlag, Argument
  <2>3. \E n \in b.flag : TRUE
    BY <2>1, <1>2, <1>4, FoundEntry
  <2> QED BY <2>2, <2>3 DEF TheName
<1>6. JobType(job') /\ job'.source = ArgDir(a) /\ job'.target = ArgDir(b)
  BY <1>1, <1>4, <1>5 DEF JobType
<1>7. Follow'[<<job'.target, <<>>>>] = job'.target
  <2>1. Resolve(ArgDir(b), <<>>) = ArgDir(b)
    BY <1>2, <1>4, ResolveNothing
  <2>2. <<>> \in Seq(Names)
    OBVIOUS
  <2>3. Follow[<<ArgDir(b), <<>>>>] = ArgDir(b)
    BY <2>1, <2>2, <1>4 DEF Follow
  <2> QED BY <2>3, <1>1, <1>6, FollowSame
<1>8. trail' = <<[dir |-> job'.source, at |-> 0, path |-> <<>>, old |-> <<>>]>>
  BY <1>1, <1>6
<1>9. /\ TrailIn(disk, job', trail') /\ Last(trail').path = <<>>
      /\ Walked(disk, job', Follow', trail', {Start(job')}) /\ Told(disk, job', Verdicts', trail', NoCount, {Start(job')})
  BY <1>2, <1>6, <1>7, <1>8, ScanBegins
<1>10. Due' = NoCount
  BY <1>1 DEF Due
<1> QED BY <1>1, <1>6, <1>9, <1>10 DEF Scanning, Count, NoCount

\* What the user types.
LEMMA XcTyped ==
  ASSUME TypeInv, XcInv, NEW c \in Command, Type(c)
  PROVE  XcInv'
<1>1. phase = "idle" /\ xcPhase = "idle" /\ typed' = Append(typed, c)
  BY DEF Type
<1>2. Last(typed') = c
  <2> HIDE DEF Command
  <2> QED BY <1>1, LastAppended DEF TypeInv
<1>3. CASE c.program = "xrep"
  <2>1. UNCHANGED <<count, xcPhase>>
    BY <1>3 DEF Type, xcVars
  <2>2. ~AtPrompt("xc")'
    BY <1>2, <1>3 DEF AtPrompt
  <2> QED BY <1>1, <2>1, <2>2 DEF XcInv, XcDone
<1>4. CASE c.program # "xrep"
  <2>1. c.source \in Argument /\ c.target \in Argument
    BY <1>4 DEF Command
  <2>2. CASE XcStart(c.source, c.target, c.options)
    <3>1. Scanning' /\ count' \in Count
      BY <2>1, <2>2, XcStarts
    <3>2. xcPhase' = "scan"
      BY <2>2 DEF XcStart
    <3> QED BY <3>1, <3>2 DEF XcInv, XcDone, AtPrompt
  <2>3. CASE XcTwoFiles(c.source, c.target, c.options)
    <3>1. xcPhase' \in {"pausedfile", "idle"} /\ xcEnding' # "normal"
      BY <2>3 DEF XcTwoFiles
    <3>2. count' \in Count
      <4>1. PICK v : count' = Tally(NoCount, v, Options(c.options))
        BY <2>3 DEF XcTwoFiles
      <4>2. NoCount \in Count
        BY DEF NoCount, Count
      <4> QED BY <4>1, <4>2, TallyIs
    <3> QED BY <3>1, <3>2 DEF XcInv, XcDone
  <2>4. CASE XcBreakNaming(c.source, c.target, c.options) \/ XcRefused(c.source, c.target, c.options)
    <3>1. xcPhase' = "idle" /\ xcEnding' \in {"naming", "refused"} /\ count' = NoCount
      BY <1>1, <2>4 DEF XcBreakNaming, XcRefused
    <3> QED BY <3>1 DEF XcInv, XcDone, Count, NoCount
  <2> QED BY <1>4, <2>2, <2>3, <2>4 DEF Type
<1> QED BY <1>3, <1>4

\* Every step keeps the statistics those of the trees.
LEMMA XcNext == TypeInv /\ TypeInv' /\ IsTree(disk) /\ HomeInv /\ XcInv /\ [Next]_vars => XcInv'
<1> SUFFICES ASSUME TypeInv, TypeInv', IsTree(disk), HomeInv, XcInv, [Next]_vars PROVE XcInv'
  OBVIOUS
<1>1. CASE Len(typed) < Len(Commands) /\ \E c \in Commands[Len(typed) + 1] : Type(c)
  BY <1>1, CommandsType, XcTyped
<1>2. CASE XrepRuns \/ XrepStops
  <2>1. phase # "idle"
    BY <1>2 DEF XrepRuns, XrepStops, XrepStep, FindFile, EndFlag, EnterDir, LeaveDir, Answer, BackupRefused, BinaryFile,
                MakeBackup, Reopen, RewriteLine, DivideError, FinishFile, RestoreFile, PressEscape, Interrupt
  <2>2. UNCHANGED <<xcPhase, count, typed>> /\ xcPhase = "idle"
    BY <1>2, <2>1 DEF XrepRuns, XrepStops, xcVars, TypeInv
  <2>3. Last(typed').program = "xrep"
    BY <2>1, <2>2 DEF HomeInv
  <2> QED BY <2>2, <2>3 DEF XcInv, XcDone, AtPrompt
<1>3. CASE XcSubdir
  <2>1. xcPhase = "scan" /\ xcPhase' = "scan"
    BY <1>3 DEF XcSubdir
  <2>2. Scanning' /\ count' \in Count
    BY <1>3, <2>1, XcSkips, XcDescends DEF XcInv
  <2> QED BY <2>1, <2>2 DEF XcInv, XcDone, AtPrompt
<1>4. CASE XcFile
  <2>1. xcPhase = "scan" /\ xcPhase' \in {"scan", "paused"}
    BY <1>4 DEF XcFile
  <2>2. Scanning' /\ count' \in Count
    BY <1>4, <2>1, XcCompares DEF XcInv
  <2> QED BY <2>1, <2>2 DEF XcInv, XcDone, AtPrompt
<1>5. CASE XcKey
  <2>1. xcPhase = "paused" /\ xcPhase' = "scan"
    BY <1>5 DEF XcKey
  <2>2. Scanning' /\ count' \in Count
    BY <1>5, <2>1, XcGoesOn DEF XcInv
  <2> QED BY <2>1, <2>2 DEF XcInv, XcDone, AtPrompt
<1>6. CASE XcReturn
  <2>1. xcPhase = "scan" /\ Entry = 0 /\ UNCHANGED <<disk, job, count>>
    BY <1>6 DEF XcReturn
  <2>2. CASE Len(trail) = 1
    <3>1. Finished'
      BY <2>1, <2>2, XcReturnsAll, FinishedSame DEF XcInv
    <3>2. xcPhase' = "idle"
      BY <1>6, <2>2 DEF XcReturn, XcEnds
    <3> QED BY <2>1, <3>1, <3>2 DEF XcInv, XcDone
  <2>3. CASE Len(trail) # 1
    <3>1. Scanning' /\ count' = count
      BY <1>6, <2>1, <2>3, XcReturns DEF XcInv
    <3>2. xcPhase' = "scan"
      BY <1>6, <2>1, <2>3 DEF XcReturn
    <3> QED BY <3>1, <3>2 DEF XcInv, XcDone, AtPrompt
  <2> QED BY <2>2, <2>3
<1>7. CASE XcFileKey \/ XcEscape \/ XcDiskError
  <2>1. xcPhase' = "idle" /\ xcEnding' # "normal" /\ count' = count
    BY <1>7 DEF XcFileKey, XcEscape, XcDiskError, XcEnds
  <2> QED BY <2>1 DEF XcInv, XcDone
<1>8. CASE UNCHANGED vars
  <2>1. UNCHANGED <<disk, phase, xcPhase, job, trail, logged, count, verdict, xcEnding, typed>>
    BY <1>8 DEF vars, xrepVars, xcVars
  <2>2. Follow' = Follow /\ Verdicts' = Verdicts /\ Due' = Due
    BY <2>1, FollowSame, VerdictsSame DEF Due, CountAfter
  <2>3. Scanning => Scanning'
    BY <2>1, <2>2 DEF Scanning
  <2>4. XcDone'
    BY <2>1, FinishedSame DEF XcInv, XcDone, AtPrompt
  <2> QED BY <2>1, <2>3, <2>4 DEF XcInv
<1> QED BY <1>1, <1>2, <1>3, <1>4, <1>5, <1>6, <1>7, <1>8 DEF Next, XcRuns, XcStops, XcStep

\* A program that runs was typed last.
LEMMA HomeHolds == Spec => []HomeInv
<1>1. Init => HomeInv
  BY DEF Init, XrepInit, XcInit, HomeInv, ComesHome, AtPrompt
<1> QED BY <1>1, HomeNext, TypesHold, PTL DEF Spec

\* See XcInv.
LEMMA XcHolds == Spec => []XcInv
<1>1. Init => XcInv
  BY DEF Init, XcInit, XcInv, XcDone, Count, NoCount, AtPrompt
<1> QED BY <1>1, XcNext, TypesHold, TreeHolds, HomeHolds, PTL DEF Spec

\* XcCountsTheTrees: whatever trees the disk holds, whatever the options and wherever the user pauses,
\* when XC ends by itself it has compared each flagged file of the source tree once, with the file at the
\* same path of the target tree, has read each directory once, and its numbers are those of these comparisons.
THEOREM XcCountsRight == Spec => []XcCountsTheTrees
<1>1. XcInv => XcCountsTheTrees
  BY DEF XcInv, XcDone, XcCountsTheTrees, Finished
<1> QED BY <1>1, XcHolds, PTL

-----------------------------------------------------------------------------
(* What XC says of a run of XREP.                                           *)

\* A set with the elements of another under other names has their number.
LEMMA SameNumber ==
  ASSUME NEW S, IsFiniteSet(S), NEW T, NEW g \in [S -> T],
         \A x, y \in S : g[x] = g[y] => x = y, \A z \in T : \E x \in S : g[x] = z
  PROVE  Cardinality(T) = Cardinality(S)
<1>1. g \in Bijection(S, T)
  BY DEF Bijection, Injection, IsInjective, Surjection
<1>2. ExistsBijection(S, T)
  BY <1>1 DEF ExistsBijection
<1> QED BY <1>2, FS_Bijection

\* Name n at place p and at its counterpart.
Twins(p, n) == <<[dir |-> p[1], name |-> n], [dir |-> p[2], name |-> n]>>

\* XC on whole trees compares each file with its namesake.
LEMMA ComparedTwins ==
  ASSUME TypeInv, IsTree(disk), JobType(job), ~job.single, job.flag = Names
  PROVE  /\ Mirrored \in SUBSET Places
         /\ \A c \in Compared : \E p \in Mirrored : \E n \in Names : c = Twins(p, n)
         /\ \A p \in Mirrored : \A n \in Names : Readable(disk, p[1], n) => Twins(p, n) \in Compared
<1>1. WellFormed(disk)
  BY DEF TypeInv, DiskType
<1>2. Mirrored \in SUBSET Places
  BY <1>1, MirroredFacts DEF JobType
<1>3. \A c : c \in Compared <=> \E p \in Mirrored : \E i :
                   ToCompare(disk, job, p[1], i) /\ c = Pairing(job, p, disk[p[1]][i].name)
  BY <1>1, <1>2, ComparedAre
<1>4. \A p, n : Pairing(job, p, n) = Twins(p, n)
  BY DEF Pairing, Twins
<1>5. ASSUME NEW c \in Compared PROVE \E p \in Mirrored : \E n \in Names : c = Twins(p, n)
  <2>1. PICK p \in Mirrored : \E i : ToCompare(disk, job, p[1], i) /\ c = Pairing(job, p, disk[p[1]][i].name)
    BY <1>3
  <2>2. PICK i : ToCompare(disk, job, p[1], i) /\ c = Twins(p, disk[p[1]][i].name)
    BY <2>1, <1>4
  <2>3. disk[p[1]][i].name \in Names
    BY <2>2 DEF ToCompare, Shown
  <2> QED BY <2>2, <2>3
<1>6. ASSUME NEW p \in Mirrored, NEW n \in Names, Readable(disk, p[1], n) PROVE Twins(p, n) \in Compared
  <2> DEFINE i == SlotOf(disk, p[1], n)
  <2>1. p[1] \in Dirs /\ "free" \notin FileAttrs /\ "dir" \notin FileAttrs
    BY <1>2 DEF Places, FileAttrs
  <2>2. Attr(disk, p[1], n) \in FileAttrs
    BY <1>6 DEF Readable
  <2>3. i # 0 /\ disk[p[1]][i].attr \in FileAttrs
    BY <2>1, <2>2 DEF Attr
  <2>4. i \in 1..Len(disk[p[1]]) /\ disk[p[1]][i].name = n
    BY <2>1, <2>3, <1>1, SlotFound
  <2> HIDE DEF i
  <2>5. ToCompare(disk, job, p[1], i)
    BY <2>1, <2>3, <2>4 DEF ToCompare, Shown
  <2> QED BY <2>4, <2>5, <1>3, <1>4
<1> QED BY <1>2, <1>5, <1>6

\* A number XC prints is that of a set of files when it counts just the files of that set.
LEMMA FoundFiles ==
  ASSUME TypeInv, IsTree(disk), Finished, ~job.single, job.flag = Names, NEW v, NEW T,
         \A z \in T : \E p \in Mirrored : \E n \in Names : z = <<p[1], n>>,
         \A p \in Mirrored : \A n \in Names :
            <<p[1], n>> \in T <=> Readable(disk, p[1], n) /\ Compare(Twins(p, n)[1], Twins(p, n)[2], job.opt) = v,
         \A p \in Mirrored : \A n \in Names :
            Compare(Twins(p, n)[1], Twins(p, n)[2], job.opt) = v => Readable(disk, p[1], n)
  PROVE  Found(v) = Cardinality(T)
<1> DEFINE S == {c \in Compared : Compare(c[1], c[2], job.opt) = v}
           g == [c \in S |-> <<c[1].dir, c[1].name>>]
<1>1. JobType(job) /\ IsFiniteSet(Compared) /\ \A p, q \in Mirrored : p[1] = q[1] => p = q
  BY DEF Finished
<1>2. /\ \A c \in Compared : \E p \in Mirrored : \E n \in Names : c = Twins(p, n)
      /\ \A p \in Mirrored : \A n \in Names : Readable(disk, p[1], n) => Twins(p, n) \in Compared
  BY <1>1, ComparedTwins
<1>3. IsFiniteSet(S)
  BY <1>1, FS_Subset
<1>4. ASSUME NEW c \in S PROVE \E p \in Mirrored : \E n \in Names : c = Twins(p, n) /\ g[c] = <<p[1], n>> /\ <<p[1], n>> \in T
  <2>1. PICK p \in Mirrored, n \in Names : c = Twins(p, n)
    BY <1>2
  <2>2. g[c] = <<p[1], n>>
    BY <2>1 DEF Twins
  <2>3. Compare(Twins(p, n)[1], Twins(p, n)[2], job.opt) = v
    BY <2>1
  <2>4. <<p[1], n>> \in T
    BY <2>3
  <2> QED BY <2>1, <2>2, <2>4
<1>5. ASSUME NEW z \in T PROVE \E c \in S : g[c] = z
  <2>1. PICK p \in Mirrored, n \in Names : z = <<p[1], n>>
    OBVIOUS
  <2>2. Readable(disk, p[1], n) /\ Compare(Twins(p, n)[1], Twins(p, n)[2], job.opt) = v
    BY <2>1
  <2>3. Twins(p, n) \in S
    BY <2>2, <1>2
  <2>4. g[Twins(p, n)] = z
    BY <2>1, <2>3 DEF Twins
  <2> QED BY <2>3, <2>4
<1>6. g = [c \in S |-> <<c[1].dir, c[1].name>>]
  OBVIOUS
<1> HIDE DEF g
<1>10. \A c \in S : g[c] \in T
  BY <1>4
<1> HIDE DEF S
<1>11. ASSUME NEW x \in S PROVE \E p \in Mirrored : \E n \in Names : x = Twins(p, n) /\ g[x] = <<p[1], n>>
  <2>1. PICK p \in Mirrored, n \in Names : x = Twins(p, n) /\ g[x] = <<p[1], n>> /\ <<p[1], n>> \in T
    BY ONLY <1>4, x \in S, Zenon
  <2> QED BY ONLY <2>1, p \in Mirrored, n \in Names, Zenon
<1>7. g \in [S -> T]
  <2> DEFINE h(c) == <<c[1].dir, c[1].name>>
  <2>1. g = [c \in S |-> h(c)]
    BY <1>6
  <2>2. \A c \in S : g[c] = h(c)
    BY <2>1
  <2> HIDE DEF h
  <2>3. \A c \in S : h(c) \in T
    BY <2>2, <1>10
  <2> QED BY <2>1, <2>3
<1>8. \A c, d \in S : g[c] = g[d] => c = d
  <2> SUFFICES ASSUME NEW c \in S, NEW d \in S, g[c] = g[d] PROVE c = d
    OBVIOUS
  <2>1. PICK p \in Mirrored, n \in Names : c = Twins(p, n) /\ g[c] = <<p[1], n>>
    BY <1>11
  <2>2. PICK q \in Mirrored, m \in Names : d = Twins(q, m) /\ g[d] = <<q[1], m>>
    BY <1>11
  <2>3. p[1] = q[1] /\ n = m
    BY <2>1, <2>2
  <2> QED BY <2>1, <2>2, <2>3, <1>1
<1>9. Cardinality(T) = Cardinality(S)
  BY <1>3, <1>5, <1>7, <1>8, SameNumber
<1> QED BY <1>9 DEF Found, S

\* When XC ran on whole trees with -s alone, over a copy of the files as they were before XREP,
\* the trees give the numbers of new and of changed files.
LEMMA FoundByXc ==
  ASSUME TypeInv, IsTree(disk), Finished, ~job.single, job.flag = Names, job.opt = {"scandir"},
         \A p \in Mirrored : \A n \in Names :
                /\ Readable(disk, p[2], n) <=> Readable(first, p[1], n)
                /\ Readable(first, p[1], n) => Text(disk, p[2], n) = Text(first, p[1], n),
         NEW old, NEW new,
         old = UNION {{<<p[1], n>> : n \in {n \in Names : Readable(first, p[1], n)}} : p \in Mirrored},
         new = UNION {{<<p[1], n>> : n \in {n \in Names : Readable(disk, p[1], n)}} : p \in Mirrored}
  PROVE  /\ Found("different") = Cardinality({f \in old \intersect new : ~Unchanged(f[1], f[2])})
         /\ Found("missing") = Cardinality(new \ old)
<1>1. \A z \in old : \E p \in Mirrored : \E n \in Names : z = <<p[1], n>>
  OBVIOUS
<1>2. \A z \in new : \E p \in Mirrored : \E n \in Names : z = <<p[1], n>>
  OBVIOUS
<1>3. \A p \in Mirrored : \A n \in Names : <<p[1], n>> \in old <=> Readable(first, p[1], n)
  OBVIOUS
<1>4. \A p \in Mirrored : \A n \in Names : <<p[1], n>> \in new <=> Readable(disk, p[1], n)
  OBVIOUS
<1>5. ASSUME NEW p \in Mirrored, NEW n \in Names
      PROVE  /\ Compare(Twins(p, n)[1], Twins(p, n)[2], job.opt) = "missing"
                  <=> Readable(disk, p[1], n) /\ ~Readable(first, p[1], n)
             /\ Compare(Twins(p, n)[1], Twins(p, n)[2], job.opt) = "different"
                  <=> Readable(disk, p[1], n) /\ Readable(first, p[1], n) /\ Text(disk, p[1], n) # Text(first, p[1], n)
  <2>1. /\ Twins(p, n)[1].dir = p[1] /\ Twins(p, n)[1].name = n
        /\ Twins(p, n)[2].dir = p[2] /\ Twins(p, n)[2].name = n
    BY DEF Twins
  <2>2. /\ Readable(disk, p[2], n) <=> Readable(first, p[1], n)
        /\ Readable(first, p[1], n) => Text(disk, p[2], n) = Text(first, p[1], n)
    OBVIOUS
  <2> QED BY <2>1, <2>2 DEF Compare
<1> DEFINE C == {f \in old \intersect new : ~Unchanged(f[1], f[2])}
<1>6. \A p \in Mirrored : \A n \in Names :
         <<p[1], n>> \in C <=> Readable(disk, p[1], n) /\ Compare(Twins(p, n)[1], Twins(p, n)[2], job.opt) = "different"
  BY <1>3, <1>4, <1>5 DEF Unchanged
<1>7. \A p \in Mirrored : \A n \in Names :
         <<p[1], n>> \in new \ old <=> Readable(disk, p[1], n) /\ Compare(Twins(p, n)[1], Twins(p, n)[2], job.opt) = "missing"
  BY <1>3, <1>4, <1>5
<1>8. \A z \in C : \E p \in Mirrored : \E n \in Names : z = <<p[1], n>>
  BY <1>1
<1>9. \A z \in new \ old : \E p \in Mirrored : \E n \in Names : z = <<p[1], n>>
  BY <1>2
<1>10. \A p \in Mirrored : \A n \in Names :
          /\ Compare(Twins(p, n)[1], Twins(p, n)[2], job.opt) = "missing" => Readable(disk, p[1], n)
          /\ Compare(Twins(p, n)[1], Twins(p, n)[2], job.opt) = "different" => Readable(disk, p[1], n)
  BY <1>5
<1> HIDE DEF C
<1>11. Found("different") = Cardinality(C)
  BY <1>6, <1>8, <1>10, FoundFiles
<1>12. Found("missing") = Cardinality(new \ old)
  BY <1>7, <1>9, <1>10, FoundFiles
<1> QED BY <1>11, <1>12 DEF C

\* XcFindsWhatXrepDid: whatever XREP did to a tree, XC with an untouched copy reports as different
\* just the files that are still there with other bytes and as not found just those that are new.
THEOREM XcReportsWhatXrepDid == Spec => []XcFindsWhatXrepDid
<1>1. TypeInv /\ IsTree(disk) /\ XcInv => XcFindsWhatXrepDid
  <2> SUFFICES ASSUME TypeInv, IsTree(disk), XcInv PROVE XcFindsWhatXrepDid
    OBVIOUS
  <2> DEFINE old == UNION {{<<p[1], n>> : n \in {n \in Names : Readable(first, p[1], n)}} : p \in Mirrored}
             new == UNION {{<<p[1], n>> : n \in {n \in Names : Readable(disk, p[1], n)}} : p \in Mirrored}
             copy == \A p \in Mirrored : \A n \in Names :
                        /\ Readable(disk, p[2], n) <=> Readable(first, p[1], n)
                        /\ Readable(first, p[1], n) => Text(disk, p[2], n) = Text(first, p[1], n)
             right == /\ count.negative = Cardinality({f \in old \intersect new : ~Unchanged(f[1], f[2])})
                      /\ count.notfound = Cardinality(new \ old)
  <2>1. ASSUME AtPrompt("xc"), xcEnding = "normal", job.opt = {"scandir"}, job.flag = Names, ~job.single, copy
        PROVE  right
    <3>1. Finished
      BY <2>1 DEF XcInv, XcDone
    <3> HIDE DEF old, new
    <3>2. /\ Found("different") = Cardinality({f \in old \intersect new : ~Unchanged(f[1], f[2])})
          /\ Found("missing") = Cardinality(new \ old)
      BY <2>1, <3>1, FoundByXc DEF old, new
    <3>3. Found("different") \in Nat
      BY <3>1, FS_Subset, FS_CardinalityType DEF Finished, Found
    <3>4. "existance" \notin job.opt
      BY <2>1
    <3>5. /\ count.notfound = Found("missing")
          /\ count.negative = Found("different") + IF "existance" \in job.opt THEN Found("missing") ELSE 0
      BY <3>1 DEF Finished, CountsTheTrees
    <3>6. count.negative = Found("different")
      BY ONLY <3>3, <3>4, <3>5
    <3> QED BY <3>2, <3>5, <3>6
  <2> QED BY <2>1 DEF XcFindsWhatXrepDid
<1> QED BY <1>1, TypesHold, TreeHolds, XcHolds, PTL

=============================================================================
