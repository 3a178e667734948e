-------------------------- MODULE DosSessionProofs --------------------------
(***************************************************************************)
(* Theorems about a session of XREP and XC: XREP loses no text without a   *)
(* warning, Escape restores, and both programs come home.                  *)
(***************************************************************************)
EXTENDS DosSession, DosDiskProofs, SequenceTheorems

-----------------------------------------------------------------------------
(* Texts and lines.                                                         *)

\* Replacing the first occurrence of a string in a text makes a text.
LEMMA ReplacedOnce ==
  ASSUME NEW r \in Seq(STRING), NEW s \in Seq(STRING), NEW t \in Seq(STRING)
  PROVE  ReplaceFirstSubSeq(r, s, t) \in Seq(STRING)
<1>1. CASE s \notin SubSeqs(t)
  BY <1>1 DEF ReplaceFirstSubSeq
<1>2. CASE s \in SubSeqs(t)
  <2> DEFINE Has(i) == s \in SubSeqs(SubSeq(t, 1, i))
             I == {i \in 0..Len(t) : Has(i)}
             end == CHOOSE i \in 0..Len(t) : Has(i) /\ \A j \in 0..(i - 1) : ~Has(j)
  <2>1. Len(t) \in I
    <3>1. SubSeq(t, 1, Len(t)) = t /\ Len(t) \in 0..Len(t)
      OBVIOUS
    <3>2. Has(Len(t))
      BY <3>1, <1>2, Zenon
    <3> HIDE DEF Has
    <3> QED BY <3>1, <3>2
  <2>2. I \in SUBSET Nat
    OBVIOUS
  <2>3. PICK i \in I : \A j \in I : i <= j
    <3> HIDE DEF I
    <3> QED BY <2>1, <2>2, LeastNumber
  <2>4. i \in 0..Len(t) /\ Has(i)
    BY <2>3
  <2>5. ASSUME NEW j \in 0..(i - 1), Has(j) PROVE FALSE
    <3>1. j \in I
      BY <2>4, <2>5
    <3> QED BY <3>1, <2>3, <2>4
  <2> HIDE DEF Has
  <2>6. end \in 0..Len(t) /\ Has(end)
    BY <2>4, <2>5
  <2>7. IndexFirstSubSeq(s, t) = end - (Len(s) - 1)
    BY DEF IndexFirstSubSeq, Has
  <2> HIDE DEF end
  <2>8. Len(s) <= end /\ Len(s) \in Nat
    <3> DEFINE u == SubSeq(t, 1, end)
    <3>1. u \in Seq(STRING) /\ Len(u) = end
      BY <2>6
    <3>4. s \in SubSeqs(u)
      BY <2>6 DEF Has
    <3> HIDE DEF u
    <3>2. PICK a \in 0..Len(u), b \in 0..Len(u) : s = SubSeq(u, a + 1, b)
      BY <3>4 DEF SubSeqs
    <3>3. Len(s) = IF a + 1 <= b THEN b - (a + 1) + 1 ELSE 0
      BY <3>1, <3>2
    <3> QED BY <3>1, <3>2, <3>3, <2>6
  <2> DEFINE p == end - Len(s)
  <2>9. /\ p \in 0..Len(t) /\ end - (Len(s) - 1) - 1 = p /\ end - (Len(s) - 1) + Len(s) = end + 1
    BY <2>6, <2>8
  <2>10. ReplaceFirstSubSeq(r, s, t) = (SubSeq(t, 1, p) \o r) \o SubSeq(t, end + 1, Len(t))
    BY <1>2, <2>7, <2>9 DEF ReplaceFirstSubSeq, ReplaceSubSeqAt
  <2>11. SubSeq(t, 1, p) \in Seq(STRING) /\ SubSeq(t, end + 1, Len(t)) \in Seq(STRING)
    BY <2>6, <2>9
  <2> QED BY <2>10, <2>11
<1> QED BY <1>1, <1>2

\* What the pairs make of a line: a text, the same one when nothing was replaced.
LEMMA ReplacedFacts ==
  ASSUME setup.pairs \in Seq(TextPair), NEW line \in Seq(STRING)
  PROVE  /\ Replaced(line).line \in Seq(STRING) /\ Replaced(line).count \in Nat
         /\ Replaced(line).count = 0 => Replaced(line).line = line
<1> DEFINE pairs == setup.pairs
           S == DOMAIN pairs
           V == [line : Seq(STRING), count : Nat]
           base == [line |-> line, count |-> 0]
           op(a, p) == IF ReplaceFirstSubSeq(p.to, p.from, a.line) = a.line THEN a
                       ELSE [line |-> ReplaceFirstSubSeq(p.to, p.from, a.line), count |-> a.count + 1]
           F(it) == [s \in SUBSET S |-> IF s = {} THEN base ELSE op(it[s \ {Max(s)}], pairs[Max(s)])]
           iter == CHOOSE it : it = F(it)
           ch == [s \in SUBSET S |-> Max(s)]
           h == [q \in S \X V |-> op(q[2], pairs[q[1]])]
           n == Len(pairs)
<1>1. Replaced(line) = iter[S]
  BY DEF Replaced, FoldLeft, MapThenFoldSet
<1>2. n \in Nat /\ S = 1..n /\ \A i \in S : pairs[i] \in TextPair
  OBVIOUS
<1>3. ASSUME NEW a \in V, NEW p \in TextPair PROVE op(a, p) \in V
  <2>1. a.line \in Seq(STRING) /\ a.count \in Nat /\ p.to \in Seq(STRING) /\ p.from \in Seq(STRING)
    BY DEF TextPair
  <2>2. ReplaceFirstSubSeq(p.to, p.from, a.line) \in Seq(STRING)
    BY <2>1, ReplacedOnce
  <2> QED BY <2>1, <2>2
<1>4. base \in V
  OBVIOUS
<1> HIDE DEF V
<1>5. \E it : it = F(it)
  <2>1. IsFiniteSet(S)
    BY <1>2, FS_Interval
  <2>2. \A s \in SUBSET S : s # {} => ch[s] \in s
    BY <1>2, MaxOfNumbers
  <2>3. \A x \in S, v \in V : h[<<x, v>>] = op(v, pairs[x]) /\ h[<<x, v>>] \in V
    <3> HIDE DEF op, S, pairs
    <3> QED BY <1>2, <1>3
  <2> HIDE DEF ch, h, S, base, op
  <2>4. Chooses(S, ch) /\ StepsIn(S, V, h)
    BY <2>2, <2>3 DEF Chooses, StepsIn
  <2>5. Recursions(S, V, base, ch, h) # {}
    BY <2>1, <2>4, <1>4, Recursion
  <2>6. PICK it \in [SUBSET S -> V] :
               it = [s \in SUBSET S |-> IF s = {} THEN base ELSE h[<<ch[s], it[s \ {ch[s]}]>>]]
    BY <2>5 DEF Recursions
  <2>7. \A s \in SUBSET S : s # {} => /\ ch[s] = Max(s) /\ ch[s] \in S
                                      /\ h[<<ch[s], it[s \ {ch[s]}]>>] = op(it[s \ {Max(s)}], pairs[Max(s)])
    BY <2>2, <2>3 DEF ch
  <2>8. it = F(it)
    BY <2>6, <2>7
  <2> QED BY <2>8
<1>6. iter = F(iter)
  <2> HIDE DEF F
  <2> QED BY <1>5
<1> HIDE DEF iter
<1>7. iter[{}] = base
  <2>1. iter[{}] = F(iter)[{}]
    BY <1>6
  <2> QED BY <2>1
<1>8. ASSUME NEW k \in 1..n PROVE iter[1..k] = op(iter[1..(k - 1)], pairs[k])
  <2>1. 1..k \in SUBSET S /\ 1..k # {}
    BY <1>2
  <2>2. Max(1..k) \in 1..k /\ \A y \in 1..k : Max(1..k) >= y
    BY <1>2, <2>1, MaxOfNumbers
  <2>3. Max(1..k) = k
    BY <2>2
  <2>4. (1..k) \ {k} = 1..(k - 1)
    OBVIOUS
  <2>5. iter[1..k] = F(iter)[1..k]
    BY <1>6
  <2> HIDE DEF op, S
  <2>6. F(iter)[1..k] = op(iter[(1..k) \ {Max(1..k)}], pairs[Max(1..k)])
    BY <2>1
  <2> QED BY <2>3, <2>4, <2>5, <2>6
<1> DEFINE Good(a) == a \in V /\ (a.count = 0 => a.line = line)
           P == {k \in Nat : k <= n => Good(iter[1..k])}
<1>9. Good(base)
  BY <1>4
<1>10. ASSUME NEW a, Good(a), NEW p \in TextPair PROVE Good(op(a, p))
  <2>1. op(a, p) \in V
    BY <1>3, <1>10
  <2>2. a.count \in Nat
    BY <1>10 DEF V
  <2>3. op(a, p) = a \/ op(a, p).count = a.count + 1
    OBVIOUS
  <2> HIDE DEF op
  <2> QED BY <2>1, <2>2, <2>3, <1>10
<1>11. P = Nat
  <2>1. 0 \in P
    BY <1>7, <1>9
  <2>2. ASSUME NEW k \in P PROVE k + 1 \in P
    <3> HIDE DEF op, Good, S, pairs
    <3>1. CASE k + 1 <= n
      <4>1. k + 1 \in 1..n /\ k + 1 - 1 = k /\ k <= n /\ k + 1 \in S
        BY <3>1, <1>2
      <4>2. iter[1..(k + 1)] = op(iter[1..k], pairs[k + 1])
        BY <4>1, <1>8
      <4>3. Good(iter[1..k]) /\ pairs[k + 1] \in TextPair
        BY <4>1, <1>2
      <4>4. Good(iter[1..(k + 1)])
        BY <4>2, <4>3, <1>10
      <4> QED BY <4>4
    <3> QED BY <3>1, <1>2
  <2>3. P \in SUBSET Nat
    BY DEF P
  <2> HIDE DEF P
  <2> QED BY <2>1, <2>2, <2>3, NumbersInduct
<1>12. Good(iter[1..n])
  <2> HIDE DEF Good
  <2> QED BY <1>2, <1>11
<1> QED BY <1>1, <1>2, <1>12 DEF V

\* The last of a sequence, and what is before it.
LEMMA FrontAndLast ==
  ASSUME NEW S, NEW s \in Seq(S), s # <<>>
  PROVE  /\ Len(s) \in Nat \ {0} /\ Last(s) \in S /\ Last(s) = s[Len(s)]
         /\ Front(s) \in Seq(S) /\ (Len(s) # 1 => Front(s) # <<>>)
<1>1. Len(s) \in Nat \ {0}
  OBVIOUS
<1> DEFINE k == Len(s) - 1
<1>2. k \in Nat /\ \A i \in 1..k : i \in 1..Len(s)
  BY <1>1
<1>3. Front(s) = SubSeq(s, 1, k)
  BY DEF Front
<1>4. k # 0 <=> Len(s) # 1
  BY <1>1
<1> HIDE DEF k
<1>5. Front(s) \in Seq(S) /\ Len(Front(s)) = IF 1 <= k THEN k - 1 + 1 ELSE 0
  BY <1>2, <1>3, SubSeqProperties
<1> QED BY <1>1, <1>2, <1>4, <1>5 DEF Last

\* What has been read of a container, and a line of it.
Readings == [last : TextPair, waiting : BOOLEAN, pairs : Seq(TextPair)]
TextLine == [kind : {"comment", "single", "pair"}, pair : TextPair]

\* Reading a line keeps pairs of texts.
LEMMA LineRead == ASSUME NEW r \in Readings, NEW l \in TextLine PROVE ReadLine(r, l) \in Readings
<1>1. /\ r.last \in TextPair /\ r.waiting \in BOOLEAN /\ r.pairs \in Seq(TextPair)
      /\ r = [last |-> r.last, waiting |-> r.waiting, pairs |-> r.pairs]
      /\ l.pair \in TextPair /\ l.kind \in {"comment", "single", "pair"}
  BY DEF Readings, TextLine
<1>2. ASSUME NEW p \in TextPair PROVE Read(r, p) \in Readings
  <2>1. Keep(r.pairs, p) \in Seq(TextPair)
    BY <1>1 DEF Keep
  <2> QED BY <2>1 DEF Read, Readings
<1>3. \A p \in TextPair, q \in TextPair : [from |-> p.from, to |-> q.from] \in TextPair
  BY DEF TextPair
<1>4. CASE r.waiting
  <2> DEFINE p == [from |-> r.last.from, to |-> l.pair.from]
  <2>1. p \in TextPair
    BY <1>1, <1>3
  <2>2. ReadLine(r, l) = Read(r, p)
    BY <1>4 DEF ReadLine
  <2> HIDE DEF p
  <2> QED BY <2>1, <2>2, <1>2
<1>5. CASE ~r.waiting /\ l.kind = "comment"
  <2>1. ReadLine(r, l) = Read(r, r.last)
    BY <1>5 DEF ReadLine
  <2> QED BY <2>1, <1>1, <1>2
<1>6. CASE ~r.waiting /\ l.kind = "pair"
  <2>1. ReadLine(r, l) = Read(r, l.pair)
    BY <1>6 DEF ReadLine
  <2> QED BY <2>1, <1>1, <1>2
<1>7. CASE ~r.waiting /\ l.kind = "single"
  <2> DEFINE q == [r.last EXCEPT !.from = l.pair.from]
  <2>1. q \in TextPair
    BY <1>1 DEF TextPair
  <2>2. ReadLine(r, l) = [r EXCEPT !.last.from = l.pair.from, !.waiting = TRUE]
    BY <1>7 DEF ReadLine
  <2> DEFINE u == [r EXCEPT !.last.from = l.pair.from, !.waiting = TRUE]
  <2>3. u = [r EXCEPT !.last = q, !.waiting = TRUE]
    BY <1>1 DEF Readings
  <2>4. u = [last |-> q, waiting |-> TRUE, pairs |-> r.pairs]
    <3> HIDE DEF q, u
    <3> QED BY <2>3, <1>1
  <2>5. ReadLine(r, l) = u
    BY <2>2
  <2> HIDE DEF q, u
  <2> QED BY <2>1, <2>4, <2>5, <1>1 DEF Readings
<1> QED BY <1>1, <1>4, <1>5, <1>6, <1>7

\* A container that is not empty makes a sequence of pairs.
LEMMA ReplacementsType ==
  ASSUME NEW c \in Container, c.lines # <<>>
  PROVE  Replacements(c) \in Seq(TextPair)
<1> DEFINE lines == Front(c.lines)
           op(r, l) == ReadLine(r, l)
           Line == TextLine
           S == DOMAIN lines
           V == Readings
           base == NothingRead
           F(it) == [s \in SUBSET S |-> IF s = {} THEN base ELSE op(it[s \ {Max(s)}], lines[Max(s)])]
           iter == CHOOSE it : it = F(it)
           ch == [s \in SUBSET S |-> Max(s)]
           h == [q \in S \X V |-> op(q[2], lines[q[1]])]
           n == Len(lines)
<1>1. FoldLeft(ReadLine, NothingRead, lines) = iter[S]
  BY DEF FoldLeft, MapThenFoldSet
<1>2. n \in Nat /\ (S = 1..n) /\ (\A i \in S : lines[i] \in Line) /\ Last(c.lines) \in Line
  <2>1. c.lines \in Seq(Line)
    BY DEF Container, TextLine
  <2>2. lines \in Seq(Line) /\ Last(c.lines) \in Line
    BY <2>1, FrontAndLast
  <2> HIDE DEF lines, Line
  <2> QED BY <2>2
<1>3. NoPair \in TextPair
  BY DEF NoPair, TextPair
<1>4. ASSUME NEW a \in V, NEW l \in Line PROVE op(a, l) \in V
  BY LineRead
<1>5. base \in V
  BY <1>3 DEF NothingRead, Readings
<1> HIDE DEF V, Line, op, lines
<1>6. \E it : it = F(it)
  <2>1. IsFiniteSet(S)
    BY <1>2, FS_Interval
  <2>2. \A s \in SUBSET S : s # {} => ch[s] \in s
    BY <1>2, MaxOfNumbers
  <2>3. \A x \in S, v \in V : h[<<x, v>>] = op(v, lines[x]) /\ h[<<x, v>>] \in V
    <3> HIDE DEF S
    <3> QED BY <1>2, <1>4
  <2> HIDE DEF ch, h, S, base
  <2>4. Chooses(S, ch) /\ StepsIn(S, V, h)
    BY <2>2, <2>3 DEF Chooses, StepsIn
  <2>5. Recursions(S, V, base, ch, h) # {}
    BY <2>1, <2>4, <1>5, Recursion
  <2>6. PICK it \in [SUBSET S -> V] :
               it = [s \in SUBSET S |-> IF s = {} THEN base ELSE h[<<ch[s], it[s \ {ch[s]}]>>]]
    BY <2>5 DEF Recursions
  <2>7. \A s \in SUBSET S : s # {} => /\ ch[s] = Max(s) /\ ch[s] \in S
                                      /\ h[<<ch[s], it[s \ {ch[s]}]>>] = op(it[s \ {Max(s)}], lines[Max(s)])
    BY <2>2, <2>3 DEF ch
  <2>8. it = F(it)
    BY <2>6, <2>7
  <2> QED BY <2>8
<1>7. iter = F(iter)
  <2> HIDE DEF F
  <2> QED BY <1>6
<1> HIDE DEF iter
<1>8. iter[{}] = base
  <2>1. iter[{}] = F(iter)[{}]
    BY <1>7
  <2> QED BY <2>1
<1>9. ASSUME NEW k \in 1..n PROVE iter[1..k] = op(iter[1..(k - 1)], lines[k])
  <2>1. 1..k \in SUBSET S /\ 1..k # {}
    BY <1>2
  <2>2. Max(1..k) \in 1..k /\ \A y \in 1..k : Max(1..k) >= y
    BY <1>2, <2>1, MaxOfNumbers
  <2>3. Max(1..k) = k
    BY <2>2
  <2>4. (1..k) \ {k} = 1..(k - 1)
    OBVIOUS
  <2>5. iter[1..k] = F(iter)[1..k]
    BY <1>7
  <2> HIDE DEF S
  <2>6. F(iter)[1..k] = op(iter[(1..k) \ {Max(1..k)}], lines[Max(1..k)])
    BY <2>1
  <2> QED BY <2>3, <2>4, <2>5, <2>6
<1> DEFINE P == {k \in Nat : k <= n => iter[1..k] \in V}
<1>10. P = Nat
  <2>1. 0 \in P
    BY <1>5, <1>8
  <2>2. ASSUME NEW k \in P PROVE k + 1 \in P
    <3> HIDE DEF S
    <3>1. CASE k + 1 <= n
      <4>1. k + 1 \in 1..n /\ k + 1 - 1 = k /\ k <= n /\ k + 1 \in S
        BY <3>1, <1>2
      <4>2. iter[1..(k + 1)] = op(iter[1..k], lines[k + 1])
        BY <4>1, <1>9
      <4>3. iter[1..k] \in V /\ lines[k + 1] \in Line
        BY <4>1, <1>2
      <4>4. iter[1..(k + 1)] \in V
        BY <4>2, <4>3, <1>4
      <4> QED BY <4>4
    <3> QED BY <3>1, <1>2
  <2>3. P \in SUBSET Nat
    BY DEF P
  <2> HIDE DEF P
  <2> QED BY <2>1, <2>2, <2>3, NumbersInduct
<1>11. iter[1..n] \in V
  BY <1>2, <1>10
<1> DEFINE read == FoldLeft(ReadLine, NothingRead, Front(c.lines))
<1>12. read \in Readings
  BY <1>1, <1>2, <1>11 DEF V, lines
<1>13. Replacements(c) \in {ReadLine(read, Last(c.lines)).pairs, read.pairs}
  BY DEF Replacements
<1> HIDE DEF read
<1>14. ReadLine(read, Last(c.lines)) \in Readings
  BY <1>2, <1>12, LineRead DEF Line
<1> QED BY <1>12, <1>13, <1>14 DEF Readings

\* A count that has not gone past the largest int is the number of replacements.
LEMMA CountKept ==
  ASSUME NEW n \in Int, NEW k \in Nat
  PROVE  AsInt(n + k) \in Int /\ (n \in Nat /\ ~(n + k > MaxInt) => AsInt(n + k) = n + k)
<1> DEFINE x == n + k
<1>1. x \in Int /\ (n \in Nat => x \in Nat) /\ MaxInt \in Nat
  BY XrepAssumption
<1> HIDE DEF x
<1>2. AsInt(x) \in Int /\ (x \in Nat /\ ~(x > MaxInt) => AsInt(x) = x)
  BY <1>1 DEF AsInt
<1> QED BY <1>1, <1>2 DEF x

\* A line is what is left up to its end, or all of it and the EOF as a character.
LEMMA NextLineFacts ==
  ASSUME rest \in Seq(STRING)
  PROVE  /\ NextLine \in Seq(STRING)
         /\ SubSeq(rest, Len(NextLine) + 1, Len(rest)) \in Seq(STRING)
         /\ Len(NextLine) <= Len(rest) => NextLine \o SubSeq(rest, Len(NextLine) + 1, Len(rest)) = rest
         /\ Len(NextLine) > Len(rest) => NextLine = Append(rest, EOFCHAR)
<1> DEFINE nl == SelectInSeq(rest, LAMBDA c : c = NL)
           I == {i \in 1..Len(rest) : rest[i] = NL}
<1>1. Len(rest) \in Nat /\ sline_ssize \in Nat /\ EOFCHAR \in STRING
  BY XrepAssumption
<1>2. nl \in 0..Len(rest)
  <2>1. nl = IF I # {} THEN Min(I) ELSE 0
    BY DEF SelectInSeq
  <2>2. I \in SUBSET Nat
    BY <1>1
  <2>3. I # {} => Min(I) \in I
    BY <2>2, MinOfNumbers
  <2> QED BY <1>1, <2>1, <2>3
<1>3. \/ NextLine = SubSeq(rest, 1, nl) /\ nl \in 1..(sline_ssize + 1)
      \/ NextLine = SubSeq(rest, 1, sline_ssize + 1) /\ Len(rest) > sline_ssize
      \/ NextLine = Append(rest, EOFCHAR)
  <2>1. CASE nl \in 1..(sline_ssize + 1)
    BY <2>1 DEF NextLine
  <2>2. CASE nl \notin 1..(sline_ssize + 1) /\ Len(rest) > sline_ssize
    BY <2>2 DEF NextLine
  <2>3. CASE nl \notin 1..(sline_ssize + 1) /\ ~(Len(rest) > sline_ssize)
    BY <2>3 DEF NextLine
  <2> QED BY <2>1, <2>2, <2>3
<1> HIDE DEF nl
<1>4. ASSUME NEW k \in 1..Len(rest), NextLine = SubSeq(rest, 1, k)
      PROVE  /\ NextLine \in Seq(STRING) /\ Len(NextLine) = k
             /\ SubSeq(rest, k + 1, Len(rest)) \in Seq(STRING)
             /\ NextLine \o SubSeq(rest, k + 1, Len(rest)) = rest
  <2>1. SubSeq(rest, 1, k) \in Seq(STRING) /\ Len(SubSeq(rest, 1, k)) = k
    BY <1>1
  <2>2. SubSeq(rest, k + 1, Len(rest)) \in Seq(STRING)
    BY <1>1
  <2>3. SubSeq(rest, 1, k) \o SubSeq(rest, k + 1, Len(rest)) = SubSeq(rest, 1, Len(rest))
    BY <1>1, ConcatAdjacentSubSeq
  <2>4. SubSeq(rest, 1, Len(rest)) = rest
    BY <1>1
  <2> QED BY <1>4, <2>1, <2>2, <2>3, <2>4
<1>5. CASE NextLine = Append(rest, EOFCHAR)
  <2>1. NextLine \in Seq(STRING) /\ Len(NextLine) = Len(rest) + 1
    BY <1>1, <1>5, AppendProperties
  <2>2. SubSeq(rest, Len(rest) + 1 + 1, Len(rest)) \in Seq(STRING)
    <3>1. Len(rest) + 1 + 1 \in Int /\ Len(rest) \in Int /\ \A i \in (Len(rest) + 1 + 1)..Len(rest) : rest[i] \in STRING
      BY <1>1
    <3> QED BY <3>1, SubSeqProperties
  <2>3. Len(NextLine) > Len(rest) /\ ~(Len(NextLine) <= Len(rest)) /\ Len(NextLine) + 1 = Len(rest) + 1 + 1
    BY <1>1, <2>1
  <2> QED BY <1>5, <2>1, <2>2, <2>3
<1>6. CASE \E k \in 1..Len(rest) : NextLine = SubSeq(rest, 1, k)
  <2>1. PICK k \in 1..Len(rest) : NextLine = SubSeq(rest, 1, k)
    BY <1>6
  <2>2. /\ NextLine \in Seq(STRING) /\ Len(NextLine) = k
        /\ SubSeq(rest, k + 1, Len(rest)) \in Seq(STRING)
        /\ NextLine \o SubSeq(rest, k + 1, Len(rest)) = rest
    BY <2>1, <1>4
  <2>3. ~(Len(NextLine) > Len(rest))
    BY <1>1, <2>2
  <2> QED BY <2>2, <2>3
<1>7. NextLine = Append(rest, EOFCHAR) \/ \E k \in 1..Len(rest) : NextLine = SubSeq(rest, 1, k)
  <2>1. nl \in 1..(sline_ssize + 1) => nl \in 1..Len(rest)
    BY <1>1, <1>2
  <2>2. Len(rest) > sline_ssize => sline_ssize + 1 \in 1..Len(rest)
    BY <1>1
  <2> QED BY <1>3, <2>1, <2>2
<1> QED BY <1>5, <1>6, <1>7

\* The EOF at the end of a text is left out of what it holds.
LEMMA StrippedEof == ASSUME NEW t \in Seq(STRING)
                     PROVE  Stripped(Append(t, EOFCHAR)) = Stripped(t)
<1> DEFINE u == Append(t, EOFCHAR)
           I == {i \in 1..Len(t) : t[i] # EOFCHAR}
           J == {i \in 1..Len(u) : u[i] # EOFCHAR}
<1>1. Len(t) \in Nat /\ Len(u) = Len(t) + 1 /\ u[Len(t) + 1] = EOFCHAR /\ \A i \in 1..Len(t) : u[i] = t[i]
  OBVIOUS
<1>2. I = J
  <2> HIDE DEF u
  <2> QED BY <1>1
<1> DEFINE k == IF I # {} THEN Max(I) ELSE 0
<1>3. Stripped(t) = SubSeq(t, 1, k)
  BY DEF Stripped, SelectLastInSeq
<1>4. Stripped(u) = SubSeq(u, 1, k)
  <2>1. Stripped(u) = SubSeq(u, 1, IF J # {} THEN Max(J) ELSE 0)
    BY DEF Stripped, SelectLastInSeq
  <2> HIDE DEF I, J, u
  <2> QED BY <2>1, <1>2
<1>5. k \in 0..Len(t)
  <2>1. I # {} => Max(I) \in I
    BY <1>1, MaxOfNumbers
  <2> QED BY <1>1, <2>1
<1> HIDE DEF k
<1>6. SubSeq(u, 1, k) = SubSeq(t, 1, k)
  <2>1. EOFCHAR \in STRING
    BY XrepAssumption
  <2>5. u \in Seq(STRING)
    BY <2>1, AppendProperties
  <2> HIDE DEF u
  <2>6. \A i \in 1..k : u[i] \in STRING /\ t[i] \in STRING
    BY <1>1, <1>5, <2>5
  <2>2. SubSeq(u, 1, k) \in Seq(STRING) /\ SubSeq(t, 1, k) \in Seq(STRING)
    BY <1>5, <2>6, SubSeqProperties
  <2>3. Len(SubSeq(u, 1, k)) = k /\ Len(SubSeq(t, 1, k)) = k
    BY <1>1, <1>5
  <2>4. \A i \in 1..k : SubSeq(u, 1, k)[i] = u[i] /\ SubSeq(t, 1, k)[i] = t[i] /\ u[i] = t[i]
    BY <1>1, <1>5
  <2> DEFINE a == SubSeq(u, 1, k)
             b == SubSeq(t, 1, k)
  <2>7. a \in Seq(STRING) /\ b \in Seq(STRING) /\ Len(a) = Len(b) /\ \A i \in 1..Len(a) : a[i] = b[i]
    BY <2>2, <2>3, <2>4
  <2> HIDE DEF a, b
  <2>8. a = b
    BY <2>7, SeqEqual
  <2> QED BY <2>8 DEF a, b
<1> QED BY <1>3, <1>4, <1>6

\* A search finds an entry with one of the names and attributes, behind where it started.
LEMMA FoundEntry ==
  ASSUME NEW dk, WellFormed(dk), NEW d \in Dirs, NEW names, NEW attrs, NEW i \in Nat
  PROVE  /\ Find(dk, d, names, attrs, i) \in 0..Len(dk[d])
         /\ Find(dk, d, names, attrs, i) # 0 =>
               /\ Find(dk, d, names, attrs, i) \in (i + 1)..Len(dk[d])
               /\ dk[d][Find(dk, d, names, attrs, i)].name \in names
               /\ dk[d][Find(dk, d, names, attrs, i)].attr \in attrs
<1> DEFINE I == {j \in (i + 1)..Len(dk[d]) : dk[d][j].name \in names /\ dk[d][j].attr \in attrs}
<1>1. Find(dk, d, names, attrs, i) = IF I # {} THEN Min(I) ELSE 0
  BY DEF Find, SelectInSubSeq
<1>2. Len(dk[d]) \in Nat
  BY SlotFound
<1>3. I \in SUBSET Nat
  BY <1>2
<1>4. I # {} => Min(I) \in I
  BY <1>3, MinOfNumbers
<1> QED BY <1>1, <1>2, <1>4

-----------------------------------------------------------------------------
(* Types.                                                                   *)

Setup     == [dir : Dirs \union {NoDir}, flag : SUBSET Names, nosubdirs : BOOLEAN, pairs : Seq(TextPair)]
Frame     == [dir : Dirs, at : Nat, slash : BOOLEAN]
TrailStep == [dir : Dirs, at : Nat, path : Seq(Names), old : Seq(Names)]

Copying   == {"prompt", "backup", "reopen", "lines", "tail", "restore"}
Rewriting == {"lines", "tail", "restore"}

DiskType == WellFormed(disk) /\ Used(disk) <= Room

XrepType ==
    /\ phase \in {"idle", "flag", "prompt", "backup", "reopen", "lines", "tail", "restore", "subdirs"}
    /\ setup \in Setup
    /\ frames \in Seq(Frame) /\ (phase # "idle" => frames # <<>>)
    /\ file \in [dir : Dirs \union {NoDir}, name : Names] /\ (phase \in Copying => file.dir \in Dirs)
    /\ rest \in Seq(STRING) /\ local_replacement \in Int /\ (~wrapped => local_replacement \in Nat)
    /\ curdir \in Dirs

XcType ==
    /\ xcPhase \in {"idle", "scan", "paused", "pausedfile"}
    /\ trail \in Seq(TrailStep) /\ (xcPhase \in {"scan", "paused"} => trail # <<>>)
    /\ logged \in Seq(Names)
    /\ home \in Dirs

\* The attributes of the file being replaced and of its backup, as the steps leave them.
AttrType ==
    /\ phase \in Copying => Attr(disk, file.dir, name) \in FileAttrs
    /\ phase \in Rewriting \union {"reopen"} => Attr(disk, file.dir, backup) = "plain"
    /\ phase \in Rewriting => Attr(disk, file.dir, name) = "plain"

TypeInv ==
    /\ DiskType /\ XrepType /\ XcType /\ AttrType
    /\ cwd \in Dirs
    /\ typed \in Seq(Command)
    /\ phase = "idle" \/ xcPhase = "idle"

\* The name of a backup is a name.
LEMMA BackupNamed == ASSUME NEW n \in Names PROVE Xrp(n) \in Names /\ Xrp(Xrp(n)) = Xrp(n)
<1>1. n \in [base : STRING, ext : STRING]
  BY XrepAssumption
<1> QED BY <1>1, XrepAssumption DEF Xrp

\* What spares the other files twice spares them.
LEMMA SparesTwice ==
  ASSUME NEW one, NEW two, NEW three, NEW d, NEW n, Spares(one, two, d, n), Spares(two, three, d, n)
  PROVE  Spares(one, three, d, n)
BY DEF Spares

\* The backup when it has been created, and when a text is written to it or it is removed again.
LEMMA BackupFacts ==
  ASSUME TypeInv, phase = "backup", Writable(disk, file.dir, backup)
  PROVE  /\ file.dir \in Dirs /\ name \in Names /\ backup \in Names
         /\ Spares(disk, created, file.dir, backup)
         /\ source \in Seq(STRING)
         /\ name # backup => source = Text(disk, file.dir, name)
         /\ \A t \in Seq(STRING) : LET after == Write(created, file.dir, backup, t) IN
               /\ WellFormed(after) /\ Used(after) <= Room /\ Spares(disk, after, file.dir, backup)
               /\ Attr(after, file.dir, backup) = "plain"
               /\ Fits(created, t) => Text(after, file.dir, backup) = t
         /\ LET after == Delete(created, file.dir, backup) IN
               /\ WellFormed(after) /\ Used(after) <= Room /\ Spares(disk, after, file.dir, backup)
               /\ Attr(after, file.dir, backup) = "free"
<1>1. /\ file.dir \in Dirs /\ name \in Names /\ Attr(disk, file.dir, name) \in FileAttrs
      /\ WellFormed(disk) /\ Used(disk) <= Room
  BY DEF TypeInv, DiskType, XrepType, AttrType, Copying, name
<1>2. backup \in Names
  BY <1>1, BackupNamed DEF backup, name
<1>3. Room \in Nat /\ "plain" \in FileAttrs /\ "plain" # "free"
  BY DosAssumption DEF FileAttrs
<1> DEFINE d == file.dir
           b == backup
<1>4. /\ WellFormed(created) /\ Spares(disk, created, d, b)
      /\ Attr(created, d, b) = "plain" /\ Text(created, d, b) = <<>>
      /\ Used(disk) \in Nat /\ Used(created) \in Nat /\ Used(created) <= Used(disk)
  BY <1>1, <1>2, FileCreated DEF created
<1>5. Used(created) <= Room
  <2> DEFINE x == Used(disk)
             y == Used(created)
  <2>1. x \in Nat /\ y \in Nat /\ y <= x /\ x <= Room
    BY <1>1, <1>4
  <2> HIDE DEF x, y
  <2>2. y <= Room
    BY <2>1, <1>3
  <2> QED BY <2>2 DEF y
<1>6. source \in Seq(STRING) /\ (name # b => source = Text(disk, d, name))
  <2>1. CASE name = b
    BY <2>1, <1>4 DEF source
  <2>2. CASE name # b
    <3>1. <<d, name>> # <<d, b>> /\ Attr(disk, d, name) # "free"
      BY <2>2, <1>1 DEF FileAttrs
    <3>2. Text(created, d, name) = Text(disk, d, name)
      BY <3>1, <1>1, <1>4 DEF Spares
    <3>3. Text(disk, d, name) \in Seq(STRING)
      BY <3>1, <1>1, NamedHasSlot
    <3> QED BY <3>2, <3>3 DEF source
  <2> QED BY <2>1, <2>2
<1> HIDE DEF d, b
<1>7. ASSUME NEW t \in Seq(STRING)
      PROVE  LET after == Write(created, d, b, t) IN
               /\ WellFormed(after) /\ Used(after) <= Room /\ Spares(disk, after, d, b)
               /\ Attr(after, d, b) = "plain"
               /\ Fits(created, t) => Text(after, d, b) = t
  <2> DEFINE after == Write(created, d, b, t)
  <2>1. d \in Dirs /\ b \in Names /\ Attr(created, d, b) \in FileAttrs
    BY <1>1, <1>2, <1>3, <1>4 DEF d, b
  <2>2. /\ WellFormed(after) /\ Spares(created, after, d, b)
        /\ Attr(after, d, b) = Attr(created, d, b)
        /\ Fits(created, t) => Text(after, d, b) = Text(created, d, b) \o t
        /\ Used(after) <= Room
    BY <2>1, <1>4, <1>5, FileWritten
  <2>3. <<>> \o t = t
    OBVIOUS
  <2> HIDE DEF after
  <2>4. Spares(disk, after, d, b)
    BY <2>2, <1>4, SparesTwice
  <2>5. Fits(created, t) => Text(after, d, b) = t
    BY <2>2, <2>3, <1>4
  <2> QED BY <2>2, <2>4, <2>5, <1>4 DEF after
<1>8. LET after == Delete(created, d, b) IN
        /\ WellFormed(after) /\ Used(after) <= Room /\ Spares(disk, after, d, b)
        /\ Attr(after, d, b) = "free"
  <2> DEFINE after == Delete(created, d, b)
  <2>1. d \in Dirs /\ b \in Names /\ Attr(created, d, b) # "free"
    BY <1>1, <1>2, <1>3, <1>4 DEF d, b
  <2>2. /\ WellFormed(after) /\ Spares(created, after, d, b)
        /\ Attr(after, d, b) = "free"
        /\ Used(after) \in Nat /\ Used(after) <= Used(created)
    BY <2>1, <1>4, FileDeleted
  <2>3. Spares(disk, after, d, b)
    BY <2>2, <1>4, SparesTwice
  <2> DEFINE x == Used(after)
             y == Used(created)
  <2>4. x \in Nat /\ y \in Nat /\ x <= y /\ y <= Room
    BY <2>2, <1>4, <1>5
  <2> HIDE DEF x, y
  <2>5. x <= Room
    BY <2>4, <1>3
  <2> HIDE DEF after
  <2> QED BY <2>2, <2>3, <2>5 DEF after, x
<1> QED BY <1>1, <1>2, <1>4, <1>6, <1>7, <1>8 DEF d, b

\* While the file is rewritten: it is emptied, written to or cut, and its backup can be removed.
LEMMA RewriteFacts ==
  ASSUME TypeInv, phase \in Rewriting
  PROVE  /\ file.dir \in Dirs /\ name \in Names /\ backup \in Names
         /\ Text(disk, file.dir, name) \in Seq(STRING)
         /\ Text(disk, file.dir, backup) \in Seq(STRING)
         /\ LET after == Create(disk, file.dir, name) IN
               /\ WellFormed(after) /\ Used(after) <= Room /\ Spares(disk, after, file.dir, name)
               /\ Attr(after, file.dir, name) = "plain" /\ Text(after, file.dir, name) = <<>>
               /\ SlotOf(after, file.dir, name) = SlotOf(disk, file.dir, name)
         /\ \A t \in Seq(STRING) : LET after == Write(disk, file.dir, name, t) IN
               /\ WellFormed(after) /\ Used(after) <= Room /\ Spares(disk, after, file.dir, name)
               /\ Attr(after, file.dir, name) = "plain"
               /\ SlotOf(after, file.dir, name) = SlotOf(disk, file.dir, name)
               /\ Fits(disk, t) => Text(after, file.dir, name) = Text(disk, file.dir, name) \o t
         /\ \A k \in 0..Len(Text(disk, file.dir, name)) :
               LET after == PutText(disk, file.dir, name, SubSeq(Text(disk, file.dir, name), 1, k)) IN
               /\ WellFormed(after) /\ Used(after) <= Room /\ Spares(disk, after, file.dir, name)
         /\ LET after == Delete(disk, file.dir, backup) IN
               /\ WellFormed(after) /\ Used(after) <= Room /\ Spares(disk, after, file.dir, backup)
<1>1. /\ file.dir \in Dirs /\ name \in Names
      /\ Attr(disk, file.dir, name) = "plain" /\ Attr(disk, file.dir, backup) = "plain"
      /\ WellFormed(disk) /\ Used(disk) <= Room
  BY DEF TypeInv, DiskType, XrepType, AttrType, Copying, Rewriting, name
<1>2. backup \in Names
  BY <1>1, BackupNamed DEF backup, name
<1>3. Room \in Nat /\ "plain" \in FileAttrs /\ "plain" # "free" /\ Used(disk) \in Nat
  BY <1>1, UsedType, DosAssumption DEF FileAttrs
<1> DEFINE d == file.dir
           b == backup
           n == name
           t0 == Text(disk, d, n)
<1>4. t0 \in Seq(STRING) /\ Text(disk, d, b) \in Seq(STRING)
  BY <1>1, <1>2, <1>3, NamedHasSlot
<1>5. d \in Dirs /\ b \in Names /\ n \in Names /\ Attr(disk, d, n) = "plain" /\ Attr(disk, d, b) = "plain"
  BY <1>1, <1>2
<1> HIDE DEF d, b, n
<1>6. ASSUME NEW x \in Nat, NEW y \in Nat, x <= y, y <= Room PROVE x <= Room
  BY <1>3, <1>6
<1>7. LET after == Create(disk, d, n) IN
        /\ WellFormed(after) /\ Used(after) <= Room /\ Spares(disk, after, d, n)
        /\ Attr(after, d, n) = "plain" /\ Text(after, d, n) = <<>>
        /\ SlotOf(after, d, n) = SlotOf(disk, d, n)
  <2>1. Writable(disk, d, n)
    BY <1>5 DEF Writable
  <2> QED BY <2>1, <1>1, <1>3, <1>5, <1>6, FileCreated
<1>8. ASSUME NEW t \in Seq(STRING)
      PROVE  LET after == Write(disk, d, n, t) IN
               /\ WellFormed(after) /\ Used(after) <= Room /\ Spares(disk, after, d, n)
               /\ Attr(after, d, n) = "plain"
               /\ SlotOf(after, d, n) = SlotOf(disk, d, n)
               /\ Fits(disk, t) => Text(after, d, n) = Text(disk, d, n) \o t
  <2>1. Attr(disk, d, n) \in FileAttrs
    BY <1>3, <1>5
  <2> QED BY <2>1, <1>1, <1>5, FileWritten
<1>9. ASSUME NEW k \in 0..Len(t0)
      PROVE  LET after == PutText(disk, d, n, SubSeq(t0, 1, k)) IN
               WellFormed(after) /\ Used(after) <= Room /\ Spares(disk, after, d, n)
  <2> DEFINE t == SubSeq(t0, 1, k)
             after == PutText(disk, d, n, t)
             a == Len(t0)
             u == Used(disk)
             v == Used(after)
  <2>0. a \in Nat /\ \A i \in 1..k : i \in 1..a
    BY <1>4
  <2>1. \A i \in 1..k : t0[i] \in STRING
    BY <1>4, <2>0
  <2>2. t \in Seq(STRING) /\ Len(t) = k
    <3> HIDE DEF t0
    <3>1. k \in Nat
      BY <2>0
    <3> QED BY <2>1, <3>1, SubSeqProperties
  <2> HIDE DEF t
  <2>3. Attr(disk, d, n) \in FileAttrs
    BY <1>3, <1>5
  <2>4. /\ WellFormed(after) /\ Spares(disk, after, d, n)
        /\ u \in Nat /\ v \in Nat /\ v + Len(Text(disk, d, n)) = u + Len(t)
    BY <2>2, <2>3, <1>1, <1>5, TextPut
  <2>5. k \in Nat /\ a \in Nat /\ k <= a /\ u \in Nat /\ v \in Nat /\ v + a = u + k
    BY <2>0, <2>2, <2>4
  <2>6. u <= Room
    BY <1>1
  <2> HIDE DEF a, u, v
  <2>7. v <= Room
    BY <2>5, <2>6, <1>3
  <2> QED BY <2>4, <2>7 DEF v, t
<1>10. LET after == Delete(disk, d, b) IN
         WellFormed(after) /\ Used(after) <= Room /\ Spares(disk, after, d, b)
  <2>1. Attr(disk, d, b) # "free"
    BY <1>3, <1>5
  <2> QED BY <2>1, <1>1, <1>3, <1>5, <1>6, FileDeleted
<1> QED BY <1>4, <1>5, <1>7, <1>8, <1>9, <1>10 DEF d, b, n

-----------------------------------------------------------------------------
(* What the other invariants add.                                           *)

\* The program that runs is the last command typed.
HomeInv ==
    /\ phase # "idle" => typed # <<>> /\ Last(typed).program = "xrep"
    /\ xcPhase # "idle" => typed # <<>> /\ Last(typed).program = "xc"
    /\ ComesHome

\* While a file that is not its own backup is replaced, and no write was cut: the
\* backup is a copy of it, and a file without replacements is copied unchanged.
CopyInv ==
    /\ phase # "idle" => ending = "none"
    /\ before \in Seq(STRING)
    /\ ~full /\ name # backup =>
          /\ phase \in {"prompt", "backup", "reopen"} => Text(disk, file.dir, name) = before
          /\ phase \in Rewriting \union {"reopen"} => Text(disk, file.dir, backup) = before
          /\ phase = "restore" => Text(disk, file.dir, name) = <<>>
          /\ phase = "lines" /\ ~wrapped /\ local_replacement = 0 => Text(disk, file.dir, name) \o rest = before
          /\ phase = "tail" /\ ~wrapped /\ local_replacement = 0 => Text(disk, file.dir, name) = Append(before, EOFCHAR)
    /\ EscapeRestores

\* The files of the first disk.
Originals(d) == {s \in ToSet(first[d]) : s.attr \in FileAttrs}

\* NothingLostUnwarned while no count has wrapped.
BackupsKeepTheTexts == LostOnlyWarned(first)

\* The files whose backup is being written hold their text, but for the one that
\* is rewritten: its text is what was in it when it was opened.
LossInv ==
    /\ WellFormed(first)
    /\ opt_overwrite => warned = Dirs \X Names
    /\ phase = "backup" /\ <<file.dir, backup>> \notin warned => ~Readable(disk, file.dir, backup)
    /\ phase \in Rewriting \union {"reopen"} /\ <<file.dir, backup>> \notin warned /\ ~full =>
          /\ name # backup
          /\ \A s \in Originals(file.dir) : Xrp(s.name) = backup =>
                /\ s.name # backup
                /\ IF s.name = name /\ phase # "reopen" THEN Stripped(before) = Stripped(s.text)
                                                       ELSE Holds(file.dir, s.name, s.text)
    /\ BackupsKeepTheTexts


-----------------------------------------------------------------------------
(* Types are kept.                                                          *)

\* The session starts with the types.
LEMMA TypeInit == Init => TypeInv
<1> SUFFICES ASSUME Init PROVE TypeInv
  OBVIOUS
<1>1. Root \in Dirs /\ (CHOOSE n \in Names : TRUE) \in Names
  BY DosAssumption
<1>2. DiskType
  BY SessionAssumption DEF Init, DiskType
<1>3. XrepType
  BY <1>1 DEF Init, XrepInit, XrepType, NoSetup, NoFile, Setup, Copying
<1>4. XcType
  BY <1>1 DEF Init, XcInit, XcType
<1>5. AttrType
  BY DEF Init, XrepInit, AttrType, Copying, Rewriting
<1> QED BY <1>1, <1>2, <1>3, <1>4, <1>5 DEF TypeInv, Init, XrepInit

\* The call of process_dir at work, and what replaces it.
LEMMA TopType ==
  ASSUME XrepType, phase # "idle"
  PROVE  /\ top \in Frame /\ Len(frames) \in Nat \ {0}
         /\ \A f \in Frame : SetTop(f) \in Seq(Frame) /\ SetTop(f) # <<>>
         /\ \A f, g \in Frame : Append(SetTop(f), g) \in Seq(Frame) /\ Append(SetTop(f), g) # <<>>
         /\ Front(frames) \in Seq(Frame) /\ (Len(frames) # 1 => Front(frames) # <<>>)
<1>1. frames \in Seq(Frame) /\ frames # <<>>
  BY DEF XrepType
<1>2. /\ Len(frames) \in Nat \ {0} /\ top \in Frame
      /\ Front(frames) \in Seq(Frame) /\ (Len(frames) # 1 => Front(frames) # <<>>)
  BY <1>1, FrontAndLast DEF top
<1> HIDE DEF Frame
<1>3. ASSUME NEW f \in Frame PROVE SetTop(f) \in Seq(Frame) /\ SetTop(f) # <<>>
  BY <1>1, <1>2, <1>3 DEF SetTop
<1>4. ASSUME NEW f \in Frame, NEW g \in Frame
      PROVE  Append(SetTop(f), g) \in Seq(Frame) /\ Append(SetTop(f), g) # <<>>
  <2> DEFINE s == SetTop(f)
  <2>1. s \in Seq(Frame)
    BY <1>3
  <2> HIDE DEF s
  <2>2. Append(s, g) \in Seq(Frame) /\ Append(s, g) # <<>>
    BY <2>1, AppendProperties
  <2> QED BY <2>2 DEF s
<1> QED BY <1>2, <1>3, <1>4

\* A step that ends XREP leaves no call and no file being rewritten.
LEMMA EndsType ==
  ASSUME XrepType, NEW how, Ends(how), UNCHANGED <<setup, file, curdir>>
  PROVE  XrepType' /\ AttrType'
BY DEF XrepType, AttrType, Ends, Copying, Rewriting

\* A step of XREP that keeps the types of its own variables and of the disk keeps them all.
LEMMA XrepKeeps ==
  ASSUME TypeInv, phase # "idle", UNCHANGED <<xcVars, first, typed>>,
         DiskType', XrepType', AttrType', cwd' \in Dirs
  PROVE  TypeInv'
BY DEF TypeInv, XcType, xcVars

\* The next file process_flag finds, and the next directory process_dir finds.
LEMMA NextFound ==
  ASSUME TypeInv, phase # "idle"
  PROVE  /\ NextFile # 0 => LET slot == disk[top.dir][NextFile] IN
               /\ NextFile \in Nat /\ slot \in Slot /\ slot.attr \in FileAttrs
               /\ Attr(disk, top.dir, slot.name) = slot.attr /\ Text(disk, top.dir, slot.name) = slot.text
         /\ NextDir # 0 => LET slot == disk[top.dir][NextDir] IN
               NextDir \in Nat /\ slot \in Slot /\ slot.opens \in Dirs
<1>1. top \in Frame /\ WellFormed(disk)
  BY TopType DEF TypeInv, DiskType
<1> DEFINE d == top.dir
           a == top.at
<1>2. d \in Dirs /\ a \in Nat
  BY <1>1 DEF Frame
<1>3. Len(disk[d]) \in Nat /\ \A i \in 1..Len(disk[d]) : disk[d][i] \in Slot
  BY <1>1, <1>2, SlotFound
<1> HIDE DEF d, a
<1>4. ASSUME NEW i, i \in (a + 1)..Len(disk[d]) PROVE i \in 1..Len(disk[d]) /\ i \in Nat
  BY <1>2, <1>3, <1>4
<1>5. ASSUME NextFile # 0
      PROVE  /\ NextFile \in 1..Len(disk[d]) /\ NextFile \in Nat
             /\ disk[d][NextFile].attr \in {"plain", "readonly"}
  <2> DEFINE names == setup.flag
             attrs == {"plain", "readonly"}
  <2>1. NextFile = Find(disk, d, names, attrs, a)
    BY DEF NextFile, d, a
  <2> HIDE DEF names, attrs
  <2>2. NextFile \in (a + 1)..Len(disk[d]) /\ disk[d][NextFile].attr \in attrs
    BY <2>1, <1>1, <1>2, <1>5, FoundEntry
  <2> QED BY <2>2, <1>4 DEF attrs
<1>6. ASSUME NextDir # 0
      PROVE  /\ NextDir \in 1..Len(disk[d]) /\ NextDir \in Nat
             /\ disk[d][NextDir].attr = "dir"
  <2> DEFINE attrs == {"dir"}
  <2>1. NextDir = Find(disk, d, Names, attrs, a)
    BY DEF NextDir, d, a
  <2> HIDE DEF attrs
  <2>2. NextDir \in (a + 1)..Len(disk[d]) /\ disk[d][NextDir].attr \in attrs
    BY <2>1, <1>1, <1>2, <1>6, FoundEntry
  <2> QED BY <2>2, <1>4 DEF attrs
<1>7. ASSUME NextFile # 0
      PROVE  LET slot == disk[d][NextFile] IN
               /\ slot \in Slot /\ slot.attr \in FileAttrs
               /\ Attr(disk, d, slot.name) = slot.attr /\ Text(disk, d, slot.name) = slot.text
  <2> DEFINE i == NextFile
             n == disk[d][NextFile].name
  <2>1. i \in 1..Len(disk[d]) /\ disk[d][i].attr # "free" /\ disk[d][i].name = n /\ disk[d][i].attr \in FileAttrs
    BY <1>5, <1>7 DEF FileAttrs
  <2> HIDE DEF i, n
  <2>2. Attr(disk, d, n) = disk[d][i].attr /\ Text(disk, d, n) = disk[d][i].text
    BY <2>1, <1>1, <1>2, SlotSays
  <2> QED BY <2>1, <2>2, <1>3 DEF i, n
<1>8. ASSUME NextDir # 0 PROVE disk[d][NextDir] \in Slot /\ disk[d][NextDir].opens \in Dirs
  <2>1. NextDir \in 1..Len(disk[d]) /\ disk[d][NextDir].attr \in DirAttrs
    BY <1>6, <1>8 DEF DirAttrs
  <2> QED BY <2>1, <1>1, <1>2, <1>3 DEF WellFormed
<1> QED BY <1>5, <1>6, <1>7, <1>8 DEF d


\* Leaving a directory keeps the types.
LEMMA ReturnType ==
  ASSUME TypeInv, phase # "idle", Return, UNCHANGED <<disk, setup, file, curdir, wrapped>>
  PROVE  XrepType' /\ AttrType' /\ cwd' \in Dirs
<1>1. XrepType /\ cwd \in Dirs /\ curdir \in Dirs
  BY DEF TypeInv, XrepType
<1>2. CASE Len(frames) = 1
  <2>1. Ends("normal") /\ cwd' = curdir
    BY <1>2 DEF Return
  <2> QED BY <2>1, <1>1, EndsType
<1>3. CASE Len(frames) # 1
  <2>1. /\ frames' = Front(frames) /\ phase' = "subdirs"
        /\ UNCHANGED <<cwd, ending, rest, read_filesize, local_replacement>>
    BY <1>3 DEF Return
  <2>2. frames' \in Seq(Frame) /\ frames' # <<>>
    BY <2>1, <1>1, <1>3, TopType
  <2>3. XrepType'
    BY <2>1, <2>2, <1>1 DEF XrepType, Copying
  <2>4. AttrType'
    BY <2>1 DEF AttrType, Copying, Rewriting
  <2> QED BY <2>1, <2>3, <2>4, <1>1
<1> QED BY <1>2, <1>3

\* Walking the tree keeps the types.
LEMMA WalkType ==
  ASSUME TypeInv, UNCHANGED <<xcVars, first, typed>>, FindFile \/ EndFlag \/ EnterDir \/ LeaveDir
  PROVE  TypeInv'
<1>1. XrepType /\ DiskType /\ AttrType /\ cwd \in Dirs
  BY DEF TypeInv
<1>2. phase # "idle" /\ disk' = disk
  BY DEF FindFile, EndFlag, EnterDir, LeaveDir
<1>3. DiskType'
  BY <1>1, <1>2 DEF DiskType
<1>4. top \in Frame /\ top.dir \in Dirs
  BY <1>1, <1>2, TopType DEF Frame
<1>5. ASSUME FindFile PROVE XrepType' /\ AttrType' /\ cwd' \in Dirs
  <2> DEFINE slot == disk[top.dir][NextFile]
  <2>1. /\ NextFile # 0
        /\ file' = [dir |-> top.dir, name |-> slot.name] /\ before' = slot.text
        /\ frames' = SetTop([top EXCEPT !.at = NextFile, !.slash = TRUE])
        /\ phase' \in {"prompt", "backup"} /\ local_replacement' = 0
        /\ UNCHANGED <<disk, cwd, setup, opt_overwrite, rest, read_filesize, curdir, ending, warned, full, wrapped>>
    BY <1>5 DEF FindFile
  <2>2. /\ NextFile \in Nat /\ slot \in Slot /\ slot.attr \in FileAttrs
        /\ Attr(disk, top.dir, slot.name) = slot.attr
    BY <2>1, <1>2, NextFound
  <2>3. [top EXCEPT !.at = NextFile, !.slash = TRUE] \in Frame /\ slot.name \in Names
    BY <2>2, <1>4 DEF Frame, Slot
  <2> HIDE DEF slot
  <2>4. frames' \in Seq(Frame) /\ frames' # <<>>
    BY <2>1, <2>3, <1>1, <1>2, TopType
  <2>5. file'.dir = top.dir /\ name' = slot.name /\ file' \in [dir : Dirs \union {NoDir}, name : Names]
    BY <2>1, <2>3, <1>4 DEF name
  <2>6. XrepType'
    BY <2>1, <2>4, <2>5, <1>1, <1>4 DEF XrepType
  <2>7. Attr(disk', file'.dir, name') \in FileAttrs
    BY <2>1, <2>2, <2>5
  <2>8. AttrType'
    BY <2>1, <2>7 DEF AttrType, Rewriting
  <2> QED BY <2>1, <2>6, <2>8, <1>1
<1>6. ASSUME EndFlag PROVE XrepType' /\ AttrType' /\ cwd' \in Dirs
  <2>1. UNCHANGED <<disk, setup, opt_overwrite, file, curdir, before, warned, full, wrapped>>
    BY <1>6 DEF EndFlag
  <2>2. CASE Return
    BY <2>1, <2>2, <1>2, ReturnType
  <2>3. CASE ~setup.nosubdirs
    <3>1. /\ cwd' \in {cwd, top.dir} /\ frames' = SetTop([top EXCEPT !.at = 0]) /\ phase' = "subdirs"
          /\ UNCHANGED <<ending, rest, read_filesize, local_replacement>>
      BY <1>6, <2>3 DEF EndFlag
    <3>2. [top EXCEPT !.at = 0] \in Frame
      BY <1>4 DEF Frame
    <3>3. frames' \in Seq(Frame) /\ frames' # <<>>
      BY <3>1, <3>2, <1>1, <1>2, TopType
    <3>4. XrepType'
      BY <2>1, <3>1, <3>3, <1>1 DEF XrepType, Copying
    <3>5. AttrType'
      BY <3>1 DEF AttrType, Copying, Rewriting
    <3> QED BY <3>1, <3>4, <3>5, <1>1, <1>4
  <2> QED BY <2>2, <2>3, <1>6 DEF EndFlag
<1>7. ASSUME EnterDir PROVE XrepType' /\ AttrType' /\ cwd' \in Dirs
  <2> DEFINE slot == disk[top.dir][NextDir]
             f == [top EXCEPT !.at = NextDir]
             g == [dir |-> slot.opens, at |-> 0, slash |-> FALSE]
  <2>1. /\ NextDir # 0 /\ frames' = Append(SetTop(f), g) /\ phase' = "flag"
        /\ UNCHANGED <<disk, cwd, setup, opt_overwrite, file, rest, read_filesize, local_replacement,
                       curdir, ending, before, warned, full, wrapped>>
    BY <1>7 DEF EnterDir
  <2>2. NextDir \in Nat /\ slot.opens \in Dirs
    BY <2>1, <1>2, NextFound
  <2> HIDE DEF slot
  <2>3. f \in Frame /\ g \in Frame
    BY <2>2, <1>4 DEF Frame
  <2> HIDE DEF f, g
  <2>4. frames' \in Seq(Frame) /\ frames' # <<>>
    BY <2>1, <2>3, <1>1, <1>2, TopType
  <2>5. XrepType'
    BY <2>1, <2>4, <1>1 DEF XrepType, Copying
  <2>6. AttrType'
    BY <2>1 DEF AttrType, Copying, Rewriting
  <2> QED BY <2>1, <2>5, <2>6, <1>1
<1>8. ASSUME LeaveDir PROVE XrepType' /\ AttrType' /\ cwd' \in Dirs
  BY <1>8, <1>2, ReturnType DEF LeaveDir
<1> QED BY <1>2, <1>3, <1>5, <1>6, <1>7, <1>8, XrepKeeps

\* The file reopened for writing: emptied, its backup as it was unless they are one file.
LEMMA ReopenFacts ==
  ASSUME TypeInv, phase = "reopen", Writable(disk, file.dir, name)
  PROVE  /\ file.dir \in Dirs /\ name \in Names /\ backup \in Names
         /\ LET after == Create(disk, file.dir, name) IN
               /\ WellFormed(after) /\ Used(after) <= Room /\ Spares(disk, after, file.dir, name)
               /\ Attr(after, file.dir, name) = "plain" /\ Text(after, file.dir, name) = <<>>
               /\ SlotOf(after, file.dir, name) = SlotOf(disk, file.dir, name)
               /\ Attr(after, file.dir, backup) = "plain" /\ Text(after, file.dir, backup) \in Seq(STRING)
               /\ name # backup => Text(after, file.dir, backup) = Text(disk, file.dir, backup)
<1> DEFINE d == file.dir
           b == backup
           n == name
           after == Create(disk, d, n)
<1>1. /\ d \in Dirs /\ n \in Names /\ Attr(disk, d, b) = "plain" /\ Writable(disk, d, n)
      /\ WellFormed(disk) /\ Used(disk) <= Room
      /\ Attr(disk, d, n) # "free"
  BY DEF TypeInv, DiskType, XrepType, AttrType, Copying, Rewriting, name, FileAttrs
<1>2. b \in Names
  BY <1>1, BackupNamed DEF backup, name
<1> HIDE DEF d, b, n
<1>3. /\ WellFormed(after) /\ Spares(disk, after, d, n)
      /\ Attr(after, d, n) = "plain" /\ Text(after, d, n) = <<>>
      /\ SlotOf(after, d, n) = SlotOf(disk, d, n)
      /\ Used(disk) \in Nat /\ Used(after) \in Nat /\ Used(after) <= Used(disk)
  BY <1>1, FileCreated
<1>4. Used(after) <= Room
  <2> DEFINE x == Used(disk)
             y == Used(after)
  <2>1. x \in Nat /\ y \in Nat /\ y <= x /\ x <= Room /\ Room \in Nat
    BY <1>1, <1>3, DosAssumption
  <2> HIDE DEF x, y
  <2>2. y <= Room
    BY <2>1
  <2> QED BY <2>2 DEF y
<1> HIDE DEF after
<1>5. /\ Attr(after, d, b) = "plain"
      /\ n # b => Text(after, d, b) = Text(disk, d, b)
  <2>1. CASE n = b
    BY <2>1, <1>3
  <2>2. CASE n # b
    BY <2>2, <1>1, <1>2, <1>3 DEF Spares
  <2> QED BY <2>1, <2>2
<1>6. Text(after, d, b) \in Seq(STRING)
  BY <1>1, <1>3, <1>5, NamedHasSlot
<1> QED BY <1>1, <1>2, <1>3, <1>4, <1>5, <1>6 DEF after, d, b, n


\* Making the backup keeps the types.
LEMMA BackupType ==
  ASSUME TypeInv, UNCHANGED <<xcVars, first, typed>>,
         (\E key \in {"Y", "A", "Q", "other"} : Answer(key)) \/ BackupRefused \/ BinaryFile \/ MakeBackup
  PROVE  TypeInv'
<1>1. XrepType /\ DiskType /\ AttrType /\ cwd \in Dirs
  BY DEF TypeInv
<1>2. phase \in {"prompt", "backup"} /\ file' = file /\ cwd' = cwd
  BY DEF Answer, BackupRefused, BinaryFile, MakeBackup
<1>3. file.dir \in Dirs /\ Attr(disk, file.dir, name) \in FileAttrs
  BY <1>1, <1>2 DEF XrepType, AttrType, Copying
<1>4. ASSUME NEW key \in {"Y", "A", "Q", "other"}, Answer(key)
      PROVE  DiskType' /\ XrepType' /\ AttrType'
  <2>1. UNCHANGED <<disk, cwd, setup, file, curdir, before, full, wrapped>>
    BY <1>4 DEF Answer
  <2>2. DiskType'
    BY <2>1, <1>1 DEF DiskType
  <2>3. CASE key = "Q"
    BY <1>4, <2>1, <2>2, <2>3, <1>1, EndsType DEF Answer
  <2>4. CASE key # "Q"
    <3>1. phase' = "backup" /\ UNCHANGED <<frames, ending, rest, read_filesize, local_replacement>>
      BY <1>4, <2>4 DEF Answer
    <3>2. phase = "prompt"
      BY <1>4 DEF Answer
    <3>3. XrepType'
      BY <2>1, <3>1, <3>2, <1>1, <1>3 DEF XrepType
    <3>4. AttrType'
      BY <2>1, <3>1, <3>2, <1>1, <1>3 DEF AttrType, Rewriting, name
    <3> QED BY <2>2, <3>3, <3>4
  <2> QED BY <2>3, <2>4
<1>5. ASSUME BackupRefused PROVE DiskType' /\ XrepType' /\ AttrType'
  BY <1>5, <1>1 DEF BackupRefused, DiskType, XrepType, AttrType, Copying, Rewriting
<1>6. ASSUME BinaryFile PROVE DiskType' /\ XrepType' /\ AttrType'
  <2> DEFINE after == Delete(created, file.dir, backup)
  <2>1. /\ phase = "backup" /\ Writable(disk, file.dir, backup) /\ disk' = after /\ phase' = "flag"
        /\ UNCHANGED <<cwd, setup, frames, opt_overwrite, file, rest, read_filesize,
                       local_replacement, curdir, ending, before, warned, full, wrapped>>
    BY <1>6 DEF BinaryFile
  <2>2. WellFormed(after) /\ Used(after) <= Room
    BY <2>1, BackupFacts
  <2> HIDE DEF after
  <2>3. DiskType'
    BY <2>1, <2>2 DEF DiskType
  <2>4. XrepType' /\ AttrType'
    BY <2>1, <1>1 DEF XrepType, AttrType, Copying, Rewriting
  <2> QED BY <2>3, <2>4
<1>7. ASSUME MakeBackup PROVE DiskType' /\ XrepType' /\ AttrType'
  <2> DEFINE after == Write(created, file.dir, backup, source)
  <2>1. /\ phase = "backup" /\ Writable(disk, file.dir, backup) /\ disk' = after /\ phase' = "reopen"
        /\ UNCHANGED <<cwd, setup, frames, opt_overwrite, file, rest, read_filesize,
                       local_replacement, curdir, ending, before, warned, wrapped>>
    BY <1>7 DEF MakeBackup
  <2>2. /\ WellFormed(after) /\ Used(after) <= Room /\ Spares(disk, after, file.dir, backup)
        /\ Attr(after, file.dir, backup) = "plain" /\ name \in Names
    BY <2>1, BackupFacts
  <2> HIDE DEF after
  <2>3. DiskType'
    BY <2>1, <2>2 DEF DiskType
  <2>4. Attr(after, file.dir, name) \in FileAttrs
    <3>1. CASE name = backup
      BY <3>1, <2>2 DEF FileAttrs
    <3>2. CASE name # backup
      BY <3>2, <2>2, <1>3 DEF Spares
    <3> QED BY <3>1, <3>2
  <2>5. XrepType'
    BY <2>1, <1>1, <1>3 DEF XrepType
  <2>6. AttrType'
    BY <2>1, <2>2, <2>4 DEF AttrType, Rewriting, name, backup
  <2> QED BY <2>3, <2>5, <2>6
<1> QED BY <1>1, <1>2, <1>4, <1>5, <1>6, <1>7, XrepKeeps

\* Reopening the file and rewriting its lines keeps the types.
LEMMA RewriteType ==
  ASSUME TypeInv, UNCHANGED <<xcVars, first, typed>>, Reopen \/ RewriteLine \/ FinishFile \/ PressEscape
  PROVE  TypeInv'
<1>1. XrepType /\ DiskType /\ AttrType /\ cwd \in Dirs
  BY DEF TypeInv
<1>2. phase \in Rewriting \union {"reopen"} /\ file' = file /\ cwd' = cwd
  BY DEF Reopen, RewriteLine, FinishFile, PressEscape, Rewriting
<1>3. file.dir \in Dirs /\ Attr(disk, file.dir, backup) = "plain" /\ name' = name /\ backup' = backup
  BY <1>1, <1>2 DEF XrepType, AttrType, Copying, Rewriting, name, backup
<1>4. ASSUME Reopen PROVE DiskType' /\ XrepType' /\ AttrType'
  <2> DEFINE after == Create(disk, file.dir, name)
  <2>1. CASE ~Writable(disk, file.dir, name)
    <3>1. /\ phase = "reopen" /\ disk' = disk /\ phase' = "flag"
          /\ UNCHANGED <<setup, frames, file, rest, local_replacement, curdir, wrapped>>
      BY <1>4, <2>1 DEF Reopen
    <3> QED BY <3>1, <1>1 DEF DiskType, XrepType, AttrType, Copying, Rewriting
  <2>2. CASE Writable(disk, file.dir, name)
    <3>1. /\ phase = "reopen" /\ disk' = after /\ rest' = Text(disk', file.dir, backup) /\ phase' = "lines"
          /\ UNCHANGED <<setup, frames, file, local_replacement, curdir, wrapped>>
      BY <1>4, <2>2 DEF Reopen
    <3>2. /\ WellFormed(after) /\ Used(after) <= Room
          /\ Attr(after, file.dir, name) = "plain"
          /\ Attr(after, file.dir, backup) = "plain" /\ Text(after, file.dir, backup) \in Seq(STRING)
      BY <3>1, <2>2, ReopenFacts
    <3> HIDE DEF after
    <3>3. DiskType'
      BY <3>1, <3>2 DEF DiskType
    <3>4. XrepType'
      BY <3>1, <3>2, <1>1, <1>3 DEF XrepType
    <3>5. AttrType'
      BY <3>1, <3>2, <1>3 DEF AttrType, FileAttrs
    <3> QED BY <3>3, <3>4, <3>5
  <2> QED BY <2>1, <2>2
<1>5. ASSUME RewriteLine PROVE DiskType' /\ XrepType' /\ AttrType'
  <2> DEFINE new == Replaced(NextLine)
             after == Write(disk, file.dir, name, new.line)
  <2>1. /\ phase = "lines" /\ disk' = after /\ local_replacement' = AsInt(local_replacement + new.count)
        /\ wrapped' = (wrapped \/ local_replacement + new.count > MaxInt)
        /\ rest' = SubSeq(rest, Len(NextLine) + 1, Len(rest)) /\ phase' \in {"lines", "tail"}
        /\ UNCHANGED <<cwd, setup, frames, opt_overwrite, file, read_filesize, curdir, ending, before, warned>>
    BY <1>5 DEF RewriteLine
  <2>2. /\ rest \in Seq(STRING) /\ setup.pairs \in Seq(TextPair)
        /\ local_replacement \in Int /\ (~wrapped => local_replacement \in Nat)
    BY <1>1 DEF XrepType, Setup
  <2>3. NextLine \in Seq(STRING) /\ rest' \in Seq(STRING)
    BY <2>1, <2>2, NextLineFacts
  <2>4. new.line \in Seq(STRING) /\ new.count \in Nat
    BY <2>2, <2>3, ReplacedFacts
  <2> HIDE DEF new
  <2>5. WellFormed(after) /\ Used(after) <= Room /\ Attr(after, file.dir, name) = "plain"
        /\ Spares(disk, after, file.dir, name) /\ backup \in Names
    BY <2>1, <2>4, RewriteFacts DEF Rewriting
  <2>10. local_replacement' \in Int /\ (~wrapped' => local_replacement' \in Nat)
    <3> DEFINE k == new.count
               n == local_replacement
    <3>1. n \in Int /\ k \in Nat /\ (~wrapped => n \in Nat)
      BY <2>2, <2>4
    <3>2. local_replacement' = AsInt(n + k) /\ (~wrapped' => ~wrapped /\ ~(n + k > MaxInt))
      BY <2>1
    <3> HIDE DEF k, n
    <3>3. AsInt(n + k) \in Int /\ (n \in Nat /\ ~(n + k > MaxInt) => AsInt(n + k) = n + k)
      BY <3>1, CountKept
    <3> QED BY <3>1, <3>2, <3>3
  <2> HIDE DEF after
  <2>6. Attr(after, file.dir, backup) = "plain"
    BY <2>5, <1>3 DEF Spares
  <2>7. DiskType'
    BY <2>1, <2>5 DEF DiskType
  <2>8. XrepType'
    BY <2>1, <2>3, <2>10, <1>1, <1>3 DEF XrepType
  <2>9. AttrType'
    BY <2>1, <2>5, <2>6, <1>3 DEF AttrType, FileAttrs
  <2> QED BY <2>7, <2>8, <2>9
<1>6. ASSUME FinishFile PROVE DiskType' /\ XrepType' /\ AttrType'
  <2> DEFINE after == Delete(disk, file.dir, backup)
  <2>1. /\ phase = "tail" /\ disk' \in {disk, after} /\ phase' = "flag"
        /\ UNCHANGED <<cwd, setup, frames, opt_overwrite, file, rest, read_filesize, local_replacement, curdir,
                       ending, before, warned, full, wrapped>>
    BY <1>6 DEF FinishFile
  <2>2. WellFormed(after) /\ Used(after) <= Room
    BY <2>1, RewriteFacts DEF Rewriting
  <2> HIDE DEF after
  <2>3. DiskType'
    BY <2>1, <2>2, <1>1 DEF DiskType
  <2>4. XrepType' /\ AttrType'
    BY <2>1, <1>1 DEF XrepType, AttrType, Copying, Rewriting
  <2> QED BY <2>3, <2>4
<1>7. ASSUME PressEscape PROVE DiskType' /\ XrepType' /\ AttrType'
  <2> DEFINE after == Create(disk, file.dir, name)
  <2>1. /\ phase = "lines" /\ disk' = after /\ phase' = "restore"
        /\ UNCHANGED <<cwd, setup, frames, opt_overwrite, file, rest, read_filesize,
                       local_replacement, curdir, ending, before, warned, full, wrapped>>
    BY <1>7 DEF PressEscape
  <2>2. WellFormed(after) /\ Used(after) <= Room /\ Attr(after, file.dir, name) = "plain"
        /\ Spares(disk, after, file.dir, name) /\ backup \in Names
    BY <2>1, RewriteFacts DEF Rewriting
  <2> HIDE DEF after
  <2>3. Attr(after, file.dir, backup) = "plain"
    BY <2>2, <1>3 DEF Spares
  <2>4. DiskType'
    BY <2>1, <2>2 DEF DiskType
  <2>5. XrepType'
    BY <2>1, <1>1, <1>3 DEF XrepType
  <2>6. AttrType'
    BY <2>1, <2>2, <2>3, <1>3 DEF AttrType, FileAttrs
  <2> QED BY <2>4, <2>5, <2>6
<1> QED BY <1>1, <1>2, <1>4, <1>5, <1>6, <1>7, XrepKeeps DEF Rewriting


\* The disks an interruption can leave, by where it comes.
LEMMA PartialDisks ==
  ASSUME TypeInv, disk' \in Partial \union {disk}
  PROVE  \/ disk' = disk
         \/ /\ phase = "backup" /\ Writable(disk, file.dir, backup)
            /\ \E t \in Seq(STRING) : disk' = Write(created, file.dir, backup, t)
         \/ /\ phase \in {"lines", "tail"}
            /\ \E k \in 0..Len(Text(disk, file.dir, name)) :
                  disk' = PutText(disk, file.dir, name, SubSeq(Text(disk, file.dir, name), 1, k))
         \/ /\ phase = "restore"
            /\ \E t \in Seq(STRING) : disk' = Write(disk, file.dir, name, t)
<1>1. ASSUME NEW u \in Seq(STRING), NEW k \in 0..Len(u) PROVE SubSeq(u, 1, k) \in Seq(STRING)
  <2>1. k \in Nat /\ \A i \in 1..k : u[i] \in STRING
    <3>1. Len(u) \in Nat
      OBVIOUS
    <3>2. \A i \in 1..k : i \in 1..Len(u)
      BY <3>1
    <3> QED BY <3>1, <3>2
  <2> QED BY <2>1, SubSeqProperties
<1>2. CASE phase = "backup" /\ Writable(disk, file.dir, backup)
  <2>1. source \in Seq(STRING)
    BY <1>2, BackupFacts
  <2>2. ASSUME NEW k \in {k \in 0..Len(source) : NUL \notin ToSet(SubSeq(source, 1, k))}
        PROVE  SubSeq(source, 1, k) \in Seq(STRING)
    BY <1>1, <2>1
  <2>3. Partial = {Write(created, file.dir, backup, SubSeq(source, 1, k)) :
                     k \in {k \in 0..Len(source) : NUL \notin ToSet(SubSeq(source, 1, k))}}
    BY <1>2 DEF Partial
  <2> QED BY <1>2, <2>2, <2>3
<1>3. CASE phase \in {"lines", "tail"}
  <2>1. Partial = {PutText(disk, file.dir, name, SubSeq(Text(disk, file.dir, name), 1, k)) :
                     k \in 0..Len(Text(disk, file.dir, name))}
    BY <1>3 DEF Partial
  <2> QED BY <1>3, <2>1
<1>4. CASE phase = "restore"
  <2>1. Text(disk, file.dir, backup) \in Seq(STRING)
    BY <1>4, RewriteFacts DEF Rewriting
  <2>2. Partial = {Write(disk, file.dir, name, SubSeq(Text(disk, file.dir, backup), 1, k)) :
                     k \in 0..Len(Text(disk, file.dir, backup))}
    BY <1>4 DEF Partial
  <2>3. ASSUME NEW k \in 0..Len(Text(disk, file.dir, backup))
        PROVE  SubSeq(Text(disk, file.dir, backup), 1, k) \in Seq(STRING)
    BY <1>1, <2>1
  <2> QED BY <1>4, <2>2, <2>3
<1>5. CASE ~(phase = "backup" /\ Writable(disk, file.dir, backup)) /\ phase \notin Rewriting
  <2>1. Partial = {}
    BY <1>5 DEF Partial, Rewriting
  <2> QED BY <2>1
<1> QED BY <1>2, <1>3, <1>4, <1>5 DEF Rewriting

\* A step that ends XREP in the middle of a file keeps the types.
LEMMA StopType ==
  ASSUME TypeInv, UNCHANGED <<xcVars, first, typed>>, DivideError \/ RestoreFile \/ Interrupt
  PROVE  TypeInv'
<1>1. XrepType /\ DiskType /\ cwd \in Dirs
  BY DEF TypeInv
<1>2. /\ phase # "idle" /\ UNCHANGED <<cwd, setup, opt_overwrite, file, curdir, before, warned>>
      /\ \E how : Ends(how)
  BY DEF DivideError, RestoreFile, Interrupt
<1>3. XrepType' /\ AttrType'
  BY <1>1, <1>2, EndsType
<1>4. ASSUME DivideError PROVE DiskType'
  <2> DEFINE t == Replaced(NextLine).line
  <2>1. phase = "lines" /\ disk' \in {disk, Write(disk, file.dir, name, t)}
    BY <1>4 DEF DivideError
  <2>2. rest \in Seq(STRING) /\ setup.pairs \in Seq(TextPair)
    BY <1>1 DEF XrepType, Setup
  <2>3. t \in Seq(STRING)
    BY <2>2, NextLineFacts, ReplacedFacts
  <2> HIDE DEF t
  <2> QED BY <2>1, <2>3, <1>1, RewriteFacts DEF Rewriting, DiskType
<1>5. ASSUME RestoreFile PROVE DiskType'
  <2> DEFINE t == Text(disk, file.dir, backup)
  <2>1. phase = "restore" /\ disk' = Write(disk, file.dir, name, t)
    BY <1>5 DEF RestoreFile
  <2>2. t \in Seq(STRING)
    BY <2>1, RewriteFacts DEF Rewriting
  <2> HIDE DEF t
  <2> QED BY <2>1, <2>2, RewriteFacts DEF Rewriting, DiskType
<1>6. ASSUME Interrupt PROVE DiskType'
  <2>1. disk' \in Partial \union {disk}
    BY <1>6 DEF Interrupt
  <2>2. CASE disk' = disk
    BY <2>2, <1>1 DEF DiskType
  <2>3. CASE /\ phase = "backup" /\ Writable(disk, file.dir, backup)
             /\ \E t \in Seq(STRING) : disk' = Write(created, file.dir, backup, t)
    BY <2>3, BackupFacts DEF DiskType
  <2>4. CASE /\ phase \in {"lines", "tail"}
             /\ \E k \in 0..Len(Text(disk, file.dir, name)) :
                  disk' = PutText(disk, file.dir, name, SubSeq(Text(disk, file.dir, name), 1, k))
    BY <2>4, RewriteFacts DEF Rewriting, DiskType
  <2>5. CASE phase = "restore" /\ \E t \in Seq(STRING) : disk' = Write(disk, file.dir, name, t)
    BY <2>5, RewriteFacts DEF Rewriting, DiskType
  <2> QED BY <2>1, <2>2, <2>3, <2>4, <2>5, PartialDisks
<1> QED BY <1>1, <1>2, <1>3, <1>4, <1>5, <1>6, XrepKeeps


\* A step of XC that keeps the types of its own variables keeps them all.
LEMMA XcKeeps ==
  ASSUME TypeInv, phase = "idle", UNCHANGED <<disk, xrepVars, first, typed>>, XcType', cwd' \in Dirs
  PROVE  TypeInv'
BY DEF TypeInv, DiskType, XrepType, AttrType, Copying, Rewriting, xrepVars, name, backup

\* The entry scandir finds, and the calls of scandir after it.
LEMMA EntryFound ==
  ASSUME TypeInv, xcPhase = "scan"
  PROVE  /\ last \in TrailStep /\ Len(trail) \in Nat \ {0}
         /\ Front(trail) \in Seq(TrailStep) /\ (Len(trail) # 1 => Front(trail) # <<>>)
         /\ Entry # 0 => LET slot == disk[last.dir][Entry] IN
               /\ slot \in Slot /\ (slot.attr = "dir" => slot.opens \in Dirs)
               /\ At(Entry) \in Seq(TrailStep) /\ At(Entry) # <<>>
<1>1. WellFormed(disk) /\ trail \in Seq(TrailStep) /\ trail # <<>>
  BY DEF TypeInv, DiskType, XcType
<1>2. /\ last \in TrailStep /\ Len(trail) \in Nat \ {0}
      /\ Front(trail) \in Seq(TrailStep) /\ (Len(trail) # 1 => Front(trail) # <<>>)
  BY <1>1, FrontAndLast DEF last
<1> DEFINE d == last.dir
           a == last.at
           attrs == FileAttrs \union DirAttrs
<1>3. d \in Dirs /\ a \in Nat
  BY <1>2 DEF TrailStep
<1>4. Len(disk[d]) \in Nat /\ \A i \in 1..Len(disk[d]) : disk[d][i] \in Slot
  BY <1>1, <1>3, SlotFound
<1>5. Entry = Find(disk, d, job.flag, attrs, a)
  BY DEF Entry
<1> HIDE DEF d, a, attrs
<1>6. ASSUME Entry # 0 PROVE Entry \in 1..Len(disk[d]) /\ Entry \in Nat
  <2>1. Entry \in (a + 1)..Len(disk[d])
    BY <1>1, <1>3, <1>5, <1>6, FoundEntry
  <2> HIDE DEF Entry
  <2> QED BY <2>1, <1>3, <1>4
<1>7. ASSUME Entry # 0, disk[d][Entry].attr = "dir" PROVE disk[d][Entry].opens \in Dirs
  <2>1. Entry \in 1..Len(disk[d]) /\ disk[d][Entry].attr \in DirAttrs
    BY <1>6, <1>7 DEF DirAttrs
  <2> QED BY <2>1, <1>1, <1>3, <1>4 DEF WellFormed
<1>8. ASSUME Entry # 0 PROVE At(Entry) \in Seq(TrailStep) /\ At(Entry) # <<>>
  <2> DEFINE e == Entry
             n == Len(trail)
             f == [trail[n] EXCEPT !.at = e]
  <2>1. e \in Nat /\ n \in Nat \ {0} /\ trail[n] \in TrailStep
    BY <1>1, <1>2, <1>6, <1>8
  <2>2. At(Entry) = [trail EXCEPT ![n] = f]
    BY DEF At
  <2> HIDE DEF e
  <2>3. f \in TrailStep
    BY <2>1 DEF TrailStep
  <2> HIDE DEF f, TrailStep
  <2>4. n \in 1..Len(trail)
    BY <2>1
  <2>5. [trail EXCEPT ![n] = f] \in Seq(TrailStep) /\ Len([trail EXCEPT ![n] = f]) = Len(trail)
    BY <1>1, <2>3, <2>4
  <2>6. [trail EXCEPT ![n] = f] # <<>>
    BY <2>1, <2>5
  <2> QED BY <2>2, <2>5, <2>6
<1> QED BY <1>2, <1>4, <1>6, <1>7, <1>8 DEF d

\* A step of XC keeps the types.
LEMMA XcStepType ==
  ASSUME TypeInv, UNCHANGED <<xrepVars, first, typed>>, XcStep \/ XcEscape \/ XcDiskError
  PROVE  TypeInv'
<1>1. XcType /\ cwd \in Dirs /\ home \in Dirs
  BY DEF TypeInv, XcType
<1>2. xcPhase # "idle" /\ disk' = disk /\ home' = home
  BY DEF XcStep, XcSubdir, XcFile, XcKey, XcReturn, XcFileKey, XcEscape, XcDiskError
<1>3. phase = "idle"
  BY <1>2 DEF TypeInv
<1>4. ASSUME \E how : XcEnds(how) PROVE XcType' /\ cwd' \in Dirs
  BY <1>1, <1>2, <1>4 DEF XcEnds, XcType
<1>5. ASSUME XcSubdir PROVE XcType' /\ cwd' \in Dirs
  <2> DEFINE slot == disk[last.dir][Entry]
             f == [dir |-> slot.opens, at |-> 0, path |-> logged', old |-> logged]
  <2>1. /\ xcPhase = "scan" /\ Entry # 0 /\ slot.attr = "dir" /\ UNCHANGED <<disk, xcPhase, job, verdict, xcEnding, home>>
        /\ \/ /\ logged' = Append(last.path, slot.name) /\ cwd' = slot.opens
              /\ trail' = Append(At(Entry), f)
           \/ trail' = At(Entry) /\ UNCHANGED <<count, logged, cwd>>
    BY <1>5 DEF XcSubdir
  <2>2. /\ slot \in Slot /\ slot.opens \in Dirs /\ At(Entry) \in Seq(TrailStep) /\ At(Entry) # <<>>
        /\ last \in TrailStep
    BY <2>1, EntryFound
  <2>3. CASE trail' = At(Entry) /\ UNCHANGED <<count, logged, cwd>>
    BY <2>1, <2>2, <2>3, <1>1 DEF XcType
  <2>4. CASE /\ logged' = Append(last.path, slot.name) /\ cwd' = slot.opens
             /\ trail' = Append(At(Entry), f)
    <3>1. slot.name \in Names /\ last.path \in Seq(Names) /\ logged \in Seq(Names)
      BY <2>2, <1>1 DEF Slot, TrailStep, XcType
    <3> DEFINE p == last.path
               n == slot.name
               s == At(Entry)
    <3>2. logged' \in Seq(Names)
      <4> HIDE DEF p, n, slot
      <4>1. Append(p, n) \in Seq(Names)
        BY <3>1, AppendProperties DEF p, n
      <4> QED BY <4>1, <2>4 DEF p, n
    <3>3. f \in TrailStep
      BY <2>2, <3>1, <3>2 DEF TrailStep
    <3> HIDE DEF f, s, slot
    <3>4. Append(s, f) \in Seq(TrailStep) /\ Append(s, f) # <<>>
      BY <3>3, <2>2, AppendProperties DEF s
    <3>5. trail' \in Seq(TrailStep) /\ trail' # <<>>
      BY <3>4, <2>4 DEF s
    <3> QED BY <2>1, <2>2, <2>4, <3>2, <3>5, <1>1 DEF XcType
  <2> QED BY <2>1, <2>3, <2>4
<1>6. ASSUME XcFile PROVE XcType' /\ cwd' \in Dirs
  <2>1. /\ xcPhase = "scan" /\ Entry # 0 /\ trail' = At(Entry) /\ xcPhase' \in {"paused", "scan"}
        /\ UNCHANGED <<disk, cwd, job, logged, xcEnding, home>>
    BY <1>6 DEF XcFile
  <2>2. At(Entry) \in Seq(TrailStep) /\ At(Entry) # <<>>
    BY <2>1, EntryFound
  <2> QED BY <2>1, <2>2, <1>1 DEF XcType
<1>7. ASSUME XcKey PROVE XcType' /\ cwd' \in Dirs
  BY <1>1, <1>7 DEF XcKey, XcType
<1>8. ASSUME XcReturn PROVE XcType' /\ cwd' \in Dirs
  <2>1. xcPhase = "scan" /\ UNCHANGED <<disk, job, count, home>>
    BY <1>8 DEF XcReturn
  <2>2. CASE Len(trail) = 1
    BY <1>4, <1>8, <2>2 DEF XcReturn
  <2>3. CASE Len(trail) # 1
    <3>1. trail' = Front(trail) /\ logged' = last.old /\ UNCHANGED <<xcPhase, xcEnding, cwd, verdict>>
      BY <1>8, <2>3 DEF XcReturn
    <3>2. Front(trail) \in Seq(TrailStep) /\ Front(trail) # <<>> /\ last.old \in Seq(Names)
      BY <2>1, <2>3, EntryFound DEF TrailStep
    <3> QED BY <2>1, <3>1, <3>2, <1>1 DEF XcType
  <2> QED BY <2>2, <2>3
<1>9. ASSUME XcFileKey \/ XcEscape PROVE XcType' /\ cwd' \in Dirs
  BY <1>4, <1>9 DEF XcFileKey, XcEscape
<1>10. ASSUME XcDiskError PROVE XcType' /\ cwd' \in Dirs
  BY <1>1, <1>10 DEF XcDiskError, XcType
<1>11. XcType' /\ cwd' \in Dirs
  BY <1>5, <1>6, <1>7, <1>8, <1>9, <1>10 DEF XcStep
<1> QED BY <1>2, <1>3, <1>11, XcKeeps


\* Typing a command keeps the types.
LEMMA CommandType ==
  ASSUME TypeInv, NEW c \in Command, Type(c)
  PROVE  TypeInv'
<1>1. DiskType /\ XrepType /\ XcType /\ cwd \in Dirs /\ typed \in Seq(Command)
  BY DEF TypeInv
<1>2. /\ phase = "idle" /\ xcPhase = "idle" /\ typed' = Append(typed, c) /\ first' = first
  BY DEF Type
<1>3. typed' \in Seq(Command)
  <2> HIDE DEF Command
  <2> QED BY <1>1, <1>2, AppendProperties
<1>4. CASE c.program = "xrep"
  <2> DEFINE k == c.container
             a == c.files
  <2>1. k \in Container /\ a \in Argument /\ c.nosubdirs \in BOOLEAN
    BY <1>4 DEF Command
  <2>2. /\ XrepStart(k, a, c.nosubdirs) \/ XrepRefused(k, a)
        /\ UNCHANGED xcVars
    BY <1>4 DEF Type
  <2> HIDE DEF k, a
  <2>3. XcType' /\ xcPhase' = "idle"
    BY <2>2, <1>1, <1>2 DEF XcType, xcVars
  <2>4. CASE XrepRefused(k, a)
    <3>1. /\ Ends("refused") /\ curdir' = cwd
          /\ UNCHANGED <<disk, cwd, setup, opt_overwrite, file, before, warned, full, wrapped>>
      BY <2>4 DEF XrepRefused
    <3>2. XrepType' /\ AttrType'
      BY <3>1, <1>1 DEF XrepType, AttrType, Ends, Copying, Rewriting
    <3> QED BY <3>1, <3>2, <2>3, <1>1, <1>3 DEF TypeInv, DiskType
  <2>5. CASE XrepStart(k, a, c.nosubdirs)
    <3> DEFINE n == MakeNames2(a)
               r == Replacements(k)
    <3>1. /\ k.lines # <<>> /\ ~NoSuchDir(a) /\ curdir' = cwd
          /\ setup' = [dir |-> n.dir, flag |-> n.flag, nosubdirs |-> c.nosubdirs, pairs |-> r]
          /\ frames' = <<[dir |-> n.dir, at |-> 0, slash |-> TRUE]>> /\ phase' = "flag"
          /\ UNCHANGED <<disk, cwd, file, rest, read_filesize, local_replacement, before, warned, full, wrapped>>
      BY <2>5 DEF XrepStart
    <3>2. r \in Seq(TextPair)
      BY <2>1, <3>1, ReplacementsType
    <3>3. n.dir \in Dirs /\ n.flag \in SUBSET Names
      BY <2>1, <3>1, <1>1 DEF MakeNames2, NoSuchDir, Argument
    <3> HIDE DEF n, r
    <3>4. setup' \in Setup
      BY <2>1, <3>1, <3>2, <3>3 DEF Setup
    <3>5. frames' \in Seq(Frame) /\ frames' # <<>>
      <4> DEFINE f == [dir |-> n.dir, at |-> 0, slash |-> TRUE]
      <4>1. f \in Frame
        BY <3>3 DEF Frame
      <4>2. frames' = <<f>>
        BY <3>1
      <4> HIDE DEF f
      <4> QED BY <4>1, <4>2
    <3>6. XrepType'
      BY <3>1, <3>4, <3>5, <1>1 DEF XrepType, Copying
    <3>7. AttrType'
      BY <3>1 DEF AttrType, Copying, Rewriting
    <3> QED BY <3>1, <3>6, <3>7, <2>3, <1>1, <1>3 DEF TypeInv, DiskType
  <2> QED BY <2>2, <2>4, <2>5
<1>5. CASE c.program # "xrep"
  <2> DEFINE a == c.source
             b == c.target
             o == c.options
  <2>1. a \in Argument /\ b \in Argument
    BY <1>5 DEF Command
  <2>2. /\ XcStart(a, b, o) \/ XcBreakNaming(a, b, o) \/ XcTwoFiles(a, b, o) \/ XcRefused(a, b, o)
        /\ UNCHANGED xrepVars
    BY <1>5 DEF Type
  <2> HIDE DEF a, b, o
  <2>3. disk' = disk /\ cwd' \in Dirs
    <3>1. XcStart(a, b, o) \/ XcTwoFiles(a, b, o) \/ XcRefused(a, b, o) => disk' = disk /\ cwd' = cwd
      BY DEF XcStart, XcTwoFiles, XcRefused
    <3>2. XcBreakNaming(a, b, o) => disk' = disk /\ cwd' = ArgDir(b) /\ ~Lost(b)
      BY DEF XcBreakNaming
    <3>3. ~Lost(b) => ArgDir(b) \in Dirs
      BY <2>1, <1>1 DEF ArgDir, Lost, Argument
    <3> QED BY <2>2, <3>1, <3>2, <3>3, <1>1
  <2>4. XrepType' /\ DiskType' /\ AttrType' /\ phase' = "idle"
    BY <2>2, <2>3, <1>1, <1>2 DEF XrepType, DiskType, AttrType, xrepVars, Copying, Rewriting
  <2>5. CASE XcStart(a, b, o)
    <3> DEFINE d == ArgDir(a)
               f == [dir |-> d, at |-> 0, path |-> <<>>, old |-> <<>>]
    <3>1. /\ ~Refuses(a, b) /\ home' = cwd /\ trail' = <<f>> /\ logged' = <<>> /\ xcPhase' = "scan"
      BY <2>5 DEF XcStart
    <3>2. ~Lost(a)
      BY <3>1 DEF Refuses, AnyEntry
    <3>3. d \in Dirs
      BY <2>1, <3>2, <1>1 DEF ArgDir, Lost, Argument
    <3> HIDE DEF d
    <3>4. f \in TrailStep
      BY <3>3 DEF TrailStep
    <3> HIDE DEF f
    <3>5. XcType'
      BY <3>1, <3>4, <1>1 DEF XcType
    <3> QED BY <2>3, <2>4, <3>5, <1>1, <1>3 DEF TypeInv
  <2>6. CASE XcBreakNaming(a, b, o) \/ XcTwoFiles(a, b, o) \/ XcRefused(a, b, o)
    <3>1. xcPhase' \in {"idle", "pausedfile"} /\ home' = cwd /\ UNCHANGED <<trail, logged>>
      BY <2>6, <1>2 DEF XcBreakNaming, XcTwoFiles, XcRefused
    <3>2. XcType'
      BY <3>1, <1>1 DEF XcType
    <3> QED BY <2>3, <2>4, <3>2, <1>1, <1>3 DEF TypeInv
  <2> QED BY <2>2, <2>5, <2>6
<1> QED BY <1>4, <1>5

\* Commands the user may type are commands.
LEMMA CommandsType ==
  ASSUME TypeInv, Len(typed) < Len(Commands), NEW c \in Commands[Len(typed) + 1]
  PROVE  c \in Command
<1>1. Commands \in Seq(SUBSET Command) /\ typed \in Seq(Command)
  BY SessionAssumption DEF TypeInv
<1> HIDE DEF Command
<1>2. Len(typed) + 1 \in 1..Len(Commands)
  BY <1>1
<1> QED BY <1>1, <1>2

\* Every step keeps the types.
LEMMA TypeNext == TypeInv /\ [Next]_vars => TypeInv'
<1> SUFFICES ASSUME TypeInv, [Next]_vars PROVE TypeInv'
  OBVIOUS
<1>1. CASE Len(typed) < Len(Commands) /\ \E c \in Commands[Len(typed) + 1] : Type(c)
  BY <1>1, CommandsType, CommandType
<1>2. CASE XrepRuns
  BY <1>2, WalkType, BackupType, RewriteType, StopType DEF XrepRuns, XrepStep
<1>3. CASE XrepStops
  BY <1>3, RewriteType, StopType DEF XrepStops
<1>4. CASE XcRuns
  BY <1>4, XcStepType DEF XcRuns
<1>5. CASE XcStops
  BY <1>5, XcStepType DEF XcStops
<1>6. CASE UNCHANGED vars
  BY <1>6 DEF vars, TypeInv, DiskType, XrepType, XcType, AttrType, Copying, Rewriting, xrepVars, xcVars,
              name, backup
<1> QED BY <1>1, <1>2, <1>3, <1>4, <1>5, <1>6 DEF Next

\* The types hold in every state of a session.
LEMMA TypesHold == Spec => []TypeInv
BY TypeInit, TypeNext, PTL DEF Spec

\* TypeOK: whatever the disk, the names, the room and the commands are, the disk stays
\* one that DOS could have (no directory has two entries of one name, its files fit
\* the room), each program stays in a directory, and only one of them runs.
THEOREM SessionTypes == Spec => []TypeOK
<1>1. TypeInv => TypeOK
  BY DEF TypeInv, TypeOK, DiskType, XrepType, XcType
<1> QED BY <1>1, TypesHold, PTL


-----------------------------------------------------------------------------
(* Both programs come home.                                                 *)

\* The last of a sequence with one more.
LEMMA LastAppended ==
  ASSUME NEW S, NEW s \in Seq(S), NEW x \in S
  PROVE  Append(s, x) # <<>> /\ Last(Append(s, x)) = x
BY DEF Last

\* A step that ends XREP by itself has gone back to the directory it was started from.
LEMMA EndsAtHome ==
  ASSUME phase # "idle", XrepStep \/ PressEscape \/ Interrupt, phase' = "idle", ending' = "normal"
  PROVE  cwd' = curdir'
<1>1. ASSUME Return, UNCHANGED curdir PROVE cwd' = curdir'
  <2>1. CASE Len(frames) = 1
    BY <1>1, <2>1 DEF Return
  <2>2. CASE Len(frames) # 1
    <3>1. phase' = "subdirs"
      BY <1>1, <2>2 DEF Return
    <3> QED BY <3>1
  <2> QED BY <2>1, <2>2
<1>2. CASE EndFlag
  <2>1. CASE setup.nosubdirs
    BY <1>1, <1>2, <2>1 DEF EndFlag
  <2>2. CASE ~setup.nosubdirs
    <3>1. phase' = "subdirs"
      BY <1>2, <2>2 DEF EndFlag
    <3> QED BY <3>1
  <2> QED BY <2>1, <2>2
<1>3. CASE LeaveDir
  BY <1>1, <1>3 DEF LeaveDir
<1>4. CASE FindFile \/ EnterDir
  <2>1. phase' # "idle"
    BY <1>4 DEF FindFile, EnterDir
  <2> QED BY <2>1
<1>5. CASE \E key \in {"Y", "A", "Q", "other"} : Answer(key)
  BY <1>5 DEF Answer, Ends
<1>6. CASE BackupRefused \/ BinaryFile \/ MakeBackup \/ FinishFile \/ PressEscape
  BY <1>6 DEF BackupRefused, BinaryFile, MakeBackup, FinishFile, PressEscape
<1>7. CASE Reopen \/ RewriteLine
  BY <1>7 DEF Reopen, RewriteLine
<1>8. CASE DivideError \/ RestoreFile \/ Interrupt
  BY <1>8 DEF DivideError, RestoreFile, Interrupt, Ends
<1> QED BY <1>2, <1>3, <1>4, <1>5, <1>6, <1>7, <1>8 DEF XrepStep

\* A running program was typed last, and both have come home when they end.
LEMMA HomeNext == TypeInv /\ HomeInv /\ [Next]_vars => HomeInv'
<1> SUFFICES ASSUME TypeInv, HomeInv, [Next]_vars PROVE HomeInv'
  OBVIOUS
<1>1. ASSUME NEW c \in Command, Type(c) PROVE HomeInv'
  <2>1. phase = "idle" /\ xcPhase = "idle" /\ typed' = Append(typed, c)
    BY <1>1 DEF Type
  <2>2. typed' # <<>> /\ Last(typed') = c
    <3> HIDE DEF Command
    <3> QED BY <2>1, LastAppended DEF TypeInv
  <2>3. CASE c.program = "xrep"
    <3>1. XrepStart(c.container, c.files, c.nosubdirs) \/ XrepRefused(c.container, c.files)
      BY <1>1, <2>3 DEF Type
    <3>2. UNCHANGED xcVars
      BY <1>1, <2>3 DEF Type
    <3>3. xcPhase' = "idle"
      BY <2>1, <3>2 DEF xcVars
    <3>4. phase' = "flag" \/ ending' = "refused"
      BY <3>1 DEF XrepStart, XrepRefused, Ends
    <3>5. ~AtPrompt("xc")'
      BY <2>2, <2>3 DEF AtPrompt
    <3>6. ComesHome'
      BY <3>4, <3>5 DEF ComesHome, AtPrompt
    <3> QED BY <2>2, <2>3, <3>3, <3>6 DEF HomeInv
  <2>4. CASE c.program # "xrep"
    <3>1. c.program = "xc"
      BY <2>4 DEF Command
    <3>2. \/ XcStart(c.source, c.target, c.options)
          \/ XcBreakNaming(c.source, c.target, c.options)
          \/ XcTwoFiles(c.source, c.target, c.options)
          \/ XcRefused(c.source, c.target, c.options)
      BY <1>1, <2>4 DEF Type
    <3>3. phase' = "idle"
      BY <1>1, <2>1, <2>4 DEF Type, xrepVars
    <3>4. home' = cwd /\ (cwd' = cwd \/ xcEnding' = "naming")
      BY <3>2 DEF XcStart, XcBreakNaming, XcTwoFiles, XcRefused
    <3>5. ~AtPrompt("xrep")'
      BY <2>2, <3>1 DEF AtPrompt
    <3>6. ComesHome'
      BY <3>4, <3>5 DEF ComesHome, AtPrompt
    <3> QED BY <2>2, <3>1, <3>3, <3>6 DEF HomeInv
  <2> QED BY <2>3, <2>4
<1>2. ASSUME XrepStep \/ PressEscape \/ Interrupt, UNCHANGED <<xcVars, first, typed>> PROVE HomeInv'
  <2>1. phase # "idle"
    BY <1>2 DEF XrepStep, FindFile, EndFlag, EnterDir, LeaveDir, Answer, BackupRefused, BinaryFile, MakeBackup,
                Reopen, RewriteLine, DivideError, FinishFile, RestoreFile, PressEscape, Interrupt
  <2>2. xcPhase' = "idle" /\ typed' = typed /\ typed # <<>> /\ Last(typed).program = "xrep"
    BY <1>2, <2>1 DEF TypeInv, HomeInv, xcVars
  <2>3. phase' = "idle" /\ ending' = "normal" => cwd' = curdir'
    BY <1>2, <2>1, EndsAtHome
  <2> QED BY <2>2, <2>3 DEF HomeInv, ComesHome, AtPrompt
<1>3. ASSUME XcStep \/ XcEscape \/ XcDiskError, UNCHANGED <<xrepVars, first, typed>> PROVE HomeInv'
  <2>1. xcPhase # "idle"
    BY <1>3 DEF XcStep, XcSubdir, XcFile, XcKey, XcReturn, XcFileKey, XcEscape, XcDiskError
  <2>2. phase' = "idle" /\ typed' = typed /\ typed # <<>> /\ Last(typed).program = "xc"
    BY <1>3, <2>1 DEF TypeInv, HomeInv, xrepVars
  <2>3. xcPhase' = "idle" /\ xcEnding' # "abort" => cwd' = home'
    <3>1. CASE XcSubdir \/ XcKey
      BY <2>1, <3>1 DEF XcSubdir, XcKey
    <3>2. CASE XcFile
      BY <3>2 DEF XcFile
    <3>3. CASE XcReturn
      BY <2>1, <3>3 DEF XcReturn, XcEnds
    <3>4. CASE XcFileKey \/ XcEscape \/ XcDiskError
      BY <3>4 DEF XcFileKey, XcEscape, XcDiskError, XcEnds
    <3> QED BY <1>3, <3>1, <3>2, <3>3, <3>4 DEF XcStep
  <2> QED BY <2>2, <2>3 DEF HomeInv, ComesHome, AtPrompt
<1>4. CASE UNCHANGED vars
  BY <1>4 DEF vars, HomeInv, ComesHome, AtPrompt, xrepVars, xcVars
<1>5. CASE Len(typed) < Len(Commands) /\ \E c \in Commands[Len(typed) + 1] : Type(c)
  BY <1>1, <1>5, CommandsType
<1> QED BY <1>2, <1>3, <1>4, <1>5 DEF Next, XrepRuns, XrepStops, XcRuns, XcStops

\* ComesHome: however deep they have gone, XC (unless a disk error kills it, or Ctrl-Break
\* meets it in the directory of its target argument) and XREP when it ends by itself leave
\* the user in the directory where he typed the command.
THEOREM BothComeHome == Spec => []ComesHome
<1>1. Init => HomeInv
  BY DEF Init, XrepInit, XcInit, HomeInv, ComesHome, AtPrompt
<1>2. HomeInv => ComesHome
  BY DEF HomeInv
<1> QED BY <1>1, <1>2, HomeNext, TypesHold, PTL DEF Spec


-----------------------------------------------------------------------------
(* Escape restores the file.                                                *)

\* A file that has another extension is not its own backup.
LEMMA OtherThanBackup == ASSUME file.name \in Names, name.ext # "XRP" PROVE name # backup
<1>1. file.name \in [base : STRING, ext : STRING]
  BY XrepAssumption
<1> QED BY <1>1 DEF name, backup, Xrp

\* Between two files there is nothing to keep but the text the last one had.
LEMMA CopyBetween ==
  ASSUME before' \in Seq(STRING), phase' \in {"flag", "subdirs", "idle"},
         phase' # "idle" => ending' = "none", ending' # "escape"
  PROVE  CopyInv'
BY DEF CopyInv, EscapeRestores, Rewriting

\* What CopyInv asks of the next state, with the next state spelled out.
LEMMA CopyWithin ==
  ASSUME NEW after, disk' = after, before' \in Seq(STRING), ending' = "none", UNCHANGED file,
         ~full' /\ name # backup =>
            /\ phase' \in {"prompt", "backup", "reopen"} => Text(after, file.dir, name) = before'
            /\ phase' \in Rewriting \union {"reopen"} => Text(after, file.dir, backup) = before'
            /\ phase' = "restore" => Text(after, file.dir, name) = <<>>
            /\ phase' = "lines" /\ ~wrapped' /\ local_replacement' = 0 => Text(after, file.dir, name) \o rest' = before'
            /\ phase' = "tail" /\ ~wrapped' /\ local_replacement' = 0 => Text(after, file.dir, name) = Append(before', EOFCHAR)
  PROVE  CopyInv'
<1>1. name' = name /\ backup' = backup /\ file' = file
  BY DEF name, backup
<1>2. EscapeRestores'
  BY DEF EscapeRestores
<1> QED BY <1>1, <1>2 DEF CopyInv

\* The step that opens a file.
LEMMA CopyFound == ASSUME TypeInv, CopyInv, FindFile PROVE CopyInv'
<1> DEFINE slot == disk[top.dir][NextFile]
<1>1. /\ phase = "flag" /\ NextFile # 0 /\ disk' = disk
      /\ file' = [dir |-> top.dir, name |-> slot.name] /\ before' = slot.text
      /\ phase' \in {"prompt", "backup"} /\ ending' = ending
  BY DEF FindFile
<1>2. slot \in Slot /\ Text(disk, top.dir, slot.name) = slot.text
  BY <1>1, NextFound
<1>3. slot.text \in Seq(STRING)
  BY <1>2 DEF Slot
<1> HIDE DEF slot
<1>4. Text(disk', file'.dir, name') = before' /\ before' \in Seq(STRING) /\ ending' = "none"
  BY <1>1, <1>2, <1>3 DEF name, CopyInv
<1> QED BY <1>1, <1>4 DEF CopyInv, EscapeRestores, Rewriting

\* The steps that make the backup and reopen the file.
LEMMA CopyMade == ASSUME TypeInv, CopyInv, MakeBackup \/ Reopen PROVE CopyInv'
<1>1. /\ phase # "idle" /\ file' = file /\ before' = before /\ ending' = ending
      /\ before \in Seq(STRING) /\ ending = "none"
  BY DEF MakeBackup, Reopen, CopyInv
<1>2. ASSUME MakeBackup PROVE CopyInv'
  <2> DEFINE after == Write(created, file.dir, backup, source)
  <2>1. /\ phase = "backup" /\ Writable(disk, file.dir, backup) /\ disk' = after
        /\ full' = (full \/ ~Fits(created, source)) /\ phase' = "reopen"
    BY <1>2 DEF MakeBackup
  <2>2. /\ file.dir \in Dirs /\ name \in Names /\ Spares(disk, after, file.dir, backup) /\ source \in Seq(STRING)
        /\ name # backup => source = Text(disk, file.dir, name)
        /\ Fits(created, source) => Text(after, file.dir, backup) = source
    BY <2>1, BackupFacts
  <2>3. Attr(disk, file.dir, name) # "free"
    BY <2>1 DEF TypeInv, AttrType, Copying, FileAttrs
  <2> HIDE DEF after
  <2>4. ASSUME ~full', name # backup
        PROVE  Text(after, file.dir, name) = before' /\ Text(after, file.dir, backup) = before'
    <3>1. Text(disk, file.dir, name) = before
      BY <2>1, <2>4 DEF CopyInv
    <3>2. Text(after, file.dir, name) = Text(disk, file.dir, name)
      BY <2>2, <2>3, <2>4 DEF Spares
    <3> QED BY <2>1, <2>2, <2>4, <3>1, <3>2, <1>1
  <2> QED BY <2>1, <2>4, <1>1, CopyWithin DEF Rewriting
<1>3. ASSUME Reopen PROVE CopyInv'
  <2> DEFINE after == Create(disk, file.dir, name)
  <2>1. phase = "reopen" /\ full' = full
    BY <1>3 DEF Reopen
  <2>2. CASE ~Writable(disk, file.dir, name)
    <3>1. phase' = "flag"
      BY <1>3, <2>2 DEF Reopen
    <3> QED BY <3>1, <1>1, CopyBetween
  <2>3. CASE Writable(disk, file.dir, name)
    <3>1. disk' = after /\ rest' = Text(disk', file.dir, backup) /\ phase' = "lines"
      BY <1>3, <2>3 DEF Reopen
    <3>2. /\ Text(after, file.dir, name) = <<>>
          /\ name # backup => Text(after, file.dir, backup) = Text(disk, file.dir, backup)
      BY <2>1, <2>3, ReopenFacts
    <3> HIDE DEF after
    <3>3. ASSUME ~full', name # backup
          PROVE  Text(after, file.dir, backup) = before' /\ Text(after, file.dir, name) \o rest' = before'
      <4>1. Text(after, file.dir, backup) = before
        BY <2>1, <3>2, <3>3 DEF CopyInv
      <4>2. <<>> \o before = before
        BY <1>1
      <4> QED BY <4>1, <4>2, <3>1, <3>2, <1>1
    <3> QED BY <3>1, <3>3, <1>1, CopyWithin
  <2> QED BY <2>2, <2>3
<1> QED BY <1>2, <1>3

\* The step that rewrites a line.
LEMMA CopyRewritten == ASSUME TypeInv, CopyInv, RewriteLine PROVE CopyInv'
<1> DEFINE new == Replaced(NextLine)
           after == Write(disk, file.dir, name, new.line)
           written == Text(disk, file.dir, name)
<1>1. /\ phase = "lines" /\ disk' = after /\ full' = (full \/ ~Fits(disk, new.line))
      /\ local_replacement' = AsInt(local_replacement + new.count)
      /\ wrapped' = (wrapped \/ local_replacement + new.count > MaxInt)
      /\ rest' = SubSeq(rest, Len(NextLine) + 1, Len(rest))
      /\ phase' = IF Len(NextLine) > Len(rest) THEN "tail" ELSE "lines"
      /\ file' = file /\ before' = before /\ ending' = ending
      /\ before \in Seq(STRING) /\ ending = "none"
  BY DEF RewriteLine, CopyInv
<1>2. /\ rest \in Seq(STRING) /\ setup.pairs \in Seq(TextPair)
      /\ local_replacement \in Int /\ (~wrapped => local_replacement \in Nat)
  BY DEF TypeInv, XrepType, Setup
<1>3. /\ NextLine \in Seq(STRING) /\ rest' \in Seq(STRING)
      /\ Len(NextLine) <= Len(rest) => NextLine \o rest' = rest
      /\ Len(NextLine) > Len(rest) => NextLine = Append(rest, EOFCHAR)
  BY <1>1, <1>2, NextLineFacts
<1>4. new.line \in Seq(STRING) /\ new.count \in Nat /\ (new.count = 0 => new.line = NextLine)
  BY <1>2, <1>3, ReplacedFacts
<1> HIDE DEF new
<1>5. /\ written \in Seq(STRING) /\ Spares(disk, after, file.dir, name)
      /\ Fits(disk, new.line) => Text(after, file.dir, name) = written \o new.line
      /\ file.dir \in Dirs /\ backup \in Names
  BY <1>1, <1>4, RewriteFacts DEF Rewriting
<1>6. Attr(disk, file.dir, backup) # "free"
  BY <1>1 DEF TypeInv, AttrType, Rewriting
<1> HIDE DEF after, written
<1>7. ASSUME ~full', name # backup PROVE Text(after, file.dir, backup) = before
  <2>1. Text(disk, file.dir, backup) = before
    BY <1>1, <1>7 DEF CopyInv, Rewriting
  <2> QED BY <2>1, <1>5, <1>6, <1>7 DEF Spares
<1>8. ASSUME ~full', name # backup, ~wrapped', local_replacement' = 0
      PROVE  Text(after, file.dir, name) = written \o NextLine /\ written \o rest = before
  <2> DEFINE a == local_replacement
             b == new.count
  <2>1. a \in Nat /\ b \in Nat /\ a + b = 0 /\ ~wrapped
    BY <1>1, <1>2, <1>4, <1>8, CountKept
  <2> HIDE DEF a, b
  <2>2. a = 0 /\ b = 0
    BY <2>1
  <2>3. new.line = NextLine /\ local_replacement = 0
    BY <2>2, <1>4 DEF a, b
  <2> QED BY <2>3, <1>1, <1>5, <1>8 DEF CopyInv, written
<1>9. ASSUME ~full', name # backup, ~wrapped', local_replacement' = 0, phase' = "lines"
      PROVE  Text(after, file.dir, name) \o rest' = before
  <2>1. Len(NextLine) <= Len(rest)
    BY <1>1, <1>2, <1>3, <1>9
  <2>2. NextLine \o rest' = rest
    BY <2>1, <1>3
  <2> DEFINE a == NextLine
             b == rest'
  <2>3. a \in Seq(STRING) /\ b \in Seq(STRING) /\ written \in Seq(STRING)
    BY <1>3, <1>5
  <2> HIDE DEF a, b
  <2>4. (written \o a) \o b = written \o (a \o b)
    BY <2>3, ConcatAssociative
  <2> QED BY <2>2, <2>4, <1>8, <1>9 DEF a, b
<1>10. ASSUME ~full', name # backup, ~wrapped', local_replacement' = 0, phase' = "tail"
       PROVE  Text(after, file.dir, name) = Append(before, EOFCHAR)
  <2>1. NextLine = Append(rest, EOFCHAR)
    BY <1>1, <1>3, <1>10
  <2>2. EOFCHAR \in STRING
    BY XrepAssumption
  <2>3. written \o Append(rest, EOFCHAR) = Append(written \o rest, EOFCHAR)
    <3> DEFINE e == <<EOFCHAR>>
    <3>1. e \in Seq(STRING) /\ Append(rest, EOFCHAR) = rest \o e
      BY <2>2, <1>2, AppendIsConcat
    <3>2. written \o rest \in Seq(STRING)
      BY <1>2, <1>5
    <3>3. Append(written \o rest, EOFCHAR) = (written \o rest) \o e
      BY <2>2, <3>2, AppendIsConcat
    <3> HIDE DEF e
    <3>4. (written \o rest) \o e = written \o (rest \o e)
      BY <3>1, <1>2, <1>5, ConcatAssociative
    <3> QED BY <3>1, <3>3, <3>4
  <2> QED BY <2>1, <2>3, <1>8, <1>10
<1>11. phase' \in {"lines", "tail"}
  BY <1>1
<1> QED BY <1>1, <1>7, <1>9, <1>10, <1>11, CopyWithin

\* The steps that restore the file.
LEMMA CopyRestored == ASSUME TypeInv, CopyInv, PressEscape \/ RestoreFile PROVE CopyInv'
<1>1. /\ phase \in {"lines", "restore"} /\ file' = file /\ before' = before
      /\ before \in Seq(STRING) /\ ending = "none"
  BY DEF PressEscape, RestoreFile, CopyInv
<1>2. /\ file.dir \in Dirs /\ name \in Names /\ backup \in Names /\ Attr(disk, file.dir, backup) # "free"
      /\ Text(disk, file.dir, backup) \in Seq(STRING)
  BY <1>1, RewriteFacts DEF TypeInv, AttrType, Rewriting
<1>3. ASSUME PressEscape PROVE CopyInv'
  <2> DEFINE after == Create(disk, file.dir, name)
  <2>1. phase = "lines" /\ disk' = after /\ phase' = "restore" /\ full' = full /\ ending' = ending
    BY <1>3 DEF PressEscape
  <2>2. Spares(disk, after, file.dir, name) /\ Text(after, file.dir, name) = <<>>
    BY <2>1, RewriteFacts DEF Rewriting
  <2> HIDE DEF after
  <2>3. ASSUME ~full', name # backup PROVE Text(after, file.dir, backup) = before'
    <3>1. Text(disk, file.dir, backup) = before
      BY <2>1, <2>3 DEF CopyInv, Rewriting
    <3> QED BY <3>1, <2>2, <2>3, <1>1, <1>2 DEF Spares
  <2> QED BY <2>1, <2>2, <2>3, <1>1, CopyWithin
<1>4. ASSUME RestoreFile PROVE CopyInv'
  <2> DEFINE text == Text(disk, file.dir, backup)
             after == Write(disk, file.dir, name, text)
  <2>1. /\ phase = "restore" /\ disk' = after /\ full' = (full \/ ~Fits(disk, text))
        /\ phase' = "idle"
    BY <1>4 DEF RestoreFile, Ends
  <2>2. Fits(disk, text) => Text(after, file.dir, name) = Text(disk, file.dir, name) \o text
    BY <2>1, <1>2, RewriteFacts DEF Rewriting
  <2> HIDE DEF after
  <2>3. ASSUME ~full', name.ext # "XRP" PROVE Text(after, file.dir, name) = before
    <3>1. name # backup
      BY <2>3, <1>2, OtherThanBackup DEF name
    <3>2. text = before /\ Text(disk, file.dir, name) = <<>>
      BY <2>1, <2>3, <3>1 DEF CopyInv, Rewriting
    <3>3. <<>> \o before = before
      BY <1>1
    <3> QED BY <2>1, <2>2, <2>3, <3>2, <3>3
  <2>4. name' = name
    BY <1>1 DEF name
  <2>5. EscapeRestores'
    BY <2>1, <2>3, <2>4, <1>1 DEF EscapeRestores
  <2> QED BY <2>1, <2>5, <1>1 DEF CopyInv, Rewriting
<1> QED BY <1>3, <1>4

\* Every step keeps the copy.
LEMMA CopyNext == TypeInv /\ CopyInv /\ [Next]_vars => CopyInv'
<1> SUFFICES ASSUME TypeInv, CopyInv, [Next]_vars PROVE CopyInv'
  OBVIOUS
<1>1. before \in Seq(STRING) /\ (phase # "idle" => ending = "none")
  BY DEF CopyInv
<1>2. ASSUME UNCHANGED <<disk, xrepVars>> PROVE CopyInv'
  BY <1>2 DEF CopyInv, xrepVars, EscapeRestores, name, backup
<1>3. ASSUME NEW c \in Command, Type(c) PROVE CopyInv'
  <2>1. CASE c.program = "xrep"
    <3>1. XrepStart(c.container, c.files, c.nosubdirs) \/ XrepRefused(c.container, c.files)
      BY <1>3, <2>1 DEF Type
    <3>2. before' = before /\ ((phase' = "flag" /\ ending' = "none") \/ (phase' = "idle" /\ ending' = "refused"))
      BY <3>1 DEF XrepStart, XrepRefused, Ends
    <3> QED BY <3>2, <1>1, CopyBetween
  <2>2. CASE c.program # "xrep"
    <3>1. UNCHANGED <<disk, xrepVars>>
      BY <1>3, <2>2 DEF Type, XcStart, XcBreakNaming, XcTwoFiles, XcRefused
    <3> QED BY <3>1, <1>2
  <2> QED BY <2>1, <2>2
<1>4. ASSUME EndFlag \/ LeaveDir \/ EnterDir PROVE CopyInv'
  <2>1. phase # "idle" /\ before' = before
    BY <1>4 DEF EndFlag, LeaveDir, EnterDir
  <2>2. ASSUME Return PROVE (phase' = "subdirs" /\ ending' = ending) \/ (phase' = "idle" /\ ending' = "normal")
    <3>1. CASE Len(frames) = 1
      BY <2>2, <3>1 DEF Return, Ends
    <3>2. CASE Len(frames) # 1
      BY <2>2, <3>2 DEF Return
    <3> QED BY <3>1, <3>2
  <2>3. CASE EndFlag
    <3>1. CASE setup.nosubdirs
      BY <2>1, <2>2, <2>3, <3>1, <1>1, CopyBetween DEF EndFlag
    <3>2. CASE ~setup.nosubdirs
      <4>1. phase' = "subdirs" /\ ending' = ending
        BY <2>3, <3>2 DEF EndFlag
      <4> QED BY <2>1, <4>1, <1>1, CopyBetween
    <3> QED BY <3>1, <3>2
  <2>4. CASE LeaveDir
    BY <2>1, <2>2, <2>4, <1>1, CopyBetween DEF LeaveDir
  <2>5. CASE EnterDir
    <3>1. phase' = "flag" /\ ending' = ending
      BY <2>5 DEF EnterDir
    <3> QED BY <2>1, <3>1, <1>1, CopyBetween
  <2> QED BY <1>4, <2>3, <2>4, <2>5
<1>5. ASSUME NEW key \in {"Y", "A", "Q", "other"}, Answer(key) PROVE CopyInv'
  <2>1. phase = "prompt" /\ UNCHANGED <<disk, file, before, full, wrapped>>
    BY <1>5 DEF Answer
  <2>2. CASE key = "Q"
    <3>1. phase' = "idle" /\ ending' = "quit"
      BY <1>5, <2>2 DEF Answer, Ends
    <3> QED BY <2>1, <3>1, <1>1, CopyBetween
  <2>3. CASE key # "Q"
    <3>1. phase' = "backup" /\ ending' = ending
      BY <1>5, <2>3 DEF Answer
    <3>2. ~full' /\ name # backup => Text(disk, file.dir, name) = before'
      BY <2>1 DEF CopyInv
    <3> QED BY <2>1, <3>1, <3>2, <1>1, CopyWithin DEF Rewriting
  <2> QED BY <2>2, <2>3
<1>6. ASSUME BackupRefused \/ BinaryFile \/ FinishFile PROVE CopyInv'
  <2>1. phase # "idle" /\ phase' = "flag" /\ before' = before /\ ending' = ending
    BY <1>6 DEF BackupRefused, BinaryFile, FinishFile
  <2> QED BY <2>1, <1>1, CopyBetween
<1>7. ASSUME DivideError \/ Interrupt PROVE CopyInv'
  <2>1. phase' = "idle" /\ before' = before /\ ending' \in {"divide", "interrupt"}
    BY <1>7 DEF DivideError, Interrupt, Ends
  <2> QED BY <2>1, <1>1, CopyBetween
<1>8. ASSUME XrepStep PROVE CopyInv'
  BY <1>4, <1>5, <1>6, <1>7, <1>8, CopyFound, CopyMade, CopyRewritten, CopyRestored DEF XrepStep
<1>9. ASSUME PressEscape \/ Interrupt PROVE CopyInv'
  BY <1>7, <1>9, CopyRestored
<1>10. ASSUME XcStep \/ XcEscape \/ XcDiskError, UNCHANGED xrepVars PROVE CopyInv'
  <2>1. disk' = disk
    BY <1>10 DEF XcStep, XcSubdir, XcFile, XcKey, XcReturn, XcFileKey, XcEscape, XcDiskError
  <2> QED BY <2>1, <1>2, <1>10
<1>11. CASE UNCHANGED vars
  BY <1>2, <1>11 DEF vars
<1>12. CASE Len(typed) < Len(Commands) /\ \E c \in Commands[Len(typed) + 1] : Type(c)
  BY <1>3, <1>12, CommandsType
<1> QED BY <1>8, <1>9, <1>10, <1>11, <1>12 DEF Next, XrepRuns, XrepStops, XcRuns, XcStops

\* The copy holds in every state of a session.
LEMMA CopyHolds == Spec => []CopyInv
<1>1. Init => CopyInv
  BY DEF Init, XrepInit, CopyInv, EscapeRestores, Rewriting
<1> QED BY <1>1, CopyNext, TypesHold, PTL DEF Spec

\* EscapeRestores: whatever XREP has written of a file when the user presses Escape,
\* the file is again what it was when XREP opened it, unless the disk was full.
THEOREM EscapeGivesBack == Spec => []EscapeRestores
<1>1. CopyInv => EscapeRestores
  BY DEF CopyInv
<1> QED BY <1>1, CopyHolds, PTL


-----------------------------------------------------------------------------
(* No text is lost without a warning.                                       *)

\* The original files have names and texts.
LEMMA OriginalType ==
  ASSUME WellFormed(first), NEW d \in Dirs, NEW s \in Originals(d)
  PROVE  s.name \in Names /\ s.text \in Seq(STRING)
<1>1. PICK i \in DOMAIN first[d] : s = first[d][i]
  BY DEF Originals, ToSet
<1>2. s \in Slot
  BY <1>1, SlotFound
<1> QED BY <1>2 DEF Slot

\* What one original text needs: its file or its backup holds it, or it is excused.
Kept(d, s) == \/ Holds(d, s.name, s.text) \/ Holds(d, Xrp(s.name), s.text)
              \/ <<d, Xrp(s.name)>> \in warned \/ full

\* BackupsKeepTheTexts, one original at a time.
LEMMA LossIsLocal == BackupsKeepTheTexts <=> \A d \in Dirs : \A s \in Originals(d) : Kept(d, s)
BY DEF BackupsKeepTheTexts, LostOnlyWarned, Originals, Kept

\* File n of directory d of this disk holds text t.
HoldsIn(dk, d, n, t) == Readable(dk, d, n) /\ Stripped(Text(dk, d, n)) = Stripped(t)

\* A file that a step spares still holds what it held.
LEMMA HoldsSpared ==
  ASSUME NEW after, NEW d \in Dirs, NEW m \in Names, Spares(disk, after, d, m),
         NEW e \in Dirs, NEW n \in Names, <<e, n>> # <<d, m>>, NEW t, Holds(e, n, t)
  PROVE  HoldsIn(after, e, n, t)
<1>1. Attr(disk, e, n) \in FileAttrs /\ Attr(disk, e, n) # "free"
  BY DEF Holds, Readable, FileAttrs
<1>2. Attr(after, e, n) = Attr(disk, e, n) /\ Text(after, e, n) = Text(disk, e, n)
  BY <1>1 DEF Spares
<1> QED BY <1>2 DEF Holds, HoldsIn, Readable

\* A step of replace() touches the file or its backup: only the originals with that
\* backup can lose their text.
LEMMA OthersKept ==
  ASSUME WellFormed(first), BackupsKeepTheTexts, file.dir \in Dirs, name \in Names, backup \in Names,
         NEW after, disk' = after, NEW m \in {name, backup}, Spares(disk, after, file.dir, m),
         UNCHANGED <<first, warned>>, full => full',
         ~full' /\ <<file.dir, backup>> \notin warned =>
            \A s \in Originals(file.dir) : Xrp(s.name) = backup =>
                HoldsIn(after, file.dir, s.name, s.text) \/ HoldsIn(after, file.dir, backup, s.text)
  PROVE  BackupsKeepTheTexts'
<1> SUFFICES ASSUME NEW d \in Dirs, NEW s \in Originals(d)
             PROVE  \/ HoldsIn(after, d, s.name, s.text) \/ HoldsIn(after, d, Xrp(s.name), s.text)
                    \/ <<d, Xrp(s.name)>> \in warned \/ full'
  BY DEF BackupsKeepTheTexts, LostOnlyWarned, Originals, Holds, HoldsIn
<1>1. Kept(d, s)
  BY LossIsLocal
<1>2. s.name \in Names /\ Xrp(s.name) \in Names /\ Xrp(Xrp(s.name)) = Xrp(s.name)
  BY OriginalType, BackupNamed
<1>3. backup = Xrp(name) /\ Xrp(backup) = backup
  BY BackupNamed DEF backup, name
<1>4. CASE full' \/ <<d, Xrp(s.name)>> \in warned
  BY <1>4
<1>5. CASE ~full' /\ <<d, Xrp(s.name)>> \notin warned /\ d = file.dir /\ Xrp(s.name) = backup
  BY <1>5
<1>6. CASE ~full' /\ <<d, Xrp(s.name)>> \notin warned /\ <<d, Xrp(s.name)>> # <<file.dir, backup>>
  <2>1. <<d, s.name>> # <<file.dir, m>>
    BY <1>2, <1>3, <1>6
  <2>2. <<d, Xrp(s.name)>> # <<file.dir, m>>
    BY <1>2, <1>3, <1>6
  <2>3. Holds(d, s.name, s.text) \/ Holds(d, Xrp(s.name), s.text)
    BY <1>1, <1>6 DEF Kept
  <2> DEFINE b == Xrp(s.name)
  <2>4. m \in Names /\ b \in Names
    BY <1>2
  <2> HIDE DEF b
  <2>5. Holds(d, s.name, s.text) => HoldsIn(after, d, s.name, s.text)
    BY <1>2, <2>1, <2>4, HoldsSpared
  <2>6. Holds(d, b, s.text) => HoldsIn(after, d, b, s.text)
    BY <2>2, <2>4, HoldsSpared DEF b
  <2> QED BY <2>3, <2>5, <2>6 DEF b
<1> QED BY <1>4, <1>5, <1>6

\* Before its backup is made, the originals with that backup are in their own files.
LEMMA ClassBeforeBackup ==
  ASSUME TypeInv, LossInv, phase = "backup", ~full, <<file.dir, backup>> \notin warned
  PROVE  /\ name # backup
         /\ \A s \in Originals(file.dir) : Xrp(s.name) = backup =>
               s.name # backup /\ Holds(file.dir, s.name, s.text)
<1>1. ~Readable(disk, file.dir, backup) /\ WellFormed(first) /\ BackupsKeepTheTexts
  BY DEF LossInv
<1>2. file.dir \in Dirs /\ Readable(disk, file.dir, name)
  BY DEF TypeInv, XrepType, AttrType, Copying, Readable
<1>3. ASSUME NEW s \in Originals(file.dir), Xrp(s.name) = backup
      PROVE  s.name # backup /\ Holds(file.dir, s.name, s.text)
  <2>1. Kept(file.dir, s)
    BY <1>1, <1>2, LossIsLocal
  <2>2. Holds(file.dir, s.name, s.text)
    BY <2>1, <1>1, <1>3 DEF Kept, Holds
  <2> QED BY <2>2, <1>1 DEF Holds
<1> QED BY <1>1, <1>2, <1>3

\* A step that changes the file while it is rewritten: the other originals with its
\* backup stay in their files, its own text is in the backup.
LEMMA ClassRewritten ==
  ASSUME TypeInv, CopyInv, LossInv, phase \in Rewriting, ~full, <<file.dir, backup>> \notin warned,
         NEW after, Spares(disk, after, file.dir, name)
  PROVE  /\ name # backup
         /\ \A s \in Originals(file.dir) : Xrp(s.name) = backup =>
               /\ s.name # backup
               /\ s.name = name => Stripped(before) = Stripped(s.text) /\ HoldsIn(after, file.dir, backup, s.text)
               /\ s.name # name => HoldsIn(after, file.dir, s.name, s.text)
<1>1. /\ name # backup /\ WellFormed(first)
      /\ \A s \in Originals(file.dir) : Xrp(s.name) = backup =>
            /\ s.name # backup
            /\ IF s.name = name THEN Stripped(before) = Stripped(s.text) ELSE Holds(file.dir, s.name, s.text)
  BY DEF LossInv, Rewriting
<1>2. /\ file.dir \in Dirs /\ name \in Names /\ backup \in Names
      /\ Attr(disk, file.dir, backup) = "plain" /\ Text(disk, file.dir, backup) = before
  BY <1>1, RewriteFacts DEF TypeInv, AttrType, CopyInv
<1>3. Attr(after, file.dir, backup) = "plain" /\ Text(after, file.dir, backup) = before
  BY <1>1, <1>2 DEF Spares
<1>4. ASSUME NEW s \in Originals(file.dir), Xrp(s.name) = backup, s.name = name
      PROVE  HoldsIn(after, file.dir, backup, s.text)
  BY <1>1, <1>3, <1>4 DEF HoldsIn, Readable, FileAttrs
<1>5. ASSUME NEW s \in Originals(file.dir), Xrp(s.name) = backup, s.name # name
      PROVE  HoldsIn(after, file.dir, s.name, s.text)
  <2>1. s.name \in Names /\ Holds(file.dir, s.name, s.text) /\ <<file.dir, s.name>> # <<file.dir, name>>
    BY <1>1, <1>2, <1>5, OriginalType
  <2> QED BY <2>1, <1>2, HoldsSpared
<1> QED BY <1>1, <1>4, <1>5


\* What LossInv asks when no backup is at work.
LEMMA LossBetween ==
  ASSUME LossInv, first' = first, opt_overwrite' => warned' = Dirs \X Names,
         phase' \notin Rewriting \union {"backup", "reopen"}, BackupsKeepTheTexts'
  PROVE  LossInv'
BY DEF LossInv

\* What LossInv asks while a backup is at work, with the next state spelled out.
LEMMA LossWithin ==
  ASSUME LossInv, NEW after, disk' = after, UNCHANGED <<first, file, before, warned, opt_overwrite>>,
         phase' \in Rewriting \union {"reopen"}, BackupsKeepTheTexts',
         <<file.dir, backup>> \notin warned /\ ~full' =>
            /\ name # backup
            /\ \A s \in Originals(file.dir) : Xrp(s.name) = backup =>
                  /\ s.name # backup
                  /\ IF s.name = name /\ phase' # "reopen" THEN Stripped(before) = Stripped(s.text)
                                                           ELSE HoldsIn(after, file.dir, s.name, s.text)
  PROVE  LossInv'
<1>1. name' = name /\ backup' = backup /\ file' = file
  BY DEF name, backup
<1>2. WellFormed(first)' /\ (opt_overwrite' => warned' = Dirs \X Names) /\ phase' # "backup"
  BY DEF LossInv, Rewriting
<1>3. <<file'.dir, backup'>> \notin warned' /\ ~full' =>
         /\ name' # backup'
         /\ \A s \in {s \in ToSet(first'[file'.dir]) : s.attr \in FileAttrs} : Xrp(s.name) = backup' =>
               /\ s.name # backup'
               /\ IF s.name = name' /\ phase' # "reopen" THEN Stripped(before') = Stripped(s.text)
                                                         ELSE HoldsIn(disk', file'.dir, s.name, s.text)
  BY <1>1 DEF Originals
<1> QED BY <1>2, <1>3 DEF LossInv, Originals, Holds, HoldsIn

\* A step that leaves the disk alone loses nothing.
LEMMA LossIdle ==
  ASSUME BackupsKeepTheTexts, UNCHANGED <<disk, first>>, full => full',
         \A p \in warned : p \in warned'
  PROVE  BackupsKeepTheTexts'
BY DEF BackupsKeepTheTexts, LostOnlyWarned, Holds, Readable

\* Opening a file and asking about its backup.
LEMMA LossAsked ==
  ASSUME TypeInv, LossInv, FindFile \/ \E key \in {"Y", "A", "Q", "other"} : Answer(key), first' = first
  PROVE  LossInv'
<1>1. WellFormed(first) /\ BackupsKeepTheTexts /\ (opt_overwrite => warned = Dirs \X Names)
  BY DEF LossInv
<1>2. ASSUME FindFile PROVE LossInv'
  <2> DEFINE n == disk[top.dir][NextFile].name
  <2>1. /\ phase = "flag" /\ NextFile # 0 /\ UNCHANGED <<disk, opt_overwrite, warned, full, wrapped>>
        /\ file' = [dir |-> top.dir, name |-> n]
        /\ phase' = IF ~opt_overwrite /\ Readable(disk, top.dir, Xrp(n)) THEN "prompt" ELSE "backup"
    BY <1>2 DEF FindFile
  <2>2. n \in Names /\ top.dir \in Dirs
    BY <2>1, NextFound, TopType DEF Slot, Frame, TypeInv
  <2> HIDE DEF n
  <2>3. file'.dir = top.dir /\ backup' = Xrp(n) /\ Xrp(n) \in Names
    BY <2>1, <2>2, BackupNamed DEF backup
  <2>4. phase' = "backup" /\ <<file'.dir, backup'>> \notin warned' => ~Readable(disk', file'.dir, backup')
    BY <2>1, <2>2, <2>3, <1>1
  <2>5. BackupsKeepTheTexts'
    BY <2>1, <1>1, LossIdle
  <2>6. phase' \notin Rewriting \union {"reopen"}
    BY <2>1 DEF Rewriting
  <2> QED BY <2>1, <2>4, <2>5, <2>6, <1>1 DEF LossInv
<1>3. ASSUME NEW key \in {"Y", "A", "Q", "other"}, Answer(key) PROVE LossInv'
  <2>1. phase = "prompt" /\ UNCHANGED <<disk, cwd, setup, file, curdir, before, full, wrapped>>
    BY <1>3 DEF Answer
  <2>2. file.dir \in Dirs /\ backup \in Names
    BY <2>1, BackupNamed DEF TypeInv, XrepType, Copying, backup
  <2>3. CASE key = "Q"
    <3>1. phase' = "idle" /\ UNCHANGED <<opt_overwrite, warned>>
      BY <1>3, <2>3 DEF Answer, Ends
    <3>2. BackupsKeepTheTexts'
      BY <2>1, <3>1, <1>1, LossIdle
    <3> QED BY <3>1, <3>2, <1>1, LossBetween DEF Rewriting
  <2>4. CASE key = "A"
    <3>1. phase' = "backup" /\ warned' = Dirs \X Names
      BY <1>3, <2>4 DEF Answer
    <3>2. BackupsKeepTheTexts'
      <4> SUFFICES ASSUME NEW d \in Dirs, NEW s \in Originals(d) PROVE <<d, Xrp(s.name)>> \in warned'
        BY DEF BackupsKeepTheTexts, LostOnlyWarned, Originals
      <4>1. Xrp(s.name) \in Names
        BY <1>1, OriginalType, BackupNamed
      <4> QED BY <3>1, <4>1
    <3>3. <<file'.dir, backup'>> \in warned'
      BY <2>1, <2>2, <3>1 DEF backup
    <3>4. phase' \notin Rewriting \union {"reopen"}
      BY <3>1 DEF Rewriting
    <3> QED BY <3>1, <3>2, <3>3, <3>4, <1>1 DEF LossInv
  <2>5. CASE key \notin {"Q", "A"}
    <3>1. phase' = "backup" /\ warned' = warned \union {<<file.dir, backup>>} /\ opt_overwrite' = FALSE
      BY <1>3, <2>5 DEF Answer
    <3>2. BackupsKeepTheTexts'
      BY <2>1, <3>1, <1>1, LossIdle
    <3>3. <<file'.dir, backup'>> \in warned'
      BY <2>1, <3>1 DEF backup
    <3>4. phase' \notin Rewriting \union {"reopen"}
      BY <3>1 DEF Rewriting
    <3> QED BY <3>1, <3>2, <3>3, <3>4, <1>1 DEF LossInv
  <2> QED BY <2>3, <2>4, <2>5
<1> QED BY <1>2, <1>3

\* A step that writes the backup, or removes it again, leaves the originals in their files.
LEMMA LossBackup ==
  ASSUME TypeInv, LossInv, phase = "backup", Writable(disk, file.dir, backup),
         NEW after, disk' = after, Spares(disk, after, file.dir, backup),
         UNCHANGED <<first, warned>>, full => full'
  PROVE  /\ BackupsKeepTheTexts'
         /\ <<file.dir, backup>> \notin warned /\ ~full' =>
               /\ name # backup
               /\ \A s \in Originals(file.dir) : Xrp(s.name) = backup =>
                     s.name # backup /\ HoldsIn(after, file.dir, s.name, s.text)
<1>1. WellFormed(first) /\ BackupsKeepTheTexts
  BY DEF LossInv
<1>2. file.dir \in Dirs /\ name \in Names /\ backup \in Names
  BY BackupFacts
<1>3. ASSUME <<file.dir, backup>> \notin warned, ~full'
      PROVE  /\ name # backup
             /\ \A s \in Originals(file.dir) : Xrp(s.name) = backup =>
                   s.name # backup /\ HoldsIn(after, file.dir, s.name, s.text)
  <2>1. /\ name # backup
        /\ \A s \in Originals(file.dir) : Xrp(s.name) = backup =>
               s.name # backup /\ Holds(file.dir, s.name, s.text)
    BY <1>3, ClassBeforeBackup
  <2>2. ASSUME NEW s \in Originals(file.dir), Xrp(s.name) = backup
        PROVE  HoldsIn(after, file.dir, s.name, s.text)
    <3>1. s.name \in Names /\ <<file.dir, s.name>> # <<file.dir, backup>> /\ Holds(file.dir, s.name, s.text)
      BY <2>1, <2>2, <1>1, <1>2, OriginalType
    <3> QED BY <3>1, <1>2, HoldsSpared
  <2> QED BY <2>1, <2>2
<1>4. BackupsKeepTheTexts'
  BY <1>1, <1>2, <1>3, OthersKept
<1> QED BY <1>3, <1>4

\* A step that changes the file while it is rewritten keeps every original.
LEMMA LossRewrite ==
  ASSUME TypeInv, CopyInv, LossInv, phase \in Rewriting,
         NEW after, disk' = after, Spares(disk, after, file.dir, name),
         UNCHANGED <<first, warned>>, full => full'
  PROVE  BackupsKeepTheTexts'
<1>1. WellFormed(first) /\ BackupsKeepTheTexts
  BY DEF LossInv
<1>2. file.dir \in Dirs /\ name \in Names /\ backup \in Names
  BY RewriteFacts
<1>3. ASSUME <<file.dir, backup>> \notin warned, ~full', NEW s \in Originals(file.dir), Xrp(s.name) = backup
      PROVE  HoldsIn(after, file.dir, s.name, s.text) \/ HoldsIn(after, file.dir, backup, s.text)
  BY <1>3, ClassRewritten
<1> QED BY <1>1, <1>2, <1>3, OthersKept


\* Making the backup.
LEMMA LossMade ==
  ASSUME TypeInv, LossInv, BackupRefused \/ BinaryFile \/ MakeBackup, first' = first
  PROVE  LossInv'
<1>1. BackupsKeepTheTexts /\ (opt_overwrite => warned = Dirs \X Names)
  BY DEF LossInv
<1>2. CASE BackupRefused
  <2>1. phase' = "flag" /\ UNCHANGED <<disk, opt_overwrite, warned, full, wrapped>>
    BY <1>2 DEF BackupRefused
  <2>2. BackupsKeepTheTexts'
    BY <2>1, <1>1, LossIdle
  <2> QED BY <2>1, <2>2, <1>1, LossBetween DEF Rewriting
<1>3. CASE BinaryFile
  <2> DEFINE after == Delete(created, file.dir, backup)
  <2>1. /\ phase = "backup" /\ Writable(disk, file.dir, backup) /\ disk' = after /\ phase' = "flag"
        /\ UNCHANGED <<opt_overwrite, warned, full, wrapped>>
    BY <1>3 DEF BinaryFile
  <2>2. Spares(disk, after, file.dir, backup)
    BY <2>1, BackupFacts
  <2> HIDE DEF after
  <2>3. BackupsKeepTheTexts'
    BY <2>1, <2>2, LossBackup
  <2> QED BY <2>1, <2>3, <1>1, LossBetween DEF Rewriting
<1>4. CASE MakeBackup
  <2> DEFINE after == Write(created, file.dir, backup, source)
  <2>1. /\ phase = "backup" /\ Writable(disk, file.dir, backup) /\ disk' = after /\ phase' = "reopen"
        /\ UNCHANGED <<file, before, opt_overwrite, warned>> /\ (full => full')
    BY <1>4 DEF MakeBackup
  <2>2. Spares(disk, after, file.dir, backup)
    BY <2>1, BackupFacts
  <2> HIDE DEF after
  <2>3. /\ BackupsKeepTheTexts'
        /\ <<file.dir, backup>> \notin warned /\ ~full' =>
               /\ name # backup
               /\ \A s \in Originals(file.dir) : Xrp(s.name) = backup =>
                     s.name # backup /\ HoldsIn(after, file.dir, s.name, s.text)
    BY <2>1, <2>2, LossBackup
  <2> QED BY <2>1, <2>3, LossWithin
<1> QED BY <1>2, <1>3, <1>4

\* Reopening the file: its text is in the backup before it is emptied.
LEMMA LossReopened == ASSUME TypeInv, CopyInv, LossInv, Reopen, first' = first PROVE LossInv'
<1>1. /\ BackupsKeepTheTexts /\ (opt_overwrite => warned = Dirs \X Names) /\ WellFormed(first)
      /\ phase = "reopen" /\ UNCHANGED <<file, before, opt_overwrite, warned, full, wrapped>>
  BY DEF LossInv, Reopen
<1>2. CASE ~Writable(disk, file.dir, name)
  <2>1. phase' = "flag" /\ disk' = disk
    BY <1>2 DEF Reopen
  <2>2. BackupsKeepTheTexts'
    BY <2>1, <1>1, LossIdle
  <2> QED BY <2>1, <2>2, <1>1, LossBetween DEF Rewriting
<1>3. CASE Writable(disk, file.dir, name)
  <2> DEFINE after == Create(disk, file.dir, name)
  <2>1. disk' = after /\ phase' = "lines"
    BY <1>3 DEF Reopen
  <2>2. /\ file.dir \in Dirs /\ name \in Names /\ backup \in Names
        /\ Spares(disk, after, file.dir, name) /\ Attr(after, file.dir, backup) = "plain"
        /\ name # backup => Text(after, file.dir, backup) = Text(disk, file.dir, backup)
    BY <1>1, <1>3, ReopenFacts
  <2> HIDE DEF after
  <2>3. ASSUME <<file.dir, backup>> \notin warned, ~full'
        PROVE  /\ name # backup
               /\ Text(disk, file.dir, name) = before /\ Text(after, file.dir, backup) = before
               /\ \A s \in Originals(file.dir) : Xrp(s.name) = backup =>
                     s.name # backup /\ Holds(file.dir, s.name, s.text)
    <3>1. /\ name # backup
          /\ \A s \in Originals(file.dir) : Xrp(s.name) = backup =>
                s.name # backup /\ Holds(file.dir, s.name, s.text)
      BY <2>3, <1>1 DEF LossInv
    <3>2. Text(disk, file.dir, name) = before /\ Text(disk, file.dir, backup) = before
      BY <2>3, <3>1, <1>1 DEF CopyInv
    <3> QED BY <3>1, <3>2, <2>2
  <2>4. ASSUME <<file.dir, backup>> \notin warned, ~full', NEW s \in Originals(file.dir), Xrp(s.name) = backup
        PROVE  /\ s.name = name => /\ Stripped(before) = Stripped(s.text)
                                   /\ HoldsIn(after, file.dir, backup, s.text)
               /\ s.name # name => HoldsIn(after, file.dir, s.name, s.text)
    <3>1. CASE s.name = name
      <4>1. Stripped(before) = Stripped(s.text)
        BY <2>3, <2>4, <3>1 DEF Holds
      <4>2. HoldsIn(after, file.dir, backup, s.text)
        BY <2>2, <2>3, <2>4, <4>1 DEF HoldsIn, Readable, FileAttrs
      <4> QED BY <3>1, <4>1, <4>2
    <3>2. CASE s.name # name
      <4>1. s.name \in Names /\ <<file.dir, s.name>> # <<file.dir, name>> /\ Holds(file.dir, s.name, s.text)
        BY <2>2, <2>3, <2>4, <3>2, <1>1, OriginalType
      <4> QED BY <3>2, <4>1, <2>2, HoldsSpared
    <3> QED BY <3>1, <3>2
  <2>5. BackupsKeepTheTexts'
    BY <2>1, <2>2, <2>4, <1>1, OthersKept
  <2> QED BY <2>1, <2>3, <2>4, <2>5, <1>1, LossWithin DEF Rewriting
<1> QED BY <1>2, <1>3

\* Rewriting a line and truncating for the restoration.
LEMMA LossRewritten ==
  ASSUME TypeInv, CopyInv, LossInv, RewriteLine \/ PressEscape, first' = first
  PROVE  LossInv'
<1>1. PICK after : disk' = after
  OBVIOUS
<1>2. /\ phase \in Rewriting /\ phase' \in Rewriting /\ phase' # "reopen" /\ (full => full')
      /\ UNCHANGED <<file, before, warned, opt_overwrite>>
  <2>1. CASE RewriteLine
    BY <2>1 DEF RewriteLine, Rewriting
  <2>2. CASE PressEscape
    BY <2>2 DEF PressEscape, Rewriting
  <2> QED BY <2>1, <2>2
<1>3. Spares(disk, after, file.dir, name)
  <2>1. CASE RewriteLine
    <3> DEFINE t == Replaced(NextLine).line
    <3>1. disk' = Write(disk, file.dir, name, t)
      BY <2>1 DEF RewriteLine
    <3>2. rest \in Seq(STRING) /\ setup.pairs \in Seq(TextPair)
      BY DEF TypeInv, XrepType, Setup
    <3>3. t \in Seq(STRING)
      BY <3>2, NextLineFacts, ReplacedFacts
    <3> HIDE DEF t
    <3> QED BY <3>1, <3>3, <1>1, <1>2, RewriteFacts
  <2>2. CASE PressEscape
    <3>1. disk' = Create(disk, file.dir, name)
      BY <2>2 DEF PressEscape
    <3> QED BY <3>1, <1>1, <1>2, RewriteFacts
  <2> QED BY <2>1, <2>2
<1>4. BackupsKeepTheTexts'
  BY <1>1, <1>2, <1>3, LossRewrite
<1>5. <<file.dir, backup>> \notin warned /\ ~full' =>
         /\ name # backup
         /\ \A s \in Originals(file.dir) : Xrp(s.name) = backup =>
               /\ s.name # backup
               /\ s.name = name => Stripped(before) = Stripped(s.text)
               /\ s.name # name => HoldsIn(after, file.dir, s.name, s.text)
  BY <1>2, <1>3, ClassRewritten
<1> QED BY <1>1, <1>2, <1>4, <1>5, LossWithin

\* A file finished: its backup goes when nothing was replaced, and the file is then what it was.
LEMMA LossFinished ==
  ASSUME TypeInv, CopyInv, LossInv, ~wrapped, FinishFile, first' = first
  PROVE  LossInv'
<1>1. /\ BackupsKeepTheTexts /\ (opt_overwrite => warned = Dirs \X Names) /\ WellFormed(first)
      /\ phase = "tail" /\ phase' = "flag" /\ UNCHANGED <<file, before, opt_overwrite, warned, full, wrapped>>
  BY DEF LossInv, FinishFile
<1>2. CASE local_replacement # 0
  <2>1. local_replacement \in Nat
    BY DEF TypeInv, XrepType
  <2>3. disk' = disk
    BY <2>1, <1>2 DEF FinishFile
  <2>2. BackupsKeepTheTexts'
    BY <2>3, <1>1, LossIdle
  <2> QED BY <2>2, <1>1, LossBetween DEF Rewriting
<1>3. CASE local_replacement = 0
  <2> DEFINE after == Delete(disk, file.dir, backup)
  <2>1. disk' = after
    BY <1>3 DEF FinishFile
  <2>2. /\ file.dir \in Dirs /\ name \in Names /\ backup \in Names
        /\ Spares(disk, after, file.dir, backup)
    BY <1>1, RewriteFacts DEF Rewriting
  <2> HIDE DEF after
  <2>3. ASSUME <<file.dir, backup>> \notin warned, ~full', NEW s \in Originals(file.dir), Xrp(s.name) = backup
        PROVE  HoldsIn(after, file.dir, s.name, s.text)
    <3>1. /\ name # backup /\ s.name # backup
          /\ IF s.name = name THEN Stripped(before) = Stripped(s.text) ELSE Holds(file.dir, s.name, s.text)
      BY <2>3, <1>1 DEF LossInv, Rewriting
    <3>2. Holds(file.dir, s.name, s.text)
      <4>1. CASE s.name = name
        <5>1. Text(disk, file.dir, name) = Append(before, EOFCHAR) /\ before \in Seq(STRING)
          BY <2>3, <3>1, <1>1, <1>3 DEF CopyInv
        <5>2. Stripped(Text(disk, file.dir, name)) = Stripped(before)
          BY <5>1, StrippedEof
        <5>3. Readable(disk, file.dir, name)
          BY <1>1 DEF TypeInv, AttrType, Copying, Readable
        <5> QED BY <3>1, <4>1, <5>2, <5>3 DEF Holds
      <4>2. CASE s.name # name
        BY <3>1, <4>2
      <4> QED BY <4>1, <4>2
    <3>3. s.name \in Names /\ <<file.dir, s.name>> # <<file.dir, backup>>
      BY <2>2, <3>1, <1>1, OriginalType
    <3> QED BY <3>2, <3>3, <2>2, HoldsSpared
  <2>4. BackupsKeepTheTexts'
    BY <2>1, <2>2, <2>3, <1>1, OthersKept
  <2> QED BY <2>4, <1>1, LossBetween DEF Rewriting
<1> QED BY <1>2, <1>3

\* XREP stopped in the middle of a file.
LEMMA LossStopped ==
  ASSUME TypeInv, CopyInv, LossInv, DivideError \/ RestoreFile \/ Interrupt, first' = first
  PROVE  LossInv'
<1>1. /\ BackupsKeepTheTexts /\ (opt_overwrite => warned = Dirs \X Names)
      /\ phase' = "idle" /\ UNCHANGED <<opt_overwrite, warned>> /\ (full => full')
  <2>1. CASE DivideError
    BY <2>1 DEF LossInv, DivideError, Ends
  <2>2. CASE RestoreFile
    BY <2>2 DEF LossInv, RestoreFile, Ends
  <2>3. CASE Interrupt
    BY <2>3 DEF LossInv, Interrupt, Ends
  <2> QED BY <2>1, <2>2, <2>3
<1>2. ASSUME phase \in Rewriting, NEW t \in Seq(STRING), disk' = Write(disk, file.dir, name, t)
      PROVE  BackupsKeepTheTexts'
  <2> DEFINE after == Write(disk, file.dir, name, t)
  <2>1. Spares(disk, after, file.dir, name)
    BY <1>2, RewriteFacts
  <2>2. disk' = after
    BY <1>2
  <2> HIDE DEF after
  <2> QED BY <2>1, <2>2, <1>1, <1>2, LossRewrite
<1>3. ASSUME disk' = disk PROVE BackupsKeepTheTexts'
  BY <1>1, <1>3, LossIdle
<1>4. CASE DivideError
  <2> DEFINE t == Replaced(NextLine).line
  <2>1. phase = "lines" /\ disk' \in {disk, Write(disk, file.dir, name, t)}
    BY <1>4 DEF DivideError
  <2>2. rest \in Seq(STRING) /\ setup.pairs \in Seq(TextPair)
    BY DEF TypeInv, XrepType, Setup
  <2>3. t \in Seq(STRING)
    BY <2>2, NextLineFacts, ReplacedFacts
  <2> HIDE DEF t
  <2>4. BackupsKeepTheTexts'
    BY <2>1, <2>3, <1>2, <1>3 DEF Rewriting
  <2> QED BY <2>4, <1>1, LossBetween DEF Rewriting
<1>5. CASE RestoreFile
  <2> DEFINE t == Text(disk, file.dir, backup)
  <2>1. phase = "restore" /\ disk' = Write(disk, file.dir, name, t)
    BY <1>5 DEF RestoreFile
  <2>2. t \in Seq(STRING)
    BY <2>1, RewriteFacts DEF Rewriting
  <2> HIDE DEF t
  <2>3. BackupsKeepTheTexts'
    BY <2>1, <2>2, <1>2 DEF Rewriting
  <2> QED BY <2>3, <1>1, LossBetween DEF Rewriting
<1>6. CASE Interrupt
  <2>1. disk' \in Partial \union {disk}
    BY <1>6 DEF Interrupt
  <2>2. ASSUME phase = "backup", Writable(disk, file.dir, backup),
               \E t \in Seq(STRING) : disk' = Write(created, file.dir, backup, t)
        PROVE  BackupsKeepTheTexts'
    <3>1. PICK t \in Seq(STRING) : disk' = Write(created, file.dir, backup, t)
      BY <2>2
    <3> DEFINE after == Write(created, file.dir, backup, t)
    <3>2. Spares(disk, after, file.dir, backup)
      BY <2>2, BackupFacts
    <3>3. disk' = after
      BY <3>1
    <3> HIDE DEF after
    <3> QED BY <2>2, <3>2, <3>3, <1>1, LossBackup
  <2>3. ASSUME phase \in {"lines", "tail"},
               \E k \in 0..Len(Text(disk, file.dir, name)) :
                  disk' = PutText(disk, file.dir, name, SubSeq(Text(disk, file.dir, name), 1, k))
        PROVE  BackupsKeepTheTexts'
    <3>1. PICK k \in 0..Len(Text(disk, file.dir, name)) :
                  disk' = PutText(disk, file.dir, name, SubSeq(Text(disk, file.dir, name), 1, k))
      BY <2>3
    <3> DEFINE after == PutText(disk, file.dir, name, SubSeq(Text(disk, file.dir, name), 1, k))
    <3>2. phase \in Rewriting
      BY <2>3 DEF Rewriting
    <3>3. Spares(disk, after, file.dir, name)
      BY <3>2, RewriteFacts
    <3>4. disk' = after
      BY <3>1
    <3> HIDE DEF after
    <3> QED BY <3>2, <3>3, <3>4, <1>1, LossRewrite
  <2>4. ASSUME phase = "restore", \E t \in Seq(STRING) : disk' = Write(disk, file.dir, name, t)
        PROVE  BackupsKeepTheTexts'
    BY <2>4, <1>2 DEF Rewriting
  <2>5. BackupsKeepTheTexts'
    BY <2>1, <2>2, <2>3, <2>4, <1>3, PartialDisks
  <2> QED BY <2>5, <1>1, LossBetween DEF Rewriting
<1> QED BY <1>4, <1>5, <1>6


\* Every step keeps the originals.
LEMMA LossNext == TypeInv /\ CopyInv /\ LossInv /\ ~wrapped /\ [Next]_vars => LossInv'
<1> SUFFICES ASSUME TypeInv, CopyInv, LossInv, ~wrapped, [Next]_vars PROVE LossInv'
  OBVIOUS
<1>1. BackupsKeepTheTexts /\ (opt_overwrite => warned = Dirs \X Names)
  BY DEF LossInv
<1>2. ASSUME UNCHANGED <<disk, first, xrepVars>> PROVE LossInv'
  BY <1>2 DEF LossInv, BackupsKeepTheTexts, LostOnlyWarned, Holds, Originals, xrepVars, name, backup
<1>3. ASSUME NEW c \in Command, Type(c) PROVE LossInv'
  <2>1. CASE c.program = "xrep"
    <3>1. XrepStart(c.container, c.files, c.nosubdirs) \/ XrepRefused(c.container, c.files)
      BY <1>3, <2>1 DEF Type
    <3>2. /\ UNCHANGED <<disk, warned, full, wrapped>> /\ phase' \in {"flag", "idle"}
          /\ opt_overwrite' = FALSE \/ opt_overwrite' = opt_overwrite
      BY <3>1 DEF XrepStart, XrepRefused, Ends
    <3>3. first' = first
      BY <1>3 DEF Type
    <3>4. BackupsKeepTheTexts'
      BY <3>2, <3>3, <1>1, LossIdle
    <3> QED BY <3>2, <3>3, <3>4, <1>1, LossBetween DEF Rewriting
  <2>2. CASE c.program # "xrep"
    <3>1. UNCHANGED <<disk, first, xrepVars>>
      BY <1>3, <2>2 DEF Type, XcStart, XcBreakNaming, XcTwoFiles, XcRefused
    <3> QED BY <3>1, <1>2
  <2> QED BY <2>1, <2>2
<1>4. ASSUME EndFlag \/ LeaveDir \/ EnterDir, first' = first PROVE LossInv'
  <2>1. UNCHANGED <<disk, opt_overwrite, warned, full, wrapped>>
    BY <1>4 DEF EndFlag, LeaveDir, EnterDir
  <2>2. ASSUME Return PROVE phase' \in {"subdirs", "idle"}
    <3>1. CASE Len(frames) = 1
      BY <2>2, <3>1 DEF Return, Ends
    <3>2. CASE Len(frames) # 1
      BY <2>2, <3>2 DEF Return
    <3> QED BY <3>1, <3>2
  <2>3. phase' \in {"subdirs", "idle", "flag"}
    <3>1. CASE EndFlag
      <4>1. CASE setup.nosubdirs
        BY <2>2, <3>1, <4>1 DEF EndFlag
      <4>2. CASE ~setup.nosubdirs
        BY <3>1, <4>2 DEF EndFlag
      <4> QED BY <4>1, <4>2
    <3>2. CASE LeaveDir
      BY <2>2, <3>2 DEF LeaveDir
    <3>3. CASE EnterDir
      BY <3>3 DEF EnterDir
    <3> QED BY <1>4, <3>1, <3>2, <3>3
  <2>4. BackupsKeepTheTexts'
    BY <2>1, <1>1, <1>4, LossIdle
  <2> QED BY <2>1, <2>3, <2>4, <1>1, <1>4, LossBetween DEF Rewriting
<1>5. ASSUME XrepStep \/ PressEscape \/ Interrupt, first' = first PROVE LossInv'
  BY <1>4, <1>5, LossAsked, LossMade, LossReopened, LossRewritten, LossFinished, LossStopped DEF XrepStep
<1>6. ASSUME XcStep \/ XcEscape \/ XcDiskError, UNCHANGED <<xrepVars, first>> PROVE LossInv'
  <2>1. disk' = disk
    BY <1>6 DEF XcStep, XcSubdir, XcFile, XcKey, XcReturn, XcFileKey, XcEscape, XcDiskError
  <2> QED BY <2>1, <1>2, <1>6
<1>7. CASE UNCHANGED vars
  BY <1>2, <1>7 DEF vars
<1>8. CASE Len(typed) < Len(Commands) /\ \E c \in Commands[Len(typed) + 1] : Type(c)
  BY <1>3, <1>8, CommandsType
<1> QED BY <1>5, <1>6, <1>7, <1>8 DEF Next, XrepRuns, XrepStops, XcRuns, XcStops

\* The int that went too far is not forgotten.
LEMMA WrappedStays == [Next]_vars /\ wrapped => wrapped'
<1> SUFFICES ASSUME [Next]_vars, wrapped PROVE wrapped'
  OBVIOUS
<1>1. ASSUME wrapped' = wrapped PROVE wrapped'
  BY <1>1
<1>2. ASSUME UNCHANGED xrepVars PROVE wrapped'
  BY <1>2 DEF xrepVars
<1>3. ASSUME NEW c, Type(c) PROVE wrapped'
  BY <1>2, <1>3 DEF Type, XrepStart, XrepRefused
<1>4. ASSUME XrepStep PROVE wrapped'
  BY <1>4 DEF XrepStep, FindFile, EndFlag, EnterDir, LeaveDir, Answer, BackupRefused, BinaryFile, MakeBackup,
              Reopen, RewriteLine, DivideError, FinishFile, RestoreFile
<1>5. ASSUME PressEscape \/ Interrupt PROVE wrapped'
  BY <1>5 DEF PressEscape, Interrupt
<1>6. CASE UNCHANGED vars
  BY <1>2, <1>6 DEF vars
<1> QED BY <1>2, <1>3, <1>4, <1>5, <1>6 DEF Next, XrepRuns, XrepStops, XcRuns, XcStops

\* At the start every file holds its text.
LEMMA LossInit == Init => LossInv
<1> SUFFICES ASSUME Init PROVE LossInv
  OBVIOUS
<1>1. WellFormed(disk) /\ first = disk /\ phase = "idle" /\ opt_overwrite = FALSE
  BY SessionAssumption DEF Init, XrepInit
<1>2. BackupsKeepTheTexts
  <2> SUFFICES ASSUME NEW d \in Dirs, NEW s \in Originals(d) PROVE Kept(d, s)
    BY LossIsLocal
  <2>1. PICK i \in DOMAIN disk[d] : s = disk[d][i]
    BY <1>1 DEF Originals, ToSet
  <2>2. s.attr \in FileAttrs /\ s.attr # "free"
    BY DEF Originals, FileAttrs
  <2>3. i \in 1..Len(disk[d])
    BY <1>1, SlotFound
  <2> DEFINE n == s.name
  <2>4. disk[d][i].name = n /\ disk[d][i].attr # "free"
    BY <2>1, <2>2
  <2> HIDE DEF n
  <2>5. Attr(disk, d, n) = disk[d][i].attr /\ Text(disk, d, n) = disk[d][i].text
    BY <2>3, <2>4, <1>1, SlotSays
  <2> QED BY <2>1, <2>2, <2>5 DEF Kept, Holds, Readable, n
<1> QED BY <1>1, <1>2 DEF LossInv, Rewriting

\* NothingLostUnwarned: whatever the disk and the commands are, and whatever stops XREP
\* (Escape, Ctrl-Break, a disk error, its division by zero) however often it is run, the
\* text each file had at first is in the file or in its backup, unless the user was asked
\* about that backup, a write was cut, or one file had more replacements than an int counts.
THEOREM NoTextIsLostUnwarned == Spec => []NothingLostUnwarned
<1> DEFINE Inv == ~wrapped => LossInv
<1>1. Inv => NothingLostUnwarned
  BY DEF LossInv, NothingLostUnwarned, BackupsKeepTheTexts
<1>2. Init => Inv
  BY LossInit
<1>3. TypeInv /\ CopyInv /\ Inv /\ [Next]_vars => Inv'
  BY LossNext, WrappedStays
<1> QED BY <1>1, <1>2, <1>3, TypesHold, CopyHolds, PTL DEF Spec


=============================================================================
