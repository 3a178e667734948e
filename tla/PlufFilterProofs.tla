---------------------------- MODULE PlufFilterProofs ----------------------------
(***************************************************************************)
(* The filter: a named field is what stands between its = and its comma, a *)
(* value is the text it was read from, and a size is kept.                 *)
(***************************************************************************)
EXTENDS PlufFilter, FiniteSetTheorems, SequenceTheorems, WellFoundedInduction, TLAPS

-----------------------------------------------------------------------------
(* Numbers.                                                                 *)

\* Every set of numbers that is not empty has a least one.
LEMMA LeastNumber == ASSUME NEW S \in SUBSET Nat, S # {}
                     PROVE  \E x \in S : \A y \in S : x <= y
<1>1. PICK x \in S : \A y \in S : ~(<<y, x>> \in OpToRel(<, Nat))
  BY NatLessThanWellFounded, WFMin
<1>2. \A y \in S : ~(y < x)
  BY <1>1 DEF OpToRel
<1> QED BY <1>2

\* First picks it.
LEMMA FirstIsLeast == ASSUME NEW P \in SUBSET Nat, NEW otherwise
                      PROVE  /\ P # {} => First(P, otherwise) \in P /\ \A q \in P : First(P, otherwise) <= q
                             /\ P = {} => First(P, otherwise) = otherwise
  BY LeastNumber DEF First

-----------------------------------------------------------------------------
(* The tokens of a syntax, counted.                                         *)

\* Tokens and ClosedAt, for a syntax that is an argument.
TokensIn(f, t, i, j) == Cardinality({k \in i..j : f[k].t = t})
Unbalanced(f, i, j) == TokensIn(f, "comma", i + 1, j) > TokensIn(f, "open", i + 1, j)
ClosedIn(f, i) == First({j \in (i + 1)..Len(f) : Unbalanced(f, i, j)}, Len(f) + 1)

\* Counting one token more.
LEMMA TokensNext ==
  ASSUME NEW f, NEW t, NEW i \in Int, NEW j \in Int
  PROVE  /\ TokensIn(f, t, i, j) \in Nat
         /\ j < i => TokensIn(f, t, i, j) = 0
         /\ i <= j + 1 => TokensIn(f, t, i, j + 1) = TokensIn(f, t, i, j) + (IF f[j + 1].t = t THEN 1 ELSE 0)
<1> DEFINE S(n) == {k \in i..n : f[k].t = t}
<1>1. IsFiniteSet(i..j) /\ S(j) \in SUBSET (i..j)
  BY FS_Interval
<1>2. IsFiniteSet(S(j))
  BY <1>1, FS_Subset
<1>3. Cardinality(S(j)) \in Nat
  BY <1>2, FS_CardinalityType
<1>4. j < i => S(j) = {}
  OBVIOUS
<1>5. ASSUME i <= j + 1 PROVE Cardinality(S(j + 1)) = Cardinality(S(j)) + (IF f[j + 1].t = t THEN 1 ELSE 0)
  <2>1. CASE f[j + 1].t = t
    <3>1. S(j + 1) = S(j) \union {j + 1} /\ j + 1 \notin S(j)
      BY <1>5, <2>1
    <3> QED BY <1>2, <2>1, <3>1, FS_AddElement
  <2>2. CASE f[j + 1].t # t
    <3>1. S(j + 1) = S(j)
      BY <1>5, <2>2
    <3> QED BY <1>3, <2>2, <3>1
  <2> QED BY <2>1, <2>2
<1>6. j < i => Cardinality(S(j)) = 0
  BY <1>4, FS_EmptySet
<1> QED BY <1>3, <1>5, <1>6 DEF TokensIn

\* A longer part of the syntax has no fewer.
LEMMA TokensGrow ==
  ASSUME NEW f, NEW t, NEW i \in Int, NEW j \in Int, NEW k \in Int, j <= k
  PROVE  TokensIn(f, t, i, j) <= TokensIn(f, t, i, k)
<1>1. IsFiniteSet(i..k)
  BY FS_Interval
<1>2. {n \in i..k : f[n].t = t} \in SUBSET (i..k) /\ {n \in i..j : f[n].t = t} \in SUBSET {n \in i..k : f[n].t = t}
  OBVIOUS
<1>3. IsFiniteSet({n \in i..k : f[n].t = t})
  BY <1>1, <1>2, FS_Subset
<1> QED BY <1>2, <1>3, FS_Subset DEF TokensIn

\* The first comma too many closes.
LEMMA ClosedFirst ==
  ASSUME NEW f, NEW i \in Nat, NEW j \in Nat, Len(f) \in Nat, i < j, j <= Len(f), Unbalanced(f, i, j),
         \A m \in (i + 1)..(j - 1) : ~Unbalanced(f, i, m)
  PROVE  ClosedIn(f, i) = j
<1> DEFINE P == {m \in (i + 1)..Len(f) : Unbalanced(f, i, m)}
<1>1. P \in SUBSET Nat /\ j \in P
  OBVIOUS
<1>2. First(P, Len(f) + 1) \in P /\ First(P, Len(f) + 1) <= j
  BY <1>1, FirstIsLeast
<1>3. \A m \in P : m >= j
  OBVIOUS
<1>4. First(P, Len(f) + 1) = j
  <2>1. First(P, Len(f) + 1) \in Nat
    BY <1>1, <1>2
  <2>2. First(P, Len(f) + 1) >= j
    BY <1>2, <1>3
  <2> HIDE DEF P
  <2> QED BY <1>2, <2>1, <2>2
<1> QED BY <1>4 DEF ClosedIn

\* Without one, nothing closes before the end.
LEMMA ClosedNever ==
  ASSUME NEW f, NEW i \in Nat, Len(f) \in Nat, \A m \in (i + 1)..Len(f) : ~Unbalanced(f, i, m)
  PROVE  ClosedIn(f, i) = Len(f) + 1
<1>1. {m \in (i + 1)..Len(f) : Unbalanced(f, i, m)} = {}
  OBVIOUS
<1> QED BY <1>1, FirstIsLeast DEF ClosedIn

\* Where a field is closed is a position.
LEMMA ClosedNumber ==
  ASSUME NEW f, NEW i \in Nat, Len(f) \in Nat
  PROVE  ClosedIn(f, i) \in Nat
<1> DEFINE P == {m \in (i + 1)..Len(f) : Unbalanced(f, i, m)}
<1>1. P \in SUBSET Nat
  OBVIOUS
<1> HIDE DEF P
<1>2. First(P, Len(f) + 1) \in Nat
  <2>1. CASE P = {}
    <3>1. First(P, Len(f) + 1) = Len(f) + 1
      BY <1>1, <2>1, FirstIsLeast
    <3> QED BY <3>1
  <2>2. CASE P # {}
    <3>1. First(P, Len(f) + 1) \in P
      BY <1>1, <2>2, FirstIsLeast
    <3> QED BY <1>1, <3>1
  <2> QED BY <2>1, <2>2
<1> QED BY <1>2 DEF ClosedIn, P

\* Up to token n no name has been closed since i, and d more were opened than closed.
Balance(f, i, n, d) ==
    /\ \A j \in (i + 1)..n : ~Unbalanced(f, i, j)
    /\ TokensIn(f, "open", i + 1, n) = TokensIn(f, "comma", i + 1, n) + d

\* What the next token makes of the balance.
LEMMA BalanceNext ==
  ASSUME NEW f, NEW i \in Nat, NEW n \in Nat, NEW d \in Nat, i <= n, Balance(f, i, n, d)
  PROVE  /\ f[n + 1].t \notin {"comma", "open"} => Balance(f, i, n + 1, d)
         /\ f[n + 1].t = "open" => Balance(f, i, n + 1, d + 1)
         /\ f[n + 1].t = "comma" /\ d > 0 => Balance(f, i, n + 1, d - 1)
         /\ f[n + 1].t = "comma" /\ d = 0 => Unbalanced(f, i, n + 1)
<1> DEFINE O(j) == TokensIn(f, "open", i + 1, j)
           C(j) == TokensIn(f, "comma", i + 1, j)
<1>1. /\ O(n) \in Nat /\ O(n + 1) = O(n) + (IF f[n + 1].t = "open" THEN 1 ELSE 0)
      /\ C(n) \in Nat /\ C(n + 1) = C(n) + (IF f[n + 1].t = "comma" THEN 1 ELSE 0)
  BY TokensNext
<1>2. O(n) = C(n) + d /\ \A j \in (i + 1)..n : ~(C(j) > O(j))
  BY DEF Balance, Unbalanced
<1>3. \A j \in (i + 1)..(n + 1) : j \in (i + 1)..n \/ j = n + 1
  OBVIOUS
<1>4. /\ \A j, e : Balance(f, i, j, e) <=> (\A m \in (i + 1)..j : ~(C(m) > O(m))) /\ O(j) = C(j) + e
      /\ Unbalanced(f, i, n + 1) <=> C(n + 1) > O(n + 1)
  BY DEF Balance, Unbalanced
<1> HIDE DEF O, C
<1> QED BY <1>1, <1>2, <1>3, <1>4

\* Just after it was named, a field is balanced.
LEMMA BalanceNone == ASSUME NEW f, NEW i \in Nat PROVE Balance(f, i, i, 0)
  BY TokensNext DEF Balance

-----------------------------------------------------------------------------
(* Types, as far as the proofs need them, and the place of the program.     *)

Character  == 1..127
LeafField  == [kind : Kinds, bound : Nat \union {-1}, chars : SUBSET Character, skip : BOOLEAN, stale : BOOLEAN]
NamedField == [name : STRING \union {Expression}, from : Nat, to : Nat, token : Nat]

TypeInv ==
    /\ format \in Seq(SyntaxToken) /\ input \in Seq(Character)
    /\ leaves \in Seq(LeafField) /\ named \in Seq(NamedField)

\* The syntax is read from token at, the input at pos, into leaf.
PlaceInv ==
    /\ phase = "define" =>
          /\ at \in 1..(Len(format) + 1) /\ separated \in BOOLEAN
          /\ open \in Seq(Nat) /\ named # <<>> /\ leaf = 1 /\ pos = 0
    /\ phase \in {"fill", "print"} =>
          /\ leaves # <<>> /\ leaf \in 1..(Len(leaves) + 1) /\ pos \in Nat
          /\ phase = "fill" => leaf <= Len(leaves) /\ pos < Len(input)

-----------------------------------------------------------------------------
(* The invariant of the syntax.                                             *)

\* A named field begins after the leaves before its token, and not after the last one.
BeginsInv ==
    /\ Len(leaves) = TokensIn(format, "leaf", 1, at - 1)
    /\ \A k \in DOMAIN named :
          /\ named[k].token \in 0..(at - 1)
          /\ named[k].from = TokensIn(format, "leaf", 1, named[k].token) + 1
          /\ named[k].from <= named[Len(named)].from
    /\ named[Len(named)].from <= Len(leaves) + 1

\* A closed one was closed by the comma that balances it, and got a leaf.
ClosedInv ==
    \A k \in DOMAIN named \ ToSet(open) :
        /\ ClosedIn(format, named[k].token) <= at - 1
        /\ named[k].to = TokensIn(format, "leaf", 1, ClosedIn(format, named[k].token) - 1)
        /\ named[k].from <= named[k].to /\ named[k].to <= Len(leaves)

\* An open one has as many more names than commas after it as it has open ones in it.
OpenInv ==
    \A p \in DOMAIN open :
        /\ open[p] \in DOMAIN named
        /\ \A q \in DOMAIN open : q # p => open[q] # open[p]
        /\ Balance(format, named[open[p]].token, at - 1, Len(open) - p)

\* After a field nothing is empty; before one, only what was just named.
EmptyInv ==
    IF separated THEN named[Len(named)].from > Len(leaves) <=> (at = 1 \/ format[at - 1].t = "open")
                 ELSE /\ at > 1 /\ format[at - 1].t \in {"leaf", "comma"}
                      /\ named[Len(named)].from <= Len(leaves)

SyntaxInv == phase = "define" => BeginsInv /\ ClosedInv /\ OpenInv /\ EmptyInv

\* What FieldsAreSpans says of one field, and that it got a leaf.
Spans(f) ==
    /\ f.from = TokensIn(format, "leaf", 1, f.token) + 1
    /\ f.to = TokensIn(format, "leaf", 1, ClosedIn(format, f.token) - 1)
              + (IF EndsEmpty /\ ClosedIn(format, f.token) > Len(format) THEN 1 ELSE 0)
    /\ f.from <= f.to /\ f.to <= Len(leaves)

SpansInv == phase \in {"fill", "print"} => \A k \in DOMAIN named : Spans(named[k])

\* What a token holds.
LEMMA TokenTypes ==
  ASSUME NEW x \in SyntaxToken
  PROVE  /\ x.t = "leaf" => /\ x.kind \in Kinds /\ x.bound \in Nat \union {-1}
                            /\ x.chars \in SUBSET Character /\ x.skip \in BOOLEAN
         /\ x.t = "open" => x.name \in STRING
  BY DEF SyntaxToken, Character

-----------------------------------------------------------------------------
(* Reading the syntax.                                                      *)

\* The token that is read is one of the syntax.
LEMMA TokenRead ==
  ASSUME TypeInv, PlaceInv, Reading
  PROVE  /\ at \in 1..Len(format) /\ Len(format) \in Nat /\ Token \in SyntaxToken
         /\ Len(leaves) \in Nat /\ Len(named) \in Nat \ {0} /\ DOMAIN named = 1..Len(named)
         /\ DOMAIN open = 1..Len(open) /\ Len(open) \in Nat \ {0}
         /\ Len(named) \in DOMAIN named
         /\ \A k \in DOMAIN named : /\ named[k] \in NamedField
                                    /\ named[k].from \in Nat /\ named[k].token \in Nat /\ named[k].to \in Nat
<1>1. /\ at \in 1..Len(format) /\ Len(format) \in Nat /\ Token \in SyntaxToken
      /\ Len(leaves) \in Nat /\ Len(named) \in Nat \ {0} /\ DOMAIN named = 1..Len(named)
      /\ DOMAIN open = 1..Len(open) /\ Len(open) \in Nat \ {0}
      /\ \A k \in DOMAIN named : named[k] \in NamedField
  BY DEF TypeInv, PlaceInv, Reading, Token
<1>2. \A f \in NamedField : f.from \in Nat /\ f.token \in Nat /\ f.to \in Nat
  BY DEF NamedField
<1> QED BY <1>1, <1>2

\* Reading a token keeps the types.
LEMMA SyntaxTypes ==
  ASSUME TypeInv, PlaceInv, OpenInv, ReadStaleField \/ ReadNamedField \/ ReadBar \/ ReadComma \/ SyntaxError
  PROVE  TypeInv' /\ PlaceInv'
<1>0. Reading
  BY DEF ReadStaleField, ReadNamedField, ReadBar, ReadComma, SyntaxError
<1>1. /\ at \in 1..Len(format) /\ Len(format) \in Nat /\ Token \in SyntaxToken /\ Len(leaves) \in Nat
      /\ Len(named) \in Nat \ {0} /\ DOMAIN named = 1..Len(named)
      /\ open \in Seq(Nat) /\ open # <<>> /\ Len(open) \in Nat \ {0} /\ phase = "define"
      /\ \A k \in DOMAIN named : named[k] \in NamedField
  BY <1>0, TokenRead DEF PlaceInv, Reading
<1>2. CASE ReadStaleField
  <2>1. PICK skip \in BOOLEAN :
           leaves' = Append(leaves, [kind |-> Token.kind, bound |-> Token.bound, chars |-> Token.chars,
                                     skip |-> skip, stale |-> TRUE])
    BY <1>2 DEF ReadStaleField
  <2>2. [kind |-> Token.kind, bound |-> Token.bound, chars |-> Token.chars, skip |-> skip, stale |-> TRUE] \in LeafField
    BY <1>1, <1>2, TokenTypes DEF LeafField, ReadStaleField
  <2>3. leaves' \in Seq(LeafField)
    BY <2>1, <2>2 DEF TypeInv
  <2>4. /\ UNCHANGED <<format, input, phase, open, named, leaf, pos>>
        /\ at' = at + 1 /\ separated' = FALSE
    BY <1>2 DEF ReadStaleField, syntax
  <2>5. TypeInv'
    BY <2>3, <2>4 DEF TypeInv
  <2>6. /\ phase' = "define" /\ at' \in 1..(Len(format') + 1)
        /\ open' \in Seq(Nat) /\ named' # <<>> /\ leaf' = 1 /\ pos' = 0
    <3>1. named # <<>> /\ leaf = 1 /\ pos = 0
      BY <1>1 DEF PlaceInv
    <3> QED BY <1>1, <2>4, <3>1
  <2>7. PlaceInv'
    BY <2>4, <2>6 DEF PlaceInv
  <2> QED BY <2>5, <2>7
<1>3. CASE ReadNamedField
  <2>1. [name |-> Token.name, from |-> Len(leaves) + 1, to |-> 0, token |-> at] \in NamedField
    BY <1>1, <1>3, TokenTypes DEF NamedField, ReadNamedField
  <2>2. named' \in Seq(NamedField) /\ named' # <<>> /\ Len(named') \in Nat
    BY <1>3, <2>1 DEF TypeInv, ReadNamedField
  <2>3. open' \in Seq(Nat)
    BY <1>1, <1>3, <2>2 DEF ReadNamedField
  <2> QED BY <1>1, <1>3, <2>2, <2>3 DEF ReadNamedField, TypeInv, PlaceInv, syntax
<1>4. CASE ReadBar
  BY <1>1, <1>4 DEF ReadBar, TypeInv, PlaceInv, syntax
<1>5. CASE ReadComma
  <2>1. /\ named' = [k \in DOMAIN named |-> IF k = Last(open) THEN [named[k] EXCEPT !.to = Len(leaves)] ELSE named[k]]
        /\ open' = Front(open)
    BY <1>5 DEF ReadComma, Closing
  <2>2. \A k \in DOMAIN named : [named[k] EXCEPT !.to = Len(leaves)] \in NamedField
    BY <1>1 DEF NamedField
  <2>3. named' \in [1..Len(named) -> NamedField]
    BY <1>1, <2>1, <2>2
  <2>4. named' \in Seq(NamedField) /\ Len(named') = Len(named)
    BY <1>1, <2>3
  <2>5. open' \in Seq(Nat)
    BY <1>1, <2>1 DEF Front
  <2> QED BY <1>1, <1>5, <2>4, <2>5 DEF ReadComma, TypeInv, PlaceInv, syntax
<1>6. CASE SyntaxError
  BY <1>1, <1>6 DEF SyntaxError, TypeInv, PlaceInv, syntax
<1> QED BY <1>2, <1>3, <1>4, <1>5, <1>6

\* An open field over the token that is read: its balance changes as BalanceNext says.
LEMMA OpenNext ==
  ASSUME TypeInv, PlaceInv, Reading, BeginsInv, OpenInv, NEW p \in DOMAIN open
  PROVE  LET i == named[open[p]].token IN
         /\ i \in Nat /\ i < at /\ Len(open) - p \in Nat
         /\ Token.t \notin {"comma", "open"} => Balance(format, i, at, Len(open) - p)
         /\ Token.t = "open" => Balance(format, i, at, Len(open) - p + 1)
         /\ Token.t = "comma" /\ p # Len(open) => Balance(format, i, at, Len(open) - p - 1)
         /\ Token.t = "comma" /\ p = Len(open) => ClosedIn(format, i) = at
<1> DEFINE i == named[open[p]].token
<1>1. /\ at \in 1..Len(format) /\ Len(format) \in Nat /\ at - 1 \in Nat /\ (at - 1) + 1 = at
      /\ DOMAIN open = 1..Len(open) /\ Len(open) \in Nat
  BY TokenRead
<1>2. i \in 0..(at - 1) /\ Balance(format, i, at - 1, Len(open) - p)
  BY DEF OpenInv, BeginsInv
<1>3. i \in Nat /\ i <= at - 1 /\ Len(open) - p \in Nat
  BY <1>1, <1>2
<1> HIDE DEF i
<1>4. /\ Token.t \notin {"comma", "open"} => Balance(format, i, at, Len(open) - p)
      /\ Token.t = "open" => Balance(format, i, at, Len(open) - p + 1)
      /\ Token.t = "comma" /\ Len(open) - p > 0 => Balance(format, i, at, Len(open) - p - 1)
      /\ Token.t = "comma" /\ Len(open) - p = 0 => Unbalanced(format, i, at)
  <2> DEFINE n == at - 1
  <2>1. n \in Nat /\ n + 1 = at /\ i <= n /\ Balance(format, i, n, Len(open) - p)
    BY <1>1, <1>2, <1>3
  <2> HIDE DEF n
  <2> QED BY <1>3, <2>1, BalanceNext DEF Token
<1>5. Token.t = "comma" /\ Len(open) - p = 0 => ClosedIn(format, i) = at
  BY <1>1, <1>2, <1>3, <1>4, ClosedFirst DEF Balance
<1> QED BY <1>1, <1>3, <1>4, <1>5 DEF i

\* The leaves up to the token that is read.
LEMMA LeavesNext ==
  ASSUME TypeInv, PlaceInv, Reading
  PROVE  TokensIn(format, "leaf", 1, at)
            = TokensIn(format, "leaf", 1, at - 1) + (IF Token.t = "leaf" THEN 1 ELSE 0)
<1> DEFINE n == at - 1
<1>1. n \in Int /\ 1 <= n + 1 /\ n + 1 = at
  BY TokenRead
<1> HIDE DEF n
<1>2. TokensIn(format, "leaf", 1, n + 1) = TokensIn(format, "leaf", 1, n) + (IF format[n + 1].t = "leaf" THEN 1 ELSE 0)
  BY <1>1, TokensNext
<1> QED BY <1>1, <1>2 DEF Token, n

\* A leaf.
LEMMA SyntaxLeaf ==
  ASSUME TypeInv, PlaceInv, BeginsInv, ClosedInv, OpenInv, EmptyInv, ReadStaleField
  PROVE  BeginsInv' /\ ClosedInv' /\ OpenInv' /\ EmptyInv'
<1>1. /\ Reading /\ Token.t = "leaf" /\ Len(leaves') = Len(leaves) + 1
      /\ at' = at + 1 /\ separated' = FALSE /\ UNCHANGED <<format, open, named>>
  BY DEF ReadStaleField, TypeInv, syntax
<1>2. /\ at \in 1..Len(format) /\ Len(leaves) \in Nat /\ Len(format) \in Nat /\ at' - 1 = at
      /\ DOMAIN named = 1..Len(named) /\ Len(named) \in DOMAIN named
      /\ \A k \in DOMAIN named : named[k].from \in Nat /\ named[k].token \in Nat /\ named[k].to \in Nat
  BY <1>1, TokenRead
<1>3. BeginsInv'
  <2>1. Len(leaves') = TokensIn(format, "leaf", 1, at)
    BY <1>1, LeavesNext DEF BeginsInv
  <2> QED BY <1>1, <1>2, <2>1 DEF BeginsInv
<1>4. ClosedInv'
  <2>1. \A k \in DOMAIN named \ ToSet(open) : ClosedIn(format, named[k].token) <= at
    <3> SUFFICES ASSUME NEW k \in DOMAIN named \ ToSet(open) PROVE ClosedIn(format, named[k].token) <= at
      OBVIOUS
    <3>1. ClosedIn(format, named[k].token) <= at - 1
      BY DEF ClosedInv
    <3>2. ClosedIn(format, named[k].token) \in Nat
      BY <1>2, ClosedNumber
    <3> QED BY <1>2, <3>1, <3>2
  <2> QED BY <1>1, <1>2, <2>1 DEF ClosedInv
<1>5. OpenInv'
  BY <1>1, <1>2, OpenNext DEF OpenInv
<1>6. EmptyInv'
  BY <1>1, <1>2 DEF EmptyInv, BeginsInv, Token
<1> QED BY <1>3, <1>4, <1>5, <1>6

\* A name.
LEMMA SyntaxName ==
  ASSUME TypeInv, PlaceInv, BeginsInv, ClosedInv, OpenInv, EmptyInv, ReadNamedField
  PROVE  BeginsInv' /\ ClosedInv' /\ OpenInv' /\ EmptyInv'
<1> DEFINE n == Len(named) + 1
           new == [name |-> Token.name, from |-> Len(leaves) + 1, to |-> 0, token |-> at]
<1>1. /\ Reading /\ Token.t = "open" /\ named' = Append(named, new) /\ separated = TRUE
      /\ open' = Append(open, Len(named')) /\ at' = at + 1 /\ UNCHANGED <<format, leaves, separated>>
  BY DEF ReadNamedField, syntax
<1>2. /\ at \in 1..Len(format) /\ Len(leaves) \in Nat /\ Len(format) \in Nat /\ at' - 1 = at
      /\ DOMAIN named = 1..Len(named) /\ Len(named) \in DOMAIN named /\ n \in Nat
      /\ \A k \in DOMAIN named : named[k].from \in Nat /\ named[k].token \in Nat /\ named[k].to \in Nat
      /\ DOMAIN open = 1..Len(open) /\ Len(open) \in Nat /\ open \in Seq(Nat)
  BY <1>1, TokenRead DEF PlaceInv, Reading
<1>3. /\ Len(named') = n /\ DOMAIN named' = 1..n /\ named'[n] = new
      /\ \A k \in 1..n : k \in DOMAIN named \/ k = n
      /\ n \in DOMAIN named' /\ \A k \in DOMAIN named : k # n /\ k \in DOMAIN named' /\ named'[k] = named[k]
  BY <1>1, <1>2 DEF TypeInv
<1>4. /\ new.from = Len(leaves) + 1 /\ new.token = at
  OBVIOUS
<1> HIDE DEF n, new
<1>5. /\ DOMAIN open' = 1..(Len(open) + 1) /\ Len(open') = Len(open) + 1 /\ open'[Len(open) + 1] = n
      /\ \A p \in 1..(Len(open) + 1) : p \in DOMAIN open \/ p = Len(open) + 1
      /\ Len(open) + 1 \in DOMAIN open'
      /\ \A p \in DOMAIN open : p # Len(open) + 1 /\ p \in DOMAIN open' /\ open'[p] = open[p]
  BY <1>1, <1>2, <1>3
<1>6. BeginsInv'
  <2>1. Len(leaves') = TokensIn(format, "leaf", 1, at)
    BY <1>1, LeavesNext DEF BeginsInv
  <2>2. \A k \in DOMAIN named : named[k].from <= Len(leaves) + 1 /\ named[k].token <= at - 1
    <3> SUFFICES ASSUME NEW k \in DOMAIN named PROVE named[k].from <= Len(leaves) + 1 /\ named[k].token <= at - 1
      OBVIOUS
    <3>1. /\ named[k].token \in 0..(at - 1) /\ named[k].from <= named[Len(named)].from
          /\ named[Len(named)].from <= Len(leaves) + 1
      BY DEF BeginsInv
    <3>2. named[k].from \in Nat /\ named[Len(named)].from \in Nat
      BY <1>2
    <3> QED BY <1>2, <3>1, <3>2
  <2> QED BY <1>1, <1>2, <1>3, <1>4, <2>1, <2>2 DEF BeginsInv
<1>7. ClosedInv'
  <2>1. \A k \in DOMAIN named' \ ToSet(open') : k \in DOMAIN named \ ToSet(open)
    <3>1. n \in ToSet(open')
      BY <1>2, <1>5 DEF ToSet
    <3>2. ToSet(open) \subseteq ToSet(open')
      BY <1>2, <1>5 DEF ToSet
    <3> QED BY <1>3, <3>1, <3>2
  <2>2. \A k \in DOMAIN named \ ToSet(open) : ClosedIn(format, named[k].token) <= at
    BY <1>2, ClosedNumber DEF ClosedInv
  <2> QED BY <1>1, <1>2, <1>3, <2>1, <2>2 DEF ClosedInv
<1>8. OpenInv'
  <2>1. ASSUME NEW p \in DOMAIN open
        PROVE  /\ open'[p] \in DOMAIN named' /\ Balance(format, named'[open'[p]].token, at, Len(open') - p)
               /\ \A q \in DOMAIN open' : q # p => open'[q] # open'[p]
    <3>1. /\ open[p] \in DOMAIN named /\ named'[open[p]] = named[open[p]] /\ open'[p] = open[p]
          /\ Len(open') - p = Len(open) - p + 1
      BY <1>2, <1>3, <1>5 DEF OpenInv
    <3>2. Balance(format, named[open[p]].token, at, Len(open) - p + 1)
      BY <1>1, OpenNext
    <3>3. \A q \in DOMAIN open' : q # p => open'[q] # open'[p]
      <4> SUFFICES ASSUME NEW q \in DOMAIN open', q # p PROVE open'[q] # open'[p]
        OBVIOUS
      <4>1. CASE q \in DOMAIN open
        BY <1>5, <4>1 DEF OpenInv
      <4>2. CASE q = Len(open) + 1
        BY <1>3, <1>5, <3>1, <4>2
      <4> QED BY <1>5, <4>1, <4>2
    <3>4. Balance(format, named'[open'[p]].token, at, Len(open') - p)
      BY <3>1, <3>2
    <3>5. open'[p] \in DOMAIN named'
      BY <1>3, <3>1
    <3> QED BY <3>3, <3>4, <3>5
  <2>2. Balance(format, at, at, 0)
    BY <1>2, BalanceNone
  <2>3. ASSUME NEW q \in DOMAIN open PROVE open'[q] # n
    BY <1>3, <1>5 DEF OpenInv
  <2>4. Len(open') - (Len(open) + 1) = 0
    BY <1>2, <1>5
  <2>5. ASSUME NEW p \in DOMAIN open'
        PROVE  /\ open'[p] \in DOMAIN named' /\ Balance(format, named'[open'[p]].token, at, Len(open') - p)
               /\ \A q \in DOMAIN open' : q # p => open'[q] # open'[p]
    <3>1. CASE p \in DOMAIN open
      BY <2>1, <3>1
    <3>2. CASE p = Len(open) + 1
      <4>1. open'[p] = n /\ n \in DOMAIN named' /\ named'[n].token = at /\ Len(open') - p = 0
        BY <1>2, <1>3, <1>4, <1>5, <2>4, <3>2
      <4>2. \A q \in DOMAIN open' : q # p => q \in DOMAIN open
        BY <1>5, <3>2
      <4> QED BY <2>2, <2>3, <4>1, <4>2
    <3> QED BY <1>5, <3>1, <3>2
  <2> QED BY <1>1, <1>2, <2>5 DEF OpenInv
<1>9. EmptyInv'
  BY <1>1, <1>2, <1>3, <1>4 DEF EmptyInv, Token
<1> QED BY <1>6, <1>7, <1>8, <1>9

\* A bar, or nothing.
LEMMA SyntaxBar ==
  ASSUME TypeInv, PlaceInv, BeginsInv, ClosedInv, OpenInv, EmptyInv, ReadBar
  PROVE  BeginsInv' /\ ClosedInv' /\ OpenInv' /\ EmptyInv'
<1>1. /\ Reading /\ ~separated /\ Token.t # "comma" /\ separated' = TRUE
      /\ UNCHANGED <<format, leaves, named, open>>
      /\ at' = IF Token.t = "bar" THEN at + 1 ELSE at
  BY DEF ReadBar, syntax
<1>2. /\ at \in 1..Len(format) /\ Len(leaves) \in Nat /\ Len(format) \in Nat
      /\ DOMAIN named = 1..Len(named) /\ Len(named) \in DOMAIN named
      /\ \A k \in DOMAIN named : named[k].from \in Nat /\ named[k].token \in Nat /\ named[k].to \in Nat
  BY <1>1, TokenRead
<1>3. CASE Token.t = "bar"
  <2>1. at' = at + 1 /\ at' - 1 = at
    BY <1>1, <1>2, <1>3
  <2>2. BeginsInv'
    <3>1. Len(leaves') = TokensIn(format, "leaf", 1, at)
      BY <1>1, <1>2, <1>3, LeavesNext DEF BeginsInv
    <3> QED BY <1>1, <1>2, <2>1, <3>1 DEF BeginsInv
  <2>3. ClosedInv'
    <3>1. \A k \in DOMAIN named \ ToSet(open) : ClosedIn(format, named[k].token) <= at
      BY <1>2, ClosedNumber DEF ClosedInv
    <3> QED BY <1>1, <1>2, <2>1, <3>1 DEF ClosedInv
  <2>4. OpenInv'
    BY <1>1, <1>2, <1>3, <2>1, OpenNext DEF OpenInv
  <2>5. EmptyInv'
    BY <1>1, <1>2, <1>3, <2>1 DEF EmptyInv, Token
  <2> QED BY <2>2, <2>3, <2>4, <2>5
<1>4. CASE Token.t # "bar"
  <2>1. at' = at
    BY <1>1, <1>4
  <2>2. BeginsInv' /\ ClosedInv' /\ OpenInv'
    BY <1>1, <2>1 DEF BeginsInv, ClosedInv, OpenInv
  <2>3. EmptyInv'
    BY <1>1, <1>2, <2>1 DEF EmptyInv
  <2> QED BY <2>2, <2>3
<1> QED BY <1>3, <1>4

\* A comma.
LEMMA SyntaxComma ==
  ASSUME TypeInv, PlaceInv, BeginsInv, ClosedInv, OpenInv, EmptyInv, ReadComma
  PROVE  BeginsInv' /\ ClosedInv' /\ OpenInv' /\ EmptyInv'
<1> DEFINE h == Len(open)
           last == open[Len(open)]
<1>1. /\ Reading /\ ~separated /\ Token.t = "comma" /\ open' = Front(open) /\ at' = at + 1
      /\ named' = [k \in DOMAIN named |-> IF k = last THEN [named[k] EXCEPT !.to = Len(leaves)] ELSE named[k]]
      /\ UNCHANGED <<format, leaves, separated>>
  BY DEF ReadComma, Closing, Last, syntax
<1>2. /\ at \in 1..Len(format) /\ Len(leaves) \in Nat /\ Len(format) \in Nat /\ at' - 1 = at
      /\ DOMAIN named = 1..Len(named) /\ Len(named) \in DOMAIN named /\ Len(named) \in Nat
      /\ \A k \in DOMAIN named : /\ named[k] \in NamedField
                                 /\ named[k].from \in Nat /\ named[k].token \in Nat /\ named[k].to \in Nat
      /\ DOMAIN open = 1..h /\ h \in Nat \ {0} /\ open \in Seq(Nat)
  <2>1. /\ at \in 1..Len(format) /\ Len(leaves) \in Nat /\ Len(format) \in Nat
        /\ DOMAIN named = 1..Len(named) /\ Len(named) \in Nat \ {0}
        /\ \A k \in DOMAIN named : /\ named[k] \in NamedField
                                   /\ named[k].from \in Nat /\ named[k].token \in Nat /\ named[k].to \in Nat
        /\ DOMAIN open = 1..h /\ h \in Nat \ {0}
    BY <1>1, TokenRead
  <2>2. at' - 1 = at
    BY <1>1, <2>1
  <2>3. open \in Seq(Nat)
    BY <1>1 DEF PlaceInv, Reading
  <2> HIDE DEF h
  <2> QED BY <2>1, <2>2, <2>3
<1>3. last \in DOMAIN named /\ h \in DOMAIN open
  BY <1>2 DEF OpenInv
<1>4. /\ DOMAIN named' = DOMAIN named /\ named'[last].to = Len(leaves)
      /\ \A k \in DOMAIN named : /\ named'[k].from = named[k].from /\ named'[k].token = named[k].token
                                 /\ k # last => named'[k] = named[k]
  BY <1>1, <1>2, <1>3 DEF NamedField
<1>5. Len(named') = Len(named)
  <2>1. named' \in Seq(NamedField)
    BY <1>2, SyntaxTypes, ReadComma DEF TypeInv
  <2> QED BY <1>2, <1>4, <2>1
<1>6. /\ DOMAIN open' = 1..(h - 1) /\ Len(open') = h - 1
      /\ \A p \in DOMAIN open' : p \in DOMAIN open /\ p # h /\ open'[p] = open[p]
      /\ \A p \in DOMAIN open : p # h => p \in DOMAIN open'
  BY <1>1, <1>2 DEF Front
<1> HIDE DEF h, last
<1>7. BeginsInv'
  <2>1. Len(leaves') = TokensIn(format, "leaf", 1, at)
    BY <1>1, <1>2, LeavesNext DEF BeginsInv
  <2> QED BY <1>1, <1>2, <1>4, <1>5, <2>1 DEF BeginsInv
<1>8. ClosedInv'
  <2>1. ASSUME NEW k \in DOMAIN named, k \notin ToSet(open'), k # last PROVE k \notin ToSet(open)
    BY <1>2, <1>6, <2>1 DEF ToSet, last, h
  <2>2. \A k \in DOMAIN named \ ToSet(open) : ClosedIn(format, named[k].token) <= at
    BY <1>2, ClosedNumber DEF ClosedInv
  <2>3. ASSUME NEW k \in DOMAIN named', k \notin ToSet(open'), k # last
        PROVE  /\ ClosedIn(format, named'[k].token) <= at
               /\ named'[k].to = TokensIn(format, "leaf", 1, ClosedIn(format, named'[k].token) - 1)
               /\ named'[k].from <= named'[k].to /\ named'[k].to <= Len(leaves)
    <3>1. k \in DOMAIN named \ ToSet(open) /\ named'[k] = named[k]
      BY <1>4, <2>1, <2>3
    <3> QED BY <2>2, <3>1 DEF ClosedInv
  <2>4. /\ ClosedIn(format, named'[last].token) <= at
        /\ named'[last].to = TokensIn(format, "leaf", 1, ClosedIn(format, named'[last].token) - 1)
        /\ named'[last].from <= named'[last].to /\ named'[last].to <= Len(leaves)
    <3>1. ClosedIn(format, named[last].token) = at
      BY <1>1, <1>3, OpenNext DEF last, h
    <3>2. named[last].from <= Len(leaves)
      <4>1. named[last].from <= named[Len(named)].from /\ named[Len(named)].from <= Len(leaves)
        BY <1>1, <1>3 DEF BeginsInv, EmptyInv
      <4> QED BY <1>2, <1>3, <4>1
    <3> QED BY <1>2, <1>3, <1>4, <3>1, <3>2 DEF BeginsInv
  <2> QED BY <1>1, <1>2, <2>3, <2>4 DEF ClosedInv
<1>9. OpenInv'
  <2> SUFFICES ASSUME NEW p \in DOMAIN open'
               PROVE  /\ open'[p] \in DOMAIN named'
                      /\ \A q \in DOMAIN open' : q # p => open'[q] # open'[p]
                      /\ Balance(format, named'[open'[p]].token, at, Len(open') - p)
    BY <1>1, <1>2 DEF OpenInv
  <2>1. p \in DOMAIN open /\ p # h /\ open'[p] = open[p] /\ open[p] \in DOMAIN named
    BY <1>6 DEF OpenInv
  <2>2. Len(open) - p - 1 = Len(open') - p
    BY <1>2, <1>6, <2>1 DEF h
  <2>3. Balance(format, named[open[p]].token, at, Len(open) - p - 1)
    BY <1>1, <2>1, OpenNext DEF h
  <2>4. \A q \in DOMAIN open' : q # p => open'[q] # open'[p]
    BY <1>6, <2>1 DEF OpenInv
  <2> QED BY <1>4, <2>1, <2>2, <2>3, <2>4
<1>10. EmptyInv'
  BY <1>1, <1>2, <1>4, <1>5 DEF EmptyInv, Token
<1> QED BY <1>7, <1>8, <1>9, <1>10

\* The end of the syntax: what the leaves and the named fields become.
LEMMA EndTypes ==
  ASSUME TypeInv, PlaceInv, EndOfFormat
  PROVE  LET empty == open # <<>> /\ separated /\ named[Len(named)].from > Len(leaves) IN
         /\ UNCHANGED <<format, input, at, leaf, pos>> /\ phase' \in {"ended", "fill"}
         /\ phase' = "fill" => input # <<>>
         /\ leaves' \in Seq(LeafField)
         /\ empty => Len(leaves') = Len(leaves) + 1
         /\ ~empty => Len(leaves') = Len(leaves)
         /\ named' \in Seq(NamedField) /\ Len(named') = Len(named)
         /\ \A k \in DOMAIN named :
               /\ named'[k].from = named[k].from /\ named'[k].token = named[k].token
               /\ named'[k].to = IF k \in ToSet(open) THEN Len(leaves') ELSE named[k].to
         /\ data' = [k \in DOMAIN leaves' |-> <<>>] /\ began' = [k \in DOMAIN leaves' |-> -1]
<1> DEFINE empty == open # <<>> /\ separated /\ named[Len(named)].from > Len(leaves)
           one(kind) == [kind |-> kind, bound |-> -1, chars |-> {}, skip |-> FALSE, stale |-> FALSE]
<1>1. PICK kind \in {"string", "integer", "char", "undefined"}, tagged \in BOOLEAN :
        /\ leaves' = IF empty THEN Append(leaves, one(kind)) ELSE leaves
        /\ named' = [k \in DOMAIN named |-> IF k \in ToSet(open) THEN [named[k] EXCEPT !.to = Len(leaves')] ELSE named[k]]
        /\ phase' = IF tagged \/ stages = 1 \/ input = <<>> THEN "ended" ELSE "fill"
        /\ data' = [k \in DOMAIN leaves' |-> <<>>] /\ began' = [k \in DOMAIN leaves' |-> -1]
  BY DEF EndOfFormat
<1>2. UNCHANGED <<format, input, at, leaf, pos>>
  BY DEF EndOfFormat, syntax
<1>3. one(kind) \in LeafField
  BY DEF LeafField, Kinds
<1> HIDE DEF one
<1>4. /\ leaves' \in Seq(LeafField)
      /\ empty => Len(leaves') = Len(leaves) + 1
      /\ ~empty => Len(leaves') = Len(leaves)
  BY <1>1, <1>3 DEF TypeInv
<1>5. /\ DOMAIN named = 1..Len(named) /\ Len(named) \in Nat
      /\ \A k \in DOMAIN named : named[k] \in NamedField /\ [named[k] EXCEPT !.to = Len(leaves')] \in NamedField
  <2>1. Len(leaves') \in Nat
    BY <1>4
  <2>2. /\ DOMAIN named = 1..Len(named) /\ Len(named) \in Nat /\ \A k \in DOMAIN named : named[k] \in NamedField
    BY DEF TypeInv
  <2>3. ASSUME NEW f \in NamedField PROVE [f EXCEPT !.to = Len(leaves')] \in NamedField
    BY <2>1 DEF NamedField
  <2> QED BY <2>2, <2>3
<1>6. named' \in [1..Len(named) -> NamedField]
  BY <1>1, <1>5
<1>7. named' \in Seq(NamedField) /\ Len(named') = Len(named)
  BY <1>5, <1>6
<1>8. \A k \in DOMAIN named :
         /\ named'[k].from = named[k].from /\ named'[k].token = named[k].token
         /\ named'[k].to = IF k \in ToSet(open) THEN Len(leaves') ELSE named[k].to
  BY <1>1, <1>5 DEF NamedField
<1>9. phase' \in {"ended", "fill"} /\ (phase' = "fill" => input # <<>>)
  BY <1>1
<1> QED BY <1>1, <1>2, <1>4, <1>7, <1>8, <1>9

\* A syntax that has come to its end has the fields it describes.
LEMMA EndSpans ==
  ASSUME TypeInv, PlaceInv, SyntaxInv, EndOfFormat
  PROVE  SpansInv'
<1> DEFINE empty == open # <<>> /\ separated /\ named[Len(named)].from > Len(leaves)
<1>1. /\ phase = "define" /\ (at > Len(format) \/ open = <<>>) /\ UNCHANGED format
      /\ BeginsInv /\ ClosedInv /\ OpenInv /\ EmptyInv
  BY DEF EndOfFormat, SyntaxInv, syntax
<1>2. /\ at \in 1..(Len(format) + 1) /\ Len(format) \in Nat /\ Len(leaves) \in Nat /\ open \in Seq(Nat)
      /\ DOMAIN named = 1..Len(named) /\ Len(named) \in DOMAIN named
      /\ \A k \in DOMAIN named : named[k].from \in Nat /\ named[k].token \in Nat /\ named[k].to \in Nat
  <2>1. at \in 1..(Len(format) + 1) /\ open \in Seq(Nat) /\ named # <<>>
    BY <1>1 DEF PlaceInv
  <2>2. Len(format) \in Nat /\ Len(leaves) \in Nat
    BY DEF TypeInv
  <2>3. DOMAIN named = 1..Len(named) /\ Len(named) \in Nat \ {0} /\ \A k \in DOMAIN named : named[k] \in NamedField
    BY <2>1 DEF TypeInv
  <2>4. Len(named) \in DOMAIN named
    BY <2>3
  <2> QED BY <2>1, <2>2, <2>3, <2>4 DEF NamedField
<1>3. /\ Len(leaves') = IF empty THEN Len(leaves) + 1 ELSE Len(leaves)
      /\ DOMAIN named' = DOMAIN named
      /\ \A k \in DOMAIN named :
               /\ named'[k].from = named[k].from /\ named'[k].token = named[k].token
               /\ named'[k].to = IF k \in ToSet(open) THEN Len(leaves') ELSE named[k].to
  BY <1>2, EndTypes
<1> HIDE DEF empty
<1>4. ASSUME NEW k \in DOMAIN named, k \notin ToSet(open) PROVE Spans(named[k])'
  <2>1. ClosedIn(format, named[k].token) \in Nat /\ ClosedIn(format, named[k].token) <= at - 1
    BY <1>1, <1>2, <1>4, ClosedNumber DEF ClosedInv
  <2>2. ~(ClosedIn(format, named[k].token) > Len(format))
    BY <1>2, <2>1
  <2>3. /\ named[k].to = TokensIn(format, "leaf", 1, ClosedIn(format, named[k].token) - 1)
        /\ named[k].from <= named[k].to /\ named[k].to <= Len(leaves')
    BY <1>1, <1>2, <1>3, <1>4 DEF ClosedInv
  <2> QED BY <1>1, <1>2, <1>3, <1>4, <2>2, <2>3 DEF Spans, BeginsInv
<1>5. ASSUME NEW k \in DOMAIN named, k \in ToSet(open) PROVE Spans(named[k])'
  <2>1. PICK p \in DOMAIN open : open[p] = k
    BY <1>5 DEF ToSet
  <2>2. at = Len(format) + 1 /\ at - 1 = Len(format) /\ open # <<>>
    BY <1>1, <1>2, <2>1
  <2>3. ClosedIn(format, named[k].token) = Len(format) + 1
    BY <1>1, <1>2, <2>1, <2>2, ClosedNever DEF OpenInv, Balance
  <2>4. named'[k].from = TokensIn(format, "leaf", 1, named'[k].token) + 1
    BY <1>1, <1>3 DEF BeginsInv
  <2>5. TokensIn(format, "leaf", 1, Len(format)) = Len(leaves)
    BY <1>1, <2>2 DEF BeginsInv
  <2>6. EndsEmpty <=> empty
    <3>1. EndsEmpty <=> (at = 1 \/ format[at - 1].t = "open")
      BY <2>2 DEF EndsEmpty, TypeInv
    <3>2. CASE separated
      BY <1>1, <2>2, <3>1, <3>2 DEF EmptyInv, empty
    <3>3. CASE ~separated
      BY <1>1, <1>2, <3>1, <3>3 DEF EmptyInv, empty
    <3> QED BY <3>2, <3>3
  <2>7. named[k].from <= Len(leaves')
    <3>1. named[k].from <= named[Len(named)].from /\ named[Len(named)].from <= Len(leaves) + 1
      BY <1>1 DEF BeginsInv
    <3>2. ~empty => named[Len(named)].from <= Len(leaves)
      <4>1. CASE separated
        BY <1>2, <2>2, <4>1 DEF empty
      <4>2. CASE ~separated
        BY <1>1, <4>2 DEF EmptyInv
      <4> QED BY <4>1, <4>2
    <3>3. named[k].from \in Nat /\ named[Len(named)].from \in Nat
      BY <1>2
    <3> QED BY <1>2, <1>3, <3>1, <3>2, <3>3
  <2>8. EndsEmpty' <=> EndsEmpty
    BY <1>1 DEF EndsEmpty
  <2> QED BY <1>1, <1>2, <1>3, <2>3, <2>4, <2>5, <2>6, <2>7, <2>8, <1>5 DEF Spans
<1> QED BY <1>3, <1>4, <1>5 DEF SpansInv

-----------------------------------------------------------------------------
(* The readers.                                                             *)

\* A run of characters ends in the text or at its end, and all before are of the run.
LEMMA RunEnds ==
  ASSUME NEW s \in Seq(Character), NEW p \in Nat, p <= Len(s), NEW chars, 0 \notin chars
  PROVE  /\ RunEnd(s, p, chars) \in p..Len(s)
         /\ \A q \in p..(RunEnd(s, p, chars) - 1) : At(s, q) \in chars
<1> DEFINE P == {q \in p..Len(s) : At(s, q) \notin chars}
<1>1. P \in SUBSET Nat /\ Len(s) \in P
  BY DEF At
<1>2. First(P, p) \in P /\ \A q \in P : First(P, p) <= q
  BY <1>1, FirstIsLeast
<1>3. RunEnd(s, p, chars) = First(P, p)
  BY DEF RunEnd
<1>4. First(P, p) \in p..Len(s)
  BY <1>2
<1>5. \A q \in p..(First(P, p) - 1) : At(s, q) \in chars
  <2> SUFFICES ASSUME NEW q \in p..(First(P, p) - 1), q \notin {x \in Nat : At(s, x) \in chars} PROVE FALSE
    BY <1>4
  <2>1. q \in p..Len(s) /\ At(s, q) \notin chars /\ q < First(P, p)
    BY <1>4
  <2>2. q \in P
    BY <2>1
  <2>3. First(P, p) <= q
    BY <1>2, <2>2
  <2> HIDE DEF P
  <2> QED BY <1>4, <2>1, <2>3
<1> QED BY <1>3, <1>4, <1>5

\* The characters c from p to q.
Characters(s, c, p, q) == Cardinality(Positions(s, {c}) \cap (p..q))

\* One more character adds one at most.
LEMMA CharactersNext ==
  ASSUME NEW s \in Seq(Character), NEW c, NEW p \in Int, NEW q \in Int
  PROVE  /\ Characters(s, c, p, q) \in Nat
         /\ q < p => Characters(s, c, p, q) = 0
         /\ p <= q + 1 /\ q + 1 \in 0..(Len(s) - 1) =>
               Characters(s, c, p, q + 1) = Characters(s, c, p, q) + (IF s[q + 2] = c THEN 1 ELSE 0)
<1> DEFINE S(n) == Positions(s, {c}) \cap (p..n)
<1>1. IsFiniteSet(p..q) /\ S(q) \in SUBSET (p..q)
  BY FS_Interval
<1>2. IsFiniteSet(S(q))
  BY <1>1, FS_Subset
<1>3. Cardinality(S(q)) \in Nat
  BY <1>2, FS_CardinalityType
<1>4. q < p => Cardinality(S(q)) = 0
  <2>1. q < p => S(q) = {}
    OBVIOUS
  <2> QED BY <2>1, FS_EmptySet
<1>5. ASSUME p <= q + 1, q + 1 \in 0..(Len(s) - 1)
      PROVE  Cardinality(S(q + 1)) = Cardinality(S(q)) + (IF s[q + 2] = c THEN 1 ELSE 0)
  <2>1. CASE s[q + 2] = c
    <3>1. S(q + 1) = S(q) \union {q + 1} /\ q + 1 \notin S(q)
      BY <1>5, <2>1 DEF Positions
    <3> QED BY <1>2, <2>1, <3>1, FS_AddElement
  <2>2. CASE s[q + 2] # c
    <3>1. S(q + 1) = S(q)
      BY <1>5, <2>2 DEF Positions
    <3>2. Cardinality(S(q + 1)) = Cardinality(S(q))
      BY <3>1
    <3> HIDE DEF S
    <3> QED BY <1>3, <2>2, <3>2
  <2> QED BY <2>1, <2>2
<1> QED BY <1>3, <1>4, <1>5 DEF Characters

\* Where the code goes on after a parenthesis is a position, although the depth of one that
\* is never closed is taken for it.
LEMMA RecIsPosition ==
  ASSUME NEW s \in Seq(Character), NEW p \in 0..(Len(s) - 1), At(s, p) = OPEN
  PROVE  Rec(s, p) \in Nat
<1> DEFINE n == Len(s) - 1
<1>1. n \in Nat /\ p \in 0..n /\ s[p + 1] = OPEN
  BY DEF At
<1>2. ASSUME NEW q \in p..n PROVE Depth(s, p, q) \in Int
  <2>1. Characters(s, OPEN, p, q) \in Nat /\ Characters(s, CLOSE, p, q) \in Nat
    BY <1>1, CharactersNext
  <2> QED BY <2>1 DEF Depth, Characters
<1>3. Depth(s, p, p) = 1
  <2>1. /\ Characters(s, OPEN, p, p - 1) = 0 /\ Characters(s, CLOSE, p, p - 1) = 0
    BY <1>1, CharactersNext
  <2>2. Characters(s, OPEN, p, p) = 1 /\ Characters(s, CLOSE, p, p) = 0
    <3> DEFINE q == p - 1
    <3>1. q \in Int /\ q + 1 = p /\ q + 2 = p + 1 /\ p <= q + 1 /\ q + 1 \in 0..n
      BY <1>1
    <3> HIDE DEF q, n
    <3>2. /\ Characters(s, OPEN, p, q + 1) = Characters(s, OPEN, p, q) + (IF s[q + 2] = OPEN THEN 1 ELSE 0)
          /\ Characters(s, CLOSE, p, q + 1) = Characters(s, CLOSE, p, q) + (IF s[q + 2] = CLOSE THEN 1 ELSE 0)
      BY <1>1, <3>1, CharactersNext DEF n
    <3> QED BY <1>1, <2>1, <3>1, <3>2 DEF OPEN, CLOSE, q
  <2> QED BY <2>2 DEF Depth, Characters
<1>4. ASSUME NEW q \in p..n, q + 1 <= n PROVE Depth(s, p, q + 1) >= Depth(s, p, q) - 1
  <2>1. /\ Characters(s, OPEN, p, q) \in Nat /\ Characters(s, CLOSE, p, q) \in Nat
        /\ Characters(s, OPEN, p, q + 1) = Characters(s, OPEN, p, q) + (IF s[q + 2] = OPEN THEN 1 ELSE 0)
        /\ Characters(s, CLOSE, p, q + 1) = Characters(s, CLOSE, p, q) + (IF s[q + 2] = CLOSE THEN 1 ELSE 0)
    BY <1>1, <1>4, CharactersNext
  <2> QED BY <2>1 DEF Depth, Characters
<1>5. CASE Closed(s, p)
  <2>1. {q \in p..(Len(s) - 1) : Depth(s, p, q) = 0} \in SUBSET Nat /\ {q \in p..(Len(s) - 1) : Depth(s, p, q) = 0} # {}
    BY <1>1, <1>5 DEF Closed
  <2>2. First({q \in p..(Len(s) - 1) : Depth(s, p, q) = 0}, p) \in Nat
    BY <2>1, FirstIsLeast
  <2> QED BY <1>5, <2>2 DEF Rec
<1>6. CASE ~Closed(s, p)
  <2> DEFINE S == {q \in p..n : Depth(s, p, q) < 1}
  <2>1. S = {}
    <3> SUFFICES ASSUME S # {} PROVE FALSE
      OBVIOUS
    <3>1. S \in SUBSET Nat
      BY <1>1
    <3>2. PICK x \in S : \A y \in S : x <= y
      BY <3>1, LeastNumber
    <3>3. x \in p..n /\ Depth(s, p, x) < 1 /\ x # p
      BY <1>3, <3>2
    <3>4. x - 1 \in p..n /\ x - 1 \notin S
      BY <1>1, <3>2, <3>3
    <3>5. Depth(s, p, x - 1) >= 1
      BY <1>2, <3>4
    <3>6. Depth(s, p, (x - 1) + 1) >= Depth(s, p, x - 1) - 1
      BY <1>1, <1>4, <3>3, <3>4
    <3>7. (x - 1) + 1 = x
      BY <1>1, <3>3
    <3>8. Depth(s, p, x) = 0
      BY <1>2, <3>3, <3>4, <3>5, <3>6, <3>7
    <3> QED BY <1>6, <3>3, <3>8 DEF Closed
  <2>2. Depth(s, p, n) >= 1 /\ Depth(s, p, n) \in Int
    BY <1>1, <1>2, <2>1
  <2> QED BY <1>6, <2>2 DEF Rec
<1> QED BY <1>5, <1>6

\* CopyText takes the characters there are.
LEMMA CopyTextIs ==
  ASSUME NEW s \in Seq(Character), NEW p \in 0..(Len(s) - 1), NEW n \in Nat \ {0}
  PROVE  LET q == Least(p + n, Len(s)) IN
         /\ q \in (p + 1)..Len(s) /\ q <= p + n
         /\ CopyText(s, p, n) \in Seq(Character)
         /\ CopyText(s, p, n) = SubSeq(s, p + 1, q) /\ Len(CopyText(s, p, n)) = q - p
         /\ \A k \in 1..(q - p) : CopyText(s, p, n)[k] = At(s, p + k - 1)
<1> DEFINE q == Least(p + n, Len(s))
<1>1. q \in (p + 1)..Len(s) /\ q <= p + n /\ q \in Nat
  BY DEF Least
<1>2. CopyText(s, p, n) = SubSeq(s, p + 1, q)
  <2>1. ~(p < 0 \/ p >= Len(s) \/ n <= 0)
    OBVIOUS
  <2> QED BY <2>1 DEF CopyText
<1> HIDE DEF q
<1>3. /\ SubSeq(s, p + 1, q) \in Seq(Character) /\ Len(SubSeq(s, p + 1, q)) = q - p
      /\ \A k \in 1..(q - p) : SubSeq(s, p + 1, q)[k] = s[p + k]
  BY <1>1
<1>4. \A k \in 1..(q - p) : At(s, p + k - 1) = s[p + k]
  BY <1>1 DEF At
<1> QED BY <1>1, <1>2, <1>3, <1>4 DEF q

\* What a string with a size takes.
LEMMA SizedString ==
  ASSUME NEW s \in Seq(Character), NEW p \in 0..(Len(s) - 1), NEW n \in Nat \ {0}
  PROVE  LET r == ReadString(n, s, p) IN
         /\ r.pos \in (p + 1)..Len(s) /\ r.value = SubSeq(s, p + 1, r.pos)
         /\ ~r.error => r.pos = p + n
<1> DEFINE t == CopyText(s, p, n)
<1>1. ReadString(n, s, p) = [pos |-> p + Len(t), value |-> t, error |-> Len(t) < n]
  BY DEF ReadString
<1>2. PICK q \in (p + 1)..Len(s) : q <= p + n /\ t = SubSeq(s, p + 1, q) /\ Len(t) = q - p
  BY CopyTextIs
<1> HIDE DEF t
<1>3. p + Len(t) = q
  BY <1>2
<1>4. ~(Len(t) < n) => q = p + n
  BY <1>2
<1>5. /\ ReadString(n, s, p).pos = p + Len(t) /\ ReadString(n, s, p).value = t
      /\ ReadString(n, s, p).error = (Len(t) < n)
  BY <1>1
<1> QED BY <1>2, <1>3, <1>4, <1>5

\* Every string ends at a position.
LEMMA StringPosition ==
  ASSUME NEW s \in Seq(Character), NEW p \in 0..(Len(s) - 1), NEW n \in Int
  PROVE  ReadString(n, s, p).pos \in Nat
<1>1. CASE n > 0
  <2>1. n \in Nat \ {0}
    BY <1>1
  <2>2. ReadString(n, s, p).pos \in (p + 1)..Len(s)
    BY <2>1, SizedString
  <2> QED BY <2>2
<1>2. CASE n <= 0 /\ At(s, p) = OPEN
  <2>1. Rec(s, p) \in Nat
    BY <1>2, RecIsPosition
  <2> QED BY <1>2, <2>1 DEF ReadString, Taken
<1>3. CASE n <= 0 /\ At(s, p) # OPEN
  <2> DEFINE start == RunEnd(s, p, 1..32)
             word == LETTERS \union {UNDERSCORE} \union IF n = -1 THEN {} ELSE DIGITS \union {SPACE}
             end == RunEnd(s, start, word)
  <2>1. start \in p..Len(s)
    <3>1. p \in Nat /\ p <= Len(s) /\ 0 \notin 1..32
      OBVIOUS
    <3> QED BY <3>1, RunEnds
  <2>2. 0 \notin word
    BY DEF LETTERS, UNDERSCORE, DIGITS, SPACE
  <2> HIDE DEF start, word
  <2>3. end \in start..Len(s)
    BY <2>1, <2>2, RunEnds
  <2>4. ReadString(n, s, p) = IF end = start THEN Failed(end) ELSE Taken(end, SubSeq(s, start + 1, end))
    BY <1>3 DEF ReadString, start, word
  <2> QED BY <2>1, <2>3, <2>4 DEF Failed, Taken
<1> QED BY <1>1, <1>2, <1>3

\* The parts of an integer (ReadInteger): blanks, a sign, zeros, digits.
Blanks(n, s, p)  == IF n > 0 THEN Least(RunEnd(s, p, {SPACE}), p + n) ELSE p
Signed(n, s, p)  == IF At(s, Blanks(n, s, p)) \in {43, 45} THEN Blanks(n, s, p) + 1 ELSE Blanks(n, s, p)
Zeros(n, s, p)   == IF n > 0 THEN Least(RunEnd(s, Signed(n, s, p), {48}), p + n + 1)
                             ELSE RunEnd(s, Signed(n, s, p), {48})
AllRead(n, s, p) == RunEnd(s, Zeros(n, s, p), DIGITS)
End(n, s, p)     == IF n > 0 /\ Zeros(n, s, p) < p + n THEN Least(AllRead(n, s, p), p + n) ELSE AllRead(n, s, p)

\* They are positions; up to the zeros' end there is nothing else.
LEMMA IntegerParts ==
  ASSUME NEW s \in Seq(Character), NEW p \in 0..(Len(s) - 1), NEW n \in Int
  PROVE  /\ Blanks(n, s, p) \in p..Len(s) /\ Signed(n, s, p) \in Blanks(n, s, p)..Len(s)
         /\ End(n, s, p) \in Nat /\ Zeros(n, s, p) \in Nat
         /\ n > 0 /\ Zeros(n, s, p) < p + n => End(n, s, p) <= p + n
         /\ n > 0 => \A q \in p..(Zeros(n, s, p) - 1) : At(s, q) \in {SPACE, 43, 45, 48}
<1> DEFINE b == Blanks(n, s, p)
           g == Signed(n, s, p)
           z == Zeros(n, s, p)
           a == AllRead(n, s, p)
           blanks == RunEnd(s, p, {SPACE})
           zeros == RunEnd(s, g, {48})
<1>0. Len(s) \in Nat /\ p \in Nat /\ p <= Len(s) /\ 0 \notin {SPACE} /\ 0 \notin {48} /\ 0 \notin DIGITS
  BY DEF SPACE, DIGITS
<1>1. blanks \in p..Len(s) /\ \A q \in p..(blanks - 1) : At(s, q) \in {SPACE}
  BY <1>0, RunEnds
<1>2. b = IF n > 0 THEN Least(blanks, p + n) ELSE p
  BY DEF Blanks
<1>3. g = IF At(s, b) \in {43, 45} THEN b + 1 ELSE b
  BY DEF Signed
<1>4. z = IF n > 0 THEN Least(zeros, p + n + 1) ELSE zeros
  BY DEF Zeros
<1>5. a = RunEnd(s, z, DIGITS) /\ End(n, s, p) = IF n > 0 /\ z < p + n THEN Least(a, p + n) ELSE a
  BY DEF AllRead, End
<1> HIDE DEF b, g, z, a, blanks
<1>6. b \in p..Len(s) /\ b <= blanks
  BY <1>0, <1>1, <1>2 DEF Least
<1>7. g \in b..Len(s)
  <2>1. b = Len(s) => At(s, b) = 0
    BY DEF At
  <2> QED BY <1>0, <1>3, <1>6, <2>1
<1>8. g \in Nat /\ g <= Len(s)
  BY <1>0, <1>6, <1>7
<1>9. zeros \in g..Len(s) /\ \A q \in g..(zeros - 1) : At(s, q) \in {48}
  BY <1>0, <1>8, RunEnds
<1> HIDE DEF zeros
<1>10. z \in Nat /\ z <= Len(s) /\ z <= zeros
  BY <1>0, <1>4, <1>8, <1>9 DEF Least
<1>11. a \in z..Len(s)
  BY <1>0, <1>5, <1>10, RunEnds
<1>12. End(n, s, p) \in Nat /\ (n > 0 /\ z < p + n => End(n, s, p) <= p + n)
  BY <1>0, <1>5, <1>10, <1>11 DEF Least
<1>13. ASSUME NEW q \in p..(z - 1) PROVE At(s, q) \in {SPACE, 43, 45, 48}
  <2>1. CASE q < b
    BY <1>0, <1>1, <1>6, <2>1
  <2>2. CASE q = b /\ b # g
    BY <1>3, <2>2
  <2>3. CASE q >= g
    <3>1. q \in g..(zeros - 1)
      BY <1>0, <1>8, <1>9, <1>10, <2>3
    <3> QED BY <1>9, <3>1
  <2>4. q < b \/ (q = b /\ b # g) \/ q >= g
    BY <1>0, <1>3, <1>6, <1>8
  <2> QED BY <2>1, <2>2, <2>3, <2>4
<1> QED BY <1>6, <1>7, <1>10, <1>12, <1>13 DEF b, g, z

\* What ReadInteger makes of its parts.
LEMMA IntegerRead ==
  ASSUME NEW s, NEW p, NEW n
  PROVE  LET r == ReadInteger(n, s, p) IN
         \/ r.error = TRUE /\ r.pos \in {Blanks(n, s, p), Signed(n, s, p), End(n, s, p)}
         \/ r.error = FALSE /\ r.pos = End(n, s, p) /\ ~(End(n, s, p) < p + n)
<1> DEFINE b == Blanks(n, s, p)
           g == Signed(n, s, p)
           e == End(n, s, p)
           v == Printed(At(s, b) = 45, SubSeq(s, g + 1, e))
<1>1. ReadInteger(n, s, p) =
         CASE n \in {0, b - p} -> NoInteger(b)
           [] n \notin {0, b - p} /\ n = g - p -> NoInteger(g)
           [] OTHER -> IF e = p \/ e < p + n THEN NoInteger(e) ELSE Taken(e, v)
  BY DEF ReadInteger, Blanks, Signed, Zeros, AllRead, End
<1>2. \A x : NoInteger(x).pos = x /\ NoInteger(x).error = TRUE
  BY DEF NoInteger, Failed
<1>3. Taken(e, v).pos = e /\ Taken(e, v).error = FALSE
  BY DEF Taken
<1> HIDE DEF b, g, e, v
<1>4. CASE n \in {0, b - p}
  BY <1>1, <1>2, <1>4 DEF b
<1>5. CASE n \notin {0, b - p} /\ n = g - p
  BY <1>1, <1>2, <1>5 DEF g
<1>6. CASE n \notin {0, b - p} /\ n # g - p
  BY <1>1, <1>2, <1>3, <1>6 DEF e
<1> QED BY <1>4, <1>5, <1>6

\* Every integer ends at a position.
LEMMA IntegerPosition ==
  ASSUME NEW s \in Seq(Character), NEW p \in 0..(Len(s) - 1), NEW n \in Int
  PROVE  ReadInteger(n, s, p).pos \in Nat
<1>1. /\ Blanks(n, s, p) \in p..Len(s) /\ Signed(n, s, p) \in Blanks(n, s, p)..Len(s)
      /\ End(n, s, p) \in Nat
  BY IntegerParts
<1>2. ReadInteger(n, s, p).pos \in {Blanks(n, s, p), Signed(n, s, p), End(n, s, p)}
  BY IntegerRead
<1> QED BY <1>1, <1>2

\* What an integer with a size takes, when it counts no error.
LEMMA SizedInteger ==
  ASSUME NEW s \in Seq(Character), NEW p \in 0..(Len(s) - 1), NEW n \in Nat \ {0}, ~ReadInteger(n, s, p).error
  PROVE  \/ ReadInteger(n, s, p).pos = p + n
         \/ ToSet(CopyText(s, p, n)) \cap NONZERO = {}
<1>1. ReadInteger(n, s, p).pos = End(n, s, p) /\ ~(End(n, s, p) < p + n)
  BY IntegerRead
<1>2. /\ End(n, s, p) \in Nat /\ Zeros(n, s, p) \in Nat
      /\ Zeros(n, s, p) < p + n => End(n, s, p) <= p + n
      /\ \A q \in p..(Zeros(n, s, p) - 1) : At(s, q) \in {SPACE, 43, 45, 48}
  <2>1. n \in Int /\ n > 0
    OBVIOUS
  <2> QED BY <2>1, IntegerParts
<1>3. CASE Zeros(n, s, p) < p + n
  BY <1>1, <1>2, <1>3
<1>4. CASE ~(Zeros(n, s, p) < p + n)
  <2>1. PICK q \in (p + 1)..Len(s) : /\ q <= p + n /\ Len(CopyText(s, p, n)) = q - p
                                     /\ \A k \in 1..(q - p) : CopyText(s, p, n)[k] = At(s, p + k - 1)
    BY CopyTextIs
  <2>2. ASSUME NEW k \in 1..(q - p) PROVE CopyText(s, p, n)[k] \notin NONZERO
    <3>1. p + k - 1 \in p..(Zeros(n, s, p) - 1)
      BY <1>2, <1>4, <2>1
    <3>2. At(s, p + k - 1) \in {SPACE, 43, 45, 48}
      BY <1>2, <3>1
    <3>3. CopyText(s, p, n)[k] = At(s, p + k - 1)
      BY <2>1
    <3>4. \A x \in {SPACE, 43, 45, 48} : x \notin NONZERO
      BY DEF NONZERO, SPACE
    <3> QED BY <3>2, <3>3, <3>4
  <2>3. CopyText(s, p, n) \in Seq(Character)
    BY CopyTextIs
  <2>4. DOMAIN CopyText(s, p, n) = 1..(q - p)
    BY <2>1, <2>3
  <2> QED BY <2>2, <2>4 DEF ToSet
<1> QED BY <1>3, <1>4

\* Every field ends at a position.
LEMMA FieldPosition ==
  ASSUME NEW s \in Seq(Character), NEW p \in 0..(Len(s) - 1), NEW f \in LeafField
  PROVE  ReadField(f, s, p).pos \in Nat
<1>0. /\ f.skip \in BOOLEAN /\ f.bound \in Int /\ p \in Nat /\ p + 1 \in Nat /\ p <= Len(s)
  BY DEF LeafField
<1>1. ReadString(f.bound, s, p).pos \in Nat /\ ReadInteger(f.bound, s, p).pos \in Nat
  BY <1>0, StringPosition, IntegerPosition
<1>2. ReadChar(f.chars, s, p).pos = p + 1
  BY DEF ReadChar, Taken, Failed
<1>3. Failed(p).pos = p
  BY DEF Failed
<1>4. ASSUME NEW chars, 0 \notin chars PROVE RunEnd(s, p, chars) \in p..Len(s)
  BY <1>0, <1>4, RunEnds
<1>5. /\ RunEnd(s, p, {SPACE}) \in Nat /\ RunEnd(s, p, {9}) \in Nat /\ RunEnd(s, p, NEWLINES) \in Nat
      /\ RunEnd(s, p, 32..127) \in p..Len(s)
  <2>1. 0 \notin {SPACE} /\ 0 \notin {9} /\ 0 \notin NEWLINES /\ 0 \notin 32..127
    BY DEF SPACE, NEWLINES
  <2>2. /\ RunEnd(s, p, {SPACE}) \in p..Len(s) /\ RunEnd(s, p, {9}) \in p..Len(s) /\ RunEnd(s, p, NEWLINES) \in p..Len(s)
        /\ RunEnd(s, p, 32..127) \in p..Len(s)
    BY <1>4, <2>1
  <2> QED BY <1>0, <2>2
<1>6. RunEnd(s, RunEnd(s, p, 32..127), NEWLINES) \in Nat
  <2> DEFINE q == RunEnd(s, p, 32..127)
  <2>1. q \in Nat /\ q <= Len(s) /\ 0 \notin NEWLINES
    BY <1>0, <1>5 DEF NEWLINES
  <2> HIDE DEF q
  <2>2. RunEnd(s, q, NEWLINES) \in q..Len(s)
    BY <2>1, RunEnds
  <2> QED BY <2>1, <2>2 DEF q
<1>7. \A q, v : Taken(q, v).pos = q
  BY DEF Taken
<1>8. SkipElement(f, s, p).pos \in Nat
  <2>1. CASE f.kind \in {"space", "tab", "return", "anything", "char"}
    BY <1>5, <1>6, <1>7, <2>1 DEF SkipElement
  <2>2. CASE f.kind \in {"string", "integer"}
    BY <1>1, <2>2 DEF SkipElement
  <2>3. CASE f.kind \notin {"space", "tab", "return", "anything", "char", "string", "integer"}
    BY <1>0, <1>3, <2>3 DEF SkipElement
  <2> QED BY <2>1, <2>2, <2>3
<1>9. CASE f.skip
  BY <1>8, <1>9 DEF ReadField
<1>10. CASE ~f.skip
  BY <1>0, <1>1, <1>2, <1>3, <1>10 DEF ReadField
<1> QED BY <1>9, <1>10

\* What a leaf takes whose value is the text it takes.
LEMMA PlainRead ==
  ASSUME NEW s \in Seq(Character), NEW p \in 0..(Len(s) - 1), NEW f \in LeafField,
         ~f.skip, f.chars = {}, f.kind = "char" \/ (f.kind = "string" /\ f.bound > 0)
  PROVE  LET r == ReadField(f, s, p) IN r.pos \in (p + 1)..Len(s) /\ r.value = SubSeq(s, p + 1, r.pos)
<1>1. CASE f.kind = "char"
  <2>1. ReadField(f, s, p) = [pos |-> p + 1, value |-> <<At(s, p)>>, error |-> FALSE]
    BY <1>1 DEF ReadField, ReadChar, Taken
  <2>2. SubSeq(s, p + 1, p + 1) = <<At(s, p)>>
    <3>1. \A i \in (p + 1)..(p + 1) : s[i] \in Character
      OBVIOUS
    <3>2. /\ SubSeq(s, p + 1, p + 1) \in Seq(Character) /\ Len(SubSeq(s, p + 1, p + 1)) = 1
          /\ SubSeq(s, p + 1, p + 1)[1] = s[p + 1]
      BY <3>1, SubSeqProperties
    <3>3. At(s, p) = s[p + 1]
      BY DEF At
    <3>4. <<s[p + 1]>> \in Seq(Character)
      BY <3>1
    <3>5. \A i \in 1..Len(SubSeq(s, p + 1, p + 1)) : SubSeq(s, p + 1, p + 1)[i] = <<s[p + 1]>>[i]
      <4>1. \A i \in 1..1 : i = 1
        OBVIOUS
      <4> QED BY <3>2, <4>1
    <3>6. Len(SubSeq(s, p + 1, p + 1)) = Len(<<s[p + 1]>>)
      BY <3>2
    <3>7. SubSeq(s, p + 1, p + 1) = <<s[p + 1]>>
      BY <3>2, <3>4, <3>5, <3>6, SeqEqual
    <3> QED BY <3>3, <3>7
  <2>3. p + 1 \in (p + 1)..Len(s)
    OBVIOUS
  <2>4. ReadField(f, s, p).pos = p + 1 /\ ReadField(f, s, p).value = <<At(s, p)>>
    BY <2>1
  <2> QED BY <2>2, <2>3, <2>4
<1>2. CASE f.kind = "string" /\ f.bound > 0
  <2>1. f.bound \in Nat \ {0}
    BY <1>2 DEF LeafField
  <2>2. ReadField(f, s, p) = ReadString(f.bound, s, p)
    BY <1>2 DEF ReadField
  <2>3. /\ ReadString(f.bound, s, p).pos \in (p + 1)..Len(s)
        /\ ReadString(f.bound, s, p).value = SubSeq(s, p + 1, ReadString(f.bound, s, p).pos)
    BY <2>1, SizedString
  <2> QED BY <2>2, <2>3
<1> QED BY <1>1, <1>2

\* What a string or an integer with a size takes, when it counts no error.
LEMMA SizedRead ==
  ASSUME NEW s \in Seq(Character), NEW p \in 0..(Len(s) - 1), NEW f \in LeafField,
         f.kind \in {"string", "integer"}, f.bound > 0, ~ReadField(f, s, p).error
  PROVE  \/ ReadField(f, s, p).pos = p + f.bound
         \/ f.kind = "integer" /\ ToSet(CopyText(s, p, f.bound)) \cap NONZERO = {}
<1>1. f.bound \in Nat \ {0}
  BY DEF LeafField
<1>2. CASE f.kind = "string"
  <2>1. ReadField(f, s, p) = ReadString(f.bound, s, p)
    BY <1>2 DEF ReadField, SkipElement
  <2> QED BY <1>1, <2>1, SizedString
<1>3. CASE f.kind = "integer"
  <2>1. ReadField(f, s, p) = ReadInteger(f.bound, s, p)
    BY <1>3 DEF ReadField, SkipElement
  <2> QED BY <1>1, <1>3, <2>1, SizedInteger
<1> QED BY <1>2, <1>3

-----------------------------------------------------------------------------
(* Texts that follow one another.                                           *)

\* Flattening parts that follow one another gives the text from the first to the last.
LEMMA FlattenTexts ==
  ASSUME NEW s \in Seq(Character), NEW n \in Nat \ {0}, NEW b \in [1..n -> Nat], NEW e \in [1..n -> Nat],
         \A k \in 1..n : b[k] <= e[k] /\ e[k] <= Len(s),
         \A k \in 1..(n - 1) : e[k] = b[k + 1]
  PROVE  FlattenSeq([k \in 1..n |-> SubSeq(s, b[k] + 1, e[k])]) = SubSeq(s, b[1] + 1, e[n])
<1> DEFINE seqs == [k \in 1..n |-> SubSeq(s, b[k] + 1, e[k])]
           F(g) == [i \in 1..n |-> IF i = 1 THEN seqs[i] ELSE g[i - 1] \o seqs[i]]
           flat == CHOOSE g : g = F(g)
           whole == [k \in 1..n |-> SubSeq(s, b[1] + 1, e[k])]
<1>1. Len(seqs) = n /\ DOMAIN seqs = 1..n
  <2>1. seqs \in Seq(Seq(Character))
    <3>1. \A k \in 1..n : SubSeq(s, b[k] + 1, e[k]) \in Seq(Character)
      OBVIOUS
    <3> QED BY <3>1
  <2> QED BY <2>1
<1>2. FlattenSeq(seqs) = flat[n]
  <2>1. FlattenSeq(seqs) = (CHOOSE g : g = [i \in 1..Len(seqs) |-> IF i = 1 THEN seqs[i] ELSE g[i - 1] \o seqs[i]])[Len(seqs)]
    <3> HIDE DEF seqs
    <3> QED BY <1>1 DEF FlattenSeq
  <2> HIDE DEF seqs
  <2> QED BY <1>1, <2>1
<1>3. \A k \in 1..n : b[1] <= b[k]
  <2> DEFINE S == {k \in 1..n : b[1] > b[k]}
  <2> SUFFICES ASSUME NEW j \in 1..n, ~(b[1] <= b[j]) PROVE FALSE
    OBVIOUS
  <2>0. b[1] \in Nat /\ b[j] \in Nat
    OBVIOUS
  <2>1. S \in SUBSET Nat /\ j \in S
    BY <2>0
  <2>2. PICK x \in S : \A y \in S : x <= y
    BY <2>1, LeastNumber
  <2>3. x \in 1..n /\ b[1] > b[x] /\ x # 1
    BY <2>2
  <2>4. x - 1 \in 1..(n - 1) /\ x - 1 \in 1..n /\ x - 1 \notin S /\ (x - 1) + 1 = x
    BY <2>2, <2>3
  <2>5. b[1] <= b[x - 1]
    BY <2>4
  <2>6. b[x - 1] <= b[x]
    <3>1. b[x - 1] <= e[x - 1] /\ e[x - 1] = b[(x - 1) + 1]
      BY <2>4
    <3> QED BY <2>4, <3>1
  <2> QED BY <2>3, <2>4, <2>5, <2>6
<1>4. whole = F(whole)
  <2> SUFFICES ASSUME NEW i \in 1..n PROVE whole[i] = F(whole)[i]
    OBVIOUS
  <2>1. CASE i = 1
    BY <2>1
  <2>2. CASE i # 1
    <3>1. i - 1 \in 1..n /\ i - 1 \in 1..(n - 1) /\ (i - 1) + 1 = i
      BY <2>2
    <3>2. e[i - 1] = b[i] /\ b[1] <= b[i] /\ b[i] <= e[i] /\ e[i] <= Len(s)
      BY <1>3, <3>1
    <3>3. SubSeq(s, b[1] + 1, b[i]) \o SubSeq(s, b[i] + 1, e[i]) = SubSeq(s, b[1] + 1, e[i])
      <4>1. b[1] \in Nat /\ b[i] \in Nat /\ e[i] \in Nat /\ Len(s) \in Nat
        OBVIOUS
      <4>2. b[1] + 1 \in 1..(Len(s) + 1) /\ b[i] \in ((b[1] + 1) - 1)..Len(s) /\ e[i] \in b[i]..Len(s)
        BY <3>2, <4>1
      <4> QED BY <4>2, ConcatAdjacentSubSeq
    <3>4. whole[i - 1] = SubSeq(s, b[1] + 1, b[i])
      BY <3>1, <3>2
    <3> QED BY <2>2, <3>3, <3>4
  <2> QED BY <2>1, <2>2
<1> HIDE DEF seqs, whole
<1>5. flat = F(flat)
  BY <1>4
<1> HIDE DEF flat
<1>6. \A k \in 1..n : flat[k] = whole[k]
  <2> DEFINE S == {k \in 1..n : flat[k] # whole[k]}
  <2> SUFFICES ASSUME S # {} PROVE FALSE
    OBVIOUS
  <2>1. S \in SUBSET Nat
    OBVIOUS
  <2>2. PICK x \in S : \A y \in S : x <= y
    BY <2>1, LeastNumber
  <2>3. x \in 1..n /\ flat[x] # whole[x]
    BY <2>2
  <2>4. flat[x] = F(flat)[x] /\ whole[x] = F(whole)[x]
    BY <1>4, <1>5
  <2>5. x # 1 => x - 1 \in 1..n /\ x - 1 \notin S
    BY <2>2, <2>3
  <2>6. x # 1 => flat[x - 1] = whole[x - 1]
    BY <2>5
  <2> QED BY <2>3, <2>4, <2>6
<1>7. n \in 1..n
  OBVIOUS
<1> QED BY <1>2, <1>6, <1>7 DEF seqs, whole

-----------------------------------------------------------------------------
(* The invariant of a record.                                               *)

\* A leaf whose value is the text it took.
Plain(k) ==
    /\ ~leaves[k].skip /\ leaves[k].chars = {}
    /\ leaves[k].kind = "char" \/ (leaves[k].kind = "string" /\ leaves[k].bound > 0)

\* Where the field after k went on.
Until(k) == IF k + 1 < leaf THEN began[k + 1] ELSE pos

RecordInv ==
    phase \in {"fill", "print"} =>
        /\ DOMAIN data = DOMAIN leaves /\ began \in [DOMAIN leaves -> Nat \union {-1}]
        /\ \A k \in DOMAIN leaves : k >= leaf => began[k] = -1
        /\ \A k \in 1..(leaf - 1) :
              /\ began[k] \in Nat
              /\ Plain(k) => /\ began[k] <= Until(k) /\ Until(k) <= Len(input)
                             /\ data[k] = SubSeq(input, began[k] + 1, Until(k))

FilterInv == TypeInv /\ PlaceInv /\ SyntaxInv /\ SpansInv /\ RecordInv

\* The syntax has given the program a field to fill.
LEMMA EndPlace ==
  ASSUME TypeInv, PlaceInv, SyntaxInv, EndOfFormat
  PROVE  TypeInv' /\ PlaceInv' /\ SyntaxInv' /\ RecordInv'
<1>1. /\ UNCHANGED <<format, input, leaf, pos>> /\ phase' \in {"ended", "fill"} /\ (phase' = "fill" => input # <<>>)
      /\ leaves' \in Seq(LeafField) /\ named' \in Seq(NamedField) /\ Len(named') = Len(named)
      /\ data' = [k \in DOMAIN leaves' |-> <<>>] /\ began' = [k \in DOMAIN leaves' |-> -1]
  BY EndTypes
<1>2. phase = "define" /\ leaf = 1 /\ pos = 0 /\ named # <<>>
  BY DEF EndOfFormat, PlaceInv
<1>3. TypeInv'
  BY <1>1 DEF TypeInv
<1>4. phase' = "fill" => Len(leaves') >= 1
  <2> SUFFICES ASSUME phase' = "fill" PROVE Len(leaves') >= 1
    OBVIOUS
  <2>1. SpansInv'
    BY EndSpans
  <2>2. 1 \in DOMAIN named' /\ named'[1] \in NamedField
    BY <1>1, <1>2 DEF TypeInv
  <2>3. named'[1].from <= named'[1].to /\ named'[1].to <= Len(leaves')
    BY <2>1, <2>2 DEF SpansInv, Spans
  <2>4. named'[1].from \in Nat /\ named'[1].to \in Nat /\ named'[1].from >= 1
    <3>1. named'[1].from = TokensIn(format', "leaf", 1, named'[1].token) + 1 /\ named'[1].token \in Nat
      BY <2>1, <2>2 DEF SpansInv, Spans, NamedField
    <3>2. TokensIn(format', "leaf", 1, named'[1].token) \in Nat
      BY <3>1, TokensNext
    <3> QED BY <2>2, <3>1, <3>2 DEF NamedField
  <2>5. Len(leaves') \in Nat
    BY <1>1
  <2> QED BY <2>3, <2>4, <2>5
<1>5. PlaceInv'
  <2>1. Len(leaves') \in Nat /\ Len(input) \in Nat /\ (phase' = "fill" => 0 < Len(input))
    BY <1>1 DEF TypeInv
  <2>2. phase' = "fill" => leaves' # <<>>
    BY <1>1, <1>4
  <2> QED BY <1>1, <1>2, <1>4, <2>1, <2>2 DEF PlaceInv
<1>6. SyntaxInv'
  BY <1>1 DEF SyntaxInv
<1>7. RecordInv'
  BY <1>1, <1>2 DEF RecordInv
<1> QED BY <1>3, <1>5, <1>6, <1>7

\* Filling a field.
LEMMA FillStep ==
  ASSUME FilterInv, FillField
  PROVE  FilterInv'
<1> DEFINE r == ReadField(leaves[leaf], input, pos)
<1>1. /\ phase = "fill" /\ UNCHANGED <<format, input, at, separated, open, named, leaves>>
  BY DEF FillField, syntax
<1>2. /\ leaf \in 1..Len(leaves) /\ Len(leaves) \in Nat /\ DOMAIN leaves = 1..Len(leaves) /\ leaves[leaf] \in LeafField
      /\ pos \in 0..(Len(input) - 1) /\ Len(input) \in Nat /\ input \in Seq(Character)
  BY <1>1 DEF FilterInv, PlaceInv, TypeInv
<1>3. r.pos \in Nat
  BY <1>2, FieldPosition
<1>4. \/ phase' = "ended"
      \/ /\ pos' = r.pos /\ leaf' = leaf + 1
         /\ data' = IF leaves[leaf].skip THEN data ELSE [data EXCEPT ![leaf] = r.value]
         /\ began' = [began EXCEPT ![leaf] = pos]
         /\ phase' = IF leaf = Len(leaves) \/ r.pos >= Len(input) THEN "print" ELSE "fill"
  BY DEF FillField, TooMany
<1> HIDE DEF r
<1>5. phase' \in {"ended", "print", "fill"}
  BY <1>4
<1>6. TypeInv'
  BY <1>1 DEF FilterInv, TypeInv
<1>7. PlaceInv'
  <2>1. CASE phase' = "ended"
    BY <2>1 DEF PlaceInv
  <2>2. CASE phase' # "ended"
    <3>1. pos' = r.pos /\ leaf' = leaf + 1
      BY <1>4, <2>2
    <3>2. phase' = "fill" => leaf # Len(leaves) /\ ~(r.pos >= Len(input))
      BY <1>4, <2>2
    <3>3. leaf \in 1..Len(leaves) /\ Len(leaves) \in Nat /\ Len(input) \in Nat
      BY <1>2
    <3>4. leaf' \in 1..(Len(leaves) + 1) /\ pos' \in Nat
      BY <1>3, <3>1, <3>3
    <3>5. phase' = "fill" => leaf' <= Len(leaves) /\ pos' < Len(input)
      BY <1>3, <3>1, <3>2, <3>3
    <3>6. leaves # <<>>
      BY <1>1 DEF FilterInv, PlaceInv
    <3> QED BY <1>1, <1>5, <3>4, <3>5, <3>6 DEF PlaceInv
  <2> QED BY <2>1, <2>2
<1>8. SyntaxInv'
  BY <1>5 DEF SyntaxInv
<1>9. SpansInv'
  BY <1>1 DEF FilterInv, SpansInv, Spans, EndsEmpty
<1>10. RecordInv'
  <2>1. CASE phase' = "ended"
    BY <2>1 DEF RecordInv
  <2>2. CASE phase' # "ended"
    <3>1. /\ pos' = r.pos /\ leaf' = leaf + 1
          /\ data' = IF leaves[leaf].skip THEN data ELSE [data EXCEPT ![leaf] = r.value]
          /\ began' = [began EXCEPT ![leaf] = pos]
      BY <1>4, <2>2
    <3>2. /\ DOMAIN data = DOMAIN leaves /\ began \in [DOMAIN leaves -> Nat \union {-1}]
          /\ \A k \in DOMAIN leaves : k >= leaf => began[k] = -1
          /\ \A k \in 1..(leaf - 1) :
                /\ began[k] \in Nat
                /\ Plain(k) => /\ began[k] <= Until(k) /\ Until(k) <= Len(input)
                               /\ data[k] = SubSeq(input, began[k] + 1, Until(k))
      BY <1>1 DEF FilterInv, RecordInv
    <3>3. /\ DOMAIN data' = DOMAIN leaves /\ began' \in [DOMAIN leaves -> Nat \union {-1}] /\ began'[leaf] = pos
          /\ \A k \in DOMAIN leaves : k # leaf => began'[k] = began[k] /\ data'[k] = data[k]
      BY <1>2, <3>1, <3>2
    <3>4. \A k \in DOMAIN leaves : k >= leaf' => began'[k] = -1
      BY <1>2, <3>1, <3>2, <3>3
    <3>5. ASSUME NEW k \in 1..(leaf - 1) PROVE Until(k)' = Until(k)
      <4>1. k + 1 < leaf' /\ k + 1 \in DOMAIN leaves
        BY <1>2, <3>1
      <4>2. CASE k + 1 = leaf
        BY <3>3, <4>1, <4>2 DEF Until
      <4>3. CASE k + 1 # leaf
        BY <1>2, <3>3, <4>1, <4>3 DEF Until
      <4> QED BY <4>2, <4>3
    <3>6. \A k \in DOMAIN leaves : Plain(k)' <=> Plain(k)
      BY <1>1 DEF Plain
    <3>7. ASSUME NEW k \in 1..(leaf - 1)
          PROVE  /\ began'[k] \in Nat
                 /\ Plain(k)' => /\ began'[k] <= Until(k)' /\ Until(k)' <= Len(input)
                                 /\ data'[k] = SubSeq(input, began'[k] + 1, Until(k)')
      <4>1. k \in DOMAIN leaves /\ k # leaf
        BY <1>2
      <4> QED BY <3>2, <3>3, <3>5, <3>6, <4>1
    <3>8. /\ began'[leaf] \in Nat
          /\ Plain(leaf) => /\ began'[leaf] <= pos' /\ pos' <= Len(input)
                            /\ data'[leaf] = SubSeq(input, began'[leaf] + 1, pos')
      <4>1. ASSUME Plain(leaf) PROVE r.pos \in (pos + 1)..Len(input) /\ r.value = SubSeq(input, pos + 1, r.pos)
        BY <1>2, <4>1, PlainRead DEF Plain, r
      <4>2. Plain(leaf) => data'[leaf] = r.value
        BY <1>2, <3>1, <3>2 DEF Plain
      <4> QED BY <1>2, <1>3, <3>1, <3>3, <4>1, <4>2
    <3>9. ASSUME NEW k \in 1..(leaf' - 1)
          PROVE  /\ began'[k] \in Nat
                 /\ Plain(k)' => /\ began'[k] <= Until(k)' /\ Until(k)' <= Len(input)
                                 /\ data'[k] = SubSeq(input, began'[k] + 1, Until(k)')
      <4>1. CASE k \in 1..(leaf - 1)
        BY <3>7, <4>1
      <4>2. CASE k = leaf
        <5>1. Until(k)' = pos'
          BY <1>2, <3>1, <4>2 DEF Until
        <5> QED BY <1>2, <3>6, <3>8, <4>2, <5>1
      <4> QED BY <1>2, <3>1, <4>1, <4>2
    <3> QED BY <1>1, <3>3, <3>4, <3>9 DEF RecordInv
  <2> QED BY <2>1, <2>2
<1> QED BY <1>6, <1>7, <1>8, <1>9, <1>10 DEF FilterInv

\* An item of the output syntax changes no field.
LEMMA ParseStep ==
  ASSUME FilterInv, ParseOutput
  PROVE  FilterInv'
<1>1. /\ phase = "print" /\ phase' \in {"print", "ended"}
      /\ UNCHANGED <<format, input, at, separated, open, named, leaves, leaf, pos, data, began>>
  BY DEF ParseOutput, TooMany, Bailing, syntax
<1>2. TypeInv' /\ SyntaxInv' /\ SpansInv'
  BY <1>1 DEF FilterInv, TypeInv, SyntaxInv, SpansInv, Spans, EndsEmpty
<1>3. PlaceInv' /\ RecordInv'
  <2>1. CASE phase' = "ended"
    BY <2>1 DEF PlaceInv, RecordInv
  <2>2. CASE phase' = phase
    BY <1>1, <2>2 DEF FilterInv, PlaceInv, RecordInv, Plain, Until
  <2> QED BY <1>1, <2>1, <2>2
<1> QED BY <1>2, <1>3 DEF FilterInv

\* Printing a record.
LEMMA PrintStep ==
  ASSUME FilterInv, PrintRecord
  PROVE  FilterInv'
<1>1. /\ phase = "print" /\ UNCHANGED <<format, input, at, separated, open, named, leaves, pos, data>>
      /\ leaf' = 1 /\ began' = [k \in DOMAIN leaves |-> -1]
      /\ phase' = IF pos >= Len(input) THEN "ended" ELSE "fill"
  BY DEF PrintRecord, syntax
<1>2. phase' \in {"ended", "fill"}
  BY <1>1
<1>3. /\ Len(leaves) \in Nat /\ DOMAIN leaves = 1..Len(leaves) /\ pos \in Nat /\ Len(input) \in Nat
      /\ DOMAIN data = DOMAIN leaves
  BY <1>1 DEF FilterInv, TypeInv, PlaceInv, RecordInv
<1>4. TypeInv' /\ SyntaxInv' /\ SpansInv'
  BY <1>1, <1>2 DEF FilterInv, TypeInv, SyntaxInv, SpansInv, Spans, EndsEmpty
<1>5. PlaceInv' /\ RecordInv'
  <2>1. CASE phase' = "ended"
    BY <2>1 DEF PlaceInv, RecordInv
  <2>2. CASE phase' = "fill"
    <3>1. leaf' = 1 /\ began' = [k \in DOMAIN leaves |-> -1] /\ pos < Len(input)
      BY <1>1, <1>3, <2>2
    <3>2. Len(leaves) >= 1
      BY <1>1, <1>3 DEF FilterInv, PlaceInv, TypeInv
    <3>3. PlaceInv'
      BY <1>1, <1>3, <2>2, <3>1, <3>2 DEF PlaceInv
    <3>4. RecordInv'
      BY <1>1, <1>3, <3>1 DEF RecordInv
    <3> QED BY <3>3, <3>4
  <2> QED BY <1>2, <2>1, <2>2
<1> QED BY <1>4, <1>5 DEF FilterInv

\* Every step keeps the invariant.
LEMMA FilterInvNext ==
  ASSUME FilterInv, [Next]_vars
  PROVE  FilterInv'
<1>1. CASE ReadStaleField \/ ReadNamedField \/ ReadBar \/ ReadComma
  <2>1. phase = "define" /\ phase' = "define"
    BY <1>1 DEF ReadStaleField, ReadNamedField, ReadBar, ReadComma, Reading
  <2>2. TypeInv /\ PlaceInv /\ BeginsInv /\ ClosedInv /\ OpenInv /\ EmptyInv
    BY <2>1 DEF FilterInv, SyntaxInv
  <2>3. TypeInv' /\ PlaceInv'
    BY <1>1, <2>2, SyntaxTypes
  <2>4. BeginsInv' /\ ClosedInv' /\ OpenInv' /\ EmptyInv'
    BY <1>1, <2>2, SyntaxLeaf, SyntaxName, SyntaxBar, SyntaxComma
  <2> QED BY <2>1, <2>3, <2>4 DEF FilterInv, SyntaxInv, SpansInv, RecordInv
<1>2. CASE SyntaxError
  <2>1. phase = "define" /\ phase' = "ended"
    BY <1>2 DEF SyntaxError, Reading
  <2>2. TypeInv' /\ PlaceInv'
    BY <1>2, <2>1, SyntaxTypes DEF FilterInv, SyntaxInv
  <2> QED BY <2>1, <2>2 DEF FilterInv, SyntaxInv, SpansInv, RecordInv
<1>3. CASE EndOfFormat
  BY <1>3, EndPlace, EndSpans DEF FilterInv
<1>4. CASE FillField
  BY <1>4, FillStep
<1>5. CASE PrintRecord
  BY <1>5, PrintStep
<1>6. CASE ParseOutput
  BY <1>6, ParseStep
<1>7. CASE UNCHANGED vars
  <2>1. UNCHANGED <<format, input, phase, at, separated, open, named, leaves, leaf, pos, data, began>>
    BY <1>7 DEF vars
  <2> QED BY <2>1 DEF FilterInv, TypeInv, PlaceInv, SyntaxInv, BeginsInv, ClosedInv, OpenInv, EmptyInv, SpansInv,
                      Spans, EndsEmpty, RecordInv, Plain, Until
<1> QED BY <1>1, <1>2, <1>3, <1>4, <1>5, <1>6, <1>7 DEF Next

\* It holds when the program begins.
LEMMA FilterInvInit == Init => FilterInv
<1> SUFFICES ASSUME Init PROVE FilterInv
  OBVIOUS
<1> DEFINE first == [name |-> Expression, from |-> 1, to |-> 0, token |-> 0]
<1>1. /\ format \in Formats /\ input \in Inputs /\ phase = "define" /\ at = 1 /\ separated = TRUE
      /\ open = <<1>> /\ named = <<first>> /\ leaves = <<>> /\ leaf = 1 /\ pos = 0
  BY DEF Init
<1>2. first \in NamedField
  BY DEF NamedField
<1>3. /\ DOMAIN named = 1..1 /\ Len(named) = 1 /\ named[1] = first /\ Len(leaves) = 0
      /\ DOMAIN open = 1..1 /\ Len(open) = 1 /\ open[1] = 1
  BY <1>1
<1>4. first.from = 1 /\ first.token = 0
  OBVIOUS
<1>5. TypeInv
  <2>1. format \in Seq(SyntaxToken) /\ input \in Seq(Character)
    BY <1>1, FilterAssumption DEF Character
  <2> HIDE DEF first
  <2> QED BY <1>1, <1>2, <2>1 DEF TypeInv
<1> HIDE DEF first
<1>6. PlaceInv
  BY <1>1, <1>5 DEF PlaceInv, TypeInv
<1>7. TokensIn(format, "leaf", 1, 0) = 0
  BY TokensNext
<1>8. BeginsInv
  <2>1. \A k \in 1..1 : k = 1
    OBVIOUS
  <2> QED BY <1>1, <1>3, <1>4, <1>7, <2>1 DEF BeginsInv
<1>9. ClosedInv
  BY <1>1, <1>3 DEF ClosedInv, ToSet
<1>10. OpenInv
  <2>1. \A p \in 1..1 : p = 1
    OBVIOUS
  <2>2. Balance(format, 0, 0, 0)
    BY BalanceNone
  <2> QED BY <1>1, <1>3, <1>4, <2>1, <2>2 DEF OpenInv
<1>11. EmptyInv
  BY <1>1, <1>3, <1>4 DEF EmptyInv
<1> QED BY <1>1, <1>5, <1>6, <1>8, <1>9, <1>10, <1>11 DEF FilterInv, SyntaxInv, SpansInv, RecordInv

-----------------------------------------------------------------------------
(* Theorems.                                                                *)

\* FilterInv is an invariant.
LEMMA FilterInvAlways == Spec => []FilterInv
<1>1. Init => FilterInv
  BY FilterInvInit
<1>2. FilterInv /\ [Next]_vars => FilterInv'
  BY FilterInvNext
<1> QED BY <1>1, <1>2, PTL DEF Spec

\* A named field of an accepted syntax is made of the elementary fields between its = and the
\* comma that balances it (ReadNamedField), however names are nested, and of one leaf at least.
THEOREM NamedFieldsAreSpans == Spec => []FieldsAreSpans
<1>1. FilterInv => FieldsAreSpans
  <2> SUFFICES ASSUME FilterInv, phase \in {"fill", "print"}, NEW f \in ToSet(named)
               PROVE  /\ f.from = Tokens("leaf", 1, f.token) + 1
                      /\ f.to = Tokens("leaf", 1, ClosedAt(f.token) - 1)
                                + (IF EndsEmpty /\ ClosedAt(f.token) > Len(format) THEN 1 ELSE 0)
                      /\ f.to <= Len(leaves)
    BY DEF FieldsAreSpans
  <2>1. PICK k \in DOMAIN named : f = named[k]
    BY DEF ToSet
  <2>2. Spans(f)
    BY <2>1 DEF FilterInv, SpansInv
  <2>3. \A t, i, j : Tokens(t, i, j) = TokensIn(format, t, i, j)
    BY DEF Tokens, TokensIn
  <2>4. \A i : ClosedAt(i) = ClosedIn(format, i)
    BY DEF ClosedAt, ClosedIn, Unbalanced, Tokens, TokensIn
  <2> QED BY <2>2, <2>3, <2>4 DEF Spans
<1> QED BY <1>1, FilterInvAlways, PTL

\* The value printed for a named field whose parts were all read in this record, and are
\* neither skipped, numbers nor words, is the input between where the field began and where
\* reading went on after it (FillField, AsString).
THEOREM ValuesAreTheirText == Spec => []ValueIsItsText
<1>1. FilterInv => ValueIsItsText
  <2> SUFFICES ASSUME FilterInv, phase = "print", NEW f \in ToSet(named),
                      \A k \in f.from..f.to :
                         /\ began[k] # -1 /\ ~leaves[k].skip
                         /\ leaves[k].kind = "char" \/ (leaves[k].kind = "string" /\ leaves[k].bound > 0)
                         /\ leaves[k].chars = {}
               PROVE  AsString(f) = SubSeq(input, began[f.from] + 1, IF f.to + 1 < leaf THEN began[f.to + 1] ELSE pos)
    BY DEF ValueIsItsText
  <2>1. PICK j \in DOMAIN named : f = named[j]
    BY DEF ToSet
  <2>2. /\ f.from \in Nat \ {0} /\ f.to \in Nat /\ f.from <= f.to /\ f.to <= Len(leaves)
        /\ Len(leaves) \in Nat /\ DOMAIN leaves = 1..Len(leaves) /\ leaf \in Nat
        /\ input \in Seq(Character)
    <3>1. Spans(f) /\ f \in NamedField
      BY <2>1 DEF FilterInv, SpansInv, TypeInv
    <3>2. TokensIn(format, "leaf", 1, f.token) \in Nat
      BY <3>1, TokensNext DEF NamedField
    <3>3. f.from \in Nat \ {0} /\ f.to \in Nat /\ f.from <= f.to /\ f.to <= Len(leaves)
      BY <3>1, <3>2 DEF Spans, NamedField
    <3>4. leaves \in Seq(LeafField) /\ input \in Seq(Character) /\ leaf \in Nat
      BY DEF FilterInv, TypeInv, PlaceInv
    <3> QED BY <3>3, <3>4
  <2> DEFINE n == f.to - f.from + 1
             b == [k \in 1..n |-> began[f.from + k - 1]]
             e == [k \in 1..n |-> Until(f.from + k - 1)]
  <2>3. n \in Nat \ {0} /\ \A k \in 1..n : f.from + k - 1 \in f.from..f.to
    BY <2>2
  <2>4. ASSUME NEW k \in f.from..f.to
        PROVE  /\ k < leaf /\ LeafText(k) = data[k] /\ began[k] \in Nat
               /\ began[k] <= Until(k) /\ Until(k) <= Len(input)
               /\ data[k] = SubSeq(input, began[k] + 1, Until(k))
    <3>1. k \in DOMAIN leaves /\ Plain(k) /\ began[k] # -1 /\ ~leaves[k].skip
      BY <2>2 DEF Plain
    <3>2. k < leaf
      BY <2>2, <3>1 DEF FilterInv, RecordInv
    <3>3. k \in 1..(leaf - 1)
      BY <2>2, <3>1, <3>2
    <3> QED BY <3>1, <3>2, <3>3 DEF FilterInv, RecordInv, LeafText
  <2>5. \A k \in f.from..f.to : Until(k) \in Nat
    <3> SUFFICES ASSUME NEW k \in f.from..f.to PROVE Until(k) \in Nat
      OBVIOUS
    <3>1. CASE k + 1 < leaf
      <4>1. k + 1 \in 1..(leaf - 1)
        BY <2>2, <3>1
      <4> QED BY <3>1, <4>1 DEF FilterInv, RecordInv, Until
    <3>2. CASE ~(k + 1 < leaf)
      BY <3>2 DEF FilterInv, PlaceInv, Until
    <3> QED BY <3>1, <3>2
  <2>6. \A k \in f.from..(f.to - 1) : Until(k) = began[k + 1]
    <3> SUFFICES ASSUME NEW k \in f.from..(f.to - 1) PROVE Until(k) = began[k + 1]
      OBVIOUS
    <3>1. k + 1 \in f.from..f.to
      BY <2>2
    <3> QED BY <2>4, <3>1 DEF Until
  <2>7. /\ b \in [1..n -> Nat] /\ e \in [1..n -> Nat]
        /\ \A k \in 1..n : b[k] <= e[k] /\ e[k] <= Len(input)
    BY <2>3, <2>4, <2>5
  <2>8. \A k \in 1..(n - 1) : e[k] = b[k + 1]
    <3> SUFFICES ASSUME NEW k \in 1..(n - 1) PROVE e[k] = b[k + 1]
      OBVIOUS
    <3>1. /\ f.from + k - 1 \in f.from..(f.to - 1) /\ k \in 1..n /\ k + 1 \in 1..n
          /\ (f.from + k - 1) + 1 = f.from + (k + 1) - 1
      BY <2>2
    <3> QED BY <2>6, <3>1
  <2>9. /\ [k \in 1..n |-> LeafText(f.from + k - 1)] = [k \in 1..n |-> SubSeq(input, b[k] + 1, e[k])]
        /\ b[1] = began[f.from] /\ e[n] = Until(f.to)
    <3>1. 1 \in 1..n /\ n \in 1..n /\ f.from + 1 - 1 = f.from /\ f.from + n - 1 = f.to
      BY <2>2
    <3> QED BY <2>3, <2>4, <3>1
  <2> HIDE DEF b, e
  <2>10. FlattenSeq([k \in 1..n |-> SubSeq(input, b[k] + 1, e[k])]) = SubSeq(input, b[1] + 1, e[n])
    BY <2>2, <2>3, <2>7, <2>8, FlattenTexts
  <2> QED BY <2>9, <2>10 DEF AsString, Until
<1> QED BY <1>1, FilterInvAlways, PTL

\* A field with a size takes just that many characters when it reports no error, but for
\* an integer whose characters are blanks, a sign and zeros (ReadString, ReadInteger).
THEOREM FieldsTakeTheirSize == Spec => TakesItsSize
<1>1. ASSUME FilterInv, [Next]_vars, phase = "fill", leaves[leaf].kind \in {"string", "integer"},
             leaves[leaf].bound > 0, errors' # errors + 1, phase' # "ended"
      PROVE  \/ UNCHANGED vars
             \/ pos' = pos + leaves[leaf].bound
             \/ leaves[leaf].kind = "integer" /\ ToSet(CopyText(input, pos, leaves[leaf].bound)) \cap NONZERO = {}
  <2>1. CASE UNCHANGED vars
    BY <2>1
  <2>2. CASE FillField
    <3> DEFINE r == ReadField(leaves[leaf], input, pos)
    <3>1. pos' = r.pos /\ errors' = errors + Count(r.error)
      BY <1>1, <2>2 DEF FillField, TooMany, Bailing
    <3>2. ~r.error
      BY <1>1, <3>1 DEF Count
    <3>3. leaves[leaf] \in LeafField /\ pos \in 0..(Len(input) - 1) /\ input \in Seq(Character)
      BY <1>1 DEF FilterInv, PlaceInv, TypeInv
    <3> QED BY <1>1, <3>1, <3>2, <3>3, SizedRead
  <2>3. ~(ReadStaleField \/ ReadNamedField \/ ReadBar \/ ReadComma \/ SyntaxError \/ EndOfFormat \/ ParseOutput \/ PrintRecord)
    BY <1>1 DEF ReadStaleField, ReadNamedField, ReadBar, ReadComma, SyntaxError, EndOfFormat, ParseOutput, PrintRecord, Reading
  <2> QED BY <1>1, <2>1, <2>2, <2>3 DEF Next
<1>2. FilterInv /\ [Next]_vars => [phase = "fill" =>
        LET f == leaves[leaf] IN
        f.kind \in {"string", "integer"} /\ f.bound > 0 /\ errors' # errors + 1 /\ phase' # "ended" =>
            \/ pos' = pos + f.bound
            \/ f.kind = "integer" /\ ToSet(CopyText(input, pos, f.bound)) \cap NONZERO = {}]_vars
  BY <1>1
<1> QED BY <1>2, FilterInvAlways, PTL DEF Spec, TakesItsSize

=============================================================================
