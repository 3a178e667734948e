---------------------------- MODULE CStringProofs ----------------------------
(***************************************************************************)
(* Theorems about CString, for any set of variables, buffers and texts: the *)
(* counts cover the pointers, leaks have one cause, and sharing does not    *)
(* show.  Every call is one of a few moves of pointers: the lemmas are      *)
(* about the moves, and the last part goes through the calls.              *)
(***************************************************************************)
EXTENDS CString, TLAPS, FiniteSetTheorems

\* The variables other than v that point to b.
Others(v, b) == {u \in Var \ {v} : ics[u] = b}

\* Counts: that of EmptyICS may be anything.
Counts == {r \in [ICString -> Int] : \A b \in Buffer : r[b] >= 0}

\* "r" counts the other variables as exactly as refs counts them all.
Balanced(r, v) == /\ r \in Counts
                  /\ \A b \in ICString : r[b] - Cardinality(Others(v, b)) = Surplus(b)

EmptyIsEmpty == str[EmptyICS] = <<>>

IInv == TypeOK /\ CountsHandles /\ EmptyIsEmpty

\* What a move of v to the text t does: the invariant holds, v has the text, no other
\* variable is changed, and nothing leaks.
Becomes(v, t) == /\ IInv'
                 /\ t \in Text
                 /\ val' = [val EXCEPT ![v] = t]
                 /\ \A b \in Buffer : Surplus(b)' <= Surplus(b)

-----------------------------------------------------------------------------
(* Counting pointers.                                                       *)

\* Sets of variables are finite, so they have a size.
LEMMA HandlesFinite ==
  ASSUME NEW b, NEW v
  PROVE  /\ Handles(b) \subseteq Var /\ IsFiniteSet(Handles(b)) /\ Cardinality(Handles(b)) \in Nat
         /\ IsFiniteSet(Others(v, b)) /\ Cardinality(Others(v, b)) \in Nat
<1>1. IsFiniteSet(Var) BY CStringAssumption
<1>2. Handles(b) \in SUBSET Var /\ Others(v, b) \in SUBSET Var
  BY DEF Handles, Others
<1>3. IsFiniteSet(Handles(b)) /\ IsFiniteSet(Others(v, b))
  BY <1>1, <1>2, FS_Subset
<1> QED BY <1>2, <1>3, FS_CardinalityType

\* So how many variables point to a buffer is a number.
LEMMA HandlesCount ==
  ASSUME NEW b
  PROVE  Cardinality(Handles(b)) \in Nat
BY HandlesFinite

\* v is one of the variables that point to ics[v], and of no others.
LEMMA WithoutOne ==
  ASSUME TypeOK, NEW v \in Var, NEW b \in ICString
  PROVE  Cardinality(Others(v, b)) =
           IF ics[v] = b THEN Cardinality(Handles(b)) - 1 ELSE Cardinality(Handles(b))
<1>1. Others(v, b) = Handles(b) \ {v}
  BY DEF Others, Handles
<1>2. v \in Handles(b) <=> ics[v] = b
  BY DEF Handles
<1>3. IsFiniteSet(Handles(b)) BY HandlesFinite
<1> QED BY <1>1, <1>2, <1>3, FS_RemoveElement

\* A pointer counts: its buffer is not free.
LEMMA CountedOnce ==
  ASSUME IInv, NEW v \in Alive
  PROVE  /\ v \in Var /\ ics[v] \in ICString
         /\ ics[v] \in Buffer => refs[ics[v]] >= 1
<1>1. v \in Var /\ ics[v] \in ICString
  BY DEF Alive, IInv, TypeOK
<1>2. Cardinality(Others(v, ics[v])) = Cardinality(Handles(ics[v])) - 1
  BY <1>1, WithoutOne DEF IInv
<1>3. Cardinality(Handles(ics[v])) >= 1
  BY <1>1, <1>2, HandlesFinite
<1>4. refs[ics[v]] \in Int /\ Cardinality(Handles(ics[v])) \in Nat
  BY <1>1, HandlesFinite DEF IInv, TypeOK
<1> QED BY <1>1, <1>3, <1>4 DEF IInv, CountsHandles

\* Before v gives its pointer up it must exist; then the counts are balanced.
LEMMA GivenUp ==
  ASSUME IInv, NEW v \in Alive
  PROVE  Balanced(UnReg(refs, ics[v]), v)
<1> DEFINE r == UnReg(refs, ics[v])
<1>1. v \in Var /\ ics[v] \in ICString /\ (ics[v] \in Buffer => refs[ics[v]] >= 1)
  BY CountedOnce
<1>2. refs \in [ICString -> Int] /\ \A b \in Buffer : refs[b] >= 0 BY DEF IInv, TypeOK
<1>3. r \in Counts BY <1>1, <1>2 DEF UnReg, Counts, ICString
<1>4. ASSUME NEW b \in ICString PROVE r[b] - Cardinality(Others(v, b)) = Surplus(b)
  <2>1. r[b] = IF b = ics[v] THEN refs[b] - 1 ELSE refs[b]
    BY <1>1, <1>2 DEF UnReg
  <2>2. Cardinality(Handles(b)) \in Nat /\ refs[b] \in Int
    BY <1>2, HandlesFinite
  <2>3. Cardinality(Others(v, b)) =
           IF ics[v] = b THEN Cardinality(Handles(b)) - 1 ELSE Cardinality(Handles(b))
    BY <1>1, WithoutOne DEF IInv
  <2> QED BY <2>1, <2>2, <2>3 DEF Surplus
<1> QED BY <1>3, <1>4 DEF Balanced

\* A variable that does not exist has none to give up.
LEMMA NotYet ==
  ASSUME IInv, NEW v \in Var \ Alive
  PROVE  Balanced(refs, v)
<1>1. ics[v] \notin ICString
  BY CStringAssumption DEF Alive, ICString
<1>2. ASSUME NEW b \in ICString PROVE Cardinality(Others(v, b)) = Cardinality(Handles(b))
  BY <1>1, WithoutOne DEF IInv
<1>3. refs \in Counts BY DEF Counts, IInv, TypeOK
<1> QED BY <1>2, <1>3 DEF Balanced, Surplus

\* Another variable's buffer keeps a count, so it is not deleted and keeps its text.
LEMMA OthersKept ==
  ASSUME IInv, NEW v \in Var, NEW r, Balanced(r, v), NEW u \in Alive, u # v
  PROVE  /\ ics[u] \in ICString /\ ics[u] \notin Freed(r)
         /\ ics[u] \in Buffer => r[ics[u]] >= 1
<1>1. u \in Var /\ ics[u] \in ICString
  BY DEF Alive, IInv, TypeOK
<1>2. u \in Others(v, ics[u]) BY <1>1 DEF Others
<1>3. Cardinality(Others(v, ics[u])) >= 1
  <2>1. Cardinality(Others(v, ics[u])) # 0
    BY <1>2, HandlesFinite, FS_EmptySet
  <2> QED BY <2>1, HandlesFinite
<1>4. ASSUME ics[u] \in Buffer PROVE r[ics[u]] >= 1
  <2>1. refs[ics[u]] \in Int /\ Cardinality(Handles(ics[u])) \in Nat
        /\ Cardinality(Others(v, ics[u])) \in Nat
    BY <1>1, HandlesFinite DEF IInv, TypeOK
  <2>2. refs[ics[u]] >= Cardinality(Handles(ics[u]))
    BY <1>4 DEF IInv, CountsHandles
  <2>3. r[ics[u]] \in Int /\ r[ics[u]] - Cardinality(Others(v, ics[u])) = Surplus(ics[u])
    BY <1>1 DEF Balanced, Counts
  <2> QED BY <1>3, <2>1, <2>2, <2>3 DEF Surplus
<1> QED BY <1>1, <1>4 DEF Freed

-----------------------------------------------------------------------------
(* The moves of a pointer.                                                  *)

\* The invariant holds after a call that leaves every buffer counting as much too much
\* as before, or more.
LEMMA SurplusEnough ==
  ASSUME IInv,
         ics' \in [Var -> ICString \cup {NoICS}], refs' \in Counts,
         str' \in [ICString -> Text], str'[EmptyICS] = <<>>, ICSHandleDeleted' \in BOOLEAN,
         \A b \in ICString : Surplus(b)' >= Surplus(b)
  PROVE  IInv'
<1>1. TypeOK' BY DEF TypeOK, Counts
<1>2. ASSUME NEW b \in ICString
      PROVE  /\ refs[b] \in Int /\ refs'[b] \in Int
             /\ Cardinality(Handles(b)) \in Nat /\ Cardinality(Handles(b)') \in Nat
             /\ refs'[b] - Cardinality(Handles(b)') >= refs[b] - Cardinality(Handles(b))
  <2>1. Handles(b)' \in SUBSET Var BY DEF Handles
  <2>2. Cardinality(Handles(b)') \in Nat
    BY <2>1, CStringAssumption, FS_Subset, FS_CardinalityType
  <2>3. Surplus(b)' >= Surplus(b) OBVIOUS
  <2> QED BY <2>2, <2>3, HandlesFinite DEF IInv, TypeOK, Surplus, Counts
<1>3. ASSUME NEW b \in Buffer PROVE refs'[b] >= Cardinality(Handles(b)')
  <2>1. b \in ICString /\ refs[b] >= Cardinality(Handles(b))
    BY DEF IInv, CountsHandles, ICString
  <2> QED BY <1>2, <2>1
<1>5. CountsHandles' BY <1>3 DEF CountsHandles
<1> QED BY <1>1, <1>5 DEF IInv, EmptyIsEmpty

\* A call that leaves pointers and counts alone.
LEMMA CountsUnchanged ==
  ASSUME IInv, ics' = ics, refs' = refs
  PROVE  CountsHandles' /\ \A b \in Buffer : Surplus(b)' = Surplus(b) /\ Surplus(b) \in Int
<1>1. ASSUME NEW b \in ICString
      PROVE  /\ Cardinality(Handles(b)') = Cardinality(Handles(b))
             /\ Surplus(b)' = Surplus(b) /\ Surplus(b) \in Int
  <2>1. Handles(b)' = Handles(b) BY DEF Handles
  <2>2. Surplus(b)' = Surplus(b) BY <2>1 DEF Surplus
  <2>3. Surplus(b) \in Int BY HandlesFinite DEF Surplus, IInv, TypeOK
  <2> QED BY <2>1, <2>2, <2>3
<1>2. ASSUME NEW b \in Buffer PROVE refs'[b] >= Cardinality(Handles(b)')
  BY <1>1 DEF IInv, CountsHandles, ICString
<1>4. CountsHandles' BY <1>2 DEF CountsHandles
<1> QED BY <1>1, <1>4 DEF ICString

\* What a balance says of the counts that follow.
LEMMA SurplusOf ==
  ASSUME IInv, NEW v \in Var, NEW r, Balanced(r, v), NEW b \in ICString, NEW d \in {0, 1},
         refs'[b] = r[b] + d, Cardinality(Handles(b)') = Cardinality(Others(v, b)) + d
  PROVE  Surplus(b)' = Surplus(b) /\ Surplus(b) \in Int
<1>1. r[b] - Cardinality(Others(v, b)) = Surplus(b) /\ r[b] \in Int
  BY DEF Balanced, Counts
<1>2. Cardinality(Others(v, b)) \in Nat BY HandlesFinite
<1>3. Surplus(b)' = refs'[b] - Cardinality(Handles(b)') BY DEF Surplus
<1> QED BY <1>1, <1>2, <1>3

\* Wherever v's pointer goes, counting it there restores the invariant, and every
\* buffer counts as much too much as before.
LEMMA CountedMove ==
  ASSUME IInv, NEW v \in Var, NEW r, Balanced(r, v), NEW c \in ICString,
         ics' = [ics EXCEPT ![v] = c],
         refs' = [r EXCEPT ![c] = r[c] + 1],
         str' \in [ICString -> Text], str'[EmptyICS] = <<>>,
         ICSHandleDeleted' = ICSHandleDeleted
  PROVE  IInv' /\ \A b \in ICString : Surplus(b)' = Surplus(b)
<1>1. r \in [ICString -> Int] /\ r \in Counts BY DEF Balanced, Counts
<1>2. ics' \in [Var -> ICString \cup {NoICS}] /\ ics \in [Var -> ICString \cup {NoICS}]
  BY DEF IInv, TypeOK
<1>3. ASSUME NEW b \in ICString
      PROVE  Surplus(b)' = Surplus(b) /\ Surplus(b) \in Int
  <2>1. Handles(b)' = IF b = c THEN Others(v, b) \cup {v} ELSE Others(v, b)
    BY <1>2 DEF Handles, Others
  <2>2. v \notin Others(v, b) BY DEF Others
  <2>3. IsFiniteSet(Others(v, b)) /\ Cardinality(Others(v, b)) \in Nat
    BY HandlesFinite
  <2>4. Cardinality(Handles(b)') = Cardinality(Others(v, b)) + (IF b = c THEN 1 ELSE 0)
    <3>1. Cardinality(Others(v, b) \cup {v}) = Cardinality(Others(v, b)) + 1
      BY <2>2, <2>3, FS_AddElement
    <3> QED BY <2>1, <2>3, <3>1
  <2>5. refs'[b] = r[b] + (IF b = c THEN 1 ELSE 0)
    BY <1>1
  <2> QED BY <2>4, <2>5, SurplusOf
<1>4. refs' \in Counts /\ ICSHandleDeleted' \in BOOLEAN
  BY <1>1 DEF IInv, TypeOK, Counts, ICString
<1>5. \A b \in ICString : Surplus(b)' >= Surplus(b)
  BY <1>3
<1> QED BY <1>2, <1>3, <1>4, <1>5, SurplusEnough

\* The texts of the other variables stay when their buffers do.
LEMMA OthersRead ==
  ASSUME IInv, NEW v \in Var, NEW c \in ICString,
         ics' = [ics EXCEPT ![v] = c],
         \A u \in Alive \ {v} : str'[ics[u]] = str[ics[u]]
  PROVE  val' = [val EXCEPT ![v] = str'[c]]
<1>1. ics \in [Var -> ICString \cup {NoICS}] /\ NoICS \notin ICString
  BY CStringAssumption DEF IInv, TypeOK, ICString
<1>2. ASSUME NEW u \in Var
      PROVE  (IF ics'[u] = NoICS THEN NoText ELSE str'[ics'[u]]) =
             IF u = v THEN str'[c] ELSE IF ics[u] = NoICS THEN NoText ELSE str[ics[u]]
  BY <1>1 DEF Alive
<1>3. val' = [u \in Var |-> IF u = v THEN str'[c]
                             ELSE IF ics[u] = NoICS THEN NoText ELSE str[ics[u]]]
  BY <1>2 DEF val, text
<1>4. val = [u \in Var |-> IF ics[u] = NoICS THEN NoText ELSE str[ics[u]]]
  BY DEF val, text
<1> QED BY <1>3, <1>4

\* A new buffer.
LEMMA NewMove ==
  ASSUME IInv, NEW v \in Var, NEW r, Balanced(r, v), NEW t, NewICS(v, t, r),
         ICSHandleDeleted' = ICSHandleDeleted
  PROVE  Becomes(v, t)
<1>1. PICK b \in Freed(r) : /\ ics' = [ics EXCEPT ![v] = b]
                            /\ refs' = [r EXCEPT ![b] = 1]
                            /\ str' = [Kept(r) EXCEPT ![b] = t]
  BY DEF NewICS
<1>2. b \in Buffer /\ b \in ICString /\ r[b] = 0 /\ b # EmptyICS
  BY CStringAssumption DEF Freed, ICString
<1>3. t \in Text /\ <<>> \in Text
  BY CStringAssumption DEF NewICS
<1>4. Kept(r) \in [ICString -> Text]
  BY <1>3 DEF Kept, IInv, TypeOK
<1>5. str' \in [ICString -> Text] /\ str'[EmptyICS] = <<>> /\ str'[b] = t
  BY <1>1, <1>2, <1>3, <1>4, CStringAssumption DEF Kept, IInv, EmptyIsEmpty, ICString, Freed
<1>6. refs' = [r EXCEPT ![b] = r[b] + 1]
  BY <1>1, <1>2
<1>7. IInv' /\ \A x \in ICString : Surplus(x)' = Surplus(x)
  BY <1>1, <1>2, <1>5, <1>6, CountedMove
<1>8. ASSUME NEW u \in Alive \ {v} PROVE str'[ics[u]] = str[ics[u]]
  <2>1. ics[u] \in ICString /\ ics[u] \notin Freed(r)
    BY OthersKept
  <2>2. ics[u] # b
    BY <1>2, <2>1
  <2> QED BY <1>1, <1>4, <2>1, <2>2 DEF Kept
<1>9. val' = [val EXCEPT ![v] = t]
  BY <1>1, <1>2, <1>5, <1>8, OthersRead
<1>10. \A x \in Buffer : Surplus(x)' <= Surplus(x)
  <2>1. ASSUME NEW x \in Buffer PROVE Surplus(x) \in Int /\ x \in ICString
    BY HandlesFinite DEF Surplus, IInv, TypeOK, ICString
  <2> QED BY <1>7, <2>1
<1> QED BY <1>3, <1>7, <1>9, <1>10 DEF Becomes

\* A buffer that another variable, or EmptyICS itself, keeps in use.
LEMMA PointMove ==
  ASSUME IInv, NEW v \in Var, NEW r, Balanced(r, v), NEW b \in ICString, Point(v, b, r),
         b \in Buffer => r[b] >= 1, ICSHandleDeleted' = ICSHandleDeleted
  PROVE  Becomes(v, str[b])
<1>1. r \in [ICString -> Int] /\ r \in Counts BY DEF Balanced, Counts
<1>2. refs' = [r EXCEPT ![b] = r[b] + 1]
  BY DEF Point, Reg
<1>3. Freed(refs') = Freed(r)
  BY <1>1, <1>2 DEF Freed, ICString, Counts
<1>4. str' = [x \in ICString |-> IF x \in Freed(r) THEN <<>> ELSE str[x]]
  BY <1>3 DEF Point, Kept
<1>5. str' \in [ICString -> Text] /\ str'[EmptyICS] = <<>>
  BY <1>4, CStringAssumption DEF IInv, TypeOK, EmptyIsEmpty, ICString
<1>6. ics' = [ics EXCEPT ![v] = b] BY DEF Point
<1>7. IInv' /\ \A x \in ICString : Surplus(x)' = Surplus(x)
  BY <1>2, <1>5, <1>6, CountedMove
<1>8. ASSUME NEW u \in Alive \ {v} PROVE str'[ics[u]] = str[ics[u]]
  <2>1. ics[u] \in ICString /\ ics[u] \notin Freed(r)
    BY OthersKept
  <2> QED BY <1>4, <2>1
<1>9. str'[b] = str[b] /\ str[b] \in Text
  BY <1>4, <1>1 DEF Freed, IInv, TypeOK
<1>10. val' = [val EXCEPT ![v] = str[b]]
  BY <1>6, <1>8, <1>9, OthersRead
<1>11. \A x \in Buffer : Surplus(x)' <= Surplus(x)
  <2>1. ASSUME NEW x \in Buffer PROVE Surplus(x) \in Int /\ x \in ICString
    BY HandlesFinite DEF Surplus, IInv, TypeOK, ICString
  <2> QED BY <1>7, <2>1
<1> QED BY <1>7, <1>9, <1>10, <1>11 DEF Becomes

-----------------------------------------------------------------------------
(* The moves a call is made of.                                             *)

\* UnReg, then new.
LEMMA RebuildMove ==
  ASSUME IInv, NEW v \in Alive, NEW t, Rebuild(v, t), ICSHandleDeleted' = ICSHandleDeleted
  PROVE  Becomes(v, t)
BY CountedOnce, GivenUp, NewMove DEF Rebuild

\* Nothing at all.
LEMMA SkipMove ==
  ASSUME IInv, NEW v \in Alive, Skip, ICSHandleDeleted' = ICSHandleDeleted
  PROVE  Becomes(v, text(v))
<1>1. v \in Var /\ ics[v] \in ICString /\ ics[v] # NoICS
  BY CountedOnce DEF Alive
<1>2. IInv' /\ \A b \in Buffer : Surplus(b)' = Surplus(b) /\ Surplus(b) \in Int
  BY CountsUnchanged DEF Skip, IInv, TypeOK, EmptyIsEmpty
<1>3. val' = val /\ val[v] = text(v) /\ text(v) \in Text
  BY <1>1 DEF Skip, val, text, IInv, TypeOK
<1>4. val = [val EXCEPT ![v] = text(v)]
  BY <1>1, <1>3 DEF val
<1> QED BY <1>2, <1>3, <1>4 DEF Becomes

\* UnReg, then a buffer in use.
LEMMA RepointMove ==
  ASSUME IInv, NEW v \in Alive, NEW b \in ICString, Repoint(v, b),
         b = EmptyICS \/ \E w \in Alive : ics[w] = b /\ w # v,
         ICSHandleDeleted' = ICSHandleDeleted
  PROVE  Becomes(v, str[b])
<1> DEFINE r == UnReg(refs, ics[v])
<1>1. v \in Var /\ Balanced(r, v) BY CountedOnce, GivenUp
<1>2. b \in Buffer => r[b] >= 1
  BY <1>1, OthersKept, CStringAssumption
<1> QED BY <1>1, <1>2, PointMove DEF Repoint

\* Free, and the empty end of StrDelete.
LEMMA FreeMove ==
  ASSUME IInv, NEW v \in Alive, Free(v), ICSHandleDeleted' = ICSHandleDeleted
  PROVE  Becomes(v, <<>>)
<1>1. str[EmptyICS] = <<>> /\ EmptyICS \in ICString
  BY DEF IInv, EmptyIsEmpty, ICString
<1>2. CASE ics[v] = EmptyICS
  BY <1>1, <1>2, SkipMove DEF Free, text
<1>3. CASE ics[v] # EmptyICS
  BY <1>1, <1>3, RepointMove DEF Free
<1> QED BY <1>2, <1>3

\* ICSCopy and a write in place: an unshared buffer has no other reader.  EmptyICS may
\* count as unshared and have readers, but it has no character to write.
LEMMA WriteMove ==
  ASSUME IInv, NEW v \in Alive, NEW t, Write(v, t), text(v) # <<>>,
         ICSHandleDeleted' = ICSHandleDeleted
  PROVE  Becomes(v, t)
<1>1. /\ v \in Var /\ ics[v] \in ICString /\ (ics[v] \in Buffer => refs[ics[v]] >= 1)
      /\ ics[v] # EmptyICS /\ ics[v] \in Buffer
  <2>1. ics[v] # EmptyICS BY DEF IInv, EmptyIsEmpty, text
  <2> QED BY <2>1, CountedOnce DEF ICString
<1>2. CASE refs[ics[v]] > 1
  BY <1>2, RebuildMove DEF Write
<1>3. CASE ~(refs[ics[v]] > 1)
  <2>1. t \in Text /\ str' = [str EXCEPT ![ics[v]] = t] /\ ics' = ics /\ refs' = refs
    BY <1>3 DEF Write
  <2>3. TypeOK' /\ EmptyIsEmpty'
    BY <1>1, <2>1 DEF IInv, TypeOK, EmptyIsEmpty
  <2>4. CountsHandles' /\ \A b \in Buffer : Surplus(b)' = Surplus(b) /\ Surplus(b) \in Int
    BY <2>1, CountsUnchanged
  <2>5. ASSUME NEW u \in Alive \ {v} PROVE str'[ics[u]] = str[ics[u]]
    <3>1. ics[u] \in ICString BY CountedOnce
    <3>2. Balanced(UnReg(refs, ics[v]), v) BY GivenUp
    <3>3. ics[u] \in Buffer => UnReg(refs, ics[v])[ics[u]] >= 1
      BY <1>1, <3>2, OthersKept
    <3>4. ics[u] # ics[v]
      <4>1. refs \in [ICString -> Int] BY DEF IInv, TypeOK
      <4> QED BY <1>1, <1>3, <3>1, <3>3, <4>1 DEF UnReg
    <3> QED BY <2>1, <3>1, <3>4 DEF IInv, TypeOK
  <2>6. ics' = [ics EXCEPT ![v] = ics[v]] /\ str'[ics[v]] = t
    BY <1>1, <2>1 DEF IInv, TypeOK
  <2>7. val' = [val EXCEPT ![v] = t]
    BY <1>1, <2>5, <2>6, OthersRead
  <2> QED BY <2>1, <2>3, <2>4, <2>7 DEF Becomes, IInv
<1> QED BY <1>2, <1>3

\* The destructor; once EmptyICS is gone it leaves the counts alone.
LEMMA DestroyMove ==
  ASSUME IInv, NEW v \in Alive, Destroy(v), ICSHandleDeleted' = ICSHandleDeleted
  PROVE  /\ IInv'
         /\ val' = [val EXCEPT ![v] = NoText]
         /\ ~ICSHandleDeleted => \A b \in Buffer : Surplus(b)' <= Surplus(b)
<1> DEFINE r == UnReg(refs, ics[v])
<1>1. v \in Var /\ Balanced(r, v) /\ r \in [ICString -> Int] /\ r \in Counts
  BY CountedOnce, GivenUp DEF Balanced, Counts
<1>2. /\ ics \in [Var -> ICString \cup {NoICS}] /\ ics' = [ics EXCEPT ![v] = NoICS]
      /\ NoICS \notin ICString
  BY CStringAssumption DEF Destroy, IInv, TypeOK, ICString
<1>3. ASSUME NEW b \in ICString PROVE Handles(b)' = Others(v, b)
  BY <1>2 DEF Handles, Others
<1>4. refs' \in Counts /\ (ICSHandleDeleted => refs' = refs /\ str' = str)
      /\ (~ICSHandleDeleted => refs' = r /\ str' = Kept(r))
  BY <1>1 DEF Destroy, IInv, TypeOK, Counts
<1>5. str' \in [ICString -> Text] /\ str'[EmptyICS] = <<>>
  BY <1>4, CStringAssumption DEF Kept, Freed, IInv, TypeOK, EmptyIsEmpty, ICString
<1>6. ASSUME NEW b \in ICString
      PROVE  /\ Surplus(b)' >= Surplus(b) /\ Surplus(b) \in Int
             /\ ~ICSHandleDeleted => Surplus(b)' = Surplus(b)
  <2>1. Cardinality(Handles(b)') = Cardinality(Others(v, b)) BY <1>3
  <2>2. Surplus(b)' = refs'[b] - Cardinality(Handles(b)') BY DEF Surplus
  <2>3. Cardinality(Handles(b)) \in Nat /\ Cardinality(Others(v, b)) \in Nat
    BY HandlesFinite
  <2>4. CASE ~ICSHandleDeleted
    <3>1. r[b] - Cardinality(Others(v, b)) = Surplus(b) /\ r[b] \in Int
      BY <1>1 DEF Balanced
    <3> QED BY <1>4, <2>1, <2>2, <2>3, <2>4, <3>1
  <2>5. CASE ICSHandleDeleted
    <3>1. Cardinality(Others(v, b)) <= Cardinality(Handles(b))
      BY <1>1, <2>3, WithoutOne DEF IInv
    <3>2. refs[b] \in Int /\ Surplus(b) = refs[b] - Cardinality(Handles(b))
      BY DEF Surplus, IInv, TypeOK
    <3> QED BY <1>4, <2>1, <2>2, <2>3, <2>5, <3>1, <3>2
  <2> QED BY <2>4, <2>5
<1>7. IInv'
  <2>1. ics' \in [Var -> ICString \cup {NoICS}] /\ ICSHandleDeleted' \in BOOLEAN
    BY <1>2 DEF IInv, TypeOK
  <2>2. \A b \in ICString : Surplus(b)' >= Surplus(b) BY <1>6
  <2> QED BY <1>4, <1>5, <2>1, <2>2, SurplusEnough
<1>8. ~ICSHandleDeleted => \A b \in Buffer : Surplus(b)' <= Surplus(b)
  BY <1>6 DEF ICString
<1>9. val' = [val EXCEPT ![v] = NoText]
  <2>1. ASSUME NEW u \in Var
        PROVE  (IF ics'[u] = NoICS THEN NoText ELSE str'[ics'[u]]) =
               IF u = v THEN NoText ELSE IF ics[u] = NoICS THEN NoText ELSE str[ics[u]]
    <3>1. CASE u \in Alive \ {v}
      <4>1. ics[u] \in ICString /\ ics[u] \notin Freed(r)
        BY <1>1, <3>1, OthersKept
      <4>2. str'[ics[u]] = str[ics[u]]
        BY <1>4, <4>1 DEF Kept
      <4> QED BY <1>2, <3>1, <4>2
    <3>2. CASE u \notin Alive \ {v}
      BY <1>2, <3>2 DEF Alive
    <3> QED BY <3>1, <3>2
  <2>2. val' = [u \in Var |-> IF u = v THEN NoText
                              ELSE IF ics[u] = NoICS THEN NoText ELSE str[ics[u]]]
    BY <2>1 DEF val, text
  <2>3. val = [u \in Var |-> IF ics[u] = NoICS THEN NoText ELSE str[ics[u]]]
    BY DEF val, text
  <2> QED BY <2>2, <2>3
<1> QED BY <1>7, <1>8, <1>9

\* Flush: w takes v's pointer with its count, v takes EmptyICS.
LEMMA FlushMove ==
  ASSUME IInv, NEW v \in Alive, NEW w \in Alive, Flush(v, w),
         ICSHandleDeleted' = ICSHandleDeleted
  PROVE  /\ IInv'
         /\ val' = [val EXCEPT ![w] = val[v], ![v] = <<>>]
         /\ \A b \in Buffer : Surplus(b)' <= Surplus(b)
<1> DEFINE r == UnReg(refs, ics[w])
<1>1. /\ v \in Var /\ w \in Var /\ ics[v] \in ICString /\ ics[w] \in ICString
      /\ Balanced(r, w) /\ r \in [ICString -> Int] /\ r \in Counts
  BY CountedOnce, GivenUp DEF Balanced, Counts
<1>2. EmptyICS \in ICString /\ str[EmptyICS] = <<>> /\ NoICS \notin ICString
  BY CStringAssumption DEF ICString, IInv, EmptyIsEmpty
<1>3. ics \in [Var -> ICString \cup {NoICS}] /\ val \in [Var -> Text \cup {NoText}]
  BY DEF IInv, TypeOK, val, text
<1>4. CASE v = w
  <2>1. Repoint(v, EmptyICS)
    BY <1>4 DEF Flush, Repoint, Point
  <2>2. Becomes(v, <<>>)
    BY <1>2, <2>1, RepointMove
  <2>3. [val EXCEPT ![w] = val[v], ![v] = <<>>] = [val EXCEPT ![v] = <<>>]
    BY <1>1, <1>3, <1>4
  <2> QED BY <2>2, <2>3 DEF Becomes
<1>5. CASE v # w
  <2>1. ics' = [ics EXCEPT ![w] = ics[v], ![v] = EmptyICS]
        /\ refs' = [r EXCEPT ![EmptyICS] = r[EmptyICS] + 1]
    BY DEF Flush, Reg
  <2>2. ASSUME NEW b \in ICString
        PROVE  Surplus(b)' = Surplus(b) /\ Surplus(b) \in Int
    <3> DEFINE O == Others(w, b)
    <3>1. IsFiniteSet(O) /\ Cardinality(O) \in Nat /\ w \notin O
          /\ (v \in O <=> ics[v] = b)
      BY <1>1, <1>5, HandlesFinite DEF Others
    <3>2. Handles(b)' = {u \in Var : ics'[u] = b} /\ O = {u \in Var \ {w} : ics[u] = b}
      BY DEF Handles, Others
    <3>3. Cardinality(Handles(b)') = Cardinality(O) + (IF b = EmptyICS THEN 1 ELSE 0)
      <4>1. CASE ics[v] = EmptyICS
        <5>1. Handles(b)' = IF b = EmptyICS THEN O \cup {w} ELSE O
          BY <1>1, <1>3, <1>5, <2>1, <3>2, <4>1
        <5>2. Cardinality(O \cup {w}) = Cardinality(O) + 1
          BY <3>1, FS_AddElement
        <5> QED BY <3>1, <5>1, <5>2
      <4>2. CASE ics[v] # EmptyICS /\ b = ics[v]
        <5>1. Handles(b)' = (O \ {v}) \cup {w}
          BY <1>1, <1>3, <1>5, <2>1, <3>2, <4>2
        <5>2. IsFiniteSet(O \ {v}) /\ Cardinality(O \ {v}) = Cardinality(O) - 1
          BY <3>1, <4>2, FS_RemoveElement
        <5>3. Cardinality((O \ {v}) \cup {w}) = Cardinality(O \ {v}) + 1
          BY <3>1, <5>2, FS_AddElement
        <5> QED BY <3>1, <4>2, <5>1, <5>2, <5>3
      <4>3. CASE ics[v] # EmptyICS /\ b # ics[v]
        <5>1. Handles(b)' = IF b = EmptyICS THEN O \cup {v} ELSE O
          BY <1>1, <1>3, <1>5, <2>1, <3>2, <4>3
        <5>2. Cardinality(O \cup {v}) = Cardinality(O) + 1
          BY <3>1, <4>3, FS_AddElement
        <5> QED BY <3>1, <5>1, <5>2
      <4> QED BY <4>1, <4>2, <4>3
    <3>4. refs'[b] = r[b] + (IF b = EmptyICS THEN 1 ELSE 0)
      BY <1>1, <2>1
    <3> QED BY <1>1, <3>3, <3>4, SurplusOf
  <2>3. Freed(refs') = Freed(r)
    BY <1>1, <2>1, CStringAssumption DEF Freed, ICString
  <2>4. str' = [b \in ICString |-> IF b \in Freed(r) THEN <<>> ELSE str[b]]
    BY <2>3 DEF Flush, Kept
  <2>5. str' \in [ICString -> Text] /\ str'[EmptyICS] = <<>>
    BY <1>2, <2>4, CStringAssumption DEF IInv, TypeOK, Freed
  <2>6. IInv'
    <3>1. ics' \in [Var -> ICString \cup {NoICS}]
      BY <1>1, <1>2, <1>3, <2>1
    <3>2. refs' \in Counts /\ ICSHandleDeleted' \in BOOLEAN
      <4>1. refs' \in [ICString -> Int]
        BY <1>1, <1>2, <2>1
      <4>2. ASSUME NEW b \in Buffer PROVE refs'[b] >= 0
        <5>1. b \in ICString /\ b # EmptyICS BY CStringAssumption DEF ICString
        <5>2. refs'[b] = r[b] BY <1>1, <2>1, <5>1
        <5> QED BY <1>1, <5>2 DEF Counts
      <4> QED BY <4>1, <4>2 DEF Counts, IInv, TypeOK
    <3>3. \A b \in ICString : Surplus(b)' >= Surplus(b) BY <2>2
    <3> QED BY <2>5, <3>1, <3>2, <3>3, SurplusEnough
  <2>7. ASSUME NEW u \in Alive \ {w} PROVE str'[ics[u]] = str[ics[u]]
    <3>1. ics[u] \in ICString /\ ics[u] \notin Freed(r)
      BY <1>1, OthersKept
    <3> QED BY <2>4, <3>1
  <2>8. ASSUME NEW u \in Var
        PROVE  (IF ics'[u] = NoICS THEN NoText ELSE str'[ics'[u]]) =
               IF u = v THEN <<>> ELSE IF u = w THEN str[ics[v]]
               ELSE IF ics[u] = NoICS THEN NoText ELSE str[ics[u]]
    <3>1. CASE u = v
      BY <1>1, <1>2, <1>3, <2>1, <2>5, <3>1
    <3>2. CASE u = w
      BY <1>1, <1>2, <1>3, <1>5, <2>1, <2>7, <3>2
    <3>3. CASE u # v /\ u # w
      BY <1>1, <1>2, <1>3, <2>1, <2>7, <3>3 DEF Alive
    <3> QED BY <3>1, <3>2, <3>3
  <2>9. val' = [u \in Var |-> IF u = v THEN <<>> ELSE IF u = w THEN str[ics[v]]
                              ELSE IF ics[u] = NoICS THEN NoText ELSE str[ics[u]]]
    BY <2>8 DEF val, text
  <2>10. val = [u \in Var |-> IF ics[u] = NoICS THEN NoText ELSE str[ics[u]]]
         /\ val[v] = str[ics[v]]
    BY <1>1, <1>2 DEF val, text
  <2>11. val' = [val EXCEPT ![w] = val[v], ![v] = <<>>]
    BY <1>1, <1>5, <2>9, <2>10
  <2>12. \A b \in Buffer : Surplus(b)' <= Surplus(b)
    BY <2>2 DEF ICString
  <2> QED BY <2>6, <2>11, <2>12
<1> QED BY <1>4, <1>5

-----------------------------------------------------------------------------
(* The calls, and what CStringValues says of them.                          *)

\* The two modules mean the same by the text of a variable and by the operations on
\* texts.
LEMMA SameTexts ==
  /\ \A s, a, n : Values!CopyText(s, a, n) = CopyText(s, a, n)
  /\ \A s, p, t : Values!InsertText(s, p, t) = InsertText(s, p, t)
  /\ \A s, a, n : Values!DeleteText(s, a, n) = DeleteText(s, a, n)
  /\ \A s : Values!Around(s) = Around(s)
  /\ Values!Blank = Blank
BY DEF Values!CopyText, CopyText, Values!InsertText, InsertText, Values!DeleteText, DeleteText,
       Values!Around, Around, Values!Blank, Blank, Values!SPACE, SPACE, Values!Least, Least

\* They mean the same by trimming, ...
LEMMA SameTrims ==
  /\ \A s, l, r : Values!TrimRight(s, l, r) = TrimRight(s, l, r)
  /\ \A s, l, r : Values!TrimLeft(s, l, r) = TrimLeft(s, l, r)
  /\ \A s, l, r : Values!Trim(s, l, r) = Trim(s, l, r)
<1>1. /\ \A P : Values!Greatest(P) = Greatest(P)
      /\ \A P, x : Values!First(P, x) = First(P, x)
  BY DEF Values!Greatest, Greatest, Values!First, First
<1>2. \A s, l, r : Values!TrimRight(s, l, r) = TrimRight(s, l, r)
  BY <1>1, SameTexts DEF Values!TrimRight, TrimRight
<1>3. \A s, l, r : Values!TrimLeft(s, l, r) = TrimLeft(s, l, r)
  BY <1>1, SameTexts DEF Values!TrimLeft, TrimLeft
<1> QED BY <1>2, <1>3 DEF Values!Trim, Trim

\* ... by the slashes at the ends, ...
LEMMA SameSlashes ==
  /\ Values!SLASH = SLASH /\ Values!SLASHES = SLASHES
  /\ \A s, c, p : Values!Pos(s, c, p) = Pos(s, c, p)
<1>1. \A P, x : Values!First(P, x) = First(P, x)
  BY DEF Values!First, First
<1> QED BY <1>1 DEF Values!SLASH, SLASH, Values!SLASHES, SLASHES, Values!Pos, Pos,
                    Values!Positions, Positions

\* ... and by replacing letters.
LEMMA SameLetters ==
  \A s : /\ Values!UpText(s) = UpText(s)
         /\ Values!LowerText(s) = LowerText(s)
         /\ Values!PlusToSpace(s) = PlusToSpace(s)
         /\ Values!UnderscoreClean(s) = UnderscoreClean(s)
         /\ Values!UnderscoreDirt(s) = UnderscoreDirt(s)
BY DEF Values!UpText, UpText, Values!LowerText, LowerText, Values!PlusToSpace, PlusToSpace,
       Values!UnderscoreClean, UnderscoreClean, Values!UnderscoreDirt, UnderscoreDirt,
       Values!Mapped, Mapped, Values!SPACE, SPACE, Values!PLUS, PLUS,
       Values!UNDERSCORE, UNDERSCORE

\* A variable exists when it has a text.
LEMMA ValOf ==
  ASSUME IInv
  PROVE  /\ Values!Alive = Alive
         /\ val \in [Var -> Text \cup {NoText}]
         /\ \A v \in Alive : v \in Var /\ val[v] = text(v) /\ text(v) \in Text
<1>1. ASSUME NEW v \in Var PROVE ics[v] # NoICS => str[ics[v]] \in Text
  BY DEF IInv, TypeOK
<1>2. \A v \in Var : val[v] = IF ics[v] = NoICS THEN NoText ELSE str[ics[v]]
  BY DEF val, text
<1>3. val \in [Var -> Text \cup {NoText}]
  BY <1>1 DEF val, text
<1>4. Values!Alive = Alive
  BY <1>1, <1>2, CStringAssumption DEF Values!Alive, Alive
<1> QED BY <1>1, <1>2, <1>3, <1>4 DEF Alive, text

\* What every step is shown to do.
Allowed == IInv' /\ [Values!Next]_<<val, call>> /\ LeakExplained

\* The call c gave v the text t, as CStringValues has it.
Told(c, v, t) == IInv' /\ LeakExplained /\ Values!Gives(c, v, t)

\* A call after which no buffer counts more too much than before explains itself.
LEMMA NoLeak ==
  ASSUME IInv, IInv', \A b \in Buffer : Surplus(b)' <= Surplus(b)
  PROVE  LeakExplained
<1>1. ASSUME NEW b \in Buffer PROVE ~(Surplus(b)' > Surplus(b))
  <2>1. Surplus(b)' <= Surplus(b) OBVIOUS
  <2>2. Surplus(b) \in Int BY HandlesCount DEF Surplus, IInv, TypeOK, ICString
  <2>3. Surplus(b)' \in Int
    <3>1. refs'[b] \in Nat BY DEF IInv, TypeOK, ICString
    <3>2. Handles(b)' \in SUBSET Var BY DEF Handles
    <3>3. Cardinality(Handles(b)') \in Nat
      BY <3>2, CStringAssumption, FS_Subset, FS_CardinalityType
    <3> QED BY <3>1, <3>3 DEF Surplus
  <2> QED BY <2>1, <2>2, <2>3
<1> QED BY <1>1 DEF LeakExplained

\* A move is what its call promises, ...
LEMMA Tells ==
  ASSUME IInv, NEW v, NEW t, Becomes(v, t), NEW c, call' = c
  PROVE  Told(c, v, t)
BY NoLeak DEF Becomes, Told, Values!Gives

\* ... and so is a call that changes nothing: Assign of a variable to itself, a StrDelete
\* of nothing.
LEMMA Skips ==
  ASSUME IInv, NEW v \in Alive, Skip, ICSHandleDeleted' = ICSHandleDeleted, NEW c, call' = c
  PROVE  Told(c, v, text(v))
BY SkipMove, Tells

\* The third branch of operator=: the buffer is counted once more.
LEMMA CountsTwice ==
  ASSUME IInv, NEW b \in ICString, refs' = Reg(refs, b), ics' = ics, str' = str,
         ICSHandleDeleted' = ICSHandleDeleted,
         b = EmptyICS \/ \E v, w \in Handles(b) : v # w
  PROVE  IInv' /\ val' = val /\ LeakExplained
<1>1. refs \in [ICString -> Int] /\ \A x \in Buffer : refs[x] >= 0 BY DEF IInv, TypeOK
<1>2. ASSUME NEW x \in ICString
      PROVE  /\ Surplus(x)' = Surplus(x) + (IF x = b THEN 1 ELSE 0)
             /\ Surplus(x) \in Int
  <2>1. Handles(x)' = Handles(x) BY DEF Handles
  <2>2. refs'[x] = refs[x] + (IF x = b THEN 1 ELSE 0) BY <1>1 DEF Reg
  <2>3. refs[x] \in Int /\ Cardinality(Handles(x)) \in Nat BY <1>1, HandlesFinite
  <2>4. Surplus(x)' = refs'[x] - Cardinality(Handles(x)') /\ Surplus(x) = refs[x] - Cardinality(Handles(x))
    BY DEF Surplus
  <2> QED BY <2>1, <2>2, <2>3, <2>4
<1>3. IInv'
  <2>1. \A x \in ICString : Surplus(x)' >= Surplus(x) BY <1>2
  <2>2. refs' \in Counts BY <1>1 DEF Reg, Counts, ICString
  <2>3. /\ ics' \in [Var -> ICString \cup {NoICS}] /\ str' \in [ICString -> Text]
        /\ str'[EmptyICS] = <<>> /\ ICSHandleDeleted' \in BOOLEAN
    BY DEF IInv, TypeOK, EmptyIsEmpty
  <2> QED BY <2>1, <2>2, <2>3, SurplusEnough
<1>4. val' = val
  <2>1. \A u : ics'[u] = ics[u] /\ str'[ics'[u]] = str[ics[u]] OBVIOUS
  <2> QED BY <2>1 DEF val, text
<1>5. LeakExplained
  <2>1. ASSUME NEW x \in Buffer, Surplus(x)' > Surplus(x)
        PROVE  \E v, w \in Handles(x) : v # w
    <3>1. x = b /\ x # EmptyICS
      BY <1>2, <2>1, CStringAssumption DEF ICString
    <3> QED BY <3>1
  <2> QED BY <2>1 DEF LeakExplained
<1> QED BY <1>3, <1>4, <1>5

\* The constructors.
LEMMA Creates ==
  ASSUME IInv, NEW v \in Var \ Alive, Create(v), ICSHandleDeleted' = ICSHandleDeleted
  PROVE  IInv' /\ LeakExplained /\ Values!Create(v)
<1>1. Balanced(refs, v) BY NotYet
<1>2. EmptyICS \in ICString /\ str[EmptyICS] = <<>> /\ EmptyICS \notin Buffer
  BY CStringAssumption DEF ICString, IInv, EmptyIsEmpty
<1>3. ASSUME NEW t \in Word, Construct(v, t), call' = <<"Construct", v, t>>
      PROVE  IInv' /\ LeakExplained /\ Values!Create(v)
  <2>1. Becomes(v, t)
    <3>1. CASE t # <<>>
      BY <1>1, <1>3, <3>1, NewMove DEF Construct
    <3>2. CASE t = <<>>
      BY <1>1, <1>2, <1>3, <3>2, PointMove DEF Construct
    <3> QED BY <3>1, <3>2
  <2>2. Told(<<"Construct", v, t>>, v, t) BY <1>3, <2>1, Tells
  <2> QED BY <2>2 DEF Told, Values!Create, Values!Construct
<1>4. ASSUME NEW w \in Alive, ConstructCopy(v, w), call' = <<"ConstructCopy", v, w>>
      PROVE  IInv' /\ LeakExplained /\ Values!Create(v)
  <2>1. ics[w] \in ICString /\ (ics[w] \in Buffer => refs[ics[w]] >= 1) BY CountedOnce
  <2>2. Becomes(v, str[ics[w]])
    BY <1>1, <1>4, <2>1, PointMove DEF ConstructCopy
  <2>3. Told(<<"ConstructCopy", v, w>>, v, str[ics[w]]) BY <1>4, <2>2, Tells
  <2>4. str[ics[w]] = val[w] /\ w \in Values!Alive BY ValOf DEF text
  <2> QED BY <2>3, <2>4 DEF Told, Values!Create, Values!ConstructCopy
<1> QED BY <1>3, <1>4 DEF Create

\* operator= given a pointer.
LEMMA AssignsICS ==
  ASSUME IInv, NEW v \in Alive, NEW b \in ICString, NEW same \in BOOLEAN,
         AssignICS(v, b, same), ICSHandleDeleted' = ICSHandleDeleted,
         b = EmptyICS \/ \E w \in Alive : ics[w] = b /\ (v = w => same),
         NEW c, call' = c
  PROVE  Told(c, v, str[b])
<1>1. CASE ics[v] # b
  BY <1>1, RepointMove, Tells DEF AssignICS
<1>2. CASE ics[v] = b /\ same
  BY <1>2, Skips DEF AssignICS, text
<1>3. CASE ics[v] = b /\ ~same
  <2>1. refs' = Reg(refs, b) /\ ics' = ics /\ str' = str
    BY <1>3 DEF AssignICS
  <2>2. b = EmptyICS \/ \E u, w \in Handles(b) : u # w
    BY <1>3 DEF Handles, Alive
  <2>3. IInv' /\ val' = val /\ LeakExplained BY <2>1, <2>2, CountsTwice
  <2>4. val = [val EXCEPT ![v] = str[b]] BY <1>3, ValOf DEF text
  <2> QED BY <2>3, <2>4 DEF Told, Values!Gives
<1> QED BY <1>1, <1>2, <1>3

\* The calls that give v another text.
LEMMA Reassigns ==
  ASSUME IInv, NEW v \in Alive, Reassign(v), ICSHandleDeleted' = ICSHandleDeleted
  PROVE  IInv' /\ LeakExplained /\ Values!Reassign(v)
<1> DEFINE Right == IInv' /\ LeakExplained /\ Values!Reassign(v)
<1>1. EmptyICS \in ICString /\ str[EmptyICS] = <<>>
  BY CStringAssumption DEF ICString, IInv, EmptyIsEmpty
<1>2. ASSUME NEW t \in Word, AssignChars(v, t), call' = <<"AssignChars", v, t>> PROVE Right
  <2>1. Becomes(v, t)
    <3>1. CASE t # <<>>
      BY <1>2, <3>1, RebuildMove DEF AssignChars
    <3>2. CASE t = <<>>
      BY <1>1, <1>2, <3>2, RepointMove DEF AssignChars
    <3> QED BY <3>1, <3>2
  <2>2. Told(<<"AssignChars", v, t>>, v, t) BY <1>2, <2>1, Tells
  <2> QED BY <2>2 DEF Told, Values!Reassign, Values!AssignChars
<1>3. ASSUME Free(v), call' = <<"Free", v>> PROVE Right
  <2>1. Told(<<"Free", v>>, v, <<>>) BY <1>3, FreeMove, Tells
  <2> QED BY <2>1 DEF Told, Values!Reassign, Values!Free
<1>4. ASSUME NEW w \in Alive, Assign(v, w), call' = <<"Assign", v, w>> PROVE Right
  <2>1. AssignICS(v, ics[w], v = w) /\ ics[w] \in ICString BY <1>4, CountedOnce DEF Assign
  <2>2. Told(<<"Assign", v, w>>, v, str[ics[w]]) BY <1>4, <2>1, AssignsICS
  <2>3. str[ics[w]] = val[w] /\ w \in Values!Alive BY ValOf DEF text
  <2> QED BY <2>2, <2>3 DEF Told, Values!Reassign, Values!Assign
<1>5. ASSUME NEW w \in Alive, Flush(v, w), call' = <<"Flush", v, w>> PROVE Right
  <2>1. /\ IInv' /\ val' = [val EXCEPT ![w] = val[v], ![v] = <<>>]
        /\ \A b \in Buffer : Surplus(b)' <= Surplus(b)
    BY <1>5, FlushMove
  <2>2. w \in Values!Alive /\ Values!Flush(v, w) BY <1>5, <2>1, ValOf DEF Values!Flush
  <2> QED BY <2>1, <2>2, NoLeak DEF Values!Reassign
<1>6. ASSUME NEW w \in Alive, NEW a \in Around(text(w)), NEW n \in Around(text(w)),
             AssignCopy(v, w, a, n), call' = <<"AssignCopy", v, w, a, n>>
      PROVE  Right
  <2> DEFINE t == CopyText(text(w), a, n)
  <2>1. Told(<<"AssignCopy", v, w, a, n>>, v, t)
    <3>1. CASE t # <<>>
      BY <1>6, <3>1, RebuildMove, Tells DEF AssignCopy
    <3>2. CASE t = <<>>
      BY <1>1, <1>6, <3>2, AssignsICS DEF AssignCopy
    <3> QED BY <3>1, <3>2
  <2>2. /\ w \in Values!Alive /\ a \in Values!Around(val[w]) /\ n \in Values!Around(val[w])
        /\ t = Values!CopyText(val[w], a, n)
    BY ValOf, SameTexts
  <2>3. Values!AssignCopy(v, w, a, n) BY <2>1, <2>2 DEF Told, Values!AssignCopy
  <2> QED BY <2>1, <2>2, <2>3 DEF Told, Values!Reassign
<1>7. ASSUME NEW w \in Alive, NEW a \in Around(text(w)), NEW n \in Around(text(w)),
             CopyTo(w, a, n, v), call' = <<"CopyTo", w, a, n, v>>
      PROVE  Right
  <2> DEFINE t == IF v = w THEN <<>> ELSE CopyText(text(w), a, n)
  <2>1. Becomes(v, t)
    <3>1. CASE t # <<>>
      BY <1>7, <3>1, RebuildMove DEF CopyTo
    <3>2. CASE t = <<>>
      BY <1>7, <3>2, FreeMove DEF CopyTo
    <3> QED BY <3>1, <3>2
  <2>2. Told(<<"CopyTo", w, a, n, v>>, v, t) BY <1>7, <2>1, Tells
  <2>3. /\ w \in Values!Alive /\ a \in Values!Around(val[w]) /\ n \in Values!Around(val[w])
        /\ t = IF v = w THEN <<>> ELSE Values!CopyText(val[w], a, n)
    BY ValOf, SameTexts
  <2>4. Values!CopyTo(w, a, n, v) BY <2>2, <2>3 DEF Told, Values!CopyTo
  <2> QED BY <2>2, <2>3, <2>4 DEF Told, Values!Reassign
<1> QED BY <1>2, <1>3, <1>4, <1>5, <1>6, <1>7 DEF Reassign

\* The calls that make v longer.
LEMMA Extends ==
  ASSUME IInv, NEW v \in Alive, Extend(v), ICSHandleDeleted' = ICSHandleDeleted
  PROVE  IInv' /\ LeakExplained /\ Values!Extend(v)
<1> DEFINE Right == IInv' /\ LeakExplained /\ Values!Extend(v)
<1>1. /\ Values!Alive = Alive /\ val[v] = text(v) /\ text(v) \in Seq(Int)
      /\ \A w \in Alive : val[w] = text(w)
  BY ValOf, CStringAssumption
<1>2. ASSUME NEW t, StrAppend(v, t), NEW c, call' = c
      PROVE  Told(c, v, text(v) \o t)
  BY <1>2, RebuildMove, Tells DEF StrAppend
<1>3. ASSUME NEW t \in Word, StrAppend(v, t), call' = <<"StrAppend", v, t>> PROVE Right
  <2>1. Told(<<"StrAppend", v, t>>, v, val[v] \o t) BY <1>1, <1>2, <1>3
  <2> QED BY <2>1 DEF Told, Values!Extend, Values!StrAppend
<1>4. ASSUME NEW w \in Alive, AppendString(v, w), call' = <<"AppendString", v, w>> PROVE Right
  <2> DEFINE c == <<"AppendString", v, w>>
  <2>1. Told(c, v, val[v] \o val[w])
    <3>1. CASE ics[w] = EmptyICS
      <4>1. Told(c, v, text(v)) BY <1>4, <3>1, Skips DEF AppendString
      <4>2. text(w) = <<>> BY <3>1 DEF text, IInv, EmptyIsEmpty
      <4>3. text(v) \o <<>> = text(v) BY <1>1
      <4> QED BY <1>1, <4>1, <4>2, <4>3
    <3>2. CASE ics[w] # EmptyICS
      BY <1>1, <1>2, <1>4, <3>2 DEF AppendString
    <3> QED BY <3>1, <3>2
  <2> QED BY <1>1, <2>1 DEF Told, Values!Extend, Values!AppendString
<1>5. ASSUME NEW w \in Alive, NEW p \in 0..Len(text(v)), StrInsert(v, p, w),
             call' = <<"StrInsert", v, p, w>>
      PROVE  Right
  <2> DEFINE t == IF text(w) = <<>> THEN text(v) ELSE InsertText(text(v), p, text(w))
             c == <<"StrInsert", v, p, w>>
  <2>1. Told(c, v, t)
    <3>1. CASE text(w) = <<>>
      BY <1>5, <3>1, Skips DEF StrInsert
    <3>2. CASE text(w) # <<>>
      BY <1>5, <3>2, RebuildMove, Tells DEF StrInsert
    <3> QED BY <3>1, <3>2
  <2>2. t = IF val[w] = <<>> THEN val[v] ELSE Values!InsertText(val[v], p, val[w])
    BY <1>1, SameTexts
  <2>3. Values!StrInsert(v, p, w) BY <2>1, <2>2 DEF Told, Values!StrInsert
  <2> QED BY <1>1, <2>1, <2>3 DEF Told, Values!Extend
<1>6. ASSUME append_backslash(v), call' = <<"append_backslash", v>> PROVE Right
  <2> DEFINE c == <<"append_backslash", v>>
             last == text(v)[Len(text(v))]
  <2>1. PICK t : /\ t \in {val[v], val[v] \o <<SLASH>>} /\ Told(c, v, t)
                 /\ val[v] # <<>> => (t = val[v] <=> last \in SLASHES)
    <3>1. text(v) # text(v) \o <<SLASH>> /\ SLASH \in Int BY <1>1 DEF SLASH
    <3>2. CASE StrAppend(v, <<SLASH>>) /\ (text(v) # <<>> => last \notin SLASHES)
      <4>1. Told(c, v, text(v) \o <<SLASH>>) BY <1>2, <1>6, <3>2
      <4> QED BY <1>1, <3>1, <3>2, <4>1
    <3>3. CASE Skip /\ (text(v) # <<>> => last \in SLASHES)
      <4>1. Told(c, v, text(v)) BY <1>6, <3>3, Skips
      <4> QED BY <1>1, <3>3, <4>1
    <3> QED BY <1>6, <3>2, <3>3 DEF append_backslash, LastChar, IInv, EmptyIsEmpty, text
  <2>2. Values!append_backslash(v)
    BY <1>1, <2>1, SameSlashes DEF Told, Values!append_backslash
  <2> QED BY <2>1, <2>2 DEF Told, Values!Extend
<1> QED BY <1>3, <1>4, <1>5, <1>6 DEF Extend

\* The calls that make v shorter.
LEMMA Shortens ==
  ASSUME IInv, NEW v \in Alive, Shorten(v), ICSHandleDeleted' = ICSHandleDeleted
  PROVE  IInv' /\ LeakExplained /\ Values!Shorten(v)
<1> DEFINE Right == IInv' /\ LeakExplained /\ Values!Shorten(v)
<1>1. val[v] = text(v) /\ text(v) \in Seq(Int) /\ Values!Blank = Blank
  BY ValOf, CStringAssumption, SameTexts
<1>2. ASSUME NEW t, Cut(v, t), NEW c, call' = c PROVE Told(c, v, t)
  <2>1. CASE t = <<>>
    BY <1>2, <2>1, FreeMove, Tells DEF Cut
  <2>2. CASE t # <<>>
    BY <1>2, <2>2, RebuildMove, Tells DEF Cut
  <2> QED BY <2>1, <2>2
<1>3. ASSUME NEW p, NEW n, StrDelete(v, p, n), NEW c, call' = c
      PROVE  Told(c, v, Values!DeleteText(val[v], p, n))
  <2>1. CASE text(v) = <<>> \/ n = 0
    <3>1. DeleteText(text(v), p, n) = text(v) BY <2>1 DEF DeleteText
    <3>2. Told(c, v, text(v)) BY <1>3, <2>1, Skips DEF StrDelete
    <3> QED BY <1>1, <3>1, <3>2, SameTexts
  <2>2. CASE ~(text(v) = <<>> \/ n = 0)
    <3>1. Cut(v, DeleteText(text(v), p, n)) BY <1>3, <2>2 DEF StrDelete
    <3>2. Told(c, v, DeleteText(text(v), p, n)) BY <1>2, <1>3, <3>1
    <3> QED BY <1>1, <3>2, SameTexts
  <2> QED BY <2>1, <2>2
<1>4. ASSUME NEW p \in 0..Len(text(v)), NEW n \in 0..(Len(text(v)) + 1), StrDelete(v, p, n),
             call' = <<"StrDelete", v, p, n>>
      PROVE  Right
  <2>1. Told(<<"StrDelete", v, p, n>>, v, Values!DeleteText(val[v], p, n)) BY <1>3, <1>4
  <2> QED BY <1>1, <2>1 DEF Told, Values!Shorten, Values!StrDelete
<1>5. ASSUME NEW b \in Blank, StrTrimRight(v, b[1], b[2]),
             call' = <<"StrTrimRight", v, b[1], b[2]>>
      PROVE  Right
  <2>1. text(v) = <<>> => TrimRight(text(v), b[1], b[2]) = text(v)
    BY DEF TrimRight, DeleteText
  <2>2. Told(<<"StrTrimRight", v, b[1], b[2]>>, v, TrimRight(text(v), b[1], b[2]))
    BY <1>2, <1>5, <2>1, Skips DEF StrTrimRight
  <2>3. Values!StrTrimRight(v, b[1], b[2])
    BY <1>1, <2>2, SameTrims DEF Told, Values!StrTrimRight
  <2> QED BY <1>1, <2>2, <2>3 DEF Told, Values!Shorten
<1>6. ASSUME NEW b \in Blank, StrTrimLeft(v, b[1], b[2]),
             call' = <<"StrTrimLeft", v, b[1], b[2]>>
      PROVE  Right
  <2>1. Told(<<"StrTrimLeft", v, b[1], b[2]>>, v, TrimLeft(text(v), b[1], b[2]))
    BY <1>2, <1>6, Skips DEF StrTrimLeft
  <2>2. Values!StrTrimLeft(v, b[1], b[2])
    BY <1>1, <2>1, SameTrims DEF Told, Values!StrTrimLeft
  <2> QED BY <1>1, <2>1, <2>2 DEF Told, Values!Shorten
<1>7. ASSUME NEW b \in Blank, StrTrim(v, b[1], b[2]), call' = <<"StrTrim", v, b[1], b[2]>>
      PROVE  Right
  <2>1. text(v) = <<>> => Trim(text(v), b[1], b[2]) = text(v)
    BY DEF Trim, TrimLeft, TrimRight, DeleteText
  <2>2. Told(<<"StrTrim", v, b[1], b[2]>>, v, Trim(text(v), b[1], b[2]))
    BY <1>2, <1>7, <2>1, Skips DEF StrTrim
  <2>3. Values!StrTrim(v, b[1], b[2])
    BY <1>1, <2>2, SameTrims DEF Told, Values!StrTrim
  <2> QED BY <1>1, <2>2, <2>3 DEF Told, Values!Shorten
<1>8. ASSUME remove_forward_slash(v), call' = <<"remove_forward_slash", v>> PROVE Right
  <2> DEFINE c == <<"remove_forward_slash", v>>
             Slash == \E d \in SLASHES : Pos(text(v), d, 0) = 0
  <2>1. Told(c, v, IF Slash THEN Values!DeleteText(val[v], 0, 1) ELSE val[v])
    <3>1. CASE Slash
      <4>1. StrDelete(v, 0, 1) BY <1>8, <3>1 DEF remove_forward_slash
      <4> QED BY <1>3, <1>8, <3>1, <4>1
    <3>2. CASE ~Slash
      BY <1>1, <1>8, <3>2, Skips DEF remove_forward_slash
    <3> QED BY <3>1, <3>2
  <2>2. Slash <=> \E d \in Values!SLASHES : Values!Pos(val[v], d, 0) = 0
    BY <1>1, SameSlashes
  <2>3. Values!remove_forward_slash(v)
    BY <2>1, <2>2 DEF Told, Values!remove_forward_slash
  <2> QED BY <2>1, <2>3 DEF Told, Values!Shorten
<1> QED BY <1>4, <1>5, <1>6, <1>7, <1>8 DEF Shorten

\* The calls that replace characters of v, or recode it.
LEMMA Rewrites ==
  ASSUME IInv, NEW v \in Alive, Rewrite(v), ICSHandleDeleted' = ICSHandleDeleted
  PROVE  IInv' /\ LeakExplained /\ Values!Rewrite(v)
<1> DEFINE Right == IInv' /\ LeakExplained /\ Values!Rewrite(v)
<1>1. val[v] = text(v) /\ text(v) \in Seq(Int) BY ValOf, CStringAssumption
<1>2. ASSUME NEW i \in 0..(Len(text(v)) - 1), NEW c \in Char, SetChar(v, i, c),
             call' = <<"SetChar", v, i, c>>
      PROVE  Right
  <2>1. text(v) # <<>> BY <1>1
  <2>2. Becomes(v, [text(v) EXCEPT ![i + 1] = c]) BY <1>2, <2>1, WriteMove DEF SetChar
  <2>3. Told(<<"SetChar", v, i, c>>, v, [val[v] EXCEPT ![i + 1] = c]) BY <1>1, <1>2, <2>2, Tells
  <2> QED BY <1>1, <2>3 DEF Told, Values!Rewrite, Values!SetChar
<1>3. ASSUME NEW from, NEW delta, Replace(v, Mapped(text(v), from, delta)), NEW c, call' = c
      PROVE  Told(c, v, Mapped(val[v], from, delta))
  <2>1. CASE Mapped(text(v), from, delta) = text(v)
    BY <1>1, <1>3, <2>1, Skips DEF Replace
  <2>2. CASE Mapped(text(v), from, delta) # text(v)
    <3>1. text(v) # <<>>
      <4>1. ASSUME text(v) = <<>> PROVE Mapped(text(v), from, delta) = <<>>
        BY <4>1 DEF Mapped
      <4> QED BY <2>2, <4>1
    <3> QED BY <1>1, <1>3, <2>2, <3>1, WriteMove, Tells DEF Replace
  <2> QED BY <2>1, <2>2
<1>4. ASSUME UpCase(v), call' = <<"UpCase", v>> PROVE Right
  <2>1. Told(<<"UpCase", v>>, v, UpText(val[v])) BY <1>3, <1>4 DEF UpCase, UpText
  <2> QED BY <2>1, SameLetters DEF Told, Values!Rewrite, Values!UpCase
<1>5. ASSUME LowerCase(v), call' = <<"LowerCase", v>> PROVE Right
  <2>1. Told(<<"LowerCase", v>>, v, LowerText(val[v])) BY <1>3, <1>5 DEF LowerCase, LowerText
  <2> QED BY <2>1, SameLetters DEF Told, Values!Rewrite, Values!LowerCase
<1>6. ASSUME plus_to_space(v), call' = <<"plus_to_space", v>> PROVE Right
  <2>1. Told(<<"plus_to_space", v>>, v, PlusToSpace(val[v]))
    BY <1>3, <1>6 DEF plus_to_space, PlusToSpace
  <2> QED BY <2>1, SameLetters DEF Told, Values!Rewrite, Values!plus_to_space
<1>7. ASSUME underscore_clean(v), call' = <<"underscore_clean", v>> PROVE Right
  <2>1. Told(<<"underscore_clean", v>>, v, UnderscoreClean(val[v]))
    BY <1>3, <1>7 DEF underscore_clean, UnderscoreClean
  <2> QED BY <2>1, SameLetters DEF Told, Values!Rewrite, Values!underscore_clean
<1>8. ASSUME underscore_dirt(v), call' = <<"underscore_dirt", v>> PROVE Right
  <2>1. Told(<<"underscore_dirt", v>>, v, UnderscoreDirt(val[v]))
    BY <1>3, <1>8 DEF underscore_dirt, UnderscoreDirt
  <2> QED BY <2>1, SameLetters DEF Told, Values!Rewrite, Values!underscore_dirt
<1>9. ASSUME NEW t \in Text, Recode(v, t), call' = <<"Recode", v, t>> PROVE Right
  <2>1. Told(<<"Recode", v, t>>, v, t) BY <1>9, RebuildMove, Tells DEF Recode
  <2>2. <<val[v], t>> \in Recoding BY <1>1, <1>9 DEF Recode
  <2> QED BY <2>1, <2>2 DEF Told, Values!Rewrite, Values!Recode
<1> QED BY <1>2, <1>4, <1>5, <1>6, <1>7, <1>8, <1>9 DEF Rewrite

-----------------------------------------------------------------------------
(* The theorems.                                                            *)

\* At the start no buffer is in use but EmptyICS.
LEMMA InitCounted == Init => IInv /\ Values!Init
<1> SUFFICES ASSUME Init PROVE IInv /\ Values!Init
  OBVIOUS
<1>1. PICK early \in SUBSET Var : ics = [v \in Var |-> IF v \in early THEN EmptyICS ELSE NoICS]
  BY DEF Init
<1>2. \A b \in Buffer : Handles(b) = {}
  BY <1>1, CStringAssumption DEF Handles
<1>3. \A b \in Buffer : Cardinality(Handles(b)) = 0
  BY <1>2, FS_EmptySet
<1>4. TypeOK /\ EmptyIsEmpty
  <2>1. <<>> \in Text /\ EmptyICS \in ICString BY CStringAssumption DEF ICString
  <2>2. ics \in [Var -> ICString \cup {NoICS}] BY <1>1, <2>1
  <2>3. refs \in [ICString -> Int] /\ \A b \in Buffer : refs[b] >= 0
    BY CStringAssumption DEF Init, ICString
  <2>4. str \in [ICString -> Text] /\ str[EmptyICS] = <<>> /\ ICSHandleDeleted \in BOOLEAN
    BY <2>1 DEF Init
  <2> QED BY <2>2, <2>3, <2>4 DEF TypeOK, EmptyIsEmpty
<1>5. CountsHandles
  BY <1>3, CStringAssumption DEF CountsHandles, Init, ICString
<1>6. Values!Init
  <2>1. \A v \in Var : ics[v] # NoICS => str[ics[v]] = <<>>
    BY <1>1 DEF Init, ICString
  <2> QED BY <2>1 DEF Values!Init, val, text, Init
<1> QED BY <1>4, <1>5, <1>6 DEF IInv

\* Every step is allowed.
LEMMA StepAllowed == IInv /\ [Next]_vars => Allowed \/ UNCHANGED vars
<1> SUFFICES ASSUME IInv, Next PROVE Allowed
  OBVIOUS
<1>1. CASE Call
  <2>1. ICSHandleDeleted' = ICSHandleDeleted /\ Values!Alive = Alive BY <1>1, ValOf DEF Call
  <2>2. ASSUME NEW v \in Var \ Alive, Create(v) PROVE Allowed
    BY <2>1, <2>2, Creates DEF Allowed, Values!Next
  <2>3. ASSUME NEW v \in Alive, Reassign(v) \/ Extend(v) \/ Shorten(v) \/ Rewrite(v)
        PROVE  Allowed
    BY <2>1, <2>3, Reassigns, Extends, Shortens, Rewrites DEF Allowed, Values!Next
  <2> QED BY <1>1, <2>2, <2>3 DEF Call
<1>2. CASE End
  <2>1. PICK v \in Alive : Destroy(v) /\ call' = <<"Destroy", v>> /\ ICSHandleDeleted' = ICSHandleDeleted
    BY <1>2 DEF End
  <2>2. /\ IInv' /\ val' = [val EXCEPT ![v] = NoText]
        /\ ~ICSHandleDeleted => \A b \in Buffer : Surplus(b)' <= Surplus(b)
    BY <2>1, DestroyMove
  <2>3. v \in Values!Alive BY ValOf
  <2>4. Values!Destroy(v)
    BY <2>1, <2>2 DEF Values!Gives, Values!Destroy
  <2>5. Values!Next BY <2>3, <2>4 DEF Values!Next
  <2>6. LeakExplained
    BY <2>2, NoLeak DEF LeakExplained
  <2> QED BY <2>2, <2>5, <2>6 DEF Allowed
<1>3. CASE DestroyEmptyICS
  <2>1. /\ ics' = ics /\ refs' = refs /\ str' = str /\ ICSHandleDeleted' = TRUE
        /\ call' = call
    BY <1>3 DEF DestroyEmptyICS
  <2>2. CountsHandles' /\ \A b \in Buffer : Surplus(b)' = Surplus(b) /\ Surplus(b) \in Int
    BY <2>1, CountsUnchanged
  <2>3. IInv' BY <2>1, <2>2 DEF IInv, TypeOK, EmptyIsEmpty
  <2>4. val' = val
    <3>1. \A u : ics'[u] = ics[u] /\ str'[ics'[u]] = str[ics[u]] BY <2>1
    <3> QED BY <3>1 DEF val, text
  <2>5. LeakExplained BY <2>2, <2>3, NoLeak
  <2> QED BY <2>1, <2>3, <2>4, <2>5 DEF Allowed
<1> QED BY <1>1, <1>2, <1>3 DEF Next

\* The invariant is inductive.
LEMMA Inductive == Spec => []IInv
<1>1. Init => IInv BY InitCounted
<1>2. IInv /\ [Next]_vars => IInv'
  <2>1. IInv /\ UNCHANGED vars => IInv'
    BY CountsUnchanged DEF vars, IInv, TypeOK, EmptyIsEmpty
  <2> QED BY <2>1, StepAllowed DEF Allowed
<1> QED BY <1>1, <1>2, PTL DEF Spec

\* Every reachable state has the types of the code's fields; no buffer but EmptyICS ever
\* has a negative count.
THEOREM CStringTypes == Spec => []TypeOK
<1>1. IInv => TypeOK BY DEF IInv
<1> QED BY <1>1, Inductive, PTL

\* No buffer is deleted while a variable points to it (UnReg, cstring.cpp:64-66).
THEOREM PointersCounted == Spec => []CountsHandles
<1>1. IInv => CountsHandles BY DEF IInv
<1> QED BY <1>1, Inductive, PTL

\* A leak needs the assignment between two variables that share a buffer
\* (operator=, cstring.cpp:655).
THEOREM LeaksHaveOneCause == Spec => LeaksOnlyBySharedAssignment
<1>1. IInv /\ [Next]_vars => [LeakExplained]_vars
  BY StepAllowed DEF Allowed
<1> QED BY <1>1, Inductive, PTL DEF Spec, LeaksOnlyBySharedAssignment

\* The counted buffers implement one text per variable: whatever is shared, each call
\* gives its variable the text its arguments say, and no other variable changes
\* (CString refines CStringValues).
THEOREM SharingDoesNotShow == Spec => ValueSemantics
<1>1. Init => Values!Init BY InitCounted
<1>2. IInv /\ [Next]_vars => [Values!Next]_<<val, call>>
  <2>1. UNCHANGED vars => UNCHANGED <<val, call>>
    <3> SUFFICES ASSUME UNCHANGED vars PROVE val' = val /\ call' = call
      OBVIOUS
    <3>1. \A u : ics'[u] = ics[u] /\ str'[ics'[u]] = str[ics[u]] BY DEF vars
    <3> QED BY <3>1 DEF val, text, vars
  <2> QED BY <2>1, StepAllowed DEF Allowed
<1> QED BY <1>1, <1>2, Inductive, PTL DEF Spec, ValueSemantics, Values!Spec

=============================================================================
