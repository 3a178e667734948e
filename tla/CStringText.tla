---------------------------- MODULE CStringText ----------------------------
(***************************************************************************)
(* What the operations of CString (pluf/cstring.cpp) do to a text, apart    *)
(* from where the text is kept.  A text is the sequence of its character    *)
(* codes; positions count from 0, as in the code, so position p is element  *)
(* p + 1.                                                                  *)
(***************************************************************************)
EXTENDS Integers, Sequences

Least(a, b) == IF a <= b THEN a ELSE b

First(P, otherwise) == IF P = {} THEN otherwise ELSE CHOOSE p \in P : \A q \in P : p <= q
Greatest(P)         == IF P = {} THEN -1 ELSE CHOOSE p \in P : \A q \in P : q <= p

Positions(s, chars) == {p \in 0..(Len(s) - 1) : s[p + 1] \in chars}

Pos(s, c, start) == First({p \in Positions(s, {c}) : p >= start}, -1)
InvPos(s, c)     == Greatest(Positions(s, {c}))

-----------------------------------------------------------------------------
(* Character by character, in place.                                        *)

Mapped(s, from, delta) == [k \in 1..Len(s) |-> IF s[k] \in from THEN s[k] + delta ELSE s[k]]

SPACE      == 32
PLUS       == 43
UNDERSCORE == 95
SLASH      == 47
SLASHES    == {SLASH, 92}

UpText(s)           == Mapped(s, 97..122, -32)
LowerText(s)        == Mapped(s, 65..90, 32)
PlusToSpace(s)      == Mapped(s, {PLUS}, SPACE - PLUS)
UnderscoreClean(s)  == Mapped(s, {UNDERSCORE}, SPACE - UNDERSCORE)
UnderscoreDirt(s)   == Mapped(s, {SPACE}, UNDERSCORE - SPACE)

-----------------------------------------------------------------------------
(* Parts of texts.                                                          *)

\* Positions and lengths a caller may ask for: in the text and just outside it.
Around(s) == -1..(Len(s) + 1)

CopyText(s, start, len) ==
    IF start < 0 \/ start >= Len(s) \/ len <= 0 THEN <<>>
    ELSE SubSeq(s, start + 1, Least(start + len, Len(s)))

DeleteText(s, start, count) ==
    LET n == Least(count, Len(s) - start)
    IN  IF Len(s) = 0 \/ count = 0 THEN s
        ELSE IF n >= Len(s) THEN <<>>
        ELSE SubSeq(s, 1, start) \o SubSeq(s, start + n + 1, Len(s))

InsertText(s, pos, ins) == SubSeq(s, 1, pos) \o ins \o SubSeq(s, pos + 1, Len(s))

\* StrTrimRight asks StrDelete for one character more than there is.
TrimRight(s, l, r) ==
    LET p == Greatest({q \in 0..(Len(s) - 1) : s[q + 1] \notin l..r})
    IN  DeleteText(s, p + 1, Len(s) - p + 1)

TrimLeft(s, l, r) ==
    DeleteText(s, 0, First({q \in 0..(Len(s) - 1) : s[q + 1] \notin l..r}, Len(s)))

\* What StrTrim and StrTrim32 take for blank.
Blank == {<<SPACE, SPACE>>, <<1, SPACE>>}

Trim(s, l, r) == TrimLeft(TrimRight(s, l, r), l, r)

=============================================================================
