----------------------------- MODULE PlufReaders -----------------------------
(***************************************************************************)
(* The readers of CFilter (pluf/cfilter.cpp): what each kind of elementary *)
(* field takes from the text at a position, counted from 0 as in the code. *)
(* A reader gives the new position, the value as AsString prints it, and   *)
(* whether it called Bailing.                                              *)
(***************************************************************************)
EXTENDS CStringText, FiniteSets

NEWLINES  == 1..31                      \* %n: any run of control characters
OPEN      == 40
CLOSE     == 41
NONZERO   == 49..57
DIGITS    == 48..57
LETTERS   == (65..90) \union (97..122)

At(s, p) == IF p < Len(s) THEN s[p + 1] ELSE 0

\* The end of the run of these characters from position p on.
RunEnd(s, p, chars) == First({q \in p..Len(s) : At(s, q) \notin chars}, p)

Taken(pos, value) == [pos |-> pos, value |-> value, error |-> FALSE]
Failed(pos)       == [pos |-> pos, value |-> <<>>, error |-> TRUE]
NoInteger(pos)    == [Failed(pos) EXCEPT !.value = <<48>>]

\* A character outside the range is taken, and 0 is stored for it, which prints as nothing.
ReadChar(chars, s, p) ==
    IF chars = {} \/ At(s, p) \in chars THEN Taken(p + 1, <<At(s, p)>>) ELSE Failed(p + 1)

\* The position after which the parenthesis at p is closed; when it never is, Rec
\* holds the number of open ones, which the code then takes for a position.
Depth(s, p, q) == Cardinality(Positions(s, {OPEN}) \cap (p..q)) - Cardinality(Positions(s, {CLOSE}) \cap (p..q))
Closed(s, p)   == \E q \in p..(Len(s) - 1) : Depth(s, p, q) = 0
Rec(s, p)      == IF Closed(s, p) THEN First({q \in p..(Len(s) - 1) : Depth(s, p, q) = 0}, p)
                                  ELSE Depth(s, p, Len(s) - 1)

\* A string of n characters, or in parentheses, or a word: without a bound (-1) it
\* ends at a blank or a digit, with the bound 0 only at a character of another kind.
ReadString(n, s, p) ==
    LET start == RunEnd(s, p, 1..32)
        end   == RunEnd(s, start, LETTERS \union {UNDERSCORE} \union IF n = -1 THEN {} ELSE DIGITS \union {SPACE})
        fixed == CopyText(s, p, n)
    IN  CASE n > 0 -> [pos |-> p + Len(fixed), value |-> fixed, error |-> Len(fixed) < n]
          [] n <= 0 /\ At(s, p) = OPEN -> Taken(Rec(s, p) + 1, DeleteText(DeleteText(s, Rec(s, p), Len(s)), 0, p + 1))
          [] OTHER -> IF end = start THEN Failed(end) ELSE Taken(end, SubSeq(s, start + 1, end))

\* The digits of a number as operator+=(int) prints them.
Printed(minus, digits) ==
    LET n == First({q \in 0..(Len(digits) - 1) : digits[q + 1] # 48}, Len(digits))
    IN  IF n = Len(digits) THEN <<48>> ELSE (IF minus THEN <<45>> ELSE <<>>) \o SubSeq(digits, n + 1, Len(digits))

\* A ReadInteger whose digits run one past the bound, as its zeros do.
ReadIntegerPast(n, s, p) ==
    LET blanks == IF n > 0 THEN Least(RunEnd(s, p, {SPACE}), p + n) ELSE p
        signed == IF At(s, blanks) \in {43, 45} THEN blanks + 1 ELSE blanks
        end    == IF n > 0 THEN Least(RunEnd(s, signed, DIGITS), p + n + 1) ELSE RunEnd(s, signed, DIGITS)
    IN  IF n \in {0, signed - p} \/ end = p \/ end < p + n THEN NoInteger(end)
        ELSE Taken(end, Printed(At(s, blanks) = 45, SubSeq(s, signed + 1, end)))

\* An integer of n characters: blanks, a sign, zeros, then digits.  The loop over
\* the zeros counts to n + 1, and once the count is n the loop over the digits
\* never meets it again: a field whose n characters end among zeros takes every
\* digit that follows.
ReadInteger(n, s, p) ==
    LET blanks == IF n > 0 THEN Least(RunEnd(s, p, {SPACE}), p + n) ELSE p
        signed == IF At(s, blanks) \in {43, 45} THEN blanks + 1 ELSE blanks
        zeros  == IF n > 0 THEN Least(RunEnd(s, signed, {48}), p + n + 1) ELSE RunEnd(s, signed, {48})
        all    == RunEnd(s, zeros, DIGITS)
        end    == IF n > 0 /\ zeros < p + n THEN Least(all, p + n) ELSE all
    IN  CASE n \in {0, blanks - p} -> NoInteger(blanks)
          [] n \notin {0, blanks - p} /\ n = signed - p -> NoInteger(signed)
          [] OTHER -> IF end = p \/ end < p + n THEN NoInteger(end)
                      ELSE Taken(end, Printed(At(s, blanks) = 45, SubSeq(s, signed + 1, end)))

\* A field with a Skipper takes its text and stores nothing; %; and %c then take the line.
SkipElement(f, s, p) ==
    LET Only(chars) == Taken(RunEnd(s, p, chars), <<>>)
    IN  CASE f.kind = "space"  -> Only({SPACE})
          [] f.kind = "tab"    -> Only({9})
          [] f.kind = "return" -> Only(NEWLINES)
          [] f.kind \in {"anything", "char"} -> Taken(RunEnd(s, RunEnd(s, p, 32..127), NEWLINES), <<>>)
          [] f.kind = "string"  -> ReadString(f.bound, s, p)
          [] f.kind = "integer" -> ReadInteger(f.bound, s, p)
          [] OTHER -> Failed(p)

\* FillField on an elementary field.
ReadField(f, s, p) ==
    CASE f.skip -> SkipElement(f, s, p)
      [] ~f.skip /\ f.kind = "char"    -> ReadChar(f.chars, s, p)
      [] ~f.skip /\ f.kind = "string"  -> ReadString(f.bound, s, p)
      [] ~f.skip /\ f.kind = "integer" -> ReadInteger(f.bound, s, p)
      [] OTHER -> Failed(p)

=============================================================================
