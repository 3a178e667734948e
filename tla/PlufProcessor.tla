---------------------------- MODULE PlufProcessor ----------------------------
(***************************************************************************)
(* CProcessor (pluf/cproc.cpp): what the output syntax makes of the fields *)
(* of one record.  The syntax is a sequence of items: a character of free  *)
(* text, a variable, an operator on the variable before it, or = or ! with *)
(* the text it compares or yields, in which nothing is compared.           *)
(***************************************************************************)
EXTENDS CStringText, SequencesExt

CONSTANTS AutoNames,    \* the names of unnamed fields: "A0", "A1", ...
          UNKNOWN,      \* a character of memory outside the text
          RAW           \* the characters of an operator that is printed as it stands

\* A value has no more than nine digits: atoi does not overflow.
Number(t) == FoldLeft(LAMBDA n, c : 10 * n + c - 48, 0, t)

Digits(t) == SubSeq(t, 1, First({p \in 0..(Len(t) - 1) : t[p + 1] \notin 48..57}, Len(t)))

\* JAN, FEB, ... in capitals.
Months == <<<<74, 65, 78>>, <<70, 69, 66>>, <<77, 65, 82>>, <<65, 80, 82>>, <<77, 65, 89>>, <<74, 85, 78>>,
            <<74, 85, 76>>, <<65, 85, 71>>, <<83, 69, 80>>, <<79, 67, 84>>, <<78, 79, 86>>, <<68, 69, 67>>>>

ASSUME CharactersAssumption == UNKNOWN # RAW /\ {UNKNOWN, RAW} \cap 0..255 = {}

\* Months[Val % 12]: a negative value reads outside Months.
Month(t) ==
    LET word == TrimLeft(t, 9, 32) IN
    CASE word # <<>> /\ word[1] = 45 /\ Number(Digits(Tail(word))) % 12 # 0 -> <<UNKNOWN>>
      [] word # <<>> /\ word[1] \in {43, 45} -> Months[1 + (Number(Digits(Tail(word))) % 12)]
      [] OTHER -> Months[1 + (Number(Digits(word)) % 12)]

Repeat(c, n) == [k \in 1..(IF n > 0 THEN n ELSE 0) |-> c]

\* The parts of a text between the characters c.
Tokenizer(t, c) ==
    LET cuts == Positions(t, {c})
        Cut(k) == CHOOSE p \in cuts \union {-1, Len(t)} : Cardinality({q \in cuts \union {-1} : q < p}) = k
    IN  [k \in 1..(Cardinality(cuts) + 1) |-> SubSeq(t, Cut(k - 1) + 2, Cut(k))]

\* StrDelete; a start beyond the text makes its count negative, and the text is
\* followed by what memory holds.
Cut(t, start, len) ==
    IF t # <<>> /\ start > Len(t) THEN t \o Repeat(UNKNOWN, start - Len(t)) ELSE DeleteText(t, start, len)

\* A number of an operator, 0 and an error when it is not there.
MISSING == -1
Num(n)  == IF n = MISSING THEN 0 ELSE n
Miss(n) == IF n = MISSING THEN 1 ELSE 0

\* What an operator makes of a value; a chain of operators goes on while Cut is set.
Going(value, errors)   == [value |-> value, errors |-> errors, cut |-> TRUE]
Stopped(value, errors) == [value |-> value, errors |-> errors, cut |-> FALSE]

Express(value, op) ==
    CASE op.o = "month" -> Going(Month(value), 0)
      [] op.o \in {"left", "right"} ->
            LET pad == Repeat(op.c, Num(op.n) - Len(value)) IN
            Going(CASE Num(op.n) = 0 -> <<>>
                    [] Num(op.n) # 0 /\ op.o = "left" -> pad \o value
                    [] OTHER -> value \o pad, Miss(op.n))
      [] op.o = "vector" ->
            CASE op.n = MISSING -> Going(<<>>, 0)
              [] op.n \in 1..Len(Tokenizer(value, op.c)) -> Going(Tokenizer(value, op.c)[op.n], 0)
              [] OTHER -> Stopped(value, 1)
      [] op.o = "cut" ->
            Going(IF Num(op.n) = 0 THEN <<>> ELSE Cut(value, Num(op.at), op.n), Miss(op.n) + Miss(op.at))
      [] op.o = "copy" ->
            Going(IF Num(op.n) = 0 THEN <<>> ELSE CopyText(value, Num(op.at), op.n), Miss(op.n) + Miss(op.at))
      [] op.o = "trim" ->
            CASE op.side = "l" -> Going(TrimLeft(value, SPACE, SPACE), 0)
              [] op.side = "r" -> Going(TrimRight(value, SPACE, SPACE), 0)
              [] op.side = "b" -> Going(Trim(value, SPACE, SPACE), 0)
              [] op.side = "n" -> Going(Trim(value, 1, SPACE), 0)
              [] OTHER -> Stopped(value, 0)                     \* another letter is the next item
      [] op.o = "escape" -> Stopped(value, Miss(op.n))      \* -- and ++
      [] OTHER -> Stopped(value, 1)                         \* < or > without a character

-----------------------------------------------------------------------------
(* Parse.                                                                   *)

\* text printed so far, the value of the last variable while its operators go on, FCnt,
\* errors; item, the next one; sides, Comp and Value while a comparison goes on.
Begin(fcnt) == [text |-> <<>>, value |-> <<>>, cut |-> FALSE, fcnt |-> fcnt, errors |-> 0, item |-> 1, sides |-> <<>>]

Flush(a) == [a EXCEPT !.text = @ \o a.value, !.value = <<>>, !.cut = FALSE]

\* A variable is a field of this name, or with %; the next unnamed field.
ReadName(a, item) == IF item.i = "next" THEN AutoNames[a.fcnt + 1] ELSE item.name

\* GetValue: a name that no field has is an error and the value empty.
GetValue(fields, name) == IF name \in DOMAIN fields THEN fields[name] ELSE <<>>

\* An operator stops the chain when it fails; those after it are free text.
Operate(a, op) ==
    LET r == Express(a.value, op) IN
    [a EXCEPT !.value = r.value, !.cut = r.cut, !.errors = @ + r.errors]

\* Anything but a comparison.  \; is neither free text nor a variable: Parse looks for a
\* field without a name there until the errors end the program.
ParseItem(fields, a, item) ==
    CASE item.i = "text" -> [Flush(a) EXCEPT !.text = Append(@, item.c)]
      [] item.i \in {"var", "next"} ->
            [Flush(a) EXCEPT !.value = GetValue(fields, ReadName(a, item)), !.cut = TRUE,
                             !.fcnt = @ + IF item.i = "next" THEN 1 ELSE 0,
                             !.errors = @ + IF ReadName(a, item) \in DOMAIN fields THEN 0 ELSE 1]
      [] item.i = "stuck" -> [Flush(a) EXCEPT !.errors = @ + 6]
      [] item.i = "op" /\ a.cut -> Operate(a, item.op)
      [] OTHER -> [Flush(a) EXCEPT !.text = Append(@, RAW)]

\* = or ! with the text that follows, a word or what stands in parentheses: read to its
\* end whatever the comparison says, its errors counted, that there is no text being one.
\* (The CHOOSE of an only element has TLC evaluate it once.)
Operand(fields, item, fcnt) ==
    LET Read(b, i) == CHOOSE r \in {ParseItem(fields, a, i) : a \in {b}} : TRUE
        read == Flush(FoldLeft(Read, Begin(fcnt), item.items))
    IN  [read EXCEPT !.errors = @ + IF item.missing THEN 1 ELSE 0]

\* isEqual ignores case, and an empty text is equal to none.
Same(s, t) == s # <<>> /\ t # <<>> /\ LowerText(s) = LowerText(t)

\* The first text is compared with the value; each one after it is a case, added when it
\* holds.  A parenthesis that is never closed has the reading jump: Rec holds the number
\* of open ones, and item.from stands at that position of the syntax.
Compare(fields, a, item) ==
    LET text == Operand(fields, item, a.fcnt)
        holds == Same(a.sides[1], a.sides[2]) = item.equal
        read == [a EXCEPT !.fcnt = text.fcnt, !.errors = @ + text.errors,
                          !.item = IF item.from = 0 THEN @ ELSE item.from]
    IN  IF a.sides = <<>> THEN [read EXCEPT !.sides = <<text.text, a.value>>, !.value = <<>>]
        ELSE [read EXCEPT !.value = @ \o IF holds THEN text.text ELSE <<>>]

\* A comparison begins with = after a value, and goes on with = and !.
Compares(a, item) == item.i = "compare" /\ (a.sides # <<>> \/ (a.cut /\ item.equal))

\* The next item of the syntax.
ReadItem(fields, a, item) ==
    LET next == [a EXCEPT !.item = @ + 1] IN
    IF Compares(a, item) THEN Compare(fields, next, item)
                         ELSE ParseItem(fields, [next EXCEPT !.sides = <<>>], item)

=============================================================================
