----------------------------- MODULE PlufFilter -----------------------------
(***************************************************************************)
(* CFilter (pluf/cfilter.cpp, cfield.cpp): reads the input syntax into a   *)
(* tree of fields, then reads the input record by record into the fields   *)
(* and prints each record as the output syntax says.  All Bailing calls of *)
(* a run share one count.                                                  *)
(*                                                                         *)
(* The elementary fields stand in reading order in leaves; a named field   *)
(* is the interval of those between its = and the comma that closes it.    *)
(***************************************************************************)
EXTENDS PlufReaders, PlufProcessor

CONSTANTS Formats,      \* input syntaxes: sequences of tokens
          Templates,    \* output syntaxes: sequences of items, those a jump leads to after the others
          Inputs        \* texts on the standard input

VARIABLES format, template, input,
          stages,       \* how many of the two syntaxes were given
          phase,        \* "define", "fill", "print", "ended"
          at,           \* the next token of the format
          separated,    \* the next token begins a field, rather than separates two
          open,         \* the named fields being read, innermost last
          named,        \* NamedFields: name, interval of leaves, observation: the token it began at
          leaves,       \* kind, Bound, Constraints, Skipper; stale: has an automatic name
          leaf,         \* the next field to fill
          pos,          \* CurPos
          data,         \* the last value pushed on each field, empty before the first
          errors,       \* Errors
          parse,        \* what Parse has made of the output syntax for this record
          out,          \* what the last record printed
          began         \* observation: where each field of this record was read, -1 when it was not

vars == <<format, template, input, stages, phase, at, separated, open, named, leaves, leaf, pos, data, errors, parse, out, began>>
syntax == <<format, template, input, stages>>

Kinds == {"undefined", "string", "integer", "space", "tab", "return", "anything", "char"}

\* A letter after % or $ with its ;, its size or its range; a name with its =; a bar, a
\* comma or anything else.
SyntaxToken ==
    [t : {"leaf"}, kind : Kinds, bound : Nat \union {-1}, chars : SUBSET (1..127), skip : BOOLEAN]
    \union [t : {"open"}, name : STRING] \union [t : STRING \ {"leaf", "open"}]

ASSUME FilterAssumption == Formats \subseteq Seq(SyntaxToken) /\ Inputs \subseteq Seq(1..127)

Expression == "Expression"
MAXERRORS  == 5

Init ==
    /\ format \in Formats /\ template \in Templates /\ input \in Inputs /\ stages \in {1, 2}
    /\ phase = "define" /\ at = 1 /\ separated = TRUE
    /\ open = <<1>> /\ named = <<[name |-> Expression, from |-> 1, to |-> 0, token |-> 0]>>
    /\ leaves = <<>> /\ leaf = 1 /\ pos = 0 /\ data = <<>> /\ errors = 0
    /\ parse = Begin(0) /\ out = <<>> /\ began = <<>>

-----------------------------------------------------------------------------
(* DefineFields: the input syntax.                                          *)

Token == format[at]
Reading == phase = "define" /\ at <= Len(format) /\ open # <<>>

\* The copy constructor of CField leaves Skipper as the heap had it; ; sets it.
ReadStaleField ==
    /\ Reading /\ separated /\ Token.t = "leaf"
    /\ \E skip \in IF Token.skip THEN {TRUE} ELSE BOOLEAN :
        leaves' = Append(leaves, [kind |-> Token.kind, bound |-> Token.bound, chars |-> Token.chars,
                                  skip |-> skip, stale |-> TRUE])
    /\ at' = at + 1 /\ separated' = FALSE
    /\ UNCHANGED <<syntax, phase, open, named, leaf, pos, data, errors, parse, out, began>>

\* == ignores case: a name stands for all its spellings.
Known(name) == \E k \in DOMAIN named : named[k].name = name

ReadNamedField ==
    /\ Reading /\ separated /\ Token.t = "open" /\ ~Known(Token.name)
    /\ named' = Append(named, [name |-> Token.name, from |-> Len(leaves) + 1, to |-> 0, token |-> at])
    /\ open' = Append(open, Len(named'))
    /\ at' = at + 1
    /\ UNCHANGED <<syntax, phase, separated, leaves, leaf, pos, data, errors, parse, out, began>>

Closing(n) == [k \in DOMAIN named |-> IF k \in n THEN [named[k] EXCEPT !.to = Len(leaves)] ELSE named[k]]

\* A ReadBar that ends the named field as a comma does.
ReadBarCloses ==
    /\ Reading /\ ~separated /\ Token.t # "comma"
    /\ IF Token.t = "bar" THEN at' = at + 1 /\ named' = Closing({Last(open)}) /\ open' = Front(open)
                          ELSE UNCHANGED <<at, named, open>>
    /\ separated' = TRUE
    /\ UNCHANGED <<syntax, phase, leaves, leaf, pos, data, errors, parse, out, began>>

\* | and nothing at all separate fields alike.
ReadBar ==
    /\ Reading /\ ~separated
    /\ at' = IF Token.t = "bar" THEN at + 1 ELSE at
    /\ Token.t # "comma" /\ separated' = TRUE
    /\ UNCHANGED <<syntax, phase, open, named, leaves, leaf, pos, data, errors, parse, out, began>>

\* A comma closes the innermost named field; the one that closes Expression leaves
\* the rest of the syntax unread.
ReadComma ==
    /\ Reading /\ ~separated /\ Token.t = "comma"
    /\ named' = Closing({Last(open)}) /\ open' = Front(open) /\ at' = at + 1
    /\ UNCHANGED <<syntax, phase, separated, leaves, leaf, pos, data, errors, parse, out, began>>

\* One error ends the program when the syntax is read, so which follow does not matter.
SyntaxError ==
    /\ Reading /\ separated
    /\ Token.t \notin {"leaf", "open"} \/ (Token.t = "open" /\ Known(Token.name))
    /\ errors' = 1 /\ phase' = "ended"
    /\ UNCHANGED <<syntax, at, separated, open, named, leaves, leaf, pos, data, parse, out, began>>

\* The end of the syntax closes what is open.  A named field that got no field at
\* all is then taken for an elementary one, of the type its memory had.  Recursive
\* looks for a Tag, which no constructor of a named field sets.
EndOfFormat ==
    /\ phase = "define" /\ (at > Len(format) \/ open = <<>>)
    /\ \E kind \in {"string", "integer", "char", "undefined"}, tagged \in BOOLEAN :
        LET empty == open # <<>> /\ separated /\ named[Len(named)].from > Len(leaves)
            all   == IF empty THEN Append(leaves, [kind |-> kind, bound |-> -1, chars |-> {}, skip |-> FALSE, stale |-> FALSE])
                              ELSE leaves IN
        /\ leaves' = all
        /\ named' = [k \in DOMAIN named |-> IF k \in ToSet(open) THEN [named[k] EXCEPT !.to = Len(all)] ELSE named[k]]
        /\ errors' = IF tagged THEN 1 ELSE 0
        /\ phase' = IF tagged \/ stages = 1 \/ input = <<>> THEN "ended" ELSE "fill"
        /\ data' = [k \in DOMAIN all |-> <<>>] /\ began' = [k \in DOMAIN all |-> -1]
    /\ open' = <<>>
    /\ UNCHANGED <<syntax, at, separated, leaf, pos, parse, out>>

-----------------------------------------------------------------------------
(* FillFields: the input.                                                   *)

\* The sixth error ends the program where it is.
Bailing(n) == errors' = errors + n /\ errors + n <= MAXERRORS
TooMany(n) == errors' = MAXERRORS + 1 /\ errors + n > MAXERRORS /\ phase' = "ended"

Count(error) == IF error THEN 1 ELSE 0

\* A FillField that counts no error.
FillFieldForgives ==
    /\ phase = "fill"
    /\ \E r \in {ReadField(leaves[leaf], input, pos)} :
        /\ pos' = r.pos /\ leaf' = leaf + 1
        /\ data' = IF leaves[leaf].skip THEN data ELSE [data EXCEPT ![leaf] = r.value]
        /\ began' = [began EXCEPT ![leaf] = pos]
        /\ phase' = IF leaf = Len(leaves) \/ r.pos >= Len(input) THEN "print" ELSE "fill"
    /\ UNCHANGED <<syntax, at, separated, open, named, leaves, errors, parse, out>>

\* A FillField that pushes what it read on the field before.
FillFieldBefore ==
    /\ phase = "fill"
    /\ \E r \in {ReadField(leaves[leaf], input, pos)} :
        \/ /\ TooMany(Count(r.error)) /\ UNCHANGED <<leaf, pos, data, began>>
        \/ /\ Bailing(Count(r.error))
           /\ pos' = r.pos /\ leaf' = leaf + 1
           /\ data' = IF leaves[leaf].skip \/ leaf = 1 THEN data ELSE [data EXCEPT ![leaf - 1] = r.value]
           /\ began' = [began EXCEPT ![leaf] = pos]
           /\ phase' = IF leaf = Len(leaves) \/ r.pos >= Len(input) THEN "print" ELSE "fill"
    /\ UNCHANGED <<syntax, at, separated, open, named, leaves, parse, out>>

\* Each field takes its part of the input; when that ends, the fields after keep
\* the values of the record before.
FillField ==
    /\ phase = "fill"
    /\ \E r \in {ReadField(leaves[leaf], input, pos)} :
        \/ /\ TooMany(Count(r.error)) /\ UNCHANGED <<leaf, pos, data, began>>
        \/ /\ Bailing(Count(r.error))
           /\ pos' = r.pos /\ leaf' = leaf + 1
           /\ data' = IF leaves[leaf].skip THEN data ELSE [data EXCEPT ![leaf] = r.value]
           /\ began' = [began EXCEPT ![leaf] = pos]
           /\ phase' = IF leaf = Len(leaves) \/ r.pos >= Len(input) THEN "print" ELSE "fill"
    /\ UNCHANGED <<syntax, at, separated, open, named, leaves, parse, out>>

\* AsString of an elementary field and of a named one.
LeafText(k)  == IF leaves[k].skip THEN <<>> ELSE data[k]
AsString(f)  == FlattenSeq([k \in 1..(f.to - f.from + 1) |-> LeafText(f.from + k - 1)])

\* FindField: the named fields first, then the others by their automatic names.
FieldNames == {f.name : f \in ToSet(named)} \union {AutoNames[k] : k \in {k \in DOMAIN leaves : leaves[k].stale}}
FieldValue(name) == IF Known(name) THEN AsString(CHOOSE f \in ToSet(named) : f.name = name)
                                   ELSE LeafText(CHOOSE k \in DOMAIN leaves : AutoNames[k] = name)
FieldValues == [name \in FieldNames |-> FieldValue(name)]

\* One item of the output syntax.  Errors in the fields or in this syntax do not keep a
\* record from being printed.
ParseOutput ==
    /\ phase = "print" /\ parse.item <= Len(template)
    /\ \E fields \in {FieldValues} :
       \E r \in {ReadItem(fields, [parse EXCEPT !.errors = 0], template[parse.item])} :
        \/ TooMany(r.errors) /\ UNCHANGED parse
        \/ Bailing(r.errors) /\ parse' = r /\ UNCHANGED phase
    /\ UNCHANGED <<syntax, at, separated, open, named, leaves, leaf, pos, data, out, began>>

PrintRecord ==
    /\ phase = "print" /\ parse.item > Len(template)
    /\ out' = Flush(parse).text /\ parse' = Begin(0)
    /\ leaf' = 1 /\ began' = [k \in DOMAIN leaves |-> -1]
    /\ phase' = IF pos >= Len(input) THEN "ended" ELSE "fill"
    /\ UNCHANGED <<syntax, at, separated, open, named, leaves, pos, data, errors>>

Next == \/ ReadStaleField \/ ReadNamedField \/ ReadBar \/ ReadComma \/ SyntaxError \/ EndOfFormat
        \/ FillField \/ ParseOutput \/ PrintRecord

\* The program runs on its own once it is started.
Spec == Init /\ [][Next]_vars /\ WF_vars(Next)

-----------------------------------------------------------------------------
(* Properties.                                                              *)

\* The comma that closes the named field begun at token i: the first with one more
\* comma than named fields after i.  (The manual's own example closes a name later than that.)
Tokens(t, i, j) == Cardinality({k \in i..j : format[k].t = t})
ClosedAt(i) == First({j \in (i + 1)..Len(format) : Tokens("comma", i + 1, j) > Tokens("open", i + 1, j)}, Len(format) + 1)

\* A syntax whose last named field gets no field.
EndsEmpty == format = <<>> \/ format[Len(format)].t = "open"

\* A named field of a syntax that is accepted is made of the elementary fields between
\* its = and the comma that balances it, read with no stack (ReadNamedField); one
\* that is open when the syntax ends has the empty one too.
FieldsAreSpans ==
    phase \in {"fill", "print"} =>
        \A f \in ToSet(named) :
            /\ f.from = Tokens("leaf", 1, f.token) + 1
            /\ f.to = Tokens("leaf", 1, ClosedAt(f.token) - 1)
                      + (IF EndsEmpty /\ ClosedAt(f.token) > Len(format) THEN 1 ELSE 0)
            /\ f.to <= Len(leaves)

\* The value a record prints for a named field, all of whose parts are kept, read in
\* this record and neither numbers, words nor out of range, is the text of the
\* input between where its first part began and where the next field goes on
\* (FillField pushes, AsString concatenates): no value of an earlier record shows.
ValueIsItsText ==
    phase = "print" =>
        \A f \in ToSet(named) :
            (\A k \in f.from..f.to :
                /\ began[k] # -1 /\ ~leaves[k].skip
                /\ leaves[k].kind = "char" \/ (leaves[k].kind = "string" /\ leaves[k].bound > 0)
                /\ leaves[k].chars = {})
            => AsString(f) = SubSeq(input, began[f.from] + 1, IF f.to + 1 < leaf THEN began[f.to + 1] ELSE pos)

\* A field with a size takes just that many characters, when it reports no error (no
\* more is counted, and the program goes on); but an integer whose characters are
\* blanks, a sign and zeros takes every digit that follows (the loops of ReadInteger).
TakesItsSize ==
    [][phase = "fill" =>
        LET f == leaves[leaf] IN
        f.kind \in {"string", "integer"} /\ f.bound > 0 /\ errors' # errors + 1 /\ phase' # "ended" =>
            \/ pos' = pos + f.bound
            \/ f.kind = "integer" /\ ToSet(CopyText(input, pos, f.bound)) \cap NONZERO = {}]_vars

\* A parenthesis of the input that is never closed, with a field that may meet it.
MeetsOpenParenthesis ==
    /\ \E k \in DOMAIN leaves : leaves[k].kind = "string" /\ leaves[k].bound <= 0
    /\ \E p \in Positions(input, {OPEN}) : ~Closed(input, p)

\* A record that may take nothing from the input.
TakesNothing == \A k \in DOMAIN leaves : leaves[k].skip /\ leaves[k].kind \in {"space", "tab", "return"}

\* A parenthesis of the output syntax that is never closed and has it read again.
ReadsAgain == \E k \in DOMAIN template : template[k].i = "compare" /\ template[k].from \in 1..k

\* The filter ends (FillFields takes something in every round and Parse goes forward, or
\* the errors run out), but for an input with an open parenthesis, read over and over
\* without an error, a syntax that only skips blanks, and an output syntax with an open
\* parenthesis that leads back.
Finishes ==
    <>(\/ phase = "ended"
       \/ phase = "fill" /\ (MeetsOpenParenthesis \/ TakesNothing)
       \/ phase = "print" /\ ReadsAgain)

=============================================================================
