--------------------------- MODULE CStringValues ---------------------------
(***************************************************************************)
(* What the class CString promises (pluf/cstring.h): each variable has a    *)
(* text of its own.  A call gives its variable the text its name says, made *)
(* from the texts its arguments had when it was called, and changes no      *)
(* other variable.                                                         *)
(***************************************************************************)
EXTENDS CStringText

CONSTANTS Var,      \* the program's CString variables, temporaries included
          Text,     \* the texts they may have
          Word,     \* the texts of the program's literals and of its input
          Char,     \* the characters stored through operator[]
          Recoding, \* pairs of a text and what a rewriting operation makes of it
          NoText    \* "value" of a variable that does not exist

VARIABLES val,   \* the text of each variable
          call   \* the last call: its name, its variable, its arguments

Alive == {v \in Var : val[v] # NoText}

\* Some variables may exist already, without a text.
Init == val \in [Var -> {NoText, <<>>}] /\ call = <<>>

\* The call c gives v the text t, and changes nothing else.
Gives(c, v, t) == call' = c /\ val' = [val EXCEPT ![v] = t]

-----------------------------------------------------------------------------
(* A text for a new variable, ...                                           *)

Construct(v, t)     == Gives(<<"Construct", v, t>>, v, t)
ConstructCopy(v, w) == Gives(<<"ConstructCopy", v, w>>, v, val[w])
Destroy(v)          == Gives(<<"Destroy", v>>, v, NoText)

\* ... another text, ...
AssignChars(v, t)      == Gives(<<"AssignChars", v, t>>, v, t)
Free(v)                == Gives(<<"Free", v>>, v, <<>>)
Assign(v, w)           == Gives(<<"Assign", v, w>>, v, val[w])
AssignCopy(v, w, a, n) == Gives(<<"AssignCopy", v, w, a, n>>, v, CopyText(val[w], a, n))

\* w.Copy(a, n, v), for a v that is not w.  For v = w the text is lost: the one call
\* whose result depends on whether two names mean the same variable.
CopyTo(w, a, n, v) == Gives(<<"CopyTo", w, a, n, v>>, v,
                            IF v = w THEN <<>> ELSE CopyText(val[w], a, n))

\* The text of v moves to w.
Flush(v, w) == /\ call' = <<"Flush", v, w>>
               /\ val' = [val EXCEPT ![w] = val[v], ![v] = <<>>]

\* ... a longer one, ...
StrAppend(v, t)      == Gives(<<"StrAppend", v, t>>, v, val[v] \o t)
AppendString(v, w)   == Gives(<<"AppendString", v, w>>, v, val[v] \o val[w])
StrInsert(v, pos, w) == Gives(<<"StrInsert", v, pos, w>>, v,
                              IF val[w] = <<>> THEN val[v] ELSE InsertText(val[v], pos, val[w]))

\* For an empty text, what lies before it decides whether the backslash is there.
append_backslash(v) ==
    \E t \in {val[v], val[v] \o <<SLASH>>} :
        /\ val[v] # <<>> => (t = val[v] <=> val[v][Len(val[v])] \in SLASHES)
        /\ Gives(<<"append_backslash", v>>, v, t)

\* ... a shorter one, ...
StrDelete(v, p, n)    == Gives(<<"StrDelete", v, p, n>>, v, DeleteText(val[v], p, n))
StrTrimRight(v, l, r) == Gives(<<"StrTrimRight", v, l, r>>, v, TrimRight(val[v], l, r))
StrTrimLeft(v, l, r)  == Gives(<<"StrTrimLeft", v, l, r>>, v, TrimLeft(val[v], l, r))
StrTrim(v, l, r)      == Gives(<<"StrTrim", v, l, r>>, v, Trim(val[v], l, r))

remove_forward_slash(v) ==
    Gives(<<"remove_forward_slash", v>>, v,
          IF \E c \in SLASHES : Pos(val[v], c, 0) = 0 THEN DeleteText(val[v], 0, 1) ELSE val[v])

\* ... or the same with other characters.
SetChar(v, i, c)    == Gives(<<"SetChar", v, i, c>>, v, [val[v] EXCEPT ![i + 1] = c])
UpCase(v)           == Gives(<<"UpCase", v>>, v, UpText(val[v]))
LowerCase(v)        == Gives(<<"LowerCase", v>>, v, LowerText(val[v]))
plus_to_space(v)    == Gives(<<"plus_to_space", v>>, v, PlusToSpace(val[v]))
underscore_clean(v) == Gives(<<"underscore_clean", v>>, v, UnderscoreClean(val[v]))
underscore_dirt(v)  == Gives(<<"underscore_dirt", v>>, v, UnderscoreDirt(val[v]))
Recode(v, t)        == <<val[v], t>> \in Recoding /\ Gives(<<"Recode", v, t>>, v, t)

-----------------------------------------------------------------------------

Create(v) == \/ \E t \in Word : Construct(v, t)
             \/ \E w \in Alive : ConstructCopy(v, w)

Reassign(v) == \/ \E t \in Word : AssignChars(v, t)
               \/ Free(v)
               \/ \E w \in Alive :
                     \/ Assign(v, w)
                     \/ Flush(v, w)
                     \/ \E a, n \in Around(val[w]) : AssignCopy(v, w, a, n) \/ CopyTo(w, a, n, v)

Extend(v) == \/ \E t \in Word : StrAppend(v, t)
             \/ \E w \in Alive : \/ AppendString(v, w)
                                 \/ \E pos \in 0..Len(val[v]) : StrInsert(v, pos, w)
             \/ append_backslash(v)

Shorten(v) == \/ \E p \in 0..Len(val[v]), n \in 0..(Len(val[v]) + 1) : StrDelete(v, p, n)
              \/ \E b \in Blank : \/ StrTrimRight(v, b[1], b[2])
                                  \/ StrTrimLeft(v, b[1], b[2])
                                  \/ StrTrim(v, b[1], b[2])
              \/ remove_forward_slash(v)

Rewrite(v) == \/ \E i \in 0..(Len(val[v]) - 1), c \in Char : SetChar(v, i, c)
              \/ UpCase(v) \/ LowerCase(v)
              \/ plus_to_space(v) \/ underscore_clean(v) \/ underscore_dirt(v)
              \/ \E t \in Text : Recode(v, t)

Next == \/ \E v \in Var \ Alive : Create(v)
        \/ \E v \in Alive : Destroy(v) \/ Reassign(v) \/ Extend(v) \/ Shorten(v) \/ Rewrite(v)

Spec == Init /\ [][Next]_<<val, call>>

=============================================================================
