------------------------------ MODULE CString ------------------------------
(***************************************************************************)
(* The class CString of pluf (pluf/cstring.cpp): each variable holds a      *)
(* pointer, ICS, to a counted buffer that several variables may share, and  *)
(* a buffer is copied before it is written.  The program is sequential; a   *)
(* step is one call.  Var includes temporaries: a value returned by an      *)
(* operation is a variable created, used and destroyed.                    *)
(*                                                                         *)
(* UnReg deletes a buffer whose count reaches zero, which here means that   *)
(* the buffer can be allocated again.                                      *)
(*                                                                         *)
(* The model starts when EmptyICS, a static object of cstring.cpp, has been *)
(* constructed.  Static variables of other files (cfilter.cpp:13-22) may be *)
(* older: they counted themselves in memory that was still zero, and the    *)
(* constructor has written its 1 over their counts (cstring.cpp:10-17).     *)
(***************************************************************************)
EXTENDS CStringText, FiniteSets

CONSTANTS Var, Text, Word, Char, Recoding, NoText,   \* as in CStringValues
          Buffer,    \* what "new ICString" may return
          EmptyICS,  \* the static buffer of all empty texts
          NoICS,     \* "pointer" of a variable that does not exist
          MaxRefs    \* bound on the counts

ASSUME CStringAssumption ==
    /\ IsFiniteSet(Var)
    /\ <<>> \in Word /\ Word \subseteq Text /\ NoText \notin Text
    /\ Text \subseteq Seq(Int)
    /\ EmptyICS \notin Buffer /\ NoICS \notin Buffer \cup {EmptyICS}
    /\ MaxRefs \in Nat

VARIABLES ics,               \* the pointer of each variable
          refs, str,         \* the count and the text of each buffer
          ICSHandleDeleted,  \* EmptyICS has been destroyed: the program is ending
          call               \* history: the last call, as in CStringValues

vars == <<ics, refs, str, ICSHandleDeleted, call>>

ICString == Buffer \cup {EmptyICS}

Alive == {v \in Var : ics[v] # NoICS}

text(v) == str[ics[v]]

Init == /\ \E early \in SUBSET Var : ics = [v \in Var |-> IF v \in early THEN EmptyICS ELSE NoICS]
        /\ refs = [b \in ICString |-> IF b = EmptyICS THEN 1 ELSE 0]
        /\ str = [b \in ICString |-> <<>>]
        /\ ICSHandleDeleted = FALSE
        /\ call = <<>>

-----------------------------------------------------------------------------
(* Buffers.  "r" is the counts in the middle of a call.                     *)

Reg(r, b)   == [r EXCEPT ![b] = @ + 1]
UnReg(r, b) == [r EXCEPT ![b] = @ - 1]

Freed(r) == {b \in Buffer : r[b] = 0}

\* The texts once the buffers without count are deleted.
Kept(r) == [b \in ICString |-> IF b \in Freed(r) THEN <<>> ELSE str[b]]

\* v points to an existing buffer b and counts itself.
Point(v, b, r) == /\ ics' = [ics EXCEPT ![v] = b]
                  /\ refs' = Reg(r, b)
                  /\ str' = Kept(refs')

\* v points to a new buffer that holds t.
NewICS(v, t, r) == /\ t \in Text
                   /\ \E b \in Freed(r) : /\ ics' = [ics EXCEPT ![v] = b]
                                          /\ refs' = [r EXCEPT ![b] = 1]
                                          /\ str' = [Kept(r) EXCEPT ![b] = t]

\* Most operations build the new text apart, drop the buffer and take a new one.
Rebuild(v, t) == NewICS(v, t, UnReg(refs, ics[v]))

Skip == UNCHANGED <<ics, refs, str>>

-----------------------------------------------------------------------------
(* Slips, not part of Next.                                                 *)

\* A write that does not copy the buffer first.
WriteShared(v, t) == t \in Text /\ str' = [str EXCEPT ![ics[v]] = t] /\ UNCHANGED <<ics, refs>>

\* A copy constructor that does not count itself.
ConstructCopyUncounted(v, w) == ics' = [ics EXCEPT ![v] = ics[w]] /\ UNCHANGED <<refs, str>>

\* A Flush that forgets what its target pointed to, and one that gives up its own
\* buffer instead.
FlushKeepsTarget(v, w) == /\ ics' = [ics EXCEPT ![w] = ics[v], ![v] = EmptyICS]
                          /\ refs' = Reg(refs, EmptyICS)
                          /\ str' = str
FlushGivesOwn(v, w) == /\ ics' = [ics EXCEPT ![w] = ics[v], ![v] = EmptyICS]
                       /\ refs' = Reg(UnReg(refs, ics[v]), EmptyICS)
                       /\ str' = Kept(refs')

\* ICSCopy, then the buffer is written.
Write(v, t) == IF refs[ics[v]] > 1 THEN Rebuild(v, t)
               ELSE /\ t \in Text
                    /\ str' = [str EXCEPT ![ics[v]] = t]
                    /\ UNCHANGED <<ics, refs>>

-----------------------------------------------------------------------------
(* Constructors, destructor, assignment.                                    *)

Construct(v, t) ==
    IF t # <<>> THEN NewICS(v, t, refs) ELSE Point(v, EmptyICS, refs)

ConstructCopy(v, w) == Point(v, ics[w], refs)

Destroy(v) ==
    /\ ics' = [ics EXCEPT ![v] = NoICS]
    /\ IF ICSHandleDeleted THEN UNCHANGED <<refs, str>>
       ELSE refs' = UnReg(refs, ics[v]) /\ str' = Kept(refs')

Repoint(v, b) == Point(v, b, UnReg(refs, ics[v]))

Free(v) == IF ics[v] = EmptyICS THEN Skip ELSE Repoint(v, EmptyICS)

\* v = w, where b is the pointer of w: the third branch counts the buffer again.
AssignICS(v, b, same) ==
    IF ics[v] # b THEN Repoint(v, b)
    ELSE IF same THEN Skip
    ELSE refs[b] < MaxRefs /\ refs' = Reg(refs, b) /\ UNCHANGED <<ics, str>>

Assign(v, w) == AssignICS(v, ics[w], v = w)

AssignChars(v, t) ==
    IF t # <<>> THEN Rebuild(v, t) ELSE Repoint(v, EmptyICS)

\* v = w.Copy(start, len): the copy is a temporary, destroyed after the assignment.
AssignCopy(v, w, start, len) ==
    LET t == CopyText(text(w), start, len)
    IN  IF t # <<>> THEN Rebuild(v, t) ELSE AssignICS(v, EmptyICS, FALSE)

\* w.Copy(start, len, v) frees v first, even when v is w.
CopyTo(w, start, len, v) ==
    LET t == IF v = w THEN <<>> ELSE CopyText(text(w), start, len)
    IN  IF t # <<>> THEN Rebuild(v, t) ELSE Free(v)

\* v.Flush(w): the buffer of v goes to w.
Flush(v, w) == /\ ics' = [ics EXCEPT ![w] = ics[v], ![v] = EmptyICS]
               /\ refs' = Reg(UnReg(refs, ics[w]), EmptyICS)
               /\ str' = Kept(refs')

-----------------------------------------------------------------------------
(* Operations that change a text.                                           *)

StrAppend(v, t) == Rebuild(v, text(v) \o t)

\* += of a CString passes its characters, which EmptyICS has not (a null pointer).
AppendString(v, w) == IF ics[w] = EmptyICS THEN Skip ELSE StrAppend(v, text(w))

StrInsert(v, pos, w) ==
    IF text(w) = <<>> THEN Skip ELSE Rebuild(v, InsertText(text(v), pos, text(w)))

\* The two ends of StrDelete.
Cut(v, t) == IF t = <<>> THEN Free(v) ELSE Rebuild(v, t)

StrDelete(v, start, count) ==
    IF text(v) = <<>> \/ count = 0 THEN Skip ELSE Cut(v, DeleteText(text(v), start, count))

StrTrimRight(v, l, r) == IF text(v) = <<>> THEN Skip ELSE Cut(v, TrimRight(text(v), l, r))

StrTrimLeft(v, l, r) ==
    LET t == TrimLeft(text(v), l, r) IN IF t = text(v) THEN Skip ELSE Cut(v, t)

StrTrim(v, l, r) == IF text(v) = <<>> THEN Skip ELSE Cut(v, Trim(text(v), l, r))

\* The last character of s.  When s is empty, what lies before the buffer decides.
LastChar(s) == IF s = <<>> THEN {0} \cup SLASHES ELSE {s[Len(s)]}

append_backslash(v) ==
    IF ics[v] = EmptyICS THEN StrAppend(v, <<SLASH>>)
    ELSE \E c \in LastChar(text(v)) : IF c \in SLASHES THEN Skip ELSE StrAppend(v, <<SLASH>>)

remove_forward_slash(v) ==
    IF \E c \in SLASHES : Pos(text(v), c, 0) = 0 THEN StrDelete(v, 0, 1) ELSE Skip

\* v[i] = c: the reference returned by operator[] is written at once.
SetChar(v, i, c) == /\ i \in 0..(Len(text(v)) - 1)
                    /\ Write(v, [text(v) EXCEPT ![i + 1] = c])

\* UpCase, LowerCase, plus_to_space, underscore_clean, underscore_dirt: the buffer
\* is copied at the first character that changes.
Replace(v, t) == IF t = text(v) THEN Skip ELSE Write(v, t)

UpCase(v)           == Replace(v, UpText(text(v)))
LowerCase(v)        == Replace(v, LowerText(text(v)))
plus_to_space(v)    == Replace(v, PlusToSpace(text(v)))
underscore_clean(v) == Replace(v, UnderscoreClean(text(v)))
underscore_dirt(v)  == Replace(v, UnderscoreDirt(text(v)))

\* StrF, untreat_stupid, escape_url, unescape_url, Encrypt, Decrypt.
Recode(v, t) == text(v) # <<>> /\ <<text(v), t>> \in Recoding /\ Rebuild(v, t)

-----------------------------------------------------------------------------
(* The program.                                                             *)

\* Each disjunct is a call and records itself.
Create(v) == \/ \E t \in Word : Construct(v, t) /\ call' = <<"Construct", v, t>>
             \/ \E w \in Alive : ConstructCopy(v, w) /\ call' = <<"ConstructCopy", v, w>>

Reassign(v) ==
    \/ \E t \in Word : AssignChars(v, t) /\ call' = <<"AssignChars", v, t>>
    \/ Free(v) /\ call' = <<"Free", v>>
    \/ \E w \in Alive :
          \/ Assign(v, w) /\ call' = <<"Assign", v, w>>
          \/ Flush(v, w) /\ call' = <<"Flush", v, w>>
          \/ \E a, n \in Around(text(w)) :
                \/ AssignCopy(v, w, a, n) /\ call' = <<"AssignCopy", v, w, a, n>>
                \/ CopyTo(w, a, n, v) /\ call' = <<"CopyTo", w, a, n, v>>

Extend(v) ==
    \/ \E t \in Word : StrAppend(v, t) /\ call' = <<"StrAppend", v, t>>
    \/ \E w \in Alive :
          \/ AppendString(v, w) /\ call' = <<"AppendString", v, w>>
          \/ \E pos \in 0..Len(text(v)) :
                StrInsert(v, pos, w) /\ call' = <<"StrInsert", v, pos, w>>
    \/ append_backslash(v) /\ call' = <<"append_backslash", v>>

Shorten(v) ==
    \/ \E p \in 0..Len(text(v)), n \in 0..(Len(text(v)) + 1) :
          StrDelete(v, p, n) /\ call' = <<"StrDelete", v, p, n>>
    \/ \E b \in Blank :
          \/ StrTrimRight(v, b[1], b[2]) /\ call' = <<"StrTrimRight", v, b[1], b[2]>>
          \/ StrTrimLeft(v, b[1], b[2]) /\ call' = <<"StrTrimLeft", v, b[1], b[2]>>
          \/ StrTrim(v, b[1], b[2]) /\ call' = <<"StrTrim", v, b[1], b[2]>>
    \/ remove_forward_slash(v) /\ call' = <<"remove_forward_slash", v>>

Rewrite(v) ==
    \/ \E i \in 0..(Len(text(v)) - 1), c \in Char :
          SetChar(v, i, c) /\ call' = <<"SetChar", v, i, c>>
    \/ UpCase(v) /\ call' = <<"UpCase", v>>
    \/ LowerCase(v) /\ call' = <<"LowerCase", v>>
    \/ plus_to_space(v) /\ call' = <<"plus_to_space", v>>
    \/ underscore_clean(v) /\ call' = <<"underscore_clean", v>>
    \/ underscore_dirt(v) /\ call' = <<"underscore_dirt", v>>
    \/ \E t \in Text : Recode(v, t) /\ call' = <<"Recode", v, t>>

\* A call on a variable that exists, or the creation of one.
Call == /\ ~ICSHandleDeleted
        /\ \/ \E v \in Var \ Alive : Create(v)
           \/ \E v \in Alive : Reassign(v) \/ Extend(v) \/ Shorten(v) \/ Rewrite(v)
        /\ UNCHANGED ICSHandleDeleted

\* The end of a variable; static ones may outlive EmptyICS.
End == \E v \in Alive : Destroy(v) /\ call' = <<"Destroy", v>> /\ UNCHANGED ICSHandleDeleted

\* The destructor of EmptyICS, when the program ends.
DestroyEmptyICS == /\ ~ICSHandleDeleted
                   /\ ICSHandleDeleted' = TRUE
                   /\ UNCHANGED <<ics, refs, str, call>>

Next == Call \/ End \/ DestroyEmptyICS

Spec == Init /\ [][Next]_vars

-----------------------------------------------------------------------------
(* Properties.                                                              *)

Handles(b) == {v \in Var : ics[v] = b}

TypeOK == /\ ics \in [Var -> ICString \cup {NoICS}]
          /\ refs \in [ICString -> Int]
          /\ \A b \in Buffer : refs[b] >= 0
          /\ str \in [ICString -> Text]
          /\ ICSHandleDeleted \in BOOLEAN

\* A buffer counts at least the variables that point to it: UnReg never deletes one
\* that somebody still reads (cstring.cpp:64-66).  The count of EmptyICS shows nothing
\* once older variables have lost theirs in it; UnReg spares EmptyICS by its address.
CountsHandles == \A b \in Buffer : refs[b] >= Cardinality(Handles(b))

\* What a buffer counts beyond its variables is never given back: a leak.
Surplus(b) == refs[b] - Cardinality(Handles(b))

LeakExplained == ~ICSHandleDeleted =>
    \A b \in Buffer : Surplus(b)' > Surplus(b) =>
        /\ \E v, w \in Handles(b) : v # w
        /\ UNCHANGED <<ics, str>>

\* While the program runs, a leak has one cause: the assignment between two
\* variables that share the buffer already (cstring.cpp:655).
LeaksOnlyBySharedAssignment == [][LeakExplained]_vars

\* The sharing does not show: every call gives its variable the text that its name and
\* its arguments say, and no other variable changes (cstring.h:43-136; the copies on
\* write of cstring.cpp:73-79).  One call is not what its arguments say: a text copied
\* to itself is lost (cstring.cpp:417), which CStringValues states.
val == [v \in Var |-> IF ics[v] = NoICS THEN NoText ELSE text(v)]

Values == INSTANCE CStringValues

ValueSemantics == Values!Spec

=============================================================================
