----------------------------- MODULE MCCString -----------------------------
(***************************************************************************)
(* Texts for the run of CString: a few of at most two characters, enough    *)
(* for every operation to have an effect and for most to have several.     *)
(***************************************************************************)
EXTENDS CString, TLC

CONSTANTS v1, v2, v3, b1, b2

a == 97
A == 65

MCText == {<<>>, <<SPACE>>, <<a>>, <<A>>, <<UNDERSCORE>>, <<SLASH>>, <<a, SPACE>>, <<SPACE, a>>}

MCWord == {<<>>, <<a>>, <<SPACE>>}

MCChar == {A, UNDERSCORE}

\* StrF keeps letters and digits of these texts.
MCRecoding == {<<s, t>> \in MCText \X MCText :
                  t = SelectSeq(s, LAMBDA c : c \in {a, A})}

\* States are one that differ only in the last call, which is history, or in the count
\* of EmptyICS, which no call reads before it writes: EmptyICS has no character to write.
View == <<ics, [b \in Buffer |-> refs[b]], str, ICSHandleDeleted>>

Symmetry == Permutations({v1, v2, v3}) \cup Permutations({b1, b2})

=============================================================================
