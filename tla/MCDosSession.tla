---------------------------- MODULE MCDosSession ----------------------------
(* A source tree S with a subdirectory, a copy T, and the command lines on them. *)
EXTENDS DosSession

MCDirs  == {"root", "S", "S1", "T", "T1"}
N(b, e) == [base |-> b, ext |-> e]
MCNames == {N("A", "TXT"), N("A", "DOC"), N("B", "TXT"), N("A", "XRP"), N("B", "XRP"),
            N("S", ""), N("T", ""), N("SUB", ""), N("S", "XRP"), N("T", "XRP"), N("SUB", "XRP")}

F(b, e, t)    == [name |-> N(b, e), attr |-> "plain", text |-> t, opens |-> "nodir"]
RO(b, e, t)   == [F(b, e, t) EXCEPT !.attr = "readonly"]
D(b, d)       == [name |-> N(b, ""), attr |-> "dir", text |-> <<>>, opens |-> d]
Gap           == [F("A", "TXT", <<>>) EXCEPT !.attr = "free"]

\* The contents of S, S\SUB, T and T\SUB.
Tree(s, s1, t, t1) ==
    "root" :> <<D("S", "S"), D("T", "T")>> @@ "S" :> s @@ "S1" :> s1
    @@ "T" :> t @@ "T1" :> t1

Two == <<"a", "a", "n", "x">>
One == <<"a", "n">>

\* A copied tree; a gap in the directory for the first backup; a shared backup name.
Copy == Tree(<<Gap, F("A", "TXT", Two), D("SUB", "S1"), F("B", "TXT", <<"x">>)>>, <<F("A", "TXT", One)>>,
             <<F("A", "TXT", Two), F("B", "TXT", <<"x">>), D("SUB", "T1")>>, <<F("A", "TXT", One)>>)
Shared == Tree(<<F("A", "TXT", One), F("A", "DOC", <<"b", "a", "a", "b", "b", "a">>), D("SUB", "S1")>>, <<>>,
               <<F("A", "TXT", One), D("SUB", "T1")>>, <<>>)
\* An old backup, a binary file, a read-only file, an empty file; T without the subdirectory.
Odd == Tree(<<D("SUB", "S1"), F("A", "XRP", <<"o">>), F("A", "TXT", One)>>, <<F("A", "TXT", <<"z", "a">>), RO("B", "TXT", One)>>,
            <<F("A", "TXT", <<"a", "z">>)>>, <<>>)
Empty == Tree(<<F("B", "TXT", <<"a">>), D("SUB", "S1")>>, <<F("A", "TXT", <<>>), RO("B", "XRP", <<>>), F("B", "TXT", One)>>,
              <<[D("SUB", "T1") EXCEPT !.attr = "odddir"]>>, <<F("A", "TXT", <<>>)>>)
Hidden == [Copy EXCEPT !["S"][3].attr = "odddir", !["S"][4].attr = "hidden"]
\* A disk with no room for the backup.
Full == Tree(<<F("A", "TXT", Two), D("SUB", "S1")>>, <<>>, <<F("B", "TXT", [i \in 1..20 |-> "x"])>>, <<>>)

AllDisks == {Copy, Shared, Odd, Empty, Hidden, Full}

Dir(d)      == [whole |-> d, given |-> FALSE, dir |-> "nodir", flag |-> {}, wild |-> "none"]
In(d, w, f) == [whole |-> "nodir", given |-> TRUE, dir |-> d, flag |-> f, wild |-> w]
Here(w, f)  == [In("nodir", w, f) EXCEPT !.given = FALSE]
Txt         == {n \in MCNames : n.ext = "TXT"}

Pair(f, t)  == [kind |-> "pair", pair |-> [from |-> f, to |-> t]]
Line(k, f)  == [kind |-> k, pair |-> [from |-> f, to |-> <<>>]]
Comment     == Line("comment", <<"c">>)
Words(l, c) == [lines |-> l, closed |-> c]

\* a|b; a|bb with a comment after it, not closed; a blank line and its victim, x|xa, a
\* circular a|a, and a|b not closed; a line a without | before a comment or before b|..., not closed.
AtoB     == Words(<<Comment, Pair(<<"a">>, <<"b">>)>>, TRUE)
Comments == Words(<<Pair(<<"a">>, <<"b", "b">>), Comment>>, FALSE)
Blanks   == Words(<<Line("single", <<>>), Pair(<<"b">>, <<"c">>), Pair(<<"x">>, <<"x", "a">>),
                    Pair(<<"a">>, <<"a">>), Pair(<<"a">>, <<"b">>)>>, FALSE)
Singles  == Words(<<Line("single", <<"x">>), Comment, Line("single", <<"a">>), Pair(<<"b">>, <<"c">>)>>, FALSE)

Xrep(c, f, x)  == [program |-> "xrep", container |-> c, files |-> f, nosubdirs |-> x]
Xc(s, t, o)    == [program |-> "xc", source |-> s, target |-> t, options |-> o]

XrepCommands == {Xrep(AtoB, In("S", "*", Txt), FALSE), Xrep(Blanks, Dir("S"), TRUE), Xrep(AtoB, Dir("S"), FALSE),
                 Xrep(Comments, In("S1", "*", Txt), FALSE), Xrep(Singles, Dir("S"), TRUE),
                 Xrep(Words(<<>>, TRUE), Dir("S"), FALSE), Xrep(AtoB, In("nodir", "*", Txt), FALSE)}
XcCommands == {Xc(Dir("S"), Dir("T"), o) : o \in {{}, {"X"}, {"Z", "F"}, {"P", "E"}, {"P"}, {"S", "Q", "F"}}}
    \union {Xc(In("S", "*", Txt), Dir("T"), {"I"}), Xc(Dir("S"), In("T", "none", {N("A", "TXT")}), {}),
            Xc(In("S", "none", {N("A", "TXT")}), In("T", "none", {N("A", "TXT")}), {"F"}),
            Xc(In("S", "none", {N("A", "TXT")}), In("T", "?", Txt), {}),
            Xc(In("nodir", "*", Txt), Dir("T"), {}), Xc(Dir("S"), In("T", "*", Txt), {}),
            Xc(Dir("S"), In("T", "*.*", Txt), {"F"}),
            Xc(Here("none", {N("B", "TXT")}), Dir("T"), {})}

\* Anything, and then XREP again or XC on the trees.
TwoCommands == <<XrepCommands \union XcCommands,
                 {Xrep(AtoB, In("S", "*", Txt), FALSE), Xc(Dir("S"), Dir("T"), {})}>>
OneXrep     == <<XrepCommands>>

=============================================================================
