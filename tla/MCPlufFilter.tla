---------------------------- MODULE MCPlufFilter ----------------------------
(* A dozen input syntaxes, inputs that fit them more or less, output syntaxes. *)
EXTENDS PlufFilter

Names == <<"A0", "A1", "A2", "A3", "A4">>

\* Tokens.
Sep(t)        == [t |-> t]
Named(n)      == [t |-> "open", name |-> n]
Leaf(k)       == [t |-> "leaf", kind |-> k, bound |-> -1, chars |-> {}, skip |-> FALSE]
Sized(k, n)   == [Leaf(k) EXCEPT !.bound = n]
Among(cs)     == [Leaf("char") EXCEPT !.chars = cs]
Skipped(k)    == [Leaf(k) EXCEPT !.skip = TRUE]
S == Leaf("string")
C == Leaf("char")
I == Leaf("integer")
Comma == Sep("comma")
Bar == Sep("bar")

MCFormats == {
    <<Named("un"), S, C, Comma, Named("deux"), Sized("string", 2), Skipped("return")>>,
    <<Sized("integer", 2), Bar, Sized("integer", 2), Among({97, 98}), Skipped("space")>>,
    <<Named("un"), Named("deux"), C, Comma, Sized("string", 2), Comma, Named("trois"), C, Bar, Named("A0"), C, Comma, Comma, C>>,
    <<Named("un"), Sized("string", 3), Comma, Comma, I>>,
    <<Skipped("space"), Skipped("return"), Skipped("tab")>>,
    <<S, Skipped("anything")>>,
    <<Skipped("space"), I, Skipped("char"), Skipped("return")>>,
    <<Sized("string", 0), Skipped("integer"), Named("un")>>,
    <<>>, <<Named("un"), C, Comma, Named("un"), C>>, <<C, Sep("bad")>>, <<Named("un"), Comma>>,
    <<Leaf("space"), Sized("integer", 0), Skipped("string")>>}

\* "ab12", newline, "ba 7"; "(a b)c"; "ab(ca"; "120012"; " -7a 10"; "a,b"; "c4(c)"; nothing.
MCInputs == {
    <<97, 98, 49, 50, 10, 98, 97, 32, 55>>, <<40, 97, 32, 98, 41, 99>>, <<97, 98, 40, 99, 97>>,
    <<49, 50, 48, 48, 49, 50>>, <<32, 45, 55, 97, 32, 49, 48>>, <<97, 44, 98>>, <<99, 52, 40, 99, 41>>, <<>>}

\* Items.
Ch(c)      == [i |-> "text", c |-> c]
Var(n)     == [i |-> "var", name |-> n]
Auto       == [i |-> "next"]
Op(o)      == [i |-> "op", op |-> o]
Pad(o, n)  == Op([o |-> o, c |-> 32, n |-> n])
Trims(s)   == Op([o |-> "trim", side |-> s])
Vector(n)  == Op([o |-> "vector", c |-> 44, n |-> n])
Part(o, a, n) == Op([o |-> o, at |-> a, n |-> n])
Side(sign, t) == [i |-> "compare", equal |-> sign = "=", items |-> t, missing |-> t = <<>>, from |-> 0]
Unclosed(sign, k) == [Side(sign, <<>>) EXCEPT !.missing = FALSE, !.from = k]

\* The last three are %un==a!b, where the first text is missing; %un=(a, that leads to its
\* third character; ab%un=(a, that leads back to the variable.
MCTemplates == {
    <<Var("un"), [i |-> "stuck"], Ch(97)>>,
    <<Var("Expression"), Ch(10)>>,
    <<Auto, Pad("left", 4), Ch(32), Auto, Pad("right", 0), Auto, Op([o |-> "month"])>>,
    <<Var("un"), Trims("b"), Trims("x"), Ch(120), Pad("left", 3), Var("A1"), Part("cut", 1, 1), Part("copy", 0, 2)>>,
    <<Var("Expression"), Side("=", <<Ch(65)>>), Side("=", <<Var("A0"), Part("cut", 3, 1)>>),
      Side("!", <<Auto, Vector(2), Pad("left", 3)>>), Trims("n")>>,
    <<Var("Expression"), Trims("l"), Trims("r"), Part("cut", 2, MISSING), Vector(MISSING), Op([o |-> "nochar"])>>,
    <<Op([o |-> "month"]), Var("A0"), Vector(1), Op([o |-> "escape", n |-> MISSING]), Var("A1"), Op([o |-> "month"])>>,
    <<Var("un"), Side("=", <<>>), Side("=", <<Ch(97)>>), Side("!", <<Ch(98)>>)>>,
    <<Var("un"), Unclosed("=", 3), Ch(110), Ch(61), Ch(40), Ch(97)>>,
    <<Ch(97), Ch(98), Var("un"), Unclosed("=", 3)>>}

=============================================================================
