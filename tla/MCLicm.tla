------------------------------ MODULE MCLicm ------------------------------
(* Bounded instances of Licm: every filling of the slots of six program    *)
(* shapes.  A temporary is defined before it is used, as the generator     *)
(* emits it.                                                               *)
EXTENDS Licm

MCVars == {"t", "s", "u", "x", "y", "a", "g", "p", "n"}
MCTemps == {"t", "s", "u"}
MCStatics == {"g"}
MCParams == {"n"}
MCTypeOf == [v \in MCVars |-> CASE v = "a" -> "agg" [] v = "p" -> "uint" [] OTHER -> "int"]

\* Parameter n is arbitrary, the locals hold what the stack held.
MCMemories ==
    {[v \in MCVars |-> CASE v = "n" -> N(c)
                         [] v = "a" -> <<"s", 0, 1>>
                         [] v \in {"x", "t"} -> N(1)
                         [] OTHER   -> N(0)] : c \in {0, 1}}

ToT == {Copy(V("x"), "t"), Op(<<V("x"), V("y")>>, "t"), Typed(V("x"), "t"), Op(<<V("g")>>, "t"),
        GetAddress("x", "t"), Get("a", "lo", "t"), Op(<<V("n")>>, "t"), FromFloat(V("x"), "t")}
UseT == {Call(<<V("t")>>, "n"), Op(<<N(1)>>, "y")}
Change == {Copy(N(0), "x"), Put(N(1), "a", "lo"), Copy(V("y"), "y"), Store(N(1), V("p"))}

\* A for loop, and a goto into one: something precedes the header.
For ==
    {<<GetAddress(q, "p"), Copy(N(1), "x"), Label("H"), d, Op(<<o>>, "s"), use,
       JumpIfZero(V("n"), "E"), c, Jump("H"), Label("E"), Return(V("s"))>> :
        q \in {"g", "x"}, d \in ToT, o \in {V("x"), V("y")}, use \in UseT, c \in Change}
    \cup
    {<<GetAddress("g", "p"), Copy(N(1), "x"), Jump("C"), Label("B"), c, Label("C"), d,
       Call(<<V("t")>>, "n"), JumpIfZero(V("n"), "B"), Return(V("x"))>> : d \in ToT, c \in Change}

\* A temporary whose source is a temporary, and one on a conditional path.
Chain ==
    {<<Copy(V("n"), "y"), Label("H"), d, Copy(V("t"), "s"), JumpIfZero(V("s"), "F"), Op(<<o>>, "u"),
       Label("F"), Copy(o, "x"), Call(<<V("s"), V("x")>>, "y"), JumpIfZero(V("y"), "H"), Return(V("x"))>> :
        d \in ToT \ {GetAddress("x", "t")}, o \in {V("y"), V("s"), N(0)}}
    \cup
    {<<Copy(V("n"), "y"), Label("H"), JumpIfZero(V("y"), "F"), d, Copy(V("t"), "x"), Jump("G"),
       Label("F"), Op(<<V("y")>>, "t"), Op(<<V("t")>>, "y"), Label("G"),
       Call(<<V("x")>>, "n"), JumpIfZero(V("n"), "H"), Return(V("y"))>> : d \in ToT}

\* A loop in a loop: what leaves the inner one may leave the outer one next.
Nested ==
    {<<c1, Label("H"), c2, Label("I"), d, Op(<<V("t")>>, "s"), Call(<<V("s")>>, "n"),
       JumpIfZero(V("n"), "I"), c3, Call(<<V("y")>>, "n"), JumpIfZero(V("n"), "H"), Return(V("x"))>> :
        c1 \in {Copy(N(0), "y"), GetAddress("y", "p")},
        d \in ToT \ {GetAddress("x", "t")}, c2 \in {Copy(V("y"), "x"), Copy(N(1), "y")},
        c3 \in {Copy(N(1), "x"), Copy(N(0), "y")}}

\* Two ways back to the header, one of them through continue; the loop may be
\* the first thing of the function with only one way back.
Continue ==
    {<<Copy(V("n"), "x"), Label("H"), d, Call(<<V("t")>>, "n"), JumpIfZero(V("n"), "E"),
       Call(<<V("x")>>, "y"), JumpIfZero(V("y"), "F"), Jump("H"), Label("F"), c, Jump("H"),
       Label("E"), Return(V("x"))>> : d \in ToT, c \in Change \ {Store(N(1), V("p"))}}
    \cup
    {<<Label("H"), d, Call(<<V("t")>>, "n"), JumpIfZero(V("n"), "E"), c, Jump("H"),
       Label("E"), Return(V("x"))>> : d \in ToT, c \in Change \ {Store(N(1), V("p"))}}

\* A loop whose end depends on what it computes, and code nothing reaches.
Countdown ==
    {<<Copy(V("n"), "x"), Jump("H"), Label("U"), Copy(N(0), "x"), Jump("H"), Label("H"), d,
       JumpIfZero(V("t"), "E"), c, Jump("H"), Label("E"), Return(V("x"))>> :
        d \in {Copy(V("x"), "t"), Op(<<V("x")>>, "t"), Copy(V("y"), "t")},
        c \in {Copy(N(0), "x"), Op(<<V("t")>>, "x"), Copy(N(1), "y")}}
    \cup
    {<<Copy(V("n"), "x"), Label("H"), d, JumpIfZero(V("t"), "E"), c, Jump("H"),
       Label("E"), Return(V("x"))>> :
        d \in {Copy(V("x"), "t"), Op(<<V("x")>>, "t"), Copy(V("y"), "t")},
        c \in {Copy(N(0), "x"), Op(<<V("t")>>, "x"), Copy(N(1), "y")}}

\* A division that the loop reaches only behind a call that may not return, or
\* not at all when it runs zero times, by a variable that may be zero.
Trapping ==
    {<<Copy(V("n"), "x"), Label("H"), Call(<<V("x")>>, "n"), Divide(N(1), o, "t"), c,
       Call(<<V("t")>>, "n"), JumpIfZero(V("n"), "H"), Return(V("t"))>> :
        o \in {V("x"), V("y"), N(0)}, c \in {Op(<<V("y")>>, "s"), Copy(N(1), "y"), Copy(N(0), "x")}}
    \cup
    {<<Copy(V("n"), "x"), Label("H"), JumpIfZero(V("x"), "E"), Divide(N(1), o, "t"),
       Call(<<V("t")>>, "x"), Jump("H"), Label("E"), Return(V("y"))>> : o \in {V("x"), V("y")}}
    \cup
    {<<GetAddress("y", "p"), Label("H"), Call(<<V("g")>>, "n"), Op(<<V("y")>>, "s"),
       Divide(V("s"), V("u"), "t"), Call(<<V("t")>>, "n"), JumpIfZero(V("n"), "H"), Return(V("t"))>>}

MCPrograms == <<Trapping, For, Chain, Nested, Continue, Countdown>>
============================================================================
