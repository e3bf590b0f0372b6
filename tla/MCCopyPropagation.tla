------------------------- MODULE MCCopyPropagation -------------------------
(* Bounded instances of CopyPropagation: every filling of the slots of four *)
(* program shapes (straight line, branch and join, loop, indirect jumps).  *)
EXTENDS CopyPropagation

MCVars == {"x", "y", "u", "w", "a", "b", "g", "p", "n"}
MCStatics == {"g"}
MCParams == {"n", "p"}
MCTypeOf == [v \in MCVars |-> CASE v \in {"u", "p"} -> "uint"
                                [] v = "w" -> "wide"
                                [] v \in {"a", "b"} -> "agg"
                                [] OTHER -> "int"]

\* Parameter n is arbitrary, p points to the static g, the locals hold what
\* the stack held.
MCMemories ==
    {[v \in MCVars |-> CASE v = "p" -> <<"a", "g">>
                         [] v = "n" -> N(c)
                         [] v = "a" -> <<"s", 0, 1>>
                         [] v = "b" -> <<"s", 1, 0>>
                         [] v \in {"x", "u"} -> N(1)
                         [] OTHER   -> N(0)] : c \in {0, 1}}

XtoY == Copy(V("x"), "y")
YtoX == Copy(V("y"), "x")
OneToX == Copy(N(1), "x")
UseX == Op(<<V("x")>>, "y")

\* Clobbering between a copy and its use: by a redefinition, through a
\* pointer, by a callee, by an atomic, at a second return.
Straight ==
    {<<c1, c2, c3, c4, Return(V("y"))>> :
        c1 \in {XtoY, OneToX, GetAddress("x", "p"), Copy(V("x"), "u")},
        c2 \in {XtoY, YtoX, OneToX, Copy(V("g"), "x"), Copy(V("x"), "u"), Setjmp("y")},
        c3 \in {YtoX, Store(N(1), V("p")), Call(<<V("y")>>, "u"), Op(<<V("u")>>, "x"),
                Atomic(V("p"), V("x"), "y"), Copy(V("u"), "x"), Copy(V("x"), "g")},
        c4 \in {XtoY, UseX, Typed(V("u"), "y"), Typed(V("x"), "y"), Load(V("p"), "y")}}

\* Constants that carry a type, aggregates, calls through a pointer.
Special ==
    {<<c1, c2, c3, c4, Return(V("y"))>> :
        c1 \in {Copy(<<"w", 1>>, "w"), CopyStruct("a", "b"), Copy(V("p"), "u")},
        c2 \in {CopyStruct("b", "a"), Put(V("n"), "a", "lo"), Call(<<V("w")>>, "w"), OneToX},
        c3 \in {CopyStruct("a", "b"), Put(N(1), "b", "hi"), ICall("u", <<V("x")>>, "x"), VaStart("p")},
        c4 \in {Typed(V("w"), "y"), Get("b", "lo", "y"), Get("a", "hi", "y"), Op(<<V("w")>>, "y")}}

Join ==
    {<<c1, JumpIfZero(V("n"), "L1"), c2, Jump("L2"), Label("L1"), c3, Label("L2"), c4,
       Call(<<V("x"), V("u")>>, "u"), Return(V("y"))>> :
        c1 \in {OneToX, XtoY, Copy(N(0), "x")},
        c2 \in {OneToX, XtoY, YtoX},
        c3 \in {OneToX, XtoY, YtoX, Copy(N(0), "x"), Store(N(1), V("p"))},
        c4 \in {XtoY, YtoX, UseX}}

Loop ==
    {<<c1, Label("H"), c2, JumpIfZero(V("n"), "E"), c3, Call(<<V("x"), V("y")>>, "n"), Jump("H"),
       Label("E"), c4, Return(V("y"))>> :
        c1 \in {OneToX, XtoY},
        c2 \in {XtoY, YtoX, UseX, Copy(V("x"), "g")},
        c3 \in {XtoY, YtoX, OneToX, Copy(V("g"), "x"), Op(<<V("y")>>, "x")},
        c4 \in {XtoY, UseX}}

\* A loop that shows nothing to anyone until it ends.
Countdown ==
    {<<c1, Label("H"), JumpIfZero(V("x"), "E"), c2, c3, Jump("H"), Label("E"), Return(V("y"))>> :
        c1 \in {OneToX, Copy(V("n"), "x")}, c2 \in {XtoY, UseX, Copy(N(0), "y")},
        c3 \in {YtoX, Op(<<V("x")>>, "x"), Copy(N(0), "x")}}

\* Blocks reached by an indirect jump, and one that nothing reaches.
Indirect ==
    {<<c1, LabelAddress("A", "p"), c2, JumpIndirect(V("p")), Label("A"), c3, JumpIfZero(V("x"), "B"),
       LabelAddress("B", "p"), Jump("C"), Label("B"), Op(<<V("x")>>, "x"), Return(V("x")), c2,
       Label("C"), JumpIndirect(V("p"))>> :
        c1 \in {XtoY, OneToX, Copy(V("n"), "x")}, c2 \in {XtoY, YtoX}, c3 \in {XtoY, YtoX, OneToX}}

MCPrograms == <<Straight, Special, Join, Loop, Countdown, Indirect>>
============================================================================
