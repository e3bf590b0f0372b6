--------------------------- MODULE MCUnreachable ---------------------------
(* Bounded instances of UnreachableCode: every filling of the slots of five *)
(* program shapes.                                                         *)
EXTENDS UnreachableCode

MCVars == {"x", "n", "p"}
MCStatics == {}
MCParams == {"n"}
MCTypeOf == [v \in MCVars |-> IF v = "p" THEN "uint" ELSE "int"]
MCMemories == {[v \in MCVars |-> IF v = "n" THEN N(c) ELSE N(1)] : c \in {0, 1}}

OneToX == Copy(N(1), "x")
Jumps == {Jump("A"), Jump("B"), Jump("C")}

\* Chains of jumps: straight, joining, cyclic, through adjacent labels.
Chains ==
    {<<JumpIfZero(V("n"), l1), Jump(l2), Label("A"), i1, Label("B"), i2, Label("C"), i3,
       Call(<<V("x")>>, "x"), Return(V("x"))>> :
        l1, l2 \in {"A", "B", "C"},
        i1 \in Jumps \cup {Nop}, i2 \in Jumps \cup {Copy(N(0), "x")},
        i3 \in {Jump("A"), Jump("B"), Nop, Return(V("n")), Op(<<V("x")>>, "x")}}

\* Chains whose labels lie apart, so that no jump of theirs is redundant.
Apart ==
    {<<JumpIfZero(V("n"), "D"), JumpIfZero(V("x"), "E"), Label("A"), i1, Label("D"), Return(V("x")),
       Label("B"), i2, Label("E"), Call(<<V("n")>>, "x"), Return(V("n")), Label("C"), i3>> :
        i1, i2 \in Jumps \cup {Nop}, i3 \in Jumps}

\* A loop that shows nothing until it ends, entered through a jump to its test.
Countdown ==
    {<<Copy(V("n"), "x"), Jump(l), Label("A"), c, Jump("B"), Label("B"), JumpIfZero(V("x"), "A"),
       Jump("C"), Label("C"), Return(V("x"))>> :
        l \in {"A", "B"}, c \in {OneToX, Op(<<V("x")>>, "x"), Nop}}

\* Code behind what leaves the function, reached or not by a jump over it.
Exits ==
    {<<c, e1, OneToX, Label("A"), OneToX, e2, Nop, Label("B"), Copy(N(0), "x"), Label("C"), e3>> :
        c \in {JumpIfZero(V("n"), "A"), JumpIfZero(V("n"), "B"), Setjmp("x"), Nop},
        e1 \in {Return(V("x")), NonlocalJump("outer"), Jump("C"), Call(<<>>, "x")},
        e2 \in {Unreachable, Longjmp(V("x")), Jump("C")},
        e3 \in {Return(V("x")), Jump("A")}}

\* Labels whose address is taken: an indirect jump leads to them, or control
\* falls into them.
Addressed ==
    {<<LabelAddress("A", "p"), c, JumpIfZero(V("n"), "B"), e, Label("A"), Jump("C"), Label("B"),
       Call(<<V("p")>>, "x"), Return(V("x")), Label("C"), OneToX, Jump("B")>> :
        c \in {Nop, LabelAddress("B", "p")},
        e \in {JumpIndirect(V("p")), OneToX, JumpIfZero(V("x"), "A")}}
    \cup
    {<<LabelAddress(l, "p"), Jump("D"), Label("A"), OneToX, Label("B"), Call(<<V("p")>>, "n"),
       Label("C"), Return(V("x")), Label("D"), OneToX, e>> :
        l \in {"A", "B", "D"}, e \in {Jump("A"), JumpIndirect(V("p"))}}

MCPrograms == <<Chains, Apart, Countdown, Exits, Addressed>>
============================================================================
