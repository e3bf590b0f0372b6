---------------------------- MODULE MCDeadStore ----------------------------
(* Bounded instances of DeadStoreElimination: every filling of the slots of *)
(* four program shapes.                                                    *)
EXTENDS DeadStoreElimination

MCVars == {"x", "y", "a", "b", "g", "p", "n"}
MCStatics == {"g"}
MCParams == {"n", "p"}
MCTypeOf == [v \in MCVars |-> CASE v = "p" -> "uint"
                                [] v \in {"a", "b"} -> "agg"
                                [] OTHER -> "int"]

\* Parameter n is arbitrary, p points to the static g, the locals hold what
\* the stack held.
MCMemories ==
    {[v \in MCVars |-> CASE v = "p" -> <<"a", "g">>
                         [] v = "n" -> N(c)
                         [] v = "a" -> <<"s", 0, 1>>
                         [] v = "b" -> <<"s", 1, 0>>
                         [] v \in {"x", "y"} -> N(1)
                         [] OTHER   -> N(0)] : c \in {0, 1}}

XtoY == Copy(V("x"), "y")
YtoX == Copy(V("y"), "x")
OneToX == Copy(N(1), "x")
ZeroToX == Copy(N(0), "x")
OneToG == Copy(N(1), "g")

\* Stores that a pointer, a callee, an atomic or a second return observes.
Straight ==
    {<<c1, c2, c3, c4, Return(o)>> :
        c1 \in {GetAddress("x", "p"), OneToG, XtoY, Setjmp("y")},
        c2 \in {OneToX, ZeroToX, OneToG, Copy(V("g"), "y")},
        c3 \in {Load(V("p"), "y"), Store(N(1), V("p")), Call(<<V("y")>>, "y"),
                ICall("x", <<>>, "y"), Atomic(V("p"), V("n"), "y"), Copy(N(0), "g")},
        c4 \in {ZeroToX, XtoY, OneToG, Call(<<>>, "y")},
        o \in {V("x"), V("y")}}

\* Whole and partial writes of aggregates.
Aggregates ==
    {<<c1, c2, c3, c4, Return(V("y"))>> :
        c1 \in {Put(V("n"), "a", "lo"), CopyStruct("a", "b"), VaStart("p")},
        c2 \in {Put(N(1), "a", "hi"), Put(V("x"), "b", "hi"), CopyStruct("b", "a")},
        c3 \in {CopyStruct("a", "b"), Get("b", "hi", "x"), Call(<<>>, "x")},
        c4 \in {Get("a", "lo", "y"), Get("b", "lo", "y"), XtoY}}

\* A store that is live only along the back edge, or only after the loop.
Loop ==
    {<<c1, Label("H"), c2, JumpIfZero(V("n"), "E"), c3, Call(<<V("y")>>, "n"), Jump("H"),
       Label("E"), c4, Return(V("y"))>> :
        c1 \in {OneToX, GetAddress("x", "p"), XtoY},
        c2 \in {XtoY, YtoX, Op(<<V("x")>>, "y"), ZeroToX},
        c3 \in {XtoY, OneToX, Op(<<V("y")>>, "x"), Load(V("p"), "y")},
        c4 \in {XtoY, Op(<<V("x")>>, "x"), OneToG}}

\* A loop that shows nothing to anyone until it ends.
Countdown ==
    {<<c1, c2, Label("H"), JumpIfZero(V("x"), "E"), c3, c4, Jump("H"), Label("E"), Return(o)>> :
        o \in {V("x"), V("y")}, c1 \in {OneToX, Copy(V("n"), "x")}, c2 \in {XtoY, Copy(N(0), "y")},
        c3 \in {YtoX, Op(<<V("x")>>, "y"), Get("a", "lo", "y")},
        c4 \in {YtoX, Op(<<V("x")>>, "x"), ZeroToX, Put(V("n"), "a", "lo")}}

\* An indirect jump, a call that leaves the function, an endless loop.
Exits ==
    {<<c1, LabelAddress("A", "p"), c2, JumpIndirect(V("p")), Label("B"), c3, Unreachable,
       Label("A"), XtoY, JumpIfZero(V("x"), "C"), OneToG, NonlocalJump("out"), Label("C"), c3,
       Longjmp(V("y"))>> :
        c1 \in {OneToX, ZeroToX}, c2 \in {XtoY, YtoX, OneToG}, c3 \in {YtoX, OneToG, Nop}}

MCPrograms == <<Straight, Aggregates, Loop, Countdown, Exits>>
============================================================================
