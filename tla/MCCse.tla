------------------------------- MODULE MCCse -------------------------------
(* Bounded instances of Cse: every filling of the slots of six program     *)
(* shapes, each given to both passes.                                      *)
EXTENDS Cse

MCVars == {"x", "y", "u", "v", "z", "a", "b", "g", "p", "q", "n"}
MCStatics == {"g"}
MCParams == {"n"}
MCTypeOf == [w \in MCVars |-> CASE w = "v" -> "uint"
                                [] w \in {"a", "b"} -> "agg"
                                [] OTHER -> "int"]

\* Parameter n is 0 or 3 (-1 as an int), p and q point to the static g.
MCMemories ==
    {[w \in MCVars |-> CASE w \in {"p", "q"} -> <<"a", "g">>
                         [] w = "n" -> N(c)
                         [] w = "a" -> <<"s", 2, 1>>
                         [] w = "b" -> <<"s", 1, 2>>
                         [] w = "x" -> N(3)
                         [] w = "y" -> N(1)
                         [] w = "v" -> N(3)
                         [] OTHER   -> N(0)] : c \in {0, 3}}

Sum(d) == Op(<<V("x"), V("y")>>, d)
Swapped(d) == Op(<<V("y"), V("x")>>, d)
Show == <<Call(<<V("u"), V("z")>>, ""), Return(V("x"))>>

\* A computation, something that may spoil it, and the computation again.
Straight ==
    {<<c1, c2, c3>> \o Show :
        c1 \in {Sum("u"), Sum("x"), Subtract(V("x"), V("y"), "u"), Typed(V("x"), "u"),
                Load(V("p"), "u"), Divide(V("x"), V("y"), "u"), Op(<<V("n"), V("y")>>, "u")},
        c2 \in {Copy(N(2), "x"), Copy(N(2), "y"), Copy(N(2), "u"), Copy(N(2), "g"),
                Copy(V("q"), "p"), Store(V("y"), V("p")), Call(<<>>, "z"),
                Atomic(V("p"), V("y"), "z"), Setjmp("y"), Swapped("z")},
        c3 \in {Sum("z"), Swapped("z"), Subtract(V("x"), V("y"), "z"), Subtract(V("y"), V("x"), "z"),
                Typed(V("x"), "z"), Typed(V("v"), "z"), Load(V("p"), "z"), Load(V("q"), "z"),
                Divide(V("x"), V("y"), "z"), Op(<<V("n"), V("y")>>, "z"), Sum("v")}}

\* Members of aggregates, addresses, and a variable whose address was taken.
Members ==
    {<<c1, c2, c3, c4>> \o Show :
        c1 \in {Get("a", "lo", "u"), Get("b", "hi", "u"), GetAddress("x", "q"), Get("a", "lo", "x")},
        c2 \in {Put(V("y"), "a", "lo"), Put(V("y"), "b", "lo"), CopyStruct("b", "a"),
                Store(N(2), V("q")), ICall("u", <<>>, "u"), VaStart("y"), Copy(N(0), "u"),
                FrameAddress("p"), Nop},
        c3 \in {Get("a", "lo", "z"), Get("a", "hi", "z"), GetAddress("x", "p"), Sum("z"),
                Get("b", "hi", "z")},
        c4 \in {Get("a", "lo", "z"), Get("a", "lo", "y"), Load(V("q"), "z"), FrameAddress("y"),
                Get("b", "hi", "u")}}

\* A call between may come back to the setjmp.
Again ==
    {<<c1, Setjmp("n"), c2, Call(<<V("u")>>, ""), c3>> \o Show :
        c1 \in {Sum("u"), Load(V("p"), "u")}, c2 \in {Sum("z"), Load(V("p"), "z"), Copy(N(1), "x")},
        c3 \in {Sum("u"), Sum("z"), Load(V("p"), "z"), Copy(N(0), "y")}}

Join ==
    {<<c1, JumpIfZero(V("n"), "L1"), c2, Jump("L2"), Label("L1"), c3, Label("L2"), c4>> \o Show :
        c1 \in {Sum("u"), Load(V("p"), "u"), Nop},
        c2 \in {Sum("u"), Swapped("z"), Copy(N(2), "x"), Load(V("p"), "u"), Copy(V("y"), "g")},
        c3 \in {Sum("u"), Sum("z"), Copy(N(1), "u"), Store(N(2), V("p"))},
        c4 \in {Sum("z"), Swapped("u"), Load(V("p"), "z")}}

Loop ==
    {<<c1, Label("H"), JumpIfZero(V("n"), "E"), c2, c3, Jump("H"), Label("E"), c4>> \o Show :
        c1 \in {Sum("u"), Load(V("p"), "u")},
        c2 \in {Sum("z"), Sum("u"), Copy(V("z"), "x"), Load(V("p"), "z"), Store(V("u"), V("p"))},
        c3 \in {Op(<<V("n")>>, "n"), Copy(N(0), "n")},
        c4 \in {Sum("z"), Swapped("u"), Load(V("p"), "z")}}

\* Blocks in the order an indirect jump may reach them.
Indirect ==
    {<<LabelAddress("A", "q"), c1, LabelAddress("A", "p"), JumpIndirect(V("q")), Label("A"), c2,
       JumpIfZero(V("n"), "B"), LabelAddress("B", "p"), Label("C"), JumpIndirect(V("p")),
       Label("B"), c3>> \o Show :
        c1 \in {Sum("u"), Copy(N(2), "x")}, c2 \in {Sum("u"), Swapped("z"), Copy(N(0), "y")},
        c3 \in {Sum("z"), LabelAddress("A", "y")}}

MCPrograms == <<Straight, Members, Again, Join, Loop, Indirect>>
============================================================================
