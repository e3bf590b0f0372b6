------------------------------ MODULE MCIpcp ------------------------------
(* Bounded instances of Ipcp: a function of a signed and an unsigned       *)
(* parameter, every filling of the slots of three bodies and up to two     *)
(* mentions of it.                                                         *)
EXTENDS Ipcp

MCVars == {"x", "y", "p", "a", "n", "m"}
MCStatics == {}
MCParams == {"n", "m"}
MCParamList == <<"n", "m">>
MCTypeOf == [v \in MCVars |-> CASE v \in {"p", "m"} -> "uint" [] v = "a" -> "agg" [] OTHER -> "int"]

MCMemories ==
    {[v \in MCVars |-> CASE v = "n" -> N(c)
                         [] v = "m" -> N(d)
                         [] v = "a" -> <<"s", 0, 1>>
                         [] OTHER   -> N(0)] : c, d \in {0, 1}}

Mention ==
    {Escape, OddCall, CallWith(<<N(0), N(1)>>), CallWith(<<N(1), N(1)>>), CallWith(<<V("x"), N(0)>>)}

MCMentions == {<<c>> : c \in Mention} \cup (Mention \X Mention)

Uses ==
    {Copy(V("n"), "x"), Op(<<V("n"), V("m")>>, "x"), Typed(V("n"), "x"), Call(<<V("n")>>, "m"),
     Put(V("m"), "a", "lo"), ICall("n", <<V("m")>>, "x")}

Changes == {Copy(V("m"), "n"), Op(<<V("n")>>, "n"), GetAddress("n", "p"), Nop}

Straight ==
    {<<c1, c2, Call(<<V("n"), V("x")>>, "y"), Return(V("m"))>> : c1 \in Changes, c2 \in Uses}

\* The address of a parameter taken, and the parameter written through it.
Pointer ==
    {<<c1, GetAddress("n", "p"), c2, Load(V("p"), "x"), Atomic(V("p"), V("m"), "y"), Return(o)>> :
        c1 \in Uses, c2 \in {Store(V("m"), V("p")), Store(N(0), V("p"))},
        o \in {V("n"), V("x"), V("y")}}

Join ==
    {<<JumpIfZero(V("n"), "L"), c1, Jump("E"), Label("L"), c2, Label("E"), c3,
       Get("a", "lo", "y"), Return(o)>> :
        c1, c2 \in {Copy(V("m"), "n"), GetAddress("n", "p"), Nop}, c3 \in Uses,
        o \in {V("n"), V("x")}}

MCPrograms == <<Straight, Pointer, Join>>
============================================================================
