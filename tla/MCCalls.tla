------------------------------ MODULE MCCalls ------------------------------
(* Bounded instances of Calls: three integer and two floating registers,   *)
(* so that three or four parameters fill them and go on to the stack.      *)
EXTENDS Calls

Char == Scalar("char", 1)
Int4 == Scalar("int", 4)
Long == Scalar("long", 8)
Float == Scalar("float", 4)
Double == Scalar("double", 8)
LongDouble == Scalar("long double", 16)
Struct(members) == Aggregate(members, FALSE, FALSE, 1)
Union(members) == Aggregate(members, TRUE, FALSE, 1)

Word == Of("int")
Real == Of("flt")
Extended == Of("ld")
Wide == Of("i128")
Complex == ComplexOf("flt")
ComplexExtended == ComplexOf("ld")
Mixed == StructOf(Struct(<<Long, Double>>))
IntFloat == StructOf(Struct(<<Float, Char, Double>>))
Floats == StructOf(Struct(<<ArrayOf(Float, 3)>>))
Longs == StructOf(Struct(<<Long, Int4>>))
Either == StructOf(Union(<<Double, Struct(<<Int4, Float, Float>>)>>))
Small == StructOf(Struct(<<Char>>))
Packed == StructOf(Aggregate(<<Char, Long>>, FALSE, TRUE, 1))
Nested == StructOf(Struct(<<Double, Aggregate(<<Char, Int4>>, FALSE, TRUE, 1)>>))
Big == StructOf(Struct(<<ArrayOf(Long, 3)>>))
BigAligned == StructOf(Struct(<<LongDouble, Char>>))
Raised == StructOf(Aggregate(<<Long>>, FALSE, FALSE, 16))
HoldsExtended == StructOf(Struct(<<LongDouble>>))
Vector == VectorOf(32)
Empty == StructOf(Struct(<<>>))

Call(target, params, extras, variadic, local, ret) ==
    [target |-> target, params |-> params, extras |-> extras, variadic |-> variadic,
     local |-> local, ret |-> ret]

Seqs(S, n) == [1 .. n -> S]

X86Three ==
    {Call("x86_64", p, <<>>, FALSE, FALSE, r) :
        p \in Seqs({Word, Real, Extended, Wide, Mixed, Floats, Longs, BigAligned, Packed}, 3), r \in {Word, Big}}
X86Two ==
    {Call("x86_64", p, <<>>, FALSE, FALSE, r) :
        p \in Seqs({Word, Complex, ComplexExtended, IntFloat, Either, Nested, Vector, Raised, HoldsExtended, Empty, Small}, 2),
        r \in {Wide, Extended, Real, Complex, IntFloat, Floats, Longs, Packed, Vector}}
X86Five ==
    {Call("x86_64", p, <<>>, FALSE, FALSE, Mixed) : p \in Seqs({Word, Real, Mixed, Wide}, 5)}
X86Variadic ==
    {Call("x86_64", p, e, TRUE, l, Word) :
        p \in Seqs({Word, Extended, Longs, Big}, 2), e \in Seqs({Word, Real, Extended, Wide, Mixed, BigAligned}, 2),
        l \in BOOLEAN}

\* What takes two slots comes first: the callee does not skip to an even one, and
\* reads an i128 from the last integer register if only that is left.
Narrow == {Word, Real, Mixed, Floats, Longs, Big, Complex}
ArmFour ==
    {Call("aarch64-linux", <<w>> \o p, <<>>, FALSE, FALSE, r) :
        w \in {Word, Extended, Wide, BigAligned, Vector}, p \in Seqs(Narrow, 3), r \in {Word}}
ArmReturns ==
    {Call("aarch64-linux", <<w, Extended>>, <<>>, FALSE, FALSE, r) :
        w \in Narrow \cup {Packed, Either}, r \in {Extended, Wide, Complex, Mixed, IntFloat, Floats, Longs, Packed, Vector}}
ArmVariadic ==
    {Call("aarch64-macos", p, e, TRUE, TRUE, Word) :
        p \in Seqs({Word, Longs, Real}, 2), e \in Seqs({Word, Real, Wide, Mixed, BigAligned}, 2)}

MCCallSites == X86Three \cup X86Two \cup X86Five \cup X86Variadic \cup ArmFour \cup ArmReturns \cup ArmVariadic
=============================================================================
