---------------------------- MODULE MCRegAlloc ----------------------------
(***************************************************************************)
(* Four registers, two of which calls preserve, and functions of up to     *)
(* seven variables: every filling of the shapes below.                     *)
(***************************************************************************)
EXTENDS RegAlloc

MCColorOrder == <<"ax", "dx", "bx", "r12">>
MCCallerSaved == {"ax", "dx", "r10", "r11"}
MCArgRegs == <<"dx">>
MCSamples == {<<1, 1>>, <<0, 1>>}

a == P("a")
b == P("b")
c == P("c")
d == P("d")
e == P("e")
f == P("f")
AX == R("ax")
DX == R("dx")
R10 == R("r10")
R11 == R("r11")
R12 == R("r12")

Fn(body) == [code |-> body, aliased |-> {"m"}, result |-> {"ax"}]
Leave(o) == <<Mov("Q", o, AX), Ret>>

\* A value that is narrowed, widened and used again, or not.
Narrowing == {
    Fn(<<Mov("Q", DX, a), i, j, Bin("Q", "add", k, c)>> \o Leave(c)) :
      i \in {Mov("L", a, b), Mov("Q", a, b), Extend("sign", a, b), Extend("zero", a, b)},
      j \in {Mov("Q", a, c), Extend("sign", b, c), Mov("L", b, c), Mov("Q", Imm(5), c)},
      k \in {a, b}}

\* Values that live across calls, divisions and atomic operations.
Middle == {
    <<Mov("Q", a, DX), Call("f", 1), Mov("Q", AX, c)>>,
    <<Mov("Q", a, AX), Cdq("Q"), Idiv("Q", b), Mov("Q", DX, c)>>,
    <<Mov("L", a, AX), Cdq("L"), Idiv("L", b), Mov("L", AX, d), Extend("sign", d, c)>>,
    <<Mov("Q", a, R11), Mov("Q", b, R12), Mov("Q", a, R10), CompareExchange(c)>>,
    <<Mov("Q", a, R11), Mov("Q", b, R10), AtomicRmw("add", FALSE, c)>>,
    <<Cmp("L", a, b), Mov("Q", Imm(0), c), SetCC("l", c)>>,
    <<Mov("Q", a, P("m")), Mov("Q", b, c), Bin("Q", "sub", P("m"), c)>>}
Across == {
    Fn(<<Mov("Q", DX, a), Mov("Q", Imm(3), b)>> \o m \o n
       \o <<Bin("Q", "add", b, c)>> \o Leave(c)) : m, n \in Middle}

\* Loops in which variables trade places.
Exchange == {
    Fn(<<Mov("Q", DX, a), Mov("Q", Imm(1), b), Lbl(1), i, j, Mov("Q", c, b),
         Mov("Q", a, DX), Call("f", 1), Cmp(w, AX, a), JmpCC("ne", 1)>> \o Leave(b)) :
      i \in {Mov("Q", a, c), Mov("Q", b, c)},
      j \in {Mov("Q", b, a), Mov("L", b, a), Bin("Q", "sub", b, a)}, w \in {"L", "Q"}}

\* More values than registers, some of them copies of others.
Crowded == {
    Fn(<<Mov("Q", DX, a), Call("g", 0), Mov("Q", AX, b), Call("g", 0), Mov("Q", AX, c),
         i, j, Mov("Q", b, f), Bin("Q", "add", a, d), Bin("Q", "add", c, e),
         Mov("Q", d, DX), Call("f", 1), Bin("Q", "sub", e, f), Bin("Q", "add", AX, f)>>
       \o k \o Leave(f)) :
      i \in {Mov("Q", a, d), Mov("L", b, d)}, j \in {Mov("Q", c, e), Mov("Q", b, e)},
      k \in {<<>>, <<Bin("Q", "add", c, f)>>, <<Bin("Q", "add", a, f), Bin("Q", "sub", b, f)>>}}

\* A copy made while every register is taken by a value in heavier use.
Copied == {
    Fn(<<Mov("Q", DX, a), Mov("Q", Imm(1), b), Mov("Q", Imm(2), c), Call("g", 0), i, Call("g", 0),
         Bin("Q", "add", b, c), Bin("Q", "sub", c, b), Bin("Q", "add", b, c),
         Bin("Q", "add", d, c)>> \o Leave(c)) :
      i \in {Mov("Q", a, d), Mov("L", a, d), Extend("zero", a, d)}}

\* A jump to an address.
Computed == {
    Fn(<<LabelAddress(1, a), Mov("Q", DX, b), Cmp("Q", b, Imm(1)), JmpCC(cc, 2),
         LabelAddress(2, a), Lbl(2), Mov("Q", b, c), LabelAddress(3, d), Mov("Q", a, e),
         Mov("Q", d, a), JmpIndirect(e), Lbl(1), Bin("Q", "add", Imm(1), c), JmpIndirect(a),
         Lbl(3)>> \o Leave(c)) : cc \in {"l", "e"}}

MCFunctions == Narrowing \cup Across \cup Exchange \cup Crowded \cup Copied \cup Computed
=============================================================================
