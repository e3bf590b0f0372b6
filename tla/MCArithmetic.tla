---------------------------- MODULE MCArithmetic ----------------------------
(***************************************************************************)
(* Every operation of both targets, signed and unsigned, on values around  *)
(* the boundaries of a half and with a constant on either side.            *)
(***************************************************************************)
EXTENDS Arithmetic

AllOnes == 2^WideBits - 1
Junk == 23130     \* 0x5a5a: in every register and in the result, before

\* The values of variables: the ends of both ranges, a carry and a borrow
\* between the halves, and limbs without a pattern.
Values == {0, 1, 255, 256, 32767, 32768, 43776, 53191, 65280, AllOnes}

Exponents == {1, 3, 4, 7, 8, 9, 14}
Special == {0, 1, 3, 255, 769, 4660, 11776} \cup {2^k : k \in Exponents}
Constants(unsigned) ==
    IF unsigned THEN Special \cup {32768, 65280, AllOnes}
    ELSE Special \cup {-v : v \in Special} \cup {-32768}

Ops == [arithmetic |-> {"Add", "Sub", "Mul", "Div", "Mod", "BitwiseAnd", "BitwiseOr",
                        "BitwiseXor"} \cup Relations,
        shift |-> {"ShiftLeft", "ShiftRight"},
        unary |-> {"Negate", "Complement"},
        limb |-> {"Div", "Mod"}]

\* Operands, for the operations of one kind, with the values they have.
Given(kind, left, right, x, y) ==
    [kind |-> kind, left |-> left, right |-> right, x |-> x, y |-> y]

Encoded(v) == Wrap(v, WideBits)

Arithmetics(u) ==
    LET l == Var("left", u)
        r == Var("right", u)
    IN {Given("arithmetic", l, r, x, y) : x \in Values, y \in Values}
       \cup {Given("arithmetic", l, l, x, x) : x \in Values}
       \cup {Given("arithmetic", l, i128_parts(c, u), x, Encoded(c)) :
                x \in Values, c \in Constants(u)}
       \cup {Given("arithmetic", i128_parts(c, u), r, Encoded(c), y) :
                c \in Constants(u), y \in Values}

Narrow(o) == [o EXCEPT !.wide = FALSE]
Counts == 0 .. WideBits - 1

ShiftOperands(u) ==
    {Given("shift", Var("left", u), i128_parts(n, v), x, n) :
        x \in Values, n \in Counts, v \in BOOLEAN}
    \cup {Given("shift", Var("left", u), r, x, n) : x \in Values, n \in Counts,
            r \in {Var("right", FALSE), Narrow(Var("right", FALSE))}}

\* The division of a Quadword, by a variable and by constants.
LimbValues == {0, 1, 15, 16, 127, 128, 171, 254, 255}
LimbConstants(unsigned) ==
    {1, 2, 3, 4, 8, 16, 64} \cup (IF unsigned THEN {100} ELSE {-1, -2, -3, -4, -8, -128})

LimbOperands(u) ==
    {Given("limb", Var("left", u), Var("right", u), x, y) : x \in LimbValues, y \in LimbValues}
    \cup {Given("limb", Var("left", u), Constant(c), x, Wrap(c, LimbBits)) :
            x \in LimbValues, c \in LimbConstants(u)}

Operands(u) ==
    Arithmetics(u) \cup ShiftOperands(u) \cup LimbOperands(u)
    \cup {Given("unary", Var("left", u), Constant(0), x, 0) : x \in Values}

Backends == {<<"x86_64", FALSE>>, <<"aarch64", FALSE>>, <<"aarch64", TRUE>>}

Job(backend, op, g) ==
    [target |-> backend[1], returned |-> backend[2], limb |-> g.kind = "limb", junk |-> Junk,
     op |-> op, unsigned |-> g.left.unsigned, left |-> g.left, right |-> g.right,
     x |-> g.x, y |-> g.y]

AllOps == UNION {Ops[kind] : kind \in DOMAIN Ops}

AllJobs ==
    {Job(c[1], c[2], c[3]) :
        c \in {c \in Backends \X AllOps \X (Operands(FALSE) \cup Operands(TRUE)) :
                /\ c[2] \in Ops[c[3].kind]
                /\ c[3].kind = "limb" => c[1][1] = "x86_64"}}
----------------------------------------------------------------------------
(* What C does not define.                                                 *)
Undefined(j) ==
    LET bits == IF j.limb THEN LimbBits ELSE WideBits
    IN /\ j.op \in {"Div", "Mod"}
       /\ \/ j.y = 0
          \/ ~j.unsigned /\ j.x = 2^(bits - 1) /\ j.y = 2^bits - 1

(* What the code gets wrong; the README says how.                          *)
Departs(j) ==
    LET power == -j.right.val \in Powers \/ j.right.val \in Powers
    IN \* x86-64: an unsigned constant as the count of a signed shift
       \/ /\ j.target = "x86_64"
          /\ j.op = "ShiftRight"
          /\ ~j.unsigned
          /\ j.right.const
          /\ j.right.unsigned
       \* x86-64: the mask of a signed division goes through R10, which it masks
       \/ /\ j.limb
          /\ ~j.unsigned
          /\ power
          /\ ShiftOf(j.right) \in IntBits .. LimbBits - 2
       \* AArch64: R10 is where the emitter loads a result that is in memory
       \/ /\ j.target = "aarch64"
          /\ ~j.returned
          /\ j.op \in {"Div", "Mod"}
          /\ ~j.unsigned
          /\ power
          /\ ShiftOf(j.right) < WideBits - 1
       \* AArch64: to subtract the immediate 0 the emitter adds it
       \/ /\ j.target = "aarch64"
          /\ j.op = "Sub"
          /\ j.right.const
          /\ j.right.val # 0
          /\ LowLimb(j.right.val) = 0

MCJobs == {j \in AllJobs : ~Undefined(j) /\ ~Departs(j)}
=============================================================================
