-------------------------------- MODULE Wide --------------------------------
(***************************************************************************)
(* Integers of twice the width of a register, as two limbs: __int128 for   *)
(* both targets.  The widths are scaled: a Longword has IntBits bits, a    *)
(* Quadword, which is a register or a limb, twice as many and an Octword   *)
(* four times as many.  So 31, 32, 63, 64, 127 of the code are written     *)
(* IntBits - 1, IntBits, LimbBits - 1, LimbBits, WideBits - 1 here.        *)
(***************************************************************************)
EXTENDS Integers, Sequences, SequencesExt, Bitwise

CONSTANT IntBits

ASSUME IntBitsAssumption == IntBits \in {4, 8}

LimbBits == 2 * IntBits
WideBits == 4 * IntBits
Limb == 0 .. 2^LimbBits - 1

Wrap(v, bits) == v % 2^bits
Signed(v, bits) == IF v >= 2^(bits - 1) THEN v - 2^bits ELSE v

LowLimb(v) == v % 2^LimbBits
HighLimb(v) == Wrap(v, WideBits) \div 2^LimbBits
Join(low, high) == low + high * 2^LimbBits

Powers == {2^k : k \in 1 .. WideBits - 1}
Log2(v) == CHOOSE k \in 0 .. WideBits : 2^k = v
----------------------------------------------------------------------------
(* Operands of an instruction: immediates, registers and the limbs of a    *)
(* variable in memory.                                                     *)
Imm(v) == <<"imm", v>>
Reg(r) == <<"reg", r>>
Cell(x, half) == <<"mem", x, half>>
IsImm(o) == o[1] = "imm"
IsReg(o) == o[1] = "reg"
IsMem(o) == o[1] = "mem"

None == <<"none">>
Instr(op, src, dst) == [op |-> op, src |-> src, dst |-> dst]
Mov(src, dst) == Instr("Mov", src, dst)
MovLong(src, dst) == Instr("MovLong", src, dst)      \* a Mov of a Longword
Invert(dst) == Instr("Not", None, dst)
Neg(dst) == Instr("Neg", None, dst)
Cmp(src, dst) == Instr("Cmp", src, dst)
SetCC(cc, dst) == Instr("SetCC", <<"cc", cc>>, dst)
Jmp(l) == Instr("Jmp", <<"label", l>>, None)
JmpCC(cc, l) == Instr("JmpCC", <<"cc", cc>>, <<"label", l>>)
Label(l) == Instr("Label", <<"label", l>>, None)
Call(helper) == Instr("Call", <<"helper", helper>>, None)

BinaryOps == {"Add", "AddSetFlags", "Adc", "Sub", "SubSetFlags", "Sbb", "Mul",
              "And", "Or", "Xor", "Sal", "Sar", "Shr"}
----------------------------------------------------------------------------
(* Operands of a TACKY instruction.  A variable is a pair of cells; a      *)
(* constant has a value and a type, and its halves are immediates.         *)
Place(low, high, unsigned) ==
    [const |-> FALSE, unsigned |-> unsigned, wide |-> TRUE, val |-> 0, low |-> low, high |-> high]

Var(x, unsigned) == Place(Cell(x, 0), Cell(x, 1), unsigned)

i128_parts(v, unsigned) ==
    [const |-> TRUE, unsigned |-> unsigned, wide |-> TRUE, val |-> v,
     low |-> Imm(Signed(LowLimb(v), LimbBits)), high |-> Imm(Signed(HighLimb(v), LimbBits))]

Constant(v) == i128_parts(v, FALSE)

i128_constant_is_zero(o) == o.const /\ o.val = 0
i128_constant_is_one(o) == o.const /\ o.val = 1
i128_constant_is_all_ones(o) == o.const /\ Wrap(o.val, WideBits) = 2^WideBits - 1
i128_constant_power_of_two(o) == o.const /\ o.val \in Powers
i128_constant_negative_power_of_two(o) == o.const /\ -o.val \in Powers

\* The shift that multiplies by a constant of one of the last two kinds.
ShiftOf(o) == Log2(IF o.val < 0 THEN -o.val ELSE o.val)
----------------------------------------------------------------------------
(* The machine: what registers and cells hold, the carry flag and what was *)
(* last compared.  The carry of a subtraction is a borrow on x86-64 and    *)
(* the opposite of one on AArch64.                                         *)
Value(m, o) == IF IsImm(o) THEN Wrap(o[2], LimbBits) ELSE m.at[o]

Store(m, o, v) == [m EXCEPT !.at[o] = v]

\* Writing the low half of a register clears its upper half; in memory the
\* bytes beside it stay.
StoreLong(m, o, v) ==
    LET upper == IF IsMem(o) THEN m.at[o] \div 2^IntBits ELSE 0
    IN Store(m, o, Wrap(v, IntBits) + upper * 2^IntBits)

Shift(op, v, amount) ==
    CASE op = "Sal" -> Wrap(v * 2^amount, LimbBits)
      [] op = "Shr" -> v \div 2^amount
      [] op = "Sar" -> Wrap(Signed(v, LimbBits) \div 2^amount, LimbBits)

Borrow(m) == IF m.target = "aarch64" THEN 1 - m.carry ELSE m.carry

\* What an operation makes of its destination and source, before wrapping.
Raw(m, op, d, s) ==
    CASE op \in {"Add", "AddSetFlags"} -> d + s
      [] op = "Adc" -> d + s + m.carry
      [] op \in {"Sub", "SubSetFlags"} -> d - s
      [] op = "Sbb" -> d - s - Borrow(m)
      [] op = "Mul" -> d * s
      [] op = "And" -> d & s
      [] op = "Or" -> d | s
      [] op = "Xor" -> d ^^ s
      [] OTHER -> Shift(op, d, s % LimbBits)

SetsCarry(m, op) ==
    \/ op \in {"AddSetFlags", "Adc", "SubSetFlags", "Sbb"}
    \/ m.target = "x86_64"

\* The logical operations clear the carry; what a shift leaves in it is not
\* read by anything that follows one here.
CarryOf(m, op, raw) ==
    CASE op \in {"Sub", "SubSetFlags", "Sbb"} ->
            IF (raw < 0) = (m.target = "x86_64") THEN 1 ELSE 0
      [] op \in {"Add", "AddSetFlags", "Adc", "Mul"} ->
            IF raw >= 2^LimbBits THEN 1 ELSE 0
      [] OTHER -> 0

Binary(m, i) ==
    LET raw == Raw(m, i.op, Value(m, i.dst), Value(m, i.src))
        stored == Store(m, i.dst, Wrap(raw, LimbBits))
    IN IF SetsCarry(m, i.op) THEN [stored EXCEPT !.carry = CarryOf(m, i.op, raw)]
       ELSE stored

Holds(m, cc) ==
    LET a == m.compared[1]
        b == m.compared[2]
        sa == Signed(a, LimbBits)
        sb == Signed(b, LimbBits)
    IN CASE cc = "E" -> a = b
         [] cc = "NE" -> a # b
         [] cc = "L" -> sa < sb
         [] cc = "GE" -> sa >= sb
         [] cc = "G" -> sa > sb
         [] cc = "B" -> a < b
         [] cc = "BE" -> a =< b
         [] cc = "A" -> a > b
         [] cc = "AE" -> a >= b

\* setcc writes a byte, a quarter of a Longword; cset a Longword.
Set(m, cc, dst) ==
    LET bit == IF Holds(m, cc) THEN 1 ELSE 0
    IN IF m.target = "aarch64" THEN StoreLong(m, dst, bit)
       ELSE LET byte == 2^(IntBits \div 4)
            IN Store(m, dst, (m.at[dst] \div byte) * byte + bit)
----------------------------------------------------------------------------
(* What C asks of the operations, for values as they are in memory.        *)
Truncated(x, y) ==
    LET q == (IF x < 0 THEN -x ELSE x) \div (IF y < 0 THEN -y ELSE y)
    IN IF (x < 0) = (y < 0) THEN q ELSE -q

Quotient(x, y, unsigned, bits) ==
    IF unsigned THEN x \div y ELSE Truncated(Signed(x, bits), Signed(y, bits))
Remainder(x, y, unsigned, bits) ==
    IF unsigned THEN x % y
    ELSE Signed(x, bits) - Truncated(Signed(x, bits), Signed(y, bits)) * Signed(y, bits)

\* By halves, which keeps the numbers small.
Product(x, y, bits) ==
    LET half == bits \div 2
    IN x * (y % 2^half) + Wrap(x * (y \div 2^half), half) * 2^half

Less(x, y, unsigned, bits) ==
    IF unsigned THEN x < y ELSE Signed(x, bits) < Signed(y, bits)

AsInt(b) == IF b THEN 1 ELSE 0
Relations == {"Equal", "NotEqual", "LessThan", "LessEqual", "GreaterThan", "GreaterEqual"}

Meaning(op, x, y, unsigned, bits) ==
    CASE op = "Add" -> x + y
      [] op = "Sub" -> x - y
      [] op = "Mul" -> Product(x, y, bits)
      [] op = "Div" -> Quotient(x, y, unsigned, bits)
      [] op = "Mod" -> Remainder(x, y, unsigned, bits)
      [] op = "BitwiseAnd" -> x & y
      [] op = "BitwiseOr" -> x | y
      [] op = "BitwiseXor" -> x ^^ y
      [] op = "ShiftLeft" -> (x % 2^(bits - y)) * 2^y
      [] op = "ShiftRight" -> IF unsigned THEN x \div 2^y ELSE Signed(x, bits) \div 2^y
      [] op = "Negate" -> -x
      [] op = "Complement" -> -x - 1
      [] op = "Equal" -> AsInt(x = y)
      [] op = "NotEqual" -> AsInt(x # y)
      [] op = "LessThan" -> AsInt(Less(x, y, unsigned, bits))
      [] op = "LessEqual" -> AsInt(~Less(y, x, unsigned, bits))
      [] op = "GreaterThan" -> AsInt(Less(y, x, unsigned, bits))
      [] op = "GreaterEqual" -> AsInt(~Less(x, y, unsigned, bits))
=============================================================================
