----------------------------- MODULE SelectX86 -----------------------------
(***************************************************************************)
(* The instructions the x86-64 backend selects for the arithmetic of       *)
(* __int128 and for the division of a Quadword, and what its fixup makes   *)
(* of an instruction whose operands cannot be encoded.  The fixup takes    *)
(* R10 and R11 for itself; the selection uses both, too.                   *)
(***************************************************************************)
EXTENDS Wide

R10 == Reg("R10")
R11 == Reg("R11")
AX == Reg("AX")
CX == Reg("CX")
DX == Reg("DX")
----------------------------------------------------------------------------
emit_i128_parts_to_operands(low, high, d) ==
    SelectSeq(<<Mov(low, d.low), Mov(high, d.high)>>, LAMBDA i : i.src # i.dst)

emit_i128_copy(src, d) == emit_i128_parts_to_operands(src.low, src.high, d)
emit_i128_zero(d) == emit_i128_parts_to_operands(Imm(0), Imm(0), d)
emit_i128_not(d) == <<Invert(d.low), Invert(d.high)>>

emit_i128_negate(d) ==
    emit_i128_not(d) \o
    <<Instr("AddSetFlags", Imm(1), d.low), Instr("Adc", Imm(0), d.high)>>

emit_i128_zero_cmp(v) == <<Mov(v.low, R10), Instr("Or", v.high, R10), Cmp(Imm(0), R10)>>

\* (Mutant: the mask is not loaded into R11 first; an immediate that is too
\* wide goes through R10, where the sign is.)
BiasThroughR10(d, n) ==
    LET mask == Imm(2^(n % LimbBits) - 1)
    IN <<Mov(d.high, R10), Instr("Sar", Imm(LimbBits - 1), R10), Instr("And", mask, R10),
         Instr("AddSetFlags", R10, d.low), Instr("Adc", Imm(0), d.high)>>

\* Adds 2^n - 1 to a dividend that is negative, so that an arithmetic shift
\* rounds towards zero.
emit_i128_signed_power_of_two_division_bias(d, n) ==
    LET add(low, high) ==
            <<Instr("AddSetFlags", low, d.low), Instr("Adc", high, d.high)>>
    IN <<Mov(d.high, R10), Instr("Sar", Imm(LimbBits - 1), R10)>> \o
       CASE n \in 1 .. IntBits - 1 ->
                <<Instr("And", Imm(2^n - 1), R10)>> \o add(R10, Imm(0))
         [] n \in IntBits .. LimbBits - 1 ->
                <<Mov(Imm(2^n - 1), R11), Instr("And", R10, R11)>> \o add(R11, Imm(0))
         [] n = LimbBits -> add(R10, Imm(0))
         [] n \in LimbBits + 1 .. WideBits - 2 ->
                <<Mov(Imm(2^(n - LimbBits) - 1), R11), Instr("And", R10, R11)>>
                \o add(R10, R11)
----------------------------------------------------------------------------
(* Shifts.  A count that is not a constant is taken bit by bit.            *)
ShiftLeft(left, n, d) ==
    emit_i128_copy(left, d) \o
    CASE n = 0 -> <<>>
      [] n \in 1 .. LimbBits - 1 ->
            <<Mov(d.low, R10), Instr("Sal", Imm(n), d.high),
              Instr("Shr", Imm(LimbBits - n), R10), Instr("Or", R10, d.high),
              Instr("Sal", Imm(n), d.low)>>
      [] n = LimbBits -> <<Mov(d.low, d.high), Mov(Imm(0), d.low)>>
      [] n > LimbBits ->
            <<Mov(d.low, d.high), Instr("Sal", Imm(n - LimbBits), d.high), Mov(Imm(0), d.low)>>

ShiftRight(left, n, d, unsigned) ==
    LET high_shift == IF unsigned THEN "Shr" ELSE "Sar"
    IN emit_i128_copy(left, d) \o
       CASE n = 0 -> <<>>
         [] n \in 1 .. LimbBits - 1 ->
               <<Mov(d.high, R10), Instr("Shr", Imm(n), d.low),
                 Instr("Sal", Imm(LimbBits - n), R10), Instr("Or", R10, d.low),
                 Instr(high_shift, Imm(n), d.high)>>
         [] n = LimbBits /\ unsigned -> <<Mov(d.high, d.low), Mov(Imm(0), d.high)>>
         [] n = LimbBits /\ ~unsigned ->
               <<Mov(d.high, d.low), Mov(d.high, R10), Instr("Sar", Imm(LimbBits - 1), R10),
                 Mov(R10, d.high)>>
         [] n > LimbBits ->
               <<Mov(d.high, d.low), Instr(high_shift, Imm(n - LimbBits), d.low),
                 IF unsigned THEN Mov(Imm(0), d.high)
                 ELSE Instr("Sar", Imm(LimbBits - 1), d.high)>>

emit_i128_variable_shift(op, left, right, d) ==
    LET R9 == Reg("R9")
        high_shift == IF left.unsigned THEN "Shr" ELSE "Sar"
        one_bit ==
            IF op = "ShiftLeft"
            THEN <<Mov(R10, R9), Instr("Shr", Imm(LimbBits - 1), R9), Instr("Sal", Imm(1), R10),
                   Instr("Sal", Imm(1), R11), Instr("Or", R9, R11)>>
            ELSE <<Mov(R11, R9), Instr("Sal", Imm(LimbBits - 1), R9), Instr("Shr", Imm(1), R10),
                   Instr(high_shift, Imm(1), R11), Instr("Or", R9, R10)>>
    IN <<Mov(left.low, R10), Mov(left.high, R11), MovLong(right.low, CX),
         Label("i128_shift_loop"), Cmp(Imm(0), CX), JmpCC("E", "i128_shift_end")>>
       \o one_bit \o
       <<Instr("Sub", Imm(1), CX), Jmp("i128_shift_loop"), Label("i128_shift_end")>>
       \o emit_i128_parts_to_operands(R10, R11, d)

emit_i128_shift(op, left, right, d) ==
    IF ~right.const \/ right.val \notin 0 .. WideBits - 1
    THEN emit_i128_variable_shift(op, left, right, d)
    ELSE IF op = "ShiftLeft" THEN ShiftLeft(left, right.val, d)
    ELSE ShiftRight(left, right.val, d, left.unsigned \/ right.unsigned)
----------------------------------------------------------------------------
(* Comparisons write a Longword: dst is what holds it.                     *)
Answer(cc, dst) == <<MovLong(Imm(0), dst), SetCC(cc, dst)>>

\* v < 0 and v >= 0, whichever side the zero is on.
AgainstZero(op, v, unsigned, dst) ==
    IF ~unsigned
    THEN <<Cmp(Imm(0), v.high)>> \o Answer(IF op = "LessThan" THEN "L" ELSE "GE", dst)
    ELSE <<MovLong(Imm(IF op = "GreaterEqual" THEN 1 ELSE 0), dst)>>

\* v > 0 and v <= 0 of unsigned values.
AboveZero(op, v, dst) ==
    emit_i128_zero_cmp(v) \o Answer(IF op = "GreaterThan" THEN "NE" ELSE "E", dst)

Mirrored(op) ==
    CASE op = "LessThan" -> "GreaterThan"
      [] op = "LessEqual" -> "GreaterEqual"
      [] op = "GreaterThan" -> "LessThan"
      [] op = "GreaterEqual" -> "LessEqual"

Equality(op, left, right, dst) ==
    LET differ == IF op = "Equal" THEN "i128_cmp_end" ELSE "i128_cmp_true"
    IN <<MovLong(Imm(0), dst),
         Cmp(right.high, left.high), JmpCC("NE", differ),
         Cmp(right.low, left.low), JmpCC("NE", differ)>>
       \o (IF op = "Equal" THEN <<>> ELSE <<Jmp("i128_cmp_end")>>) \o
       <<Label("i128_cmp_true"), MovLong(Imm(1), dst), Label("i128_cmp_end")>>

\* The conditions on the high halves that decide, and the one on the low
\* halves that is left when the high halves are equal.
Conditions(op, unsigned) ==
    LET less == IF unsigned THEN "B" ELSE "L"
        greater == IF unsigned THEN "A" ELSE "G"
    IN CASE op = "LessThan" -> <<less, greater, "B">>
         [] op = "LessEqual" -> <<less, greater, "BE">>
         [] op = "GreaterThan" -> <<greater, less, "A">>
         [] op = "GreaterEqual" -> <<greater, less, "AE">>

Ordering(op, left, right, dst, unsigned) ==
    LET cc == Conditions(op, unsigned)
    IN <<MovLong(Imm(0), dst),
         Cmp(right.high, left.high), JmpCC(cc[1], "i128_cmp_true"), JmpCC(cc[2], "i128_cmp_end"),
         Cmp(right.low, left.low), JmpCC(cc[3], "i128_cmp_true"), Jmp("i128_cmp_end"),
         Label("i128_cmp_true"), MovLong(Imm(1), dst), Label("i128_cmp_end")>>

Comparison(op, left, right, dst) ==
    LET unsigned == left.unsigned \/ right.unsigned
        zero_left == i128_constant_is_zero(left)
        zero_right == i128_constant_is_zero(right)
        value == IF zero_left THEN right ELSE left
        relation == IF zero_left /\ op \notin {"Equal", "NotEqual"} THEN Mirrored(op) ELSE op
    IN CASE relation \in {"LessThan", "GreaterEqual"} /\ (zero_left \/ zero_right) ->
                AgainstZero(relation, value, unsigned, dst)
         [] relation \in {"GreaterThan", "LessEqual"} /\ (zero_left \/ zero_right) /\ unsigned ->
                AboveZero(relation, value, dst)
         [] op \in {"Equal", "NotEqual"} /\ (zero_left \/ zero_right) ->
                emit_i128_zero_cmp(value) \o Answer(IF op = "Equal" THEN "E" ELSE "NE", dst)
         [] op \in {"Equal", "NotEqual"} /\ ~zero_left /\ ~zero_right ->
                Equality(op, left, right, dst)
         [] OTHER -> Ordering(op, left, right, dst, unsigned)
----------------------------------------------------------------------------
(* Addition, subtraction, multiplication and the bitwise operations.  One  *)
(* operand at most is a constant: the folder has taken the rest.           *)
LimbByLimb(low, high, left, right, d) ==
    emit_i128_copy(left, d) \o <<Instr(low, right.low, d.low), Instr(high, right.high, d.high)>>

Multiplication(left, right, d) ==
    emit_i128_copy(left, d) \o
    <<Mov(d.low, R10), Mov(d.high, R11), Mov(R10, AX), Mov(right.low, DX),
      Instr("MulFull", DX, None), Mov(AX, d.low), Mov(DX, d.high),
      Mov(right.high, DX), Instr("Mul", DX, R10), Instr("Add", R10, d.high),
      Mov(R11, R10), Mov(right.low, DX), Instr("Mul", DX, R10), Instr("Add", R10, d.high)>>

Multiply(left, right, d) ==
    LET c == IF left.const THEN left ELSE right
        v == IF left.const THEN right ELSE left
    IN CASE i128_constant_power_of_two(c) -> ShiftLeft(v, ShiftOf(c), d)
         [] i128_constant_negative_power_of_two(c) ->
                ShiftLeft(v, ShiftOf(c), d) \o emit_i128_negate(d)
         [] i128_constant_is_zero(c) -> emit_i128_zero(d)
         [] i128_constant_is_one(c) -> emit_i128_copy(v, d)
         [] i128_constant_is_all_ones(c) -> emit_i128_copy(v, d) \o emit_i128_negate(d)
         [] OTHER -> Multiplication(left, right, d)

Bitwise(op, left, right, d) ==
    LET c == IF left.const THEN left ELSE right
        v == IF left.const THEN right ELSE left
        zero == i128_constant_is_zero(c)
        ones == i128_constant_is_all_ones(c)
    IN CASE op = "BitwiseAnd" /\ zero -> emit_i128_zero(d)
         [] op = "BitwiseAnd" /\ ones -> emit_i128_copy(v, d)
         [] op = "BitwiseOr" /\ ones -> emit_i128_parts_to_operands(Imm(-1), Imm(-1), d)
         [] op = "BitwiseXor" /\ ones -> emit_i128_copy(v, d) \o emit_i128_not(d)
         [] op # "BitwiseAnd" /\ zero -> emit_i128_copy(v, d)
         [] OTHER ->
                LET o == CASE op = "BitwiseAnd" -> "And"
                           [] op = "BitwiseOr" -> "Or"
                           [] op = "BitwiseXor" -> "Xor"
                IN LimbByLimb(o, o, left, right, d)

AddOrSub(op, left, right, d) ==
    CASE op = "Add" /\ i128_constant_is_zero(left) -> emit_i128_copy(right, d)
      [] op = "Sub" /\ i128_constant_is_zero(left) -> emit_i128_copy(right, d) \o emit_i128_negate(d)
      [] i128_constant_is_zero(right) -> emit_i128_copy(left, d)
      [] ~i128_constant_is_zero(left) /\ ~i128_constant_is_zero(right) ->
            IF op = "Add" THEN LimbByLimb("AddSetFlags", "Adc", left, right, d)
            ELSE LimbByLimb("SubSetFlags", "Sbb", left, right, d)
----------------------------------------------------------------------------
(* Division.  A divisor that is a power of two is shifted or masked by;    *)
(* otherwise a function of the compiler's support library is called.       *)
i128_signed_power_of_two_divisor(o) ==
    /\ i128_constant_power_of_two(o) \/ i128_constant_negative_power_of_two(o)
    /\ ShiftOf(o) \in 1 .. WideBits - 2

\* dst holds the biased dividend, then the quotient.
SignedQuotient(left, n, d) ==
    emit_i128_copy(left, d) \o emit_i128_signed_power_of_two_division_bias(d, n)
    \o ShiftRight(d, n, d, FALSE)

\* The multiple of 2^n is kept in R8 and R9 while the dividend is read again.
SignedRemainder(left, n, d) ==
    SignedQuotient(left, n, d) \o ShiftLeft(d, n, d) \o
    <<Mov(d.low, Reg("R8")), Mov(d.high, Reg("R9"))>> \o emit_i128_copy(left, d) \o
    <<Instr("SubSetFlags", Reg("R8"), d.low), Instr("Sbb", Reg("R9"), d.high)>>

UnsignedRemainder(left, n, d) ==
    emit_i128_copy(left, d) \o
    CASE n < LimbBits -> <<Instr("And", Imm(2^n - 1), d.low), Mov(Imm(0), d.high)>>
      [] n = LimbBits -> <<Mov(Imm(0), d.high)>>
      [] n > LimbBits -> <<Instr("And", Imm(2^(n - LimbBits) - 1), d.high)>>

Helper(op, left, right, d) ==
    <<Mov(left.low, Reg("DI")), Mov(left.high, Reg("SI")), Mov(right.low, DX), Mov(right.high, CX),
      Call(op), Mov(AX, d.low), Mov(DX, d.high)>>

DivOrMod(op, left, right, d) ==
    LET unsigned == left.unsigned
        n == ShiftOf(right)
        one == i128_constant_is_one(right)
        minus_one == ~unsigned /\ i128_constant_is_all_ones(right)
    IN CASE unsigned /\ i128_constant_power_of_two(right) ->
                IF op = "Div" THEN ShiftRight(left, n, d, TRUE) ELSE UnsignedRemainder(left, n, d)
         [] ~unsigned /\ i128_signed_power_of_two_divisor(right) /\ op = "Div" ->
                SignedQuotient(left, n, d) \o (IF right.val < 0 THEN emit_i128_negate(d) ELSE <<>>)
         [] ~unsigned /\ i128_signed_power_of_two_divisor(right) /\ op = "Mod" ->
                SignedRemainder(left, n, d)
         [] op = "Div" /\ one -> emit_i128_copy(left, d)
         [] op = "Div" /\ minus_one -> emit_i128_copy(left, d) \o emit_i128_negate(d)
         [] op = "Mod" /\ (one \/ minus_one) -> emit_i128_zero(d)
         [] OTHER -> Helper(op, left, right, d)

Unary(op, src, d) ==
    emit_i128_copy(src, d) \o (IF op = "Negate" THEN emit_i128_negate(d) ELSE emit_i128_not(d))

convert_binary(op, left, right, d) ==
    CASE op \in Relations -> Comparison(op, left, right, d.low)
      [] op \in {"Add", "Sub"} -> AddOrSub(op, left, right, d)
      [] op = "Mul" -> Multiply(left, right, d)
      [] op \in {"Div", "Mod"} -> DivOrMod(op, left, right, d)
      [] op \in {"BitwiseAnd", "BitwiseOr", "BitwiseXor"} -> Bitwise(op, left, right, d)
      [] op \in {"ShiftLeft", "ShiftRight"} -> emit_i128_shift(op, left, right, d)
      [] op \in {"Negate", "Complement"} -> Unary(op, left, d)
----------------------------------------------------------------------------
(* The division of a Quadword, held in the low half of an operand.         *)
scalar_signed_power_of_two_divisor(o) ==
    /\ i128_constant_power_of_two(o) \/ i128_constant_negative_power_of_two(o)
    /\ ShiftOf(o) < LimbBits - 1

push_signed_pow2_biased_quotient(dst, n) ==
    <<Mov(dst, R10), Instr("Sar", Imm(LimbBits - 1), R10), Instr("And", Imm(2^n - 1), R10),
      Instr("Add", R10, dst), Instr("Sar", Imm(n), dst)>>

ScalarDivOrMod(op, left, right, dst) ==
    LET unsigned == left.unsigned
        n == ShiftOf(right)
        copy == <<Mov(left.low, dst)>>
    IN CASE right.const /\ right.val = 1 ->
                IF op = "Div" THEN copy ELSE <<Mov(Imm(0), dst)>>
         [] unsigned /\ i128_constant_power_of_two(right) ->
                copy \o <<IF op = "Div" THEN Instr("Shr", Imm(n), dst)
                          ELSE Instr("And", Imm(2^n - 1), dst)>>
         [] ~unsigned /\ scalar_signed_power_of_two_divisor(right) /\ op = "Div" ->
                copy \o push_signed_pow2_biased_quotient(dst, n)
                \o (IF right.val < 0 THEN <<Neg(dst)>> ELSE <<>>)
         [] ~unsigned /\ scalar_signed_power_of_two_divisor(right) /\ op = "Mod" ->
                copy \o <<Mov(dst, R11)>> \o push_signed_pow2_biased_quotient(dst, n)
                \o <<Instr("Sal", Imm(n), dst), Instr("Sub", dst, R11), Mov(R11, dst)>>
         [] ~unsigned /\ right.const /\ right.val = -1 ->
                IF op = "Div" THEN copy \o <<Neg(dst)>> ELSE <<Mov(Imm(0), dst)>>
         [] OTHER ->
                <<Mov(left.low, AX),
                  IF unsigned THEN Mov(Imm(0), DX) ELSE Instr("Cdq", None, None),
                  Instr(IF unsigned THEN "Div" ELSE "Idiv", right.low, None),
                  Mov(IF op = "Mod" THEN DX ELSE AX, dst)>>
----------------------------------------------------------------------------
(* The fixup.  Immediates of instructions have the bits of a Longword.     *)
Wide64(o) == IsImm(o) /\ o[2] \notin -(2^(IntBits - 1)) .. 2^(IntBits - 1) - 1

Through(scratch, o, i) == <<Mov(o, scratch), i>>

fixup_instructions(i) ==
    LET from(scratch) == [i EXCEPT !.src = scratch]
        memories == IsMem(i.src) /\ IsMem(i.dst)
    IN CASE i.op = "Mov" /\ (memories \/ (Wide64(i.src) /\ IsMem(i.dst))) ->
                Through(R10, i.src, from(R10))
         [] i.op \in {"MulFull", "Div", "Idiv"} /\ IsImm(i.src) -> Through(R10, i.src, from(R10))
         [] i.op = "Cmp" /\ ~memories /\ IsImm(i.dst) -> Through(R11, i.dst, Cmp(i.src, R11))
         [] i.op = "Cmp" /\ ~IsImm(i.dst) /\ (memories \/ Wide64(i.src)) ->
                Through(R10, i.src, from(R10))
         [] i.op \in BinaryOps /\ (memories \/ Wide64(i.src)) -> Through(R10, i.src, from(R10))
         [] OTHER -> <<i>>
=============================================================================
