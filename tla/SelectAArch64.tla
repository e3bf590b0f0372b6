--------------------------- MODULE SelectAArch64 ---------------------------
(***************************************************************************)
(* The instructions the AArch64 backend selects for the arithmetic of      *)
(* __int128, and what the emitter makes of them: an operand in memory and  *)
(* an immediate that cannot be encoded are loaded into scratch registers,  *)
(* which are registers of the selection, too (R10 is x9, R11 is x10 and    *)
(* R13 is x11).                                                            *)
(***************************************************************************)
EXTENDS Wide

R10 == Reg("R10")
R11 == Reg("R11")
R12 == Reg("R12")
R13 == Reg("R13")
R14 == Reg("R14")
R15 == Reg("R15")
AX == Reg("AX")
DI == Reg("DI")
----------------------------------------------------------------------------
emit_i128_copy_to_operand(src, d) == <<Mov(src.low, d.low), Mov(src.high, d.high)>>
emit_i128_zero_operand(d) == <<Mov(Imm(0), d.low), Mov(Imm(0), d.high)>>

emit_i128_negate_operand(d) ==
    <<Invert(d.low), Invert(d.high), Instr("AddSetFlags", Imm(1), d.low),
      Instr("Adc", Imm(0), d.high)>>

emit_i128_unary(op, src, d) ==
    emit_i128_copy_to_operand(src, d) \o
    (IF op = "Not" THEN <<Invert(d.low), Invert(d.high)>> ELSE emit_i128_negate_operand(d))

emit_i128_zero_cmp(v) == <<Mov(v.low, R10), Instr("Or", v.high, R10), Cmp(Imm(0), R10)>>

Extr(high, low, lsb, dst) == [op |-> "Extr", src |-> high, low |-> low, lsb |-> lsb, dst |-> dst]
Umulh(left, right, dst) == [op |-> "Umulh", src |-> left, low |-> right, dst |-> dst]
----------------------------------------------------------------------------
(* Shifts.                                                                 *)
HighShift(unsigned) == IF unsigned THEN "Shr" ELSE "Sar"
Signs(d) == Instr("Sar", Imm(LimbBits - 1), d)

ShiftLeft(left, n, d) ==
    emit_i128_copy_to_operand(left, d) \o
    CASE n = 0 -> <<>>
      [] n \in 1 .. LimbBits - 1 ->
            <<Extr(d.high, d.low, LimbBits - n, d.high), Instr("Sal", Imm(n), d.low)>>
      [] n = LimbBits -> <<Mov(d.low, d.high), Mov(Imm(0), d.low)>>
      [] n > LimbBits ->
            <<Mov(d.low, d.high), Instr("Sal", Imm(n - LimbBits), d.high), Mov(Imm(0), d.low)>>

ShiftRight(left, n, d, unsigned) ==
    emit_i128_copy_to_operand(left, d) \o
    CASE n = 0 -> <<>>
      [] n \in 1 .. LimbBits - 1 ->
            <<Extr(d.high, d.low, n, d.low), Instr(HighShift(unsigned), Imm(n), d.high)>>
      [] n = LimbBits ->
            <<Mov(d.high, d.low), IF unsigned THEN Mov(Imm(0), d.high) ELSE Signs(d.high)>>
      [] n > LimbBits ->
            <<Mov(d.high, d.low), Instr(HighShift(unsigned), Imm(n - LimbBits), d.low),
              IF unsigned THEN Mov(Imm(0), d.high) ELSE Signs(d.high)>>

\* The count is wide or an int: an int is moved as one, which clears the
\* upper half of the register.
emit_i128_variable_shift(op, left, right, d) ==
    LET shift == HighShift(left.unsigned)
        cleared == <<Mov(Imm(0), R10), Mov(Imm(0), R13)>>
        below ==
            <<Mov(Imm(0), R14), Instr("Sub", R12, R14)>> \o
            IF op = "ShiftLeft"
            THEN <<Mov(R10, R15), Instr("Shr", R14, R15), Instr("Sal", R12, R13),
                   Instr("Or", R15, R13), Instr("Sal", R12, R10)>>
            ELSE <<Mov(R13, R15), Instr("Sal", R14, R15), Instr("Shr", R12, R10),
                   Instr(shift, R12, R13), Instr("Or", R15, R10)>>
        upper ==
            IF op = "ShiftLeft"
            THEN <<Mov(R10, R13), Instr("Sal", R12, R13), Mov(Imm(0), R10)>>
            ELSE <<Mov(R13, R10), Instr(shift, R12, R10),
                   IF shift = "Shr" THEN Mov(Imm(0), R13) ELSE Signs(R13)>>
        overflow ==
            IF op = "ShiftLeft" \/ left.unsigned THEN cleared ELSE <<Signs(R13), Mov(R13, R10)>>
    IN <<Mov(left.low, R10), Mov(left.high, R13),
         IF right.wide THEN Mov(right.low, R12) ELSE MovLong(right.low, R12),
         Cmp(Imm(0), R12), JmpCC("E", "i128_shift_end"),
         Cmp(Imm(LimbBits), R12), JmpCC("AE", "i128_shift_upper")>>
       \o below \o
       <<Jmp("i128_shift_end"), Label("i128_shift_upper"),
         Cmp(Imm(WideBits), R12), JmpCC("AE", "i128_shift_overflow"),
         Instr("Sub", Imm(LimbBits), R12)>>
       \o upper \o
       <<Jmp("i128_shift_end"), Label("i128_shift_overflow")>>
       \o overflow \o
       <<Label("i128_shift_end"), Mov(R10, d.low), Mov(R13, d.high)>>

emit_i128_shift(op, left, right, d) ==
    IF ~right.const \/ right.val \notin 0 .. WideBits - 1
    THEN emit_i128_variable_shift(op, left, right, d)
    ELSE IF op = "ShiftLeft" THEN ShiftLeft(left, right.val, d)
    ELSE ShiftRight(left, right.val, d, left.unsigned)
----------------------------------------------------------------------------
(* Comparisons.                                                            *)
Conditions(op, unsigned) ==
    LET less == IF unsigned THEN "B" ELSE "L"
        greater == IF unsigned THEN "A" ELSE "G"
    IN CASE op = "LessThan" -> <<less, greater, "B">>
         [] op = "LessEqual" -> <<less, greater, "BE">>
         [] op = "GreaterThan" -> <<greater, less, "A">>
         [] op = "GreaterEqual" -> <<greater, less, "AE">>

Ordering(op, left, right, dst) ==
    LET cc == Conditions(op, left.unsigned)
    IN <<MovLong(Imm(0), dst),
         Cmp(right.high, left.high), JmpCC(cc[1], "i128_cmp_true"), JmpCC(cc[2], "i128_cmp_end"),
         Cmp(right.low, left.low), JmpCC(cc[3], "i128_cmp_true"), Jmp("i128_cmp_end"),
         Label("i128_cmp_true"), MovLong(Imm(1), dst), Label("i128_cmp_end")>>

emit_i128_signed_cmp(op, left, right, dst) ==
    LET zero_left == i128_constant_is_zero(left)
        zero_right == i128_constant_is_zero(right)
    IN CASE op = "LessThan" /\ zero_right -> <<Cmp(Imm(0), left.high), SetCC("L", dst)>>
         [] op = "GreaterEqual" /\ zero_right -> <<Cmp(Imm(0), left.high), SetCC("GE", dst)>>
         [] op = "GreaterThan" /\ zero_left -> <<Cmp(Imm(0), right.high), SetCC("L", dst)>>
         [] op = "LessEqual" /\ zero_left -> <<Cmp(Imm(0), right.high), SetCC("GE", dst)>>
         [] OTHER -> Ordering(op, left, right, dst)

emit_i128_unsigned_cmp(op, left, right, dst) ==
    LET zero_left == i128_constant_is_zero(left)
        zero_right == i128_constant_is_zero(right)
        always(bit) == <<MovLong(Imm(bit), dst)>>
        zero(v, cc) == emit_i128_zero_cmp(v) \o <<SetCC(cc, dst)>>
    IN CASE op = "LessThan" /\ zero_right -> always(0)
         [] op = "GreaterEqual" /\ zero_right -> always(1)
         [] op = "GreaterThan" /\ zero_right -> zero(left, "NE")
         [] op = "LessEqual" /\ zero_right -> zero(left, "E")
         [] op = "GreaterThan" /\ zero_left -> always(0)
         [] op = "LessEqual" /\ zero_left -> always(1)
         [] op = "GreaterEqual" /\ zero_left -> zero(right, "E")
         [] op = "LessThan" /\ zero_left -> zero(right, "NE")
         [] ~zero_left /\ ~zero_right -> Ordering(op, left, right, dst)

emit_i128_eq_cmp(op, left, right, dst) ==
    LET answer == <<SetCC(IF op = "Equal" THEN "E" ELSE "NE", dst)>>
    IN IF i128_constant_is_zero(left) \/ i128_constant_is_zero(right)
       THEN emit_i128_zero_cmp(IF i128_constant_is_zero(left) THEN right ELSE left) \o answer
       ELSE <<Mov(left.low, R10), Instr("Xor", right.low, R10),
              Mov(left.high, R13), Instr("Xor", right.high, R13),
              Instr("Or", R13, R10), Cmp(Imm(0), R10)>> \o answer

Comparison(op, left, right, dst) ==
    CASE op \in {"Equal", "NotEqual"} -> emit_i128_eq_cmp(op, left, right, dst)
      [] op \notin {"Equal", "NotEqual"} /\ left.unsigned ->
            emit_i128_unsigned_cmp(op, left, right, dst)
      [] op \notin {"Equal", "NotEqual"} /\ ~left.unsigned ->
            emit_i128_signed_cmp(op, left, right, dst)
----------------------------------------------------------------------------
(* Addition, subtraction, multiplication and the bitwise operations.  One  *)
(* operand at most is a constant: the folder has taken the rest.           *)
LimbByLimb(low, high, left, right, d) ==
    emit_i128_copy_to_operand(left, d) \o
    <<Instr(low, right.low, d.low), Instr(high, right.high, d.high)>>

Multiplication(left, right, d) ==
    emit_i128_copy_to_operand(left, d) \o
    <<Mov(d.low, R10), Mov(d.high, R13), Mov(right.low, R14), Mov(right.high, R15),
      Mov(R10, R11), Instr("Mul", R14, R11), Mov(R11, d.low), Umulh(R10, R14, R11),
      Instr("Mul", R15, R10), Instr("Mul", R14, R13), Instr("Add", R10, R13),
      Instr("Add", R11, R13), Mov(R13, d.high)>>

Multiply(left, right, d) ==
    LET c == IF left.const THEN left ELSE right
        v == IF left.const THEN right ELSE left
    IN CASE i128_constant_is_zero(c) -> emit_i128_zero_operand(d)
         [] i128_constant_is_one(c) -> emit_i128_copy_to_operand(v, d)
         [] i128_constant_power_of_two(c) -> ShiftLeft(v, ShiftOf(c), d)
         [] i128_constant_is_all_ones(c) -> emit_i128_unary("Neg", v, d)
         [] i128_constant_negative_power_of_two(c) ->
                ShiftLeft(v, ShiftOf(c), d) \o emit_i128_negate_operand(d)
         [] OTHER -> Multiplication(left, right, d)

Bitwise(op, left, right, d) ==
    LET c == IF left.const THEN left ELSE right
        v == IF left.const THEN right ELSE left
        zero == i128_constant_is_zero(c)
        ones == i128_constant_is_all_ones(c)
    IN CASE op = "BitwiseAnd" /\ zero -> emit_i128_zero_operand(d)
         [] op = "BitwiseAnd" /\ ones -> emit_i128_copy_to_operand(v, d)
         [] op = "BitwiseOr" /\ ones -> emit_i128_copy_to_operand(Constant(-1), d)
         [] op = "BitwiseXor" /\ ones -> emit_i128_unary("Not", v, d)
         [] op # "BitwiseAnd" /\ zero -> emit_i128_copy_to_operand(v, d)
         [] OTHER ->
                LET o == CASE op = "BitwiseAnd" -> "And"
                           [] op = "BitwiseOr" -> "Or"
                           [] op = "BitwiseXor" -> "Xor"
                IN LimbByLimb(o, o, left, right, d)

AddOrSub(op, left, right, d) ==
    CASE op = "Add" /\ i128_constant_is_zero(left) -> emit_i128_copy_to_operand(right, d)
      [] op = "Sub" /\ i128_constant_is_zero(left) -> emit_i128_unary("Neg", right, d)
      [] i128_constant_is_zero(right) -> emit_i128_copy_to_operand(left, d)
      [] ~i128_constant_is_zero(left) /\ ~i128_constant_is_zero(right) ->
            IF op = "Add" THEN LimbByLimb("AddSetFlags", "Adc", left, right, d)
            ELSE LimbByLimb("SubSetFlags", "Sbb", left, right, d)
----------------------------------------------------------------------------
(* Division.  The signedness is the dividend's alone.                      *)
emit_i128_signed_power_of_two_division(left, n, d) ==
    LET add(high) == <<Instr("AddSetFlags", R10, d.low), Instr("Adc", high, d.high)>>
    IN emit_i128_copy_to_operand(left, d) \o <<Mov(d.high, R10), Signs(R10)>> \o
       CASE n \in 1 .. LimbBits - 1 ->
                <<Instr("And", Imm(2^n - 1), R10)>> \o add(Imm(0)) \o
                <<Extr(d.high, d.low, n, d.low), Instr("Sar", Imm(n), d.high)>>
         [] n = LimbBits -> add(Imm(0)) \o <<Mov(d.high, d.low), Signs(d.high)>>
         [] n \in LimbBits + 1 .. WideBits - 2 ->
                <<Mov(R10, R11), Instr("And", Imm(2^(n - LimbBits) - 1), R11)>> \o add(R11) \o
                <<Mov(d.high, d.low), Instr("Sar", Imm(n - LimbBits), d.low), Signs(d.high)>>

\* The quotient is shifted back and subtracted from the dividend, read again.
emit_i128_signed_power_of_two_remainder(left, n, d) ==
    emit_i128_signed_power_of_two_division(left, n, d) \o
    (CASE n \in 1 .. LimbBits - 1 ->
            <<Extr(d.high, d.low, LimbBits - n, d.high), Instr("Sal", Imm(n), d.low)>>
       [] n = LimbBits -> <<Mov(d.low, d.high), Mov(Imm(0), d.low)>>
       [] n \in LimbBits + 1 .. WideBits - 2 ->
            <<Mov(d.low, d.high), Instr("Sal", Imm(n - LimbBits), d.high), Mov(Imm(0), d.low)>>) \o
    <<Mov(d.low, R10), Mov(d.high, R11)>> \o emit_i128_copy_to_operand(left, d) \o
    <<Instr("SubSetFlags", R10, d.low), Instr("Sbb", R11, d.high)>>

UnsignedRemainder(left, n, d) ==
    emit_i128_copy_to_operand(left, d) \o
    CASE n < LimbBits -> <<Instr("And", Imm(2^n - 1), d.low), Mov(Imm(0), d.high)>>
      [] n = LimbBits -> <<Mov(Imm(0), d.high)>>
      [] n > LimbBits -> <<Instr("And", Imm(2^(n - LimbBits) - 1), d.high)>>

emit_i128_return_regs_to_operand(d) ==
    SelectSeq(<<Mov(AX, d.low), Mov(DI, d.high)>>, LAMBDA i : i.src # i.dst)

Helper(op, left, right, d) ==
    <<Mov(left.low, AX), Mov(left.high, DI), Mov(right.low, Reg("SI")), Mov(right.high, Reg("DX")),
      Call(op)>> \o emit_i128_return_regs_to_operand(d)

SignedPowerOfTwo(o) ==
    /\ i128_constant_power_of_two(o) \/ i128_constant_negative_power_of_two(o)
    /\ ShiftOf(o) \in 1 .. WideBits - 2

emit_i128_helper_binary(op, left, right, d) ==
    LET unsigned == left.unsigned
        n == ShiftOf(right)
        one == i128_constant_is_one(right)
        minus_one == ~unsigned /\ i128_constant_is_all_ones(right)
    IN CASE op = "Div" /\ one -> emit_i128_copy_to_operand(left, d)
         [] op = "Div" /\ unsigned /\ i128_constant_power_of_two(right) ->
                ShiftRight(left, n, d, TRUE)
         [] op = "Div" /\ ~unsigned /\ SignedPowerOfTwo(right) ->
                emit_i128_signed_power_of_two_division(left, n, d)
                \o (IF right.val < 0 THEN emit_i128_negate_operand(d) ELSE <<>>)
         [] op = "Mod" /\ ~unsigned /\ SignedPowerOfTwo(right) ->
                emit_i128_signed_power_of_two_remainder(left, n, d)
         [] op = "Mod" /\ unsigned /\ i128_constant_power_of_two(right) ->
                UnsignedRemainder(left, n, d)
         [] op = "Div" /\ minus_one -> emit_i128_unary("Neg", left, d)
         [] op = "Mod" /\ (one \/ minus_one) -> emit_i128_zero_operand(d)
         [] OTHER -> Helper(op, left, right, d)

convert_binary(op, left, right, d) ==
    CASE op \in Relations -> Comparison(op, left, right, d.low)
      [] op \in {"Add", "Sub"} -> AddOrSub(op, left, right, d)
      [] op = "Mul" -> Multiply(left, right, d)
      [] op \in {"Div", "Mod"} -> emit_i128_helper_binary(op, left, right, d)
      [] op \in {"BitwiseAnd", "BitwiseOr", "BitwiseXor"} -> Bitwise(op, left, right, d)
      [] op \in {"ShiftLeft", "ShiftRight"} -> emit_i128_shift(op, left, right, d)
      [] op = "Negate" -> emit_i128_unary("Neg", left, d)
      [] op = "Complement" -> emit_i128_unary("Not", left, d)
----------------------------------------------------------------------------
(* The emitter.  Immediates of adds and subs have the bits of a Longword.  *)
Masks == {2^n - 1 : n \in 1 .. LimbBits - 1} \cup {-(2^n) : n \in 1 .. LimbBits - 1}

binary_add_sub_immediate(i) ==
    /\ i.op \in {"Add", "AddSetFlags", "Sub", "SubSetFlags"}
    /\ i.src[2] \in 1 - 2^(IntBits - 1) .. 2^(IntBits - 1) - 1

EncodedImmediate(i) ==
    /\ IsImm(i.src)
    /\ \/ binary_add_sub_immediate(i)
       \/ i.op \in {"Sal", "Sar", "Shr"} /\ i.src[2] \in 0 .. LimbBits - 1
       \/ i.op \in {"And", "Or", "Xor"} /\ i.src[2] \in Masks \cup {0, -1}
       \/ i.op \in {"Adc", "Sbb"} /\ i.src[2] = 0

\* Adding a negative immediate subtracts its magnitude, and the reverse:
\* subtracting zero, which is not negative, adds it.
WithImmediate(i) ==
    IF binary_add_sub_immediate(i)
    THEN LET flags == i.op \in {"AddSetFlags", "SubSetFlags"}
             offset == IF i.op \in {"Add", "AddSetFlags"} THEN i.src[2] ELSE -i.src[2]
         IN IF offset >= 0
            THEN Instr(IF flags THEN "AddSetFlags" ELSE "Add", Imm(offset), i.dst)
            ELSE Instr(IF flags THEN "SubSetFlags" ELSE "Sub", Imm(-offset), i.dst)
    ELSE i

\* load_operand: a register is used as it is.
Loaded(o, scratch) == IF IsReg(o) THEN o ELSE scratch
Load(o, scratch) == IF IsReg(o) THEN <<>> ELSE <<Mov(o, scratch)>>
StoreTo(r, dst) == IF r = dst THEN <<>> ELSE <<Mov(r, dst)>>

emit_binary(i) ==
    LET r == Loaded(i.dst, R10)
    IN Load(i.dst, R10) \o
       (IF EncodedImmediate(i) THEN <<WithImmediate([i EXCEPT !.dst = r])>>
        ELSE Load(i.src, R11) \o <<Instr(i.op, Loaded(i.src, R11), r)>>) \o
       StoreTo(r, i.dst)

emit_cmp(i) ==
    LET r == Loaded(i.dst, R10)
    IN Load(i.dst, R10) \o
       (IF IsImm(i.src) THEN <<Cmp(i.src, r)>>
        ELSE Load(i.src, R11) \o <<Cmp(Loaded(i.src, R11), r)>>)

emit_extract(i) ==
    Load(i.src, R10) \o Load(i.low, R11) \o
    <<Extr(Loaded(i.src, R10), Loaded(i.low, R11), i.lsb, R13)>> \o StoreTo(R13, i.dst)

emit_mov(i) ==
    IF IsMem(i.dst) /\ ~IsReg(i.src)
    THEN <<[i EXCEPT !.dst = R10], [i EXCEPT !.src = R10]>>
    ELSE StoreTo(i.src, i.dst)

emit_instr(i) ==
    CASE i.op \in BinaryOps -> emit_binary(i)
      [] i.op = "Cmp" -> emit_cmp(i)
      [] i.op = "Extr" -> emit_extract(i)
      [] i.op = "Mov" -> emit_mov(i)
      [] i.op = "MovLong" /\ IsMem(i.dst) /\ ~IsReg(i.src) ->
            <<[i EXCEPT !.dst = R10], [i EXCEPT !.src = R10]>>
      [] i.op = "SetCC" /\ IsMem(i.dst) -> <<[i EXCEPT !.dst = R10], MovLong(R10, i.dst)>>
      [] i.op = "Not" -> Load(i.dst, R10) \o <<Invert(Loaded(i.dst, R10))>>
                         \o StoreTo(Loaded(i.dst, R10), i.dst)
      [] OTHER -> <<i>>
=============================================================================
