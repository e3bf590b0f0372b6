----------------------------- MODULE Arithmetic -----------------------------
(***************************************************************************)
(* One arithmetic instruction on operands twice as wide as a register (or  *)
(* the division of a Quadword on x86-64): the backend selects instructions *)
(* that work on the halves, fixes their operands up, and the machine runs  *)
(* them.  What is carried from one half to the other is in a flag or in a  *)
(* scratch register, and every instruction in between may lose it.         *)
(***************************************************************************)
EXTENDS Wide

CONSTANT Jobs     \* the instructions to compile, with the values they meet

X86 == INSTANCE SelectX86
AArch64 == INSTANCE SelectAArch64

VARIABLES
    job,      \* target, op, limb (a Quadword), unsigned, the operands left and
              \* right, the values x and y they have, where the result goes
              \* and what is in the registers before
    phase,    \* "select", "emit", "run", "done"
    code,     \* the instructions, before and after the fixup
    pc,
    machine

vars == <<job, phase, code, pc, machine>>

Registers == {"AX", "CX", "DX", "DI", "SI", "R8", "R9", "R10", "R11", "R12", "R13", "R14", "R15"}

Bits == IF job.limb THEN LimbBits ELSE WideBits

\* The AArch64 backend computes a value that is returned at once in the
\* registers of the result; otherwise the result is in memory.
ResultPlace(j) ==
    IF j.returned THEN Place(Reg("AX"), Reg("DI"), j.unsigned)
    ELSE Var("dst", j.unsigned)

Memory(j) == [x \in {"left", "right", "dst"} |->
                CASE x = "left" -> j.x
                  [] x = "right" -> j.y
                  [] x = "dst" -> j.junk]

\* An int in memory has something else beside it.
InCell(j, x, half) ==
    LET v == Memory(j)[x]
    IN IF half = 1 THEN HighLimb(v)
       ELSE IF x = "right" /\ ~j.right.wide THEN v + (j.junk % 2^IntBits) * 2^IntBits
       ELSE LowLimb(v)

Machine(j) ==
    [target |-> j.target, carry |-> 1, compared |-> <<0, 1>>,
     at |-> [o \in {Reg(r) : r \in Registers} \cup
                   {Cell(x, half) : x \in {"left", "right", "dst"}, half \in 0 .. 1} |->
                IF IsReg(o) THEN LowLimb(j.junk) ELSE InCell(j, o[2], o[3])]]

Init ==
    /\ job \in Jobs
    /\ phase = "select"
    /\ code = <<>>
    /\ pc = 1
    /\ machine = Machine(job)

SelectInstructions(j) ==
    LET d == ResultPlace(j)
    IN CASE j.limb -> X86!ScalarDivOrMod(j.op, j.left, j.right, d.low)
         [] ~j.limb /\ j.target = "x86_64" -> X86!convert_binary(j.op, j.left, j.right, d)
         [] ~j.limb /\ j.target = "aarch64" -> AArch64!convert_binary(j.op, j.left, j.right, d)

\* convert_binary and its relatives: what the operation becomes.
Select ==
    /\ phase = "select"
    /\ code' = SelectInstructions(job)
    /\ phase' = "emit"
    /\ UNCHANGED <<job, pc, machine>>

\* The fixup of x86-64; on AArch64 the emitter itself.
Emit ==
    /\ phase = "emit"
    /\ code' = FlattenSeq([n \in DOMAIN code |->
                    IF job.target = "x86_64" THEN X86!fixup_instructions(code[n])
                    ELSE AArch64!emit_instr(code[n])])
    /\ phase' = "run"
    /\ UNCHANGED <<job, pc, machine>>
----------------------------------------------------------------------------
(* Running.  Helpers of the support library keep no register of the caller *)
(* but the ones that every function keeps, which no code here uses.        *)
CallHelper(m, op) ==
    LET arm == m.target = "aarch64"
        x == IF arm THEN Join(m.at[Reg("AX")], m.at[Reg("DI")])
             ELSE Join(m.at[Reg("DI")], m.at[Reg("SI")])
        y == IF arm THEN Join(m.at[Reg("SI")], m.at[Reg("DX")])
             ELSE Join(m.at[Reg("DX")], m.at[Reg("CX")])
        answer == Meaning(op, x, y, job.unsigned, WideBits)
        kept == [o \in DOMAIN m.at |-> IF IsReg(o) THEN LowLimb(job.junk) ELSE m.at[o]]
    IN [m EXCEPT !.at = [kept EXCEPT ![Reg("AX")] = LowLimb(answer),
                                     ![Reg(IF arm THEN "DI" ELSE "DX")] = HighLimb(answer)]]

\* div and idiv take the dividend from DX and AX.
Divide(m, i) ==
    LET unsigned == i.op = "Div"
        x == Join(m.at[Reg("AX")], m.at[Reg("DX")])
        y == IF unsigned THEN Value(m, i.src)
             ELSE Wrap(Signed(Value(m, i.src), LimbBits), WideBits)
        q == Meaning("Div", x, y, unsigned, WideBits)
        r == Meaning("Mod", x, y, unsigned, WideBits)
    IN [m EXCEPT !.at = [@ EXCEPT ![Reg("AX")] = Wrap(q, LimbBits), ![Reg("DX")] = Wrap(r, LimbBits)]]

Signs(v) == Wrap(Signed(v, LimbBits) \div 2^(LimbBits - 1), LimbBits)

Execute(m, i) ==
    CASE i.op = "Mov" -> Store(m, i.dst, Value(m, i.src))
      [] i.op = "MovLong" -> StoreLong(m, i.dst, Value(m, i.src))
      [] i.op = "Not" -> Store(m, i.dst, 2^LimbBits - 1 - m.at[i.dst])
      [] i.op = "Neg" -> Store(m, i.dst, Wrap(-m.at[i.dst], LimbBits))
      [] i.op \in BinaryOps -> Binary(m, i)
      [] i.op = "Cmp" -> [m EXCEPT !.compared = <<Value(m, i.dst), Value(m, i.src)>>]
      [] i.op = "SetCC" -> Set(m, i.src[2], i.dst)
      [] i.op = "MulFull" ->
            LET product == m.at[Reg("AX")] * Value(m, i.src)
            IN [m EXCEPT !.at = [@ EXCEPT ![Reg("AX")] = LowLimb(product),
                                          ![Reg("DX")] = HighLimb(product)]]
      [] i.op = "Umulh" -> Store(m, i.dst, HighLimb(Value(m, i.src) * Value(m, i.low)))
      [] i.op = "Extr" ->
            Store(m, i.dst, LowLimb(Join(Value(m, i.low), Value(m, i.src)) \div 2^(i.lsb)))
      [] i.op = "Cdq" -> Store(m, Reg("DX"), Signs(m.at[Reg("AX")]))
      [] i.op \in {"Div", "Idiv"} -> Divide(m, i)
      [] i.op = "Call" -> CallHelper(m, i.src[2])
      [] i.op \in {"Label", "Jmp", "JmpCC"} -> m

LabelAt(l) == CHOOSE n \in DOMAIN code : code[n].op = "Label" /\ code[n].src = l

\* Up to the next jump, and over it.
Run ==
    /\ phase = "run"
    /\ pc =< Len(code)
    /\ LET jumps == {n \in pc .. Len(code) : code[n].op \in {"Jmp", "JmpCC"}}
           last == IF jumps = {} THEN Len(code)
                   ELSE CHOOSE n \in jumps : \A o \in jumps : n =< o
           m == FoldLeft(Execute, machine, SubSeq(code, pc, last))
           i == code[last]
       IN /\ machine' = m
          /\ pc' = CASE i.op = "Jmp" -> LabelAt(i.src)
                     [] i.op = "JmpCC" /\ Holds(m, i.src[2]) -> LabelAt(i.dst)
                     [] OTHER -> last + 1
    /\ UNCHANGED <<job, phase, code>>

Finish ==
    /\ phase = "run"
    /\ pc > Len(code)
    /\ phase' = "done"
    /\ UNCHANGED <<job, code, pc, machine>>

Terminating == phase = "done" /\ UNCHANGED vars

Next == Select \/ Emit \/ Run \/ Finish \/ Terminating

Spec == Init /\ [][Next]_vars
----------------------------------------------------------------------------
Result ==
    LET d == ResultPlace(job)
        low == machine.at[d.low]
    IN IF job.op \in Relations THEN Wrap(low, IntBits)
       ELSE IF job.limb THEN low
       ELSE Join(low, machine.at[d.high])

ResultBits == IF job.op \in Relations THEN IntBits ELSE Bits

\* When the selected instructions have run, the result is what C asks for and
\* the operands in memory are what they were: no half was written before it
\* was read for the last time, no carry was lost between the halves and no
\* fixup took a scratch register that was in use (convert_binary and
\* fixup_instructions in x86_64/codegen.rs, emit_i128_* in aarch64/codegen.rs
\* and emit_binary in aarch64/emit.rs).
ComputesTheOperation ==
    phase = "done" =>
        /\ Result = Wrap(Meaning(job.op, job.x, job.y, job.unsigned, Bits), ResultBits)
        /\ \A x \in {"left", "right"}, half \in 0 .. 1 :
                machine.at[Cell(x, half)] = InCell(job, x, half)
=============================================================================
