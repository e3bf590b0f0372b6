-------------------------------- MODULE Asm --------------------------------
(***************************************************************************)
(* The x86-64 assembly form that registers are allocated for, and what it  *)
(* means.                                                                  *)
(*                                                                         *)
(* Sizes are "L" (32 bits) and "Q" (64).  A longword holds a number        *)
(* 0 .. Half-1, or Junk when nothing is known of it; a register holds two, *)
(* <<low, high>>, so that a write of 32 bits is told from one of 64.       *)
(*                                                                         *)
(* An instruction is a record [k, w, op, a, b, at]: its variant, its width,*)
(* its operator or condition, its source and destination and its label,    *)
(* flag or callee.  Variants that read and write alike share a kind.       *)
(***************************************************************************)
EXTENDS Integers, FiniteSets, SequencesExt

CONSTANTS
    Half,          \* a longword is 0 .. Half-1
    ColorOrder,    \* the allocatable registers, in the order they are tried
    CallerSaved,   \* the registers a call may overwrite
    ArgRegs        \* the registers that pass integer arguments, in order

ASSUME AsmAssumption ==
    /\ Half \in Nat /\ Half > 1
    /\ ColorOrder \in Seq(STRING) /\ IsInjective(ColorOrder)
    /\ ToSet(ArgRegs) \subseteq ToSet(ColorOrder) \cap CallerSaved
----------------------------------------------------------------------------
(* Operands and instructions.                                              *)
R(r) == <<"r", r>>       \* a register
P(x) == <<"p", x>>       \* a pseudo-register, one for each variable
Imm(n) == <<"i", n>>
None == <<"none", 0>>

Ins(k, w, op, a, b, at) == [k |-> k, w |-> w, op |-> op, a |-> a, b |-> b, at |-> at]
Mov(w, a, b)      == Ins("mov", w, "", a, b, "")
Extend(sign, a, b) == Ins("extend", "Q", sign, a, b, "")
Bin(w, op, a, b)  == Ins("bin", w, op, a, b, "")
Cmp(w, a, b)      == Ins("cmp", w, "", a, b, "")
SetCC(cc, b)      == Ins("setcc", "L", cc, None, b, "")
Idiv(w, a)        == Ins("idiv", w, "", a, None, "")
Cdq(w)            == Ins("cdq", w, "", None, None, "")
LabelAddress(l, b) == Ins("laddr", "Q", "", None, b, l)
AtomicRmw(op, old, b) == Ins("rmw", "Q", op, None, b, old)
CompareExchange(b) == Ins("cmpxchg", "Q", "", None, b, "")
Call(f, n)        == Ins("call", "Q", "", None, None, <<f, n>>)
Lbl(l)            == Ins("label", "Q", "", None, None, l)
Jmp(l)            == Ins("jmp", "Q", "", None, None, l)
JmpCC(cc, l)      == Ins("jcc", "Q", cc, None, None, l)
JmpIndirect(a)    == Ins("jind", "Q", "", a, None, "")
Ret               == Ins("ret", "Q", "", None, None, "")
----------------------------------------------------------------------------
(* What an instruction reads and writes, as the allocator sees it.         *)
Regs(o) == IF o[1] \in {"r", "p"} THEN {o} ELSE {}

ReadSlots(i) ==
    CASE i.k \in {"mov", "extend", "idiv", "jind"} -> {"a"}
      [] i.k \in {"bin", "cmp"} -> {"a", "b"}
      [] OTHER -> {}

FixedReads(i) ==
    CASE i.k = "idiv" -> {"ax", "dx"}
      [] i.k = "cdq" -> {"ax"}
      [] i.k = "rmw" -> {"r10", "r11"}
      [] i.k = "cmpxchg" -> {"r10", "r11", "r12"}
      [] i.k = "call" -> {ArgRegs[n] : n \in 1 .. i.at[2]}
      [] OTHER -> {}

FixedWrites(i) ==
    CASE i.k = "idiv" -> {"ax", "dx"}
      [] i.k = "cdq" -> {"dx"}
      [] i.k = "rmw" -> IF i.at THEN {"ax", "r12"} ELSE {}
      [] i.k = "cmpxchg" -> {"ax", "r10"}
      [] i.k = "call" -> CallerSaved
      [] OTHER -> {}

Writes(i) ==
    IF i.k \in {"mov", "extend", "bin", "setcc", "laddr", "rmw", "cmpxchg"}
    THEN Regs(i.b) ELSE {}

Used(i) == UNION {Regs(i[s]) : s \in ReadSlots(i)} \cup {R(r) : r \in FixedReads(i)}
Updated(i) == Writes(i) \cup {R(r) : r \in FixedWrites(i)}

\* A move between two registers or pseudo-registers.
IsMove(i) == i.k = "mov" /\ Regs(i.a) # {} /\ Regs(i.b) # {} /\ i.a # i.b
----------------------------------------------------------------------------
(* The control-flow graph: a sequence of [first, last, succs, exit].       *)
EndsBlock(i) == i.k \in {"jmp", "jcc", "jind", "ret"}

AsmCfg(code) ==
    LET leaders == {n \in DOMAIN code :
                       n = 1 \/ code[n].k = "label" \/ EndsBlock(code[n - 1])}
        first == [k \in 1 .. Cardinality(leaders) |->
                    CHOOSE n \in leaders : Cardinality({m \in leaders : m < n}) = k - 1]
        end(b) == IF b = Len(first) THEN Len(code) ELSE first[b + 1] - 1
        labelled == {b \in DOMAIN first : code[first[b]].k = "label"}
        target(l) == {b \in labelled : code[first[b]].at = l}
        next(b) == {b + 1} \cap DOMAIN first
        succs(b) == LET i == code[end(b)]
                    IN  CASE i.k = "ret"  -> {}
                          [] i.k = "jmp"  -> target(i.at)
                          [] i.k = "jcc"  -> target(i.at) \cup next(b)
                          [] i.k = "jind" -> labelled
                          [] OTHER -> next(b)
    IN  [b \in DOMAIN first |->
            [first |-> first[b], last |-> end(b), succs |-> succs(b),
             exit |-> code[end(b)].k = "ret"]]
----------------------------------------------------------------------------
(* Execution.  A machine is [pc, reg, mem, fl]: mem holds the pseudo-      *)
(* registers that have no register, fl what the last comparison compared.  *)
Junk == -1
Unknown == <<Junk, Junk>>
Token(c) == <<c, Half>>      \* an address: no number is like it
Unsigned(w, v) == IF w = "L" THEN v[1] ELSE v[1] + Half * v[2]
Signed(w, v) ==
    LET u == Unsigned(w, v)
        m == IF w = "L" THEN Half ELSE Half * Half
    IN  IF 2 * u >= m THEN u - m ELSE u
Defined(w, v) == v[1] \in 0 .. Half - 1 /\ (w = "Q" => v[2] \in 0 .. Half - 1)
Value(w, n) == LET q == n % (Half * Half)
               IN  <<q % Half, IF w = "L" THEN 0 ELSE q \div Half>>

Read(s, o) ==
    CASE o[1] = "r" -> s.reg[o[2]]
      [] o[1] = "p" -> s.mem[o[2]]
      [] o[1] = "i" -> Value("Q", o[2])

\* 32 bits written to a register clear its upper half; in memory they leave
\* there what nobody may ask for.
Write(s, w, o, v) ==
    IF o[1] = "r"
    THEN [s EXCEPT !.reg[o[2]] = IF w = "L" THEN <<v[1], 0>> ELSE v]
    ELSE [s EXCEPT !.mem[o[2]] = IF w = "L" THEN <<v[1], Junk>> ELSE v]

Arith(op, w, x, y) ==
    IF ~Defined(w, x) \/ ~Defined(w, y) THEN Unknown
    ELSE Value(w, CASE op = "add" -> Unsigned(w, x) + Unsigned(w, y)
                    [] op = "sub" -> Unsigned(w, x) - Unsigned(w, y))

\* C division truncates towards zero.
Quotient(x, y) == LET q == (IF x < 0 THEN -x ELSE x) \div (IF y < 0 THEN -y ELSE y)
                  IN  IF (x < 0) = (y < 0) THEN q ELSE -q

Holds(cc, fl) ==
    CASE cc = "e"  -> Unsigned(fl.w, fl.x) = Unsigned(fl.w, fl.y)
      [] cc = "ne" -> Unsigned(fl.w, fl.x) # Unsigned(fl.w, fl.y)
      [] cc = "l"  -> Signed(fl.w, fl.x) < Signed(fl.w, fl.y)

\* Events are left to the environment.
AtEvent(i) == i.k \in {"call", "rmw", "cmpxchg", "ret"}

\* What has no meaning: a condition, a division or a jump on unknown bits.
Undefined(s, i) ==
    CASE i.k \in {"jcc", "setcc"} -> ~(Defined(s.fl.w, s.fl.x) /\ Defined(s.fl.w, s.fl.y))
      [] i.k = "idiv" ->
           \/ \E v \in {s.reg["ax"], s.reg["dx"], Read(s, i.a)} : ~Defined(i.w, v)
           \/ Unsigned(i.w, Read(s, i.a)) = 0
      [] i.k = "jind" -> Read(s, i.a)[2] # Half
      [] OTHER -> FALSE

Labelled(code, l) == CHOOSE n \in DOMAIN code : code[n].k = "label" /\ code[n].at = l

\* One instruction; AX alone is divided, as cdq always extends it before.
Execute(s, code) ==
    LET i == code[s.pc]
        n == [s EXCEPT !.pc = @ + 1]
        x == IF i.k \in {"bin", "cmp"} THEN Read(s, i.b) ELSE Unknown
    IN  CASE i.k = "mov" -> Write(n, i.w, i.b, Read(s, i.a))
          [] i.k = "extend" ->
               LET v == Read(s, i.a)
               IN  Write(n, "Q", i.b,
                         IF ~Defined("L", v) THEN Unknown
                         ELSE Value("Q", IF i.op = "sign" THEN Signed("L", v) ELSE v[1]))
          [] i.k = "bin" -> Write(n, i.w, i.b, Arith(i.op, i.w, x, Read(s, i.a)))
          [] i.k = "cmp" -> [n EXCEPT !.fl = [w |-> i.w, x |-> x, y |-> Read(s, i.a)]]
          [] i.k = "setcc" -> Write(n, "L", i.b, <<IF Holds(i.op, s.fl) THEN 1 ELSE 0, 0>>)
          [] i.k = "cdq" ->
               LET v == s.reg["ax"]
               IN  Write(n, i.w, R("dx"),
                         IF ~Defined(i.w, v) THEN Unknown
                         ELSE Value(i.w, IF Signed(i.w, v) < 0 THEN -1 ELSE 0))
          [] i.k = "idiv" ->
               LET u == Signed(i.w, s.reg["ax"])
                   v == Signed(i.w, Read(s, i.a))
                   q == Quotient(u, v)
               IN  Write(Write(n, i.w, R("ax"), Value(i.w, q)),
                         i.w, R("dx"), Value(i.w, u - q * v))
          [] i.k = "laddr" -> Write(n, "Q", i.b, Token(i.at))
          [] i.k = "label" -> n
          [] i.k = "jmp" -> [s EXCEPT !.pc = Labelled(code, i.at)]
          [] i.k = "jcc" ->
               IF Holds(i.op, s.fl) THEN [s EXCEPT !.pc = Labelled(code, i.at)] ELSE n
          [] i.k = "jind" -> [s EXCEPT !.pc = Labelled(code, Read(s, i.a)[1])]
============================================================================
