------------------------------- MODULE Tacky -------------------------------
(***************************************************************************)
(* The TACKY intermediate representation of the compiler and what it means. *)
(*                                                                         *)
(* An instruction is a record [k, src, dst, at]: its kind, its operands in *)
(* the order the source lists them, the variable it defines ("" if none)   *)
(* and the label or offset it names.  The kinds stand for the variants of  *)
(* TackyInstr; the variants that every pass treats alike share one kind:   *)
(*   "op"    Unary, AddPtr and the Binary operators whose meaning does not *)
(*           depend on the signedness of an operand; at names the ones     *)
(*           whose operands may not be exchanged ("minus") or that may     *)
(*           trap ("div")                                                  *)
(*   "typed" comparisons, right shifts, Truncate, the extensions and the   *)
(*           conversions: the type of the operand selects the result; at   *)
(*           tells those of a floating value to an integer ("float")       *)
(*   "put", "get", "cps"  CopyToOffset, CopyFromOffset and CopyStruct      *)
(*   "jz", "jind", "njump"  the conditional, the indirect and the nonlocal *)
(*           jumps (JumpIfZero and JumpIfNotZero differ only in polarity)  *)
(* An operand is <<"v", x>> (a variable), <<"n", k>> (an integer constant) *)
(* or <<"w", k>> (a constant that carries its type: a double or an int128).*)
(***************************************************************************)
EXTENDS Integers, FiniteSets, SequencesExt

CONSTANTS
    Vars,       \* the variables of the function
    Statics,    \* those with static storage
    Params,     \* those that are parameters
    TypeOf,     \* [Vars -> {"int", "uint", "wide", "agg"}]
    Mod         \* integers are 0 .. Mod-1 (two's complement when signed)

ASSUME VarsAssumption == "" \notin Vars /\ IsFiniteSet(Vars)
ASSUME StaticsAssumption == Statics \subseteq Vars
ASSUME ParamsAssumption == Params \subseteq Vars /\ Params \cap Statics = {}
ASSUME TypeOfAssumption == TypeOf \in [Vars -> {"int", "uint", "wide", "agg"}]
ASSUME ModAssumption == Mod \in Nat /\ Mod > 1 /\ Mod % 2 = 0
----------------------------------------------------------------------------
(* Instructions.                                                           *)
V(x) == <<"v", x>>
N(c) == <<"n", c>>
Instr(k, src, dst, at) == [k |-> k, src |-> src, dst |-> dst, at |-> at]

Copy(o, d)     == Instr("copy", <<o>>, d, "")
Op(os, d)      == Instr("op", os, d, "")
Subtract(o1, o2, d) == Instr("op", <<o1, o2>>, d, "minus")
Divide(o1, o2, d) == Instr("op", <<o1, o2>>, d, "div")
Typed(o, d)    == Instr("typed", <<o>>, d, "")
FromFloat(o, d) == Instr("typed", <<o>>, d, "float")
GetAddress(x, d) == Instr("addr", <<V(x)>>, d, "")
Load(p, d)     == Instr("load", <<p>>, d, "")
Store(o, p)    == Instr("store", <<o, p>>, "", "")
Atomic(p, o, d) == Instr("atomic", <<p, o>>, d, "")
Call(os, d)    == Instr("call", os, d, "")
ICall(f, os, d) == Instr("icall", <<V(f)>> \o os, d, "")
Put(o, a, off) == Instr("put", <<o>>, a, off)
Get(a, off, d) == Instr("get", <<V(a)>>, d, off)
CopyStruct(a, b) == Instr("cps", <<V(a)>>, b, "")
LabelAddress(l, d) == Instr("laddr", <<>>, d, l)
FrameAddress(d) == Instr("frame", <<>>, d, "")
Setjmp(d)      == Instr("setjmp", <<>>, d, "")
VaStart(d)     == Instr("vastart", <<>>, d, "")
Label(l)       == Instr("label", <<>>, "", l)
Jump(l)        == Instr("jump", <<>>, "", l)
JumpIfZero(o, l) == Instr("jz", <<o>>, "", l)
JumpIndirect(o) == Instr("jind", <<o>>, "", "")
NonlocalJump(l) == Instr("njump", <<>>, "", l)
Longjmp(o)     == Instr("longjmp", <<o>>, "", "")
Return(o)      == Instr("ret", <<o>>, "", "")
Unreachable    == Instr("unreach", <<>>, "", "")
Nop            == Instr("nop", <<>>, "", "")

Kinds ==
    {"copy", "op", "typed", "addr", "load", "store", "atomic", "call", "icall", "put",
     "get", "cps", "laddr", "frame", "setjmp", "vastart", "label", "jump", "jz", "jind",
     "njump", "longjmp", "ret", "unreach", "nop"}

Operands ==
    {V(x) : x \in Vars} \cup {<<t, c>> : t \in {"n", "w"}, c \in 0 .. Mod - 1}

\* The fields of each variant: its operands, those that name a variable, and
\* whether it has a destination.  A member is read into a temporary of its own.
HasFields(i) ==
    /\ i.k \in {"copy", "typed", "addr", "load", "put", "get", "cps", "jz", "jind"} => Len(i.src) = 1
    /\ i.k \in {"store", "atomic"} => Len(i.src) = 2
    /\ i.k = "op" => Len(i.src) \in IF i.at \in {"minus", "div"} THEN {2} ELSE {1, 2}
    /\ i.k = "icall" => Len(i.src) >= 1
    /\ i.k \in {"addr", "get", "cps", "icall"} => i.src[1][1] = "v"
    /\ i.k = "get" => i.src[1] # V(i.dst)
    /\ i.k = "cps" => TypeOf[i.src[1][2]] = "agg" /\ TypeOf[i.dst] = "agg"
    /\ i.k \in {"copy", "op", "typed", "addr", "load", "atomic", "put", "get", "cps", "laddr",
                "frame", "setjmp", "vastart"} => i.dst # ""
    /\ i.k \in {"store", "label", "jump", "jz", "jind", "njump", "longjmp", "ret", "unreach",
                "nop"} => i.dst = ""

Instructions ==
    {i \in [k : Kinds, src : Seq(Operands), dst : Vars \cup {""}, at : STRING] : HasFields(i)}

\* The body of a function: instructions whose jumps and label addresses name
\* labels that it has, and has once.
FunctionBodies ==
    {P \in Seq(Instructions) :
        /\ P # <<>>
        /\ \A n \in DOMAIN P : P[n].k \in {"jump", "jz", "laddr"} =>
              \E m \in DOMAIN P : P[m].k = "label" /\ P[m].at = P[n].at
        /\ \A m, n \in DOMAIN P :
              P[m].k = "label" /\ P[n].k = "label" /\ P[m].at = P[n].at => m = n}

\* The variables an instruction reads, in the sense of instr_utils.rs: the
\* variable whose address is taken counts, a partial aggregate write does not
\* read the aggregate.
IsVar(o) == o[1] = "v"
SourceVars(i) == {o[2] : o \in {o \in ToSet(i.src) : IsVar(o)}}
----------------------------------------------------------------------------
(* The control-flow graph: a sequence of blocks [code, succs, preds], whose *)
(* neighbours are positions in the sequence, Exit or (before the first      *)
(* block) Entry.                                                           *)
Exit == 0
Entry == -1

EndsBasicBlock(i) ==
    i.k \in {"jump", "njump", "longjmp", "jind", "jz", "ret", "unreach"}

ExitsCfg(i) == i.k \in {"ret", "njump", "longjmp", "unreach"}

\* The positions of a set in ascending order.
Ascending(S) ==
    [b \in 1 .. Cardinality(S) |-> CHOOSE n \in S : Cardinality({m \in S : m <= n}) = b]

\* The positions at which partition_into_basic_blocks starts a block.
Leaders(P) ==
    {n \in DOMAIN P : n = 1 \/ P[n].k = "label" \/ EndsBasicBlock(P[n - 1])}

Starts(P) == Ascending(Leaders(P))

Partition(P) ==
    LET first == Starts(P)
    IN  [b \in DOMAIN first |->
            SubSeq(P, first[b], IF b = Len(first) THEN Len(P) ELSE first[b + 1] - 1)]

\* code is the partition; a jump to a label no block starts with adds no edge.
LabelBlocks(code) == {b \in DOMAIN code : code[b][1].k = "label"}
TargetBlocks(code, l) == {b \in LabelBlocks(code) : code[b][1].at = l}

Successors(code, b) ==
    LET last == code[b][Len(code[b])]
        next == IF b = Len(code) THEN Exit ELSE b + 1
    IN  CASE ExitsCfg(last)     -> {Exit}
          [] last.k = "jump"    -> TargetBlocks(code, last.at)
          [] last.k = "jind"    -> LabelBlocks(code)
          [] last.k = "jz"      -> TargetBlocks(code, last.at) \cup {next}
          [] OTHER              -> {next}

\* The blocks that push themselves on the predecessors of b, each as its last
\* instruction has it; the first block has Entry before them.
Predecessors(code, b) ==
    LET last(p) == code[p][Len(code[p])]
        FallsThrough(p) == ~ExitsCfg(last(p)) /\ last(p).k \notin {"jump", "jind"}
    IN  {p \in DOMAIN code :
            \/ last(p).k \in {"jump", "jz"} /\ b \in TargetBlocks(code, last(p).at)
            \/ last(p).k = "jind" /\ b \in LabelBlocks(code)
            \/ FallsThrough(p) /\ b = p + 1}
        \cup (IF b = 1 THEN {Entry} ELSE {})

Cfg(P) ==
    LET code == Partition(P)
    IN  [b \in DOMAIN code |->
            [code  |-> code[b],
             succs |-> Successors(code, b),
             preds |-> Predecessors(code, b)]]

\* The orders in which the elements of a set of blocks may be enqueued.  The
\* successors of an indirect jump come out of a hash map; the model leaves
\* the order open after every block.
Orders(S) == {w \in [1 .. Cardinality(S) -> S] : S \subseteq ToSet(w)}

\* What holds before the first instruction of a block (0) and after each of
\* them, where step[n] is the effect of the n-th.
Along(step, start) ==
    LET after[n \in 0 .. Len(step)] == IF n = 0 THEN start ELSE step[n][after[n - 1]]
    IN  after

AddressTaken(P) ==
    UNION {SourceVars(P[n]) : n \in {n \in DOMAIN P : P[n].k = "addr"}}

\* The optimizer knows the statics that the function mentions ...
ReferencedStatics(P) ==
    {x \in Statics : \E n \in DOMAIN P : x = P[n].dst \/ x \in SourceVars(P[n])}

FindAliasedVars(P) == ReferencedStatics(P) \cup AddressTaken(P)

\* ... and treats every parameter as aliased.
FunctionAliasedVars(P) == FindAliasedVars(P) \cup Params

\* The variables that a callee can in fact reach.
Reachable(P) == Statics \cup AddressTaken(P)
----------------------------------------------------------------------------
(* Execution.  A machine is [pc, mem, jb]: the position, the value of each *)
(* variable and the point a setjmp saved (NoJump before one).  Values are  *)
(* numbers <<"n", k>> and <<"w", k>>, addresses <<"a", x>>, label          *)
(* addresses <<"l", l>>, and <<"s", lo, hi>> for an aggregate of two       *)
(* members at the offsets "lo" and "hi".                                   *)
Numbers == {N(c) : c \in 0 .. Mod - 1}
NoJump == <<0, "">>

Value(m, o) == IF IsVar(o) THEN m[o[2]] ELSE o
IsNumber(v) == v[1] \in {"n", "w"} /\ v[2] \in 0 .. Mod - 1
Member(v, off) == IF off = "lo" THEN v[2] ELSE v[3]
SetMember(v, off, c) == IF off = "lo" THEN <<"s", c, v[3]>> ELSE <<"s", v[2], c>>

\* An operation that is the same for every integer type stands for them all
\* (subtraction for those that do not commute), and the comparison v < 0 for
\* those that the type of the operand selects: signed for an int, unsigned
\* otherwise, and a bare constant has type int.
Total(vs) == IF Len(vs) = 1 THEN vs[1][2] ELSE vs[1][2] + vs[2][2]

OpResult(op, vs) ==
    N(CASE op = "minus" -> (vs[1][2] - vs[2][2]) % Mod
        [] op = "div"   -> vs[1][2] \div vs[2][2]
        [] OTHER        -> (1 + Total(vs)) % Mod)

OperandType(o) ==
    IF IsVar(o) THEN TypeOf[o[2]] ELSE IF o[1] = "w" THEN "wide" ELSE "int"
TypedResult(ty, v) ==
    IF ty = "int" /\ 2 * v[2] >= Mod THEN N(1) ELSE N(0)

\* The point at which a machine waits for its environment: it calls, leaves
\* the function or runs off its end.
AtEvent(P, s) ==
    \/ s.pc > Len(P)
    \/ P[s.pc].k \in {"call", "icall", "ret", "njump", "longjmp", "unreach"}

\* Undefined behaviour of the source program: nothing is required after it.
Undefined(P, s) ==
    /\ ~AtEvent(P, s)
    /\ LET i == P[s.pc]
           a == [n \in DOMAIN i.src |-> Value(s.mem, i.src[n])]
       IN  \/ i.k \in {"op", "typed", "jz"} /\ \E n \in DOMAIN a : ~IsNumber(a[n])
           \/ i.k = "op" /\ i.at = "div" /\ a[2][2] = 0
           \/ i.k \in {"load", "atomic"} /\ a[1][1] # "a"
           \/ i.k = "store" /\ a[2][1] # "a"
           \/ i.k = "jind" /\ a[1][1] # "l"
           \/ i.k = "put" /\ ~IsNumber(a[1])

\* The value an instruction gives its destination.
Computed(s, i) ==
    LET a == [n \in DOMAIN i.src |-> Value(s.mem, i.src[n])]
    IN  CASE i.k \in {"copy", "cps"} -> a[1]
          [] i.k = "op"      -> OpResult(i.at, a)
          [] i.k = "typed"   -> TypedResult(OperandType(i.src[1]), a[1])
          [] i.k = "addr"    -> <<"a", i.src[1][2]>>
          [] i.k \in {"load", "atomic"} -> s.mem[a[1][2]]
          [] i.k = "put"     -> SetMember(s.mem[i.dst], i.at, a[1][2])
          [] i.k = "get"     -> N(Member(a[1], i.at))
          [] i.k = "laddr"   -> <<"l", i.at>>
          [] i.k \in {"frame", "vastart"} -> <<"f">>
          [] i.k = "setjmp"  -> N(0)

\* The memory after an instruction: the destination, and what it writes
\* through a pointer.
Written(s, i) ==
    LET a == [n \in DOMAIN i.src |-> Value(s.mem, i.src[n])]
        thru == CASE i.k = "store"  -> [s.mem EXCEPT ![a[2][2]] = a[1]]
                  [] i.k = "atomic" -> [s.mem EXCEPT ![a[1][2]] = a[2]]
                  [] OTHER          -> s.mem
    IN  IF i.dst = "" THEN thru ELSE [thru EXCEPT ![i.dst] = Computed(s, i)]

LabelsNamed(P, l) == {n \in DOMAIN P : P[n].k = "label" /\ P[n].at = l}
Goto(P, l) == CHOOSE n \in LabelsNamed(P, l) : TRUE

NextPc(P, s) ==
    LET i == P[s.pc]
    IN  CASE i.k = "jump" -> Goto(P, i.at)
          [] i.k = "jind" -> Goto(P, Value(s.mem, i.src[1])[2])
          [] i.k = "jz" /\ Value(s.mem, i.src[1])[2] = 0 -> Goto(P, i.at)
          [] OTHER -> s.pc + 1

Run1(P, s) ==
    [pc  |-> NextPc(P, s),
     mem |-> Written(s, P[s.pc]),
     jb  |-> IF P[s.pc].k = "setjmp" THEN <<s.pc + 1, P[s.pc].dst>> ELSE s.jb]

\* What the rest of the world sees at an event: the kind of event, the values
\* passed, and the memory it can reach.  A callee reaches the statics and the
\* variables whose address was taken; a caller, after a return, the statics.
\* Unreachable stands for undefined behaviour and shows nothing.
Observed(P, s, reach) ==
    IF s.pc > Len(P) THEN <<"end", <<>>, [x \in Statics |-> s.mem[x]]>>
    ELSE LET i == P[s.pc]
             seen == IF i.k \in {"call", "icall"} THEN reach ELSE Statics
         IN  IF i.k = "unreach" THEN <<"unreach", <<>>, <<>>>>
             ELSE <<i.k, [n \in DOMAIN i.src |-> Value(s.mem, i.src[n])],
                    [x \in seen |-> s.mem[x]]>>

\* A call returns r after it wrote w into the variables of eff, or transfers
\* control back to the setjmp the function executed.
Returned(P, s, eff, w, r) ==
    LET i == P[s.pc]
        m == [x \in Vars |-> IF x \in eff THEN w ELSE s.mem[x]]
    IN  [s EXCEPT !.pc = @ + 1,
                  !.mem = IF i.dst = "" THEN m ELSE [m EXCEPT ![i.dst] = r]]

JumpedBack(s, eff, w) ==
    [s EXCEPT !.pc = s.jb[1],
              !.mem = [[x \in Vars |-> IF x \in eff THEN w ELSE s.mem[x]]
                       EXCEPT ![s.jb[2]] = N(1)]]
============================================================================
