-------------------------------- MODULE Cse --------------------------------
(***************************************************************************)
(* The two passes of src/optimize/cse.rs that reuse a value computed       *)
(* before.  "members" (cse_copy_from_offset) works within a block: a second *)
(* read of a member of an aggregate becomes a copy of the first.           *)
(* "expressions" (common_subexpression_elimination) is a forward worklist  *)
(* analysis of the expressions available at each block and the variable    *)
(* that holds each, then one rewrite of every block.                       *)
(***************************************************************************)
EXTENDS Equivalence

CONSTANT Programs   \* the functions the passes may be given: a set for each program shape

ASSUME ProgramsAssumption ==
    \A shape \in DOMAIN Programs : Programs[shape] \subseteq FunctionBodies

VARIABLES
    pass,       \* "members" or "expressions"
    cfg,        \* the control-flow graph of prog
    blockOut,   \* [block -> the expressions available at its end]
    worklist,   \* the blocks to visit, in order; the set queued is its range
    todo        \* the next block to rewrite

vars == <<prog, out, phase, src, opt, pass, cfg, blockOut, worklist, todo>>

Aliased == FunctionAliasedVars(prog)
----------------------------------------------------------------------------
(* The members pass.  Its state while it scans a block: the reads seen, each *)
(* with the variable that holds the member, and an index of them by holder *)
(* that keeps entries when the reads are forgotten all at once.            *)
Clears(i) ==
    i.k \in {"store", "call", "icall", "atomic", "setjmp", "longjmp", "vastart"}

\* (Mutant: a read is forgotten with its aggregate, not with its holder.)
InvalidateSource(S, x) == [S EXCEPT !.seen = {e \in @ : e.key[1] # x}]

Invalidate(S, x) ==
    LET found == {e \in S.seen : e.key[1] = x} \cup {e \in S.byHolder : e.holder = x}
        keys == {e.key : e \in found}
    IN  [S EXCEPT !.seen = {e \in @ : e.key \notin keys},
                  !.byHolder = {e \in @ : e.holder # x /\ ~(e \in S.seen /\ e.key \in keys)}]

MemberKey(i) == <<i.src[1][2], i.at>>

Forget(S, i) ==
    LET I == Invalidate(S, i.dst) IN IF Clears(i) THEN [I EXCEPT !.seen = {}] ELSE I

Held(S, i) == {e \in Forget(S, i).seen : i.k = "get" /\ e.key = MemberKey(i)}

ScanMember(S, i) ==
    LET T == Forget(S, i)
        entry == [key |-> MemberKey(i), holder |-> i.dst]
    IN  IF i.k = "get" /\ Held(S, i) = {}
        THEN [seen |-> T.seen \cup {entry}, byHolder |-> T.byHolder \cup {entry}]
        ELSE T

ReadMember(S, i) ==
    IF Held(S, i) = {} THEN i ELSE Copy(V((CHOOSE e \in Held(S, i) : TRUE).holder), i.dst)

Reads == [key : Vars \X STRING, holder : Vars]
Scans == [seen : SUBSET Reads, byHolder : SUBSET Reads]
NothingSeen == [seen |-> {}, byHolder |-> {}]

\* The reads seen before each instruction of a block.
Scanned(code) ==
    Along([n \in DOMAIN code |-> [S \in Scans |-> ScanMember(S, code[n])]], NothingSeen)

RewriteMembers(code) ==
    LET scan == Scanned(code) IN [n \in DOMAIN code |-> ReadMember(scan[n - 1], code[n])]
----------------------------------------------------------------------------
(* The expressions pass.  The key of an expression is its kind, operands,  *)
(* name and type; the operands determine their own types.                  *)
IsBarrier(i) == Clears(i) \/ i.k \in {"put", "cps"}

Commutes(i) ==
    i.k = "op" /\ i.at = "" /\ \A o \in ToSet(i.src) : OperandType(o) # "wide"

\* The same order of the two operands, whichever way they were written.
SortedOperands(i) ==
    IF Commutes(i) THEN CHOOSE os \in {i.src, Reverse(i.src)} : TRUE ELSE i.src

ExprKey(i) ==
    [k |-> i.k, src |-> SortedOperands(i), at |-> i.at, type |-> TypeOf[i.dst]]

\* The variables whose values an expression depends on; an address does not
\* depend on what it is the address of.
Uses(key) ==
    IF key.k = "addr" THEN {} ELSE {o[2] : o \in {o \in ToSet(key.src) : IsVar(o)}}

IsCandidate(aliased, i) ==
    /\ i.k \in {"op", "typed", "addr", "laddr", "frame", "load", "get"}
    /\ i.at # "div"
    /\ i.dst \notin aliased /\ TypeOf[i.dst] # "agg"
    /\ Uses(ExprKey(i)) \cap aliased = {}

\* What survives a write to x: a load only if no pointer can reach x.
\* (Mutant: a load survives every direct write.)
KillForgettingLoads(aliased, A, x) == {f \in A : f.holder # x /\ x \notin Uses(f.key)}

KillExprs(aliased, A, x) ==
    {f \in A : /\ f.holder # x /\ x \notin Uses(f.key)
               /\ x \in aliased => f.key.k # "load"}

TransferExpr(aliased, A, i) ==
    LET key == ExprKey(i)
        left == KillExprs(aliased, IF IsBarrier(i) THEN {} ELSE A, i.dst)
    IN  IF IsCandidate(aliased, i) /\ i.dst \notin Uses(key)
        THEN {f \in left : f.key # key} \cup {[key |-> key, holder |-> i.dst]}
        ELSE left

MeetExprs(o, preds) ==
    IF Entry \in preds THEN {}
    ELSE {f \in UNION {o[p] : p \in preds} : \A p \in preds : f \in o[p]}

\* What can be available: the value of an expression, in a variable.
Exprs == [k : Kinds, src : Seq(Operands), at : STRING, type : {"int", "uint", "wide", "agg"}]
Availables == [key : Exprs, holder : Vars]

\* The expressions available before each instruction of a block, and after it.
Transferred(aliased, A, code) ==
    Along([n \in DOMAIN code |-> [S \in SUBSET Availables |-> TransferExpr(aliased, S, code[n])]], A)

TransferExprs(aliased, A, code) == Transferred(aliased, A, code)[Len(code)]

\* The expressions at the end of block b that those o at the ends give it.
Equation(o, b) == TransferExprs(Aliased, MeetExprs(o, cfg[b].preds), cfg[b].code)

HeldExprs(aliased, A, i) ==
    {f \in A : IsCandidate(aliased, i) /\ f.key = ExprKey(i) /\ f.holder # i.dst}

Reused(aliased, A, i) ==
    LET held == HeldExprs(aliased, A, i)
    IN  IF held = {} THEN i ELSE Copy(V((CHOOSE f \in held : TRUE).holder), i.dst)

\* The same while the block is rewritten, when a copy is no expression.
Retransferred(aliased, A, code) ==
    Along([n \in DOMAIN code |->
              [S \in SUBSET Availables |-> TransferExpr(aliased, S, Reused(aliased, S, code[n]))]], A)

RewriteExprs(aliased, A, code) ==
    LET left == Retransferred(aliased, A, code)
    IN  [n \in DOMAIN code |-> Reused(aliased, left[n - 1], code[n])]
----------------------------------------------------------------------------
\* The members pass has nothing to analyse.
Init ==
    /\ \E shape \in DOMAIN Programs : prog \in Programs[shape]
    /\ pass \in {"members", "expressions"}
    /\ out = <<>>
    /\ cfg = Cfg(prog)
    /\ blockOut = [b \in DOMAIN cfg |-> {}]
    /\ worklist = IF pass = "members" THEN <<>> ELSE [b \in DOMAIN cfg |-> b]
    /\ todo = 1
    /\ EquivInit

Unqueued(b) == cfg[b].succs \ (ToSet(Tail(worklist)) \cup {Exit})

Visit ==
    /\ phase = "analyse" /\ worklist # <<>>
    /\ LET b == Head(worklist)
           newOut == Equation(blockOut, b)
       IN  /\ blockOut' = [blockOut EXCEPT ![b] = newOut]
           /\ IF blockOut[b] # newOut
              THEN \E order \in Orders(Unqueued(b)) : worklist' = Tail(worklist) \o order
              ELSE worklist' = Tail(worklist)
    /\ UNCHANGED <<prog, out, phase, src, opt, pass, cfg, todo>>

Converge ==
    /\ phase = "analyse" /\ worklist = <<>>
    /\ phase' = "rewrite"
    /\ UNCHANGED <<prog, out, src, opt, pass, cfg, blockOut, worklist, todo>>

RewriteNext ==
    /\ phase = "rewrite"
    /\ LET b == cfg[todo]
       IN  out' = out \o IF pass = "members" THEN RewriteMembers(b.code)
                         ELSE RewriteExprs(Aliased, MeetExprs(blockOut, b.preds), b.code)
    /\ todo' = todo + 1
    /\ phase' = IF todo = Len(cfg) THEN "ready" ELSE phase
    /\ UNCHANGED <<prog, src, opt, pass, cfg, blockOut, worklist>>

Run == RunNext /\ UNCHANGED <<pass, cfg, blockOut, worklist, todo>>

Done == phase = "done" /\ UNCHANGED vars

Next == Visit \/ Converge \/ RewriteNext \/ Run \/ Done

Spec == Init /\ [][Next]_vars
----------------------------------------------------------------------------
TypeOK ==
    /\ phase \in {"analyse", "rewrite", "ready", "source", "target", "event", "done"}
    /\ pass \in {"members", "expressions"}
    /\ cfg = Cfg(prog)
    /\ blockOut \in [DOMAIN cfg -> SUBSET Availables]
    /\ worklist \in Seq(DOMAIN cfg)
    /\ todo \in 1 .. Len(cfg) + 1

(* Each expression the analysis reports at the entry of a block has, whenever *)
(* the source program enters the block and whatever path led there, the    *)
(* value of the variable that is said to hold it: no write to an operand,  *)
(* to the holder, or through a pointer to what a load reads was missed.    *)
AvailableExpressionsHold ==
    phase = "source" =>
        \A b \in DOMAIN cfg : Starts(prog)[b] = src.pc =>
            \A f \in MeetExprs(blockOut, cfg[b].preds) :
                src.mem[f.holder] = Computed(src, Instr(f.key.k, f.key.src, f.holder, f.key.at))
============================================================================
