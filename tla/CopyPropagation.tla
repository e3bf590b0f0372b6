-------------------------- MODULE CopyPropagation --------------------------
(***************************************************************************)
(* copy_propagation of src/cfg.rs: a forward worklist analysis of the      *)
(* copies that reach each block, then one rewrite of every block.  A copy  *)
(* [src, dst] says that dst holds the value of src, a variable or a        *)
(* constant operand.                                                       *)
(***************************************************************************)
EXTENDS Equivalence

CONSTANT Programs   \* the functions the pass may be given: a set for each program shape

ASSUME ProgramsAssumption ==
    \A shape \in DOMAIN Programs : Programs[shape] \subseteq FunctionBodies

VARIABLES
    cfg,        \* the control-flow graph of prog
    blockOut,   \* [block -> the copies that hold at its end]
    worklist,   \* the blocks to visit, in order; the set queued is its range
    todo        \* the next block to rewrite

vars == <<prog, out, phase, src, opt, cfg, blockOut, worklist, todo>>

Aliased == FunctionAliasedVars(prog)
----------------------------------------------------------------------------
(* The transfer function.                                                  *)
CopyFact(o, d) == [src |-> o, dst |-> d]
Reverse2(f) == [src |-> V(f.dst), dst |-> f.src[2]]

\* (Mutant: copies from a redefined variable survive.)
KillTarget(R, x) == {f \in R : f.dst # x}

KillVar(R, x) == {f \in R : f.dst # x /\ f.src # V(x)}

KillAliased(aliased, R) ==
    {f \in R : f.dst \notin aliased /\ \A x \in aliased : f.src # V(x)}

Insert(R, f) == IF f \in R THEN R ELSE KillVar(R, f.dst) \cup {f}

InsertUnlessReverse(R, f) ==
    IF f \in R \/ Reverse2(f) \in R THEN R ELSE KillVar(R, f.dst) \cup {f}

\* A constant that carries its type is a fact only about a variable of it.
FitsType(o, d) == o[1] = "w" => TypeOf[d] = "wide"

Transfer(aliased, R, i) ==
    CASE i.k = "copy" /\ IsVar(i.src[1]) ->
            IF TypeOf[i.src[1][2]] = TypeOf[i.dst]
            THEN InsertUnlessReverse(R, CopyFact(i.src[1], i.dst))
            ELSE KillVar(R, i.dst)
      [] i.k = "copy" /\ ~IsVar(i.src[1]) ->
            IF FitsType(i.src[1], i.dst)
            THEN Insert(R, CopyFact(i.src[1], i.dst))
            ELSE KillVar(R, i.dst)
      [] i.k \in {"call", "icall", "atomic"} -> KillVar(KillAliased(aliased, R), i.dst)
      [] i.k \in {"store", "setjmp", "longjmp", "vastart"} -> {}
      [] i.k = "cps" -> InsertUnlessReverse(R, CopyFact(i.src[1], i.dst))
      [] OTHER -> KillVar(R, i.dst)

\* A block starts with the copies that all its predecessors end with; none
\* reach the first block from the caller.
MeetCopies(o, preds) ==
    IF Entry \in preds THEN {}
    ELSE {f \in UNION {o[p] : p \in preds} : \A p \in preds : f \in o[p]}

Facts == [src : Operands, dst : Vars]

\* The facts that reach each instruction of a block, from those at its start.
Transferred(aliased, R, code) ==
    Along([n \in DOMAIN code |-> [S \in SUBSET Facts |-> Transfer(aliased, S, code[n])]], R)

TransferOut(aliased, R, code) == Transferred(aliased, R, code)[Len(code)]

\* The facts at the end of block b that the facts o at the ends give it.
Equation(o, b) ==
    TransferOut(Aliased, MeetCopies(o, cfg[b].preds), cfg[b].code)
----------------------------------------------------------------------------
(* Replacing operands.                                                     *)
\* The copy followed from a name: one from a variable before a constant.
SelectReachingCopy(F) == CHOOSE f \in F : IsVar(f.src) \/ \A g \in F : ~IsVar(g.src)

\* One more copy of R is followed from the operand reached; only sources in
\* usable count, and no name is left twice, which stops a cyclic chain.
Trails == [at : Operands, seen : SUBSET Vars]

Follow(R, usable, t) ==
    LET F == {f \in R : V(f.dst) = t.at /\ f.src \in usable}
    IN  IF F = {} \/ t.at[2] \in t.seen THEN t
        ELSE [at |-> SelectReachingCopy(F).src, seen |-> t.seen \cup {t.at[2]}]

\* The end of the chain of copies from x, which leaves each name once.
Resolve(R, x, usable) ==
    Along([n \in 1 .. Cardinality(Vars) |-> [t \in Trails |-> Follow(R, usable, t)]],
          [at |-> V(x), seen |-> {}])[Cardinality(Vars)].at

ReplaceOperand(R, o) == IF IsVar(o) THEN Resolve(R, o[2], Operands) ELSE o

\* (Mutant: the type of the operand is ignored.)
ReplaceUntyped(R, o) == ReplaceOperand(R, o)

\* Where the type of the operand matters only a constant of that very type
\* replaces a variable, so never a plain integer constant.
SameType(o) == {s \in Operands : IsVar(s) \/ (s[1] = "w" /\ TypeOf[o[2]] = "wide")}

ReplaceTyped(R, o) == IF IsVar(o) THEN Resolve(R, o[2], SameType(o)) ELSE o

Named == {V(x) : x \in Vars}

ReplaceNamed(R, o) == Resolve(R, o[2], Named)

ReplaceSources(R, i) ==
    LET Replaced(n) ==
          CASE i.k \in {"copy", "ret", "op", "jz", "jind", "load"} -> ReplaceOperand(R, i.src[n])
            [] i.k \in {"typed", "call", "put", "longjmp"} -> ReplaceTyped(R, i.src[n])
            [] i.k = "store"  -> IF n = 1 THEN ReplaceTyped(R, i.src[n])
                                 ELSE ReplaceOperand(R, i.src[n])
            [] i.k = "atomic" -> IF n = 1 THEN ReplaceOperand(R, i.src[n])
                                 ELSE ReplaceTyped(R, i.src[n])
            [] i.k = "icall"  -> IF n = 1 THEN ReplaceNamed(R, i.src[n])
                                 ELSE ReplaceTyped(R, i.src[n])
            [] i.k \in {"get", "cps"} -> ReplaceNamed(R, i.src[n])
            [] OTHER -> i.src[n]
    IN  [i EXCEPT !.src = [n \in DOMAIN i.src |-> Replaced(n)]]

Holds(R, o, d) ==
    \/ CopyFact(o, d) \in R
    \/ IsVar(o) /\ CopyFact(V(d), o[2]) \in R

\* A copy is dropped when it copies what its destination already holds: a
\* Copy after its source was replaced, a CopyStruct as it was written.
IsRedundant(R, i) ==
    LET j == ReplaceSources(R, i)
    IN  \/ i.k = "copy" /\ (j.src[1] = V(i.dst) \/ Holds(R, j.src[1], i.dst))
        \/ i.k = "cps" /\ Holds(R, i.src[1], i.dst)

\* A block as it is rewritten: the facts that reach the next instruction and
\* the instructions kept so far.
Drafts ==
    [facts : SUBSET Facts,
     code : Seq([k : Kinds, src : Seq(Operands), dst : Vars \cup {""}, at : STRING])]

Rewrite(aliased, d, i) ==
    LET j == ReplaceSources(d.facts, i)
    IN  IF IsRedundant(d.facts, i) THEN d
        ELSE [facts |-> Transfer(aliased, d.facts, j), code |-> Append(d.code, j)]

Rewritten(aliased, R, code) ==
    Along([n \in DOMAIN code |-> [d \in Drafts |-> Rewrite(aliased, d, code[n])]],
          [facts |-> R, code |-> <<>>])

RewriteBlock(R, code) == Rewritten(Aliased, R, code)[Len(code)].code
----------------------------------------------------------------------------
Init ==
    /\ \E shape \in DOMAIN Programs : prog \in Programs[shape]
    /\ out = <<>>
    /\ cfg = Cfg(prog)
    /\ blockOut = [b \in DOMAIN cfg |-> {}]
    /\ worklist = [b \in DOMAIN cfg |-> b]
    /\ todo = 1
    /\ EquivInit

\* (Mutant: successors are enqueued whether or not the facts changed.)
Always(b, newOut) == TRUE

Changed(b, newOut) == blockOut[b] # newOut

\* The blocks to enqueue when the facts of b changed.
\* (Mutant: only the blocks further on.)
UnqueuedAfter(b) == {s \in cfg[b].succs : s > b} \ ToSet(Tail(worklist))

Unqueued(b) == cfg[b].succs \ (ToSet(Tail(worklist)) \cup {Exit})

Visit ==
    /\ phase = "analyse" /\ worklist # <<>>
    /\ LET b == Head(worklist)
           newOut == Equation(blockOut, b)
       IN  /\ blockOut' = [blockOut EXCEPT ![b] = newOut]
           /\ IF Changed(b, newOut)
              THEN \E order \in Orders(Unqueued(b)) : worklist' = Tail(worklist) \o order
              ELSE worklist' = Tail(worklist)
    /\ UNCHANGED <<prog, out, phase, src, opt, cfg, todo>>

Converge ==
    /\ phase = "analyse" /\ worklist = <<>>
    /\ phase' = "rewrite"
    /\ UNCHANGED <<prog, out, src, opt, cfg, blockOut, worklist, todo>>

RewriteNext ==
    /\ phase = "rewrite"
    /\ out' = out \o RewriteBlock(MeetCopies(blockOut, cfg[todo].preds), cfg[todo].code)
    /\ todo' = todo + 1
    /\ phase' = IF todo = Len(cfg) THEN "ready" ELSE phase
    /\ UNCHANGED <<prog, src, opt, cfg, blockOut, worklist>>

Run == RunNext /\ UNCHANGED <<cfg, blockOut, worklist, todo>>

Done == phase = "done" /\ UNCHANGED vars

Next == Visit \/ Converge \/ RewriteNext \/ Run \/ Done

Spec == Init /\ [][Next]_vars /\ WF_vars(Visit \/ Converge \/ RewriteNext \/ Run)
----------------------------------------------------------------------------
TypeOK ==
    /\ phase \in {"analyse", "rewrite", "ready", "source", "target", "event", "done"}
    /\ cfg = Cfg(prog)
    /\ blockOut \in [DOMAIN cfg -> SUBSET Facts]
    /\ worklist \in Seq(DOMAIN cfg)
    /\ todo \in 1 .. Len(cfg) + 1
    /\ phase \in {"analyse", "rewrite"} => todo <= Len(cfg)

(* A block that is not waiting in the worklist satisfies its equation, so  *)
(* the facts the rewrite starts from are a fixpoint of the whole graph:    *)
(* the rewrite recomputes every meet and would otherwise mix two solutions. *)
SettledUnlessQueued ==
    \A b \in DOMAIN cfg \ ToSet(worklist) :
        blockOut[b] = Equation(blockOut, b)

(* Each copy the analysis reports at the entry of a block holds whenever   *)
(* the source program enters the block, whatever path led there.           *)
ReportedCopiesHold ==
    phase = "source" =>
        \A b \in DOMAIN cfg : Starts(prog)[b] = src.pc =>
            \A f \in MeetCopies(blockOut, cfg[b].preds) : Value(src.mem, f.src) = src.mem[f.dst]

(* The worklist empties: the transfer function is not monotone (a copy is  *)
(* not recorded when its reverse is), so nothing but this check says that  *)
(* the loop ends.                                                          *)
AnalysisTerminates == <>(phase # "analyse")
============================================================================
