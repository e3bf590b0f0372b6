----------------------- MODULE DeadStoreElimination -----------------------
(***************************************************************************)
(* dead_store_elimination of src/cfg.rs and the loop of src/optimize.rs    *)
(* that repeats it: a backward worklist analysis of the live variables,    *)
(* then one pass that drops the assignments to dead ones, until a round    *)
(* drops nothing.                                                          *)
(***************************************************************************)
EXTENDS Equivalence

CONSTANT Programs   \* the functions the pass may be given: a set for each program shape

ASSUME ProgramsAssumption ==
    \A shape \in DOMAIN Programs : Programs[shape] \subseteq FunctionBodies

VARIABLES
    cfg,        \* the control-flow graph; its edges stay, its code shrinks
    liveIn,     \* [block -> the variables live at its start]
    worklist    \* the blocks to visit; the set queued is its range

vars == <<prog, out, phase, src, opt, cfg, liveIn, worklist>>

Code(g) == [b \in DOMAIN g |-> g[b].code]
Body(g) == FlattenSeq(Code(g))
HasSetjmp == \E b \in DOMAIN cfg : \E n \in DOMAIN cfg[b].code : cfg[b].code[n].k = "setjmp"
----------------------------------------------------------------------------
(* The transfer function, from the variables live after an instruction to  *)
(* those live before it.                                                   *)
UnknownMemoryWrite(i) ==
    i.k \in {"call", "icall", "store", "atomic", "setjmp", "longjmp", "vastart"}

\* Where memory is written through a pointer or by a callee, every aggregate
\* the function assigns counts as aliased too.
EffectiveAliased(P, code) ==
    LET instrs == UNION {ToSet(code[b]) : b \in DOMAIN code}
    IN  FunctionAliasedVars(P) \cup
        (IF \E i \in instrs : UnknownMemoryWrite(i)
         THEN {i.dst : i \in {i \in instrs : i.k \in {"put", "cps"}}}
         ELSE {})

\* What the transfer function knows of the whole function P.
Known(P, code) ==
    [aliased |-> EffectiveAliased(P, code), statics |-> ReferencedStatics(P)]

AggregateWriteCanBeDead(known, live, a) == a \notin live \cup known.aliased \cup known.statics

\* (Mutant: a callee reads nothing but its arguments.)
LiveBeforePureCalls(known, live, i) == (live \ {i.dst}) \cup SourceVars(i)

LiveBefore(known, live, i) ==
    CASE i.k \in {"call", "icall", "load", "atomic"} ->
            (live \ {i.dst}) \cup SourceVars(i) \cup known.aliased
      [] i.k = "put" ->
            IF AggregateWriteCanBeDead(known, live, i.dst) THEN live
            ELSE live \cup {i.dst} \cup SourceVars(i)
      [] i.k = "cps" ->
            (live \ {i.dst}) \cup
            (IF AggregateWriteCanBeDead(known, live, i.dst) THEN {} ELSE SourceVars(i))
      [] OTHER -> (live \ {i.dst}) \cup SourceVars(i)

IsDeadStore(known, live, i) ==
    IF i.k \in {"put", "cps"} THEN AggregateWriteCanBeDead(known, live, i.dst)
    ELSE /\ ~UnknownMemoryWrite(i)
         /\ i.dst # ""
         /\ i.dst \notin live \cup known.statics

FilteredBefore(known, live, i) ==
    IF IsDeadStore(known, live, i) THEN live ELSE LiveBefore(known, live, i)

\* The variables live at each point of a block's code, given those live at
\* its end and, for each instruction, what it makes of those live after it:
\* index n is after instruction n.
Backwards(step, live) ==
    LET before == Along(Reverse(step), live)
    IN  [n \in 0 .. Len(step) |-> before[Len(step) - n]]

LiveAtStart(known, live, code) ==
    Backwards([n \in DOMAIN code |-> [L \in SUBSET Vars |-> LiveBefore(known, L, code[n])]],
              live)[0]

FilteredLive(known, live, code) ==
    Backwards([n \in DOMAIN code |-> [L \in SUBSET Vars |-> FilteredBefore(known, L, code[n])]],
              live)

\* (Mutant: a variable must be live in every successor.)
MeetEvery(statics, o, succs) ==
    {x \in Vars : \A s \in succs : x \in (IF s = Exit THEN statics ELSE o[s])}

\* At the end of a block everything is live that is live in some successor;
\* where the function is left the statics are.
MeetLiveness(statics, o, succs) ==
    UNION {IF s = Exit THEN statics ELSE o[s] : s \in succs}

Equation(o, b) ==
    LET known == Known(prog, Code(cfg))
    IN  LiveAtStart(known, MeetLiveness(known.statics, o, cfg[b].succs), cfg[b].code)

FilterBlock(b) ==
    LET known == Known(prog, Code(cfg))
        atEnd == MeetLiveness(known.statics, liveIn, cfg[b].succs)
        live == FilteredLive(known, atEnd, cfg[b].code)
        kept == {n \in DOMAIN cfg[b].code : ~IsDeadStore(known, live[n], cfg[b].code[n])}
    IN  [m \in 1 .. Cardinality(kept) |-> cfg[b].code[Ascending(kept)[m]]]
----------------------------------------------------------------------------
NothingLive == [b \in DOMAIN cfg |-> {}]
Backward == [b \in DOMAIN cfg |-> Len(cfg) + 1 - b]

Init ==
    /\ \E shape \in DOMAIN Programs : prog \in Programs[shape]
    /\ out = <<>>
    /\ cfg = Cfg(prog)
    /\ liveIn = NothingLive
    /\ worklist = Backward
    /\ EquivInit

\* Locals may be read after a second return through setjmp, which the graph
\* does not show: such a function is left alone.
GivesUp == HasSetjmp

GiveUp ==
    /\ phase = "analyse" /\ GivesUp
    /\ out' = Body(cfg)
    /\ phase' = "ready"
    /\ UNCHANGED <<prog, src, opt, cfg, liveIn, worklist>>

\* The blocks to enqueue when the live variables of b changed.
\* (Mutant: only the blocks before it.)
UnqueuedBefore(b) == {p \in cfg[b].preds : 0 < p /\ p < b} \ ToSet(Tail(worklist))

Unqueued(b) == cfg[b].preds \ (ToSet(Tail(worklist)) \cup {Entry})

\* (Mutant: predecessors are enqueued whether or not the live set changed.)
Always(b, newIn) == TRUE

Changed(b, newIn) == liveIn[b] # newIn

Visit ==
    /\ phase = "analyse" /\ ~GivesUp /\ worklist # <<>>
    /\ LET b == Head(worklist)
           newIn == Equation(liveIn, b)
       IN  /\ liveIn' = [liveIn EXCEPT ![b] = newIn]
           /\ IF Changed(b, newIn)
              THEN \E order \in Orders(Unqueued(b)) : worklist' = Tail(worklist) \o order
              ELSE worklist' = Tail(worklist)
    /\ UNCHANGED <<prog, out, phase, src, opt, cfg>>

Converge ==
    /\ phase = "analyse" /\ ~GivesUp /\ worklist = <<>>
    /\ phase' = "rewrite"
    /\ UNCHANGED <<prog, out, src, opt, cfg, liveIn, worklist>>

Filtered ==
    [b \in DOMAIN cfg |->
        [code |-> FilterBlock(b), succs |-> cfg[b].succs, preds |-> cfg[b].preds]]

\* A round that drops something is followed by another, from nothing.
FilterAgain ==
    /\ phase = "rewrite" /\ Filtered # cfg
    /\ cfg' = Filtered
    /\ liveIn' = NothingLive
    /\ worklist' = Backward
    /\ phase' = "analyse"
    /\ UNCHANGED <<prog, out, src, opt>>

FilterLast ==
    /\ phase = "rewrite" /\ Filtered = cfg
    /\ out' = Body(cfg)
    /\ phase' = "ready"
    /\ UNCHANGED <<prog, src, opt, cfg, liveIn, worklist>>

Run == RunNext /\ UNCHANGED <<cfg, liveIn, worklist>>

Done == phase = "done" /\ UNCHANGED vars

Pass == GiveUp \/ Visit \/ Converge \/ FilterAgain \/ FilterLast

Next == Pass \/ Run \/ Done

Spec == Init /\ [][Next]_vars /\ WF_vars(Pass \/ Run)
----------------------------------------------------------------------------
TypeOK ==
    LET g == Cfg(prog)
    IN  /\ phase \in {"analyse", "rewrite", "ready", "source", "target", "event", "done"}
        /\ DOMAIN cfg = DOMAIN g
        /\ cfg = [b \in DOMAIN cfg |-> cfg[b]]
        /\ \A b \in DOMAIN cfg : cfg[b].succs = g[b].succs /\ cfg[b].preds = g[b].preds
        /\ liveIn = [b \in DOMAIN cfg |-> liveIn[b]]
        /\ worklist \in Seq(DOMAIN cfg)

(* A block that is not waiting in the worklist satisfies its equation.  If *)
(* it did not, a store that only a later block reads would look dead.      *)
SettledUnlessQueued ==
    \A b \in DOMAIN cfg \ ToSet(worklist) : ~GivesUp => liveIn[b] = Equation(liveIn, b)

(* The rounds end: each round that is not the last drops an instruction.   *)
PassTerminates == <>(phase = "ready")
============================================================================
