------------------------------- MODULE Licm -------------------------------
(***************************************************************************)
(* loop_invariant_code_motion of src/optimize/licm.rs: rounds that find the *)
(* natural loops of the graph from its dominators and move the invariant   *)
(* instructions of one loop to the block before it, until a round moves    *)
(* nothing.                                                                *)
(***************************************************************************)
EXTENDS Equivalence

CONSTANTS
    Programs,   \* the functions the pass may be given: a set for each program shape
    Temps       \* the variables that are compiler temporaries

ASSUME ProgramsAssumption ==
    \A shape \in DOMAIN Programs : Programs[shape] \subseteq FunctionBodies

ASSUME TempsAssumption == Temps \subseteq Vars \ (Statics \cup Params)

VARIABLE cfg        \* the control-flow graph; its edges stay, its code moves

vars == <<prog, out, phase, src, opt, cfg>>

Body(g) == FlattenSeq([b \in DOMAIN g |-> g[b].code])
----------------------------------------------------------------------------
(* Dominators.  The code sweeps over the blocks in order, each from the    *)
(* current sets of its predecessors, until a sweep changes nothing.        *)
\* (Mutant: one predecessor stands for all.)
AnyPred(g, dom, b) ==
    LET P == g[b].preds \ {Entry}
    IN  {b} \cup (IF P = {} THEN {} ELSE dom[CHOOSE p \in P : TRUE])

DominatorsFromPreds(g, dom, b) ==
    LET P == g[b].preds \ {Entry}
    IN  {b} \cup (IF P = {} THEN {} ELSE {d \in DOMAIN g : \A p \in P : d \in dom[p]})

Dominators(g) ==
    LET Maps == [DOMAIN g -> SUBSET DOMAIN g]
        sweep[dom \in Maps, b \in 2 .. Len(g) + 1] ==
            IF b > Len(g) THEN dom
            ELSE sweep[[dom EXCEPT ![b] = DominatorsFromPreds(g, dom, b)], b + 1]
        settle[dom \in Maps] ==
            LET next == sweep[dom, 2] IN IF next = dom THEN dom ELSE settle[next]
    IN  settle[[b \in DOMAIN g |-> IF b = 1 THEN {1} ELSE DOMAIN g]]
----------------------------------------------------------------------------
(* Loops.                                                                  *)
NaturalLoop(g, header, tail) ==
    LET grow[L \in SUBSET DOMAIN g] ==
          LET next == L \cup (UNION {g[b].preds : b \in L \ {header}} \ {Entry})
          IN  IF next = L THEN L ELSE grow[next]
    IN  grow[{header, tail}]

Loops(g) ==
    LET dom == Dominators(g)
        backedges == {<<h, t>> \in (DOMAIN g) \X (DOMAIN g) : h \in g[t].succs \cap dom[t]}
    IN  {[header |-> e[1], blocks |-> NaturalLoop(g, e[1], e[2])] : e \in backedges}

\* The blocks before the loop.  The entry of the function is no block.
OutsidePreds(g, loop) == g[loop.header].preds \ ({Entry} \cup loop.blocks)

HasPreheader(g, loop) ==
    /\ Cardinality(OutsidePreds(g, loop)) = 1
    /\ \A p \in OutsidePreds(g, loop) : g[p].succs = {loop.header}

Preheader(g, loop) == CHOOSE p \in OutsidePreds(g, loop) : TRUE
----------------------------------------------------------------------------
(* Invariant instructions.                                                 *)
\* A division may trap, and a conversion to an integer is not in the list.
\* (Mutant: a division is as pure as a sum.)
IsPureOrTraps(i) == i.k \in {"copy", "op", "typed", "addr", "laddr", "frame", "get"}

IsPure(i) ==
    \/ i.k \in {"copy", "addr", "laddr", "frame", "get"}
    \/ i.k = "op" /\ i.at # "div"
    \/ i.k = "typed" /\ i.at # "float"

IsMemoryWrite(i) ==
    i.k \in {"call", "icall", "store", "put", "cps", "atomic", "setjmp", "longjmp", "vastart"}

\* Positions <<block, index>> in the loop, and their order.
Positions(g, loop) == UNION {{b} \X DOMAIN g[b].code : b \in loop.blocks}
At(g, p) == g[p[1]].code[p[2]]
Before(p, q) == p[1] < q[1] \/ (p[1] = q[1] /\ p[2] < q[2])
Definitions(g, loop, x) == {p \in Positions(g, loop) : At(g, p).dst = x}

\* The blocks that every iteration runs, for as much as the dominators tell.
EveryIteration(g, loop) ==
    LET dom == Dominators(g)
    IN  {b \in loop.blocks : \A c \in loop.blocks : b \in dom[c]}

IsCandidate(g, loop, p) ==
    LET i == At(g, p)
    IN  /\ IsPure(i)
        /\ i.dst \in Temps \ FunctionAliasedVars(prog)
        /\ TypeOf[i.dst] # "agg"
        /\ Cardinality(Definitions(g, loop, i.dst)) = 1
        /\ i.k = "get" => \A q \in Positions(g, loop) : ~IsMemoryWrite(At(g, q))

SourceInvariant(g, loop, x, hoisted) ==
    /\ x \notin FunctionAliasedVars(prog)
    /\ \/ Definitions(g, loop, x) = {}
       \/ \E q \in Definitions(g, loop, x) : q \in hoisted

\* What is hoisted, in one pass over the loop in the order of its blocks: an
\* address is invariant whatever the variable holds.
Hoisted(g, loop) ==
    LET everyIteration == EveryIteration(g, loop)
        candidates == {p \in Positions(g, loop) : p[1] \in everyIteration /\ IsCandidate(g, loop, p)}
        hoistable[p \in candidates] ==
          LET i == At(g, p)
              earlier == {q \in candidates : Before(q, p) /\ hoistable[q]}
          IN  \/ i.k \in {"addr", "laddr", "frame"}
              \/ \A x \in SourceVars(i) : SourceInvariant(g, loop, x, earlier)
    IN  {p \in candidates : hoistable[p]}

CodeWhere(g, b, Test(_)) ==
    LET at == [n \in DOMAIN g[b].code |-> <<b, n>>]
        kept == SelectSeq(at, Test)
    IN  [m \in DOMAIN kept |-> At(g, kept[m])]

InsertBeforeJump(code, moved) ==
    LET n == Len(code)
    IN  IF code[n].k = "jump" THEN SubSeq(code, 1, n - 1) \o moved \o <<code[n]>>
        ELSE code \o moved

HoistLoop(g, loop) ==
    LET hoisted == Hoisted(g, loop)
        IsHoisted(p) == p \in hoisted
        IsKept(p) == p \notin hoisted
        moved == FlattenSeq([b \in DOMAIN g |->
                    IF b \in loop.blocks THEN CodeWhere(g, b, IsHoisted) ELSE <<>>])
        code(b) == CASE b = Preheader(g, loop) -> InsertBeforeJump(g[b].code, moved)
                     [] b \in loop.blocks      -> CodeWhere(g, b, IsKept)
                     [] OTHER                  -> g[b].code
    IN  [b \in DOMAIN g |-> [code |-> code(b), succs |-> g[b].succs, preds |-> g[b].preds]]

\* (Mutant: a loop from which nothing moves counts as a change.)
WithPreheader(g) == {loop \in Loops(g) : HasPreheader(g, loop)}

Hoistable(g) == {loop \in Loops(g) : HasPreheader(g, loop) /\ Hoisted(g, loop) # {}}
----------------------------------------------------------------------------
Init ==
    /\ \E shape \in DOMAIN Programs : prog \in Programs[shape]
    /\ out = <<>>
    /\ cfg = Cfg(prog)
    /\ EquivInit

\* One round: the smallest loops come first, in any order among equals (the
\* sort is unstable).
HoistOnce ==
    /\ phase = "analyse"
    /\ LET loops == Hoistable(cfg)
       IN  \E loop \in loops :
              /\ \A other \in loops : Cardinality(loop.blocks) <= Cardinality(other.blocks)
              /\ cfg' = HoistLoop(cfg, loop)
    /\ UNCHANGED <<prog, out, phase, src, opt>>

HoistNothing ==
    /\ phase = "analyse" /\ Hoistable(cfg) = {}
    /\ out' = Body(cfg)
    /\ phase' = "ready"
    /\ UNCHANGED <<prog, src, opt, cfg>>

Run == RunNext /\ UNCHANGED cfg

Done == phase = "done" /\ UNCHANGED vars

Next == HoistOnce \/ HoistNothing \/ Run \/ Done

Spec == Init /\ [][Next]_vars /\ WF_vars(HoistOnce \/ HoistNothing \/ Run)
----------------------------------------------------------------------------
\* The blocks that control reaches from a set of blocks without entering one.
Reaches(g, from, avoid) ==
    LET grow[R \in SUBSET DOMAIN g] ==
          LET next == R \cup (UNION {g[b].succs : b \in R} \ {Exit, avoid})
          IN  IF next = R THEN R ELSE grow[next]
    IN  grow[from \ {Exit, avoid}]

(* What compute_dominators reports is true of every path: without a block  *)
(* that it calls a dominator of b, b cannot be reached from the first.     *)
DominatorsLieOnEveryPath ==
    phase = "analyse" =>
        LET dom == Dominators(cfg)
        IN  \A d \in DOMAIN cfg : Reaches(cfg, {1}, d) \subseteq {b \in DOMAIN cfg : d \notin dom[b]}

(* The rounds end: code moves out of loops only.                           *)
HoistingTerminates == <>(phase = "ready")
============================================================================
