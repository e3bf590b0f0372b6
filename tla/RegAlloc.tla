------------------------------ MODULE RegAlloc ------------------------------
(***************************************************************************)
(* The register allocator of the x86-64 back end (regalloc.rs,             *)
(* allocate_one_pass over the general purpose registers): liveness, the    *)
(* interference graph, conservative coalescing, which starts over after    *)
(* every round that merged something, and coloring by simplification.      *)
(* Then the code and what became of it run side by side.                   *)
(***************************************************************************)
EXTENDS Asm

CONSTANTS
    Functions,     \* the functions to allocate for: [code, aliased, result]
    Samples        \* the values an environment passes and returns

Hard == {R(ColorOrder[n]) : n \in DOMAIN ColorOrder}
K == Len(ColorOrder)
CalleeSaved == ToSet(ColorOrder) \ CallerSaved

VARIABLES
    func,          \* the function
    coalescing,    \* whether registers are coalesced
    phase,         \* what the allocator is about
    code,          \* the instructions, as rewritten so far
    liveIn,        \* what is live at the start of each block
    queue,         \* the blocks to visit
    liveAfter,     \* what is live after each instruction, once that is settled
    adj,           \* the interference graph: the neighbours of each node
    root,          \* what each node has been merged into in this round
    todo,          \* the moves of this round that were not tried yet
    mergedEver,    \* the pseudo-registers some other was merged into
    stack,         \* the nodes taken from the graph
    color,         \* the colour of each node, 0 if it has none
    saved,         \* the callee-saved registers the prologue saves
    exec           \* the two machines: [src, out, turn]

vars == <<func, coalescing, phase, code, liveIn, queue, liveAfter, adj, root, todo, mergedEver,
          stack, color, saved, exec>>
analysis == <<liveIn, queue, liveAfter>>
graph == <<adj, root, todo, mergedEver>>
colors == <<stack, color, saved>>
----------------------------------------------------------------------------
(* liveness_analysis.                                                      *)
LiveOut(cfg, live, exitLive, b) ==
    UNION {live[s] : s \in cfg[b].succs} \cup (IF cfg[b].exit THEN exitLive ELSE {})
LiveBefore(i, after) == (after \ Updated(i)) \cup Used(i)

\* What is live after each instruction of a block, and before the first.
LiveInBlock(c, block, out) ==
    LET after[n \in block.first - 1 .. block.last] ==
            IF n = block.last THEN out ELSE LiveBefore(c[n + 1], after[n + 1])
    IN  after

ExitLive(f) == {R(r) : r \in f.result}
BlockOf(cfg, n) == CHOOSE b \in DOMAIN cfg : cfg[b].first <= n /\ n <= cfg[b].last
LiveAfter(c, live, exitLive) ==
    LET cfg == AsmCfg(c)
        blocks == [b \in DOMAIN cfg |->
                     LiveInBlock(c, cfg[b], LiveOut(cfg, live, exitLive, b))]
    IN  [n \in DOMAIN c |-> blocks[BlockOf(cfg, n)][n]]
----------------------------------------------------------------------------
(* build_interference_graph.                                               *)
Candidates(f) ==
    {o \in UNION {Used(f.code[n]) \cup Updated(f.code[n]) : n \in DOMAIN f.code} :
        o[1] = "p" /\ o[2] \notin f.aliased}
Nodes(f) == Hard \cup Candidates(f)

\* A 64-bit move lets its two ends share a register; one of 32 bits would
\* clear the upper half of a source that is still live.
\* (Mutant: every move lets them.)
ExemptEveryMove(i, l) == IsMove(i) /\ l = i.a
Exempt(i, l) == IsMove(i) /\ i.w # "L" /\ l = i.a
Clobbers(c, after, u, l) ==
    \E n \in DOMAIN c : u \in Updated(c[n]) /\ l \in after[n] /\ ~Exempt(c[n], l)

Interference(nodes, c, after) ==
    [x \in nodes |-> {y \in nodes \ {x} :
        \/ x \in Hard /\ y \in Hard
        \/ Clobbers(c, after, x, y)
        \/ Clobbers(c, after, y, x)}]

\* Spill costs: occurrences, and a label's address is dear.
Infinite == 1000000
Reads(c, slot, x) == {n \in DOMAIN c : slot \in ReadSlots(c[n]) /\ c[n][slot] = x}
Cost(c, x) ==
    IF x[1] = "r" THEN Infinite
    ELSE Cardinality(Reads(c, "a", x)) + Cardinality(Reads(c, "b", x))
         + Cardinality({n \in DOMAIN c : x \in Updated(c[n])})
         + 1000 * Cardinality({n \in DOMAIN c : c[n].k = "laddr" /\ c[n].b = x})
----------------------------------------------------------------------------
(* coalesce_pass.                                                          *)
Ranked(c) ==
    LET hard(n) == c[n].a[1] = "r" \/ c[n].b[1] = "r"
        score(n) == IF hard(n) THEN Infinite ELSE Cost(c, c[n].a) + Cost(c, c[n].b)
        before(m, n) == \/ hard(m) /\ ~hard(n)
                        \/ hard(m) = hard(n) /\ score(m) > score(n)
                        \/ hard(m) = hard(n) /\ score(m) = score(n) /\ m < n
        moves == {n \in DOMAIN c : IsMove(c[n])}
    IN  [k \in 1 .. Cardinality(moves) |->
           CHOOSE n \in moves : Cardinality({m \in moves : before(m, n)}) = k - 1]

Significant(g, x) == Cardinality(g[x]) >= K
\* (Mutant: one significant neighbour too many.)
BriggsTooFar(g, x, y) ==
    Cardinality({n \in (g[x] \cup g[y]) \ {x, y} : Significant(g, n)}) <= K
Briggs(g, x, y) == Cardinality({n \in (g[x] \cup g[y]) \ {x, y} : Significant(g, n)}) < K
George(g, pseudo, hard) ==
    \A n \in g[pseudo] \ {hard} : hard \in g[n] \/ ~Significant(g, n)

CanCoalesce(g, x, y) ==
    /\ x # y /\ {x, y} \subseteq DOMAIN g /\ y \notin g[x]
    /\ CASE x \in Hard /\ y \in Hard -> FALSE
         [] x \in Hard /\ y \notin Hard -> George(g, y, x)
         [] x \notin Hard /\ y \in Hard -> George(g, x, y)
         [] OTHER -> Briggs(g, x, y)

\* (Mutant: the neighbours of the node that goes are not handed over.)
MergeDroppingEdges(g, from, into) ==
    [x \in DOMAIN g \ {from} |-> g[x] \ {from}]
\* (Mutant: its neighbours keep it.)
MergeLeavingEnds(g, from, into) ==
    [x \in DOMAIN g \ {from} |->
       IF x = into THEN (g[into] \cup g[from]) \ {from, into}
       ELSE IF x \in g[from] THEN g[x] \cup {into}
       ELSE g[x]]
Merge(g, from, into) ==
    [x \in DOMAIN g \ {from} |->
       IF x = into THEN (g[into] \cup g[from]) \ {from, into}
       ELSE IF x \in g[from] THEN (g[x] \ {from}) \cup {into}
       ELSE g[x]]

Find(r, o) == IF o \in DOMAIN r THEN r[o] ELSE o
Union(r, from, into) == [x \in DOMAIN r |-> IF r[x] = from THEN into ELSE r[x]]

\* A 32-bit move of a register to itself clears its upper half: it stays.
ShouldKeep(i) == i.k # "mov" \/ Regs(i.a) = {} \/ i.a # i.b \/ (i.w = "L" /\ i.a[1] = "r")
Renamed(c, r) ==
    SelectSeq([n \in DOMAIN c |-> [c[n] EXCEPT !.a = Find(r, @), !.b = Find(r, @)]], ShouldKeep)
----------------------------------------------------------------------------
NoMachine == [pc |-> 0, reg |-> <<>>, mem |-> <<>>, fl |-> <<>>]
Ascending(S) == [k \in 1 .. Cardinality(S) |->
                   CHOOSE n \in S : Cardinality({m \in S : m < n}) = k - 1]
Backward(n) == [m \in 1 .. n |-> n + 1 - m]

Init ==
    /\ func \in Functions
    /\ coalescing \in BOOLEAN
    /\ phase = "liveness"
    /\ code = func.code
    /\ liveIn = [b \in DOMAIN AsmCfg(func.code) |-> {}]
    /\ queue = Backward(Len(AsmCfg(func.code)))
    /\ liveAfter = <<>>
    /\ adj = [x \in {} |-> {}] /\ root = [x \in {} |-> x] /\ todo = <<>> /\ mergedEver = {}
    /\ stack = <<>> /\ color = [x \in {} |-> 0] /\ saved = {}
    /\ exec = [src |-> NoMachine, out |-> NoMachine, turn |-> "idle"]

\* One block of the worklist.
Visit ==
    /\ phase = "liveness" /\ queue # <<>>
    /\ LET cfg == AsmCfg(code)
           b == Head(queue)
           live == LiveInBlock(code, cfg[b], LiveOut(cfg, liveIn, ExitLive(func), b))
                       [cfg[b].first - 1]
           preds == {p \in DOMAIN cfg : b \in cfg[p].succs} \ ToSet(Tail(queue))
       IN  /\ liveIn' = [liveIn EXCEPT ![b] = live]
           /\ queue' = Tail(queue) \o (IF live = liveIn[b] THEN <<>> ELSE Ascending(preds))
    /\ UNCHANGED <<func, coalescing, phase, code, liveAfter, graph, colors, exec>>

Settle ==
    /\ phase = "liveness" /\ queue = <<>>
    /\ liveAfter' = LiveAfter(code, liveIn, ExitLive(func))
    /\ phase' = "build"
    /\ UNCHANGED <<func, coalescing, code, liveIn, queue, graph, colors, exec>>

\* The graph is built; without coalescing it is colored at once.
Build ==
    /\ phase = "build"
    /\ adj' = Interference(Nodes(func), code, liveAfter)
    /\ root' = [x \in Nodes(func) |-> x]
    /\ todo' = IF coalescing THEN Ranked(code) ELSE <<>>
    /\ phase' = IF coalescing THEN "coalesce" ELSE "simplify"
    /\ UNCHANGED <<func, coalescing, code, analysis, mergedEver, colors, exec>>

Coalesce ==
    /\ phase = "coalesce" /\ todo # <<>>
    /\ LET src == Find(root, code[Head(todo)].a)
           dst == Find(root, code[Head(todo)].b)
           into == IF dst \notin Hard /\ src \in Hard THEN src ELSE dst
           from == IF into = dst THEN src ELSE dst
       IN  IF CanCoalesce(adj, src, dst)
           THEN /\ adj' = Merge(adj, from, into)
                /\ root' = Union(root, from, into)
                /\ mergedEver' = (mergedEver \ {from}) \cup ({into} \ Hard)
           ELSE UNCHANGED <<adj, root, mergedEver>>
    /\ todo' = Tail(todo)
    /\ UNCHANGED <<func, coalescing, phase, code, analysis, colors, exec>>

\* The end of a round: rewrite_coalesced, and again from liveness on.
\* (Mutant: a round that merged nothing is followed by another.)
AlwaysAgain ==
    /\ phase = "coalesce" /\ todo = <<>>
    /\ code' = Renamed(code, root)
    /\ liveIn' = [b \in DOMAIN AsmCfg(code') |-> {}]
    /\ queue' = Backward(Len(AsmCfg(code')))
    /\ phase' = "liveness"
    /\ UNCHANGED <<func, coalescing, liveAfter, graph, colors, exec>>
EndRound ==
    /\ phase = "coalesce" /\ todo = <<>>
    /\ IF \E x \in DOMAIN root : root[x] # x
       THEN /\ code' = Renamed(code, root)
            /\ liveIn' = [b \in DOMAIN AsmCfg(code') |-> {}]
            /\ queue' = Backward(Len(AsmCfg(code')))
            /\ phase' = "liveness" /\ UNCHANGED liveAfter
       ELSE phase' = "simplify" /\ UNCHANGED <<code, analysis>>
    /\ UNCHANGED <<func, coalescing, graph, colors, exec>>
----------------------------------------------------------------------------
(* color_graph: simplify, then select.                                     *)
Remaining == DOMAIN adj \ (Hard \cup ToSet(stack))
Degree(x) == Cardinality(adj[x] \cap (Remaining \cup Hard))
Weight(x) == IF Degree(x) = 0 THEN 1 ELSE Degree(x)
Cheapest(x) == \A y \in Remaining : Cost(code, x) * Weight(y) <= Cost(code, y) * Weight(x)

\* Which of several nodes of low degree, or of equal cost, goes first is left
\* to the iteration order of a hash map.
Simplify ==
    /\ phase = "simplify"
    /\ \E x \in Remaining :
          /\ \/ Degree(x) < K
             \/ (\A y \in Remaining : Degree(y) >= K) /\ Cheapest(x)
          /\ stack' = <<x>> \o stack
    /\ UNCHANGED <<func, coalescing, phase, code, analysis, graph, color, saved, exec>>

Simplified ==
    /\ phase = "simplify" /\ Remaining = {}
    /\ phase' = "select"
    /\ color' = [x \in DOMAIN adj |->
                   IF x \in Hard THEN CHOOSE n \in DOMAIN ColorOrder : R(ColorOrder[n]) = x
                   ELSE 0]
    /\ UNCHANGED <<func, coalescing, code, analysis, graph, stack, saved, exec>>

\* (Mutant: the registers themselves are forgotten.)
FreeOfPseudos(x) == (1 .. K) \ {color[y] : y \in adj[x] \ Hard}
FreeColors(x) == (1 .. K) \ {color[y] : y \in adj[x]}
Select ==
    /\ phase = "select" /\ stack # <<>>
    /\ LET x == Head(stack)
           free == FreeColors(x)
       IN  color' = [color EXCEPT ![x] =
                       IF free = {} THEN 0 ELSE CHOOSE c \in free : \A d \in free : c <= d]
    /\ stack' = Tail(stack)
    /\ UNCHANGED <<func, coalescing, phase, code, analysis, graph, saved, exec>>

\* The operands visit_operands goes through: the address of a label is written
\* to one that it leaves out.
VisitedOperands(i) == IF i.k = "laddr" THEN {} ELSE {i.a, i.b}

\* apply_register_map, and the callee-saved registers that are now visited.
Assigned(x) == IF color[x] = 0 THEN x ELSE R(ColorOrder[color[x]])
Apply ==
    /\ phase = "select" /\ stack = <<>>
    /\ code' = Renamed(code, [x \in DOMAIN color |-> Assigned(x)])
    /\ saved' = {r \in CalleeSaved : \E n \in DOMAIN code' : R(r) \in VisitedOperands(code'[n])}
    /\ phase' = "allocated"
    /\ UNCHANGED <<func, coalescing, analysis, graph, stack, color, exec>>
----------------------------------------------------------------------------
(* The function before and after, run side by side.                        *)
Start ==
    /\ phase = "allocated"
    /\ \E v \in [ToSet(ArgRegs) -> Samples] :
         LET reg == [r \in ToSet(ColorOrder) \cup CallerSaved |->
                       IF r \in DOMAIN v THEN v[r]
                       ELSE IF r \in CalleeSaved
                            THEN Token(CHOOSE n \in DOMAIN ColorOrder : ColorOrder[n] = r)
                            ELSE Unknown]
             pseudos == {o \in UNION {{c.a, c.b} : c \in ToSet(func.code)} : o[1] = "p"}
             mem == [x \in {o[2] : o \in pseudos} |-> Unknown]
             fl == [w |-> "L", x |-> Unknown, y |-> Unknown]
             s == [pc |-> 1, reg |-> reg, mem |-> mem, fl |-> fl]
         IN  exec' = [src |-> s, out |-> s, turn |-> "src"]
    /\ phase' = "run"
    /\ UNCHANGED <<func, coalescing, code, analysis, graph, colors>>

SourceStep ==
    /\ phase = "run" /\ exec.turn = "src"
    /\ LET i == func.code[exec.src.pc]
       IN  exec' = IF AtEvent(i) THEN [exec EXCEPT !.turn = "out"]
                   ELSE IF Undefined(exec.src, i) THEN [exec EXCEPT !.turn = "void"]
                   ELSE [exec EXCEPT !.src = Execute(exec.src, func.code)]
    /\ UNCHANGED <<func, coalescing, phase, code, analysis, graph, colors>>

OutStep ==
    /\ phase = "run" /\ exec.turn = "out"
    /\ LET i == code[exec.out.pc]
       IN  exec' = IF AtEvent(i) \/ Undefined(exec.out, i) THEN [exec EXCEPT !.turn = "event"]
                   ELSE [exec EXCEPT !.out = Execute(exec.out, code)]
    /\ UNCHANGED <<func, coalescing, phase, code, analysis, graph, colors>>

\* What an event overwrites: a call what it may, the sequence of an atomic
\* operation the registers it works in.
Clobbered(i) ==
    CASE i.k = "call" -> CallerSaved
      [] i.k = "rmw" -> IF i.at \/ i.op = "nand" THEN {"ax", "r12"} ELSE {}
      [] i.k = "cmpxchg" -> {"ax", "r10"}
After(s, i, v) ==
    LET t == [s EXCEPT !.pc = @ + 1,
                       !.reg = [r \in DOMAIN @ |->
                           IF r \notin Clobbered(i) THEN @[r]
                           ELSE IF i.k = "call" /\ r = "ax" THEN v ELSE Unknown]]
    IN  IF i.k = "call" THEN t ELSE Write(t, "Q", i.b, v)

\* The environment gives both the same answer.
Answer ==
    /\ phase = "run" /\ exec.turn = "event"
    /\ func.code[exec.src.pc].k # "ret"
    /\ code[exec.out.pc].k = func.code[exec.src.pc].k
    /\ \E v \in Samples :
          exec' = [src |-> After(exec.src, func.code[exec.src.pc], v),
                   out |-> After(exec.out, code[exec.out.pc], v),
                   turn |-> "src"]
    /\ UNCHANGED <<func, coalescing, phase, code, analysis, graph, colors>>

Done ==
    /\ phase = "run"
    /\ \/ exec.turn = "void"
       \/ exec.turn = "event" /\ func.code[exec.src.pc].k = "ret"
    /\ UNCHANGED vars

Allocate == Visit \/ Settle \/ Build \/ Coalesce \/ EndRound \/ Simplify \/ Simplified \/ Select \/ Apply
Run == Start \/ SourceStep \/ OutStep \/ Answer

Next == Allocate \/ Run \/ Done

Spec == Init /\ [][Next]_vars /\ WF_vars(Allocate)
----------------------------------------------------------------------------
(* Correctness.                                                            *)

\* The graph the code and the live sets stand for at this moment.
Built == Interference(Nodes(func), code, liveAfter)

\* The graph stays a graph through every merge: its edges have two ends, both
\* in it and not the same, and the registers interfere with one another.
GraphIsWellFormed ==
    \A x \in DOMAIN adj :
       /\ adj[x] \subseteq DOMAIN adj \ {x}
       /\ \A y \in adj[x] : x \in adj[y]
       /\ x \in Hard => Hard \ {x} \subseteq adj[x]

\* Coalescing merges no two nodes that interfere, however many merges lie
\* between the move that asks for it and the graph that was built.
MergesAreSafe ==
    phase = "coalesce" =>
       LET g == Built
       IN  \A x, y \in Nodes(func) : root[x] = root[y] => y \notin g[x]

\* Once registers are given out, nothing writes the register of something
\* that is still needed.
Colored == phase = "select" /\ stack = <<>>
RegistersAreNotShared ==
    Colored =>
       \A n \in DOMAIN code :
          \A u \in Updated(code[n]) \cap DOMAIN color, l \in liveAfter[n] \cap DOMAIN color :
             u # l /\ ~Exempt(code[n], l) /\ color[u] # 0 => color[u] # color[l]

\* A pseudo-register that has taken in another gets a register: in memory it
\* would have the room of its own type only, while the code now also uses it
\* with the width of the other.
MergedGetRegisters == Colored => \A x \in mergedEver : color[x] # 0

\* The allocated function does what the function did: it makes the same calls
\* and accesses with the same values in the registers they read, returns the
\* same, and gives callee-saved registers back as they were.
Agrees(known, got) ==
    \A h \in {1, 2} : known[h] # Junk => got[h] = known[h]
ObservedRegs(i) == IF i.k = "ret" THEN func.result ELSE FixedReads(i)
AllocatedBehaves ==
    phase = "run" /\ exec.turn = "event" =>
       LET i == func.code[exec.src.pc]
           j == code[exec.out.pc]
       IN  /\ j.k = i.k /\ j.op = i.op /\ j.at = i.at
           /\ \A r \in ObservedRegs(i) : Agrees(exec.src.reg[r], exec.out.reg[r])
           /\ i.k = "ret" => \A r \in CalleeSaved \ saved :
                exec.out.reg[r] = Token(CHOOSE n \in DOMAIN ColorOrder : ColorOrder[n] = r)

\* The rounds end.
AllocationTerminates == <>(phase = "allocated")
=============================================================================
