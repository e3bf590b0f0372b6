-------------------------- MODULE UnreachableCode --------------------------
(***************************************************************************)
(* unreachable_code_elimination of src/optimize/unreachable.rs: passes that *)
(* thread chains of jumps, drop the blocks that nothing reaches and the    *)
(* jumps to the next instruction, until a pass changes nothing.            *)
(***************************************************************************)
EXTENDS Equivalence

CONSTANT Programs   \* the functions the pass may be given: a set for each program shape

ASSUME ProgramsAssumption ==
    \A shape \in DOMAIN Programs : Programs[shape] \subseteq FunctionBodies

VARIABLE body       \* the instructions that are left

vars == <<prog, out, phase, src, opt, body>>

Labels(P) == {i.at : i \in {i \in ToSet(P) : i.k = "label"}}
----------------------------------------------------------------------------
(* Threading: a jump to a label at which another jump waits goes where that *)
(* one goes.                                                               *)
\* The instruction that runs after a label and the labels behind it.
Landing(P, l) ==
    LET later == {n \in DOMAIN P : n > Goto(P, l) /\ P[n].k # "label"}
    IN  IF later = {} THEN Nop ELSE P[Min(later)]

\* (Mutant: a conditional jump is followed too.)
IsAnyJump(i) == i.k \in {"jump", "jz"}

IsPlainJump(i) == i.k = "jump"

\* (Mutant: one hop of the chain at a time.)
OneHop(P, l) ==
    IF l \in Labels(P) /\ IsPlainJump(Landing(P, l)) THEN Landing(P, l).at ELSE l

\* The end of the chain from l; l itself when the chain is a cycle or leads
\* to a label the function does not have.
ResolveTarget(P, l) ==
    LET follow[seen \in SUBSET Labels(P), m \in STRING] ==
          IF m \in seen \/ m \notin Labels(P) THEN l
          ELSE IF IsPlainJump(Landing(P, m)) THEN follow[seen \cup {m}, Landing(P, m).at]
          ELSE m
    IN  follow[{}, l]

IsThreaded(P, i) ==
    i.k \in {"jump", "njump", "jz"} => ResolveTarget(P, i.at) = i.at

ThreadJumpChains(P) ==
    [n \in DOMAIN P |->
        IF IsThreaded(P, P[n]) THEN P[n] ELSE [P[n] EXCEPT !.at = ResolveTarget(P, @)]]
----------------------------------------------------------------------------
(* Dropping.                                                               *)
\* (Mutant: an indirect jump is taken to lead nowhere.)
OnwardDirect(g, b) == IF Last(g[b].code).k = "jind" THEN {} ELSE g[b].succs \ {Exit}

Onward(g, b) == g[b].succs \ {Exit}

ReachableBlocks(g) ==
    LET grow[R \in SUBSET DOMAIN g] ==
          LET next == R \cup UNION {Onward(g, b) : b \in R}
          IN  IF next = R THEN R ELSE grow[next]
    IN  grow[DOMAIN g \cap {1}]

DropUnreachable(P) ==
    LET g == Cfg(P)
        reachable == ReachableBlocks(g)
        Kept(i) == i.k # "nop"
        code == [b \in DOMAIN g |-> IF b \in reachable THEN g[b].code ELSE <<>>]
    IN  SelectSeq(FlattenSeq(code), Kept)

\* (Mutant: a jump to any label is taken for one to the next instruction.)
BeforeLabel(P, n) == P[n].k \in {"jump", "jz"} /\ n < Len(P) /\ P[n + 1].k = "label"

IsRedundantJump(P, n) ==
    P[n].k \in {"jump", "jz"} /\ n < Len(P) /\ P[n + 1] = Label(P[n].at)

DropRedundantJumps(P) ==
    LET Kept(n) == ~IsRedundantJump(P, n)
        kept == SelectSeq([n \in DOMAIN P |-> n], Kept)
    IN  [m \in DOMAIN kept |-> P[kept[m]]]

Cleaned(P) == DropRedundantJumps(DropUnreachable(ThreadJumpChains(P)))
----------------------------------------------------------------------------
Init ==
    /\ \E shape \in DOMAIN Programs : prog \in Programs[shape]
    /\ out = <<>>
    /\ body = prog
    /\ EquivInit

CleanAgain ==
    /\ phase = "analyse" /\ Cleaned(body) # body
    /\ body' = Cleaned(body)
    /\ UNCHANGED <<prog, out, phase, src, opt>>

CleanNothing ==
    /\ phase = "analyse" /\ Cleaned(body) = body
    /\ out' = body
    /\ phase' = "ready"
    /\ UNCHANGED <<prog, src, opt, body>>

Run == RunNext /\ UNCHANGED body

Done == phase = "done" /\ UNCHANGED vars

Next == CleanAgain \/ CleanNothing \/ Run \/ Done

Spec == Init /\ [][Next]_vars /\ WF_vars(Run)
----------------------------------------------------------------------------
(* What is left is a function that validate_tacky_program accepts, which    *)
(* the compiler calls on the output of the optimizer: every label that a   *)
(* jump or an address names is still there, and there once, whatever was   *)
(* threaded past it and dropped around it.                                 *)
StaysValid ==
    phase # "analyse" =>
        \A n \in DOMAIN out :
            out[n].k \in {"jump", "jz", "laddr", "label"} => Cardinality(LabelsNamed(out, out[n].at)) = 1

(* The passes end, on chains of jumps that are cycles too: each of them    *)
(* drops an instruction or leaves fewer jumps to be threaded.              *)
Unthreaded(P) == Cardinality({n \in DOMAIN P : ~IsThreaded(P, P[n])})

EachPassGains ==
    [][body' # body => \/ Len(body') < Len(body)
                       \/ Len(body') = Len(body) /\ Unthreaded(body') < Unthreaded(body)]_vars
============================================================================
