---------------------------- MODULE Equivalence ----------------------------
(***************************************************************************)
(* Running a function and its optimized form side by side.  A pass extends *)
(* this module: it chooses prog, computes out from it and sets phase to    *)
(* "ready".  Then the source program runs until it waits for its           *)
(* environment (a call, a return), the optimized one follows, the two      *)
(* observations are compared, and the environment answers both alike.      *)
(***************************************************************************)
EXTENDS Tacky

CONSTANT Memories   \* the memories a function may start with

\* A caller has no pointer to a local of a function that has not begun, and no
\* address of one of its labels.
ASSUME MemoriesAssumption ==
    \A m \in Memories :
        /\ m = [x \in Vars |-> m[x]]
        /\ \A x \in Vars : /\ m[x][1] = "a" => m[x][2] \in Statics
                          /\ m[x][1] # "l"

VARIABLES
    prog,   \* the instructions the pass is given
    out,    \* the instructions it returns
    phase,  \* "analyse", "rewrite" (the pass), "ready", "source", "target",
            \* "event", "done"
    src,    \* the machine that runs prog
    opt     \* the machine that runs out

machines == <<src, opt>>

Idle == [pc |-> 0, mem |-> <<>>, jb |-> NoJump]
Reach == Reachable(prog)

EquivInit == phase = "analyse" /\ src = Idle /\ opt = Idle

Start ==
    /\ phase = "ready"
    /\ \E m \in Memories :
          LET s == [pc |-> 1, mem |-> m, jb |-> NoJump]
          IN  src' = s /\ opt' = s
    /\ phase' = "source"
    /\ UNCHANGED <<prog, out>>

SourceStep ==
    /\ phase = "source"
    /\ ~AtEvent(prog, src) /\ ~Undefined(prog, src)
    /\ src' = Run1(prog, src)
    /\ UNCHANGED <<prog, out, phase, opt>>

SourceStops ==
    /\ phase = "source"
    /\ \/ AtEvent(prog, src) /\ phase' = "target"
       \/ Undefined(prog, src) /\ phase' = "done"
    /\ UNCHANGED <<prog, out, src, opt>>

TargetStep ==
    /\ phase = "target"
    /\ ~AtEvent(out, opt) /\ ~Undefined(out, opt)
    /\ opt' = Run1(out, opt)
    /\ UNCHANGED <<prog, out, phase, src>>

TargetStops ==
    /\ phase = "target"
    /\ AtEvent(out, opt)
    /\ phase' = "event"
    /\ UNCHANGED <<prog, out, src, opt>>

AtCall == src.pc <= Len(prog) /\ prog[src.pc].k \in {"call", "icall"}

Writes == {{}} \cup {{x} : x \in {x \in Reach : TypeOf[x] # "agg"}}

Answer ==
    /\ phase = "event" /\ AtCall
    /\ \E eff \in Writes, w \in Numbers :
          \/ \E r \in Numbers :
                /\ src' = Returned(prog, src, eff, w, r)
                /\ opt' = Returned(out, opt, eff, w, r)
          \/ /\ src.jb # NoJump
             /\ src' = JumpedBack(src, eff, w)
             /\ opt' = JumpedBack(opt, eff, w)
    /\ phase' = "source"
    /\ UNCHANGED <<prog, out>>

Finish ==
    /\ phase = "event" /\ ~AtCall
    /\ phase' = "done"
    /\ UNCHANGED <<prog, out, src, opt>>

RunNext ==
    \/ Start \/ SourceStep \/ SourceStops \/ TargetStep \/ TargetStops
    \/ Answer \/ Finish
----------------------------------------------------------------------------
(* At every event the optimized function shows its environment what the    *)
(* original one shows: the same kind of event, the same values passed, the *)
(* same reachable memory.  This is what docs/features.md calls             *)
(* optimization equivalence, over every run of every program of the set.   *)
(* Nor does it run into undefined behaviour on its way to the event.       *)
ObservablyEquivalent ==
    /\ phase = "target" => ~Undefined(out, opt)
    /\ phase = "event" => Observed(prog, src, Reach) = Observed(out, opt, Reach)

(* The optimized function does not loop forever where the original one     *)
(* reaches its next call or return: what a comparison of outputs in a test *)
(* suite can only report as a timeout.                                     *)
NoNewDivergence == (phase = "target") ~> (phase = "event")
============================================================================
