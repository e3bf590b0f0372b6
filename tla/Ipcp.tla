------------------------------- MODULE Ipcp -------------------------------
(***************************************************************************)
(* interprocedural_constant_propagation of src/optimize/ipcp.rs, seen from *)
(* one function: the whole program is scanned for what it does with the    *)
(* function, and a parameter that every call gives the same constant is    *)
(* replaced by it in the body.                                             *)
(***************************************************************************)
EXTENDS Equivalence

CONSTANTS
    Programs,   \* the bodies of the function: a set for each program shape
    ParamList,  \* its parameters in order
    Mentions    \* what the rest of the program does with it, in program order

NoConstant == <<"none", 0>>

\* A mention of the function: its address escapes, or it is called.  An odd
\* call is variadic, returns through a hidden pointer or has another number
\* of arguments.
Escape == [k |-> "escape", args |-> <<>>]
OddCall == [k |-> "odd", args |-> <<>>]
CallWith(args) == [k |-> "call", args |-> args]

ASSUME ProgramsAssumption ==
    \A shape \in DOMAIN Programs : Programs[shape] \subseteq FunctionBodies

ASSUME ParamListAssumption == ParamList \in Seq(Params) /\ ToSet(ParamList) = Params

AnyMention ==
    {Escape, OddCall} \cup {CallWith(args) : args \in [DOMAIN ParamList -> Operands]}

ASSUME MentionsAssumption == Mentions \subseteq Seq(AnyMention)

VARIABLES
    mentions,   \* the mentions of the program at hand
    tracked,    \* the function is internal and takes scalars in registers only
    next,       \* the next mention to scan
    constants,  \* [parameter -> the first constant passed for it, or NoConstant]
    blocked,    \* the parameters given up
    sawCall, escaped

facts == <<constants, blocked, sawCall, escaped>>
vars == <<prog, out, phase, src, opt, mentions, tracked, next, facts>>
----------------------------------------------------------------------------
ConstantArg(o) == ~IsVar(o)

\* (Mutant: a later constant replaces the earlier one.)
Never(p, o) == FALSE

Disagrees(p, o) == constants[p] # NoConstant /\ constants[p] # o

Arg(mention, p) == mention.args[CHOOSE n \in DOMAIN ParamList : ParamList[n] = p]

Init ==
    /\ \E shape \in DOMAIN Programs : prog \in Programs[shape]
    /\ out = <<>>
    /\ EquivInit
    /\ mentions \in Mentions
    /\ tracked \in BOOLEAN
    /\ next = 1
    /\ constants = [p \in Params |-> NoConstant]
    /\ blocked = {p \in Params : TypeOf[p] = "agg"}
    /\ sawCall = FALSE /\ escaped = FALSE

\* One mention is scanned; those of an untracked function are passed over.
Scan(kind) ==
    /\ phase = "analyse" /\ tracked
    /\ next <= Len(mentions) /\ mentions[next].k = kind
    /\ next' = next + 1
    /\ UNCHANGED <<prog, out, phase, src, opt, mentions, tracked>>

ScanEscape ==
    /\ Scan("escape")
    /\ escaped' = TRUE
    /\ UNCHANGED <<constants, blocked, sawCall>>

ScanOddCall ==
    /\ Scan("odd")
    /\ blocked' = Params
    /\ UNCHANGED <<constants, sawCall, escaped>>

ScanCall ==
    /\ Scan("call")
    /\ sawCall' = TRUE
    /\ LET arg == [p \in Params |-> Arg(mentions[next], p)]
       IN  /\ blocked' = blocked \cup
                 {p \in Params : ~ConstantArg(arg[p]) \/ Disagrees(p, arg[p])}
           /\ constants' = [p \in Params |->
                 IF ConstantArg(arg[p]) /\ constants[p] = NoConstant THEN arg[p] ELSE constants[p]]
    /\ UNCHANGED escaped

ScanEnds ==
    /\ phase = "analyse"
    /\ ~tracked \/ next > Len(mentions)
    /\ phase' = "rewrite"
    /\ UNCHANGED <<prog, out, src, opt, mentions, tracked, next, facts>>
----------------------------------------------------------------------------
Applied ==
    {p \in Params : tracked /\ sawCall /\ ~escaped /\ p \notin blocked /\ constants[p] # NoConstant}

RewriteVal(active, o) == IF IsVar(o) /\ o[2] \in active THEN constants[o[2]] ELSE o

RewriteInstr(active, i) ==
    LET Kept(n) == i.k \in {"addr", "get", "cps"} \/ (i.k = "icall" /\ n = 1)
    IN  [i EXCEPT !.src = [n \in DOMAIN i.src |->
            IF Kept(n) THEN i.src[n] ELSE RewriteVal(active, i.src[n])]]

\* (Mutant: a new value of the parameter goes unnoticed.)
EndsAtAddress(i) == IF i.k = "addr" THEN SourceVars(i) ELSE {}

\* A parameter is itself no longer, further down the text, once it is
\* redefined or its address is taken.
Ends(i) == {i.dst} \cup (IF i.k = "addr" THEN SourceVars(i) ELSE {})

\* The parameters still replaced before each instruction, in text order.
Active(P) ==
    LET active[n \in DOMAIN P] == IF n = 1 THEN Applied ELSE active[n - 1] \ Ends(P[n - 1])
    IN  active

Rewrite ==
    /\ phase = "rewrite"
    /\ LET active == Active(prog)
       IN  out' = [n \in DOMAIN prog |-> RewriteInstr(active[n], prog[n])]
    /\ phase' = "ready"
    /\ UNCHANGED <<prog, src, opt, mentions, tracked, next, facts>>
----------------------------------------------------------------------------
\* The function starts with the arguments of one of its calls.  An odd call,
\* a call through its address and, of a function that is not internal, a call
\* from another file may pass anything.
MayBePassed(m) ==
    \/ ~tracked
    \/ \E n \in DOMAIN mentions :
          mentions[n].k = "call" =>
             \A p \in Params : LET o == Arg(mentions[n], p) IN IsVar(o) \/ m[p] = o

Run ==
    /\ RunNext
    /\ phase = "ready" => MayBePassed(src'.mem)
    /\ UNCHANGED <<mentions, tracked, next, facts>>

Done == phase = "done" /\ UNCHANGED vars

Next ==
    ScanEscape \/ ScanOddCall \/ ScanCall \/ ScanEnds \/ Rewrite \/ Run \/ Done

Spec == Init /\ [][Next]_vars
----------------------------------------------------------------------------
TypeOK ==
    /\ phase \in {"analyse", "rewrite", "ready", "source", "target", "event", "done"}
    /\ next \in 1 .. Len(mentions) + 1
    /\ constants \in [Params -> {o \in Operands : ~IsVar(o)} \cup {NoConstant}]
    /\ blocked \subseteq Params

(* When the body is rewritten, a constant stands for a parameter only if   *)
(* it is what every call of the program passes for it, in whatever order   *)
(* calls and escapes were met.                                             *)
AppliedIsWhatEveryCallPasses ==
    phase # "analyse" =>
        \A p \in Applied : \A n \in DOMAIN mentions :
            mentions[n].k = "call" /\ Arg(mentions[n], p) = constants[p]
============================================================================
