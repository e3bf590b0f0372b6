---------------------------- MODULE Ipcp_proof ----------------------------
(* What the scan of interprocedural_constant_propagation establishes, for  *)
(* every list of calls and escapes of the function and any parameters.     *)
EXTENDS Ipcp, TLAPS

(* A call passes an operand for each parameter.                            *)
LEMMA ArgIsOperand ==
    ASSUME NEW m \in AnyMention, m.k = "call", NEW p \in Params
    PROVE  Arg(m, p) \in Operands
<1>1. \E n \in DOMAIN ParamList : ParamList[n] = p
  BY ParamListAssumption DEF ToSet
<1>2. m.args \in [DOMAIN ParamList -> Operands]
  BY DEF AnyMention, Escape, OddCall, CallWith
<1> QED
  BY <1>1, <1>2 DEF Arg

(* The mark for no constant is not an operand.                             *)
LEMMA NoConstantIsNoOperand == NoConstant \notin Operands
BY DEF NoConstant, Operands, V

MentionsOK == mentions \in Seq(AnyMention)

(* The facts after the first mentions have been scanned: no escape was     *)
(* missed ...                                                              *)
EscapesNoted == ~escaped => \A n \in 1 .. next - 1 : mentions[n].k # "escape"

(* ... and a parameter that is not blocked was given its constant by every *)
(* call so far.                                                            *)
CallsAgree ==
    \A p \in Params \ blocked : \A n \in 1 .. next - 1 :
        /\ mentions[n].k # "odd"
        /\ mentions[n].k = "call" =>
              Arg(mentions[n], p) = constants[p] /\ constants[p] # NoConstant

ScanSound ==
    tracked => /\ phase # "analyse" => next = Len(mentions) + 1
               /\ EscapesNoted
               /\ CallsAgree

Inv == TypeOK /\ MentionsOK /\ ScanSound

(* Before the scan nothing is claimed.                                     *)
LEMMA InvInit == Init => Inv
<1> SUFFICES ASSUME Init PROVE Inv
  OBVIOUS
<1>1. MentionsOK
  BY MentionsAssumption DEF Init, MentionsOK
<1>2. next = 1 /\ Len(mentions) \in Nat
  BY <1>1 DEF Init, MentionsOK
<1>3. 1 .. next - 1 = {}
  BY <1>2
<1>4. TypeOK
  BY <1>2 DEF Init, EquivInit, TypeOK
<1>5. ScanSound
  BY <1>3 DEF Init, EquivInit, ScanSound, EscapesNoted, CallsAgree
<1> QED
  BY <1>1, <1>4, <1>5 DEF Inv

(* What every scanning step does: it moves past one mention of its kind.   *)
LEMMA ScanMoves ==
    ASSUME Inv, NEW kind, Scan(kind)
    PROVE  /\ phase' = "analyse" /\ mentions' = mentions /\ tracked' = tracked /\ tracked
           /\ next \in Nat /\ next' = next + 1 /\ next' \in 1 .. Len(mentions') + 1
           /\ mentions[next] \in AnyMention /\ mentions[next].k = kind
           /\ 1 .. next' - 1 = (1 .. next - 1) \cup {next}
<1>1. next \in 1 .. Len(mentions) + 1 /\ mentions \in Seq(AnyMention) /\ phase = "analyse"
  BY DEF Inv, TypeOK, MentionsOK, Scan
<1>2. next <= Len(mentions) /\ next' = next + 1 /\ mentions' = mentions
  BY DEF Scan
<1>3. next \in 1 .. Len(mentions) /\ mentions[next] \in AnyMention
  BY <1>1, <1>2
<1>4. 1 .. next' - 1 = (1 .. next - 1) \cup {next}
  BY <1>2, <1>3
<1> QED
  BY <1>1, <1>2, <1>3, <1>4 DEF Scan

(* An address taken or an indirect use is recorded.                        *)
LEMMA InvEscape == Inv /\ ScanEscape => Inv'
<1> SUFFICES ASSUME Inv, ScanEscape PROVE Inv'
  OBVIOUS
<1>1. Scan("escape") /\ escaped' /\ constants' = constants /\ blocked' = blocked
  BY DEF ScanEscape
<1>2. /\ phase' = "analyse" /\ mentions' = mentions /\ tracked
      /\ next' \in 1 .. Len(mentions') + 1
      /\ mentions[next].k = "escape"
      /\ 1 .. next' - 1 = (1 .. next - 1) \cup {next}
  BY <1>1, ScanMoves
<1>3. TypeOK' /\ MentionsOK'
  BY <1>1, <1>2 DEF Inv, TypeOK, MentionsOK
<1>4. CallsAgree'
  <2>1. ASSUME NEW p \in Params \ blocked, NEW n \in (1 .. next - 1) \cup {next}
        PROVE  /\ mentions[n].k # "odd"
               /\ mentions[n].k = "call" =>
                     Arg(mentions[n], p) = constants[p] /\ constants[p] # NoConstant
    <3>1. CASE n = next
      BY <1>2, <3>1
    <3>2. CASE n \in 1 .. next - 1
      BY <1>2, <3>2 DEF Inv, ScanSound, CallsAgree
    <3> QED
      BY <3>1, <3>2
  <2>2. ASSUME NEW p \in Params \ blocked', NEW n \in 1 .. next' - 1
        PROVE  /\ mentions'[n].k # "odd"
               /\ mentions'[n].k = "call" =>
                     Arg(mentions'[n], p) = constants'[p] /\ constants'[p] # NoConstant
    <3>1. blocked' = blocked /\ constants' = constants
      BY <1>1
    <3>2. mentions' = mentions /\ n \in (1 .. next - 1) \cup {next}
      BY <1>2
    <3> QED
      BY <2>1, <3>1, <3>2
  <2> QED
    BY <2>2 DEF CallsAgree, Arg
<1>5. ScanSound'
  BY <1>1, <1>2, <1>4 DEF ScanSound, EscapesNoted
<1> QED
  BY <1>3, <1>5 DEF Inv

(* A call with the wrong number of arguments blocks every parameter.       *)
LEMMA InvOddCall == Inv /\ ScanOddCall => Inv'
<1> SUFFICES ASSUME Inv, ScanOddCall PROVE Inv'
  OBVIOUS
<1>1. Scan("odd") /\ blocked' = Params /\ constants' = constants /\ escaped' = escaped
  BY DEF ScanOddCall
<1>2. /\ phase' = "analyse" /\ mentions' = mentions /\ tracked
      /\ next' \in 1 .. Len(mentions') + 1
      /\ mentions[next].k = "odd"
      /\ 1 .. next' - 1 = (1 .. next - 1) \cup {next}
  BY <1>1, ScanMoves
<1>3. TypeOK' /\ MentionsOK'
  BY <1>1, <1>2 DEF Inv, TypeOK, MentionsOK
<1>4. ScanSound'
  BY <1>1, <1>2 DEF Inv, ScanSound, EscapesNoted, CallsAgree
<1> QED
  BY <1>3, <1>4 DEF Inv

(* A call confirms, sets or blocks the constant of each parameter.         *)
LEMMA InvCall == Inv /\ ScanCall => Inv'
<1> SUFFICES ASSUME Inv, ScanCall PROVE Inv'
  OBVIOUS
<1> DEFINE arg == [p \in Params |-> Arg(mentions[next], p)]
<1>1. /\ Scan("call") /\ escaped' = escaped
      /\ blocked' = blocked \cup {p \in Params : ~ConstantArg(arg[p]) \/ Disagrees(p, arg[p])}
      /\ constants' = [p \in Params |->
            IF ConstantArg(arg[p]) /\ constants[p] = NoConstant THEN arg[p] ELSE constants[p]]
  BY DEF ScanCall
<1>2. /\ phase' = "analyse" /\ mentions' = mentions /\ tracked
      /\ next' \in 1 .. Len(mentions') + 1
      /\ mentions[next] \in AnyMention /\ mentions[next].k = "call"
      /\ 1 .. next' - 1 = (1 .. next - 1) \cup {next}
  BY <1>1, ScanMoves
<1>3. \A p \in Params : arg[p] \in Operands /\ arg[p] # NoConstant
  BY <1>2, ArgIsOperand, NoConstantIsNoOperand
<1>4. TypeOK'
  <2>1. constants' \in [Params -> {o \in Operands : ~IsVar(o)} \cup {NoConstant}]
    BY <1>1, <1>3 DEF Inv, TypeOK, ConstantArg
  <2>2. blocked' \subseteq Params
    BY <1>1 DEF Inv, TypeOK
  <2> QED
    BY <1>2, <2>1, <2>2 DEF TypeOK
<1>5. ASSUME NEW p \in Params \ blocked'
      PROVE  /\ p \notin blocked
             /\ constants'[p] = arg[p]
             /\ constants[p] # NoConstant => constants'[p] = constants[p]
  BY <1>1, <1>5 DEF Disagrees
<1>6. ASSUME NEW p \in Params \ blocked', NEW n \in 1 .. next' - 1
      PROVE  /\ mentions[n].k # "odd"
             /\ mentions[n].k = "call" =>
                   Arg(mentions[n], p) = constants'[p] /\ constants'[p] # NoConstant
  <2>1. CASE n = next
    BY <1>2, <1>3, <1>5, <2>1
  <2>2. CASE n \in 1 .. next - 1
    <3>1. /\ mentions[n].k # "odd"
          /\ mentions[n].k = "call" =>
                Arg(mentions[n], p) = constants[p] /\ constants[p] # NoConstant
      BY <1>2, <1>5, <2>2 DEF Inv, ScanSound, CallsAgree
    <3> QED
      BY <1>5, <3>1
  <2> QED
    BY <1>2, <2>1, <2>2
<1>7. EscapesNoted'
  BY <1>1, <1>2 DEF Inv, ScanSound, EscapesNoted
<1>8. ScanSound'
  <2>1. CallsAgree'
    BY <1>2, <1>6 DEF CallsAgree, Arg
  <2> QED
    BY <1>2, <1>7, <2>1 DEF ScanSound
<1>9. MentionsOK'
  BY <1>2 DEF Inv, MentionsOK
<1> QED
  BY <1>4, <1>8, <1>9 DEF Inv

(* Steps that leave the facts alone: the end of the scan and all that      *)
(* follows it.                                                             *)
LEMMA InvUnchanged ==
    ASSUME Inv, UNCHANGED <<mentions, tracked, next, constants, blocked, sawCall, escaped>>,
           phase' \in {"analyse", "rewrite", "ready", "source", "target", "event", "done"},
           tracked /\ phase' # "analyse" => next = Len(mentions) + 1
    PROVE  Inv'
<1>1. TypeOK' /\ MentionsOK'
  BY DEF Inv, TypeOK, MentionsOK
<1>2. CallsAgree' = CallsAgree
  BY DEF CallsAgree, Arg
<1>3. EscapesNoted' = EscapesNoted
  BY DEF EscapesNoted
<1>4. ScanSound'
  BY <1>2, <1>3 DEF Inv, ScanSound
<1> QED
  BY <1>1, <1>4 DEF Inv

(* Every step keeps the invariant.                                         *)
LEMMA InvStep == Inv /\ [Next]_vars => Inv'
<1> SUFFICES ASSUME Inv, [Next]_vars PROVE Inv'
  OBVIOUS
<1>1. CASE ScanEscape
  BY <1>1, InvEscape
<1>2. CASE ScanOddCall
  BY <1>2, InvOddCall
<1>3. CASE ScanCall
  BY <1>3, InvCall
<1>4. CASE ScanEnds
  <2>1. next \in 1 .. Len(mentions) + 1 /\ Len(mentions) \in Nat
    BY DEF Inv, TypeOK, MentionsOK
  <2>2. tracked => next = Len(mentions) + 1
    BY <1>4, <2>1 DEF ScanEnds
  <2> QED
    BY <1>4, <2>2, InvUnchanged DEF ScanEnds, facts
<1>5. ASSUME phase # "analyse", phase' # "analyse", phase' \in {"ready", "source", "target", "event", "done"},
             UNCHANGED <<mentions, tracked, next, facts>>
      PROVE  Inv'
  <2>1. tracked => next = Len(mentions) + 1
    BY <1>5 DEF Inv, ScanSound
  <2> QED
    BY <1>5, <2>1, InvUnchanged DEF facts
<1>6. CASE Rewrite
  BY <1>5, <1>6 DEF Rewrite
<1>7. CASE Run
  BY <1>5, <1>7 DEF Run, RunNext, Start, SourceStep, SourceStops, TargetStep, TargetStops,
     Answer, Finish
<1>8. CASE Done \/ UNCHANGED vars
  <2>1. tracked /\ phase # "analyse" => next = Len(mentions) + 1
    BY DEF Inv, ScanSound
  <2> QED
    BY <1>8, <2>1, InvUnchanged DEF Done, vars, facts, Inv, TypeOK
<1> QED
  BY <1>1, <1>2, <1>3, <1>4, <1>6, <1>7, <1>8 DEF Next

(* The facts of the scan are sound for the mentions scanned so far,        *)
(* whatever the mentions and their order.                                  *)
THEOREM Invariant == Spec => []Inv
BY InvInit, InvStep, PTL DEF Spec

(* A constant that replaces a parameter is what every call of the program  *)
(* passes for it, whatever the calls, their number and their order.        *)
THEOREM AppliedSound == Spec => []AppliedIsWhatEveryCallPasses
<1>1. Inv => AppliedIsWhatEveryCallPasses
  <2> SUFFICES ASSUME Inv, phase # "analyse", NEW p \in Applied, NEW n \in DOMAIN mentions
               PROVE  mentions[n].k = "call" /\ Arg(mentions[n], p) = constants[p]
    BY DEF AppliedIsWhatEveryCallPasses
  <2>1. tracked /\ ~escaped /\ p \in Params \ blocked
    BY DEF Applied
  <2>2. mentions \in Seq(AnyMention) /\ next = Len(mentions) + 1
    BY <2>1 DEF Inv, MentionsOK, ScanSound
  <2>3. n \in 1 .. next - 1 /\ mentions[n] \in AnyMention
    BY <2>2
  <2>4. mentions[n].k \in {"escape", "odd", "call"}
    BY <2>3 DEF AnyMention, Escape, OddCall, CallWith
  <2> QED
    BY <2>1, <2>3, <2>4 DEF Inv, ScanSound, EscapesNoted, CallsAgree
<1> QED
  BY <1>1, Invariant, PTL
============================================================================
