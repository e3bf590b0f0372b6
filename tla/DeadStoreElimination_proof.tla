--------------------- MODULE DeadStoreElimination_proof ---------------------
(* What the worklist of dead_store_elimination computes in every round, for *)
(* every program and every order in which predecessors are enqueued.       *)
EXTENDS DeadStoreElimination, Tacky_proof

ProgOK == prog \in Seq(Instructions) /\ prog # <<>>

(* The programs of the run are not empty.                                  *)
LEMMA ProgInvariant == Init => ProgOK
BY ProgramsAssumption DEF Init, ProgOK, FunctionBodies

(* No step changes the program.                                            *)
LEMMA ProgStep == ProgOK /\ [Next]_vars => ProgOK'
BY DEF ProgOK, Next, Pass, vars, GiveUp, Visit, Converge, FilterAgain, FilterLast, Run,
       RunNext, Start, SourceStep, SourceStops, TargetStep, TargetStops, Answer, Finish, Done

(* The equation of a block reads the live sets of its successors only.     *)
LEMMA EquationReadsSuccessors ==
    ASSUME NEW o, NEW o2, NEW c,
           \A s \in cfg[c].succs : s # Exit => o[s] = o2[s]
    PROVE  Equation(o, c) = Equation(o2, c)
<1>1. \A statics : MeetLiveness(statics, o, cfg[c].succs) = MeetLiveness(statics, o2, cfg[c].succs)
  BY DEF MeetLiveness
<1> QED
  BY <1>1 DEF Equation

(* The graph has as many blocks as the program has leaders.                *)
LEMMA BlocksOfProg ==
    ASSUME TypeOK, ProgOK
    PROVE  /\ Cardinality(Leaders(prog)) \in Nat \ {0}
           /\ DOMAIN cfg = 1 .. Cardinality(Leaders(prog))
BY CfgIsSequence DEF TypeOK, ProgOK

(* The list of all blocks, last block first, lists them all.               *)
LEMMA BackwardListsBlocks ==
    ASSUME NEW n \in Nat, NEW g, g = [b \in 1 .. n |-> g[b]]
    PROVE  /\ [b \in DOMAIN g |-> Len(g) + 1 - b] \in Seq(DOMAIN g)
           /\ ToSet([b \in DOMAIN g |-> Len(g) + 1 - b]) = DOMAIN g
<1> DEFINE w == [b \in DOMAIN g |-> Len(g) + 1 - b]
<1>1. DOMAIN g = 1 .. n /\ Len(g) = n
  OBVIOUS
<1>2. w = [b \in 1 .. n |-> n + 1 - b]
  BY <1>1
<1>3. w \in Seq(1 .. n)
  BY <1>2
<1>4. ASSUME NEW m \in 1 .. n PROVE m \in ToSet(w)
  <2>1. n + 1 - m \in DOMAIN w /\ w[n + 1 - m] = m
    BY <1>2
  <2> QED
    BY <2>1 DEF ToSet
<1>5. ToSet(w) \subseteq 1 .. n
  BY <1>2 DEF ToSet
<1> QED
  BY <1>1, <1>3, <1>4, <1>5

(* At the start the types are right and every block is queued.             *)
LEMMA TypeInit == Init => TypeOK /\ ToSet(worklist) = DOMAIN cfg
<1> SUFFICES ASSUME Init PROVE TypeOK /\ ToSet(worklist) = DOMAIN cfg
  OBVIOUS
<1>1. prog \in Seq(Instructions) /\ prog # <<>>
  BY ProgramsAssumption DEF Init, FunctionBodies
<1>2. /\ Cardinality(Leaders(prog)) \in Nat
      /\ DOMAIN cfg = 1 .. Cardinality(Leaders(prog))
  BY <1>1, CfgIsSequence DEF Init
<1>3. cfg = [b \in 1 .. Cardinality(Leaders(prog)) |-> cfg[b]]
  BY <1>2 DEF Init, Cfg
<1>4. worklist \in Seq(DOMAIN cfg) /\ ToSet(worklist) = DOMAIN cfg
  BY <1>2, <1>3, BackwardListsBlocks DEF Init, Backward
<1>5. cfg = Cfg(prog) /\ phase = "analyse"
  BY DEF Init, EquivInit
<1>6. liveIn = [b \in DOMAIN cfg |-> liveIn[b]]
  BY DEF Init, NothingLive
<1>7. cfg = [b \in DOMAIN cfg |-> cfg[b]]
  BY <1>2, <1>3
<1> QED
  BY <1>4, <1>5, <1>6, <1>7 DEF TypeOK

(* The blocks that Visit enqueues: the predecessors not yet queued.        *)
LEMMA VisitEnqueues ==
    ASSUME TypeOK, ProgOK, Visit
    PROVE  LET b == Head(worklist) IN
           /\ b \in DOMAIN cfg
           /\ worklist' \in Seq(DOMAIN cfg)
           /\ ToSet(worklist) \subseteq ToSet(worklist') \cup {b}
           /\ liveIn' = [liveIn EXCEPT ![b] = Equation(liveIn, b)]
           /\ \/ liveIn'[b] = liveIn[b]
              \/ cfg[b].preds \subseteq ToSet(worklist') \cup {Entry}
<1> DEFINE b == Head(worklist)
           t == Tail(worklist)
           newIn == Equation(liveIn, b)
<1>1. worklist \in Seq(DOMAIN cfg) /\ worklist # <<>>
  BY DEF TypeOK, Visit
<1>2. b \in DOMAIN cfg /\ t \in Seq(DOMAIN cfg)
  BY <1>1
<1>3. ToSet(worklist) \subseteq ToSet(t) \cup {b}
  BY <1>1, RangeOfTail
<1>5. liveIn' = [liveIn EXCEPT ![b] = newIn]
  BY DEF Visit
<1>6. CASE Changed(b, newIn)
  <2>1. PICK order \in Orders(Unqueued(b)) : worklist' = t \o order
    BY <1>6 DEF Visit
  <2>2. Unqueued(b) \subseteq DOMAIN cfg
    BY <1>2, PredecessorsAreBlocks DEF Unqueued, TypeOK, ProgOK
  <2>3. IsFiniteSet(Unqueued(b))
    <3>1. Cardinality(Leaders(prog)) \in Int /\ DOMAIN cfg = 1 .. Cardinality(Leaders(prog))
      BY BlocksOfProg
    <3>2. 1 \in Int
      OBVIOUS
    <3>3. IsFiniteSet(DOMAIN cfg)
      BY <3>1, <3>2, FS_Interval
    <3> QED
      BY <2>2, <3>3, FS_Subset
  <2>4. order \in Seq(Unqueued(b)) /\ ToSet(order) = Unqueued(b)
    BY <2>1, <2>3, OrdersListTheSet
  <2>5. order \in Seq(DOMAIN cfg)
    BY <2>2, <2>4
  <2>6. worklist' \in Seq(DOMAIN cfg)
    BY <1>2, <2>1, <2>5
  <2>7. ToSet(worklist') = ToSet(t) \cup ToSet(order)
    BY <1>2, <2>1, <2>5, RangeOfConcatenation
  <2> QED
    BY <1>2, <1>3, <1>5, <2>4, <2>6, <2>7 DEF Unqueued
<1>7. CASE ~Changed(b, newIn)
  <2>1. worklist' = t
    BY <1>7 DEF Visit
  <2>2. liveIn'[b] = liveIn[b]
    BY <1>2, <1>5, <1>7 DEF Changed, TypeOK
  <2> QED
    BY <1>2, <1>3, <1>5, <2>1, <2>2
<1> QED
  BY <1>6, <1>7

(* A further round keeps the graph and queues every block again.           *)
LEMMA FilterAgainRestarts ==
    ASSUME TypeOK, ProgOK, FilterAgain
    PROVE  TypeOK' /\ ToSet(worklist') = DOMAIN cfg'
<1> DEFINE n == Cardinality(Leaders(prog))
<1>1. n \in Nat /\ DOMAIN cfg = 1 .. n
  BY BlocksOfProg
<1>2. cfg' = [b \in DOMAIN cfg |->
                [code |-> FilterBlock(b), succs |-> cfg[b].succs, preds |-> cfg[b].preds]]
  BY DEF FilterAgain, Filtered
<1>3. /\ DOMAIN cfg' = DOMAIN cfg
      /\ \A b \in DOMAIN cfg : cfg'[b].succs = cfg[b].succs /\ cfg'[b].preds = cfg[b].preds
  BY <1>2
<1>4. cfg = [b \in 1 .. n |-> cfg[b]]
  BY <1>1 DEF TypeOK
<1>5. Backward \in Seq(DOMAIN cfg) /\ ToSet(Backward) = DOMAIN cfg
  BY <1>1, <1>4, BackwardListsBlocks DEF Backward
<1>6. prog' = prog /\ worklist' = Backward /\ phase' = "analyse"
  BY DEF FilterAgain
<1>7. liveIn' = [b \in DOMAIN cfg' |-> liveIn'[b]]
  BY <1>3 DEF FilterAgain, NothingLive
<1>8. cfg' = [b \in DOMAIN cfg' |-> cfg'[b]]
  BY <1>2
<1> QED
  BY <1>3, <1>5, <1>6, <1>7, <1>8 DEF TypeOK

(* Every step keeps the types.                                             *)
LEMMA TypeStep == TypeOK /\ ProgOK /\ [Next]_vars => TypeOK'
<1> SUFFICES ASSUME TypeOK, ProgOK, [Next]_vars PROVE TypeOK'
  OBVIOUS
<1>1. CASE Visit
  <2>1. cfg' = cfg /\ prog' = prog /\ phase' = phase
    BY <1>1 DEF Visit
  <2>2. worklist' \in Seq(DOMAIN cfg)
    BY <1>1, VisitEnqueues
  <2>3. liveIn' = [c \in DOMAIN cfg |-> liveIn'[c]]
    BY <1>1 DEF Visit, TypeOK
  <2> QED
    BY <2>1, <2>2, <2>3 DEF TypeOK
<1>2. CASE FilterAgain
  BY <1>2, FilterAgainRestarts
<1>3. CASE GiveUp \/ Converge \/ FilterLast
  BY <1>3 DEF GiveUp, Converge, FilterLast, TypeOK
<1>4. CASE Run
  BY <1>4 DEF Run, RunNext, Start, SourceStep, SourceStops, TargetStep, TargetStops, Answer,
     Finish, TypeOK
<1>5. CASE Done \/ UNCHANGED vars
  BY <1>5 DEF Done, vars, TypeOK
<1> QED
  BY <1>1, <1>2, <1>3, <1>4, <1>5 DEF Next, Pass

(* The graph keeps the shape of the program through every round and the    *)
(* worklist holds blocks of it only.                                       *)
THEOREM TypeCorrect == Spec => [](TypeOK /\ ProgOK)
<1>1. Init => TypeOK /\ ProgOK
  BY TypeInit, ProgInvariant
<1>2. TypeOK /\ ProgOK /\ [Next]_vars => TypeOK' /\ ProgOK'
  BY TypeStep, ProgStep
<1> QED
  BY <1>1, <1>2, PTL DEF Spec
----------------------------------------------------------------------------
(* At the start every block is queued.                                     *)
LEMMA SettledInit == Init => SettledUnlessQueued
BY TypeInit DEF SettledUnlessQueued

(* The only block whose equation Visit can upset is a predecessor of the   *)
(* visited one, and those are queued.                                      *)
LEMMA SettledVisit ==
    ASSUME TypeOK, ProgOK, SettledUnlessQueued, Visit
    PROVE  SettledUnlessQueued'
<1> DEFINE b == Head(worklist)
<1>1. /\ b \in DOMAIN cfg
      /\ ToSet(worklist) \subseteq ToSet(worklist') \cup {b}
      /\ liveIn' = [liveIn EXCEPT ![b] = Equation(liveIn, b)]
      /\ \/ liveIn'[b] = liveIn[b]
         \/ cfg[b].preds \subseteq ToSet(worklist') \cup {Entry}
  BY VisitEnqueues
<1>2. cfg' = cfg /\ prog' = prog /\ phase' = phase /\ ~GivesUp
  BY DEF Visit
<1>3. ASSUME NEW c \in DOMAIN cfg, c \notin ToSet(worklist')
      PROVE  liveIn'[c] = Equation(liveIn', c)
  <2>1. \A s \in cfg[c].succs : s # Exit => liveIn[s] = liveIn'[s]
    <3> SUFFICES ASSUME NEW s \in cfg[c].succs, s # Exit, liveIn[s] # liveIn'[s]
                 PROVE  FALSE
      OBVIOUS
    <3>1. s = b /\ liveIn'[b] # liveIn[b]
      BY <1>1 DEF TypeOK
    <3>2. c \in cfg[b].preds
      BY <1>1, <3>1, PredecessorsInvertSuccessors DEF TypeOK, ProgOK, FunctionBodies
    <3>3. c # Entry
      BY BlocksOfProg DEF Entry
    <3> QED
      BY <1>1, <1>3, <3>1, <3>2, <3>3
  <2>2. Equation(liveIn, c) = Equation(liveIn', c)
    BY <2>1, EquationReadsSuccessors
  <2>3. liveIn'[c] = Equation(liveIn, c)
    <3>1. CASE c = b
      BY <1>1, <3>1 DEF TypeOK
    <3>2. CASE c # b
      <4>1. c \notin ToSet(worklist)
        BY <1>1, <1>3, <3>2
      <4>2. liveIn[c] = Equation(liveIn, c)
        BY <1>2, <4>1 DEF SettledUnlessQueued
      <4> QED
        BY <1>1, <3>2, <4>2 DEF TypeOK
    <3> QED
      BY <3>1, <3>2
  <2> QED
    BY <2>2, <2>3
<1> QED
  BY <1>2, <1>3 DEF SettledUnlessQueued, Equation, Code, GivesUp, HasSetjmp

(* Every step keeps the blocks outside the worklist settled.               *)
LEMMA SettledStep ==
    TypeOK /\ ProgOK /\ SettledUnlessQueued /\ [Next]_vars => SettledUnlessQueued'
<1> SUFFICES ASSUME TypeOK, ProgOK, SettledUnlessQueued, [Next]_vars
             PROVE  SettledUnlessQueued'
  OBVIOUS
<1>1. CASE Visit
  BY <1>1, SettledVisit
<1>2. CASE FilterAgain
  BY <1>2, FilterAgainRestarts DEF SettledUnlessQueued
<1>3. CASE UNCHANGED <<prog, cfg, liveIn, worklist>>
  BY <1>3 DEF SettledUnlessQueued, Equation, Code, GivesUp, HasSetjmp
<1>4. Visit \/ FilterAgain \/ UNCHANGED <<prog, cfg, liveIn, worklist>>
  BY DEF Next, Pass, vars, GiveUp, Converge, FilterLast, Run, RunNext, Start, SourceStep,
         SourceStops, TargetStep, TargetStops, Answer, Finish, Done
<1> QED
  BY <1>1, <1>2, <1>3, <1>4

(* In every round, a block outside the worklist satisfies its equation over *)
(* the code that is left, so no store is dropped on a half-finished answer. *)
THEOREM Settled == Spec => []SettledUnlessQueued
<1>1. Init => SettledUnlessQueued
  BY SettledInit
<1>2. TypeOK /\ ProgOK /\ SettledUnlessQueued /\ [Next]_vars => SettledUnlessQueued'
  BY SettledStep
<1> QED
  BY <1>1, <1>2, TypeCorrect, PTL DEF Spec
----------------------------------------------------------------------------
(* The filter reads a solution of the equations of the current code.       *)
Drained == phase = "rewrite" => worklist = <<>> /\ ~GivesUp

(* The worklist is empty whenever a filter reads the live sets.            *)
LEMMA DrainedStep == Drained /\ [Next]_vars => Drained'
BY DEF Drained, GivesUp, HasSetjmp, Next, Pass, vars, GiveUp, Visit, Converge, FilterAgain,
       FilterLast, Run, RunNext, Start, SourceStep, SourceStops, TargetStep, TargetStops,
       Answer, Finish, Done

FilterReadsFixpoint ==
    phase = "rewrite" => \A b \in DOMAIN cfg : liveIn[b] = Equation(liveIn, b)

(* Each round of the filter decides on one consistent solution, whatever   *)
(* the rounds before it removed.                                           *)
THEOREM FixpointAtFilter == Spec => []FilterReadsFixpoint
<1>1. Init => Drained
  BY DEF Init, EquivInit, Drained
<1>2. Drained /\ [Next]_vars => Drained'
  BY DrainedStep
<1>3. Drained /\ SettledUnlessQueued => FilterReadsFixpoint
  BY DEF Drained, SettledUnlessQueued, FilterReadsFixpoint, ToSet
<1> QED
  BY <1>1, <1>2, <1>3, Settled, PTL DEF Spec
----------------------------------------------------------------------------
(* What the transfer function says of an instruction.                      *)
(* The whole-function facts are about P: pointers reach what is aliased.   *)
KnownOK(P, known) ==
    /\ known.statics = ReferencedStatics(P)
    /\ AddressTaken(P) \subseteq known.aliased
    /\ known.aliased \subseteq Vars

(* The facts the pass uses are.                                            *)
LEMMA KnownIs ==
    ASSUME NEW P \in FunctionBodies, NEW code,
           \A b \in DOMAIN code : \A n \in DOMAIN code[b] : code[b][n] \in Instructions
    PROVE  KnownOK(P, Known(P, code))
<1> DEFINE written == {i.dst : i \in {i \in UNION {ToSet(code[b]) : b \in DOMAIN code} :
                                         i.k \in {"put", "cps"}}}
<1>1. Params \subseteq Vars /\ Statics \subseteq Vars
  BY ParamsAssumption, StaticsAssumption
<1>2. AddressTaken(P) \subseteq Vars
  BY ReachableAreVars DEF Reachable
<1>3. written \subseteq Vars
  <2> SUFFICES ASSUME NEW b \in DOMAIN code, NEW n \in DOMAIN code[b],
                      code[b][n].k \in {"put", "cps"}
               PROVE  code[b][n].dst \in Vars
    BY DEF ToSet
  <2>1. code[b][n] \in Instructions
    OBVIOUS
  <2>2. code[b][n].dst \in Vars \cup {""} /\ HasFields(code[b][n])
    BY <2>1, InstructionFields
  <2> QED
    BY <2>2 DEF HasFields
<1>4. EffectiveAliased(P, code) \subseteq FunctionAliasedVars(P) \cup written
  BY DEF EffectiveAliased
<1>5. FunctionAliasedVars(P) = ReferencedStatics(P) \cup AddressTaken(P) \cup Params
  BY DEF FunctionAliasedVars, FindAliasedVars
<1>6. ReferencedStatics(P) \subseteq Statics
  BY DEF ReferencedStatics
<1>7. FunctionAliasedVars(P) \subseteq EffectiveAliased(P, code)
  BY DEF EffectiveAliased
<1> QED
  BY <1>1, <1>2, <1>3, <1>4, <1>5, <1>6, <1>7 DEF KnownOK, Known

(* It stays within the variables of the function.                          *)
LEMMA TransferType ==
    ASSUME NEW P, NEW known, KnownOK(P, known), NEW live \in SUBSET Vars, NEW i \in Instructions
    PROVE  /\ LiveBefore(known, live, i) \in SUBSET Vars
           /\ FilteredBefore(known, live, i) \in SUBSET Vars
<1>1. SourceVars(i) \subseteq Vars /\ i.dst \in Vars \cup {""} /\ HasFields(i)
  BY SourceVarsAreVars, InstructionFields
<1>2. known.aliased \subseteq Vars
  BY DEF KnownOK
<1>3. i.k = "put" => i.dst \in Vars
  BY <1>1 DEF HasFields
<1>4. LiveBefore(known, live, i) \in SUBSET Vars
  BY <1>1, <1>2, <1>3 DEF LiveBefore
<1> QED
  BY <1>4 DEF FilteredBefore

(* A store that is dropped computes a value nobody reads, of a variable    *)
(* that is no static; what is live before it is what is live after it.     *)
LEMMA DroppedIs ==
    ASSUME NEW known, NEW live, NEW i \in Instructions, IsDeadStore(known, live, i)
    PROVE  /\ i.k \in Operational \ {"atomic", "setjmp"}
           /\ i.dst \in Vars /\ i.dst \notin live \cup known.statics
           /\ FilteredBefore(known, live, i) = live
<1>1. i.dst \in Vars \cup {""} /\ HasFields(i) /\ i.k \in Kinds
  BY InstructionFields
<1>2. i.dst \notin live \cup known.statics
  BY DEF IsDeadStore, AggregateWriteCanBeDead
<1>3. i.dst # ""
  BY <1>1 DEF IsDeadStore, HasFields
<1>4. i.k \in Operational \ {"atomic", "setjmp"}
  BY <1>1, <1>3 DEF IsDeadStore, UnknownMemoryWrite, HasFields, Kinds, Operational
<1> QED
  BY <1>1, <1>2, <1>3, <1>4 DEF FilteredBefore

(* Before one that is kept everything is live that it reads, through        *)
(* pointers and in an aggregate that it writes in part too, and what is    *)
(* live after it, but for what it defines.                                 *)
LEMMA KeptIs ==
    ASSUME NEW known, NEW live, NEW i \in Instructions, ~IsDeadStore(known, live, i)
    PROVE  LET before == FilteredBefore(known, live, i) IN
           /\ SourceVars(i) \subseteq before
           /\ live \ {i.dst} \subseteq before
           /\ i.k \in {"load", "atomic", "call", "icall"} => known.aliased \subseteq before
           /\ i.k = "put" => i.dst \in before
<1>1. FilteredBefore(known, live, i) = LiveBefore(known, live, i)
  BY DEF FilteredBefore
<1>2. i.k \in {"put", "cps"} => ~AggregateWriteCanBeDead(known, live, i.dst)
  BY DEF IsDeadStore
<1> QED
  BY <1>1, <1>2 DEF LiveBefore

(* The analysis, which drops nothing, finds no less live.                  *)
LEMMA FilterFindsLess ==
    ASSUME NEW known, NEW live, NEW more, live \subseteq more, NEW i \in Instructions
    PROVE  FilteredBefore(known, live, i) \subseteq LiveBefore(known, more, i)
<1>1. CASE IsDeadStore(known, live, i)
  <2>1. i.dst \notin live /\ FilteredBefore(known, live, i) = live
    BY <1>1, DroppedIs
  <2>2. live \subseteq LiveBefore(known, more, i)
    BY <2>1 DEF LiveBefore
  <2> QED
    BY <2>1, <2>2
<1>2. CASE ~IsDeadStore(known, live, i)
  <2>1. FilteredBefore(known, live, i) = LiveBefore(known, live, i)
    BY <1>2 DEF FilteredBefore
  <2>2. i.k \in {"put", "cps"} =>
           /\ ~AggregateWriteCanBeDead(known, live, i.dst)
           /\ ~AggregateWriteCanBeDead(known, more, i.dst)
    BY <1>2 DEF IsDeadStore, AggregateWriteCanBeDead
  <2>3. LiveBefore(known, live, i) \subseteq LiveBefore(known, more, i)
    BY <2>2 DEF LiveBefore
  <2> QED
    BY <2>1, <2>3
<1> QED
  BY <1>1, <1>2
----------------------------------------------------------------------------
(* The recursion against the order of the code has a solution.             *)
LEMMA BackwardsIs ==
    ASSUME NEW step, NEW M \in Nat, Len(step) = M, DOMAIN step = 1 .. M, NEW live
    PROVE  LET at == Backwards(step, live) IN
           /\ at[M] = live
           /\ \A n \in 1 .. M : at[n - 1] = step[n][at[n]]
<1> DEFINE rev == Reverse(step)
           before == Along(rev, live)
           at == Backwards(step, live)
<1>1. rev = [n \in 1 .. M |-> step[(M - n) + 1]]
  BY DEF Reverse
<1>2. Len(rev) = M
  BY <1>1
<1>3. before[0] = live /\ \A n \in 1 .. M : before[n] = rev[n][before[n - 1]]
  BY <1>2, AlongIsDefined
<1>4. \A n \in 0 .. M : at[n] = before[M - n]
  BY DEF Backwards
<1> HIDE DEF at, before, rev
<1>5. at[M] = live
  BY <1>3, <1>4
<1>6. ASSUME NEW n \in 1 .. M PROVE at[n - 1] = step[n][at[n]]
  <2>1. at[n - 1] = before[M - (n - 1)] /\ at[n] = before[M - n]
    BY <1>4
  <2>2. M - (n - 1) \in 1 .. M /\ (M - (n - 1)) - 1 = M - n /\ (M - (M - (n - 1))) + 1 = n
    OBVIOUS
  <2>3. before[M - (n - 1)] = rev[M - (n - 1)][before[M - n]]
    BY <1>3, <2>2
  <2>4. rev[M - (n - 1)] = step[n]
    BY <1>1, <2>2
  <2> QED
    BY <2>1, <2>3, <2>4
<1> QED
  BY <1>5, <1>6 DEF at

(* The variables live along a block, for the analysis and for the filter.  *)
LiveSteps(known, code) ==
    [n \in DOMAIN code |-> [L \in SUBSET Vars |-> LiveBefore(known, L, code[n])]]

FilterSteps(known, code) ==
    [n \in DOMAIN code |-> [L \in SUBSET Vars |-> FilteredBefore(known, L, code[n])]]

(* Going backwards from the variables of the function stays within them.   *)
LEMMA BackwardsStaysIn ==
    ASSUME NEW M \in Nat, NEW S, NEW at, at[M] \in S,
           \A n \in 1 .. M : at[n] \in S => at[n - 1] \in S
    PROVE  \A n \in 0 .. M : at[n] \in S
<1> DEFINE T == {n \in 0 .. M : at[M - n] \in S}
<1>1. 0 \in T
  OBVIOUS
<1>2. \A n \in 0 .. M - 1 : n \in T => n + 1 \in T
  <2> TAKE n \in 0 .. M - 1
  <2> HAVE n \in T
  <2>1. M - n \in 1 .. M /\ (M - n) - 1 = M - (n + 1) /\ at[M - n] \in S
    OBVIOUS
  <2>2. at[(M - n) - 1] \in S
    BY <2>1
  <2> QED
    BY <2>1, <2>2
<1> HIDE DEF T
<1>3. 0 .. M \subseteq T
  BY <1>1, <1>2, InductionUpTo
<1>4. ASSUME NEW n \in 0 .. M PROVE at[n] \in S
  <2>1. M - n \in 0 .. M /\ M - (M - n) = n
    OBVIOUS
  <2>2. M - n \in T
    BY <1>3, <2>1
  <2> QED
    BY <2>1, <2>2 DEF T
<1> QED
  BY <1>4

(* The filter's live sets: each is what the instruction after it makes of  *)
(* the next.                                                               *)
LEMMA FilteredLiveIs ==
    ASSUME NEW P, NEW known, KnownOK(P, known), NEW code \in Seq(Instructions),
           NEW live \in SUBSET Vars
    PROVE  LET at == FilteredLive(known, live, code) IN
           /\ at[Len(code)] = live
           /\ \A n \in 0 .. Len(code) : at[n] \in SUBSET Vars
           /\ \A n \in 1 .. Len(code) : at[n - 1] = FilteredBefore(known, at[n], code[n])
<1> DEFINE M == Len(code)
           step == FilterSteps(known, code)
           at == FilteredLive(known, live, code)
<1>1. M \in Nat /\ DOMAIN code = 1 .. M /\ \A n \in 1 .. M : code[n] \in Instructions
  OBVIOUS
<1>2. DOMAIN step = 1 .. M /\ Len(step) = M
  BY <1>1 DEF FilterSteps
<1>3. at = Backwards(step, live)
  BY DEF FilteredLive, FilterSteps
<1>4. \A n \in 1 .. M : \A L \in SUBSET Vars :
         /\ step[n][L] = FilteredBefore(known, L, code[n])
         /\ FilteredBefore(known, L, code[n]) \in SUBSET Vars
  BY <1>1, TransferType DEF FilterSteps
<1> HIDE DEF at, step, M
<1>5. at[M] = live /\ \A n \in 1 .. M : at[n - 1] = step[n][at[n]]
  BY <1>1, <1>2, <1>3, BackwardsIs
<1>6. \A n \in 1 .. M : at[n] \in SUBSET Vars => at[n - 1] \in SUBSET Vars
  BY <1>4, <1>5
<1>7. \A n \in 0 .. M : at[n] \in SUBSET Vars
  BY <1>1, <1>5, <1>6, BackwardsStaysIn
<1>8. \A n \in 1 .. M : at[n - 1] = FilteredBefore(known, at[n], code[n])
  BY <1>1, <1>4, <1>5, <1>7
<1> QED
  BY <1>5, <1>7, <1>8 DEF at, M

(* At the start of a block the filter finds no more live than the analysis. *)
LEMMA LiveAtStartIs ==
    ASSUME NEW P, NEW known, KnownOK(P, known), NEW code \in Seq(Instructions),
           NEW live \in SUBSET Vars
    PROVE  /\ LiveAtStart(known, live, code) \in SUBSET Vars
           /\ FilteredLive(known, live, code)[0] \subseteq LiveAtStart(known, live, code)
<1> DEFINE M == Len(code)
           step == LiveSteps(known, code)
           full == Backwards(step, live)
           at == FilteredLive(known, live, code)
           T == {n \in 0 .. M : at[M - n] \subseteq full[M - n]}
<1>1. M \in Nat /\ DOMAIN code = 1 .. M /\ \A n \in 1 .. M : code[n] \in Instructions
  OBVIOUS
<1>2. DOMAIN step = 1 .. M /\ Len(step) = M
  BY <1>1 DEF LiveSteps
<1>3. LiveAtStart(known, live, code) = full[0]
  BY DEF LiveAtStart, LiveSteps
<1>4. \A n \in 1 .. M : \A L \in SUBSET Vars :
         /\ step[n][L] = LiveBefore(known, L, code[n])
         /\ LiveBefore(known, L, code[n]) \in SUBSET Vars
  BY <1>1, TransferType DEF LiveSteps
<1>5. /\ at[M] = live
      /\ \A n \in 0 .. M : at[n] \in SUBSET Vars
      /\ \A n \in 1 .. M : at[n - 1] = FilteredBefore(known, at[n], code[n])
  BY FilteredLiveIs
<1> HIDE DEF step, M
<1>6. full[M] = live /\ \A n \in 1 .. M : full[n - 1] = step[n][full[n]]
  BY <1>1, <1>2, BackwardsIs
<1> HIDE DEF at, full
<1>7. \A n \in 1 .. M : full[n] \in SUBSET Vars => full[n - 1] \in SUBSET Vars
  BY <1>4, <1>6
<1>8. \A n \in 0 .. M : full[n] \in SUBSET Vars
  BY <1>1, <1>6, <1>7, BackwardsStaysIn
<1>9. 0 \in T
  BY <1>1, <1>5, <1>6
<1>10. \A n \in 0 .. M - 1 : n \in T => n + 1 \in T
  <2> TAKE n \in 0 .. M - 1
  <2> HAVE n \in T
  <2> DEFINE m == M - n
  <2>1. m \in 1 .. M /\ m - 1 = M - (n + 1) /\ at[m] \subseteq full[m] /\ n + 1 \in 0 .. M
    BY <1>1
  <2> HIDE DEF m
  <2>2. at[m - 1] = FilteredBefore(known, at[m], code[m])
    BY <1>5, <2>1
  <2>3. m \in 0 .. M
    BY <1>1, <2>1
  <2>4. full[m - 1] = LiveBefore(known, full[m], code[m])
    BY <1>4, <1>6, <1>8, <2>1, <2>3
  <2>5. at[m - 1] \subseteq full[m - 1]
    BY <1>1, <2>1, <2>2, <2>4, FilterFindsLess
  <2> QED
    BY <2>1, <2>5
<1> HIDE DEF T
<1>11. 0 .. M \subseteq T
  BY <1>1, <1>9, <1>10, InductionUpTo
<1>12. M \in T /\ M - M = 0 /\ 0 \in 0 .. M
  BY <1>1, <1>11
<1>13. at[0] \subseteq full[0]
  BY <1>12 DEF T
<1> QED
  BY <1>3, <1>8, <1>12, <1>13 DEF at
----------------------------------------------------------------------------
(* What is left in the blocks after some rounds.                           *)
(* The code of block b is that of the positions K of P in the block.       *)
CodeOf(P, K, b, code) == Lists(K, P, Instructions, code, Starts(P)[b] - 1, BlockEnd(P, b))

Codes(P, K, g) == \A b \in DOMAIN Cfg(P) : CodeOf(P, K, b, g[b].code)

(* How many of them there are up to p.                                     *)
Offset(P, K, b, p) == Rank(K, p) - Rank(K, Starts(P)[b] - 1)

InBlock(P, b, p) == b \in DOMAIN Cfg(P) /\ Starts(P)[b] <= p /\ p <= BlockEnd(P, b)

(* Where a block begins and ends.                                          *)
LEMMA BlockRange ==
    ASSUME NEW P \in FunctionBodies, NEW b \in DOMAIN Cfg(P)
    PROVE  /\ Starts(P)[b] \in Nat \ {0} /\ BlockEnd(P, b) \in Nat /\ Len(P) \in Nat
           /\ Starts(P)[b] <= BlockEnd(P, b) /\ BlockEnd(P, b) <= Len(P)
           /\ DOMAIN P = 1 .. Len(P)
           /\ Len(Cfg(P)[b].code) = BlockEnd(P, b) - Starts(P)[b] + 1
<1>1. P \in Seq(Instructions) /\ P # <<>>
  BY DEF FunctionBodies
<1>2. b \in DOMAIN Starts(P)
  BY <1>1, BlockCode
<1> QED
  BY <1>1, <1>2, BlockBounds, BlockInstructions

(* Going through the positions of a block goes through the code that is    *)
(* left of it.                                                             *)
Walks(P, K, b, code) ==
    /\ code \in Seq(Instructions) /\ Len(code) \in Nat /\ DOMAIN code = 1 .. Len(code)
    /\ Offset(P, K, b, Starts(P)[b] - 1) = 0
    /\ Offset(P, K, b, BlockEnd(P, b)) = Len(code)
    /\ \A p : Offset(P, K, b, p) \in Int
    /\ \A p \in DOMAIN P : InBlock(P, b, p) =>
         /\ Offset(P, K, b, p) \in 0 .. Len(code)
         /\ Offset(P, K, b, p - 1) \in 0 .. Len(code)
         /\ p \notin K => Offset(P, K, b, p - 1) = Offset(P, K, b, p)
         /\ p \in K => /\ Offset(P, K, b, p) \in 1 .. Len(code)
                       /\ Offset(P, K, b, p - 1) = Offset(P, K, b, p) - 1
                       /\ code[Offset(P, K, b, p)] = P[p]

(* The code of a block is walked like that.                                *)
LEMMA OffsetIs ==
    ASSUME NEW P \in FunctionBodies, NEW K, K \subseteq DOMAIN P, NEW b \in DOMAIN Cfg(P),
           NEW code, CodeOf(P, K, b, code)
    PROVE  Walks(P, K, b, code)
<1> DEFINE a == Starts(P)[b] - 1
           e == BlockEnd(P, b)
           R(p) == Rank(K, p)
<1>1. a \in Nat /\ e \in Nat /\ a <= e /\ a + 1 = Starts(P)[b] /\ DOMAIN P = 1 .. Len(P) /\ Len(P) \in Nat
  BY BlockRange
<1>2. IsFiniteSet(K) /\ K \subseteq Nat
  <2>1. K \subseteq 1 .. Len(P)
    BY <1>1
  <2> QED
    BY <1>1, <2>1, RankEnds
<1>3. \A p : R(p) \in Nat
  BY <1>2, RankType
<1>4. /\ code \in Seq(Instructions) /\ Len(code) = R(e) - R(a)
      /\ \A q \in K : a < q /\ q <= e => code[R(q) - R(a)] = P[q]
  BY DEF CodeOf, Lists
<1>5. \A p, q \in Nat : p <= q => R(p) <= R(q)
  <2> TAKE p, q \in Nat
  <2> HAVE p <= q
  <2>1. CASE p = q
    BY <1>3, <2>1
  <2>2. CASE p < q
    BY <1>2, <2>2, RankGrows
  <2> QED
    BY <2>1, <2>2
<1>6. Len(code) \in Nat /\ DOMAIN code = 1 .. Len(code)
  BY <1>4
<1>7. ASSUME NEW p \in DOMAIN P, InBlock(P, b, p)
      PROVE  /\ p \in Nat /\ p - 1 \in Nat /\ a < p /\ a <= p - 1 /\ p - 1 <= p /\ p <= e
             /\ R(p) = IF p \in K THEN R(p - 1) + 1 ELSE R(p - 1)
  <2>1. p \in Nat /\ p - 1 \in Nat /\ a < p /\ a <= p - 1 /\ p - 1 <= p /\ p <= e /\ (p - 1) + 1 = p
    BY <1>1, <1>7 DEF InBlock
  <2>2. R(p) = IF p \in K THEN R(p - 1) + 1 ELSE R(p - 1)
    BY <1>2, <2>1, RankStep
  <2> QED
    BY <2>1, <2>2
<1> HIDE DEF R, a, e
<1>8. ASSUME NEW p \in DOMAIN P, InBlock(P, b, p)
      PROVE  /\ R(p) - R(a) \in 0 .. Len(code) /\ R(p - 1) - R(a) \in 0 .. Len(code)
             /\ p \notin K => R(p - 1) - R(a) = R(p) - R(a)
             /\ p \in K => /\ R(p) - R(a) \in 1 .. Len(code)
                           /\ R(p - 1) - R(a) = (R(p) - R(a)) - 1
                           /\ code[R(p) - R(a)] = P[p]
  <2>1. /\ p \in Nat /\ p - 1 \in Nat /\ a < p /\ a <= p - 1 /\ p - 1 <= p /\ p <= e
        /\ R(p) = IF p \in K THEN R(p - 1) + 1 ELSE R(p - 1)
    BY <1>7, <1>8
  <2>2. R(a) <= R(p - 1) /\ R(p - 1) <= R(p) /\ R(p) <= R(e)
    BY <1>1, <1>5, <2>1
  <2>3. R(a) \in Nat /\ R(p - 1) \in Nat /\ R(p) \in Nat /\ R(e) \in Nat
    BY <1>3
  <2>4. p \in K => code[R(p) - R(a)] = P[p]
    BY <1>4, <2>1
  <2> QED
    BY <1>4, <2>1, <2>2, <2>3, <2>4
<1>9. R(a) - R(a) = 0 /\ R(e) - R(a) = Len(code) /\ \A p : R(p) - R(a) \in Int
  BY <1>3, <1>4
<1> QED
  BY <1>4, <1>6, <1>8, <1>9 DEF Walks, Offset, R, a, e

(* The positions from which control may go from p, whatever is computed.   *)
After(P, p) ==
    {q \in 1 .. Len(P) + 1 :
        \/ q = p + 1 /\ (~EndsBasicBlock(P[p]) \/ P[p].k = "jz")
        \/ /\ q \in DOMAIN P /\ P[q].k = "label"
           /\ \/ P[p].k \in {"jump", "jz"} /\ P[q].at = P[p].at
              \/ P[p].k = "jind"}

(* Control goes there only.                                                *)
LEMMA NextIsAfter ==
    ASSUME NEW P \in FunctionBodies, NEW s, MachineOK(P, s), s.pc \in DOMAIN P,
           ~Undefined(P, s), ~AtEvent(P, s)
    PROVE  NextPc(P, s) \in After(P, s.pc)
<1>1. DOMAIN P = 1 .. Len(P) /\ Len(P) \in Nat
  BY DEF FunctionBodies
<1> QED
  BY <1>1, NextPcCases DEF After

(* In its block, or at the start of a successor.                           *)
LEMMA AfterContinues ==
    ASSUME NEW P \in FunctionBodies, NEW p \in DOMAIN P, NEW b, InBlock(P, b, p), NEW q \in After(P, p)
    PROVE  Continues(P, b, p, q) /\ q \in Nat
<1>1. DOMAIN P = 1 .. Len(P) /\ Len(P) \in Nat
  BY DEF FunctionBodies
<1>2. b \in DOMAIN Cfg(P) /\ Starts(P)[b] <= p /\ p <= BlockEnd(P, b) /\ p \in 1 .. Len(P)
  BY <1>1 DEF InBlock
<1>3. CASE q = p + 1 /\ (~EndsBasicBlock(P[p]) \/ P[p].k = "jz")
  BY <1>2, <1>3, FallsThrough DEF Continues, After
<1>4. CASE /\ q \in DOMAIN P /\ P[q].k = "label"
           /\ \/ P[p].k \in {"jump", "jz"} /\ P[q].at = P[p].at
              \/ P[p].k = "jind"
  BY <1>1, <1>2, <1>4, JumpEnters DEF Continues
<1> QED
  BY <1>1, <1>3, <1>4 DEF After

(* The positions K of P can be run without the others: L has for each       *)
(* position variables on which it is enough that two machines agree there. *)
Covers(P, L, p) ==
    /\ SourceVars(P[p]) \subseteq L[p]
    /\ P[p].k \in {"load", "atomic", "call", "icall"} => Reachable(P) \subseteq L[p]
    /\ P[p].k = "put" => P[p].dst \in L[p]
    /\ \A q \in After(P, p) : L[q] \ {P[p].dst} \subseteq L[p]

Unneeded(P, L, p) ==
    /\ P[p].k \in Operational \ {"atomic", "setjmp"}
    /\ P[p].dst \notin L[p + 1]
    /\ L[p + 1] \subseteq L[p]

LeavesOut(P, K, L) ==
    /\ K \subseteq DOMAIN P
    /\ \A p \in 1 .. Len(P) + 1 : Statics \subseteq L[p] /\ L[p] \subseteq Vars
    /\ (\E q \in DOMAIN P : P[q].k = "setjmp") => \A p \in 1 .. Len(P) + 1 : L[p] = Vars
    /\ \A p \in K : Covers(P, L, p)
    /\ \A p \in DOMAIN P \ K : Unneeded(P, L, p)

(* At first nothing is left out, and everything is needed.                 *)
LEMMA AllIsNeeded ==
    ASSUME NEW P \in FunctionBodies
    PROVE  LeavesOut(P, DOMAIN P, [p \in 1 .. Len(P) + 1 |-> Vars])
<1>1. DOMAIN P = 1 .. Len(P) /\ Len(P) \in Nat
  BY DEF FunctionBodies
<1>2. \A p \in DOMAIN P : p \in 1 .. Len(P) + 1
  BY <1>1
<1>3. Statics \subseteq Vars /\ Reachable(P) \subseteq Vars
  BY StaticsAssumption, ReachableAreVars
<1>4. ASSUME NEW p \in DOMAIN P PROVE SourceVars(P[p]) \subseteq Vars /\ (P[p].k = "put" => P[p].dst \in Vars)
  <2>1. P[p] \in Instructions
    BY MentionedVars
  <2> QED
    BY <2>1, SourceVarsAreVars, InstructionFields DEF HasFields
<1> DEFINE L == [p \in 1 .. Len(P) + 1 |-> Vars]
<1>5. \A p \in 1 .. Len(P) + 1 : L[p] = Vars
  OBVIOUS
<1> HIDE DEF L
<1>6. \A p \in DOMAIN P : Covers(P, L, p)
  BY <1>2, <1>3, <1>4, <1>5 DEF Covers, After
<1> QED
  BY <1>3, <1>5, <1>6 DEF LeavesOut, L
----------------------------------------------------------------------------
(* One round.                                                              *)
(* The live sets that the analysis holds are sets of variables.            *)
LiveOK == prog \in FunctionBodies /\ liveIn \in [DOMAIN cfg -> SUBSET Vars]

(* What the filter of the round knows of the function, has at the end of a *)
(* block, and has along it.                                                *)
Whole == Known(prog, Code(cfg))
AtEnd(b) == MeetLiveness(Whole.statics, liveIn, cfg[b].succs)
Live(b) == FilteredLive(Whole, AtEnd(b), cfg[b].code)

(* What it keeps of a block, and so of the positions K that are left.      *)
KeptIn(b) == {n \in DOMAIN cfg[b].code : ~IsDeadStore(Whole, Live(b)[n], cfg[b].code[n])}

Still(K) ==
    {p \in K : \A b \in DOMAIN cfg : InBlock(prog, b, p) => Offset(prog, K, b, p) \in KeptIn(b)}

(* Its live sets at the positions of the function.                         *)
Around(K) ==
    [b \in DOMAIN cfg |-> [n \in 0 .. Len(Cfg(prog)[b].code) |->
        Live(b)[Offset(prog, K, b, Starts(prog)[b] + n - 1)]]]

(* The graph is that of the function; the filter reads a solution.         *)
RoundOK(K) ==
    /\ TypeOK /\ LiveOK
    /\ \A b \in DOMAIN cfg : liveIn[b] = Equation(liveIn, b)
    /\ K \subseteq DOMAIN prog /\ Codes(prog, K, cfg)

(* What the pass knows is so.                                              *)
LEMMA WholeIs ==
    ASSUME TypeOK, prog \in FunctionBodies, NEW K, K \subseteq DOMAIN prog, Codes(prog, K, cfg)
    PROVE  KnownOK(prog, Whole) /\ \A b \in DOMAIN cfg : cfg[b].code \in Seq(Instructions)
<1>1. DOMAIN cfg = DOMAIN Cfg(prog)
  BY DEF TypeOK
<1>2. \A b \in DOMAIN cfg : cfg[b].code \in Seq(Instructions)
  BY <1>1, OffsetIs DEF Codes, Walks
<1>3. \A b \in DOMAIN Code(cfg) : \A n \in DOMAIN Code(cfg)[b] : Code(cfg)[b][n] \in Instructions
  <2>1. DOMAIN Code(cfg) = DOMAIN cfg /\ \A b \in DOMAIN cfg : Code(cfg)[b] = cfg[b].code
    BY DEF Code
  <2>2. \A b \in DOMAIN cfg : \A n \in DOMAIN cfg[b].code : cfg[b].code[n] \in Instructions
    BY <1>2
  <2> QED
    BY <2>1, <2>2
<1> QED
  BY <1>2, <1>3, KnownIs DEF Whole

(* Where a block ends variables are live.                                  *)
LEMMA AtEndType ==
    ASSUME TypeOK, LiveOK, NEW K, K \subseteq DOMAIN prog, Codes(prog, K, cfg), NEW b \in DOMAIN cfg
    PROVE  /\ AtEnd(b) \in SUBSET Vars
           /\ \A c \in cfg[b].succs \ {Exit} : liveIn[c] \subseteq AtEnd(b)
<1>1. prog \in FunctionBodies /\ prog \in Seq(Instructions) /\ prog # <<>>
  BY DEF LiveOK, FunctionBodies
<1>2. cfg[b].succs \subseteq DOMAIN cfg \cup {Exit}
  BY <1>1, SuccessorsAreBlocks DEF TypeOK
<1>3. Whole.statics \subseteq Vars
  <2>1. Whole.statics = ReferencedStatics(prog)
    BY <1>1, WholeIs DEF KnownOK
  <2> QED
    BY <2>1, StaticsAssumption DEF ReferencedStatics
<1>4. \A c \in DOMAIN cfg : liveIn[c] \subseteq Vars
  BY DEF LiveOK
<1> QED
  BY <1>2, <1>3, <1>4 DEF AtEnd, MeetLiveness

(* The live sets of the filter along a block.                              *)
LEMMA LiveIs ==
    ASSUME NEW K, RoundOK(K), NEW b \in DOMAIN cfg
    PROVE  LET code == cfg[b].code IN
           /\ Live(b)[Len(code)] = AtEnd(b)
           /\ \A n \in 0 .. Len(code) : Live(b)[n] \in SUBSET Vars
           /\ \A n \in 1 .. Len(code) :
                 Live(b)[n - 1] = FilteredBefore(Whole, Live(b)[n], code[n])
           /\ Live(b)[0] \subseteq liveIn[b]
<1>1. /\ KnownOK(prog, Whole) /\ cfg[b].code \in Seq(Instructions) /\ AtEnd(b) \in SUBSET Vars
      /\ prog \in FunctionBodies
  BY WholeIs, AtEndType DEF RoundOK, LiveOK
<1>2. liveIn[b] = LiveAtStart(Whole, AtEnd(b), cfg[b].code)
  BY DEF RoundOK, Equation, Whole, AtEnd
<1>3. Live(b)[0] \subseteq liveIn[b]
  BY <1>1, <1>2, LiveAtStartIs DEF Live
<1> QED
  BY <1>1, <1>3, FilteredLiveIs DEF Live

(* At the positions of a block.                                            *)
LEMMA AroundIs ==
    ASSUME NEW K, RoundOK(K), NEW b \in DOMAIN cfg
    PROVE  LET s == Starts(prog)[b]
               len == Len(Cfg(prog)[b].code)
           IN  /\ Around(K)[b][0] = Live(b)[0]
               /\ Around(K)[b][len] = AtEnd(b)
               /\ \A p \in s .. BlockEnd(prog, b) :
                     /\ Around(K)[b][p - s] = Live(b)[Offset(prog, K, b, p - 1)]
                     /\ Around(K)[b][(p - s) + 1] = Live(b)[Offset(prog, K, b, p)]
<1> DEFINE s == Starts(prog)[b]
           e == BlockEnd(prog, b)
           len == Len(Cfg(prog)[b].code)
<1>1. /\ prog \in FunctionBodies /\ b \in DOMAIN Cfg(prog) /\ K \subseteq DOMAIN prog
      /\ CodeOf(prog, K, b, cfg[b].code)
  BY DEF RoundOK, TypeOK, LiveOK, Codes
<1>2. s \in Nat \ {0} /\ e \in Nat /\ s <= e /\ len = e - s + 1
  BY <1>1, BlockRange
<1>3. Offset(prog, K, b, s - 1) = 0 /\ Offset(prog, K, b, e) = Len(cfg[b].code)
  <2>1. Walks(prog, K, b, cfg[b].code)
    BY <1>1, OffsetIs
  <2> QED
    BY <2>1 DEF Walks
<1>4. \A n \in 0 .. len : Around(K)[b][n] = Live(b)[Offset(prog, K, b, s + n - 1)]
  BY DEF Around
<1>5. Live(b)[Len(cfg[b].code)] = AtEnd(b)
  BY LiveIs
<1> HIDE DEF s, e, len
<1>6. 0 \in 0 .. len /\ len \in 0 .. len /\ s + 0 - 1 = s - 1 /\ s + len - 1 = e
  BY <1>2
<1>7. \A p \in s .. e : /\ p - s \in 0 .. len /\ s + (p - s) - 1 = p - 1
                        /\ (p - s) + 1 \in 0 .. len /\ s + ((p - s) + 1) - 1 = p
  BY <1>2
<1>8. Around(K)[b][0] = Live(b)[0] /\ Around(K)[b][len] = AtEnd(b)
  BY <1>3, <1>4, <1>5, <1>6
<1>9. \A p \in s .. e : /\ Around(K)[b][p - s] = Live(b)[Offset(prog, K, b, p - 1)]
                        /\ Around(K)[b][(p - s) + 1] = Live(b)[Offset(prog, K, b, p)]
  BY <1>4, <1>7
<1> QED
  BY <1>8, <1>9 DEF s, e, len

(* What is live where a block is entered is live where the blocks before   *)
(* it end.                                                                 *)
LEMMA LiveSetsMeet ==
    ASSUME NEW K, RoundOK(K)
    PROVE  Meets(prog, Around(K))
<1> SUFFICES ASSUME NEW c \in DOMAIN Cfg(prog), NEW b \in DOMAIN Cfg(prog) \cap Cfg(prog)[c].preds
             PROVE  Around(K)[c][0] \subseteq Around(K)[b][Len(Cfg(prog)[b].code)]
  BY DEF Meets
<1>1. /\ DOMAIN cfg = DOMAIN Cfg(prog) /\ prog \in Seq(Instructions) /\ prog # <<>>
      /\ cfg[b].succs = Cfg(prog)[b].succs
  BY DEF RoundOK, TypeOK, LiveOK, FunctionBodies
<1>2. c # Exit /\ b # Entry
  BY <1>1, CfgIsSequence DEF Exit, Entry
<1>3. c \in cfg[b].succs
  BY <1>1, <1>2, PredecessorsInvertSuccessors
<1>4. liveIn[c] \subseteq AtEnd(b)
  BY <1>1, <1>2, <1>3, AtEndType DEF RoundOK
<1>5. Live(c)[0] \subseteq liveIn[c]
  BY <1>1, LiveIs
<1> QED
  BY <1>1, <1>4, <1>5, AroundIs

(* What the round says of position p: before and after are the variables   *)
(* live around it.                                                         *)
RoundAt(K, p, before, after) ==
    /\ after \in SUBSET Vars
    /\ \A q \in After(prog, p) : FactsAt(prog, Around(K), q) \subseteq after
    /\ p \notin K => before = after
    /\ p \in K => /\ before = FilteredBefore(Whole, after, prog[p])
                  /\ p \in Still(K) <=> ~IsDeadStore(Whole, after, prog[p])

(* It is so at every position.                                             *)
LEMMA RoundAtPosition ==
    ASSUME NEW K, RoundOK(K), NEW p \in DOMAIN prog
    PROVE  \E after : RoundAt(K, p, FactsAt(prog, Around(K), p), after)
<1>1. prog \in FunctionBodies /\ K \subseteq DOMAIN prog /\ DOMAIN cfg = DOMAIN Cfg(prog)
  BY DEF RoundOK, LiveOK, TypeOK
<1>2. PICK b \in DOMAIN Cfg(prog) : Starts(prog)[b] <= p /\ p <= BlockEnd(prog, b)
  BY <1>1, InABlock
<1> DEFINE s == Starts(prog)[b]
           x == Offset(prog, K, b, p)
           code == cfg[b].code
           after == Live(b)[x]
<1>3. p \in 1 .. Len(prog) /\ p \in Nat /\ InBlock(prog, b, p)
  BY <1>1, <1>2, InABlock DEF InBlock
<1>4. CodeOf(prog, K, b, code)
  BY <1>1, <1>2 DEF RoundOK, Codes
<1>5. /\ x \in 0 .. Len(code) /\ DOMAIN code = 1 .. Len(code)
      /\ p \notin K => Offset(prog, K, b, p - 1) = x
      /\ p \in K => /\ x \in 1 .. Len(code) /\ Offset(prog, K, b, p - 1) = x - 1
                    /\ code[x] = prog[p]
  <2>1. Walks(prog, K, b, code)
    BY <1>1, <1>4, OffsetIs
  <2> HIDE DEF code
  <2> QED
    BY <1>3, <2>1 DEF Walks
<1>6. s \in Nat /\ BlockEnd(prog, b) \in Nat
  BY <1>1, BlockRange
<1>7. /\ Around(K)[b][p - s] = Live(b)[Offset(prog, K, b, p - 1)]
      /\ Around(K)[b][(p - s) + 1] = after
  <2>1. p \in s .. BlockEnd(prog, b)
    BY <1>2, <1>3, <1>6
  <2> HIDE DEF s
  <2> QED
    BY <1>1, <2>1, AroundIs DEF s
<1>8. FactsAt(prog, Around(K), p) = Around(K)[b][p - s]
  BY <1>1, <1>2, <1>3, FactsAtIs
<1>9. after \in SUBSET Vars
  BY <1>1, <1>5, LiveIs
<1>10. ASSUME NEW q \in After(prog, p) PROVE FactsAt(prog, Around(K), q) \subseteq after
  <2>1. Continues(prog, b, p, q) /\ q \in Nat
    BY <1>1, <1>3, AfterContinues
  <2>2. Meets(prog, Around(K))
    BY LiveSetsMeet
  <2>3. FactsAt(prog, Around(K), q) \subseteq Around(K)[b][p - s + 1]
    BY <1>1, <1>2, <1>3, <2>1, <2>2, FactsCarryOver
  <2> QED
    BY <1>7, <2>3
<1>11. ASSUME p \in K
       PROVE  /\ FactsAt(prog, Around(K), p) = FilteredBefore(Whole, after, prog[p])
              /\ p \in Still(K) <=> ~IsDeadStore(Whole, after, prog[p])
  <2>1. x \in 1 .. Len(code) /\ Offset(prog, K, b, p - 1) = x - 1 /\ code[x] = prog[p]
    BY <1>5, <1>11
  <2>2. Live(b)[x - 1] = FilteredBefore(Whole, Live(b)[x], code[x])
    <3> HIDE DEF x
    <3> QED
      BY <1>1, <2>1, LiveIs
  <2>3. \A c \in DOMAIN cfg : InBlock(prog, c, p) => c = b
    BY <1>1, <1>2, <1>3, PositionIsInOneBlock DEF InBlock
  <2>4. p \in Still(K) <=> x \in KeptIn(b)
    BY <1>1, <1>2, <1>3, <1>11, <2>3 DEF Still
  <2>5. x \in KeptIn(b) <=> ~IsDeadStore(Whole, after, prog[p])
    BY <1>5, <2>1 DEF KeptIn
  <2> QED
    BY <1>7, <1>8, <2>1, <2>2, <2>4, <2>5
<1>12. p \notin K => FactsAt(prog, Around(K), p) = after
  BY <1>5, <1>7, <1>8
<1> HIDE DEF after
<1>13. RoundAt(K, p, FactsAt(prog, Around(K), p), after)
  BY <1>9, <1>10, <1>11, <1>12 DEF RoundAt
<1> QED
  BY <1>13

(* The round leaves out the dead stores with the live sets of its filter.  *)
Narrowed(K, L) ==
    [p \in 1 .. Len(prog) + 1 |-> L[p] \cap (Statics \cup FactsAt(prog, Around(K), p))]

(* At one position: nothing that was needed before the round and is still  *)
(* needed by the round is missing.                                         *)
LEMMA NarrowedAt ==
    ASSUME NEW K, RoundOK(K), NEW L, LeavesOut(prog, K, L), NEW p \in DOMAIN prog
    PROVE  /\ p \in Still(K) => Covers(prog, Narrowed(K, L), p)
           /\ p \notin Still(K) => Unneeded(prog, Narrowed(K, L), p)
<1> DEFINE Found(q) == FactsAt(prog, Around(K), q)
           L2 == Narrowed(K, L)
           i == prog[p]
<1>1. prog \in FunctionBodies /\ K \subseteq DOMAIN prog
  BY DEF RoundOK, LiveOK
<1>2. Len(prog) \in Nat /\ DOMAIN prog = 1 .. Len(prog)
  BY <1>1 DEF FunctionBodies
<1>3. p \in 1 .. Len(prog) + 1 /\ p + 1 \in 1 .. Len(prog) + 1
  BY <1>2
<1>4. \A q \in 1 .. Len(prog) + 1 : L2[q] = L[q] \cap (Statics \cup Found(q)) /\ Statics \subseteq L[q]
  BY DEF Narrowed, LeavesOut
<1>5. PICK after : RoundAt(K, p, Found(p), after)
  BY RoundAtPosition
<1>6. KnownOK(prog, Whole)
  BY <1>1, WholeIs DEF RoundOK
<1>7. i \in Instructions
  BY <1>1, MentionedVars
<1>8. After(prog, p) \subseteq 1 .. Len(prog) + 1
  BY DEF After
<1> HIDE DEF Found, L2
<1>9. CASE p \notin K
  <2>1. Unneeded(prog, L, p)
    BY <1>9 DEF LeavesOut
  <2>2. p + 1 \in After(prog, p)
    <3>1. ~EndsBasicBlock(i)
      BY <2>1 DEF Unneeded, EndsBasicBlock, Operational
    <3> QED
      BY <1>3, <3>1 DEF After
  <2>3. Found(p + 1) \subseteq Found(p)
    BY <1>5, <1>9, <2>2 DEF RoundAt, Found
  <2>4. p \notin Still(K)
    BY <1>9 DEF Still
  <2>5. Unneeded(prog, L2, p)
    BY <1>3, <1>4, <2>1, <2>3 DEF Unneeded
  <2> QED
    BY <2>4, <2>5 DEF L2
<1>10. CASE p \in K
  <2>1. Covers(prog, L, p)
    BY <1>10 DEF LeavesOut
  <2>2. /\ \A q \in After(prog, p) : Found(q) \subseteq after
        /\ Found(p) = FilteredBefore(Whole, after, i)
        /\ p \in Still(K) <=> ~IsDeadStore(Whole, after, i)
    BY <1>5, <1>10 DEF RoundAt, Found
  <2>3. CASE IsDeadStore(Whole, after, i)
    <3>1. /\ i.k \in Operational \ {"atomic", "setjmp"}
          /\ i.dst \in Vars /\ i.dst \notin after \cup Whole.statics
          /\ Found(p) = after
      BY <1>7, <2>2, <2>3, DroppedIs
    <3>2. p + 1 \in After(prog, p)
      <4>1. ~EndsBasicBlock(i)
        BY <3>1 DEF EndsBasicBlock, Operational
      <4> QED
        BY <1>3, <4>1 DEF After
    <3>3. i.dst \notin Statics
      BY <1>6, <3>1 DEF KnownOK, ReferencedStatics
    <3>4. Found(p + 1) \subseteq after /\ L[p + 1] \ {i.dst} \subseteq L[p]
      BY <2>1, <2>2, <3>2 DEF Covers
    <3>5. Unneeded(prog, L2, p)
      BY <1>3, <1>4, <3>1, <3>3, <3>4 DEF Unneeded
    <3> QED
      BY <2>2, <2>3, <3>5 DEF L2
  <2>4. CASE ~IsDeadStore(Whole, after, i)
    <3>1. /\ SourceVars(i) \subseteq Found(p)
          /\ after \ {i.dst} \subseteq Found(p)
          /\ i.k \in {"load", "atomic", "call", "icall"} => Whole.aliased \subseteq Found(p)
          /\ i.k = "put" => i.dst \in Found(p)
      BY <1>7, <2>2, <2>4, KeptIs
    <3>2. Reachable(prog) \subseteq Statics \cup Whole.aliased
      BY <1>6 DEF KnownOK, Reachable
    <3>3. ASSUME NEW q \in After(prog, p) PROVE L2[q] \ {i.dst} \subseteq L2[p]
      <4>1. Found(q) \subseteq after /\ L[q] \ {i.dst} \subseteq L[p]
        BY <2>1, <2>2 DEF Covers
      <4> QED
        BY <1>3, <1>4, <1>8, <3>1, <4>1
    <3>4. Covers(prog, L2, p)
      BY <1>3, <1>4, <2>1, <3>1, <3>2, <3>3 DEF Covers
    <3> QED
      BY <2>2, <2>4, <3>4 DEF L2
  <2> QED
    BY <2>3, <2>4
<1> QED
  BY <1>9, <1>10

(* So it is a certificate for what the round has left.                     *)
LEMMA RoundLeavesOut ==
    ASSUME NEW K, RoundOK(K), NEW L, LeavesOut(prog, K, L),
           ~(\E q \in DOMAIN prog : prog[q].k = "setjmp")
    PROVE  LeavesOut(prog, Still(K), Narrowed(K, L))
<1>1. \A p \in 1 .. Len(prog) + 1 :
         Statics \subseteq Narrowed(K, L)[p] /\ Narrowed(K, L)[p] \subseteq Vars
  BY DEF Narrowed, LeavesOut
<1>2. Still(K) \subseteq DOMAIN prog
  BY DEF Still, LeavesOut
<1> QED
  BY <1>1, <1>2, NarrowedAt DEF LeavesOut

(* It leaves the positions that are kept in each block.                    *)
LEMMA RoundKeeps ==
    ASSUME NEW K, RoundOK(K)
    PROVE  Codes(prog, Still(K), Filtered)
<1>1. prog \in FunctionBodies /\ K \subseteq DOMAIN prog /\ DOMAIN cfg = DOMAIN Cfg(prog)
  BY DEF RoundOK, LiveOK, TypeOK
<1>2. DOMAIN prog = 1 .. Len(prog) /\ Len(prog) \in Nat
  BY <1>1 DEF FunctionBodies
<1>3. K \in SUBSET Nat /\ IsFiniteSet(K)
  <2>1. K \subseteq 1 .. Len(prog)
    BY <1>1, <1>2
  <2>2. K \in SUBSET Nat
    BY <2>1
  <2> QED
    BY <1>2, <2>1, <2>2, RankEnds
<1>4. Still(K) \in SUBSET K
  BY DEF Still
<1>5. ASSUME NEW b \in DOMAIN Cfg(prog)
      PROVE  CodeOf(prog, Still(K), b, Filtered[b].code)
  <2> DEFINE a == Starts(prog)[b] - 1
             e == BlockEnd(prog, b)
             w == cfg[b].code
             D == KeptIn(b)
  <2>1. a \in Nat /\ e \in Nat /\ a <= e
    BY <1>1, BlockRange
  <2>2. Lists(K, prog, Instructions, w, a, e)
    BY DEF RoundOK, Codes, CodeOf
  <2>3. Walks(prog, K, b, w)
    BY <1>1, <2>2, OffsetIs DEF CodeOf
  <2>4. D \subseteq 1 .. Len(w)
    BY <2>3 DEF Walks, KeptIn
  <2>5. ASSUME NEW q \in K, a < q, q <= e
        PROVE  q \in Still(K) <=> Rank(K, q) - Rank(K, a) \in D
    <3>1. q \in Nat /\ Starts(prog)[b] <= q /\ q <= BlockEnd(prog, b)
      BY <1>1, <1>3, <2>5, BlockRange
    <3>2. \A c \in DOMAIN cfg : InBlock(prog, c, q) => c = b
      BY <1>1, <3>1, PositionIsInOneBlock DEF InBlock
    <3>3. InBlock(prog, b, q)
      BY <3>1 DEF InBlock
    <3> QED
      BY <1>1, <3>2, <3>3 DEF Still, Offset
  <2>6. Filtered[b].code = FilterBlock(b)
    BY <1>1 DEF Filtered
  <2>7. FilterBlock(b) = [m \in 1 .. Cardinality(D) |-> w[Ascending(D)[m]]]
    BY DEF FilterBlock, KeptIn, Live, AtEnd, Whole
  <2> HIDE DEF a, e, w, D
  <2>8. Lists(Still(K), prog, Instructions, [m \in 1 .. Cardinality(D) |-> w[Ascending(D)[m]]], a, e)
    BY <1>3, <1>4, <2>1, <2>2, <2>4, <2>5, ListsOnly
  <2> QED
    BY <2>6, <2>7, <2>8 DEF CodeOf, a, e
<1> QED
  BY <1>5 DEF Codes
----------------------------------------------------------------------------
(* What the pass returns.                                                  *)
(* Q is P without the positions outside K.                                 *)
Restricts(P, K, Q) ==
    /\ Shrinks(P, K, Q)
    /\ \A p \in K : Q[Rank(K, p)] = P[p]

(* The blocks put together are what is left of the function.               *)
LEMMA BodyRestricts ==
    ASSUME NEW K, NEW L, TypeOK, prog \in FunctionBodies, LeavesOut(prog, K, L), Codes(prog, K, cfg)
    PROVE  Restricts(prog, K, Body(cfg))
<1> DEFINE M == Cardinality(Leaders(prog))
           cut == [b \in 0 .. M |-> IF b = 0 THEN 0 ELSE BlockEnd(prog, b)]
           code == Code(cfg)
           e == Len(prog)
<1>1. prog \in Seq(Instructions) /\ prog # <<>> /\ e \in Nat /\ DOMAIN prog = 1 .. e
  BY DEF FunctionBodies
<1>2. /\ M \in Nat \ {0} /\ DOMAIN cfg = 1 .. M /\ DOMAIN Cfg(prog) = 1 .. M
      /\ DOMAIN Starts(prog) = 1 .. M /\ Len(Starts(prog)) = M
  BY <1>1, CfgIsSequence, StartsEnumerate DEF TypeOK
<1>3. K \subseteq 1 .. e /\ K \in SUBSET Nat /\ IsFiniteSet(K)
  <2>1. K \subseteq 1 .. e
    BY <1>1 DEF LeavesOut
  <2>2. K \in SUBSET Nat
    BY <2>1
  <2> HIDE DEF e
  <2> QED
    BY <1>1, <2>1, <2>2, RankEnds
<1>4. Len(code) = M /\ \A b \in 1 .. M : code[b] = cfg[b].code
  BY <1>2 DEF Code
<1>5. \A b \in 1 .. M : cut[b] = BlockEnd(prog, b) /\ cut[b - 1] = Starts(prog)[b] - 1
  <2> TAKE b \in 1 .. M
  <2>1. cut[b] = BlockEnd(prog, b)
    BY <1>2
  <2>2. CASE b = 1
    <3>1. Starts(prog)[1] = 1
      BY <1>1, FirstAndLastStart
    <3>2. 0 \in 0 .. M /\ b - 1 = 0
      BY <1>2, <2>2
    <3>3. cut[0] = 0
      BY <3>2
    <3>4. cut[b - 1] = Starts(prog)[b] - 1
      BY <2>2, <3>1, <3>2, <3>3
    <3> QED
      BY <2>1, <3>4
  <2>3. CASE b # 1
    <3>1. b - 1 \in 1 .. M /\ b - 1 # M /\ (b - 1) + 1 = b
      BY <1>2, <2>3
    <3>2. cut[b - 1] = BlockEnd(prog, b - 1)
      BY <3>1
    <3>3. BlockEnd(prog, b - 1) = Starts(prog)[b] - 1
      BY <1>2, <3>1 DEF BlockEnd
    <3> QED
      BY <2>1, <3>2, <3>3
  <2> QED
    BY <2>2, <2>3
<1>6. cut[0] = 0 /\ cut[M] = e
  BY <1>2 DEF BlockEnd
<1>7. \A b \in 1 .. M : /\ Starts(prog)[b] \in Nat \ {0} /\ BlockEnd(prog, b) \in Nat
                        /\ Starts(prog)[b] <= BlockEnd(prog, b)
  BY <1>2, BlockRange
<1> HIDE DEF cut, code, M, e
<1>8. \A b \in 0 .. M : cut[b] \in Nat /\ cut[0] <= cut[b]
  <2> TAKE b \in 0 .. M
  <2>1. b = 0 \/ b \in 1 .. M
    BY <1>2
  <2> QED
    BY <1>5, <1>6, <1>7, <2>1
<1>9. \A b \in 1 .. M :
         cut[b - 1] <= cut[b] /\ Lists(K, prog, Instructions, code[b], cut[b - 1], cut[b])
  <2> TAKE b \in 1 .. M
  <2>1. Lists(K, prog, Instructions, cfg[b].code, Starts(prog)[b] - 1, BlockEnd(prog, b))
    BY <1>2 DEF Codes, CodeOf
  <2>2. Starts(prog)[b] - 1 <= BlockEnd(prog, b)
    BY <1>7
  <2> QED
    BY <1>4, <1>5, <2>1, <2>2
<1>10. Lists(K, prog, Instructions, FlattenSeq(code), cut[0], cut[M])
  BY <1>2, <1>3, <1>4, <1>8, <1>9, FlattenLists
<1> DEFINE Q == Body(cfg)
<1>11. Lists(K, prog, Instructions, Q, 0, e)
  BY <1>6, <1>10 DEF Body, code
<1> HIDE DEF Q
<1>12. DOMAIN Q = 1 .. Cardinality(K) /\ Len(Q) = Cardinality(K) /\ \A p \in K : Q[Rank(K, p)] = prog[p]
  <2>1. Q \in Seq(Instructions) /\ Len(Q) = Rank(K, e) - Rank(K, 0)
    BY <1>11 DEF Lists
  <2>2. Rank(K, 0) = 0 /\ Rank(K, e) = Cardinality(K) /\ Cardinality(K) \in Nat
    BY <1>1, <1>3, RankEnds, FS_CardinalityType
  <2>3. \A n : Rank(K, n) \in Nat
    BY <1>3, RankType
  <2>4. Len(Q) = Cardinality(K) /\ DOMAIN Q = 1 .. Cardinality(K)
    BY <2>1, <2>2
  <2>5. ASSUME NEW p \in K PROVE Q[Rank(K, p)] = prog[p]
    <3>1. 0 < p /\ p <= e
      BY <1>1, <1>3
    <3>2. Q[Rank(K, p) - Rank(K, 0)] = prog[p]
      BY <1>11, <3>1 DEF Lists
    <3> QED
      BY <2>2, <2>3, <3>2
  <2> QED
    BY <2>4, <2>5
<1>13. K \subseteq DOMAIN prog /\ \A p \in DOMAIN prog \ K : prog[p].k \in Operational \ {"atomic", "setjmp"}
  BY DEF LeavesOut, Unneeded
<1>14. Shrinks(prog, K, Q)
  BY <1>12, <1>13 DEF Shrinks
<1> QED
  BY <1>12, <1>14 DEF Restricts, Q

(* What is left in the blocks, while the pass runs, and what it returns.   *)
LeftOK ==
    /\ phase \in {"analyse", "rewrite"} =>
          \E K : \E L : LeavesOut(prog, K, L) /\ Codes(prog, K, cfg)
    /\ phase \notin {"analyse", "rewrite"} =>
          \E K : \E L : LeavesOut(prog, K, L) /\ Restricts(prog, K, out)

(* All of it is left at first.                                             *)
LEMMA LeftInit == Init => LeftOK /\ LiveOK
<1> SUFFICES ASSUME Init PROVE LeftOK /\ LiveOK
  OBVIOUS
<1>1. prog \in FunctionBodies /\ cfg = Cfg(prog) /\ phase = "analyse"
  BY ProgramsAssumption DEF Init, EquivInit
<1> DEFINE K == DOMAIN prog
           L == [p \in 1 .. Len(prog) + 1 |-> Vars]
<1>2. LeavesOut(prog, K, L)
  BY <1>1, AllIsNeeded
<1>3. K = 1 .. Len(prog) /\ Len(prog) \in Nat
  BY <1>1 DEF FunctionBodies
<1>4. ASSUME NEW n \in Nat, n <= Len(prog) PROVE Rank(K, n) = n
  <2> DEFINE T == {m \in 0 .. Len(prog) : Rank(K, m) = m}
  <2>1. Rank(K, 0) = 0 /\ IsFiniteSet(K)
    BY <1>3, RankEnds
  <2>2. 0 \in T
    BY <1>3, <2>1
  <2>3. \A m \in 0 .. Len(prog) - 1 : m \in T => m + 1 \in T
    <3> TAKE m \in 0 .. Len(prog) - 1
    <3> HAVE m \in T
    <3>1. m \in Nat /\ m + 1 \in K /\ Rank(K, m) = m /\ m + 1 \in 0 .. Len(prog)
      BY <1>3
    <3>2. Rank(K, m + 1) = m + 1
      BY <2>1, <3>1, RankStep
    <3> QED
      BY <3>1, <3>2
  <2> HIDE DEF T
  <2>4. 0 .. Len(prog) \subseteq T
    BY <1>3, <2>2, <2>3, InductionUpTo
  <2> QED
    BY <1>3, <1>4, <2>4 DEF T
<1>5. ASSUME NEW b \in DOMAIN Cfg(prog) PROVE CodeOf(prog, K, b, cfg[b].code)
  <2> DEFINE s == Starts(prog)[b]
             e == BlockEnd(prog, b)
             code == Cfg(prog)[b].code
  <2>1. /\ s \in Nat \ {0} /\ e \in Nat /\ s <= e /\ e <= Len(prog) /\ Len(code) = e - s + 1
        /\ s - 1 \in Nat /\ s - 1 <= Len(prog)
    BY <1>1, <1>3, BlockRange
  <2>2. /\ code \in Seq(Instructions)
        /\ \A n \in 1 .. Len(code) : code[n] = prog[s + n - 1]
    <3>1. prog \in Seq(Instructions) /\ prog # <<>>
      BY <1>1 DEF FunctionBodies
    <3> QED
      BY <3>1, BlockCode
  <2> HIDE DEF s, e, code, K
  <2>3. Rank(K, e) = e /\ Rank(K, s - 1) = s - 1
    BY <1>4, <2>1
  <2>4. Len(code) = Rank(K, e) - Rank(K, s - 1)
    BY <2>1, <2>3
  <2>5. ASSUME NEW q \in K, s - 1 < q, q <= e PROVE code[Rank(K, q) - Rank(K, s - 1)] = prog[q]
    <3>1. q \in Nat /\ q <= Len(prog)
      BY <1>3, <2>1, <2>5
    <3>2. Rank(K, q) - Rank(K, s - 1) = q - (s - 1)
      BY <1>4, <2>3, <3>1
    <3>3. q - (s - 1) \in 1 .. Len(code) /\ s + (q - (s - 1)) - 1 = q
      BY <2>1, <2>5, <3>1
    <3> QED
      BY <2>2, <3>2, <3>3
  <2>6. Lists(K, prog, Instructions, code, s - 1, e)
    BY <2>2, <2>4, <2>5 DEF Lists
  <2> QED
    BY <1>1, <2>6 DEF CodeOf, s, e, code
<1>6. Codes(prog, K, cfg)
  BY <1>5 DEF Codes
<1> HIDE DEF L, K
<1>7. LeftOK
  BY <1>1, <1>2, <1>6 DEF LeftOK
<1>8. LiveOK
  BY <1>1 DEF LiveOK, Init, NothingLive
<1> QED
  BY <1>7, <1>8

(* A visit finds variables live.                                           *)
LEMMA VisitLive ==
    ASSUME TypeOK, ProgOK, LiveOK, LeftOK, Visit
    PROVE  LiveOK'
<1>1. phase = "analyse" /\ prog' = prog /\ cfg' = cfg
  BY DEF Visit
<1>2. PICK K : \E L : LeavesOut(prog, K, L) /\ Codes(prog, K, cfg)
  BY <1>1 DEF LeftOK
<1>3. K \subseteq DOMAIN prog /\ Codes(prog, K, cfg)
  BY <1>2 DEF LeavesOut
<1> DEFINE b == Head(worklist)
<1>4. b \in DOMAIN cfg /\ liveIn' = [liveIn EXCEPT ![b] = Equation(liveIn, b)]
  BY VisitEnqueues
<1>5. Equation(liveIn, b) \in SUBSET Vars
  <2>1. KnownOK(prog, Whole) /\ cfg[b].code \in Seq(Instructions) /\ AtEnd(b) \in SUBSET Vars
    BY <1>3, <1>4, WholeIs, AtEndType DEF LiveOK
  <2>2. Equation(liveIn, b) = LiveAtStart(Whole, AtEnd(b), cfg[b].code)
    BY DEF Equation, Whole, AtEnd
  <2> QED
    BY <2>1, <2>2, LiveAtStartIs
<1> QED
  BY <1>1, <1>4, <1>5 DEF LiveOK

(* A function with a setjmp keeps it, and so is left alone.                *)
LEMMA NoSetjmp ==
    ASSUME prog \in FunctionBodies, TypeOK, NEW K, NEW L, LeavesOut(prog, K, L), Codes(prog, K, cfg), ~GivesUp
    PROVE  ~(\E q \in DOMAIN prog : prog[q].k = "setjmp")
<1> SUFFICES ASSUME NEW q \in DOMAIN prog, prog[q].k = "setjmp" PROVE FALSE
  OBVIOUS
<1>1. K \subseteq DOMAIN prog /\ q \in K
  BY DEF LeavesOut, Unneeded
<1>2. PICK b \in DOMAIN Cfg(prog) : Starts(prog)[b] <= q /\ q <= BlockEnd(prog, b)
  BY InABlock
<1>3. Walks(prog, K, b, cfg[b].code) /\ InBlock(prog, b, q)
  BY <1>1, <1>2, OffsetIs DEF Codes, InBlock
<1>4. \E n \in DOMAIN cfg[b].code : cfg[b].code[n] = prog[q]
  BY <1>1, <1>3 DEF Walks
<1> QED
  BY <1>4 DEF GivesUp, HasSetjmp, TypeOK

(* Every step leaves what can be left.                                     *)
LEMMA LeftStep ==
    TypeOK /\ ProgOK /\ Drained /\ FilterReadsFixpoint /\ LiveOK /\ LeftOK /\ [Next]_vars
       => LeftOK' /\ LiveOK'
<1> SUFFICES ASSUME TypeOK, ProgOK, Drained, FilterReadsFixpoint, LiveOK, LeftOK, [Next]_vars
             PROVE  LeftOK' /\ LiveOK'
  OBVIOUS
<1>1. CASE Visit
  <2>1. phase' = phase /\ phase = "analyse" /\ prog' = prog /\ cfg' = cfg
    BY <1>1 DEF Visit
  <2> QED
    BY <1>1, <2>1, VisitLive DEF LeftOK
<1>2. CASE Converge
  BY <1>2 DEF Converge, LeftOK, LiveOK
<1>3. CASE GiveUp \/ FilterLast
  <2>1. /\ phase \in {"analyse", "rewrite"} /\ phase' = "ready" /\ out' = Body(cfg)
        /\ UNCHANGED <<prog, cfg, liveIn>>
    BY <1>3 DEF GiveUp, FilterLast
  <2>2. PICK K : \E L : LeavesOut(prog, K, L) /\ Codes(prog, K, cfg)
    BY <2>1 DEF LeftOK
  <2>3. PICK L : LeavesOut(prog, K, L) /\ Codes(prog, K, cfg)
    BY <2>2
  <2>4. Restricts(prog, K, out')
    BY <2>1, <2>3, BodyRestricts DEF LiveOK
  <2> QED
    BY <2>1, <2>3, <2>4 DEF LeftOK, LiveOK
<1>4. CASE FilterAgain
  <2>1. /\ phase = "rewrite" /\ phase' = "analyse" /\ prog' = prog /\ cfg' = Filtered
        /\ liveIn' = NothingLive
    BY <1>4 DEF FilterAgain
  <2>2. PICK K : \E L : LeavesOut(prog, K, L) /\ Codes(prog, K, cfg)
    BY <2>1 DEF LeftOK
  <2>3. PICK L : LeavesOut(prog, K, L) /\ Codes(prog, K, cfg)
    BY <2>2
  <2>4. RoundOK(K)
    BY <2>1, <2>3 DEF RoundOK, FilterReadsFixpoint, LeavesOut
  <2>5. ~(\E q \in DOMAIN prog : prog[q].k = "setjmp")
    BY <2>1, <2>3, NoSetjmp DEF LiveOK, Drained
  <2>6. LeavesOut(prog, Still(K), Narrowed(K, L)) /\ Codes(prog, Still(K), cfg')
    BY <2>1, <2>3, <2>4, <2>5, RoundLeavesOut, RoundKeeps
  <2>7. DOMAIN cfg' = DOMAIN cfg /\ liveIn' = [b \in DOMAIN cfg |-> {}]
    BY <2>1 DEF Filtered, NothingLive
  <2>8. LiveOK'
    BY <2>1, <2>7 DEF LiveOK
  <2>9. \E K2 : \E L2 : LeavesOut(prog, K2, L2) /\ Codes(prog, K2, cfg')
    BY <2>6
  <2> QED
    BY <2>1, <2>8, <2>9 DEF LeftOK
<1>5. CASE Run
  <2>1. /\ UNCHANGED <<prog, out, cfg, liveIn>>
        /\ phase \notin {"analyse", "rewrite"} /\ phase' \notin {"analyse", "rewrite"}
    BY <1>5 DEF Run, RunNext, Start, SourceStep, SourceStops, TargetStep, TargetStops, Answer, Finish
  <2> QED
    BY <2>1 DEF LeftOK, LiveOK
<1>6. CASE UNCHANGED vars
  BY <1>6 DEF vars, LeftOK, LiveOK
<1> QED
  BY <1>1, <1>2, <1>3, <1>4, <1>5, <1>6 DEF Next, Pass, Done

(* What the run of the two functions rests on.                             *)
PassOK == LeftOK /\ LiveOK

(* In every round and in the end, what the pass has left of the function   *)
(* can be run without what it has dropped: there are variables for each    *)
(* position, all that an instruction left there reads among them, on which *)
(* nothing that was dropped has a bearing.                                 *)
THEOREM EliminationReturns == Spec => []PassOK
<1>1. Spec => []Drained
  <2>1. Init => Drained
    BY DEF Init, EquivInit, Drained
  <2> QED
    BY <2>1, DrainedStep, PTL DEF Spec
<1>2. Init => LeftOK /\ LiveOK
  BY LeftInit
<1>3. TypeOK /\ ProgOK /\ Drained /\ FilterReadsFixpoint /\ LeftOK /\ LiveOK /\ [Next]_vars
         => LeftOK' /\ LiveOK'
  BY LeftStep
<1> QED
  BY <1>1, <1>2, <1>3, TypeCorrect, FixpointAtFilter, PTL DEF Spec, PassOK
----------------------------------------------------------------------------
(* The function and what the pass returns in lockstep.                     *)
(* The machine t of Q stands where s does, and agrees with it on what the   *)
(* rest of the function can read.                                          *)
Agrees(K, L, s, t) ==
    /\ t = [pc |-> Image(K, s.pc), mem |-> t.mem, jb |-> ImageJb(K, s.jb)]
    /\ t.mem = [x \in Vars |-> t.mem[x]]
    /\ \A x \in L[s.pc] : t.mem[x] = s.mem[x]

Certified(P, K, L, Q) == P \in FunctionBodies /\ LeavesOut(P, K, L) /\ Restricts(P, K, Q)

(* What leaves out an instruction, at a position, at the next.             *)
LEMMA CertifiedAt ==
    ASSUME NEW P, NEW K, NEW L, NEW Q, Certified(P, K, L, Q)
    PROVE  /\ P \in FunctionBodies /\ Shrinks(P, K, Q) /\ K \subseteq DOMAIN P
           /\ DOMAIN P = 1 .. Len(P) /\ Len(P) \in Nat /\ DOMAIN Q = 1 .. Len(Q) /\ Len(Q) \in Nat
           /\ \A p \in 1 .. Len(P) + 1 : Statics \subseteq L[p] /\ L[p] \subseteq Vars
<1>1. P \in FunctionBodies /\ Shrinks(P, K, Q) /\ K \subseteq DOMAIN P
  BY DEF Certified, Restricts, LeavesOut
<1>2. /\ DOMAIN P = 1 .. Len(P) /\ Len(P) \in Nat /\ Len(Q) \in Nat
      /\ DOMAIN Q = 1 .. Len(Q)
  BY <1>1, ImageIs DEF Shrinks
<1> QED
  BY <1>1, <1>2 DEF Certified, LeavesOut

(* A memory after an instruction, at a variable that it does not define.   *)
Thru(m, i, a) ==
    CASE i.k = "store"  -> [m EXCEPT ![a[2][2]] = a[1]]
      [] i.k = "atomic" -> [m EXCEPT ![a[1][2]] = a[2]]
      [] OTHER          -> m

(* What an instruction leaves is that and its destination.                 *)
LEMMA WrittenIs ==
    ASSUME NEW i, NEW s
    PROVE  Written(s, i) = IF i.dst = "" THEN Thru(s.mem, i, Values(s.mem, i))
                           ELSE [Thru(s.mem, i, Values(s.mem, i)) EXCEPT ![i.dst] = Computed(s, i)]
BY Zenon DEF Written, Values, Thru

(* Writing one value to one variable keeps two memories in agreement.      *)
LEMMA ThruAgrees ==
    ASSUME NEW i, NEW a, NEW m, NEW n, m = [x \in Vars |-> m[x]], n = [x \in Vars |-> n[x]]
    PROVE  /\ Thru(n, i, a) = [x \in Vars |-> Thru(n, i, a)[x]]
           /\ Thru(m, i, a) = [x \in Vars |-> Thru(m, i, a)[x]]
           /\ \A x \in Vars : n[x] = m[x] => Thru(n, i, a)[x] = Thru(m, i, a)[x]
<1>1. CASE i.k = "store"
  <2> DEFINE x == a[2][2]
             v == a[1]
  <2>1. Thru(n, i, a) = [n EXCEPT ![x] = v] /\ Thru(m, i, a) = [m EXCEPT ![x] = v]
    BY <1>1 DEF Thru
  <2> HIDE DEF x, v
  <2> QED
    BY <2>1
<1>2. CASE i.k = "atomic"
  <2> DEFINE x == a[1][2]
             v == a[2]
  <2>1. Thru(n, i, a) = [n EXCEPT ![x] = v] /\ Thru(m, i, a) = [m EXCEPT ![x] = v]
    BY <1>2 DEF Thru
  <2> HIDE DEF x, v
  <2> QED
    BY <2>1
<1>3. CASE i.k \notin {"store", "atomic"}
  BY <1>3 DEF Thru
<1> QED
  BY <1>1, <1>2, <1>3

(* An instruction that is left out goes by unnoticed.                      *)
LEMMA LeftOut ==
    ASSUME NEW P, NEW K, NEW L, NEW Q, Certified(P, K, L, Q), NEW s, MachineOK(P, s),
           s.pc \in DOMAIN P, s.pc \notin K, ~Undefined(P, s), NEW t, Agrees(K, L, s, t)
    PROVE  /\ ~AtEvent(P, s) /\ Run1(P, s).pc = s.pc + 1
           /\ Agrees(K, L, Run1(P, s), t)
<1> DEFINE i == P[s.pc]
           p == s.pc
           m == s.mem
           w == Written(s, i)
<1>1. /\ P \in FunctionBodies /\ Shrinks(P, K, Q) /\ p \in 1 .. Len(P) /\ Len(P) \in Nat
      /\ p + 1 \in 1 .. Len(P) + 1 /\ L[p + 1] \subseteq Vars
  BY CertifiedAt
<1>2. /\ i.k \in Operational \ {"atomic", "setjmp"} /\ i.dst \notin L[p + 1]
      /\ L[p + 1] \subseteq L[p]
  BY DEF Certified, LeavesOut, Unneeded
<1>3. ~AtEvent(P, s)
  BY <1>1, <1>2 DEF AtEvent, Operational
<1>4. NextPc(P, s) = p + 1
  BY <1>2 DEF NextPc, Operational
<1>5. w = IF i.dst = "" THEN m ELSE [m EXCEPT ![i.dst] = Computed(s, i)]
  BY <1>2, WrittenIs DEF Thru, Operational
<1>6. Run1(P, s) = [pc |-> p + 1, mem |-> w, jb |-> s.jb]
  BY <1>2, <1>4 DEF Run1
<1>7. Image(K, p + 1) = Image(K, p)
  BY <1>1, ImageIs
<1>8. m = [x \in Vars |-> m[x]]
  BY DEF MachineOK, MemoryOK
<1>9. t = [pc |-> Image(K, p), mem |-> t.mem, jb |-> ImageJb(K, s.jb)] /\ t.mem = [x \in Vars |-> t.mem[x]]
  BY DEF Agrees
<1>10. \A x \in L[p] : t.mem[x] = m[x]
  BY DEF Agrees
<1> HIDE DEF i, p, m, w
<1>11. \A x \in L[p + 1] : w[x] = m[x]
  BY <1>1, <1>2, <1>5, <1>8
<1>12. \A x \in L[p + 1] : t.mem[x] = w[x]
  BY <1>2, <1>10, <1>11
<1> DEFINE v == Run1(P, s)
<1>13. v.pc = p + 1 /\ v.mem = w /\ v.jb = s.jb
  BY <1>6
<1> HIDE DEF v
<1>14. Agrees(K, L, v, t)
  BY <1>7, <1>9, <1>12, <1>13 DEF Agrees
<1> QED
  BY <1>3, <1>13, <1>14 DEF v, p

(* What is kept reads the same values in both.                             *)
LEMMA KeptReadsAlike ==
    ASSUME NEW P, NEW K, NEW L, NEW Q, Certified(P, K, L, Q), NEW s, MachineOK(P, s),
           s.pc \in K, NEW t, Agrees(K, L, s, t)
    PROVE  /\ t.pc = Image(K, s.pc) /\ t.pc \in DOMAIN Q /\ Q[t.pc] = P[s.pc]
           /\ ReadsAlike(P[s.pc], s, P[s.pc], t)
           /\ AtEvent(Q, t) <=> AtEvent(P, s)
           /\ Undefined(Q, t) <=> Undefined(P, s)
           /\ Observed(Q, t, Reachable(P)) = Observed(P, s, Reachable(P))
<1> DEFINE i == P[s.pc]
           D == L[s.pc]
<1>1. /\ P \in FunctionBodies /\ Shrinks(P, K, Q) /\ s.pc \in 1 .. Len(P) /\ s.pc \in DOMAIN P
      /\ Len(P) \in Nat /\ DOMAIN Q = 1 .. Len(Q) /\ Len(Q) \in Nat
  BY CertifiedAt
<1>2. t.pc = Image(K, s.pc)
  BY DEF Agrees
<1>3. Rank(K, s.pc) = Image(K, s.pc) /\ Image(K, s.pc) \in DOMAIN Q
  BY <1>1, ImageIs
<1>4. Q[t.pc] = i
  BY <1>2, <1>3 DEF Certified, Restricts
<1>5. \A x \in D : t.mem[x] = s.mem[x]
  BY DEF Agrees
<1>6. Covers(P, L, s.pc)
  BY DEF Certified, LeavesOut
<1>7. Statics \subseteq D
  <2>1. s.pc \in 1 .. Len(P) + 1
    BY <1>1
  <2> QED
    BY <2>1, CertifiedAt
<1>8. SourceVars(i) \subseteq D /\ (i.k \in {"call", "icall"} => Reachable(P) \subseteq D)
  BY <1>6 DEF Covers
<1> HIDE DEF i, D
<1>9. \A n \in DOMAIN i.src : Value(t.mem, i.src[n]) = Value(s.mem, i.src[n])
  <2> TAKE n \in DOMAIN i.src
  <2>1. CASE IsVar(i.src[n])
    <3>1. i.src[n][2] \in SourceVars(i)
      BY <2>1 DEF SourceVars, ToSet
    <3> QED
      BY <1>5, <1>8, <2>1, <3>1 DEF Value
  <2>2. CASE ~IsVar(i.src[n])
    BY <2>2 DEF Value
  <2> QED
    BY <2>1, <2>2
<1>10. ReadsAlike(i, s, i, t)
  BY <1>9 DEF ReadsAlike, Values
<1>11. StandAlike(P, s, Q, t)
  BY <1>1, <1>2, <1>3, <1>4, <1>10 DEF StandAlike, i
<1>12. /\ AtEvent(Q, t) <=> AtEvent(P, s)
       /\ Undefined(Q, t) <=> Undefined(P, s)
       /\ \A reach : (\A x \in reach \cup Statics : t.mem[x] = s.mem[x]) =>
             Observed(Q, t, reach) = Observed(P, s, reach)
  BY <1>11, StandsAlike
<1>13. Observed(Q, t, Reachable(P)) = Observed(P, s, Reachable(P))
  <2>1. CASE i.k \in {"call", "icall"}
    <3>1. \A x \in Reachable(P) \cup Statics : t.mem[x] = s.mem[x]
      BY <1>5, <1>7, <1>8, <2>1
    <3> QED
      BY <1>12, <3>1
  <2>2. CASE i.k \notin {"call", "icall"}
    <3>1. \A x \in {} \cup Statics : t.mem[x] = s.mem[x]
      BY <1>5, <1>7
    <3>2. Observed(Q, t, {}) = Observed(P, s, {})
      BY <1>12, <3>1
    <3>3. Observed(P, s, Reachable(P)) = Observed(P, s, {})
      BY <2>2 DEF Observed, i
    <3>4. Observed(Q, t, Reachable(P)) = Observed(Q, t, {})
      BY <1>4, <2>2 DEF Observed
    <3> QED
      BY <3>2, <3>3, <3>4
  <2> QED
    BY <2>1, <2>2
<1> QED
  BY <1>2, <1>3, <1>4, <1>10, <1>12, <1>13 DEF i

(* From there the two take the same step.                                  *)
LEMMA SameStep ==
    ASSUME NEW P, NEW K, NEW L, NEW Q, Certified(P, K, L, Q), NEW s, MachineOK(P, s),
           s.pc \in K, ~AtEvent(P, s), ~Undefined(P, s), NEW t, Agrees(K, L, s, t)
    PROVE  Agrees(K, L, Run1(P, s), Run1(Q, t))
<1> DEFINE i == P[s.pc]
           p == s.pc
           q == NextPc(P, s)
           m == s.mem
           n == t.mem
<1>1. /\ P \in FunctionBodies /\ Shrinks(P, K, Q) /\ p \in 1 .. Len(P) /\ p \in DOMAIN P
      /\ p \in Nat /\ DOMAIN P = 1 .. Len(P) /\ Len(P) \in Nat
  BY CertifiedAt
<1>2. t.pc = Image(K, p) /\ Q[t.pc] = i /\ ReadsAlike(i, s, i, t)
  BY KeptReadsAlike
<1>3. /\ \A x \in L[p] : n[x] = m[x]
      /\ n = [x \in Vars |-> n[x]] /\ t.jb = ImageJb(K, s.jb)
  BY DEF Agrees
<1>4. Covers(P, L, p)
  BY DEF Certified, LeavesOut
<1>5. q \in After(P, p)
  BY <1>1, NextIsAfter
<1>6. q \in 1 .. Len(P) + 1
  BY <1>5 DEF After
<1>7. L[q] \subseteq Vars /\ L[q] \ {i.dst} \subseteq L[p]
  BY <1>4, <1>5, <1>6, CertifiedAt DEF Covers
<1>8. m = [x \in Vars |-> m[x]] /\ MemoryOK(P, m)
  BY DEF MachineOK, MemoryOK
<1>9. i \in Instructions
  BY <1>1 DEF FunctionBodies
<1>10. Values(n, i) = Values(m, i)
  BY <1>2 DEF ReadsAlike
<1>11. NextPc(Q, t) = Image(K, q)
  <2>1. i.k \in {"jz", "jind"} => 1 \in DOMAIN i.src
    BY <1>9, FirstOperand
  <2>2. 1 \in DOMAIN i.src => Value(n, i.src[1]) = Value(m, i.src[1])
    BY <1>10 DEF Values
  <2> QED
    BY <1>1, <1>2, <2>1, <2>2, NextImage
<1>12. i.dst # "" => Computed(t, i) = Computed(s, i)
  <2>1. i.k \in Operational <=> i.dst # ""
    BY <1>1, WrittenOK
  <2>2. ASSUME i.k \in {"load", "atomic"}
        PROVE  n[Values(m, i)[1][2]] = m[Values(m, i)[1][2]]
    <3>1. 1 \in DOMAIN i.src /\ i.src[1] \in Operands
      BY <1>9, <2>2, FirstOperand, InstructionFields
    <3>2. Values(m, i)[1] = Value(m, i.src[1])
      BY <3>1 DEF Values
    <3>3. Value(m, i.src[1])[1] = "a"
      <4>1. ~(Value(m, i.src[1])[1] # "a")
        BY <2>2, <3>1 DEF Undefined
      <4> QED
        BY <4>1
    <3>4. ValueOK(P, Value(m, i.src[1]))
      BY <1>8, <3>1, OperandValueOK
    <3>5. Value(m, i.src[1])[2] \in Reachable(P)
      BY <3>3, <3>4 DEF ValueOK
    <3> QED
      BY <1>3, <1>4, <2>2, <3>2, <3>5 DEF Covers
  <2>3. i.k = "put" => n[i.dst] = m[i.dst]
    BY <1>3, <1>4 DEF Covers
  <2> HIDE DEF i
  <2>4. /\ i.k \in {"load", "atomic"} => t.mem[Values(s.mem, i)[1][2]] = s.mem[Values(s.mem, i)[1][2]]
        /\ i.k = "put" => t.mem[i.dst] = s.mem[i.dst]
    BY <2>2, <2>3
  <2>5. i.k \in Operational => Computed(t, i) = Computed(s, i)
    BY <1>2, <2>4, ComputesAlike
  <2> QED
    BY <2>1, <2>5
<1> DEFINE m2 == Written(s, i)
           n2 == Written(t, i)
           th(u) == Thru(u, i, Values(m, i))
<1>13. /\ m2 = IF i.dst = "" THEN th(m) ELSE [th(m) EXCEPT ![i.dst] = Computed(s, i)]
       /\ n2 = IF i.dst = "" THEN th(n) ELSE [th(n) EXCEPT ![i.dst] = Computed(s, i)]
  <2> HIDE DEF i
  <2> QED
    BY <1>10, <1>12, WrittenIs
<1>14. /\ th(m) = [x \in Vars |-> th(m)[x]] /\ th(n) = [x \in Vars |-> th(n)[x]]
       /\ \A x \in Vars : n[x] = m[x] => th(n)[x] = th(m)[x]
  <2> HIDE DEF i, m, n
  <2> QED
    BY <1>3, <1>8, ThruAgrees
<1>15. \A x \in L[p] : x \in Vars => th(n)[x] = th(m)[x]
  BY <1>3, <1>14
<1>16. n2 = [x \in Vars |-> n2[x]] /\ \A x \in L[q] : n2[x] = m2[x]
  <2> DEFINE tm == th(m)
             tn == th(n)
             c == Computed(s, i)
             d == i.dst
             D == L[p]
             E == L[q]
  <2>1. /\ m2 = IF d = "" THEN tm ELSE [tm EXCEPT ![d] = c]
        /\ n2 = IF d = "" THEN tn ELSE [tn EXCEPT ![d] = c]
    BY <1>13
  <2>2. tm = [x \in Vars |-> tm[x]] /\ tn = [x \in Vars |-> tn[x]]
    BY <1>14
  <2>3. E \subseteq Vars /\ E \ {d} \subseteq D /\ \A x \in D : x \in Vars => tn[x] = tm[x]
    BY <1>7, <1>15
  <2> HIDE DEF tm, tn, c, d, D, E, m2, n2
  <2>4. n2 = [x \in Vars |-> n2[x]] /\ \A x \in E : n2[x] = m2[x]
    <3>1. CASE d = ""
      BY <2>1, <2>2, <2>3, <3>1, VarsAssumption
    <3>2. CASE d # ""
      BY <2>1, <2>2, <2>3, <3>2
    <3> QED
      BY <3>1, <3>2
  <2> QED
    BY <2>4 DEF E
<1> HIDE DEF m2, n2
<1> DEFINE v == Run1(P, s)
           u == Run1(Q, t)
<1>17. v = [pc |-> q, mem |-> m2, jb |-> IF i.k = "setjmp" THEN <<p + 1, i.dst>> ELSE s.jb]
  BY DEF Run1, m2
<1>18. u = [pc |-> NextPc(Q, t), mem |-> n2,
            jb |-> IF i.k = "setjmp" THEN <<t.pc + 1, i.dst>> ELSE t.jb]
  <2>1. u = [pc |-> NextPc(Q, t), mem |-> Written(t, Q[t.pc]),
             jb |-> IF Q[t.pc].k = "setjmp" THEN <<t.pc + 1, Q[t.pc].dst>> ELSE t.jb]
    BY DEF Run1
  <2> HIDE DEF u, i
  <2> QED
    BY <1>2, <2>1 DEF n2
<1>19. ImageJb(K, <<p + 1, i.dst>>) = <<t.pc + 1, i.dst>>
  <2>1. Image(K, p + 1) = t.pc + 1
    BY <1>1, <1>2, ImageIs
  <2>2. p + 1 # 0
    BY <1>1
  <2>3. <<p + 1, i.dst>> # NoJump
    BY <2>2, PointIsSaved
  <2> HIDE DEF p, i
  <2> QED
    BY <2>1, <2>3 DEF ImageJb
<1>20. (IF i.k = "setjmp" THEN <<t.pc + 1, i.dst>> ELSE t.jb)
       = ImageJb(K, IF i.k = "setjmp" THEN <<p + 1, i.dst>> ELSE s.jb)
  BY <1>3, <1>19
<1> HIDE DEF i, p, q, m, n, u, v
<1>21. v.pc = q /\ v.mem = m2 /\ v.jb = IF i.k = "setjmp" THEN <<p + 1, i.dst>> ELSE s.jb
  BY <1>17
<1>22. u = [pc |-> Image(K, v.pc), mem |-> n2, jb |-> ImageJb(K, v.jb)] /\ u.mem = n2
  BY <1>11, <1>18, <1>20, <1>21
<1>23. Agrees(K, L, v, u)
  BY <1>16, <1>21, <1>22 DEF Agrees
<1> QED
  BY <1>23 DEF u, v

(* Past the last instruction both have come to their end.                  *)
LEMMA SameEnd ==
    ASSUME NEW P, NEW K, NEW L, NEW Q, Certified(P, K, L, Q), NEW s, s.pc = Len(P) + 1,
           NEW t, Agrees(K, L, s, t)
    PROVE  /\ AtEvent(Q, t) /\ AtEvent(P, s)
           /\ Observed(Q, t, Reachable(P)) = Observed(P, s, Reachable(P))
<1>1. /\ Image(K, Len(P) + 1) = Len(Q) + 1 /\ Len(P) \in Nat /\ Len(Q) \in Nat
      /\ Len(P) + 1 \in 1 .. Len(P) + 1
  BY CertifiedAt, ImageIs
<1>2. t.pc = Len(Q) + 1
  BY <1>1 DEF Agrees
<1>3. t.pc > Len(Q) /\ s.pc > Len(P)
  BY <1>1, <1>2
<1>4. \A x \in Statics : t.mem[x] = s.mem[x]
  <2>1. Statics \subseteq L[s.pc]
    BY <1>1, CertifiedAt
  <2> QED
    BY <2>1 DEF Agrees
<1>5. [x \in Statics |-> t.mem[x]] = [x \in Statics |-> s.mem[x]]
  BY <1>4
<1> QED
  BY <1>3, <1>5 DEF AtEvent, Observed

(* The environment's answer to a call leaves them in agreement,            *)
LEMMA SameAnswer ==
    ASSUME NEW P, NEW K, NEW L, NEW Q, Certified(P, K, L, Q), NEW s, MachineOK(P, s),
           s.pc \in K, P[s.pc].k \in {"call", "icall"}, NEW t, Agrees(K, L, s, t),
           NEW eff, NEW w, NEW r
    PROVE  Agrees(K, L, Returned(P, s, eff, w, r), Returned(Q, t, eff, w, r))
<1> DEFINE p == s.pc
           d == P[p].dst
           e(m) == [x \in Vars |-> IF x \in eff THEN w ELSE m[x]]
           f(m) == IF d = "" THEN e(m) ELSE [e(m) EXCEPT ![d] = r]
           a == Returned(P, s, eff, w, r)
           c == Returned(Q, t, eff, w, r)
<1>1. /\ P \in FunctionBodies /\ Shrinks(P, K, Q) /\ p \in 1 .. Len(P) /\ p \in DOMAIN P
      /\ Len(P) \in Nat /\ p + 1 \in 1 .. Len(P) + 1 /\ L[p + 1] \subseteq Vars
  BY CertifiedAt
<1>2. t.pc = Image(K, p) /\ Q[t.pc] = P[p]
  BY KeptReadsAlike
<1>3. /\ t = [pc |-> Image(K, p), mem |-> t.mem, jb |-> ImageJb(K, s.jb)]
      /\ \A x \in L[p] : t.mem[x] = s.mem[x]
  BY DEF Agrees
<1>4. s = [pc |-> s.pc, mem |-> s.mem, jb |-> s.jb]
  BY DEF MachineOK
<1>5. t = [pc |-> t.pc, mem |-> t.mem, jb |-> t.jb] /\ t.jb = ImageJb(K, s.jb)
  BY <1>3
<1>6. L[p + 1] \ {d} \subseteq L[p]
  <2>1. ~EndsBasicBlock(P[p])
    BY DEF EndsBasicBlock
  <2>2. p + 1 \in After(P, p)
    BY <1>1, <2>1 DEF After
  <2>3. Covers(P, L, p)
    BY DEF Certified, LeavesOut
  <2> QED
    BY <2>2, <2>3 DEF Covers
<1>7. Image(K, p + 1) = t.pc + 1
  BY <1>1, <1>2, ImageIs
<1>8. a = [s EXCEPT !.pc = p + 1, !.mem = f(s.mem)]
  BY DEF Returned
<1>9. c = [t EXCEPT !.pc = t.pc + 1, !.mem = f(t.mem)]
  BY <1>2 DEF Returned
<1> DEFINE p2 == p + 1
           q2 == t.pc + 1
           m2 == f(s.mem)
           n2 == f(t.mem)
<1>10. n2 = [x \in Vars |-> n2[x]] /\ \A x \in L[p + 1] : n2[x] = m2[x]
  <2> HIDE DEF p, d
  <2>1. CASE d = ""
    BY <1>1, <1>3, <1>6, <2>1, VarsAssumption
  <2>2. CASE d # ""
    <3>1. n2 = [e(t.mem) EXCEPT ![d] = r] /\ m2 = [e(s.mem) EXCEPT ![d] = r]
      BY <2>2
    <3> DEFINE em == e(s.mem)
               en == e(t.mem)
    <3>2. \A x \in L[p + 1] : x # d => en[x] = em[x]
      BY <1>1, <1>3, <1>6
    <3>3. em = [x \in Vars |-> em[x]] /\ en = [x \in Vars |-> en[x]]
      OBVIOUS
    <3> HIDE DEF em, en, n2, m2
    <3>4. n2 = [en EXCEPT ![d] = r] /\ m2 = [em EXCEPT ![d] = r]
      BY <3>1 DEF em, en
    <3> QED
      BY <1>1, <3>2, <3>3, <3>4
  <2> QED
    BY <2>1, <2>2
<1> HIDE DEF a, c, p2, q2, m2, n2
<1>11. a = [pc |-> p2, mem |-> m2, jb |-> s.jb]
  BY <1>4, <1>8, MachineUpdate DEF p2, m2
<1>12. c = [pc |-> q2, mem |-> n2, jb |-> t.jb]
  BY <1>5, <1>9, MachineUpdate DEF q2, n2
<1>13. a.pc = p2 /\ a.mem = m2 /\ a.jb = s.jb /\ c.mem = n2
  BY <1>11, <1>12
<1>14. c = [pc |-> Image(K, a.pc), mem |-> c.mem, jb |-> ImageJb(K, a.jb)]
  BY <1>5, <1>7, <1>12, <1>13 DEF p2, q2
<1>15. Agrees(K, L, a, c)
  BY <1>10, <1>13, <1>14 DEF Agrees, p2
<1> QED
  BY <1>15 DEF a, c

(* and so does a longjmp out of it: what a function with a setjmp holds is  *)
(* needed everywhere, so the two memories are equal.                       *)
LEMMA SameLongjmp ==
    ASSUME NEW P, NEW K, NEW L, NEW Q, Certified(P, K, L, Q), NEW s, MachineOK(P, s),
           s.jb # NoJump, NEW t, Agrees(K, L, s, t), NEW eff, NEW w \in Numbers
    PROVE  Agrees(K, L, JumpedBack(s, eff, w), JumpedBack(t, eff, w))
<1> DEFINE a == JumpedBack(s, eff, w)
<1>1. \E q \in DOMAIN P : P[q].k = "setjmp"
  BY DEF MachineOK
<1>2. \A p \in 1 .. Len(P) + 1 : L[p] = Vars
  BY <1>1 DEF Certified, LeavesOut
<1>3. L[s.pc] = Vars /\ s = [pc |-> s.pc, mem |-> s.mem, jb |-> s.jb] /\ s.mem = [x \in Vars |-> s.mem[x]]
  BY <1>2 DEF MachineOK, MemoryOK
<1>4. t.mem = s.mem
  BY <1>3 DEF Agrees
<1>5. t = Img(K, s)
  BY <1>4 DEF Agrees, Img
<1>6. JumpedBack(t, eff, w) = Img(K, a)
  BY <1>3, <1>5, SameJump
<1>7. MachineOK(P, a)
  BY JumpedBackOK DEF Certified
<1> HIDE DEF a
<1>8. a.mem = [x \in Vars |-> a.mem[x]]
  BY <1>7 DEF MachineOK, MemoryOK
<1>9. Agrees(K, L, a, Img(K, a))
  BY <1>8 DEF Agrees, Img
<1> QED
  BY <1>6, <1>9 DEF a

(* The machine v of P, which P takes to s, agrees with the machine t of Q.  *)
Tracks(P, K, L, t, v, s) == MachineOK(P, v) /\ Agrees(K, L, v, t) /\ Leads(P, v, s)

(* There is one that stands at a kept instruction or at the end: P passes  *)
(* over what is left out without t taking a step.                          *)
LEMMA Furthest ==
    ASSUME NEW P, NEW K, NEW L, NEW Q, Certified(P, K, L, Q), NEW t, NEW s, AtEvent(P, s),
           NEW u, Tracks(P, K, L, t, u, s)
    PROVE  \E v : Tracks(P, K, L, t, v, s) /\ (v.pc \in K \/ v.pc = Len(P) + 1)
<1> DEFINE Left(v) == Len(P) + 1 - v.pc
           T == {n \in Nat : \E v : Tracks(P, K, L, t, v, s) /\ n = Left(v)}
<1>1. P \in FunctionBodies /\ Len(P) \in Nat /\ DOMAIN P = 1 .. Len(P) /\ K \subseteq DOMAIN P
  BY CertifiedAt
<1>2. \A v : Tracks(P, K, L, t, v, s) => v.pc \in 1 .. Len(P) + 1
  BY DEF Tracks, MachineOK
<1>3. \A v : Tracks(P, K, L, t, v, s) => Left(v) \in T
  BY <1>1, <1>2
<1>4. PICK n \in T : \A k \in T : n <= k
  <2>1. T \in SUBSET Nat /\ T # {}
    BY <1>3
  <2> HIDE DEF T
  <2> QED
    BY <2>1, LeastNumber
<1>5. PICK v : Tracks(P, K, L, t, v, s) /\ n = Left(v)
  BY <1>4
<1>6. ASSUME v.pc \in DOMAIN P, v.pc \notin K
      PROVE  FALSE
  <2> DEFINE x == Run1(P, v)
  <2>1. MachineOK(P, v) /\ Agrees(K, L, v, t) /\ Leads(P, v, s)
    BY <1>5 DEF Tracks
  <2>2. v # s
    <3>1. P[v.pc].k \in Operational /\ ~(v.pc > Len(P))
      BY <1>1, <1>6 DEF Certified, LeavesOut, Unneeded
    <3>2. ~AtEvent(P, v)
      BY <3>1 DEF AtEvent, Operational
    <3> QED
      BY <3>2
  <2>3. ~Undefined(P, v) /\ Leads(P, x, s)
    BY <2>1, <2>2, LeadsAdvance
  <2>4. ~AtEvent(P, v) /\ x.pc = v.pc + 1 /\ Agrees(K, L, x, t)
    BY <1>6, <2>1, <2>3, LeftOut
  <2>5. MachineOK(P, x)
    BY <1>1, <1>6, <2>1, <2>3, <2>4, RunOK
  <2> HIDE DEF x
  <2>6. Tracks(P, K, L, t, x, s)
    BY <2>3, <2>4, <2>5 DEF Tracks
  <2>7. n <= Left(x)
    BY <1>3, <1>4, <2>6
  <2> QED
    BY <1>1, <1>2, <1>5, <2>4, <2>7
<1>7. v.pc \in DOMAIN P \/ v.pc = Len(P) + 1
  BY <1>1, <1>2, <1>5
<1> QED
  BY <1>5, <1>6, <1>7

(* Where it stands the two wait for the environment alike; what the pass    *)
(* returns meets no undefined behaviour, and where it takes a step it goes  *)
(* on agreeing with a machine on the way.                                  *)
LEMMA TracksOn ==
    ASSUME NEW P, NEW K, NEW L, NEW Q, Certified(P, K, L, Q), NEW t, NEW s, AtEvent(P, s),
           NEW u, Tracks(P, K, L, t, u, s)
    PROVE  /\ ~Undefined(Q, t)
           /\ AtEvent(Q, t) => Agrees(K, L, s, t)
           /\ ~AtEvent(Q, t) => \E v : Tracks(P, K, L, Run1(Q, t), v, s)
<1>1. PICK v : Tracks(P, K, L, t, v, s) /\ (v.pc \in K \/ v.pc = Len(P) + 1)
  BY Furthest
<1>2. MachineOK(P, v) /\ Agrees(K, L, v, t) /\ Leads(P, v, s)
  BY <1>1 DEF Tracks
<1>3. CASE v.pc = Len(P) + 1
  <2>1. AtEvent(Q, t) /\ AtEvent(P, v)
    BY <1>2, <1>3, SameEnd
  <2>2. v = s
    BY <1>2, <2>1, LeadsAdvance
  <2> QED
    BY <1>2, <2>1, <2>2 DEF Undefined
<1>4. CASE v.pc \in K
  <2>1. (AtEvent(Q, t) <=> AtEvent(P, v)) /\ (Undefined(Q, t) <=> Undefined(P, v))
    BY <1>2, <1>4, KeptReadsAlike
  <2>2. CASE AtEvent(P, v)
    <3>1. v = s
      BY <1>2, <2>2, LeadsAdvance
    <3> QED
      BY <1>2, <2>1, <2>2, <3>1 DEF Undefined
  <2>3. CASE ~AtEvent(P, v)
    <3> DEFINE x == Run1(P, v)
    <3>1. v # s
      BY <2>3
    <3>2. ~Undefined(P, v) /\ Leads(P, x, s)
      BY <1>2, <3>1, LeadsAdvance
    <3>3. Agrees(K, L, x, Run1(Q, t))
      BY <1>2, <1>4, <2>3, <3>2, SameStep
    <3>4. MachineOK(P, x)
      <4>1. P \in FunctionBodies /\ v.pc \in DOMAIN P
        BY <1>4, CertifiedAt
      <4> QED
        BY <1>2, <2>3, <3>2, <4>1, RunOK
    <3> HIDE DEF x
    <3>5. Tracks(P, K, L, Run1(Q, t), x, s)
      BY <3>2, <3>3, <3>4 DEF Tracks
    <3> QED
      BY <2>1, <2>3, <3>2, <3>5
  <2> QED
    BY <2>2, <2>3
<1> QED
  BY <1>1, <1>3, <1>4
----------------------------------------------------------------------------
(* The run of the two functions.                                           *)
Running == phase \in {"source", "target", "event"}

(* While they run, the machine of the returned function agrees with one    *)
(* that the original function takes to its own, and with that one itself   *)
(* when it waits for an event, on what one and the same certificate says.  *)
LockedBy(K, L) ==
    /\ Certified(prog, K, L, out)
    /\ phase \in {"source", "target"} => \E v : Tracks(prog, K, L, opt, v, src)
    /\ phase = "event" => Agrees(K, L, src, opt)

LockOK ==
    /\ Running => MachineOK(prog, src)
    /\ phase \in {"target", "event"} => AtEvent(prog, src)
    /\ Running => \E K : \E L : LockedBy(K, L)

(* A function starts with a memory that holds no address of a local.       *)
LEMMA StartOK ==
    ASSUME prog \in FunctionBodies, NEW m \in Memories, NEW s, s = [pc |-> 1, mem |-> m, jb |-> NoJump]
    PROVE  MachineOK(prog, s)
<1>1. /\ m = [x \in Vars |-> m[x]]
      /\ \A x \in Vars : (m[x][1] = "a" => m[x][2] \in Statics) /\ m[x][1] # "l"
  BY MemoriesAssumption
<1>2. \A x \in Vars : ValueOK(prog, m[x])
  BY <1>1 DEF ValueOK, Reachable
<1>3. MemoryOK(prog, m)
  BY <1>1, <1>2 DEF MemoryOK
<1>4. 1 \in 1 .. Len(prog) + 1
  BY DEF FunctionBodies
<1> QED
  BY <1>3, <1>4 DEF MachineOK

(* Both start at the first instruction, with the same memory.              *)
LEMMA StartLock ==
    ASSUME PassOK, Start
    PROVE  MachineOK(prog, src') /\ \E K : \E L : Certified(prog, K, L, out) /\ Agrees(K, L, src', opt')
<1>1. phase \notin {"analyse", "rewrite"} /\ prog \in FunctionBodies
  BY DEF Start, PassOK, LiveOK
<1>2. PICK K : \E L : LeavesOut(prog, K, L) /\ Restricts(prog, K, out)
  BY <1>1 DEF PassOK, LeftOK
<1>3. PICK L : LeavesOut(prog, K, L) /\ Restricts(prog, K, out)
  BY <1>2
<1>4. Certified(prog, K, L, out)
  BY <1>1, <1>3 DEF Certified
<1>5. PICK m \in Memories : /\ src' = [pc |-> 1, mem |-> m, jb |-> NoJump]
                            /\ opt' = [pc |-> 1, mem |-> m, jb |-> NoJump]
  BY DEF Start
<1>6. MachineOK(prog, src')
  BY <1>1, <1>5, StartOK
<1>7. Image(K, 1) = 1
  BY <1>4, CertifiedAt, ImageIs
<1>8. m = [x \in Vars |-> m[x]]
  BY MemoriesAssumption
<1>9. Agrees(K, L, src', opt')
  BY <1>5, <1>7, <1>8 DEF Agrees, ImageJb
<1> QED
  BY <1>4, <1>6, <1>9

(* The environment answers both alike.                                     *)
LEMMA AnswerLock ==
    ASSUME Answer, MachineOK(prog, src), AtEvent(prog, src), NEW K, NEW L,
           Certified(prog, K, L, out), Agrees(K, L, src, opt)
    PROVE  MachineOK(prog, src') /\ Agrees(K, L, src', opt')
<1>1. prog \in FunctionBodies /\ DOMAIN prog = 1 .. Len(prog) /\ Len(prog) \in Nat
  BY CertifiedAt
<1>2. src.pc \in DOMAIN prog /\ prog[src.pc].k \in {"call", "icall"}
  BY <1>1 DEF Answer, AtCall, MachineOK
<1>3. src.pc \in K
  BY <1>2 DEF Certified, LeavesOut, Unneeded, Operational
<1>4. PICK eff \in Writes, w \in Numbers :
         \/ \E r \in Numbers : /\ src' = Returned(prog, src, eff, w, r)
                               /\ opt' = Returned(out, opt, eff, w, r)
         \/ /\ src.jb # NoJump
            /\ src' = JumpedBack(src, eff, w)
            /\ opt' = JumpedBack(opt, eff, w)
  BY DEF Answer
<1>5. CASE \E r \in Numbers : /\ src' = Returned(prog, src, eff, w, r)
                              /\ opt' = Returned(out, opt, eff, w, r)
  <2>1. PICK r \in Numbers : /\ src' = Returned(prog, src, eff, w, r)
                             /\ opt' = Returned(out, opt, eff, w, r)
    BY <1>5
  <2>2. MachineOK(prog, src')
    BY <1>1, <1>2, <2>1, ReturnedOK
  <2>3. Agrees(K, L, src', opt')
    BY <1>2, <1>3, <2>1, SameAnswer
  <2> QED
    BY <2>2, <2>3
<1>6. CASE src.jb # NoJump /\ src' = JumpedBack(src, eff, w) /\ opt' = JumpedBack(opt, eff, w)
  <2>1. MachineOK(prog, src')
    BY <1>1, <1>6, JumpedBackOK
  <2>2. Agrees(K, L, src', opt')
    BY <1>6, SameLongjmp
  <2> QED
    BY <2>1, <2>2
<1> QED
  BY <1>4, <1>5, <1>6

(* Every step of the two functions and of their environment keeps them in  *)
(* lockstep.                                                               *)
LEMMA LockHolds == PassOK /\ LockOK /\ [Next]_vars => LockOK'
<1> SUFFICES ASSUME PassOK, LockOK, [Next]_vars PROVE LockOK'
  OBVIOUS
<1>1. CASE Visit \/ Converge \/ GiveUp \/ FilterAgain \/ FilterLast
  <2>1. phase' \notin {"source", "target", "event"}
    BY <1>1 DEF Visit, Converge, GiveUp, FilterAgain, FilterLast
  <2> QED
    BY <2>1 DEF LockOK, Running
<1>2. CASE UNCHANGED vars
  <2>1. UNCHANGED <<prog, out, phase, src, opt>>
    BY <1>2 DEF vars
  <2>2. \A K, L : LockedBy(K, L) => LockedBy(K, L)'
    BY <2>1 DEF LockedBy
  <2> QED
    BY <2>1, <2>2 DEF LockOK, Running
<1>3. CASE Run
  <2>1. UNCHANGED <<prog, out>>
    BY <1>3 DEF Run, RunNext, Start, SourceStep, SourceStops, TargetStep, TargetStops, Answer, Finish
  <2> DEFINE Locked(K, L, ph, s, t) ==
                /\ Certified(prog, K, L, out)
                /\ ph \in {"source", "target"} => \E v : Tracks(prog, K, L, t, v, s)
                /\ ph = "event" => Agrees(K, L, s, t)
  <2>2. SUFFICES ASSUME phase' \in {"source", "target", "event"}
                 PROVE  /\ MachineOK(prog, src')
                        /\ phase' \in {"target", "event"} => AtEvent(prog, src')
                        /\ \E K : \E L : Locked(K, L, phase', src', opt')
    <3>1. \A K, L : Locked(K, L, phase', src', opt') => LockedBy(K, L)'
      BY <2>1 DEF LockedBy
    <3> QED
      BY <2>1, <3>1 DEF LockOK, Running
  <2>3. ASSUME phase \in {"source", "target", "event"}
        PROVE  MachineOK(prog, src) /\ \E K : \E L : LockedBy(K, L)
    BY <2>3 DEF LockOK, Running
  <2>4. phase \in {"target", "event"} => AtEvent(prog, src)
    BY DEF LockOK
  <2>5. CASE Start
    <3>1. phase' = "source" /\ MachineOK(prog, src')
      BY <2>5, StartLock DEF Start
    <3>2. PICK K : \E L : Certified(prog, K, L, out) /\ Agrees(K, L, src', opt')
      BY <2>5, StartLock
    <3>3. PICK L : Certified(prog, K, L, out) /\ Agrees(K, L, src', opt')
      BY <3>2
    <3>4. Tracks(prog, K, L, opt', src', src')
      BY <3>1, <3>3, LeadsSelf DEF Tracks
    <3> QED
      BY <3>1, <3>3, <3>4
  <2>6. CASE Finish
    BY <2>2, <2>6 DEF Finish
  <2>7. CASE SourceStep \/ SourceStops \/ TargetStep \/ TargetStops \/ Answer
    <3>1. phase \in {"source", "target", "event"}
      BY <2>7 DEF SourceStep, SourceStops, TargetStep, TargetStops, Answer
    <3>2. PICK K : \E L : LockedBy(K, L)
      BY <2>3, <3>1
    <3>3. PICK L : LockedBy(K, L)
      BY <3>2
    <3>4. Certified(prog, K, L, out) /\ MachineOK(prog, src)
      BY <2>3, <3>1, <3>3 DEF LockedBy
    <3>5. phase \in {"source", "target"} => \E v : Tracks(prog, K, L, opt, v, src)
      BY <3>3 DEF LockedBy
    <3>6. phase = "event" => Agrees(K, L, src, opt)
      BY <3>3 DEF LockedBy
    <3>7. SUFFICES /\ MachineOK(prog, src')
                   /\ phase' \in {"target", "event"} => AtEvent(prog, src')
                   /\ phase' \in {"source", "target"} => \E v : Tracks(prog, K, L, opt', v, src')
                   /\ phase' = "event" => Agrees(K, L, src', opt')
      BY <3>4
    <3>8. CASE SourceStep
      <4>1. /\ phase = "source" /\ phase' = phase /\ opt' = opt /\ src' = Run1(prog, src)
            /\ ~AtEvent(prog, src) /\ ~Undefined(prog, src)
        BY <3>8 DEF SourceStep
      <4>2. prog \in FunctionBodies /\ src.pc \in DOMAIN prog
        BY <3>4, <4>1, CertifiedAt DEF MachineOK, AtEvent
      <4>3. MachineOK(prog, src')
        BY <3>4, <4>1, <4>2, RunOK
      <4>4. PICK v : Tracks(prog, K, L, opt, v, src)
        BY <3>5, <4>1
      <4>5. Tracks(prog, K, L, opt', v, src')
        BY <4>1, <4>4, LeadsExtend DEF Tracks
      <4> QED
        BY <4>1, <4>3, <4>5
    <3>9. CASE SourceStops
      <4>1. /\ phase = "source" /\ src' = src /\ opt' = opt
            /\ phase' = "done" \/ (AtEvent(prog, src) /\ phase' = "target")
        BY <3>9 DEF SourceStops
      <4> QED
        BY <3>4, <3>5, <4>1
    <3>10. CASE TargetStep
      <4>1. /\ phase = "target" /\ phase' = phase /\ src' = src /\ opt' = Run1(out, opt)
            /\ ~AtEvent(out, opt)
        BY <3>10 DEF TargetStep
      <4>2. PICK u : Tracks(prog, K, L, opt, u, src)
        BY <3>5, <4>1
      <4>3. \E v : Tracks(prog, K, L, Run1(out, opt), v, src)
        BY <2>4, <3>4, <4>1, <4>2, TracksOn
      <4> QED
        BY <2>4, <3>4, <4>1, <4>3
    <3>11. CASE TargetStops
      <4>1. phase = "target" /\ phase' = "event" /\ src' = src /\ opt' = opt /\ AtEvent(out, opt)
        BY <3>11 DEF TargetStops
      <4>2. PICK u : Tracks(prog, K, L, opt, u, src)
        BY <3>5, <4>1
      <4>3. Agrees(K, L, src, opt)
        BY <2>4, <3>4, <4>1, <4>2, TracksOn
      <4> QED
        BY <2>4, <3>4, <4>1, <4>3
    <3>12. CASE Answer
      <4>1. phase = "event" /\ phase' = "source"
        BY <3>12 DEF Answer
      <4>2. MachineOK(prog, src') /\ Agrees(K, L, src', opt')
        BY <2>4, <3>4, <3>6, <3>12, <4>1, AnswerLock
      <4>3. Tracks(prog, K, L, opt', src', src')
        BY <4>2, LeadsSelf DEF Tracks
      <4> QED
        BY <4>1, <4>2, <4>3
    <3> QED
      BY <2>7, <3>8, <3>9, <3>10, <3>11, <3>12
  <2> QED
    BY <1>3, <2>5, <2>6, <2>7 DEF Run, RunNext
<1> QED
  BY <1>1, <1>2, <1>3 DEF Next, Pass, Done

(* The two are in lockstep in every state the specification reaches.       *)
THEOREM InLockstep == Spec => []LockOK
<1>1. Init => LockOK
  BY DEF Init, EquivInit, LockOK, Running
<1> QED
  BY <1>1, LockHolds, EliminationReturns, PTL DEF Spec

(* Dead store elimination preserves what a function shows: at every call   *)
(* and return the function it returns shows its environment what the       *)
(* original one shows, and meets no undefined behaviour on the way.        *)
THEOREM EliminationIsEquivalent == Spec => []ObservablyEquivalent
<1>1. LockOK => ObservablyEquivalent
  <2> SUFFICES ASSUME LockOK PROVE ObservablyEquivalent
    OBVIOUS
  <2>1. ASSUME phase = "target" PROVE ~Undefined(out, opt)
    <3>1. AtEvent(prog, src)
      BY <2>1 DEF LockOK
    <3>2. PICK K : \E L : LockedBy(K, L)
      BY <2>1 DEF LockOK, Running
    <3>3. PICK L : LockedBy(K, L)
      BY <3>2
    <3>4. Certified(prog, K, L, out) /\ \E u : Tracks(prog, K, L, opt, u, src)
      BY <2>1, <3>3 DEF LockedBy
    <3> QED
      BY <3>1, <3>4, TracksOn
  <2>2. ASSUME phase = "event" PROVE Observed(prog, src, Reach) = Observed(out, opt, Reach)
    <3>1. AtEvent(prog, src) /\ MachineOK(prog, src)
      BY <2>2 DEF LockOK, Running
    <3>2. PICK K : \E L : LockedBy(K, L)
      BY <2>2 DEF LockOK, Running
    <3>3. PICK L : LockedBy(K, L)
      BY <3>2
    <3>4. Certified(prog, K, L, out) /\ Agrees(K, L, src, opt)
      BY <2>2, <3>3 DEF LockedBy
    <3>5. src.pc \in DOMAIN prog \/ src.pc = Len(prog) + 1
      BY <3>1, <3>4, CertifiedAt DEF MachineOK
    <3>6. CASE src.pc = Len(prog) + 1
      BY <3>4, <3>6, SameEnd DEF Reach
    <3>7. CASE src.pc \in DOMAIN prog
      <4>1. src.pc \in K
        <5> SUFFICES ASSUME src.pc \notin K PROVE FALSE
          OBVIOUS
        <5>1. ~Undefined(prog, src)
          BY <3>1 DEF Undefined
        <5> QED
          BY <3>1, <3>4, <3>7, <5>1, LeftOut
      <4> QED
        BY <3>1, <3>4, <4>1, KeptReadsAlike DEF Reach
    <3> QED
      BY <3>5, <3>6, <3>7
  <2> QED
    BY <2>1, <2>2 DEF ObservablyEquivalent
<1> QED
  BY <1>1, InLockstep, PTL
============================================================================
