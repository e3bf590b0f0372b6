----------------------- MODULE CopyPropagation_proof -----------------------
(* What the worklist of copy_propagation computes, for every program, every *)
(* typing and every order in which successors are enqueued, and what the   *)
(* copies it reports say of every run of the program.                      *)
EXTENDS CopyPropagation, Tacky_proof

----------------------------------------------------------------------------
(* What a copy fact says of the memory, and how the transfer keeps it true. *)
(* A copy between two variables of one type, or of a constant that fits.   *)
Alike(o, d) ==
    /\ IsVar(o) => TypeOf[o[2]] = TypeOf[d]
    /\ FitsType(o, d)

(* The variables a function mentions, the copies between them, and the sets *)
(* of copies that hold at most one into each variable.                     *)
FactsOf(P) ==
    {f \in Facts : /\ f.dst \in Mentioned(P)
                   /\ IsVar(f.src) => f.src[2] \in Mentioned(P)
                   /\ Alike(f.src, f.dst)}

OnePerVariable(R) == \A f, g \in R : f.dst = g.dst => f = g

FactSets(P) == {R \in SUBSET FactsOf(P) : OnePerVariable(R)}

(* An instruction that P has, or that a rewrite makes of one, copies between *)
(* variables that P mentions, and a CopyStruct between two of one type.    *)
Admissible(P, i) ==
    i.k \in {"copy", "cps"} =>
        /\ i.dst \in Vars /\ i.dst \in Mentioned(P)
        /\ i.src[1] \in Operands
        /\ IsVar(i.src[1]) => i.src[1][2] \in Mentioned(P)
        /\ i.k = "cps" => IsVar(i.src[1]) /\ TypeOf[i.src[1][2]] = TypeOf[i.dst]

(* Those that P has.                                                       *)
LEMMA PAdmissible ==
    ASSUME NEW P \in FunctionBodies, NEW n \in DOMAIN P
    PROVE  Admissible(P, P[n])
<1> DEFINE i == P[n]
           o == i.src[1]
<1> SUFFICES ASSUME i.k \in {"copy", "cps"}
             PROVE  /\ i.dst \in Vars /\ i.dst \in Mentioned(P)
                    /\ o \in Operands
                    /\ IsVar(o) => o[2] \in Mentioned(P)
                    /\ i.k = "cps" => IsVar(o) /\ TypeOf[o[2]] = TypeOf[i.dst]
  BY DEF Admissible
<1>1. i \in Instructions /\ HasFields(i)
  BY MentionedVars, InstructionFields
<1>2. i.dst \in Vars /\ i.dst \in Mentioned(P)
  <2>1. i.dst # ""
    BY <1>1 DEF HasFields
  <2> QED
    BY <2>1, MentionedVars
<1>3. 1 \in DOMAIN i.src /\ o \in Operands
  BY <1>1, FirstOperand, InstructionFields
<1>4. IsVar(o) => o[2] \in Mentioned(P)
  BY <1>1, <1>3, SourceVarsAreVars, MentionedVars
<1>5. i.k = "cps" => IsVar(o) /\ TypeOf[o[2]] = TypeOf[i.dst]
  BY <1>1, FirstOperand DEF HasFields
<1> QED
  BY <1>2, <1>3, <1>4, <1>5

(* The copy that such an instruction makes is one between them.            *)
LEMMA NewFact ==
    ASSUME NEW P, NEW o \in Operands, NEW d \in Vars, d \in Mentioned(P),
           IsVar(o) => o[2] \in Mentioned(P), Alike(o, d)
    PROVE  CopyFact(o, d) \in FactsOf(P)
<1>1. CopyFact(o, d) \in Facts
  BY DEF CopyFact, Facts
<1>2. CopyFact(o, d).src = o /\ CopyFact(o, d).dst = d
  BY DEF CopyFact
<1> QED
  BY <1>1, <1>2 DEF FactsOf

(* Forgetting copies keeps one per variable.                               *)
LEMMA KillKeepsFactSets ==
    ASSUME NEW P, NEW R \in FactSets(P), NEW S, S \subseteq R
    PROVE  S \in FactSets(P)
BY DEF FactSets, OnePerVariable

(* So does inserting one after those it contradicts are gone.              *)
LEMMA InsertKeepsFactSets ==
    ASSUME NEW P, NEW R \in FactSets(P), NEW f \in FactsOf(P)
    PROVE  KillVar(R, f.dst) \cup {f} \in FactSets(P)
BY DEF FactSets, OnePerVariable, KillVar

(* The transfer function keeps one copy per variable.                      *)
LEMMA TransferKeepsFactSets ==
    ASSUME NEW P, NEW i, Admissible(P, i), NEW R \in FactSets(P), NEW aliased
    PROVE  Transfer(aliased, R, i) \in FactSets(P)
<1> DEFINE o == i.src[1]
           d == i.dst
           f == CopyFact(o, d)
           T == Transfer(aliased, R, i)
<1>0. f.dst = d
  BY DEF CopyFact
<1>1. KillVar(R, d) \subseteq R /\ KillVar(KillAliased(aliased, R), d) \subseteq R
  BY DEF KillVar, KillAliased
<1>2. \/ T = R \/ T = KillVar(R, d) \/ T = KillVar(KillAliased(aliased, R), d) \/ T = {}
      \/ /\ i.k \in {"copy", "cps"} /\ T = KillVar(R, d) \cup {f}
         /\ i.k = "copy" /\ IsVar(o) => TypeOf[o[2]] = TypeOf[d]
         /\ i.k = "copy" /\ ~IsVar(o) => FitsType(o, d)
  <2> HIDE DEF f
  <2> QED
    BY <1>0 DEF Transfer, Insert, InsertUnlessReverse, f
<1>3. ASSUME i.k \in {"copy", "cps"}, i.k = "copy" /\ IsVar(o) => TypeOf[o[2]] = TypeOf[d],
             i.k = "copy" /\ ~IsVar(o) => FitsType(o, d)
      PROVE  KillVar(R, d) \cup {f} \in FactSets(P)
  <2>1. /\ d \in Vars /\ d \in Mentioned(P) /\ o \in Operands
        /\ IsVar(o) => o[2] \in Mentioned(P)
        /\ i.k = "cps" => IsVar(o) /\ TypeOf[o[2]] = TypeOf[d]
    BY <1>3 DEF Admissible
  <2> HIDE DEF o, d
  <2>2. Alike(o, d)
    <3>1. IsVar(o) => FitsType(o, d)
      BY DEF IsVar, FitsType
    <3> QED
      BY <1>3, <2>1, <3>1 DEF Alike
  <2>3. f \in FactsOf(P)
    BY <2>1, <2>2, NewFact
  <2> HIDE DEF f
  <2> QED
    BY <1>0, <2>3, InsertKeepsFactSets
<1> HIDE DEF T, f
<1>4. T \in FactSets(P)
  BY <1>1, <1>2, <1>3, KillKeepsFactSets
<1> QED
  BY <1>4 DEF T

(* What reaches a block holds at the end of each predecessor.              *)
LEMMA MeetIn ==
    ASSUME NEW o, NEW preds, NEW p \in preds
    PROVE  p # Entry => MeetCopies(o, preds) \subseteq o[p]
BY DEF MeetCopies

(* A meet keeps one copy per variable.                                     *)
LEMMA MeetKeepsFactSets ==
    ASSUME NEW P, NEW o, NEW preds, \A p \in preds \ {Entry} : o[p] \in FactSets(P)
    PROVE  MeetCopies(o, preds) \in FactSets(P)
<1>0. {} \in FactSets(P)
  BY DEF FactSets, OnePerVariable
<1>1. CASE Entry \in preds
  BY <1>0, <1>1 DEF MeetCopies
<1>2. CASE preds = {}
  <2>1. MeetCopies(o, preds) = {}
    BY <1>2 DEF MeetCopies
  <2> QED
    BY <1>0, <2>1
<1>3. CASE Entry \notin preds /\ preds # {}
  <2>1. PICK p \in preds : p # Entry
    BY <1>3
  <2>2. o[p] \in FactSets(P) /\ MeetCopies(o, preds) \subseteq o[p]
    BY <2>1, MeetIn
  <2> QED
    BY <2>2, KillKeepsFactSets
<1> QED
  BY <1>1, <1>2, <1>3

(* The facts along a block: each follows from the one before.              *)
FactsFollow(P, b, aliased, R, after) ==
    LET M == Len(Cfg(P)[b].code)
    IN  /\ after[0] = R
        /\ \A n \in 0 .. M : after[n] \in FactSets(P)
        /\ \A n \in 1 .. M : after[n] = Transfer(aliased, after[n - 1], P[Starts(P)[b] + n - 1])

(* The recursion along a block has the solution one expects.               *)
LEMMA TransferredIs ==
    ASSUME NEW P \in FunctionBodies, NEW b \in DOMAIN Cfg(P), NEW R \in FactSets(P), NEW aliased
    PROVE  FactsFollow(P, b, aliased, R, Transferred(aliased, R, Cfg(P)[b].code))
<1> DEFINE code == Cfg(P)[b].code
           after == Transferred(aliased, R, code)
           step == [n \in DOMAIN code |-> [S \in SUBSET Facts |-> Transfer(aliased, S, code[n])]]
           M == Len(code)
<1>1. /\ DOMAIN code = 1 .. M /\ M \in Nat
      /\ \A n \in 1 .. M : code[n] = P[Starts(P)[b] + n - 1]
      /\ \A n \in 1 .. M : Starts(P)[b] + n - 1 \in DOMAIN P
  <2>1. P \in Seq(Instructions) /\ P # <<>>
    BY DEF FunctionBodies
  <2>2. /\ b \in DOMAIN Starts(P) /\ DOMAIN code = 1 .. M /\ M \in Nat
        /\ M = BlockEnd(P, b) - Starts(P)[b] + 1
        /\ \A n \in 1 .. M : code[n] = P[Starts(P)[b] + n - 1]
    BY <2>1, BlockCode
  <2>3. Starts(P)[b] \in Nat \ {0} /\ BlockEnd(P, b) \in Nat /\ BlockEnd(P, b) <= Len(P)
    BY <2>1, <2>2, BlockBounds
  <2>4. DOMAIN P = 1 .. Len(P) /\ Len(P) \in Nat
    BY <2>1
  <2> HIDE DEF code, M
  <2>5. \A n \in 1 .. M : Starts(P)[b] + n - 1 \in DOMAIN P
    BY <2>2, <2>3, <2>4
  <2> QED
    BY <2>2, <2>5
<1>2. after = Along(step, R)
  BY DEF Transferred
<1> HIDE DEF code
<1>3. Len(step) = M /\ \A n \in 1 .. M : \A S \in SUBSET Facts : step[n][S] = Transfer(aliased, S, code[n])
  BY <1>1
<1> HIDE DEF step, after
<1>4. FactSets(P) \subseteq SUBSET Facts
  BY DEF FactSets, FactsOf
<1>4a. \A n \in 1 .. M : Admissible(P, code[n])
  BY <1>1, PAdmissible
<1>5. \A n \in 1 .. M : \A S \in FactSets(P) : step[n][S] \in FactSets(P)
  BY <1>3, <1>4, <1>4a, TransferKeepsFactSets
<1>6. \A n \in 0 .. M : after[n] \in FactSets(P)
  BY <1>1, <1>2, <1>3, <1>5, AlongStaysIn
<1>7. after[0] = R /\ \A n \in 1 .. M : after[n] = step[n][after[n - 1]]
  BY <1>1, <1>2, <1>3, AlongIsDefined
<1>8. \A n \in 1 .. M : after[n] = Transfer(aliased, after[n - 1], P[Starts(P)[b] + n - 1])
  <2> TAKE n \in 1 .. M
  <2>1. n - 1 \in 0 .. M
    BY <1>1
  <2>2. after[n - 1] \in SUBSET Facts
    BY <1>4, <1>6, <2>1
  <2> QED
    BY <1>1, <1>3, <1>7, <2>2
<1> QED
  BY <1>6, <1>7, <1>8 DEF FactsFollow, code, after

FactHolds(f, m) == Value(m, f.src) = m[f.dst]

(* A fact survives a write to a variable it does not name.                 *)
LEMMA FactUntouched ==
    ASSUME NEW f \in Facts, NEW m, NEW m2, FactHolds(f, m),
           m2[f.dst] = m[f.dst], IsVar(f.src) => m2[f.src[2]] = m[f.src[2]]
    PROVE  FactHolds(f, m2)
BY DEF FactHolds, Value

(* A copy that is not from x does not read x.                              *)
LEMMA VarFact ==
    ASSUME NEW f \in Facts, NEW x, f.src # V(x), IsVar(f.src)
    PROVE  f.src[2] # x
<1>1. f.src \in Operands
  BY DEF Facts
<1>2. f.src = V(f.src[2])
  BY <1>1, OperandForms
<1> QED
  BY <1>2

(* The copies that survive the write of d hold after it.                   *)
LEMMA KilledFactsHold ==
    ASSUME NEW R \in SUBSET Facts, NEW m, m = [x \in Vars |-> m[x]],
           NEW d, NEW v, NEW m2, m2 = IF d = "" THEN m ELSE [m EXCEPT ![d] = v],
           NEW f \in KillVar(R, d), FactHolds(f, m)
    PROVE  FactHolds(f, m2)
<1>1. f \in Facts /\ f.dst # d /\ f.src # V(d) /\ f.dst \in Vars /\ f.src \in Operands
  BY DEF KillVar, Facts
<1>2. \A x \in Vars : x # d => m2[x] = m[x]
  OBVIOUS
<1>3. IsVar(f.src) => f.src[2] \in Vars /\ f.src[2] # d
  BY <1>1, VarFact, OperandForms
<1> QED
  BY <1>1, <1>2, <1>3, FactUntouched

(* The facts that survive a call name no variable that a pointer reaches.  *)
LEMMA UnaliasedFacts ==
    ASSUME NEW P, NEW R \in SUBSET FactsOf(P), NEW f \in KillAliased(FunctionAliasedVars(P), R)
    PROVE  /\ f \in R /\ f \in Facts
           /\ f.dst \notin Reachable(P)
           /\ IsVar(f.src) => f.src[2] \notin Reachable(P)
<1>1. f \in R /\ f \in FactsOf(P) /\ f \in Facts
  BY DEF KillAliased, FactsOf
<1>2. f.dst \notin FunctionAliasedVars(P) /\ \A x \in FunctionAliasedVars(P) : f.src # V(x)
  BY DEF KillAliased
<1>3. IsVar(f.src) => f.src = V(f.src[2])
  <2>1. f.src \in Operands
    BY <1>1 DEF Facts
  <2> QED
    BY <2>1, OperandForms
<1>4. f.dst \in Mentioned(P) /\ (IsVar(f.src) => f.src[2] \in Mentioned(P))
  BY <1>1 DEF FactsOf
<1> QED
  BY <1>1, <1>2, <1>3, <1>4, ReachableIsAliased

(* They hold after any write to what pointers reach.                       *)
LEMMA UnaliasedFactsHold ==
    ASSUME NEW P, NEW R \in SUBSET FactsOf(P), NEW f \in KillAliased(FunctionAliasedVars(P), R),
           NEW m, NEW m2, \A x \in Vars \ Reachable(P) : m2[x] = m[x], FactHolds(f, m)
    PROVE  FactHolds(f, m2)
<1>1. f \in Facts /\ f.dst \in Vars /\ f.src \in Operands
  BY UnaliasedFacts DEF Facts
<1>2. f.dst \in Vars \ Reachable(P) /\ (IsVar(f.src) => f.src[2] \in Vars \ Reachable(P))
  BY <1>1, UnaliasedFacts, OperandForms
<1> QED
  BY <1>1, <1>2, FactUntouched

(* A copy, of a scalar or of an aggregate: the new fact and those kept hold. *)
LEMMA CopySound ==
    ASSUME NEW o \in Operands, NEW d \in Vars, NEW R \in SUBSET Facts, NEW m,
           m = [x \in Vars |-> m[x]], \A f \in R : FactHolds(f, m),
           NEW m2, m2 = [m EXCEPT ![d] = Value(m, o)],
           NEW f, \/ f \in KillVar(R, d) \cup {CopyFact(o, d)}
                  \/ CopyFact(o, d) \in R /\ f \in R
                  \/ IsVar(o) /\ Reverse2(CopyFact(o, d)) \in R /\ f \in R
    PROVE  FactHolds(f, m2)
<1> DEFINE g == CopyFact(o, d)
<1>1. g.src = o /\ g.dst = d
  BY DEF CopyFact
<1>2. \A x \in Vars : m2[x] = IF x = d THEN Value(m, o) ELSE m[x]
  OBVIOUS
<1>3. CASE f \in KillVar(R, d)
  <2>1. f \in Facts /\ f.dst # d /\ f.src # V(d) /\ f.dst \in Vars /\ f.src \in Operands /\ FactHolds(f, m)
    BY <1>3 DEF KillVar, Facts
  <2>2. IsVar(f.src) => f.src[2] \in Vars /\ f.src[2] # d
    BY <2>1, VarFact, OperandForms
  <2> QED
    BY <1>2, <2>1, <2>2, FactUntouched
<1>4. CASE f = g
  <2>1. m2[d] = Value(m, o)
    BY <1>2
  <2>2. Value(m2, o) = Value(m, o)
    <3>1. CASE IsVar(o)
      <4>1. o[2] \in Vars
        BY <3>1, OperandForms
      <4>2. Value(m, o) = m[o[2]] /\ Value(m2, o) = m2[o[2]]
        BY <3>1 DEF Value
      <4> QED
        BY <1>2, <4>1, <4>2
    <3>2. CASE ~IsVar(o)
      BY <3>2 DEF Value
    <3> QED
      BY <3>1, <3>2
  <2> QED
    BY <1>1, <1>4, <2>1, <2>2 DEF FactHolds
<1>5. ASSUME Value(m, o) = m[d], f \in R PROVE FactHolds(f, m2)
  <2>1. m2 = m
    BY <1>5
  <2> QED
    BY <1>5, <2>1
<1>6. CASE g \in R /\ f \in R
  <2>1. FactHolds(g, m)
    BY <1>6
  <2> QED
    BY <1>1, <1>5, <1>6, <2>1 DEF FactHolds
<1>7. CASE IsVar(o) /\ Reverse2(g) \in R /\ f \in R
  <2>1. FactHolds(Reverse2(g), m)
    BY <1>7
  <2>2. Reverse2(g).src = V(d) /\ Reverse2(g).dst = o[2]
    BY <1>1 DEF Reverse2
  <2>3. Value(m, V(d)) = m[d] /\ Value(m, o) = m[o[2]]
    BY <1>7 DEF Value, V, IsVar
  <2> QED
    BY <1>5, <1>7, <2>1, <2>2, <2>3 DEF FactHolds
<1> QED
  BY <1>3, <1>4, <1>6, <1>7

(* The transfer of a copy leaves what holds after it.                      *)
LEMMA CopyTransferSound ==
    ASSUME NEW i, i.k \in {"copy", "cps"}, i.dst \in Vars, i.src[1] \in Operands,
           i.k = "cps" => IsVar(i.src[1]),
           NEW R \in SUBSET Facts, NEW m, m = [x \in Vars |-> m[x]], \A h \in R : FactHolds(h, m),
           NEW m2, m2 = [m EXCEPT ![i.dst] = Value(m, i.src[1])],
           NEW A, NEW f \in Transfer(A, R, i)
    PROVE  FactHolds(f, m2)
<1> DEFINE o == i.src[1]
           d == i.dst
           g == CopyFact(o, d)
<1>0. g.dst = d
  BY DEF CopyFact
<1>1. \/ f \in KillVar(R, d) \cup {g}
      \/ g \in R /\ f \in R
      \/ IsVar(o) /\ Reverse2(g) \in R /\ f \in R
  <2>1. CASE i.k = "copy" /\ ~IsVar(o)
    <3> HIDE DEF g
    <3> QED
      BY <1>0, <2>1 DEF Transfer, Insert, g
  <2>2. CASE i.k = "copy" /\ IsVar(o)
    <3>1. f \in InsertUnlessReverse(R, g) \/ f \in KillVar(R, d)
      BY <2>2 DEF Transfer
    <3> HIDE DEF g
    <3> QED
      BY <1>0, <2>2, <3>1 DEF InsertUnlessReverse
  <2>3. CASE i.k = "cps"
    <3>1. f \in InsertUnlessReverse(R, g)
      BY <2>3 DEF Transfer
    <3> HIDE DEF g
    <3> QED
      BY <1>0, <2>3, <3>1 DEF InsertUnlessReverse
  <2> QED
    BY <2>1, <2>2, <2>3
<1> HIDE DEF o, d
<1>2. o \in Operands /\ d \in Vars /\ m2 = [m EXCEPT ![d] = Value(m, o)]
  BY DEF o, d
<1> QED
  BY <1>1, <1>2, CopySound

(* Whatever a step does, the facts the transfer function leaves hold after. *)
LEMMA TransferSound ==
    ASSUME NEW P \in FunctionBodies, NEW s, MachineOK(P, s), s.pc \in DOMAIN P,
           ~Undefined(P, s), ~AtEvent(P, s),
           NEW R \in FactSets(P), \A f \in R : FactHolds(f, s.mem),
           NEW f \in Transfer(FunctionAliasedVars(P), R, P[s.pc])
    PROVE  FactHolds(f, Written(s, P[s.pc]))
<1> DEFINE i == P[s.pc]
           m == s.mem
           m2 == Written(s, i)
           A == FunctionAliasedVars(P)
<1>1. i \in Instructions /\ i.k \in Kinds /\ (i.dst \in Vars \/ i.dst = "")
  <2>1. i \in Instructions
    BY DEF FunctionBodies
  <2> HIDE DEF i
  <2> QED
    BY <2>1, InstructionFields
<1>2. m = [x \in Vars |-> m[x]]
  BY DEF MachineOK, MemoryOK
<1>3. R \in SUBSET Facts /\ R \in SUBSET FactsOf(P)
  BY DEF FactSets, FactsOf
<1>4. i.k \notin {"call", "icall", "ret", "njump", "longjmp", "unreach"}
  BY DEF AtEvent
<1>5. /\ i.k \in Operational <=> i.dst # ""
      /\ i.k \in Operational \ {"atomic"} => m2 = [m EXCEPT ![i.dst] = Computed(s, i)]
      /\ i.k \notin Operational \cup {"store"} => m2 = m
  BY WrittenOK
<1>6. i.k = "atomic" =>
        \E q \in Reachable(P) : \E v : m2 = [[m EXCEPT ![q] = v] EXCEPT ![i.dst] = Computed(s, i)]
  <2>1. SUFFICES ASSUME i.k = "atomic"
                 PROVE  \E q \in Reachable(P) : \E v :
                           m2 = [[m EXCEPT ![q] = v] EXCEPT ![i.dst] = Computed(s, i)]
    OBVIOUS
  <2> DEFINE a == [n \in DOMAIN i.src |-> Value(s.mem, i.src[n])]
  <2>2. /\ a[1][2] \in Reachable(P)
        /\ Written(s, i) = [[s.mem EXCEPT ![a[1][2]] = a[2]] EXCEPT ![i.dst] = Computed(s, i)]
    BY <2>1, WrittenOK
  <2> QED
    BY <2>2
<1>7. f \in Transfer(A, R, i) /\ \A h \in R : FactHolds(h, m)
  OBVIOUS
<1>8. i.k \in {"copy", "cps"} => /\ i.dst \in Vars /\ i.src[1] \in Operands
                                 /\ Computed(s, i) = Value(m, i.src[1])
  <2> SUFFICES ASSUME i.k \in {"copy", "cps"}
               PROVE  /\ i.dst \in Vars /\ i.src[1] \in Operands
                      /\ Computed(s, i) = Value(m, i.src[1])
    OBVIOUS
  <2>1. i.dst \in Vars /\ i.src[1] \in Operands
    BY PAdmissible DEF Admissible
  <2>2. 1 \in DOMAIN i.src
    BY <1>1, FirstOperand
  <2> DEFINE a == [n \in DOMAIN i.src |-> Value(s.mem, i.src[n])]
  <2>3. Computed(s, i) = a[1]
    BY DEF Computed
  <2> QED
    BY <2>1, <2>2, <2>3
<1> SUFFICES FactHolds(f, m2)
  OBVIOUS
<1> HIDE DEF i, m, m2, A
<1>9. ASSUME f \in KillVar(R, i.dst), i.k \notin {"atomic", "store"} PROVE FactHolds(f, m2)
  <2>0. f \in R
    BY <1>9 DEF KillVar
  <2>1. CASE i.k \in Operational
    <3>1. m2 = [m EXCEPT ![i.dst] = Computed(s, i)] /\ i.dst # ""
      BY <1>5, <1>9, <2>1
    <3> QED
      BY <1>2, <1>3, <1>7, <1>9, <2>0, <3>1, KilledFactsHold
  <2>2. CASE i.k \notin Operational
    <3>1. m2 = m
      BY <1>5, <1>9, <2>2
    <3> QED
      BY <1>7, <2>0, <3>1
  <2> QED
    BY <2>1, <2>2
<1>10. CASE i.k \in {"copy", "cps"}
  <2>1. m2 = [m EXCEPT ![i.dst] = Value(m, i.src[1])]
    <3>1. i.k \in Operational \ {"atomic"}
      BY <1>10 DEF Operational
    <3> QED
      BY <1>5, <1>8, <1>10, <3>1
  <2>2. i.k = "cps" => IsVar(i.src[1])
    BY <1>1, FirstOperand
  <2> QED
    BY <1>2, <1>3, <1>7, <1>8, <1>10, <2>1, <2>2, CopyTransferSound
<1>11. CASE i.k = "atomic"
  <2>1. f \in KillVar(KillAliased(A, R), i.dst)
    BY <1>7, <1>11 DEF Transfer
  <2>2. f \in KillAliased(A, R) /\ KillAliased(A, R) \in SUBSET Facts /\ f \in R
    BY <1>3, <2>1 DEF KillVar, KillAliased
  <2>3a. PICK q \in Reachable(P) : \E v : m2 = [[m EXCEPT ![q] = v] EXCEPT ![i.dst] = Computed(s, i)]
    BY <1>6, <1>11
  <2>3. PICK v : m2 = [[m EXCEPT ![q] = v] EXCEPT ![i.dst] = Computed(s, i)]
    BY <2>3a
  <2> DEFINE m1 == [m EXCEPT ![q] = v]
  <2>4. m1 = [x \in Vars |-> m1[x]]
    BY <1>2
  <2>5. \A x \in Vars \ Reachable(P) : m1[x] = m[x]
    BY <1>2
  <2>5a. m2 = IF i.dst = "" THEN m1 ELSE [m1 EXCEPT ![i.dst] = Computed(s, i)]
    BY <1>5, <1>11, <2>3 DEF Operational
  <2> HIDE DEF m1
  <2>6. FactHolds(f, m1)
    BY <1>3, <1>7, <2>2, <2>5, UnaliasedFactsHold DEF A
  <2> QED
    BY <2>1, <2>2, <2>4, <2>5a, <2>6, KilledFactsHold
<1>12. CASE i.k \in {"store", "setjmp", "vastart"}
  <2>1. f \in {}
    BY <1>7, <1>12 DEF Transfer
  <2> QED
    BY <2>1
<1>13. CASE i.k \notin {"copy", "cps", "atomic", "store", "setjmp", "vastart"}
  <2>1. f \in KillVar(R, i.dst)
    BY <1>4, <1>7, <1>13 DEF Transfer
  <2> QED
    BY <1>9, <1>13, <2>1
<1> QED
  BY <1>10, <1>11, <1>12, <1>13

(* The facts that the solution o of the equations gives every position.    *)
Analysis(P, o) ==
    [b \in DOMAIN Cfg(P) |->
        Transferred(FunctionAliasedVars(P), MeetCopies(o, Cfg(P)[b].preds), Cfg(P)[b].code)]

Solves(P, o) ==
    /\ o \in [DOMAIN Cfg(P) -> FactSets(P)]
    /\ \A b \in DOMAIN Cfg(P) :
          o[b] = TransferOut(FunctionAliasedVars(P), MeetCopies(o, Cfg(P)[b].preds), Cfg(P)[b].code)

(* What the solution says along one block.                                 *)
LEMMA AnalysisIs ==
    ASSUME NEW P \in FunctionBodies, NEW o \in [DOMAIN Cfg(P) -> FactSets(P)], NEW b \in DOMAIN Cfg(P)
    PROVE  LET A == FunctionAliasedVars(P)
               after == Analysis(P, o)[b]
               M == Len(Cfg(P)[b].code)
           IN  /\ M \in Nat
               /\ after[0] = MeetCopies(o, Cfg(P)[b].preds)
               /\ \A n \in 0 .. M : after[n] \in FactSets(P)
               /\ \A n \in 1 .. M : after[n] = Transfer(A, after[n - 1], P[Starts(P)[b] + n - 1])
               /\ after[M] = TransferOut(A, MeetCopies(o, Cfg(P)[b].preds), Cfg(P)[b].code)
<1> DEFINE A == FunctionAliasedVars(P)
           R == MeetCopies(o, Cfg(P)[b].preds)
           code == Cfg(P)[b].code
<1>1. \A p \in Cfg(P)[b].preds \ {Entry} : o[p] \in FactSets(P)
  BY PredecessorsAreBlocks
<1>2. R \in FactSets(P)
  BY <1>1, MeetKeepsFactSets
<1>3. Analysis(P, o)[b] = Transferred(A, R, code)
  BY DEF Analysis
<1>4. Len(code) \in Nat
  <2>1. P \in Seq(Instructions) /\ P # <<>>
    BY DEF FunctionBodies
  <2> QED
    BY <2>1, BlockCode
<1>4a. Cfg(P)[b].code = code
  OBVIOUS
<1> DEFINE W == Analysis(P, o)[b]
<1> HIDE DEF A, R, W, code
<1>5. W = Transferred(A, R, code)
  BY <1>3 DEF W
<1>6. /\ W[0] = R
      /\ \A n \in 0 .. Len(code) : W[n] \in FactSets(P)
      /\ \A n \in 1 .. Len(code) : W[n] = Transfer(A, W[n - 1], P[Starts(P)[b] + n - 1])
  <2>1. code = Cfg(P)[b].code
    BY DEF code
  <2>2. FactsFollow(P, b, A, R, W)
    BY <1>2, <1>5, <2>1, TransferredIs
  <2> QED
    BY <2>1, <2>2 DEF FactsFollow
<1>7. TransferOut(A, R, code) = W[Len(code)]
  BY <1>5 DEF TransferOut
<1> QED
  BY <1>4, <1>6, <1>7 DEF A, R, W, code

(* A solution meets at the start of every block.                           *)
LEMMA AnalysisMeets ==
    ASSUME NEW P \in FunctionBodies, NEW o, Solves(P, o)
    PROVE  Meets(P, Analysis(P, o))
<1> SUFFICES ASSUME NEW c \in DOMAIN Cfg(P), NEW b \in DOMAIN Cfg(P) \cap Cfg(P)[c].preds
             PROVE  Analysis(P, o)[c][0] \subseteq Analysis(P, o)[b][Len(Cfg(P)[b].code)]
  BY DEF Meets
<1>1. o \in [DOMAIN Cfg(P) -> FactSets(P)]
  BY DEF Solves
<1>2. b # Entry
  BY CfgIsSequence DEF FunctionBodies, Entry
<1>3. MeetCopies(o, Cfg(P)[c].preds) \subseteq o[b]
  BY <1>2, MeetIn
<1>4. Analysis(P, o)[c][0] = MeetCopies(o, Cfg(P)[c].preds)
  BY <1>1, AnalysisIs
<1>5. Analysis(P, o)[b][Len(Cfg(P)[b].code)] = o[b]
  BY <1>1, AnalysisIs DEF Solves
<1> QED
  BY <1>3, <1>4, <1>5

(* At a position the facts are those of its block; at the next one they are *)
(* among those that the transfer function leaves.                          *)
LEMMA FactsFlow ==
    ASSUME NEW P \in FunctionBodies, NEW o, Solves(P, o), NEW b \in DOMAIN Cfg(P),
           NEW pc \in 1 .. Len(P), NEW next \in Nat,
           Starts(P)[b] <= pc, pc <= BlockEnd(P, b), Continues(P, b, pc, next)
    PROVE  \E R \in FactSets(P) :
              /\ R \subseteq FactsAt(P, Analysis(P, o), pc)
              /\ FactsAt(P, Analysis(P, o), next) \subseteq Transfer(FunctionAliasedVars(P), R, P[pc])
<1> DEFINE reach == Analysis(P, o)
           n == pc - Starts(P)[b] + 1
           R == reach[b][n - 1]
           M == Len(Cfg(P)[b].code)
<1>1. P \in Seq(Instructions) /\ P # <<>>
  BY DEF FunctionBodies
<1>2. /\ b \in DOMAIN Starts(P) /\ BlockEnd(P, b) \in Nat /\ Starts(P)[b] \in Nat
      /\ M = BlockEnd(P, b) - Starts(P)[b] + 1
  BY <1>1, BlockCode, BlockBounds
<1>3. n \in 1 .. M /\ n - 1 \in 0 .. M /\ n - 1 = pc - Starts(P)[b] /\ Starts(P)[b] + n - 1 = pc
  BY <1>2
<1>4. o \in [DOMAIN Cfg(P) -> FactSets(P)] /\ Meets(P, reach)
  BY AnalysisMeets DEF Solves
<1> HIDE DEF M
<1>5. /\ \A k \in 0 .. M : reach[b][k] \in FactSets(P)
      /\ \A k \in 1 .. M : reach[b][k] =
            Transfer(FunctionAliasedVars(P), reach[b][k - 1], P[Starts(P)[b] + k - 1])
  BY <1>4, AnalysisIs DEF M
<1> HIDE DEF reach
<1>6. FactsAt(P, reach, next) \subseteq reach[b][pc - Starts(P)[b] + 1]
  BY <1>4, FactsCarryOver
<1>7. FactsAt(P, reach, next) \subseteq Transfer(FunctionAliasedVars(P), R, P[pc])
  BY <1>3, <1>5, <1>6
<1>8. R \in FactSets(P)
  BY <1>3, <1>5
<1>9. R \subseteq FactsAt(P, reach, pc)
  <2>1. R = reach[b][pc - Starts(P)[b]]
    BY <1>3
  <2> HIDE DEF R
  <2> QED
    BY <2>1 DEF FactsAt
<1> QED
  BY <1>7, <1>8, <1>9 DEF reach

FactsHold(P, o, s) ==
    \A f \in FactsAt(P, Analysis(P, o), s.pc) : FactHolds(f, s.mem)

(* A step of the source program keeps the facts true.                      *)
LEMMA FactsHoldAfterStep ==
    ASSUME NEW P \in FunctionBodies, NEW o, Solves(P, o), NEW s, MachineOK(P, s),
           s.pc \in DOMAIN P, ~Undefined(P, s), ~AtEvent(P, s), FactsHold(P, o, s)
    PROVE  FactsHold(P, o, Run1(P, s))
<1>1. PICK b \in DOMAIN Cfg(P) : Starts(P)[b] <= s.pc /\ s.pc <= BlockEnd(P, b)
  BY InABlock
<1>2. s.pc \in 1 .. Len(P) /\ Len(P) \in Nat
  BY InABlock
<1> DEFINE next == NextPc(P, s)
<1>3. next \in Nat
  <2>1. \A n \in DOMAIN P : n \in Nat
    BY InABlock
  <2> QED
    BY <1>2, <2>1, NextPcCases
<1>4. Continues(P, b, s.pc, next)
  BY <1>1, RunContinues
<1> HIDE DEF next
<1>5. PICK R \in FactSets(P) :
        /\ R \subseteq FactsAt(P, Analysis(P, o), s.pc)
        /\ FactsAt(P, Analysis(P, o), next) \subseteq Transfer(FunctionAliasedVars(P), R, P[s.pc])
  BY <1>1, <1>2, <1>3, <1>4, FactsFlow
<1>6. \A f \in R : FactHolds(f, s.mem)
  BY <1>5 DEF FactsHold
<1>7. \A f \in FactsAt(P, Analysis(P, o), next) : FactHolds(f, Written(s, P[s.pc]))
  BY <1>5, <1>6, TransferSound
<1>8. Run1(P, s).pc = next /\ Run1(P, s).mem = Written(s, P[s.pc])
  BY DEF Run1, next
<1> QED
  BY <1>7, <1>8 DEF FactsHold

(* The facts that survive a call hold after it, whatever the callee wrote. *)
LEMMA CallKeepsUnaliased ==
    ASSUME NEW P \in FunctionBodies, NEW s, MachineOK(P, s), s.pc \in DOMAIN P,
           NEW R \in FactSets(P), \A f \in R : FactHolds(f, s.mem),
           NEW eff \in SUBSET Reachable(P), NEW w \in Numbers, NEW r \in Numbers
    PROVE  LET t == Returned(P, s, eff, w, r) IN
           /\ t.pc = s.pc + 1
           /\ \A f \in KillVar(KillAliased(FunctionAliasedVars(P), R), P[s.pc].dst) : FactHolds(f, t.mem)
<1> DEFINE t == Returned(P, s, eff, w, r)
           d == P[s.pc].dst
           m == [x \in Vars |-> IF x \in eff THEN w ELSE s.mem[x]]
           next == s.pc + 1
           K == KillAliased(FunctionAliasedVars(P), R)
<1>6. R \in SUBSET FactsOf(P)
  BY DEF FactSets
<1>8. \A x \in Vars \ Reachable(P) : m[x] = s.mem[x]
  OBVIOUS
<1>8a. m = [x \in Vars |-> m[x]]
  OBVIOUS
<1> HIDE DEF next
<1>9. t.pc = next /\ t.mem = IF d = "" THEN m ELSE [m EXCEPT ![d] = r]
  <2>1. s = [pc |-> s.pc, mem |-> s.mem, jb |-> s.jb]
    BY DEF MachineOK
  <2> DEFINE m3 == IF d = "" THEN m ELSE [m EXCEPT ![d] = r]
  <2>2. t = [s EXCEPT !.pc = next, !.mem = m3]
    BY DEF Returned, next
  <2> HIDE DEF t, m3
  <2>3. t = [pc |-> next, mem |-> m3, jb |-> s.jb]
    BY <2>1, <2>2, MachineUpdate
  <2> QED
    BY <2>3 DEF m3
<1> HIDE DEF t, m, d, K
<1>10. \A f \in K : FactHolds(f, m) /\ f \in Facts
  <2> TAKE f \in K
  <2>1. f \in R /\ f \in Facts
    BY <1>6, UnaliasedFacts DEF K
  <2> QED
    BY <1>6, <1>8, <2>1, UnaliasedFactsHold DEF K
<1>11. \A f \in KillVar(K, d) : f \in K
  BY DEF KillVar
<1>12. K \in SUBSET Facts
  BY <1>10
<1>13. \A f \in KillVar(K, d) : FactHolds(f, t.mem)
  BY <1>8a, <1>9, <1>10, <1>11, <1>12, KilledFactsHold
<1> QED
  BY <1>9, <1>13 DEF t, d, K, next

(* So does the answer to a call, whatever the callee wrote.                *)
LEMMA FactsHoldAfterCall ==
    ASSUME NEW P \in FunctionBodies, NEW o, Solves(P, o), NEW s, MachineOK(P, s),
           s.pc \in DOMAIN P, P[s.pc].k \in {"call", "icall"}, FactsHold(P, o, s),
           NEW eff \in SUBSET Reachable(P), NEW w \in Numbers, NEW r \in Numbers
    PROVE  FactsHold(P, o, Returned(P, s, eff, w, r))
<1> DEFINE t == Returned(P, s, eff, w, r)
           next == s.pc + 1
<1>1. PICK b \in DOMAIN Cfg(P) : Starts(P)[b] <= s.pc /\ s.pc <= BlockEnd(P, b)
  BY InABlock
<1>2. s.pc \in 1 .. Len(P) /\ Len(P) \in Nat
  BY InABlock
<1>3. next \in Nat
  BY <1>2
<1>4. Continues(P, b, s.pc, next)
  <2>1. ~EndsBasicBlock(P[s.pc])
    BY DEF EndsBasicBlock
  <2>2. s.pc + 1 <= BlockEnd(P, b) \/ (s.pc = BlockEnd(P, b) /\ Enters(P, b, s.pc + 1))
    BY <1>1, <1>2, <2>1, FallsThrough
  <2> QED
    BY <2>2 DEF Continues
<1> HIDE DEF next
<1>5. PICK R \in FactSets(P) :
        /\ R \subseteq FactsAt(P, Analysis(P, o), s.pc)
        /\ FactsAt(P, Analysis(P, o), next) \subseteq Transfer(FunctionAliasedVars(P), R, P[s.pc])
  BY <1>1, <1>2, <1>3, <1>4, FactsFlow
<1>6. \A f \in R : FactHolds(f, s.mem)
  BY <1>5 DEF FactsHold
<1>7. Transfer(FunctionAliasedVars(P), R, P[s.pc]) =
         KillVar(KillAliased(FunctionAliasedVars(P), R), P[s.pc].dst)
  BY DEF Transfer
<1>8. t.pc = s.pc + 1 /\ \A f \in Transfer(FunctionAliasedVars(P), R, P[s.pc]) : FactHolds(f, t.mem)
  BY <1>6, <1>7, CallKeepsUnaliased
<1> HIDE DEF t
<1> QED
  BY <1>5, <1>8 DEF FactsHold, t, next

(* No fact is claimed where a longjmp may resume.                          *)
LEMMA FactsHoldAfterJump ==
    ASSUME NEW P \in FunctionBodies, NEW o, Solves(P, o), NEW s, NEW q \in DOMAIN P,
           P[q].k = "setjmp", s.pc = q + 1
    PROVE  FactsHold(P, o, s)
<1>1. PICK b \in DOMAIN Cfg(P) : Starts(P)[b] <= q /\ q <= BlockEnd(P, b)
  BY InABlock
<1>2. q \in 1 .. Len(P) /\ q + 1 \in Nat
  BY InABlock
<1>3. Continues(P, b, q, q + 1)
  <2>1. ~EndsBasicBlock(P[q])
    BY DEF EndsBasicBlock
  <2>2. q + 1 <= BlockEnd(P, b) \/ (q = BlockEnd(P, b) /\ Enters(P, b, q + 1))
    BY <1>1, <1>2, <2>1, FallsThrough
  <2> QED
    BY <2>2 DEF Continues
<1>4. PICK R \in FactSets(P) :
        FactsAt(P, Analysis(P, o), q + 1) \subseteq Transfer(FunctionAliasedVars(P), R, P[q])
  BY <1>1, <1>2, <1>3, FactsFlow
<1>5. Transfer(FunctionAliasedVars(P), R, P[q]) = {}
  BY DEF Transfer
<1> QED
  BY <1>4, <1>5 DEF FactsHold

(* None is claimed at the first instruction.                               *)
LEMMA FactsHoldAtStart ==
    ASSUME NEW P \in FunctionBodies, NEW o, Solves(P, o), NEW s, s.pc = 1
    PROVE  FactsHold(P, o, s)
<1>1. P \in Seq(Instructions) /\ P # <<>> /\ Len(P) \in Nat
  BY DEF FunctionBodies
<1>2. Starts(P)[1] = 1 /\ 1 \in DOMAIN Starts(P) /\ 1 \in DOMAIN Cfg(P)
  BY <1>1, FirstAndLastStart DEF Cfg, Partition
<1> SUFFICES ASSUME NEW b \in DOMAIN Cfg(P), Starts(P)[b] <= 1, 1 <= BlockEnd(P, b)
             PROVE  Analysis(P, o)[b][1 - Starts(P)[b]] = {}
  BY DEF FactsHold, FactsAt
<1>3. 1 <= BlockEnd(P, 1)
  BY <1>1, <1>2, BlockBounds
<1>4. b = 1
  BY <1>2, <1>3, PositionIsInOneBlock
<1>5. Entry \in Cfg(P)[1].preds
  BY <1>2 DEF Cfg, Predecessors
<1>6. Analysis(P, o)[1][0] = MeetCopies(o, Cfg(P)[1].preds)
  BY <1>2, AnalysisIs DEF Solves
<1>7. Analysis(P, o)[1][0] = {}
  BY <1>5, <1>6 DEF MeetCopies
<1>8. 1 - Starts(P)[b] = 0
  BY <1>2, <1>4
<1> QED
  BY <1>4, <1>7, <1>8

----------------------------------------------------------------------------
(* The equation of a block reads the facts of its predecessors only.       *)
LEMMA EquationReadsPredecessors ==
    ASSUME NEW o, NEW o2, NEW c,
           \A p \in cfg[c].preds : o[p] = o2[p]
    PROVE  Equation(o, c) = Equation(o2, c)
BY DEF Equation, MeetCopies

(* A program of the set stays the program of the run, and the facts at the *)
(* end of each block are copies between its variables, one into each.      *)
ProgOK == prog \in FunctionBodies
FactsOK == blockOut \in [DOMAIN cfg -> FactSets(prog)]

(* Both hold at the start.                                                 *)
LEMMA TypeInit == Init => TypeOK
<1> SUFFICES ASSUME Init PROVE TypeOK
  OBVIOUS
<1>1. prog \in Seq(Instructions) /\ prog # <<>>
  BY ProgramsAssumption DEF Init, FunctionBodies
<1>2. /\ Cardinality(Leaders(prog)) \in Nat \ {0}
      /\ DOMAIN cfg = 1 .. Cardinality(Leaders(prog))
      /\ Len(cfg) = Cardinality(Leaders(prog))
  BY <1>1, CfgIsSequence DEF Init
<1>3. worklist \in Seq(DOMAIN cfg)
  BY <1>2 DEF Init
<1> QED
  BY <1>2, <1>3 DEF Init, EquivInit, TypeOK

(* The programs of the run are function bodies.                            *)
LEMMA ProgInvariant == Init => ProgOK
BY ProgramsAssumption DEF Init, ProgOK

(* No step changes the program.                                            *)
LEMMA ProgStep == ProgOK /\ [Next]_vars => ProgOK'
BY DEF ProgOK, Next, vars, Visit, Converge, RewriteNext, Run, RunNext, Start,
       SourceStep, SourceStops, TargetStep, TargetStops, Answer, Finish, Done

(* The blocks that Visit enqueues: the successors not yet queued.          *)
LEMMA VisitEnqueues ==
    ASSUME TypeOK, ProgOK, Visit
    PROVE  LET b == Head(worklist) IN
           /\ b \in DOMAIN cfg
           /\ worklist' \in Seq(DOMAIN cfg)
           /\ ToSet(worklist') \subseteq DOMAIN cfg
           /\ ToSet(worklist) \subseteq ToSet(worklist') \cup {b}
           /\ blockOut' = [blockOut EXCEPT ![b] = Equation(blockOut, b)]
           /\ \/ blockOut'[b] = blockOut[b]
              \/ cfg[b].succs \subseteq ToSet(worklist') \cup {Exit}
<1> DEFINE b == Head(worklist)
           t == Tail(worklist)
           newOut == Equation(blockOut, b)
<1>1. worklist \in Seq(DOMAIN cfg) /\ worklist # <<>>
  BY DEF TypeOK, Visit
<1>2. b \in DOMAIN cfg /\ t \in Seq(DOMAIN cfg)
  BY <1>1
<1>3. ToSet(worklist) \subseteq ToSet(t) \cup {b}
  BY <1>1, RangeOfTail
<1>4. ToSet(t) \subseteq DOMAIN cfg
  BY <1>2 DEF ToSet
<1>5. blockOut' = [blockOut EXCEPT ![b] = newOut]
  BY DEF Visit
<1>6. CASE Changed(b, newOut)
  <2>1. PICK order \in Orders(Unqueued(b)) : worklist' = t \o order
    BY <1>6 DEF Visit
  <2>2. Unqueued(b) \subseteq DOMAIN cfg
    BY <1>2, SuccessorsAreBlocks DEF Unqueued, TypeOK, ProgOK, FunctionBodies
  <2>3. IsFiniteSet(Unqueued(b))
    <3>1. Cardinality(Leaders(prog)) \in Int /\ DOMAIN cfg = 1 .. Cardinality(Leaders(prog))
      BY CfgIsSequence DEF TypeOK, ProgOK, FunctionBodies
    <3>2. 1 \in Int
      OBVIOUS
    <3>3. IsFiniteSet(DOMAIN cfg)
      BY <3>1, <3>2, FS_Interval
    <3> QED
      BY <2>2, <3>3, FS_Subset
  <2>4. order \in Seq(Unqueued(b)) /\ ToSet(order) = Unqueued(b)
    BY <2>1, <2>3, OrdersListTheSet
  <2>5. order \in Seq(DOMAIN cfg)
    BY <2>2, <2>4
  <2>6. worklist' \in Seq(DOMAIN cfg)
    BY <1>2, <2>1, <2>5
  <2>7. ToSet(worklist') = ToSet(t) \cup ToSet(order)
    BY <1>2, <2>1, <2>5, RangeOfConcatenation
  <2> QED
    BY <1>2, <1>3, <1>4, <1>5, <2>2, <2>4, <2>6, <2>7 DEF Unqueued
<1>7. CASE ~Changed(b, newOut)
  <2>1. worklist' = t
    BY <1>7 DEF Visit
  <2>2. blockOut'[b] = blockOut[b]
    BY <1>2, <1>5, <1>7 DEF Changed, TypeOK
  <2> QED
    BY <1>2, <1>3, <1>4, <1>5, <2>1, <2>2
<1> QED
  BY <1>6, <1>7

(* Visiting a block keeps one copy per variable at its end.                *)
LEMMA EquationKeepsFactSets ==
    ASSUME TypeOK, ProgOK, FactsOK, NEW b \in DOMAIN cfg
    PROVE  Equation(blockOut, b) \in FactSets(prog)
<1> DEFINE M == Len(cfg[b].code)
           after == Analysis(prog, blockOut)[b]
<1>1. prog \in FunctionBodies /\ cfg = Cfg(prog)
  BY DEF ProgOK, TypeOK
<1>2. M \in Nat /\ \A n \in 0 .. M : after[n] \in FactSets(prog)
  BY <1>1, AnalysisIs DEF FactsOK
<1>3. after[M] = Equation(blockOut, b)
  BY <1>1, AnalysisIs DEF FactsOK, Equation, Aliased
<1> HIDE DEF M
<1>4. M \in 0 .. M
  BY <1>2
<1> QED
  BY <1>2, <1>3, <1>4

(* Each step keeps the types, and one copy per variable.                   *)
LEMMA TypeStep ==
    TypeOK /\ ProgOK /\ FactsOK /\ [Next]_vars => TypeOK' /\ FactsOK'
<1> SUFFICES ASSUME TypeOK, ProgOK, FactsOK, [Next]_vars PROVE TypeOK' /\ FactsOK'
  OBVIOUS
<1> USE DEF TypeOK
<1>0. Len(cfg) \in Nat \ {0}
  BY CfgIsSequence DEF ProgOK, FunctionBodies
<1>1. CASE Visit
  <2> DEFINE b == Head(worklist)
  <2>1. /\ b \in DOMAIN cfg /\ worklist' \in Seq(DOMAIN cfg)
        /\ blockOut' = [blockOut EXCEPT ![b] = Equation(blockOut, b)]
    BY <1>1, VisitEnqueues
  <2>2. Equation(blockOut, b) \in FactSets(prog)
    BY <2>1, EquationKeepsFactSets
  <2>3. blockOut' \in [DOMAIN cfg -> FactSets(prog)]
    BY <2>1, <2>2 DEF FactsOK
  <2>4. FactSets(prog) \subseteq SUBSET Facts
    BY DEF FactSets, FactsOf
  <2>5. blockOut' \in [DOMAIN cfg -> SUBSET Facts]
    BY <2>3, <2>4
  <2> QED
    BY <1>1, <2>1, <2>3, <2>5 DEF Visit, FactsOK
<1>2. CASE Converge
  BY <1>2 DEF Converge, FactsOK
<1>3. CASE RewriteNext
  BY <1>0, <1>3 DEF RewriteNext, FactsOK
<1>4. CASE Run
  BY <1>4 DEF Run, RunNext, Start, SourceStep, SourceStops, TargetStep, TargetStops,
              Answer, Finish, FactsOK
<1>5. CASE UNCHANGED vars
  BY <1>5 DEF vars, FactsOK
<1> QED
  BY <1>1, <1>2, <1>3, <1>4, <1>5 DEF Next, Done

(* At the start no copy is reported.                                       *)
LEMMA FactsInit == Init => FactsOK
BY DEF Init, FactsOK, FactSets, OnePerVariable

(* Type correctness of the pass, for any set of functions; the facts are   *)
(* copies between variables that the function mentions, one into each.     *)
THEOREM TypeCorrect == Spec => [](TypeOK /\ ProgOK /\ FactsOK)
<1>1. Init => TypeOK /\ ProgOK /\ FactsOK
  BY TypeInit, ProgInvariant, FactsInit
<1>2. TypeOK /\ ProgOK /\ FactsOK /\ [Next]_vars => (TypeOK /\ ProgOK /\ FactsOK)'
  BY TypeStep, ProgStep
<1> QED
  BY <1>1, <1>2, PTL DEF Spec

(* At most one copy into each variable reaches a point, so the answer of   *)
(* select_reaching_copy does not depend on the iteration order of the      *)
(* hash set it searches: the output of the compiler is deterministic.      *)
OneCopyPerVariable ==
    \A b \in DOMAIN cfg : \A f, g \in blockOut[b] : f.dst = g.dst => f = g

(* Whatever function is compiled and however far the analysis is.          *)
THEOREM CopiesAreUnique == Spec => []OneCopyPerVariable
<1>1. FactsOK => OneCopyPerVariable
  BY DEF FactsOK, FactSets, OnePerVariable, OneCopyPerVariable
<1> QED
  BY <1>1, TypeCorrect, PTL
----------------------------------------------------------------------------
(* At the start every block is queued.                                     *)
LEMMA SettledInit == Init => SettledUnlessQueued
BY DEF Init, SettledUnlessQueued, ToSet

(* The heart of the worklist argument: a visit settles its block, and it   *)
(* can unsettle only the successors, which it enqueues.                    *)
LEMMA SettledVisit ==
    ASSUME TypeOK, ProgOK, SettledUnlessQueued, Visit
    PROVE  SettledUnlessQueued'
<1> DEFINE b == Head(worklist)
<1>1. /\ b \in DOMAIN cfg
      /\ ToSet(worklist) \subseteq ToSet(worklist') \cup {b}
      /\ blockOut' = [blockOut EXCEPT ![b] = Equation(blockOut, b)]
      /\ \/ blockOut'[b] = blockOut[b]
         \/ cfg[b].succs \subseteq ToSet(worklist') \cup {Exit}
  BY VisitEnqueues
<1>2. cfg' = cfg
  BY DEF Visit
<1>2b. prog' = prog
  BY DEF Visit
<1>3. Exit \notin DOMAIN cfg /\ Entry \notin DOMAIN cfg
  BY CfgIsSequence DEF TypeOK, ProgOK, FunctionBodies, Exit, Entry
<1> SUFFICES ASSUME NEW c \in DOMAIN cfg, c \notin ToSet(worklist')
             PROVE  blockOut'[c] = Equation(blockOut', c)
  BY <1>2, <1>2b DEF SettledUnlessQueued, Equation, Aliased
<1>4. Equation(blockOut', c) = Equation(blockOut, c)
  <2>1. CASE blockOut'[b] = blockOut[b]
    <3>1. blockOut' = blockOut
      BY <1>1, <2>1 DEF TypeOK
    <3> QED
      BY <3>1
  <2>2. CASE cfg[b].succs \subseteq ToSet(worklist') \cup {Exit}
    <3>1. c \notin cfg[b].succs
      BY <1>3, <2>2
    <3>2. b \notin cfg[c].preds
      BY <1>1, <1>3, <3>1, PredecessorsInvertSuccessors DEF TypeOK, ProgOK, FunctionBodies
    <3>3. \A p \in cfg[c].preds : blockOut'[p] = blockOut[p]
      BY <1>1, <3>2 DEF TypeOK
    <3> QED
      BY <3>3, EquationReadsPredecessors
  <2> QED
    BY <1>1, <2>1, <2>2
<1>5. CASE c = b
  BY <1>1, <1>4, <1>5 DEF TypeOK
<1>6. CASE c # b
  <2>1. c \notin ToSet(worklist)
    BY <1>1, <1>6
  <2>2. blockOut[c] = Equation(blockOut, c)
    BY <2>1 DEF SettledUnlessQueued
  <2>3. blockOut'[c] = blockOut[c]
    BY <1>1, <1>6 DEF TypeOK
  <2> QED
    BY <1>4, <2>2, <2>3
<1> QED
  BY <1>5, <1>6

(* No other step touches the facts or the worklist.                        *)
LEMMA SettledStep ==
    TypeOK /\ ProgOK /\ SettledUnlessQueued /\ [Next]_vars => SettledUnlessQueued'
<1> SUFFICES ASSUME TypeOK, ProgOK, SettledUnlessQueued, [Next]_vars
             PROVE  SettledUnlessQueued'
  OBVIOUS
<1>1. CASE Visit
  BY <1>1, SettledVisit
<1>2. CASE UNCHANGED <<prog, cfg, blockOut, worklist>>
  BY <1>2 DEF SettledUnlessQueued, Equation, Aliased
<1>3. Visit \/ UNCHANGED <<prog, cfg, blockOut, worklist>>
  BY DEF Next, vars, Converge, RewriteNext, Run, RunNext, Start, SourceStep, SourceStops,
         TargetStep, TargetStops, Answer, Finish, Done
<1> QED
  BY <1>1, <1>2, <1>3

(* A block outside the worklist satisfies its data-flow equation, for every *)
(* program and every order in which successors are enqueued.               *)
THEOREM Settled == Spec => []SettledUnlessQueued
<1>1. Init => SettledUnlessQueued
  BY SettledInit
<1>2. TypeOK /\ ProgOK /\ SettledUnlessQueued /\ [Next]_vars => SettledUnlessQueued'
  BY SettledStep
<1> QED
  BY <1>1, <1>2, TypeCorrect, PTL DEF Spec
----------------------------------------------------------------------------
(* The worklist is empty once the analysis has ended, and stays so.        *)
Drained == phase # "analyse" => worklist = <<>>

(* The worklist is not filled again.                                       *)
LEMMA DrainedStep == Drained /\ [Next]_vars => Drained'
BY DEF Drained, Next, vars, Visit, Converge, RewriteNext, Run, RunNext, Start,
       SourceStep, SourceStops, TargetStep, TargetStops, Answer, Finish, Done

(* What the rewrite reads is a solution of all the equations at once.      *)
RewriteReadsFixpoint ==
    phase # "analyse" => \A b \in DOMAIN cfg : blockOut[b] = Equation(blockOut, b)

(* The rewrite of copy_propagation, which recomputes the entry facts of    *)
(* every block, starts from one consistent solution of the whole graph.    *)
THEOREM FixpointAtRewrite == Spec => []RewriteReadsFixpoint
<1>1. Init => Drained
  BY DEF Init, EquivInit, Drained
<1>2. Drained /\ [Next]_vars => Drained'
  BY DrainedStep
<1>3. Drained /\ SettledUnlessQueued => RewriteReadsFixpoint
  BY DEF Drained, SettledUnlessQueued, RewriteReadsFixpoint, ToSet
<1> QED
  BY <1>1, <1>2, <1>3, Settled, PTL DEF Spec
----------------------------------------------------------------------------
(* The inductive invariant behind ReportedCopiesHold: while the program     *)
(* runs, its machine is one that prog can be in, and the facts of the       *)
(* position it is at hold in its memory: not only those at the start of a   *)
(* block, which are all that the analysis stores.                          *)
Running == phase \in {"source", "target", "event"}

SourceOK ==
    Running => /\ MachineOK(prog, src)
               /\ FactsHold(prog, blockOut, src)
               /\ phase # "source" => AtEvent(prog, src)

(* Once the analysis has ended, the facts are a solution for prog.         *)
LEMMA FixpointSolves ==
    ASSUME TypeOK, ProgOK, FactsOK, RewriteReadsFixpoint, phase # "analyse"
    PROVE  Solves(prog, blockOut)
BY DEF TypeOK, FactsOK, RewriteReadsFixpoint, Equation, Aliased, Solves

(* A function starts with a memory that holds no address of a local.       *)
LEMMA StartOK ==
    ASSUME ProgOK, NEW m \in Memories, NEW s, s = [pc |-> 1, mem |-> m, jb |-> NoJump]
    PROVE  MachineOK(prog, s)
<1>1. /\ m = [x \in Vars |-> m[x]]
      /\ \A x \in Vars : (m[x][1] = "a" => m[x][2] \in Statics) /\ m[x][1] # "l"
  BY MemoriesAssumption
<1>2. \A x \in Vars : ValueOK(prog, m[x])
  BY <1>1 DEF ValueOK, Reachable
<1>3. MemoryOK(prog, m)
  BY <1>1, <1>2 DEF MemoryOK
<1>4. 1 \in 1 .. Len(prog) + 1
  BY DEF ProgOK, FunctionBodies
<1> QED
  BY <1>3, <1>4 DEF MachineOK

(* Every step of the source program, every answer of its environment and    *)
(* every longjmp keeps the facts true.                                     *)
LEMMA SourceStaysOK ==
    ASSUME TypeOK, ProgOK, FactsOK, RewriteReadsFixpoint, SourceOK, [Next]_vars
    PROVE  SourceOK'
<1>1. CASE Visit \/ Converge \/ RewriteNext
  BY <1>1 DEF Visit, Converge, RewriteNext, SourceOK, Running
<1>2. CASE UNCHANGED vars
  BY <1>2 DEF vars, SourceOK, Running
<1>3. CASE Run
  <2>0. UNCHANGED <<prog, blockOut>>
    BY <1>3 DEF Run, RunNext, Start, SourceStep, SourceStops, TargetStep, TargetStops, Answer, Finish
  <2>1. phase # "analyse"
    BY <1>3 DEF Run, RunNext, Start, SourceStep, SourceStops, TargetStep, TargetStops, Answer, Finish
  <2>2. Solves(prog, blockOut) /\ prog \in FunctionBodies
    BY <2>1, FixpointSolves DEF ProgOK
  <2>3. SUFFICES ASSUME Running'
                 PROVE  /\ MachineOK(prog, src') /\ FactsHold(prog, blockOut, src')
                        /\ phase' # "source" => AtEvent(prog, src')
    BY <2>0 DEF SourceOK
  <2>4. CASE Start
    <3>1. PICK m \in Memories : src' = [pc |-> 1, mem |-> m, jb |-> NoJump]
      BY <2>4 DEF Start
    <3>2. MachineOK(prog, src')
      BY <3>1, StartOK
    <3>3. FactsHold(prog, blockOut, src')
      BY <2>2, <3>1, FactsHoldAtStart
    <3> QED
      BY <2>4, <3>2, <3>3 DEF Start
  <2>5. CASE SourceStep
    <3>1. MachineOK(prog, src) /\ FactsHold(prog, blockOut, src)
      BY <2>5 DEF SourceStep, SourceOK, Running
    <3>2. src.pc \in DOMAIN prog
      BY <2>2, <2>5, <3>1 DEF SourceStep, MachineOK, FunctionBodies, AtEvent
    <3>3. MachineOK(prog, src') /\ FactsHold(prog, blockOut, src')
      BY <2>2, <2>5, <3>1, <3>2, RunOK, FactsHoldAfterStep DEF SourceStep
    <3> QED
      BY <2>5, <3>3 DEF SourceStep
  <2>6. CASE SourceStops \/ TargetStep \/ TargetStops \/ Finish
    BY <2>3, <2>6 DEF SourceStops, TargetStep, TargetStops, Finish, SourceOK, Running
  <2>7. CASE Answer
    <3>1. MachineOK(prog, src) /\ FactsHold(prog, blockOut, src)
      BY <2>7 DEF Answer, SourceOK, Running
    <3>2. src.pc \in DOMAIN prog /\ prog[src.pc].k \in {"call", "icall"}
      BY <2>2, <2>7, <3>1 DEF Answer, AtCall, MachineOK, FunctionBodies
    <3>3. PICK eff \in Writes, w \in Numbers :
             \/ \E r \in Numbers : src' = Returned(prog, src, eff, w, r)
             \/ src.jb # NoJump /\ src' = JumpedBack(src, eff, w)
      BY <2>7 DEF Answer
    <3>4. eff \in SUBSET Reachable(prog)
      BY DEF Writes, Reach
    <3>5. CASE \E r \in Numbers : src' = Returned(prog, src, eff, w, r)
      <4>1. PICK r \in Numbers : src' = Returned(prog, src, eff, w, r)
        BY <3>5
      <4> QED
        BY <2>2, <2>7, <3>1, <3>2, <3>4, <4>1, ReturnedOK, FactsHoldAfterCall DEF Answer
    <3>6. CASE src.jb # NoJump /\ src' = JumpedBack(src, eff, w)
      <4>1. /\ MachineOK(prog, src')
            /\ \E q \in DOMAIN prog : prog[q].k = "setjmp" /\ src'.pc = q + 1
        BY <2>2, <3>1, <3>6, JumpedBackOK
      <4> QED
        BY <2>2, <2>7, <4>1, FactsHoldAfterJump DEF Answer
    <3> QED
      BY <3>3, <3>5, <3>6
  <2> QED
    BY <1>3, <2>4, <2>5, <2>6, <2>7 DEF Run, RunNext
<1> QED
  BY <1>1, <1>2, <1>3 DEF Next, Done

(* The facts at the start of a block are those of its first position.      *)
LEMMA FactsAtEntry ==
    ASSUME TypeOK, ProgOK, FactsOK, SourceOK, phase = "source"
    PROVE  ReportedCopiesHold
<1> SUFFICES ASSUME NEW b \in DOMAIN cfg, Starts(prog)[b] = src.pc,
                    NEW f \in MeetCopies(blockOut, cfg[b].preds)
             PROVE  Value(src.mem, f.src) = src.mem[f.dst]
  BY DEF ReportedCopiesHold
<1>1. prog \in FunctionBodies /\ prog \in Seq(Instructions) /\ prog # <<>> /\ cfg = Cfg(prog)
  BY DEF ProgOK, FunctionBodies, TypeOK
<1>2. b \in DOMAIN Starts(prog) /\ src.pc \in Nat /\ src.pc <= BlockEnd(prog, b)
  BY <1>1, BlockCode, BlockBounds
<1>3. f \in Analysis(prog, blockOut)[b][0]
  BY <1>1, AnalysisIs DEF FactsOK
<1>4. src.pc - Starts(prog)[b] = 0 /\ Starts(prog)[b] <= src.pc
  BY <1>2
<1>5. f \in FactsAt(prog, Analysis(prog, blockOut), src.pc)
  BY <1>1, <1>2, <1>3, <1>4 DEF FactsAt
<1>6. FactsHold(prog, blockOut, src)
  BY DEF SourceOK, Running
<1> QED
  BY <1>5, <1>6 DEF FactsHold, FactHolds

(* Every copy the analysis reports at the start of a block holds whenever   *)
(* the program gets there, for every program, every memory it may start    *)
(* with, and whatever its callees write or jump back from.                 *)
THEOREM CopiesReportedHold == Spec => []ReportedCopiesHold
<1>1. Init => SourceOK
  BY DEF Init, EquivInit, SourceOK, Running
<1>2. TypeOK /\ ProgOK /\ FactsOK /\ RewriteReadsFixpoint /\ SourceOK /\ [Next]_vars => SourceOK'
  BY SourceStaysOK
<1>3. TypeOK /\ ProgOK /\ FactsOK /\ SourceOK => ReportedCopiesHold
  <2>1. phase # "source" => ReportedCopiesHold
    BY DEF ReportedCopiesHold
  <2> QED
    BY <2>1, FactsAtEntry
<1> QED
  BY <1>1, <1>2, <1>3, TypeCorrect, FixpointAtRewrite, PTL DEF Spec
----------------------------------------------------------------------------
(* What replacing an operand leaves the same.                              *)
FactsIn(R, m) == \A f \in R : FactHolds(f, m)

(* q may be read for o: wherever the facts R hold it has the same value, and *)
(* it is of the same type.                                                 *)
Stands(P, R, o, q) ==
    /\ q \in Operands
    /\ ~IsVar(o) => q = o
    /\ IsVar(o) => Alike(q, o[2])
    /\ IsVar(o) /\ o[2] \in Mentioned(P) /\ IsVar(q) => q[2] \in Mentioned(P)
    /\ \A m : FactsIn(R, m) => Value(m, q) = Value(m, o)

(* An operand stands for itself.                                           *)
LEMMA StandsSelf ==
    ASSUME NEW P, NEW R, NEW o \in Operands
    PROVE  Stands(P, R, o, o)
<1>1. ASSUME IsVar(o) PROVE Alike(o, o[2])
  BY <1>1 DEF Alike, FitsType, IsVar
<1> QED
  BY <1>1 DEF Stands

(* The source of a copy that is known stands for its destination.          *)
LEMMA StandsFollow ==
    ASSUME NEW P, NEW R \in SUBSET FactsOf(P), NEW o, IsVar(o), NEW q, Stands(P, R, o, q),
           NEW f \in R, V(f.dst) = q
    PROVE  Stands(P, R, o, f.src)
<1>1. f \in FactsOf(P) /\ f \in Facts /\ f.src \in Operands /\ f.dst \in Vars
  BY DEF FactsOf, Facts
<1>2. IsVar(q) /\ q[2] = f.dst
  BY DEF IsVar, V
<1>3. Alike(f.src, f.dst) /\ (IsVar(f.src) => f.src[2] \in Mentioned(P)) /\ f.dst \in Mentioned(P)
  BY <1>1 DEF FactsOf
<1>4. TypeOf[f.dst] = TypeOf[o[2]]
  BY <1>2 DEF Stands, Alike
<1>5. Alike(f.src, o[2])
  BY <1>3, <1>4 DEF Alike, FitsType
<1>6. ASSUME NEW m, FactsIn(R, m) PROVE Value(m, f.src) = Value(m, o)
  <2>1. Value(m, f.src) = m[f.dst]
    BY <1>6 DEF FactsIn, FactHolds
  <2>2. Value(m, q) = m[f.dst]
    BY <1>2 DEF Value
  <2>3. Value(m, q) = Value(m, o)
    BY <1>6 DEF Stands
  <2> QED
    BY <2>1, <2>2, <2>3
<1> QED
  BY <1>1, <1>3, <1>5, <1>6 DEF Stands

(* The copy that is followed is one of those that could be.                *)
LEMMA CopyIsSelected ==
    ASSUME NEW F, F # {}
    PROVE  SelectReachingCopy(F) \in F
<1>1. \E f \in F : IsVar(f.src) \/ \A g \in F : ~IsVar(g.src)
  OBVIOUS
<1> QED
  BY <1>1, Zenon DEF SelectReachingCopy

(* What the chain of copies from x ends in stands for x, and is x itself or *)
(* a usable source.                                                        *)
LEMMA ResolveIs ==
    ASSUME NEW P, NEW R \in SUBSET FactsOf(P), NEW x \in Vars, NEW usable
    PROVE  /\ Stands(P, R, V(x), Resolve(R, x, usable))
           /\ Resolve(R, x, usable) \in usable \cup {V(x)}
<1> DEFINE C == Cardinality(Vars)
           step == [n \in 1 .. C |-> [t \in Trails |-> Follow(R, usable, t)]]
           start == [at |-> V(x), seen |-> {}]
           S == {t \in Trails : Stands(P, R, V(x), t.at) /\ t.at \in usable \cup {V(x)}}
<1>1. C \in Nat
  BY VarsAssumption, FS_CardinalityType
<1>2. Len(step) = C
  BY <1>1
<1>3. IsVar(V(x)) /\ V(x) \in Operands
  BY DEF IsVar, V, Operands
<1>4. start \in S
  <2>1. start \in Trails /\ start.at = V(x)
    BY <1>3 DEF Trails
  <2>2. Stands(P, R, V(x), V(x))
    BY <1>3, StandsSelf
  <2> QED
    BY <2>1, <2>2
<1>5. ASSUME NEW t \in S PROVE Follow(R, usable, t) \in S
  <2> DEFINE F == {f \in R : V(f.dst) = t.at /\ f.src \in usable}
             g == SelectReachingCopy(F)
             u == [at |-> g.src, seen |-> t.seen \cup {t.at[2]}]
  <2>1. t \in Trails /\ Stands(P, R, V(x), t.at) /\ t.at \in usable \cup {V(x)}
    OBVIOUS
  <2>2. CASE F = {} \/ t.at[2] \in t.seen
    BY <2>2 DEF Follow
  <2>3. CASE ~(F = {} \/ t.at[2] \in t.seen)
    <3>1. g \in F
      BY <2>3, CopyIsSelected
    <3> HIDE DEF g
    <3>2. g \in R /\ V(g.dst) = t.at /\ g.src \in usable
      BY <3>1
    <3>3. Stands(P, R, V(x), g.src)
      BY <1>3, <2>1, <3>2, StandsFollow
    <3>4. g.dst \in Vars /\ g.src \in Operands /\ t.at[2] = g.dst
      <4>1. g \in Facts
        BY <3>2 DEF FactsOf
      <4> QED
        BY <3>2, <4>1 DEF Facts, V
    <3>5. u \in Trails
      BY <2>1, <3>4 DEF Trails
    <3>6. u \in S
      BY <3>2, <3>3, <3>5
    <3>7. Follow(R, usable, t) = u
      BY <2>3 DEF Follow, g
    <3> QED
      BY <3>6, <3>7
  <2> QED
    BY <2>2, <2>3
<1>6. \A n \in 1 .. C : \A t \in S : step[n][t] = Follow(R, usable, t)
  OBVIOUS
<1>7. Resolve(R, x, usable) = Along(step, start)[C].at
  BY DEF Resolve
<1> HIDE DEF C, step, start, S
<1>8. \A n \in 0 .. C : Along(step, start)[n] \in S
  BY <1>1, <1>2, <1>4, <1>5, <1>6, AlongStaysIn
<1>9. Along(step, start)[C] \in S
  BY <1>1, <1>8
<1> QED
  BY <1>7, <1>9 DEF S

(* The four ways in which an operand is replaced: by whatever its chain ends *)
(* in, by what has its very type, by a variable, or not at all.            *)
LEMMA OperandReplaced ==
    ASSUME NEW P, NEW R \in SUBSET FactsOf(P), NEW o \in Operands
    PROVE  /\ Stands(P, R, o, ReplaceOperand(R, o))
           /\ Stands(P, R, o, ReplaceTyped(R, o)) /\ OperandType(ReplaceTyped(R, o)) = OperandType(o)
           /\ IsVar(o) => Stands(P, R, o, ReplaceNamed(R, o)) /\ IsVar(ReplaceNamed(R, o))
<1>1. CASE ~IsVar(o)
  <2>1. ReplaceOperand(R, o) = o /\ ReplaceTyped(R, o) = o
    BY <1>1 DEF ReplaceOperand, ReplaceTyped
  <2> QED
    BY <1>1, <2>1, StandsSelf
<1>2. CASE IsVar(o)
  <2>1. o[2] \in Vars /\ o = V(o[2])
    BY <1>2, OperandForms
  <2>2. /\ ReplaceOperand(R, o) = Resolve(R, o[2], Operands)
        /\ ReplaceTyped(R, o) = Resolve(R, o[2], SameType(o))
        /\ ReplaceNamed(R, o) = Resolve(R, o[2], Named)
    BY <1>2 DEF ReplaceOperand, ReplaceTyped, ReplaceNamed
  <2>3. \A usable : /\ Stands(P, R, o, Resolve(R, o[2], usable))
                    /\ Resolve(R, o[2], usable) \in usable \cup {o}
    BY <2>1, ResolveIs
  <2>4. IsVar(ReplaceNamed(R, o))
    <3>1. ReplaceNamed(R, o) \in Named \cup {o}
      BY <2>2, <2>3
    <3> QED
      BY <1>2, <3>1 DEF Named, IsVar, V
  <2> DEFINE q == ReplaceTyped(R, o)
  <2>5. Stands(P, R, o, q) /\ q \in SameType(o) \cup {o}
    BY <2>2, <2>3
  <2> HIDE DEF q
  <2>6. OperandType(q) = OperandType(o)
    <3>1. CASE IsVar(q)
      <4>1. TypeOf[q[2]] = TypeOf[o[2]]
        BY <1>2, <2>5, <3>1 DEF Stands, Alike
      <4> QED
        BY <1>2, <3>1, <4>1 DEF OperandType
    <3>2. CASE ~IsVar(q)
      <4>1. q[1] = "w" /\ TypeOf[o[2]] = "wide"
        BY <1>2, <2>5, <3>2 DEF SameType
      <4> QED
        BY <1>2, <3>2, <4>1 DEF OperandType
    <3> QED
      BY <3>1, <3>2
  <2> QED
    BY <2>2, <2>3, <2>4, <2>5, <2>6 DEF q
<1> QED
  BY <1>1, <1>2

(* j is i with operands that stand for those of i: those that name a         *)
(* variable still do, the operand whose type selects the result keeps it,  *)
(* and the variable whose address is taken stays.                          *)
StandsFor(P, R, i, j) ==
    /\ j.k = i.k /\ j.dst = i.dst /\ j.at = i.at
    /\ DOMAIN j.src = DOMAIN i.src /\ Len(j.src) = Len(i.src)
    /\ \A n \in DOMAIN i.src : Stands(P, R, i.src[n], j.src[n])
    /\ i.k = "typed" => OperandType(j.src[1]) = OperandType(i.src[1])
    /\ i.k = "addr" => j.src = i.src
    /\ i.k = "cps" => IsVar(j.src[1])

(* The rewritten instruction does.                                         *)
LEMMA SourcesReplaced ==
    ASSUME NEW P, NEW R \in SUBSET FactsOf(P), NEW i \in Instructions
    PROVE  /\ StandsFor(P, R, i, ReplaceSources(R, i))
           /\ ReplaceSources(R, i) \in [k : Kinds, src : Seq(Operands), dst : Vars \cup {""}, at : STRING]
<1> DEFINE j == ReplaceSources(R, i)
           S == [n \in DOMAIN i.src |-> j.src[n]]
<1>0. /\ i \in [k : Kinds, src : Seq(Operands), dst : Vars \cup {""}, at : STRING]
      /\ DOMAIN i.src = 1 .. Len(i.src) /\ Len(i.src) \in Nat
      /\ \A n \in DOMAIN i.src : i.src[n] \in Operands
  BY InstructionFields DEF Instructions
<1>1. /\ i.k \in {"typed", "cps", "get", "icall"} => 1 \in DOMAIN i.src
      /\ i.k \in {"get", "cps", "icall"} => IsVar(i.src[1])
      /\ i.k \in {"get", "cps"} => DOMAIN i.src = {1}
  <2>2. i.k \in {"get", "cps"} => DOMAIN i.src = {1}
    <3> DEFINE L == Len(i.src)
    <3>1. HasFields(i)
      BY InstructionFields
    <3>2. i.k \in {"get", "cps"} => L = 1
      BY <3>1 DEF HasFields
    <3>3. DOMAIN i.src = 1 .. L
      BY <1>0
    <3> HIDE DEF L
    <3> QED
      BY <3>2, <3>3
  <2>3. /\ i.k \in {"typed", "cps", "get", "icall"} => 1 \in DOMAIN i.src
        /\ i.k \in {"get", "cps", "icall"} => IsVar(i.src[1])
    BY FirstOperand
  <2> QED
    BY <2>2, <2>3
<1> DEFINE Q(n) ==
          CASE i.k \in {"copy", "ret", "op", "jz", "jind", "load"} -> ReplaceOperand(R, i.src[n])
            [] i.k \in {"typed", "call", "put", "longjmp"} -> ReplaceTyped(R, i.src[n])
            [] i.k = "store"  -> IF n = 1 THEN ReplaceTyped(R, i.src[n])
                                 ELSE ReplaceOperand(R, i.src[n])
            [] i.k = "atomic" -> IF n = 1 THEN ReplaceOperand(R, i.src[n])
                                 ELSE ReplaceTyped(R, i.src[n])
            [] i.k = "icall"  -> IF n = 1 THEN ReplaceNamed(R, i.src[n])
                                 ELSE ReplaceTyped(R, i.src[n])
            [] i.k \in {"get", "cps"} -> ReplaceNamed(R, i.src[n])
            [] OTHER -> i.src[n]
<1>2. j = [i EXCEPT !.src = [n \in DOMAIN i.src |-> Q(n)]]
  BY DEF ReplaceSources
<1>3. ASSUME NEW n \in DOMAIN i.src
      PROVE  /\ Stands(P, R, i.src[n], Q(n))
             /\ i.k = "typed" => OperandType(Q(n)) = OperandType(i.src[n])
             /\ i.k = "addr" => Q(n) = i.src[n]
             /\ i.k = "cps" => IsVar(Q(n))
  <2> DEFINE o == i.src[n]
  <2>1. o \in Operands
    BY <1>0
  <2>2. i.k \in {"get", "cps"} \/ (i.k = "icall" /\ n = 1) => IsVar(o)
    BY <1>1
  <2> HIDE DEF o
  <2>3. /\ Stands(P, R, o, ReplaceOperand(R, o)) /\ Stands(P, R, o, ReplaceTyped(R, o))
        /\ OperandType(ReplaceTyped(R, o)) = OperandType(o)
        /\ IsVar(o) => Stands(P, R, o, ReplaceNamed(R, o)) /\ IsVar(ReplaceNamed(R, o))
        /\ Stands(P, R, o, o)
    BY <2>1, OperandReplaced, StandsSelf
  <2>4. CASE i.k \in {"copy", "ret", "op", "jz", "jind", "load"}
    BY <2>3, <2>4 DEF o
  <2>5. CASE i.k \in {"typed", "call", "put", "longjmp"}
    BY <2>3, <2>5 DEF o
  <2>6. CASE i.k \in {"store", "atomic"}
    BY <2>3, <2>6 DEF o
  <2>7. CASE i.k = "icall"
    BY <2>2, <2>3, <2>7 DEF o
  <2>8. CASE i.k \in {"get", "cps"}
    BY <2>2, <2>3, <2>8 DEF o
  <2>9. CASE i.k \notin {"copy", "ret", "op", "jz", "jind", "load", "typed", "call", "put", "longjmp",
                         "store", "atomic", "icall", "get", "cps"}
    BY <2>3, <2>9 DEF o
  <2> QED
    BY <2>4, <2>5, <2>6, <2>7, <2>8, <2>9
<1> DEFINE T == [n \in DOMAIN i.src |-> Q(n)]
<1>4. /\ DOMAIN T = DOMAIN i.src
      /\ \A n \in DOMAIN i.src : /\ Stands(P, R, i.src[n], T[n])
                                 /\ i.k = "typed" => OperandType(T[n]) = OperandType(i.src[n])
                                 /\ i.k = "addr" => T[n] = i.src[n]
                                 /\ i.k = "cps" => IsVar(T[n])
  BY <1>3
<1>4a. T = [n \in 1 .. Len(i.src) |-> T[n]]
  BY <1>0
<1>5. j = [i EXCEPT !.src = T]
  BY <1>2
<1> HIDE DEF Q, T, j
<1>6. \A n \in DOMAIN i.src : T[n] \in Operands
  BY <1>4 DEF Stands
<1>7. T \in Seq(Operands) /\ Len(T) = Len(i.src)
  <2> DEFINE L == Len(i.src)
  <2>1. L \in Nat /\ T = [n \in 1 .. L |-> T[n]] /\ \A n \in 1 .. L : T[n] \in Operands
    BY <1>0, <1>4a, <1>6
  <2> HIDE DEF L
  <2>2. T \in [1 .. L -> Operands]
    BY <2>1
  <2>3. T \in Seq(Operands) /\ Len(T) = L
    BY <2>1, <2>2
  <2> QED
    BY <2>3 DEF L
<1>8. j = [k |-> i.k, src |-> T, dst |-> i.dst, at |-> i.at]
  BY <1>0, <1>5
<1>9. j \in [k : Kinds, src : Seq(Operands), dst : Vars \cup {""}, at : STRING]
  BY <1>0, <1>7, <1>8
<1>10. j.k = i.k /\ j.dst = i.dst /\ j.at = i.at /\ j.src = T
  BY <1>8
<1>11. i.k = "addr" => T = i.src
  <2> DEFINE L == Len(i.src)
             s == i.src
  <2>0. s \in Seq(Operands) /\ L = Len(s)
    BY <1>0
  <2> SUFFICES ASSUME i.k = "addr" PROVE T = s
    OBVIOUS
  <2>1. \A n \in 1 .. L : T[n] = s[n]
    BY <1>0, <1>4
  <2>2. T = [n \in 1 .. L |-> T[n]]
    BY <1>4a
  <2> HIDE DEF L, s
  <2>3. s = [n \in 1 .. L |-> s[n]]
    BY <2>0
  <2> QED
    BY <2>1, <2>2, <2>3
<1>12. StandsFor(P, R, i, j)
  BY <1>1, <1>4, <1>7, <1>10, <1>11 DEF StandsFor
<1> QED
  BY <1>9, <1>12 DEF j

(* Operands that stand for others have their values.                       *)
LEMMA SameValues ==
    ASSUME NEW P, NEW R, NEW i, NEW j, StandsFor(P, R, i, j),
           NEW s, NEW t, t.mem = s.mem, FactsIn(R, s.mem)
    PROVE  ReadsAlike(i, s, j, t)
<1>1. DOMAIN j.src = DOMAIN i.src
  BY DEF StandsFor
<1>2. \A n \in DOMAIN i.src : Value(t.mem, j.src[n]) = Value(s.mem, i.src[n])
  BY DEF StandsFor, Stands
<1>3. Values(t.mem, j) = Values(s.mem, i)
  BY <1>1, <1>2 DEF Values
<1> QED
  BY <1>1, <1>3 DEF StandsFor, ReadsAlike
----------------------------------------------------------------------------
(* What the rewrite of a block knows.                                      *)
(* The facts after an instruction, which is left out or rewritten.         *)
FactsAfter(aliased, R, i) ==
    IF IsRedundant(R, i) THEN R ELSE Transfer(aliased, R, ReplaceSources(R, i))

DraftsOf(P, o, b) ==
    Rewritten(FunctionAliasedVars(P), MeetCopies(o, Cfg(P)[b].preds), Cfg(P)[b].code)

Rewriting(P, o) ==
    [b \in DOMAIN Cfg(P) |-> [n \in 0 .. Len(Cfg(P)[b].code) |-> DraftsOf(P, o, b)[n].facts]]

Known(P, o, p) == FactsAt(P, Rewriting(P, o), p)

(* A rewritten instruction copies between variables that P mentions.       *)
LEMMA ReplacedAdmissible ==
    ASSUME NEW P \in FunctionBodies, NEW n \in DOMAIN P, NEW R \in FactSets(P)
    PROVE  Admissible(P, ReplaceSources(R, P[n]))
<1> DEFINE i == P[n]
           j == ReplaceSources(R, i)
           o == i.src[1]
           q == j.src[1]
<1>1. i \in Instructions
  BY MentionedVars
<1>2. R \in SUBSET FactsOf(P)
  BY DEF FactSets
<1>3. StandsFor(P, R, i, j)
  BY <1>1, <1>2, SourcesReplaced
<1> HIDE DEF j
<1> SUFFICES ASSUME j.k \in {"copy", "cps"}
             PROVE  /\ j.dst \in Vars /\ j.dst \in Mentioned(P)
                    /\ q \in Operands
                    /\ IsVar(q) => q[2] \in Mentioned(P)
                    /\ j.k = "cps" => IsVar(q) /\ TypeOf[q[2]] = TypeOf[j.dst]
  BY DEF Admissible, j
<1>4. j.k = i.k /\ j.dst = i.dst
  BY <1>3 DEF StandsFor
<1>5. /\ i.dst \in Vars /\ i.dst \in Mentioned(P) /\ o \in Operands
      /\ IsVar(o) => o[2] \in Mentioned(P)
      /\ i.k = "cps" => IsVar(o) /\ TypeOf[o[2]] = TypeOf[i.dst]
  BY <1>4, PAdmissible DEF Admissible
<1>6. 1 \in DOMAIN i.src
  BY <1>1, <1>4, FirstOperand
<1>7. Stands(P, R, o, q) /\ (i.k = "cps" => IsVar(q))
  BY <1>3, <1>6 DEF StandsFor
<1> HIDE DEF i, o, q
<1>8. q \in Operands /\ (IsVar(q) => q[2] \in Mentioned(P))
  BY <1>5, <1>7 DEF Stands
<1>9. i.k = "cps" => IsVar(q) /\ TypeOf[q[2]] = TypeOf[i.dst]
  BY <1>5, <1>7 DEF Stands, Alike
<1> QED
  BY <1>4, <1>5, <1>8, <1>9

(* What the rewrite leaves is again at most one copy into each variable.   *)
LEMMA FactsAfterKeepsFactSets ==
    ASSUME NEW P \in FunctionBodies, NEW n \in DOMAIN P, NEW R \in FactSets(P), NEW aliased
    PROVE  FactsAfter(aliased, R, P[n]) \in FactSets(P)
BY ReplacedAdmissible, TransferKeepsFactSets DEF FactsAfter

(* The recursion along a block has the solution one expects.               *)
LEMMA DraftsAre ==
    ASSUME NEW P \in FunctionBodies, NEW b \in DOMAIN Cfg(P), NEW o \in [DOMAIN Cfg(P) -> FactSets(P)]
    PROVE  LET d == DraftsOf(P, o, b)
               M == Len(Cfg(P)[b].code)
               A == FunctionAliasedVars(P)
           IN  /\ M \in Nat
               /\ d[0] = [facts |-> MeetCopies(o, Cfg(P)[b].preds), code |-> <<>>]
               /\ \A n \in 0 .. M : d[n] \in Drafts /\ d[n].facts \in FactSets(P)
               /\ \A n \in 1 .. M : /\ Starts(P)[b] + n - 1 \in DOMAIN P
                                    /\ d[n] = Rewrite(A, d[n - 1], P[Starts(P)[b] + n - 1])
                                    /\ d[n].facts = FactsAfter(A, d[n - 1].facts, P[Starts(P)[b] + n - 1])
<1> DEFINE code == Cfg(P)[b].code
           R == MeetCopies(o, Cfg(P)[b].preds)
           A == FunctionAliasedVars(P)
           d == DraftsOf(P, o, b)
           step == [n \in DOMAIN code |-> [e \in Drafts |-> Rewrite(A, e, code[n])]]
           start == [facts |-> R, code |-> <<>>]
           M == Len(code)
           S == {e \in Drafts : e.facts \in FactSets(P)}
<1>1. /\ DOMAIN code = 1 .. M /\ M \in Nat
      /\ \A n \in 1 .. M : /\ code[n] = P[Starts(P)[b] + n - 1]
                           /\ Starts(P)[b] + n - 1 \in DOMAIN P
                           /\ code[n] \in Instructions
  BY BlockInstructions
<1>2. d = Along(step, start)
  BY DEF DraftsOf, Rewritten
<1>3. R \in FactSets(P)
  <2>1. \A p \in Cfg(P)[b].preds \ {Entry} : o[p] \in FactSets(P)
    BY PredecessorsAreBlocks
  <2> QED
    BY <2>1, MeetKeepsFactSets
<1>4. FactSets(P) \subseteq SUBSET Facts
  BY DEF FactSets, FactsOf
<1> HIDE DEF code, R, A, d
<1>5. Len(step) = M /\ \A n \in 1 .. M : \A e \in S : step[n][e] = Rewrite(A, e, code[n])
  BY <1>1
<1> HIDE DEF step
<1>6. start \in S
  BY <1>3, <1>4 DEF Drafts
<1>7. ASSUME NEW n \in 1 .. M, NEW e \in S
      PROVE  /\ Rewrite(A, e, code[n]) \in S
             /\ Rewrite(A, e, code[n]).facts = FactsAfter(A, e.facts, code[n])
  <2> DEFINE F == e.facts
             i == code[n]
             j == ReplaceSources(F, i)
             T == Transfer(A, F, j)
             c == Append(e.code, j)
  <2>1. F \in FactSets(P) /\ e \in Drafts
    OBVIOUS
  <2>2. F \in SUBSET FactsOf(P) /\ i \in Instructions
    BY <1>1, <2>1 DEF FactSets
  <2>3. j \in [k : Kinds, src : Seq(Operands), dst : Vars \cup {""}, at : STRING]
    BY <2>2, SourcesReplaced
  <2>4. FactsAfter(A, F, i) \in FactSets(P)
    BY <1>1, <2>1, FactsAfterKeepsFactSets
  <2>5. CASE IsRedundant(F, i)
    BY <2>1, <2>5 DEF Rewrite, FactsAfter
  <2>6. CASE ~IsRedundant(F, i)
    <3>1. Rewrite(A, e, i) = [facts |-> T, code |-> c]
      BY <2>6 DEF Rewrite
    <3>2. T = FactsAfter(A, F, i) /\ T \in SUBSET Facts
      BY <1>4, <2>4, <2>6 DEF FactsAfter
    <3>3. e.code \in Seq([k : Kinds, src : Seq(Operands), dst : Vars \cup {""}, at : STRING])
      BY <2>1 DEF Drafts
    <3>4. c \in Seq([k : Kinds, src : Seq(Operands), dst : Vars \cup {""}, at : STRING])
      <4> DEFINE Y == [k : Kinds, src : Seq(Operands), dst : Vars \cup {""}, at : STRING]
                 w == e.code
      <4>1. j \in Y /\ w \in Seq(Y)
        BY <2>3, <3>3
      <4> HIDE DEF Y, w, j
      <4>2. Append(w, j) \in Seq(Y)
        BY <4>1
      <4> QED
        BY <4>2 DEF Y, w
    <3> HIDE DEF j
    <3> HIDE DEF c, T, i, F
    <3>5. [facts |-> T, code |-> c] \in Drafts
      BY <3>2, <3>4 DEF Drafts
    <3> QED
      BY <2>4, <3>1, <3>2, <3>5 DEF i, F
  <2> QED
    BY <2>5, <2>6
<1> HIDE DEF S
<1>7a. \A n \in 1 .. M : \A e \in S : step[n][e] \in S
  BY <1>5, <1>7
<1>8. \A n \in 0 .. M : d[n] \in S
  BY <1>1, <1>2, <1>5, <1>6, <1>7a, AlongStaysIn
<1>9. d[0] = start /\ \A n \in 1 .. M : d[n] = step[n][d[n - 1]]
  BY <1>1, <1>2, <1>5, AlongIsDefined
<1>10. \A n \in 1 .. M : /\ d[n] = Rewrite(A, d[n - 1], code[n])
                         /\ d[n].facts = FactsAfter(A, d[n - 1].facts, code[n])
  <2> TAKE n \in 1 .. M
  <2>1. n - 1 \in 0 .. M
    BY <1>1
  <2>2. d[n - 1] \in S
    BY <1>8, <2>1
  <2>3. d[n] = Rewrite(A, d[n - 1], code[n])
    BY <1>5, <1>9, <2>2
  <2> QED
    BY <1>7, <2>2, <2>3
<1>11. \A n \in 0 .. M : d[n] \in Drafts /\ d[n].facts \in FactSets(P)
  BY <1>8 DEF S
<1> HIDE DEF M
<1> QED
  BY <1>1, <1>9, <1>10, <1>11 DEF code, R, A, d, M

(* The facts known at a position of block b, and at the next one.          *)
LEMMA KnownIs ==
    ASSUME NEW P \in FunctionBodies, NEW b \in DOMAIN Cfg(P), NEW o \in [DOMAIN Cfg(P) -> FactSets(P)],
           NEW pc \in DOMAIN P, Starts(P)[b] <= pc, pc <= BlockEnd(P, b)
    PROVE  LET n == pc - Starts(P)[b] + 1 IN
           /\ n \in 1 .. Len(Cfg(P)[b].code) /\ Starts(P)[b] + n - 1 = pc /\ n - 1 = pc - Starts(P)[b]
           /\ Known(P, o, pc) = DraftsOf(P, o, b)[n - 1].facts
           /\ Known(P, o, pc) \in FactSets(P)
           /\ Rewriting(P, o)[b][n] = FactsAfter(FunctionAliasedVars(P), Known(P, o, pc), P[pc])
<1> DEFINE s == Starts(P)[b]
           M == Len(Cfg(P)[b].code)
           n == pc - s + 1
           d == DraftsOf(P, o, b)
           A == FunctionAliasedVars(P)
<1>1. s \in Nat /\ M \in Nat /\ M = BlockEnd(P, b) - s + 1 /\ BlockEnd(P, b) \in Nat
  <2>1. P \in Seq(Instructions) /\ P # <<>>
    BY DEF FunctionBodies
  <2> QED
    BY <2>1, BlockCode, BlockBounds
<1>2. pc \in Nat
  BY DEF FunctionBodies
<1>3. n \in 1 .. M /\ n - 1 \in 0 .. M /\ s + n - 1 = pc /\ n - 1 = pc - s
  BY <1>1, <1>2
<1>4. Rewriting(P, o)[b] = [k \in 0 .. M |-> d[k].facts]
  BY DEF Rewriting
<1>5. Known(P, o, pc) = Rewriting(P, o)[b][pc - s]
  BY <1>2, FactsAtIs DEF Known
<1>6. /\ \A k \in 0 .. M : d[k].facts \in FactSets(P)
      /\ \A k \in 1 .. M : d[k].facts = FactsAfter(A, d[k - 1].facts, P[s + k - 1])
  BY DraftsAre
<1> HIDE DEF s, M, d, n, A
<1>7. Known(P, o, pc) = d[n - 1].facts /\ Rewriting(P, o)[b][n] = d[n].facts
  BY <1>3, <1>4, <1>5
<1>8. d[n].facts = FactsAfter(A, d[n - 1].facts, P[pc])
  BY <1>3, <1>6
<1>9. d[n - 1].facts \in FactSets(P)
  BY <1>3, <1>6
<1> QED
  BY <1>3, <1>7, <1>8, <1>9 DEF s, M, d, n, A

(* A block is entered with the facts that the analysis has there.          *)
LEMMA KnownAtEntry ==
    ASSUME NEW P \in FunctionBodies, NEW c \in DOMAIN Cfg(P), NEW o \in [DOMAIN Cfg(P) -> FactSets(P)]
    PROVE  Rewriting(P, o)[c][0] = Analysis(P, o)[c][0]
<1>1. 0 \in 0 .. Len(Cfg(P)[c].code)
  BY BlockInstructions
<1>2. Rewriting(P, o)[c][0] = DraftsOf(P, o, c)[0].facts
  BY <1>1 DEF Rewriting
<1>3. DraftsOf(P, o, c)[0] = [facts |-> MeetCopies(o, Cfg(P)[c].preds), code |-> <<>>]
  BY DraftsAre
<1>4. Analysis(P, o)[c][0] = MeetCopies(o, Cfg(P)[c].preds)
  BY AnalysisIs
<1> QED
  BY <1>2, <1>3, <1>4

(* The next position knows what the rewrite leaves, or no more than the    *)
(* analysis says there.                                                    *)
LEMMA KnownFlows ==
    ASSUME NEW P \in FunctionBodies, NEW b \in DOMAIN Cfg(P), NEW o \in [DOMAIN Cfg(P) -> FactSets(P)],
           NEW pc \in DOMAIN P, NEW next \in Nat,
           Starts(P)[b] <= pc, pc <= BlockEnd(P, b), Continues(P, b, pc, next)
    PROVE  \/ Known(P, o, next) = FactsAfter(FunctionAliasedVars(P), Known(P, o, pc), P[pc])
           \/ Known(P, o, next) = {}
           \/ Known(P, o, next) = FactsAt(P, Analysis(P, o), next)
<1>1. pc \in 1 .. Len(P)
  BY DEF FunctionBodies
<1>2. Rewriting(P, o)[b][pc - Starts(P)[b] + 1] = FactsAfter(FunctionAliasedVars(P), Known(P, o, pc), P[pc])
  BY KnownIs
<1>3. \/ Known(P, o, next) = Rewriting(P, o)[b][pc - Starts(P)[b] + 1]
      \/ Known(P, o, next) = {}
      \/ \E c \in DOMAIN Cfg(P) : /\ Known(P, o, next) = Rewriting(P, o)[c][0]
                                  /\ FactsAt(P, Analysis(P, o), next) = Analysis(P, o)[c][0]
  BY <1>1, FactsAtNext DEF Known
<1> QED
  BY <1>2, <1>3, KnownAtEntry
----------------------------------------------------------------------------
(* What the rewrite knows holds whenever the function gets there.          *)
(* A copy that is left out would change nothing.                           *)
LEMMA RedundantLeaves ==
    ASSUME NEW P \in FunctionBodies, NEW s, MachineOK(P, s), s.pc \in DOMAIN P,
           NEW R \in FactSets(P), FactsIn(R, s.mem), IsRedundant(R, P[s.pc])
    PROVE  /\ P[s.pc].k \in {"copy", "cps"} /\ ~AtEvent(P, s) /\ ~Undefined(P, s)
           /\ Written(s, P[s.pc]) = s.mem
<1> DEFINE i == P[s.pc]
           j == ReplaceSources(R, i)
           o == i.src[1]
           q == j.src[1]
           d == i.dst
           m == s.mem
<1>1. i.k \in {"copy", "cps"}
  BY DEF IsRedundant
<1>2. i \in Instructions /\ R \in SUBSET FactsOf(P) /\ s.pc <= Len(P)
  BY DEF FunctionBodies, FactSets
<1>3. ~AtEvent(P, s)
  <2>1. s.pc \in Nat /\ Len(P) \in Nat
    BY DEF FunctionBodies
  <2> QED
    BY <1>1, <1>2, <2>1 DEF AtEvent
<1>4. ~Undefined(P, s)
  BY <1>1 DEF Undefined
<1>5. 1 \in DOMAIN i.src
  BY <1>1, <1>2, FirstOperand
<1>6. Written(s, i) = [m EXCEPT ![d] = Computed(s, i)]
  BY <1>1, <1>3, <1>4, WrittenOK DEF Operational
<1>7. Computed(s, i) = Value(m, o)
  <2> DEFINE a == [n \in DOMAIN i.src |-> Value(s.mem, i.src[n])]
  <2>1. Computed(s, i) = a[1]
    BY <1>1 DEF Computed
  <2> QED
    BY <1>5, <2>1
<1>8. StandsFor(P, R, i, j)
  BY <1>2, SourcesReplaced
<1>9. Value(m, q) = Value(m, o)
  BY <1>5, <1>8 DEF StandsFor, Stands
<1>10. d \in Vars /\ m = [x \in Vars |-> m[x]]
  BY <1>1, PAdmissible DEF Admissible, MachineOK, MemoryOK
<1>11. \/ q = V(d) \/ Holds(R, q, d) \/ Holds(R, o, d)
  BY DEF IsRedundant
<1> HIDE DEF i, j, o, q, d, m
<1>12. ASSUME NEW v, Holds(R, v, d) PROVE Value(m, v) = m[d]
  <2>1. CASE CopyFact(v, d) \in R
    <3>1. FactHolds(CopyFact(v, d), m)
      BY <2>1 DEF FactsIn, m
    <3> QED
      BY <3>1 DEF FactHolds, CopyFact
  <2>2. CASE IsVar(v) /\ CopyFact(V(d), v[2]) \in R
    <3>1. FactHolds(CopyFact(V(d), v[2]), m)
      BY <2>2 DEF FactsIn, m
    <3>2. Value(m, V(d)) = m[v[2]]
      BY <3>1 DEF FactHolds, CopyFact
    <3>3. Value(m, V(d)) = m[d] /\ Value(m, v) = m[v[2]]
      BY <2>2 DEF Value, V, IsVar
    <3> QED
      BY <3>2, <3>3
  <2> QED
    BY <1>12, <2>1, <2>2 DEF Holds
<1>13. Value(m, V(d)) = m[d]
  BY DEF Value, V, IsVar
<1>14. Value(m, o) = m[d]
  BY <1>9, <1>11, <1>12, <1>13
<1>15. [m EXCEPT ![d] = Value(m, o)] = m
  BY <1>10, <1>14
<1> QED
  BY <1>1, <1>3, <1>4, <1>6, <1>7, <1>15 DEF i, m

(* What the rewrite leaves holds after the instruction it was given.       *)
LEMMA FactsAfterSound ==
    ASSUME NEW P \in FunctionBodies, NEW s, MachineOK(P, s), s.pc \in DOMAIN P,
           ~Undefined(P, s), ~AtEvent(P, s), NEW R \in FactSets(P), FactsIn(R, s.mem)
    PROVE  FactsIn(FactsAfter(FunctionAliasedVars(P), R, P[s.pc]), Written(s, P[s.pc]))
<1> DEFINE i == P[s.pc]
           j == ReplaceSources(R, i)
           A == FunctionAliasedVars(P)
           m2 == Written(s, i)
<1>1. CASE IsRedundant(R, i)
  BY <1>1, RedundantLeaves DEF FactsAfter
<1>2. CASE ~IsRedundant(R, i)
  <2>1. FactsAfter(A, R, i) = Transfer(A, R, j)
    BY <1>2 DEF FactsAfter
  <2>2. i \in Instructions /\ R \in SUBSET FactsOf(P) /\ R \in SUBSET Facts
    BY DEF FunctionBodies, FactSets, FactsOf
  <2>3. StandsFor(P, R, i, j)
    BY <2>2, SourcesReplaced
  <2>4. j.k = i.k /\ j.dst = i.dst
    BY <2>3 DEF StandsFor
  <2> SUFFICES ASSUME NEW f \in Transfer(A, R, j) PROVE FactHolds(f, m2)
    BY <2>1 DEF FactsIn
  <2>5. CASE i.k \in {"copy", "cps"}
    <3>1. Admissible(P, j)
      BY ReplacedAdmissible
    <3>2. j.dst \in Vars /\ j.src[1] \in Operands /\ (j.k = "cps" => IsVar(j.src[1]))
      BY <2>4, <2>5, <3>1 DEF Admissible
    <3>3. 1 \in DOMAIN i.src
      BY <2>2, <2>5, FirstOperand
    <3>4. Value(s.mem, j.src[1]) = Value(s.mem, i.src[1])
      BY <2>3, <3>3 DEF StandsFor, Stands
    <3>5. m2 = [s.mem EXCEPT ![i.dst] = Value(s.mem, i.src[1])]
      <4> DEFINE a == [n \in DOMAIN i.src |-> Value(s.mem, i.src[n])]
      <4>1. Computed(s, i) = a[1]
        BY <2>5 DEF Computed
      <4>2. m2 = [s.mem EXCEPT ![i.dst] = Computed(s, i)]
        BY <2>5, WrittenOK DEF Operational
      <4> QED
        BY <3>3, <4>1, <4>2
    <3>6. s.mem = [x \in Vars |-> s.mem[x]]
      BY DEF MachineOK, MemoryOK
    <3>7. \A h \in R : FactHolds(h, s.mem)
      BY DEF FactsIn
    <3> DEFINE m == s.mem
    <3> HIDE DEF i, j, A, m2
    <3> QED
      BY <2>2, <2>4, <2>5, <3>2, <3>4, <3>5, <3>6, <3>7, CopyTransferSound
  <2>6. CASE i.k \notin {"copy", "cps"}
    <3>1. Transfer(A, R, j) = Transfer(A, R, i)
      BY <2>4, <2>6 DEF Transfer
    <3>2. \A h \in R : FactHolds(h, s.mem)
      BY DEF FactsIn
    <3> QED
      BY <3>1, <3>2, TransferSound
  <2> QED
    BY <2>5, <2>6
<1> QED
  BY <1>1, <1>2

(* What holds of a machine: what the analysis says of its position, and    *)
(* what the rewrite knows there.                                           *)
Believed(P, o, s) == FactsHold(P, o, s) /\ FactsIn(Known(P, o, s.pc), s.mem)

(* A step of the function keeps both true.                                 *)
LEMMA BelievedAfterStep ==
    ASSUME NEW P \in FunctionBodies, NEW o, Solves(P, o), NEW s, MachineOK(P, s),
           s.pc \in DOMAIN P, ~Undefined(P, s), ~AtEvent(P, s), Believed(P, o, s)
    PROVE  Believed(P, o, Run1(P, s))
<1> DEFINE next == NextPc(P, s)
           m2 == Written(s, P[s.pc])
           t == Run1(P, s)
<1>0. o \in [DOMAIN Cfg(P) -> FactSets(P)]
  BY DEF Solves
<1>1. PICK b \in DOMAIN Cfg(P) : Starts(P)[b] <= s.pc /\ s.pc <= BlockEnd(P, b)
  BY InABlock
<1>2. next \in Nat
  <2>1. \A n \in DOMAIN P : n \in Nat
    BY InABlock
  <2> QED
    BY <2>1, NextPcCases
<1>3. Continues(P, b, s.pc, next)
  BY <1>1, RunContinues
<1>4. FactsHold(P, o, t)
  BY FactsHoldAfterStep DEF Believed
<1>5. t.pc = next /\ t.mem = m2
  BY DEF Run1
<1> HIDE DEF next, m2, t
<1>6. Known(P, o, s.pc) \in FactSets(P) /\ FactsIn(Known(P, o, s.pc), s.mem)
  BY <1>0, <1>1, KnownIs DEF Believed
<1>7. FactsIn(FactsAfter(FunctionAliasedVars(P), Known(P, o, s.pc), P[s.pc]), m2)
  BY <1>6, FactsAfterSound DEF m2
<1>8. FactsIn({}, m2)
  BY DEF FactsIn
<1>9. FactsIn(FactsAt(P, Analysis(P, o), next), m2)
  BY <1>4, <1>5 DEF FactsHold, FactsIn
<1>10. FactsIn(Known(P, o, next), m2)
  BY <1>0, <1>1, <1>2, <1>3, <1>7, <1>8, <1>9, KnownFlows
<1> QED
  BY <1>4, <1>5, <1>10 DEF Believed, t

(* So does the answer to a call.                                           *)
LEMMA BelievedAfterCall ==
    ASSUME NEW P \in FunctionBodies, NEW o, Solves(P, o), NEW s, MachineOK(P, s),
           s.pc \in DOMAIN P, P[s.pc].k \in {"call", "icall"}, Believed(P, o, s),
           NEW eff \in SUBSET Reachable(P), NEW w \in Numbers, NEW r \in Numbers
    PROVE  Believed(P, o, Returned(P, s, eff, w, r))
<1> DEFINE t == Returned(P, s, eff, w, r)
           next == s.pc + 1
           K == Known(P, o, s.pc)
<1>0. o \in [DOMAIN Cfg(P) -> FactSets(P)]
  BY DEF Solves
<1>1. PICK b \in DOMAIN Cfg(P) : Starts(P)[b] <= s.pc /\ s.pc <= BlockEnd(P, b)
  BY InABlock
<1>2. s.pc \in 1 .. Len(P) /\ Len(P) \in Nat /\ next \in Nat
  BY InABlock
<1>3. Continues(P, b, s.pc, next)
  <2>1. ~EndsBasicBlock(P[s.pc])
    BY DEF EndsBasicBlock
  <2>2. s.pc + 1 <= BlockEnd(P, b) \/ (s.pc = BlockEnd(P, b) /\ Enters(P, b, s.pc + 1))
    BY <1>1, <1>2, <2>1, FallsThrough
  <2> QED
    BY <2>2 DEF Continues
<1>4. FactsHold(P, o, t)
  BY FactsHoldAfterCall DEF Believed
<1>5. K \in FactSets(P) /\ \A f \in K : FactHolds(f, s.mem)
  BY <1>0, <1>1, KnownIs DEF Believed, FactsIn
<1>6. FactsAfter(FunctionAliasedVars(P), K, P[s.pc]) = KillVar(KillAliased(FunctionAliasedVars(P), K), P[s.pc].dst)
  <2> DEFINE i == P[s.pc]
             j == ReplaceSources(K, i)
  <2>1. i \in Instructions /\ K \in SUBSET FactsOf(P)
    BY <1>5 DEF FunctionBodies, FactSets
  <2>2. StandsFor(P, K, i, j)
    BY <2>1, SourcesReplaced
  <2>3. j.k = i.k /\ j.dst = i.dst
    BY <2>2 DEF StandsFor
  <2>4. ~IsRedundant(K, i)
    BY DEF IsRedundant
  <2> QED
    BY <2>3, <2>4 DEF FactsAfter, Transfer
<1>7. FactsIn(FactsAfter(FunctionAliasedVars(P), K, P[s.pc]), t.mem) /\ t.pc = next
  BY <1>5, <1>6, CallKeepsUnaliased DEF FactsIn
<1>8. FactsIn({}, t.mem)
  BY DEF FactsIn
<1>9. FactsIn(FactsAt(P, Analysis(P, o), next), t.mem)
  BY <1>4, <1>7 DEF FactsHold, FactsIn
<1> HIDE DEF t, next
<1>10. FactsIn(Known(P, o, next), t.mem)
  BY <1>0, <1>1, <1>2, <1>3, <1>7, <1>8, <1>9, KnownFlows DEF K
<1> QED
  BY <1>4, <1>7, <1>10 DEF Believed, t

(* Nothing is known where a longjmp may resume.                            *)
LEMMA BelievedAfterJump ==
    ASSUME NEW P \in FunctionBodies, NEW o, Solves(P, o), NEW s, NEW q \in DOMAIN P,
           P[q].k = "setjmp", s.pc = q + 1
    PROVE  Believed(P, o, s)
<1>0. o \in [DOMAIN Cfg(P) -> FactSets(P)]
  BY DEF Solves
<1>1. PICK b \in DOMAIN Cfg(P) : Starts(P)[b] <= q /\ q <= BlockEnd(P, b)
  BY InABlock
<1>2. q \in 1 .. Len(P) /\ q + 1 \in Nat
  BY InABlock
<1>3. Continues(P, b, q, q + 1)
  <2>1. ~EndsBasicBlock(P[q])
    BY DEF EndsBasicBlock
  <2>2. q + 1 <= BlockEnd(P, b) \/ (q = BlockEnd(P, b) /\ Enters(P, b, q + 1))
    BY <1>1, <1>2, <2>1, FallsThrough
  <2> QED
    BY <2>2 DEF Continues
<1>4. FactsHold(P, o, s)
  BY FactsHoldAfterJump
<1> DEFINE K == Known(P, o, q)
<1>5. FactsAfter(FunctionAliasedVars(P), K, P[q]) = {}
  <2> DEFINE i == P[q]
             j == ReplaceSources(K, i)
  <2>0. K \in FactSets(P)
    BY <1>0, <1>1, KnownIs
  <2>1. i \in Instructions /\ K \in SUBSET FactsOf(P)
    BY <2>0 DEF FunctionBodies, FactSets
  <2>2. StandsFor(P, K, i, j)
    BY <2>1, SourcesReplaced
  <2>3. j.k = i.k
    BY <2>2 DEF StandsFor
  <2>4. ~IsRedundant(K, i)
    BY DEF IsRedundant
  <2> QED
    BY <2>3, <2>4 DEF FactsAfter, Transfer
<1>6. FactsIn({}, s.mem)
  BY DEF FactsIn
<1>7. FactsIn(FactsAt(P, Analysis(P, o), s.pc), s.mem)
  BY <1>4 DEF FactsHold, FactsIn
<1> HIDE DEF K
<1>8. \/ Known(P, o, q + 1) = FactsAfter(FunctionAliasedVars(P), K, P[q])
      \/ Known(P, o, q + 1) = {}
      \/ Known(P, o, q + 1) = FactsAt(P, Analysis(P, o), q + 1)
  BY <1>0, <1>1, <1>2, <1>3, KnownFlows DEF K
<1>9. FactsIn(Known(P, o, s.pc), s.mem)
  BY <1>5, <1>6, <1>7, <1>8
<1> QED
  BY <1>4, <1>9 DEF Believed

(* Nor at the first instruction.                                           *)
LEMMA BelievedAtStart ==
    ASSUME NEW P \in FunctionBodies, NEW o, Solves(P, o), NEW s, s.pc = 1
    PROVE  Believed(P, o, s)
<1>0. o \in [DOMAIN Cfg(P) -> FactSets(P)]
  BY DEF Solves
<1>1. P \in Seq(Instructions) /\ P # <<>> /\ Len(P) \in Nat
  BY DEF FunctionBodies
<1>2. Starts(P)[1] = 1 /\ 1 \in DOMAIN Starts(P) /\ 1 \in DOMAIN Cfg(P)
  BY <1>1, FirstAndLastStart DEF Cfg, Partition
<1>3. 1 <= BlockEnd(P, 1)
  BY <1>1, <1>2, BlockBounds
<1>4. FactsHold(P, o, s)
  BY FactsHoldAtStart
<1>5. \A reach : FactsAt(P, reach, 1) = reach[1][1 - 1]
  BY <1>2, <1>3, FactsAtIs
<1>6. Known(P, o, 1) = FactsAt(P, Analysis(P, o), 1)
  BY <1>0, <1>2, <1>5, KnownAtEntry DEF Known
<1> QED
  BY <1>4, <1>6 DEF Believed, FactsHold, FactsIn
----------------------------------------------------------------------------
(* What the rewrite returns.                                               *)
Drafted == [k : Kinds, src : Seq(Operands), dst : Vars \cup {""}, at : STRING]

(* The positions that are kept, and what stands there.                     *)
Kept(P, o) == {p \in DOMAIN P : ~IsRedundant(Known(P, o, p), P[p])}
Replacements(P, o) == [p \in DOMAIN P |-> ReplaceSources(Known(P, o, p), P[p])]

(* Each replacement is an instruction of the form that drafts have.        *)
LEMMA ReplacementIs ==
    ASSUME NEW P \in FunctionBodies, NEW o \in [DOMAIN Cfg(P) -> FactSets(P)], NEW p \in DOMAIN P
    PROVE  /\ Replacements(P, o)[p] \in Drafted
           /\ StandsFor(P, Known(P, o, p), P[p], Replacements(P, o)[p])
           /\ Known(P, o, p) \in FactSets(P)
<1>1. PICK b \in DOMAIN Cfg(P) : Starts(P)[b] <= p /\ p <= BlockEnd(P, b)
  BY InABlock
<1>2. Known(P, o, p) \in FactSets(P)
  BY <1>1, KnownIs
<1>3. Known(P, o, p) \in SUBSET FactsOf(P) /\ P[p] \in Instructions
  BY <1>2 DEF FactSets, FunctionBodies
<1> DEFINE K == Known(P, o, p)
           i == P[p]
<1> HIDE DEF K, i
<1>4. StandsFor(P, K, i, ReplaceSources(K, i)) /\ ReplaceSources(K, i) \in Drafted
  BY <1>3, SourcesReplaced DEF Drafted, K, i
<1>5. Replacements(P, o)[p] = ReplaceSources(K, i)
  BY DEF Replacements, K, i
<1> QED
  BY <1>2, <1>4, <1>5 DEF K, i

(* The kept positions are numbers, and finitely many.                      *)
LEMMA KeptIs ==
    ASSUME NEW P \in FunctionBodies, NEW o
    PROVE  /\ Kept(P, o) \subseteq 1 .. Len(P) /\ Len(P) \in Nat /\ DOMAIN P = 1 .. Len(P)
           /\ Kept(P, o) \in SUBSET Nat /\ IsFiniteSet(Kept(P, o))
           /\ Rank(Kept(P, o), 0) = 0 /\ Rank(Kept(P, o), Len(P)) = Cardinality(Kept(P, o))
<1>1. Len(P) \in Nat /\ DOMAIN P = 1 .. Len(P)
  BY DEF FunctionBodies
<1>2. Kept(P, o) \subseteq 1 .. Len(P)
  BY <1>1 DEF Kept
<1> QED
  BY <1>1, <1>2, RankEnds

(* A rewritten block lists the replacements at its kept positions.         *)
LEMMA BlockLists ==
    ASSUME NEW P \in FunctionBodies, NEW b \in DOMAIN Cfg(P), NEW o \in [DOMAIN Cfg(P) -> FactSets(P)]
    PROVE  Lists(Kept(P, o), Replacements(P, o), Drafted,
                 DraftsOf(P, o, b)[Len(Cfg(P)[b].code)].code, Starts(P)[b] - 1, BlockEnd(P, b))
<1> DEFINE d == DraftsOf(P, o, b)
           M == Len(Cfg(P)[b].code)
           A == FunctionAliasedVars(P)
           a == Starts(P)[b] - 1
           K == Kept(P, o)
           J == Replacements(P, o)
           S == {n \in 0 .. M : Lists(K, J, Drafted, d[n].code, a, a + n)}
<1>1. /\ M \in Nat /\ a \in Nat /\ a + 1 = Starts(P)[b] /\ a + M = BlockEnd(P, b)
      /\ \A n \in 1 .. M : a + n \in DOMAIN P /\ a + n <= BlockEnd(P, b) /\ a + n >= Starts(P)[b]
                           /\ Starts(P)[b] + n - 1 = a + n
  <2>1. P \in Seq(Instructions) /\ P # <<>>
    BY DEF FunctionBodies
  <2>2. /\ M \in Nat /\ M = BlockEnd(P, b) - Starts(P)[b] + 1
        /\ Starts(P)[b] \in Nat \ {0} /\ BlockEnd(P, b) \in Nat
    BY <2>1, BlockCode, BlockBounds
  <2>3. \A n \in 1 .. M : Starts(P)[b] + n - 1 \in DOMAIN P
    BY BlockInstructions
  <2> HIDE DEF M
  <2> QED
    BY <2>2, <2>3
<1>2. /\ d[0] = [facts |-> MeetCopies(o, Cfg(P)[b].preds), code |-> <<>>]
      /\ \A n \in 1 .. M : d[n] = Rewrite(A, d[n - 1], P[Starts(P)[b] + n - 1])
  BY DraftsAre
<1>3. K \in SUBSET Nat /\ IsFiniteSet(K)
  BY KeptIs
<1>4. ASSUME NEW n \in 1 .. M
      PROVE  d[n].code = IF a + n \in K THEN Append(d[n - 1].code, J[a + n]) ELSE d[n - 1].code
  <2> DEFINE p == a + n
             F == d[n - 1].facts
             c == d[n - 1].code
  <2>1. /\ p \in DOMAIN P /\ Starts(P)[b] <= p /\ p <= BlockEnd(P, b)
        /\ p - Starts(P)[b] + 1 = n /\ Starts(P)[b] + n - 1 = p
    BY <1>1
  <2> HIDE DEF p, d
  <2>2. Known(P, o, p) = F
    BY <2>1, KnownIs DEF d
  <2>3. d[n] = Rewrite(A, d[n - 1], P[p])
    BY <1>2, <2>1
  <2>4. J[p] = ReplaceSources(F, P[p]) /\ (p \in K <=> ~IsRedundant(F, P[p]))
    BY <2>1, <2>2 DEF Replacements, Kept
  <2> HIDE DEF K, J
  <2>5. CASE IsRedundant(F, P[p])
    BY <2>3, <2>4, <2>5 DEF Rewrite, p
  <2>6. CASE ~IsRedundant(F, P[p])
    <3>1. d[n] = [facts |-> Transfer(A, F, ReplaceSources(F, P[p])), code |-> Append(c, ReplaceSources(F, P[p]))]
      BY <2>3, <2>6 DEF Rewrite
    <3>2. d[n].code = Append(c, ReplaceSources(F, P[p]))
      BY <3>1
    <3> QED
      BY <2>4, <2>6, <3>2 DEF p
  <2> QED
    BY <2>5, <2>6
<1>5. \A n \in 1 .. M : J[a + n] \in Drafted
  BY <1>1, ReplacementIs
<1> HIDE DEF d, M, a, K, J
<1>6. 0 \in S
  <2>1. d[0].code = <<>> /\ a + 0 = a /\ 0 \in 0 .. M
    BY <1>1, <1>2
  <2> QED
    BY <1>1, <1>3, <2>1, ListsNone
<1>7. \A n \in 0 .. M - 1 : n \in S => n + 1 \in S
  <2> SUFFICES ASSUME NEW n \in 0 .. M - 1, n \in S PROVE n + 1 \in S
    OBVIOUS
  <2> DEFINE m == n + 1
             p == a + m
             w == d[n].code
  <2>1. m \in 1 .. M /\ m - 1 = n /\ p \in Nat /\ a < p /\ p - 1 = a + n /\ m \in 0 .. M
    BY <1>1
  <2>2. d[m].code = IF p \in K THEN Append(w, J[p]) ELSE w
    BY <1>4, <2>1
  <2>3. J[p] \in Drafted
    BY <1>5, <2>1
  <2>4. Lists(K, J, Drafted, w, a, p - 1)
    BY <2>1
  <2> HIDE DEF p, w, m
  <2>5. Lists(K, J, Drafted, IF p \in K THEN Append(w, J[p]) ELSE w, a, p)
    BY <1>1, <1>3, <2>1, <2>3, <2>4, ListsOneMore
  <2>6. Lists(K, J, Drafted, d[m].code, a, p)
    BY <2>2, <2>5
  <2> QED
    BY <2>1, <2>6 DEF m, p
<1> HIDE DEF S
<1>8. M \in S
  BY <1>1, <1>6, <1>7, InductionUpTo
<1>9. Lists(K, J, Drafted, d[M].code, a, BlockEnd(P, b))
  BY <1>1, <1>8 DEF S
<1> QED
  BY <1>9 DEF d, M, a, K, J

(* The blocks before block k are rewritten.                                *)
OutUpTo(P, o, w, k) ==
    Lists(Kept(P, o), Replacements(P, o), Drafted, w, 0, IF k = 1 THEN 0 ELSE BlockEnd(P, k - 1))

(* Rewriting one more block appends it.                                    *)
LEMMA OutGrows ==
    ASSUME NEW P \in FunctionBodies, NEW o \in [DOMAIN Cfg(P) -> FactSets(P)],
           NEW k \in DOMAIN Cfg(P), NEW w, OutUpTo(P, o, w, k)
    PROVE  OutUpTo(P, o, w \o DraftsOf(P, o, k)[Len(Cfg(P)[k].code)].code, k + 1)
<1> DEFINE K == Kept(P, o)
           J == Replacements(P, o)
           u == DraftsOf(P, o, k)[Len(Cfg(P)[k].code)].code
           b == Starts(P)[k] - 1
           c == BlockEnd(P, k)
<1>1. P \in Seq(Instructions) /\ P # <<>>
  BY DEF FunctionBodies
<1>2. Lists(K, J, Drafted, u, b, c)
  BY BlockLists
<1>3. Starts(P)[k] \in Nat \ {0} /\ c \in Nat /\ Starts(P)[k] <= c
  BY <1>1, BlockCode, BlockBounds
<1>4. k \in Nat \ {0} /\ k \in DOMAIN Starts(P)
  <2>1. DOMAIN Cfg(P) = 1 .. Cardinality(Leaders(P)) /\ Cardinality(Leaders(P)) \in Nat
    BY <1>1, CfgIsSequence
  <2> QED
    BY <1>1, <2>1, BlockCode
<1>5. b = IF k = 1 THEN 0 ELSE BlockEnd(P, k - 1)
  <2>1. CASE k = 1
    BY <1>1, <2>1, FirstAndLastStart
  <2>2. CASE k # 1
    <3>1. Len(Starts(P)) = Cardinality(Leaders(P)) /\ DOMAIN Starts(P) = 1 .. Cardinality(Leaders(P))
          /\ Cardinality(Leaders(P)) \in Nat
      BY <1>1, StartsEnumerate, CfgIsSequence
    <3>2. k - 1 # Len(Starts(P)) /\ (k - 1) + 1 = k
      BY <1>4, <3>1
    <3> QED
      BY <2>2, <3>2 DEF BlockEnd
  <2> QED
    BY <2>1, <2>2
<1>6. Lists(K, J, Drafted, w, 0, b)
  BY <1>5 DEF OutUpTo
<1>7. K \in SUBSET Nat /\ IsFiniteSet(K)
  BY KeptIs
<1>8. b \in Nat /\ b <= c /\ 0 <= b
  BY <1>3
<1> HIDE DEF K, J, u, b, c
<1>9. Lists(K, J, Drafted, w \o u, 0, c)
  BY <1>2, <1>3, <1>6, <1>7, <1>8, ListsJoin
<1>10. k + 1 # 1 /\ (k + 1) - 1 = k
  BY <1>4
<1> QED
  BY <1>9, <1>10 DEF OutUpTo, K, J, u, c

(* Q is the optimized form of P.                                           *)
Optimized(P, o, Q) ==
    /\ Shrinks(P, Kept(P, o), Q)
    /\ \A p \in Kept(P, o) : Q[Rank(Kept(P, o), p)] = Replacements(P, o)[p]

(* What is returned when all blocks are rewritten.                         *)
LEMMA OutIsOptimized ==
    ASSUME NEW P \in FunctionBodies, NEW o \in [DOMAIN Cfg(P) -> FactSets(P)], NEW Q,
           OutUpTo(P, o, Q, Len(Cfg(P)) + 1)
    PROVE  Optimized(P, o, Q)
<1> DEFINE c == Len(Cfg(P))
           K == Kept(P, o)
           J == Replacements(P, o)
<1>1. P \in Seq(Instructions) /\ P # <<>>
  BY DEF FunctionBodies
<1>2. c \in Nat \ {0} /\ c = Len(Starts(P))
  BY <1>1, CfgIsSequence, StartsEnumerate
<1> HIDE DEF c
<1>3. c + 1 # 1 /\ (c + 1) - 1 = c
  BY <1>2
<1>4. BlockEnd(P, c) = Len(P)
  BY <1>2 DEF BlockEnd
<1>5. Lists(K, J, Drafted, Q, 0, Len(P))
  BY <1>3, <1>4 DEF OutUpTo, c
<1>6. /\ K \subseteq 1 .. Len(P) /\ Len(P) \in Nat /\ DOMAIN P = 1 .. Len(P)
      /\ Rank(K, 0) = 0 /\ Rank(K, Len(P)) = Cardinality(K) /\ IsFiniteSet(K)
  BY KeptIs
<1>7. Cardinality(K) \in Nat /\ \A n : Rank(K, n) \in Nat
  BY <1>6, RankType
<1>8. Q \in Seq(Drafted) /\ Len(Q) = Cardinality(K)
  BY <1>5, <1>6, <1>7 DEF Lists
<1>9. DOMAIN Q = 1 .. Cardinality(K)
  <2> DEFINE Y == Drafted
  <2> HIDE DEF Y
  <2>1. Q \in Seq(Y)
    BY <1>8 DEF Y
  <2> QED
    BY <1>8, <2>1
<1>10. \A p \in K : Q[Rank(K, p)] = J[p]
  <2> TAKE p \in K
  <2>1. 0 < p /\ p <= Len(P)
    BY <1>6
  <2>2. Q[Rank(K, p) - Rank(K, 0)] = J[p]
    BY <1>5, <2>1 DEF Lists
  <2>3. Rank(K, p) - Rank(K, 0) = Rank(K, p)
    BY <1>6, <1>7
  <2> QED
    BY <2>2, <2>3
<1>11. \A p \in DOMAIN P \ K : P[p].k \in Operational \ {"atomic", "setjmp"}
  BY DEF Kept, IsRedundant, Operational
<1>12. \A p \in K : J[p].k = P[p].k /\ J[p].dst = P[p].dst /\ J[p].at = P[p].at
  BY <1>6, ReplacementIs DEF StandsFor
<1>13. K \subseteq DOMAIN P
  BY DEF Kept
<1> HIDE DEF K, J
<1>14. Shrinks(P, K, Q)
  BY <1>8, <1>9, <1>10, <1>11, <1>12, <1>13 DEF Shrinks
<1> QED
  BY <1>10, <1>14 DEF Optimized, K, J
----------------------------------------------------------------------------
(* The function and its optimized form in lockstep.                        *)
(* It does not notice a copy that is left out.                             *)
LEMMA LeftOut ==
    ASSUME NEW P \in FunctionBodies, NEW o, Solves(P, o), NEW Q, Optimized(P, o, Q),
           NEW s, MachineOK(P, s), Believed(P, o, s), s.pc \in DOMAIN P, s.pc \notin Kept(P, o)
    PROVE  /\ ~AtEvent(P, s) /\ ~Undefined(P, s)
           /\ Img(Kept(P, o), Run1(P, s)) = Img(Kept(P, o), s)
           /\ Run1(P, s).pc = s.pc + 1
<1> DEFINE K == Kept(P, o)
           R == Known(P, o, s.pc)
           t == Run1(P, s)
<1>1. o \in [DOMAIN Cfg(P) -> FactSets(P)]
  BY DEF Solves
<1>2. R \in FactSets(P) /\ FactsIn(R, s.mem) /\ IsRedundant(R, P[s.pc])
  BY <1>1, ReplacementIs DEF Believed, Kept
<1>3. /\ P[s.pc].k \in {"copy", "cps"} /\ ~AtEvent(P, s) /\ ~Undefined(P, s)
      /\ Written(s, P[s.pc]) = s.mem
  BY <1>2, RedundantLeaves
<1>4. t = [pc |-> s.pc + 1, mem |-> s.mem, jb |-> s.jb]
  BY <1>3 DEF Run1, NextPc
<1>5. Image(K, s.pc + 1) = Image(K, s.pc)
  BY ImageIs DEF Optimized
<1> HIDE DEF K
<1> QED
  BY <1>3, <1>4, <1>5 DEF Img, K

(* What stands at the image of a kept instruction is read alike.           *)
LEMMA ImageReadsAlike ==
    ASSUME NEW P \in FunctionBodies, NEW o, Solves(P, o), NEW Q, Optimized(P, o, Q),
           NEW s, MachineOK(P, s), Believed(P, o, s), s.pc \in Kept(P, o)
    PROVE  LET t == Img(Kept(P, o), s) IN
           /\ t.pc \in DOMAIN Q
           /\ StandsFor(P, Known(P, o, s.pc), P[s.pc], Q[t.pc])
           /\ ReadsAlike(P[s.pc], s, Q[t.pc], t)
           /\ AtEvent(Q, t) <=> AtEvent(P, s)
           /\ Undefined(Q, t) <=> Undefined(P, s)
           /\ \A reach : Observed(Q, t, reach) = Observed(P, s, reach)
<1> DEFINE K == Kept(P, o)
           R == Known(P, o, s.pc)
           t == Img(K, s)
<1>1. o \in [DOMAIN Cfg(P) -> FactSets(P)] /\ s.pc \in DOMAIN P
  BY DEF Solves, Kept
<1>2. t.pc = Image(K, s.pc) /\ t.mem = s.mem
  BY DEF Img
<1>3. /\ Rank(K, s.pc) = Image(K, s.pc) /\ Image(K, s.pc) \in DOMAIN Q
      /\ Len(P) \in Nat /\ Len(Q) \in Nat /\ DOMAIN P = 1 .. Len(P)
  BY ImageIs DEF Optimized
<1>4. DOMAIN Q = 1 .. Len(Q)
  BY DEF Optimized, Shrinks
<1>5. Q[t.pc] = Replacements(P, o)[s.pc]
  BY <1>2, <1>3 DEF Optimized
<1>6. StandsFor(P, R, P[s.pc], Q[t.pc])
  BY <1>1, <1>5, ReplacementIs
<1>7. FactsIn(R, s.mem)
  BY DEF Believed
<1> HIDE DEF t, R, K
<1>8. ReadsAlike(P[s.pc], s, Q[t.pc], t)
  BY <1>2, <1>6, <1>7, SameValues
<1>9. s.pc \in 1 .. Len(P) /\ t.pc \in 1 .. Len(Q)
  BY <1>1, <1>2, <1>3, <1>4
<1>10. /\ AtEvent(Q, t) <=> AtEvent(P, s)
       /\ Undefined(Q, t) <=> Undefined(P, s)
       /\ \A reach : (\A x \in reach \cup Statics : t.mem[x] = s.mem[x]) =>
             Observed(Q, t, reach) = Observed(P, s, reach)
  <2>1. StandAlike(P, s, Q, t)
    BY <1>3, <1>8, <1>9 DEF StandAlike
  <2> QED
    BY <2>1, StandsAlike
<1>11. \A reach : Observed(Q, t, reach) = Observed(P, s, reach)
  BY <1>2, <1>10
<1> QED
  BY <1>2, <1>3, <1>6, <1>8, <1>10, <1>11 DEF t, R, K

(* From there the two take the same step.                                  *)
LEMMA SameStep ==
    ASSUME NEW P \in FunctionBodies, NEW o, Solves(P, o), NEW Q, Optimized(P, o, Q),
           NEW s, MachineOK(P, s), Believed(P, o, s), s.pc \in Kept(P, o),
           ~AtEvent(P, s), ~Undefined(P, s)
    PROVE  Run1(Q, Img(Kept(P, o), s)) = Img(Kept(P, o), Run1(P, s))
<1> DEFINE K == Kept(P, o)
           R == Known(P, o, s.pc)
           t == Img(K, s)
           i == P[s.pc]
           j == Q[t.pc]
<1>1. Shrinks(P, K, Q) /\ s.pc \in DOMAIN P /\ s.pc \in Nat
  BY InABlock DEF Optimized, Kept
<1>2. t.pc = Image(K, s.pc) /\ t.mem = s.mem /\ t.jb = ImageJb(K, s.jb)
  BY DEF Img
<1>3. StandsFor(P, R, i, j) /\ ReadsAlike(i, s, j, t)
  BY ImageReadsAlike
<1>4. FactsIn(R, s.mem)
  BY DEF Believed
<1>5. j.k = i.k /\ j.dst = i.dst
  BY <1>3 DEF StandsFor
<1>6. i.k \in {"jz", "jind"} => Value(t.mem, j.src[1]) = Value(s.mem, i.src[1])
  <2>1. i.k \in {"jz", "jind"} => 1 \in DOMAIN i.src
    BY <1>1, FirstOperand DEF FunctionBodies
  <2> HIDE DEF i, j, R, t, K
  <2>2. 1 \in DOMAIN i.src => Stands(P, R, i.src[1], j.src[1])
    BY <1>3 DEF StandsFor
  <2>3. 1 \in DOMAIN i.src => Value(s.mem, j.src[1]) = Value(s.mem, i.src[1])
    BY <1>4, <2>2 DEF Stands
  <2> QED
    BY <1>2, <2>1, <2>3
<1>7. Image(K, s.pc + 1) = t.pc + 1
  BY <1>1, <1>2, ImageIs
<1> HIDE DEF t, R, K
<1>8. NextPc(Q, t) = Image(K, NextPc(P, s))
  BY <1>1, <1>2, <1>6, NextImage DEF K
<1>9. Written(t, j) = Written(s, i)
  <2>1. i.k \in Operational <=> i.dst # ""
    BY <1>1, WrittenOK
  <2> HIDE DEF i, j
  <2> QED
    BY <1>2, <1>3, <2>1, WritesAlike
<1> HIDE DEF i, j
<1>10. Run1(P, s) = [pc |-> NextPc(P, s), mem |-> Written(s, i),
                     jb |-> IF i.k = "setjmp" THEN <<s.pc + 1, i.dst>> ELSE s.jb]
  BY DEF Run1, i
<1>11. Run1(Q, t) = [pc |-> NextPc(Q, t), mem |-> Written(t, j),
                     jb |-> IF j.k = "setjmp" THEN <<t.pc + 1, j.dst>> ELSE t.jb]
  BY DEF Run1, j
<1>12. Img(K, Run1(P, s)) =
          [pc |-> Image(K, NextPc(P, s)), mem |-> Written(s, i),
           jb |-> ImageJb(K, IF i.k = "setjmp" THEN <<s.pc + 1, i.dst>> ELSE s.jb)]
  BY <1>10 DEF Img
<1>13. ImageJb(K, <<s.pc + 1, i.dst>>) = <<t.pc + 1, i.dst>>
  <2>1. <<s.pc + 1, i.dst>> # NoJump
    <3>1. s.pc + 1 # 0
      BY <1>1
    <3> QED
      BY <3>1, PointIsSaved
  <2> QED
    BY <1>7, <2>1 DEF ImageJb
<1>14. (IF j.k = "setjmp" THEN <<t.pc + 1, j.dst>> ELSE t.jb)
       = ImageJb(K, IF i.k = "setjmp" THEN <<s.pc + 1, i.dst>> ELSE s.jb)
  BY <1>2, <1>5, <1>13
<1> QED
  BY <1>8, <1>9, <1>11, <1>12, <1>14 DEF t, K

(* Past the last instruction both have come to their end.                  *)
LEMMA SameEnd ==
    ASSUME NEW P \in FunctionBodies, NEW o, NEW Q, Optimized(P, o, Q), NEW s, s.pc = Len(P) + 1
    PROVE  LET t == Img(Kept(P, o), s) IN
           /\ AtEvent(Q, t) /\ AtEvent(P, s)
           /\ \A reach : Observed(Q, t, reach) = Observed(P, s, reach)
<1> DEFINE t == Img(Kept(P, o), s)
<1>1. t.pc = Image(Kept(P, o), s.pc) /\ t.mem = s.mem
  BY DEF Img
<1>2. Image(Kept(P, o), Len(P) + 1) = Len(Q) + 1 /\ Len(P) \in Nat /\ Len(Q) \in Nat
  BY ImageIs DEF Optimized
<1> HIDE DEF t
<1>3. t.pc > Len(Q) /\ s.pc > Len(P)
  BY <1>1, <1>2
<1> QED
  BY <1>1, <1>3 DEF AtEvent, Observed, t

(* The environment's answer to a call leaves it at the image again.        *)
LEMMA SameAnswer ==
    ASSUME NEW P \in FunctionBodies, NEW o, NEW Q, Optimized(P, o, Q),
           NEW s, MachineOK(P, s), s.pc \in Kept(P, o), NEW eff, NEW w, NEW r
    PROVE  Returned(Q, Img(Kept(P, o), s), eff, w, r) = Img(Kept(P, o), Returned(P, s, eff, w, r))
<1> DEFINE K == Kept(P, o)
           t == Img(K, s)
           m == [x \in Vars |-> IF x \in eff THEN w ELSE s.mem[x]]
           d == P[s.pc].dst
           m2 == IF d = "" THEN m ELSE [m EXCEPT ![d] = r]
           p == s.pc + 1
           n == t.pc + 1
           a == Returned(P, s, eff, w, r)
           c == Returned(Q, t, eff, w, r)
<1>1. Shrinks(P, K, Q)
  BY DEF Optimized
<1>2. t = [pc |-> Image(K, s.pc), mem |-> s.mem, jb |-> ImageJb(K, s.jb)]
  BY DEF Img
<1>3. t.pc = Image(K, s.pc) /\ t.mem = s.mem /\ t.jb = ImageJb(K, s.jb) /\ t = [pc |-> t.pc, mem |-> t.mem, jb |-> t.jb]
  BY <1>2
<1> HIDE DEF K, t
<1>4. Rank(K, s.pc) = t.pc /\ Image(K, p) = n
  BY <1>1, <1>3, ImageIs DEF K
<1>5. Q[t.pc].dst = d
  BY <1>1, <1>4 DEF Shrinks, K
<1>6. a = [s EXCEPT !.pc = p, !.mem = m2]
  BY DEF Returned
<1>7. c = [t EXCEPT !.pc = n, !.mem = m2]
  BY <1>3, <1>5 DEF Returned
<1>8. s = [pc |-> s.pc, mem |-> s.mem, jb |-> s.jb]
  BY DEF MachineOK
<1> HIDE DEF a, c, m2, p, n
<1>9. a = [pc |-> p, mem |-> m2, jb |-> s.jb]
  BY <1>6, <1>8, MachineUpdate
<1>10. c = [pc |-> n, mem |-> m2, jb |-> t.jb]
  BY <1>3, <1>7, MachineUpdate
<1>11. Img(K, a) = [pc |-> n, mem |-> m2, jb |-> ImageJb(K, s.jb)]
  BY <1>4, <1>9 DEF Img
<1> QED
  BY <1>3, <1>10, <1>11 DEF K, t, a, c

(* The machine v of P, which P takes to s, has the machine t of Q for its   *)
(* image.                                                                  *)
Tracks(P, o, t, v, s) ==
    MachineOK(P, v) /\ Believed(P, o, v) /\ t = Img(Kept(P, o), v) /\ Leads(P, v, s)

(* There is one that stands at a kept instruction or at the end: P passes  *)
(* over the copies left out without the image noticing.                    *)
LEMMA Furthest ==
    ASSUME NEW P \in FunctionBodies, NEW o, Solves(P, o), NEW Q, Optimized(P, o, Q),
           NEW t, NEW s, AtEvent(P, s), NEW u, Tracks(P, o, t, u, s)
    PROVE  \E v : Tracks(P, o, t, v, s) /\ (v.pc \in Kept(P, o) \/ v.pc = Len(P) + 1)
<1> DEFINE Left(v) == Len(P) + 1 - v.pc
           T == {n \in Nat : \E v : Tracks(P, o, t, v, s) /\ n = Left(v)}
<1>1. Len(P) \in Nat /\ DOMAIN P = 1 .. Len(P)
  BY DEF FunctionBodies
<1>2. \A v : Tracks(P, o, t, v, s) => v.pc \in 1 .. Len(P) + 1
  BY DEF Tracks, MachineOK
<1>3. \A v : Tracks(P, o, t, v, s) => Left(v) \in T
  BY <1>1, <1>2
<1>4. PICK n \in T : \A k \in T : n <= k
  <2>1. T \in SUBSET Nat /\ T # {}
    BY <1>3
  <2> HIDE DEF T
  <2> QED
    BY <2>1, LeastNumber
<1>5. PICK v : Tracks(P, o, t, v, s) /\ n = Left(v)
  BY <1>4
<1>6. ASSUME v.pc \in DOMAIN P, v.pc \notin Kept(P, o)
      PROVE  FALSE
  <2> DEFINE x == Run1(P, v)
  <2>1. MachineOK(P, v) /\ Believed(P, o, v) /\ t = Img(Kept(P, o), v) /\ Leads(P, v, s)
    BY <1>5 DEF Tracks
  <2>2. ~AtEvent(P, v) /\ ~Undefined(P, v) /\ Img(Kept(P, o), x) = t /\ x.pc = v.pc + 1
    BY <1>6, <2>1, LeftOut
  <2>3. Leads(P, x, s)
    BY <2>1, <2>2, LeadsAdvance
  <2>4. MachineOK(P, x) /\ Believed(P, o, x)
    BY <1>6, <2>1, <2>2, RunOK, BelievedAfterStep
  <2> HIDE DEF x
  <2>5. Tracks(P, o, t, x, s)
    BY <2>2, <2>3, <2>4 DEF Tracks
  <2>6. n <= Left(x)
    BY <1>3, <1>4, <2>5
  <2> QED
    BY <1>1, <1>2, <1>5, <2>2, <2>6
<1>7. v.pc \in DOMAIN P \/ v.pc = Len(P) + 1
  BY <1>1, <1>2, <1>5
<1> QED
  BY <1>5, <1>6, <1>7

(* Where it stands the two wait for the environment alike; the optimized    *)
(* function meets no undefined behaviour, and where it takes a step it      *)
(* stays the image of a machine on the way.                                *)
LEMMA TracksOn ==
    ASSUME NEW P \in FunctionBodies, NEW o, Solves(P, o), NEW Q, Optimized(P, o, Q),
           NEW t, NEW s, AtEvent(P, s), NEW u, Tracks(P, o, t, u, s)
    PROVE  /\ ~Undefined(Q, t)
           /\ AtEvent(Q, t) => t = Img(Kept(P, o), s)
           /\ ~AtEvent(Q, t) => \E v : Tracks(P, o, Run1(Q, t), v, s)
<1>1. PICK v : Tracks(P, o, t, v, s) /\ (v.pc \in Kept(P, o) \/ v.pc = Len(P) + 1)
  BY Furthest
<1>2. MachineOK(P, v) /\ Believed(P, o, v) /\ t = Img(Kept(P, o), v) /\ Leads(P, v, s)
  BY <1>1 DEF Tracks
<1>3. CASE v.pc = Len(P) + 1
  <2>1. AtEvent(Q, t) /\ AtEvent(P, v)
    BY <1>2, <1>3, SameEnd
  <2>2. v = s
    BY <1>2, <2>1, LeadsAdvance
  <2> QED
    BY <1>2, <2>1, <2>2 DEF Undefined
<1>4. CASE v.pc \in Kept(P, o)
  <2>1. (AtEvent(Q, t) <=> AtEvent(P, v)) /\ (Undefined(Q, t) <=> Undefined(P, v))
    BY <1>2, <1>4, ImageReadsAlike
  <2>2. CASE AtEvent(P, v)
    <3>1. v = s
      BY <1>2, <2>2, LeadsAdvance
    <3> QED
      BY <1>2, <2>1, <2>2, <3>1 DEF Undefined
  <2>3. CASE ~AtEvent(P, v)
    <3> DEFINE x == Run1(P, v)
    <3>1. v # s
      BY <2>3
    <3>2. ~Undefined(P, v) /\ Leads(P, x, s)
      BY <1>2, <3>1, LeadsAdvance
    <3>3. Run1(Q, t) = Img(Kept(P, o), x)
      BY <1>2, <1>4, <2>3, <3>2, SameStep
    <3>4. MachineOK(P, x) /\ Believed(P, o, x)
      <4>1. v.pc \in DOMAIN P
        BY <1>4 DEF Kept
      <4> QED
        BY <1>2, <2>3, <3>2, <4>1, RunOK, BelievedAfterStep
    <3> HIDE DEF x
    <3>5. Tracks(P, o, Run1(Q, t), x, s)
      BY <3>2, <3>3, <3>4 DEF Tracks
    <3> QED
      BY <2>1, <2>3, <3>2, <3>5
  <2> QED
    BY <2>2, <2>3
<1> QED
  BY <1>1, <1>3, <1>4

(* How much of the function is rewritten.                                  *)
OutOK ==
    /\ phase = "analyse" => out = <<>> /\ todo = 1
    /\ phase = "rewrite" => todo \in DOMAIN cfg /\ OutUpTo(prog, blockOut, out, todo)
    /\ phase \notin {"analyse", "rewrite"} => Optimized(prog, blockOut, out)

(* Nothing is at the start.                                                *)
LEMMA OutInit == Init => OutOK
BY DEF Init, EquivInit, OutOK

(* Each step rewrites one more block or leaves it at that.                 *)
LEMMA OutStep == TypeOK /\ ProgOK /\ FactsOK /\ OutOK /\ [Next]_vars => OutOK'
<1> SUFFICES ASSUME TypeOK, ProgOK, FactsOK, OutOK, [Next]_vars PROVE OutOK'
  OBVIOUS
<1>0. /\ prog \in FunctionBodies /\ cfg = Cfg(prog)
      /\ blockOut \in [DOMAIN Cfg(prog) -> FactSets(prog)]
  BY DEF TypeOK, ProgOK, FactsOK
<1>1. DOMAIN cfg = 1 .. Len(cfg) /\ Len(cfg) \in Nat \ {0}
  <2>1. prog \in Seq(Instructions) /\ prog # <<>>
    BY <1>0 DEF FunctionBodies
  <2> QED
    BY <1>0, <2>1, CfgIsSequence
<1>2. CASE Visit
  BY <1>2 DEF Visit, OutOK
<1>3. CASE Converge
  <2>1. /\ phase = "analyse" /\ phase' = "rewrite" /\ out = <<>> /\ todo = 1
        /\ out' = out /\ todo' = todo /\ UNCHANGED <<prog, cfg, blockOut>>
    BY <1>3 DEF Converge, OutOK
  <2>2. Kept(prog, blockOut) \in SUBSET Nat /\ IsFiniteSet(Kept(prog, blockOut)) /\ 0 \in Nat
    BY <1>0, KeptIs
  <2>3. OutUpTo(prog, blockOut, <<>>, 1)
    BY <2>2, ListsNone DEF OutUpTo
  <2>4. 1 \in DOMAIN cfg
    BY <1>1
  <2> QED
    BY <2>1, <2>3, <2>4 DEF OutOK
<1>4. CASE RewriteNext
  <2>1. /\ phase = "rewrite" /\ UNCHANGED <<prog, cfg, blockOut>>
        /\ out' = out \o RewriteBlock(MeetCopies(blockOut, cfg[todo].preds), cfg[todo].code)
        /\ todo' = todo + 1
        /\ phase' = IF todo = Len(cfg) THEN "ready" ELSE phase
    BY <1>4 DEF RewriteNext
  <2>2. todo \in DOMAIN cfg /\ OutUpTo(prog, blockOut, out, todo)
    BY <2>1 DEF OutOK
  <2>3. RewriteBlock(MeetCopies(blockOut, cfg[todo].preds), cfg[todo].code)
        = DraftsOf(prog, blockOut, todo)[Len(Cfg(prog)[todo].code)].code
    BY <1>0 DEF RewriteBlock, DraftsOf, Aliased
  <2>4. OutUpTo(prog, blockOut, out', todo + 1)
    BY <1>0, <2>1, <2>2, <2>3, OutGrows
  <2>5. CASE todo = Len(cfg)
    <3>1. Optimized(prog, blockOut, out')
      BY <1>0, <2>4, <2>5, OutIsOptimized
    <3>2. phase' = "ready"
      BY <2>1, <2>5
    <3> QED
      BY <2>1, <3>1, <3>2 DEF OutOK
  <2>6. CASE todo # Len(cfg)
    <3>1. todo + 1 \in DOMAIN cfg
      BY <1>1, <2>2, <2>6
    <3>2. phase' = "rewrite"
      BY <2>1, <2>6
    <3> QED
      BY <2>1, <2>4, <3>1, <3>2 DEF OutOK
  <2> QED
    BY <2>5, <2>6
<1>5. CASE Run
  <2>1. /\ UNCHANGED <<prog, out, cfg, blockOut, todo>>
        /\ phase \notin {"analyse", "rewrite"} /\ phase' \notin {"analyse", "rewrite"}
    BY <1>5 DEF Run, RunNext, Start, SourceStep, SourceStops, TargetStep, TargetStops, Answer, Finish
  <2> QED
    BY <2>1 DEF OutOK
<1>6. CASE UNCHANGED vars
  BY <1>6 DEF vars, OutOK
<1> QED
  BY <1>2, <1>3, <1>4, <1>5, <1>6 DEF Next, Done

(* What the run of the two functions rests on.                             *)
PassOK == TypeOK /\ ProgOK /\ FactsOK /\ RewriteReadsFixpoint /\ OutOK

(* All of it holds throughout: when the pass is done, the function it      *)
(* returns is the one it was given without the copies that the facts make  *)
(* superfluous, its operands replaced by what the facts say they equal.    *)
THEOREM PropagationReturns == Spec => []PassOK
<1>1. Spec => []OutOK
  BY OutInit, OutStep, TypeCorrect, PTL DEF Spec
<1> QED
  BY <1>1, TypeCorrect, FixpointAtRewrite, PTL DEF PassOK

(* Once the two functions run, the facts are a solution.                   *)
LEMMA RunningOptimized ==
    ASSUME PassOK, phase \notin {"analyse", "rewrite"}
    PROVE  prog \in FunctionBodies /\ Solves(prog, blockOut) /\ Optimized(prog, blockOut, out)
BY FixpointSolves DEF PassOK, OutOK, ProgOK

(* While they run, the optimized machine is the image of one that the      *)
(* original function takes to its own, and of that one itself when it      *)
(* waits for an event; what the analysis and the rewrite say holds of it.  *)
Good(s) == MachineOK(prog, s) /\ Believed(prog, blockOut, s)

LockOK ==
    /\ Running => Good(src)
    /\ phase \in {"source", "target"} => \E v : Tracks(prog, blockOut, opt, v, src)
    /\ phase \in {"target", "event"} => AtEvent(prog, src)
    /\ phase = "event" => opt = Img(Kept(prog, blockOut), src)

(* A good machine is the image of itself.                                  *)
LEMMA TracksSelf ==
    ASSUME NEW s, Good(s)
    PROVE  Tracks(prog, blockOut, Img(Kept(prog, blockOut), s), s, s)
BY LeadsSelf DEF Good, Tracks

(* Both start at the first instruction.                                    *)
LEMMA StartLock ==
    ASSUME PassOK, Start
    PROVE  Good(src') /\ Tracks(prog, blockOut, opt', src', src')
<1>0. /\ prog \in FunctionBodies /\ Solves(prog, blockOut) /\ Optimized(prog, blockOut, out)
      /\ phase' = "source" /\ prog' = prog
  BY RunningOptimized DEF Start
<1>1. PICK m \in Memories : /\ src' = [pc |-> 1, mem |-> m, jb |-> NoJump]
                            /\ opt' = [pc |-> 1, mem |-> m, jb |-> NoJump]
  BY DEF Start
<1>2. MachineOK(prog, src')
  BY <1>1, StartOK DEF PassOK
<1>3. Believed(prog, blockOut, src')
  BY <1>0, <1>1, BelievedAtStart
<1>4. Image(Kept(prog, blockOut), 1) = 1
  BY <1>0, ImageIs DEF Optimized
<1>5. opt' = Img(Kept(prog, blockOut), src')
  BY <1>1, <1>4 DEF Img, ImageJb
<1>6. Tracks(prog, blockOut, opt', src', src')
  BY <1>2, <1>3, <1>5, LeadsSelf DEF Tracks
<1> QED
  BY <1>2, <1>3, <1>6 DEF Good

(* A step of the original function keeps a machine good.                   *)
LEMMA StepGood ==
    ASSUME PassOK, SourceStep, Good(src)
    PROVE  Good(src')
<1>0. prog \in FunctionBodies /\ Solves(prog, blockOut)
  BY RunningOptimized DEF SourceStep
<1>1. MachineOK(prog, src) /\ Believed(prog, blockOut, src)
  BY DEF Good
<1>2. src.pc \in DOMAIN prog
  BY <1>0, <1>1 DEF SourceStep, MachineOK, FunctionBodies, AtEvent
<1>3. MachineOK(prog, src')
  BY <1>0, <1>1, <1>2, RunOK DEF SourceStep
<1>4. Believed(prog, blockOut, src')
  BY <1>0, <1>1, <1>2, BelievedAfterStep DEF SourceStep
<1> QED
  BY <1>3, <1>4 DEF Good

(* The environment answers both alike.                                     *)
LEMMA AnswerLock ==
    ASSUME PassOK, Answer, Good(src), AtEvent(prog, src), opt = Img(Kept(prog, blockOut), src)
    PROVE  Good(src') /\ opt' = Img(Kept(prog, blockOut), src')
<1> DEFINE K == Kept(prog, blockOut)
<1>0. prog \in FunctionBodies /\ Solves(prog, blockOut) /\ Optimized(prog, blockOut, out)
  BY RunningOptimized DEF Answer
<1>1. MachineOK(prog, src) /\ Believed(prog, blockOut, src)
  BY DEF Good
<1>2. src.pc \in DOMAIN prog /\ prog[src.pc].k \in {"call", "icall"}
  BY <1>0, <1>1 DEF Answer, AtCall, MachineOK, FunctionBodies
<1>3. src.pc \in K
  BY <1>0, <1>1, <1>2, LeftOut
<1>4. PICK eff \in Writes, w \in Numbers :
         \/ \E r \in Numbers : /\ src' = Returned(prog, src, eff, w, r)
                               /\ opt' = Returned(out, opt, eff, w, r)
         \/ /\ src.jb # NoJump
            /\ src' = JumpedBack(src, eff, w)
            /\ opt' = JumpedBack(opt, eff, w)
  BY DEF Answer
<1>5. eff \in SUBSET Reachable(prog)
  BY DEF Writes, Reach
<1> HIDE DEF K
<1>6. CASE \E r \in Numbers : /\ src' = Returned(prog, src, eff, w, r)
                              /\ opt' = Returned(out, opt, eff, w, r)
  <2>1. PICK r \in Numbers : /\ src' = Returned(prog, src, eff, w, r)
                             /\ opt' = Returned(out, opt, eff, w, r)
    BY <1>6
  <2>2. MachineOK(prog, src')
    BY <1>0, <1>1, <1>2, <2>1, ReturnedOK
  <2>3. Believed(prog, blockOut, src')
    BY <1>0, <1>1, <1>2, <1>5, <2>1, BelievedAfterCall
  <2>4. opt' = Img(K, src')
    BY <1>0, <1>1, <1>3, <2>1, SameAnswer DEF K
  <2> QED
    BY <2>2, <2>3, <2>4 DEF Good, K
<1>7. CASE /\ src.jb # NoJump
           /\ src' = JumpedBack(src, eff, w)
           /\ opt' = JumpedBack(opt, eff, w)
  <2>1. /\ MachineOK(prog, src')
        /\ \E q \in DOMAIN prog : prog[q].k = "setjmp" /\ src'.pc = q + 1
    BY <1>0, <1>1, <1>7, JumpedBackOK
  <2>2. Believed(prog, blockOut, src')
    BY <1>0, <2>1, BelievedAfterJump
  <2>3. opt' = Img(K, src')
    BY <1>1, <1>7, SameJump DEF MachineOK, K
  <2> QED
    BY <2>1, <2>2, <2>3 DEF Good, K
<1> QED
  BY <1>4, <1>6, <1>7

(* Every step of the two functions and of their environment keeps them in  *)
(* lockstep.                                                               *)
LEMMA LockHolds == PassOK /\ LockOK /\ [Next]_vars => LockOK'
<1> SUFFICES ASSUME PassOK, LockOK, [Next]_vars PROVE LockOK'
  OBVIOUS
<1>1. CASE Visit \/ Converge \/ RewriteNext
  <2>1. phase' \notin {"source", "target", "event"}
    BY <1>1 DEF Visit, Converge, RewriteNext
  <2> QED
    BY <2>1 DEF LockOK, Running
<1>2. CASE UNCHANGED vars
  BY <1>2 DEF vars, LockOK, Good, Running
<1>3. CASE Run
  <2>1. UNCHANGED <<prog, out, blockOut>> /\ phase \notin {"analyse", "rewrite"}
    BY <1>3 DEF Run, RunNext, Start, SourceStep, SourceStops, TargetStep, TargetStops, Answer, Finish
  <2>2. prog \in FunctionBodies /\ Solves(prog, blockOut) /\ Optimized(prog, blockOut, out)
    BY <2>1, RunningOptimized
  <2> DEFINE Tracked(t, s) == \E v : Tracks(prog, blockOut, t, v, s)
             img(s) == Img(Kept(prog, blockOut), s)
  <2>3. SUFFICES /\ phase' \in {"source", "target", "event"} => Good(src')
                 /\ phase' \in {"source", "target"} => Tracked(opt', src')
                 /\ phase' \in {"target", "event"} => AtEvent(prog, src')
                 /\ phase' = "event" => opt' = img(src')
    BY <2>1 DEF LockOK, Good, Running
  <2>4. /\ phase \in {"source", "target", "event"} => Good(src)
        /\ phase \in {"source", "target"} => Tracked(opt, src)
        /\ phase \in {"target", "event"} => AtEvent(prog, src)
        /\ phase = "event" => opt = img(src)
    BY DEF LockOK, Running
  <2>5. CASE Start
    <3>1. Good(src') /\ Tracked(opt', src') /\ phase' = "source"
      BY <2>5, StartLock DEF Start
    <3> QED
      BY <3>1
  <2>6. CASE SourceStep
    <3>1. /\ phase = "source" /\ phase' = phase /\ opt' = opt /\ src' = Run1(prog, src)
          /\ ~AtEvent(prog, src) /\ ~Undefined(prog, src)
      BY <2>6 DEF SourceStep
    <3>2. Good(src')
      BY <2>4, <2>6, <3>1, StepGood
    <3>3. PICK v : Tracks(prog, blockOut, opt, v, src)
      BY <2>4, <3>1
    <3>4. Tracks(prog, blockOut, opt', v, src')
      BY <3>1, <3>3, LeadsExtend DEF Tracks
    <3> QED
      BY <3>1, <3>2, <3>4
  <2>7. CASE SourceStops
    <3>1. /\ phase = "source" /\ src' = src /\ opt' = opt
          /\ phase' = "done" \/ (AtEvent(prog, src) /\ phase' = "target")
      BY <2>7 DEF SourceStops
    <3> QED
      BY <2>4, <3>1
  <2>8. CASE TargetStep
    <3>1. /\ phase = "target" /\ phase' = phase /\ src' = src /\ opt' = Run1(out, opt)
          /\ ~AtEvent(out, opt)
      BY <2>8 DEF TargetStep
    <3>2. Good(src) /\ AtEvent(prog, src)
      BY <2>4, <3>1
    <3>3. PICK u : Tracks(prog, blockOut, opt, u, src)
      BY <2>4, <3>1
    <3>4. \E v : Tracks(prog, blockOut, Run1(out, opt), v, src)
      BY <2>2, <3>1, <3>2, <3>3, TracksOn
    <3> QED
      BY <3>1, <3>2, <3>4
  <2>9. CASE TargetStops
    <3>1. phase = "target" /\ phase' = "event" /\ src' = src /\ opt' = opt /\ AtEvent(out, opt)
      BY <2>9 DEF TargetStops
    <3>2. Good(src) /\ AtEvent(prog, src)
      BY <2>4, <3>1
    <3>3. PICK u : Tracks(prog, blockOut, opt, u, src)
      BY <2>4, <3>1
    <3>4. opt = img(src)
      BY <2>2, <3>1, <3>2, <3>3, TracksOn
    <3> QED
      BY <3>1, <3>2, <3>4
  <2>10. CASE Answer
    <3>1. phase = "event" /\ phase' = "source"
      BY <2>10 DEF Answer
    <3>2. Good(src') /\ opt' = img(src')
      BY <2>4, <2>10, <3>1, AnswerLock
    <3>3. Tracked(opt', src')
      BY <3>2, LeadsSelf DEF Good, Tracks
    <3> QED
      BY <3>1, <3>2, <3>3
  <2>11. CASE Finish
    BY <2>11 DEF Finish
  <2> QED
    BY <1>3, <2>5, <2>6, <2>7, <2>8, <2>9, <2>10, <2>11 DEF Run, RunNext
<1> QED
  BY <1>1, <1>2, <1>3 DEF Next, Done

(* The two are in lockstep in every state the specification reaches.       *)
THEOREM InLockstep == Spec => []LockOK
<1>1. Init => LockOK
  BY DEF Init, EquivInit, LockOK, Running
<1> QED
  BY <1>1, LockHolds, PropagationReturns, PTL DEF Spec

(* Copy propagation preserves what a function shows: at every call and     *)
(* return the function it returns shows its environment what the original  *)
(* one shows, and meets no undefined behaviour on the way.                 *)
THEOREM PropagationIsEquivalent == Spec => []ObservablyEquivalent
<1>1. PassOK /\ LockOK => ObservablyEquivalent
  <2> SUFFICES ASSUME PassOK, LockOK PROVE ObservablyEquivalent
    OBVIOUS
  <2>1. ASSUME phase = "target" PROVE ~Undefined(out, opt)
    <3>1. prog \in FunctionBodies /\ Solves(prog, blockOut) /\ Optimized(prog, blockOut, out)
      BY <2>1, RunningOptimized
    <3>2. AtEvent(prog, src)
      BY <2>1 DEF LockOK
    <3>3. PICK u : Tracks(prog, blockOut, opt, u, src)
      BY <2>1 DEF LockOK
    <3> QED
      BY <3>1, <3>2, <3>3, TracksOn
  <2>2. ASSUME phase = "event" PROVE Observed(prog, src, Reach) = Observed(out, opt, Reach)
    <3>1. prog \in FunctionBodies /\ Solves(prog, blockOut) /\ Optimized(prog, blockOut, out)
      BY <2>2, RunningOptimized
    <3>2. Good(src) /\ opt = Img(Kept(prog, blockOut), src) /\ AtEvent(prog, src)
      BY <2>2 DEF LockOK, Running
    <3>3. MachineOK(prog, src) /\ Believed(prog, blockOut, src)
      BY <3>2 DEF Good
    <3>4. src.pc \in DOMAIN prog \/ src.pc = Len(prog) + 1
      BY <3>1, <3>3 DEF MachineOK, FunctionBodies
    <3>5. CASE src.pc = Len(prog) + 1
      BY <3>1, <3>2, <3>5, SameEnd
    <3>6. CASE src.pc \in DOMAIN prog
      <4>1. src.pc \in Kept(prog, blockOut)
        BY <3>1, <3>2, <3>3, <3>6, LeftOut
      <4> QED
        BY <3>1, <3>2, <3>3, <4>1, ImageReadsAlike
    <3> QED
      BY <3>4, <3>5, <3>6
  <2> QED
    BY <2>1, <2>2 DEF ObservablyEquivalent
<1> QED
  BY <1>1, PropagationReturns, InLockstep, PTL
============================================================================
