----------------------------- MODULE Cse_proof -----------------------------
(* Both passes that reuse values computed before are correct for every     *)
(* function: what they believe to be held by a variable is, and the        *)
(* function they return shows its environment what the one they were given *)
(* shows it.                                                               *)
EXTENDS Cse, Tacky_proof
----------------------------------------------------------------------------
(* What an instruction computes.                                           *)
Candidates == {"op", "typed", "addr", "laddr", "frame", "load", "get"}

(* The result depends on the values of the operands, for a load on what    *)
(* they point to, and not on where it goes.                                *)
LEMMA ComputedAgrees ==
    ASSUME NEW s, NEW t, NEW i, NEW j, i.k \in Candidates,
           j.k = i.k, j.src = i.src, j.at = i.at,
           i.k # "addr" => \A n \in DOMAIN i.src : Value(t.mem, i.src[n]) = Value(s.mem, i.src[n]),
           i.k = "load" =>
              /\ 1 \in DOMAIN i.src
              /\ t.mem[Value(s.mem, i.src[1])[2]] = s.mem[Value(s.mem, i.src[1])[2]]
    PROVE  Computed(t, j) = Computed(s, i)
<1> DEFINE a == [n \in DOMAIN i.src |-> Value(s.mem, i.src[n])]
           c == [n \in DOMAIN j.src |-> Value(t.mem, j.src[n])]
<1>1. CASE i.k = "addr"
  BY <1>1 DEF Computed
<1>2. CASE i.k # "addr"
  <2>1. a = c
    BY <1>2
  <2>2. i.k = "load" => a[1] = Value(s.mem, i.src[1])
    OBVIOUS
  <2> HIDE DEF a, c
  <2>3. CASE i.k = "op"
    <3>1. Computed(s, i) = OpResult(i.at, a)
      BY <2>3 DEF Computed, a
    <3>2. Computed(t, j) = OpResult(j.at, c)
      BY <2>3 DEF Computed, c
    <3> QED
      BY <2>1, <3>1, <3>2
  <2>4. CASE i.k = "typed"
    <3>1. Computed(s, i) = TypedResult(OperandType(i.src[1]), a[1])
      BY <2>4 DEF Computed, a
    <3>2. Computed(t, j) = TypedResult(OperandType(j.src[1]), c[1])
      BY <2>4 DEF Computed, c
    <3> QED
      BY <2>1, <3>1, <3>2
  <2>5. CASE i.k = "load"
    <3>1. Computed(s, i) = s.mem[a[1][2]]
      BY <2>5 DEF Computed, a
    <3>2. Computed(t, j) = t.mem[c[1][2]]
      BY <2>5 DEF Computed, c
    <3> QED
      BY <2>1, <2>2, <2>5, <3>1, <3>2
  <2>6. CASE i.k = "get"
    <3>1. Computed(s, i) = N(Member(a[1], i.at))
      BY <2>6 DEF Computed, a
    <3>2. Computed(t, j) = N(Member(c[1], j.at))
      BY <2>6 DEF Computed, c
    <3> QED
      BY <2>1, <3>1, <3>2
  <2>7. CASE i.k = "laddr"
    BY <2>7 DEF Computed
  <2>8. CASE i.k = "frame"
    BY <2>8 DEF Computed
  <2> QED
    BY <1>2, <2>3, <2>4, <2>5, <2>6, <2>7, <2>8 DEF Candidates
<1> QED
  BY <1>1, <1>2

(* Sorting the operands of a commutative operation does not change it.     *)
LEMMA SortedIsEither ==
    ASSUME NEW i
    PROVE  \/ SortedOperands(i) = i.src
           \/ Commutes(i) /\ SortedOperands(i) = Reverse(i.src)
BY DEF SortedOperands

(* A list of one operand is its own reverse.                               *)
LEMMA ReverseOfOne ==
    ASSUME NEW O, NEW w \in Seq(O), Len(w) = 1
    PROVE  Reverse(w) = w
<1>1. Reverse(w) = [n \in 1 .. 1 |-> w[(1 - n) + 1]]
  BY DEF Reverse
<1>2. \A n \in 1 .. 1 : w[(1 - n) + 1] = w[n]
  OBVIOUS
<1>3. Reverse(w) = [n \in 1 .. 1 |-> w[n]]
  BY <1>1, <1>2
<1>4. w = [n \in 1 .. 1 |-> w[n]]
  OBVIOUS
<1> QED
  BY <1>3, <1>4

(* The reverse of two operands exchanges them.                             *)
LEMMA ReverseOfTwo ==
    ASSUME NEW O, NEW w \in Seq(O), Len(w) = 2
    PROVE  /\ DOMAIN Reverse(w) = 1 .. 2 /\ Len(Reverse(w)) = 2
           /\ Reverse(w)[1] = w[2] /\ Reverse(w)[2] = w[1]
<1>1. Reverse(w) = [n \in 1 .. 2 |-> w[(2 - n) + 1]]
  BY DEF Reverse
<1>2. 1 \in 1 .. 2 /\ 2 \in 1 .. 2 /\ (2 - 1) + 1 = 2 /\ (2 - 2) + 1 = 1
  OBVIOUS
<1>3. Reverse(w)[1] = w[2] /\ Reverse(w)[2] = w[1] /\ DOMAIN Reverse(w) = 1 .. 2
  BY <1>1, <1>2
<1>4. Len(Reverse(w)) = 2
  BY <1>1
<1> QED
  BY <1>3, <1>4

(* An addition gives the same whichever of its operands comes first.       *)
LEMMA SwappedSum ==
    ASSUME NEW a, NEW c, DOMAIN a = 1 .. 2, DOMAIN c = 1 .. 2, Len(a) = 2, Len(c) = 2,
           c[1] = a[2], c[2] = a[1], IsNumber(a[1]), IsNumber(a[2])
    PROVE  OpResult("", c) = OpResult("", a)
<1>1. a[1][2] \in Int /\ a[2][2] \in Int
  BY ModAssumption DEF IsNumber
<1>2. Total(a) = a[1][2] + a[2][2] /\ Total(c) = a[2][2] + a[1][2]
  BY DEF Total
<1>3. Total(a) = Total(c)
  BY <1>1, <1>2
<1> QED
  BY <1>3 DEF OpResult

(* So an expression has the value that the instruction computes.           *)
LEMMA KeyComputes ==
    ASSUME NEW P \in FunctionBodies, NEW s, s.pc \in DOMAIN P, ~Undefined(P, s), ~AtEvent(P, s),
           P[s.pc].k \in Candidates, NEW x
    PROVE  Computed(s, Instr(P[s.pc].k, SortedOperands(P[s.pc]), x, P[s.pc].at))
             = Computed(s, P[s.pc])
<1> DEFINE i == P[s.pc]
           j == Instr(i.k, SortedOperands(i), x, i.at)
<1>1. i \in Instructions
  BY DEF FunctionBodies
<1>2. j.k = i.k /\ j.src = SortedOperands(i) /\ j.at = i.at
  <2> HIDE DEF i
  <2> QED
    BY DEF Instr
<1>3. i.k = "op" => \A n \in DOMAIN i.src : IsNumber(Value(s.mem, i.src[n]))
  <2> DEFINE a == [n \in DOMAIN i.src |-> Value(s.mem, i.src[n])]
  <2>1. i.k = "op" => \A n \in DOMAIN a : IsNumber(a[n])
    BY DEF Undefined
  <2> QED
    BY <2>1
<1>4. i.k = "load" => 1 \in DOMAIN i.src
  BY <1>1, FirstOperand
<1> SUFFICES Computed(s, j) = Computed(s, i)
  OBVIOUS
<1>4a. i.k \in Candidates
  OBVIOUS
<1> HIDE DEF i, j
<1>5. CASE SortedOperands(i) = i.src
  BY <1>2, <1>4, <1>4a, <1>5, ComputedAgrees
<1>6. CASE Commutes(i) /\ SortedOperands(i) = Reverse(i.src)
  <2> DEFINE w == i.src
             O == Operands
  <2>1. w \in Seq(O) /\ i.k = "op" /\ i.at = ""
    BY <1>1, <1>6, InstructionFields DEF Commutes
  <2>2. Len(w) \in {1, 2}
    <3>1. HasFields(i)
      BY <1>1, InstructionFields
    <3>2. Len(w) \in IF i.at \in {"minus", "div"} THEN {2} ELSE {1, 2}
      BY <2>1, <3>1, Zenon DEF HasFields
    <3> QED
      BY <2>1, <3>2
  <2>3. CASE Len(w) = 1
    <3> HIDE DEF w, O
    <3>1. Reverse(w) = w
      BY <2>1, <2>3, ReverseOfOne
    <3> QED
      BY <1>5, <1>6, <3>1 DEF w
  <2>4. CASE Len(w) = 2
    <3> DEFINE r == Reverse(w)
               a == [n \in DOMAIN w |-> Value(s.mem, w[n])]
               c == [n \in DOMAIN r |-> Value(s.mem, r[n])]
    <3>0. \A n \in DOMAIN w : IsNumber(Value(s.mem, w[n]))
      BY <1>3, <2>1
    <3>0a. Computed(s, i) = OpResult(i.at, a)
      BY <2>1 DEF Computed
    <3>0b. Computed(s, j) = OpResult(j.at, c)
      <4>1. j.src = r /\ j.k = "op"
        BY <1>2, <1>6, <2>1
      <4> HIDE DEF r
      <4> QED
        BY <4>1 DEF Computed
    <3> HIDE DEF w, O
    <3>1b. w \in Seq(O)
      BY <2>1
    <3>1. DOMAIN r = 1 .. 2 /\ Len(r) = 2 /\ r[1] = w[2] /\ r[2] = w[1]
      BY <2>4, <3>1b, ReverseOfTwo
    <3>1a. DOMAIN w = 1 .. 2
      BY <2>4, <3>1b
    <3> HIDE DEF r
    <3>2. /\ DOMAIN a = 1 .. 2 /\ DOMAIN c = 1 .. 2 /\ Len(a) = 2 /\ Len(c) = 2
          /\ c[1] = a[2] /\ c[2] = a[1] /\ IsNumber(a[1]) /\ IsNumber(a[2])
      BY <3>0, <3>1, <3>1a
    <3> HIDE DEF a, c
    <3>3. OpResult("", c) = OpResult("", a)
      BY <3>2, SwappedSum
    <3> QED
      BY <1>2, <2>1, <3>0a, <3>0b, <3>3
  <2> QED
    BY <2>2, <2>3, <2>4
<1> QED
  BY <1>5, <1>6, SortedIsEither
----------------------------------------------------------------------------
(* An expression is available when its holder has its value; a pointer it  *)
(* is loaded through is one.                                               *)
ExprFacts ==
    {f \in Availables : f.key.k \in Candidates /\ (f.key.k = "load" => 1 \in DOMAIN f.key.src)}

ExprHolds(f, s) ==
    /\ s.mem[f.holder] = Computed(s, Instr(f.key.k, f.key.src, f.holder, f.key.at))
    /\ f.key.k = "load" => Value(s.mem, f.key.src[1])[1] = "a"

(* The fields of such a fact.                                              *)
LEMMA ExprFactFields ==
    ASSUME NEW f \in ExprFacts
    PROVE  /\ f.holder \in Vars /\ f.key.k \in Candidates
           /\ f.key.k = "load" => 1 \in DOMAIN f.key.src
           /\ \A n \in DOMAIN f.key.src : f.key.src[n] \in Operands
<1>1. f \in Availables /\ f.key.k \in Candidates /\ (f.key.k = "load" => 1 \in DOMAIN f.key.src)
  BY Zenon DEF ExprFacts
<1>2. f.holder \in Vars /\ f.key \in Exprs
  BY <1>1 DEF Availables
<1> DEFINE w == f.key.src
           O == Operands
<1> HIDE DEF O
<1>3. w \in Seq(O)
  BY <1>2 DEF Exprs, O
<1> HIDE DEF w
<1>4. \A n \in DOMAIN w : w[n] \in O
  BY <1>3
<1> QED
  BY <1>1, <1>2, <1>4, Zenon DEF w, O

(* The state t after s has written x.                                      *)
WritesOnly(P, s, x, t) ==
    /\ P \in FunctionBodies /\ MachineOK(P, s) /\ x \in Mentioned(P)
    /\ \A y \in Vars : y # x => t.mem[y] = s.mem[y]

(* Writing one variable the function mentions is such a write.             *)
LEMMA UpdateWritesOnly ==
    ASSUME NEW P \in FunctionBodies, NEW s, MachineOK(P, s), NEW x \in Mentioned(P), NEW v,
           NEW t, t.mem = [s.mem EXCEPT ![x] = v]
    PROVE  WritesOnly(P, s, x, t)
<1>1. s.mem = [y \in Vars |-> s.mem[y]]
  BY DEF MachineOK, MemoryOK
<1> QED
  BY <1>1 DEF WritesOnly

(* Writing x does not change an expression that does not use it: a load     *)
(* only when no pointer reaches x.                                         *)
LEMMA KeyUnaffected ==
    ASSUME NEW P, NEW s, NEW x, NEW t, WritesOnly(P, s, x, t), NEW key, NEW h,
           key.k \in Candidates, \A n \in DOMAIN key.src : key.src[n] \in Operands,
           key.k = "load" => 1 \in DOMAIN key.src /\ Value(s.mem, key.src[1])[1] = "a",
           x \notin Uses(key), x \in FunctionAliasedVars(P) => key.k # "load"
    PROVE  /\ Computed(t, Instr(key.k, key.src, h, key.at))
                = Computed(s, Instr(key.k, key.src, h, key.at))
           /\ key.k = "load" => Value(t.mem, key.src[1])[1] = "a"
<1> DEFINE j == Instr(key.k, key.src, h, key.at)
<1>1. j.k = key.k /\ j.src = key.src /\ j.at = key.at
  BY DEF Instr
<1> HIDE DEF j
<1>2. P \in FunctionBodies /\ MachineOK(P, s) /\ x \in Mentioned(P)
  BY DEF WritesOnly
<1>3. \A y \in Vars : y # x => t.mem[y] = s.mem[y]
  BY DEF WritesOnly
<1>4. key.k # "addr" => \A n \in DOMAIN key.src : Value(t.mem, key.src[n]) = Value(s.mem, key.src[n])
  <2> SUFFICES ASSUME key.k # "addr", NEW n \in DOMAIN key.src
               PROVE  Value(t.mem, key.src[n]) = Value(s.mem, key.src[n])
    OBVIOUS
  <2> DEFINE o == key.src[n]
  <2>1. o \in Operands /\ o \in ToSet(key.src)
    BY DEF ToSet
  <2>2. IsVar(o) => o[2] \in Uses(key)
    BY <2>1 DEF Uses
  <2> HIDE DEF o
  <2>3. IsVar(o) => o[2] \in Vars /\ o[2] # x
    BY <2>1, <2>2, OperandForms
  <2>4. Value(t.mem, o) = Value(s.mem, o)
    BY <1>3, <2>3 DEF Value
  <2> QED
    BY <2>4 DEF o
<1>5. key.k = "load" => t.mem[Value(s.mem, key.src[1])[2]] = s.mem[Value(s.mem, key.src[1])[2]]
  <2> SUFFICES ASSUME key.k = "load"
               PROVE  t.mem[Value(s.mem, key.src[1])[2]] = s.mem[Value(s.mem, key.src[1])[2]]
    OBVIOUS
  <2> DEFINE p == Value(s.mem, key.src[1])
  <2>1. p[1] = "a" /\ key.src[1] \in Operands
    OBVIOUS
  <2>2. ValueOK(P, p)
    BY <1>2, <2>1, OperandValueOK DEF MachineOK
  <2>3. p[2] \in Reachable(P) /\ p[2] \in Vars
    BY <1>2, <2>1, <2>2, ReachableAreVars DEF ValueOK
  <2>4. x \notin Reachable(P)
    BY <1>2, ReachableIsAliased
  <2> HIDE DEF p
  <2>5. t.mem[p[2]] = s.mem[p[2]]
    BY <1>3, <2>3, <2>4
  <2> QED
    BY <2>5 DEF p
<1>6. Computed(t, j) = Computed(s, j)
  <2>1. j.k \in Candidates
    BY <1>1
  <2>2. j.k # "addr" => \A n \in DOMAIN j.src : Value(t.mem, j.src[n]) = Value(s.mem, j.src[n])
    BY <1>1, <1>4
  <2>3. j.k = "load" => /\ 1 \in DOMAIN j.src
                        /\ t.mem[Value(s.mem, j.src[1])[2]] = s.mem[Value(s.mem, j.src[1])[2]]
    BY <1>1, <1>5
  <2> QED
    BY <2>1, <2>2, <2>3, ComputedAgrees
<1>7. key.k = "load" => Value(t.mem, key.src[1])[1] = "a"
  BY <1>4
<1> QED
  BY <1>6, <1>7 DEF j

(* What survives the write of x holds after it.                            *)
LEMMA KeptExprHolds ==
    ASSUME NEW P \in FunctionBodies, NEW s, MachineOK(P, s), NEW x \in Mentioned(P),
           NEW f \in ExprFacts, f.holder # x, x \notin Uses(f.key),
           x \in FunctionAliasedVars(P) => f.key.k # "load", ExprHolds(f, s),
           NEW v, NEW t, t.mem = [s.mem EXCEPT ![x] = v]
    PROVE  ExprHolds(f, t)
<1>1. /\ f.holder \in Vars /\ f.key.k \in Candidates
      /\ f.key.k = "load" => 1 \in DOMAIN f.key.src
      /\ \A n \in DOMAIN f.key.src : f.key.src[n] \in Operands
  BY ExprFactFields
<1> DEFINE j == Instr(f.key.k, f.key.src, f.holder, f.key.at)
<1>2. s.mem[f.holder] = Computed(s, j) /\ (f.key.k = "load" => Value(s.mem, f.key.src[1])[1] = "a")
  BY DEF ExprHolds
<1>2a. WritesOnly(P, s, x, t)
  BY UpdateWritesOnly
<1>3. Computed(t, j) = Computed(s, j) /\ (f.key.k = "load" => Value(t.mem, f.key.src[1])[1] = "a")
  BY <1>1, <1>2, <1>2a, KeyUnaffected
<1>4. t.mem[f.holder] = s.mem[f.holder]
  <2>1. s.mem = [y \in Vars |-> s.mem[y]]
    BY DEF MachineOK, MemoryOK
  <2> QED
    BY <1>1, <2>1
<1> QED
  BY <1>2, <1>3, <1>4 DEF ExprHolds

(* The expression an instruction computes, held by its destination.        *)
NewExpr(i) == [key |-> ExprKey(i), holder |-> i.dst]

(* It is a fact the analysis may have.                                     *)
LEMMA NewExprIsFact ==
    ASSUME NEW i \in Instructions, i.k \in Candidates
    PROVE  /\ NewExpr(i) \in ExprFacts
           /\ ExprKey(i).k = i.k /\ ExprKey(i).src = SortedOperands(i) /\ ExprKey(i).at = i.at
           /\ NewExpr(i).key = ExprKey(i) /\ NewExpr(i).holder = i.dst
<1>1. /\ i.src \in Seq(Operands) /\ HasFields(i) /\ i.dst \in Vars \cup {""} /\ i.k \in Kinds
  BY InstructionFields
<1>2. i.at \in STRING
  BY DEF Instructions
<1>3. i.dst \in Vars
  <2>1. i.dst # ""
    BY <1>1 DEF HasFields, Candidates
  <2> QED
    BY <1>1, <2>1
<1> DEFINE w == SortedOperands(i)
           O == Operands
           ty == TypeOf[i.dst]
<1>4. ty \in {"int", "uint", "wide", "agg"}
  BY <1>3, TypeOfAssumption
<1> HIDE DEF ty
<1>5. w \in Seq(O)
  <2> DEFINE u == i.src
  <2>1. u \in Seq(O)
    BY <1>1
  <2> HIDE DEF O, u
  <2>2. Reverse(u) \in Seq(O)
    <3>1. \A n \in 1 .. Len(u) : (Len(u) - n) + 1 \in 1 .. Len(u)
      BY <2>1
    <3> QED
      BY <2>1, <3>1 DEF Reverse
  <2>3. w = u \/ w = Reverse(u)
    BY SortedIsEither DEF u
  <2> HIDE DEF w
  <2> QED
    BY <2>1, <2>2, <2>3
<1> DEFINE key == [k |-> i.k, src |-> w, at |-> i.at, type |-> ty]
<1>6. ExprKey(i) = key
  BY DEF ExprKey, ty
<1>7. i.k = "load" => 1 \in DOMAIN w
  <2>1. i.k = "load" => 1 \in DOMAIN i.src
    BY FirstOperand
  <2>2. i.k = "load" => w = i.src
    BY SortedIsEither DEF Commutes
  <2> QED
    BY <2>1, <2>2
<1> HIDE DEF w, O
<1>8. key \in [k : Kinds, src : Seq(O), at : STRING, type : {"int", "uint", "wide", "agg"}]
  BY <1>1, <1>2, <1>4, <1>5
<1>9. key \in Exprs
  BY <1>8 DEF Exprs, O
<1>10. key.k = i.k /\ key.src = w /\ key.at = i.at
  OBVIOUS
<1> HIDE DEF key
<1> DEFINE f == [key |-> key, holder |-> i.dst]
<1>11. f \in Availables /\ f.key = key /\ f.holder = i.dst
  BY <1>3, <1>9 DEF Availables
<1>12. NewExpr(i) = f
  BY <1>6 DEF NewExpr
<1> HIDE DEF f
<1>13. f \in ExprFacts
  BY <1>7, <1>10, <1>11 DEF ExprFacts
<1> QED
  BY <1>6, <1>10, <1>11, <1>12, <1>13 DEF w

(* It holds after the instruction, which does not use its destination.     *)
LEMMA NewExprHolds ==
    ASSUME NEW P \in FunctionBodies, NEW s, MachineOK(P, s), s.pc \in DOMAIN P,
           ~Undefined(P, s), ~AtEvent(P, s), IsCandidate(FunctionAliasedVars(P), P[s.pc]),
           P[s.pc].dst \notin Uses(ExprKey(P[s.pc])),
           NEW t, t.mem = [s.mem EXCEPT ![P[s.pc].dst] = Computed(s, P[s.pc])]
    PROVE  ExprHolds(NewExpr(P[s.pc]), t)
<1> DEFINE i == P[s.pc]
           f == NewExpr(i)
           key == ExprKey(i)
           j == Instr(key.k, key.src, i.dst, key.at)
<1>1. i \in Instructions /\ i.k \in Candidates
  BY DEF FunctionBodies, IsCandidate, Candidates
<1>2. /\ f \in ExprFacts /\ f.key = key /\ f.holder = i.dst
      /\ key.k = i.k /\ key.src = SortedOperands(i) /\ key.at = i.at
  BY <1>1, NewExprIsFact
<1>3. i.dst \in Vars /\ i.dst \in Mentioned(P)
  <2>1. i.dst # ""
    <3>1. HasFields(i)
      BY <1>1, InstructionFields
    <3> QED
      BY <1>1, <3>1 DEF HasFields, Candidates
  <2> QED
    BY <2>1, MentionedVars
<1>4. Computed(s, j) = Computed(s, i)
  BY <1>1, <1>2, KeyComputes
<1>5. i.k = "load" => Value(s.mem, key.src[1])[1] = "a"
  <2>1. i.k = "load" => key.src = i.src
    BY <1>2, SortedIsEither DEF Commutes
  <2>2. i.k = "load" => 1 \in DOMAIN i.src
    BY <1>1, FirstOperand
  <2>3. i.k = "load" /\ 1 \in DOMAIN i.src => Value(s.mem, i.src[1])[1] = "a"
    BY DEF Undefined
  <2> QED
    BY <2>1, <2>2, <2>3
<1>6. i.dst \notin FunctionAliasedVars(P)
  BY DEF IsCandidate
<1>7. t.mem[i.dst] = Computed(s, i)
  <2>1. s.mem = [y \in Vars |-> s.mem[y]]
    BY DEF MachineOK, MemoryOK
  <2> QED
    BY <1>3, <2>1
<1>8. /\ \A n \in DOMAIN key.src : key.src[n] \in Operands
      /\ key.k = "load" => 1 \in DOMAIN key.src
  <2>1. /\ \A n \in DOMAIN f.key.src : f.key.src[n] \in Operands
        /\ f.key.k = "load" => 1 \in DOMAIN f.key.src
    BY <1>2, ExprFactFields
  <2> QED
    BY <1>2, <2>1
<1>9. t.mem = [s.mem EXCEPT ![i.dst] = Computed(s, i)] /\ i.dst \notin Uses(key)
  OBVIOUS
<1> SUFFICES ExprHolds(f, t)
  OBVIOUS
<1> HIDE DEF i, key, f
<1>9a. WritesOnly(P, s, i.dst, t)
  BY <1>3, <1>9, UpdateWritesOnly
<1>10. /\ Computed(t, j) = Computed(s, j)
       /\ key.k = "load" => Value(t.mem, key.src[1])[1] = "a"
  BY <1>1, <1>2, <1>5, <1>6, <1>8, <1>9, <1>9a, KeyUnaffected
<1> QED
  BY <1>2, <1>4, <1>7, <1>10 DEF ExprHolds

(* What the transfer function leaves: what survives, and the new one.      *)
ExprAfter(aliased, R, i, f) ==
    \/ ~IsBarrier(i) /\ f \in KillExprs(aliased, R, i.dst)
    \/ IsCandidate(aliased, i) /\ i.dst \notin Uses(ExprKey(i)) /\ f = NewExpr(i)

(* That is all the transfer function leaves.                               *)
LEMMA TransferLeaves ==
    ASSUME NEW aliased, NEW R, NEW i, NEW f \in TransferExpr(aliased, R, i)
    PROVE  ExprAfter(aliased, R, i, f)
<1>1. \A x : KillExprs(aliased, {}, x) = {}
  BY DEF KillExprs
<1> QED
  BY <1>1 DEF TransferExpr, ExprAfter, NewExpr

(* Once the instruction is replaced by a copy nothing else is left.        *)
LEMMA RetransferLeaves ==
    ASSUME NEW aliased, NEW R, NEW i, NEW f \in TransferExpr(aliased, R, Reused(aliased, R, i))
    PROVE  ExprAfter(aliased, R, i, f)
<1> DEFINE H == HeldExprs(aliased, R, i)
           h == (CHOOSE g \in H : TRUE).holder
           j == Copy(V(h), i.dst)
<1>1. CASE H = {}
  <2>1. Reused(aliased, R, i) = i
    BY <1>1 DEF Reused
  <2> QED
    BY <2>1, TransferLeaves
<1>2. CASE H # {}
  <2>1. Reused(aliased, R, i) = j
    BY <1>2 DEF Reused
  <2>2. IsCandidate(aliased, i)
    BY <1>2 DEF HeldExprs
  <2>3. ~IsBarrier(i)
    BY <2>2 DEF IsCandidate, IsBarrier, Clears
  <2>4. j.k = "copy" /\ j.dst = i.dst
    BY DEF Copy, Instr
  <2> HIDE DEF j
  <2>5. ExprAfter(aliased, R, j, f)
    BY <2>1, TransferLeaves
  <2>6. ~IsCandidate(aliased, j)
    BY <2>4 DEF IsCandidate
  <2>7. f \in KillExprs(aliased, R, i.dst)
    BY <2>4, <2>5, <2>6 DEF ExprAfter
  <2> QED
    BY <2>3, <2>7 DEF ExprAfter
<1> QED
  BY <1>1, <1>2

(* They are facts.                                                         *)
LEMMA AfterAreFacts ==
    ASSUME NEW aliased, NEW R \in SUBSET ExprFacts, NEW i \in Instructions, NEW f,
           ExprAfter(aliased, R, i, f)
    PROVE  f \in ExprFacts
<1>1. CASE f \in KillExprs(aliased, R, i.dst)
  BY <1>1 DEF KillExprs
<1>2. CASE IsCandidate(aliased, i) /\ f = NewExpr(i)
  <2>1. i.k \in Candidates
    BY <1>2 DEF IsCandidate, Candidates
  <2> QED
    BY <1>2, <2>1, NewExprIsFact
<1> QED
  BY <1>1, <1>2 DEF ExprAfter

(* They hold after the instruction.                                        *)
LEMMA AfterHolds ==
    ASSUME NEW P \in FunctionBodies, NEW s, MachineOK(P, s), s.pc \in DOMAIN P,
           ~Undefined(P, s), ~AtEvent(P, s),
           NEW R \in SUBSET ExprFacts, \A f \in R : ExprHolds(f, s),
           NEW f, ExprAfter(FunctionAliasedVars(P), R, P[s.pc], f),
           NEW t, t.mem = Written(s, P[s.pc])
    PROVE  ExprHolds(f, t)
<1> DEFINE i == P[s.pc]
           A == FunctionAliasedVars(P)
<1>1. i \in Instructions
  BY DEF FunctionBodies
<1>2. /\ i.k \in Operational <=> i.dst # ""
      /\ i.k \in Operational \ {"atomic"} => Written(s, i) = [s.mem EXCEPT ![i.dst] = Computed(s, i)]
      /\ i.k \notin Operational \cup {"store"} => Written(s, i) = s.mem
  BY WrittenOK
<1>3. i.dst # "" => i.dst \in Mentioned(P)
  BY MentionedVars
<1>4. CASE IsCandidate(A, i) /\ i.dst \notin Uses(ExprKey(i)) /\ f = NewExpr(i)
  <2>1. i.k \in Operational \ {"atomic"}
    BY <1>4 DEF IsCandidate, Operational
  <2> QED
    BY <1>2, <1>4, <2>1, NewExprHolds
<1>5. CASE ~IsBarrier(i) /\ f \in KillExprs(A, R, i.dst)
  <2>1. i.k \notin {"atomic", "store"}
    BY <1>5 DEF IsBarrier, Clears
  <2>2. /\ f \in R /\ f \in ExprFacts /\ ExprHolds(f, s)
        /\ f.holder # i.dst /\ i.dst \notin Uses(f.key) /\ (i.dst \in A => f.key.k # "load")
    BY <1>5 DEF KillExprs
  <2>3. CASE i.k \in Operational
    <3>1. i.dst # "" /\ i.dst \in Mentioned(P) /\ t.mem = [s.mem EXCEPT ![i.dst] = Computed(s, i)]
      BY <1>2, <1>3, <2>1, <2>3
    <3> HIDE DEF i, A
    <3> QED
      BY <2>2, <3>1, KeptExprHolds DEF A
  <2>4. CASE i.k \notin Operational
    <3>1. t.mem = s.mem
      BY <1>2, <2>1, <2>4
    <3> DEFINE j == Instr(f.key.k, f.key.src, f.holder, f.key.at)
    <3>2. Computed(t, j) = Computed(s, j)
      <4>1. \A n \in DOMAIN f.key.src : Value(t.mem, f.key.src[n]) = Value(s.mem, f.key.src[n])
        BY <3>1
      <4>2. j.k = f.key.k /\ j.src = f.key.src /\ j.at = f.key.at
        BY DEF Instr
      <4>3. f.key.k \in Candidates /\ (f.key.k = "load" => 1 \in DOMAIN f.key.src)
        BY <2>2, ExprFactFields
      <4> HIDE DEF j
      <4> QED
        BY <3>1, <4>1, <4>2, <4>3, ComputedAgrees
    <3> QED
      BY <2>2, <3>1, <3>2 DEF ExprHolds
  <2> QED
    BY <2>3, <2>4
<1> QED
  BY <1>4, <1>5 DEF ExprAfter

(* Nothing is left by what gives up control.                               *)
LEMMA NothingAfterBarrier ==
    ASSUME NEW aliased, NEW R, NEW i, NEW f, ExprAfter(aliased, R, i, f), i.k \in {"call", "icall", "setjmp"}
    PROVE  FALSE
BY DEF ExprAfter, IsBarrier, Clears, IsCandidate
----------------------------------------------------------------------------
(* The expressions along a block: facts, and each set follows from the one *)
(* before as the transfer function has it.                                 *)
Carried(P, b, after) ==
    LET M == Len(Cfg(P)[b].code)
    IN  /\ \A n \in 0 .. M : after[n] \in SUBSET ExprFacts
        /\ \A n \in 1 .. M : \A f \in after[n] :
              ExprAfter(FunctionAliasedVars(P), after[n - 1], P[Starts(P)[b] + n - 1], f)

(* The recursion along a block gives such sets.                            *)
LEMMA CarriedAlong ==
    ASSUME NEW P \in FunctionBodies, NEW b \in DOMAIN Cfg(P), NEW R \in SUBSET ExprFacts,
           NEW step, Len(step) = Len(Cfg(P)[b].code),
           \A n \in 1 .. Len(step) : \A S \in SUBSET ExprFacts : \A f \in step[n][S] :
              ExprAfter(FunctionAliasedVars(P), S, Cfg(P)[b].code[n], f)
    PROVE  Carried(P, b, Along(step, R)) /\ Along(step, R)[0] = R
<1> DEFINE code == Cfg(P)[b].code
           M == Len(code)
           A == FunctionAliasedVars(P)
           after == Along(step, R)
<1>1. /\ M \in Nat
      /\ \A n \in 1 .. M : code[n] = P[Starts(P)[b] + n - 1] /\ code[n] \in Instructions
  BY BlockInstructions
<1>2. /\ Len(step) = M
      /\ \A n \in 1 .. M : \A S \in SUBSET ExprFacts : \A f \in step[n][S] : ExprAfter(A, S, code[n], f)
  OBVIOUS
<1> SUFFICES /\ \A n \in 0 .. M : after[n] \in SUBSET ExprFacts
             /\ \A n \in 1 .. M : \A f \in after[n] : ExprAfter(A, after[n - 1], P[Starts(P)[b] + n - 1], f)
             /\ after[0] = R
  BY DEF Carried
<1> HIDE DEF code, M, A
<1>3. \A n \in 1 .. M : \A S \in SUBSET ExprFacts : step[n][S] \in SUBSET ExprFacts
  BY <1>1, <1>2, AfterAreFacts
<1>4. \A n \in 0 .. M : after[n] \in SUBSET ExprFacts
  BY <1>1, <1>2, <1>3, AlongStaysIn
<1>5. after[0] = R /\ \A n \in 1 .. M : after[n] = step[n][after[n - 1]]
  BY <1>1, <1>2, AlongIsDefined
<1> HIDE DEF after
<1>6. \A n \in 1 .. M : n - 1 \in 0 .. M
  BY <1>1
<1> QED
  BY <1>1, <1>2, <1>4, <1>5, <1>6

(* So does the analysis of a block.                                        *)
LEMMA TransferredIsCarried ==
    ASSUME NEW P \in FunctionBodies, NEW b \in DOMAIN Cfg(P), NEW R \in SUBSET ExprFacts,
           NEW after, after = Transferred(FunctionAliasedVars(P), R, Cfg(P)[b].code)
    PROVE  Carried(P, b, after) /\ after[0] = R
<1> DEFINE A == FunctionAliasedVars(P)
           code == Cfg(P)[b].code
           step == [n \in DOMAIN code |-> [S \in SUBSET Availables |-> TransferExpr(A, S, code[n])]]
<1>1. after = Along(step, R)
  BY DEF Transferred
<1>2. Len(code) \in Nat /\ DOMAIN code = 1 .. Len(code)
  BY BlockInstructions
<1>3. ExprFacts \subseteq Availables
  BY DEF ExprFacts
<1> HIDE DEF code, A
<1>4. Len(step) = Len(code)
  BY <1>2
<1>5. \A n \in 1 .. Len(code) : \A S \in SUBSET ExprFacts : step[n][S] = TransferExpr(A, S, code[n])
  BY <1>2, <1>3
<1> HIDE DEF step
<1>6. \A n \in 1 .. Len(step) : \A S \in SUBSET ExprFacts : \A f \in step[n][S] : ExprAfter(A, S, code[n], f)
  BY <1>4, <1>5, TransferLeaves
<1>7. /\ Len(step) = Len(Cfg(P)[b].code)
      /\ \A n \in 1 .. Len(step) : \A S \in SUBSET ExprFacts : \A f \in step[n][S] :
            ExprAfter(FunctionAliasedVars(P), S, Cfg(P)[b].code[n], f)
  BY <1>4, <1>6 DEF code, A
<1>8. Carried(P, b, Along(step, R)) /\ Along(step, R)[0] = R
  BY <1>7, CarriedAlong
<1> QED
  BY <1>1, <1>8

(* And its rewrite.                                                        *)
LEMMA RetransferredIsCarried ==
    ASSUME NEW P \in FunctionBodies, NEW b \in DOMAIN Cfg(P), NEW R \in SUBSET ExprFacts,
           NEW after, after = Retransferred(FunctionAliasedVars(P), R, Cfg(P)[b].code)
    PROVE  Carried(P, b, after) /\ after[0] = R
<1> DEFINE A == FunctionAliasedVars(P)
           code == Cfg(P)[b].code
           step == [n \in DOMAIN code |->
                       [S \in SUBSET Availables |-> TransferExpr(A, S, Reused(A, S, code[n]))]]
<1>1. after = Along(step, R)
  BY DEF Retransferred
<1>2. Len(code) \in Nat /\ DOMAIN code = 1 .. Len(code)
  BY BlockInstructions
<1>3. ExprFacts \subseteq Availables
  BY DEF ExprFacts
<1> HIDE DEF code, A
<1>4. Len(step) = Len(code)
  BY <1>2
<1>5. \A n \in 1 .. Len(code) : \A S \in SUBSET ExprFacts :
         step[n][S] = TransferExpr(A, S, Reused(A, S, code[n]))
  BY <1>2, <1>3
<1> HIDE DEF step
<1>6. \A n \in 1 .. Len(step) : \A S \in SUBSET ExprFacts : \A f \in step[n][S] : ExprAfter(A, S, code[n], f)
  BY <1>4, <1>5, RetransferLeaves
<1>7. /\ Len(step) = Len(Cfg(P)[b].code)
      /\ \A n \in 1 .. Len(step) : \A S \in SUBSET ExprFacts : \A f \in step[n][S] :
            ExprAfter(FunctionAliasedVars(P), S, Cfg(P)[b].code[n], f)
  BY <1>4, <1>6 DEF code, A
<1>8. Carried(P, b, Along(step, R)) /\ Along(step, R)[0] = R
  BY <1>7, CarriedAlong
<1> QED
  BY <1>1, <1>8

(* The expressions before each instruction that o at the ends of the blocks *)
(* implies, by the analysis and by the rewrite.                            *)
AnalysisOf(P, o) ==
    [b \in DOMAIN Cfg(P) |->
        Transferred(FunctionAliasedVars(P), MeetExprs(o, Cfg(P)[b].preds), Cfg(P)[b].code)]

RewriteOf(P, o) ==
    [b \in DOMAIN Cfg(P) |->
        Retransferred(FunctionAliasedVars(P), MeetExprs(o, Cfg(P)[b].preds), Cfg(P)[b].code)]

Solves(P, o) ==
    /\ o \in [DOMAIN Cfg(P) -> SUBSET ExprFacts]
    /\ \A b \in DOMAIN Cfg(P) : o[b] = AnalysisOf(P, o)[b][Len(Cfg(P)[b].code)]

(* What is available at the start of a block is so after each predecessor. *)
LEMMA MeetIsBelow ==
    ASSUME NEW P \in FunctionBodies, NEW o \in [DOMAIN Cfg(P) -> SUBSET ExprFacts],
           NEW b \in DOMAIN Cfg(P)
    PROVE  LET R == MeetExprs(o, Cfg(P)[b].preds) IN
           /\ R \in SUBSET ExprFacts
           /\ \A p \in DOMAIN Cfg(P) \cap Cfg(P)[b].preds : R \subseteq o[p]
<1>1. Cfg(P)[b].preds \subseteq DOMAIN Cfg(P) \cup {Entry}
  BY PredecessorsAreBlocks DEF FunctionBodies
<1> QED
  BY <1>1 DEF MeetExprs

(* Both start from what the predecessors agree on.                         *)
LEMMA AnalysisIs ==
    ASSUME NEW P \in FunctionBodies, NEW o \in [DOMAIN Cfg(P) -> SUBSET ExprFacts],
           NEW b \in DOMAIN Cfg(P)
    PROVE  /\ Carried(P, b, AnalysisOf(P, o)[b])
           /\ AnalysisOf(P, o)[b][0] = MeetExprs(o, Cfg(P)[b].preds)
           /\ Carried(P, b, RewriteOf(P, o)[b])
           /\ RewriteOf(P, o)[b][0] = MeetExprs(o, Cfg(P)[b].preds)
<1> DEFINE R == MeetExprs(o, Cfg(P)[b].preds)
           X == AnalysisOf(P, o)[b]
           Y == RewriteOf(P, o)[b]
<1>1. R \in SUBSET ExprFacts
  BY MeetIsBelow
<1>2. X = Transferred(FunctionAliasedVars(P), R, Cfg(P)[b].code)
  BY DEF AnalysisOf
<1>3. Y = Retransferred(FunctionAliasedVars(P), R, Cfg(P)[b].code)
  BY DEF RewriteOf
<1> HIDE DEF R, X, Y
<1>4. Carried(P, b, X) /\ X[0] = R
  BY <1>1, <1>2, TransferredIsCarried
<1>5. Carried(P, b, Y) /\ Y[0] = R
  BY <1>1, <1>3, RetransferredIsCarried
<1> QED
  BY <1>4, <1>5 DEF R, X, Y

(* The offset of a position in its block.                                  *)
LEMMA OffsetInBlock ==
    ASSUME NEW M \in Nat, NEW F \in Nat, NEW E \in Nat, M = E - F + 1,
           NEW pc \in Nat, F <= pc, pc <= E
    PROVE  LET n == pc - F IN
           n \in 0 .. M /\ n + 1 \in 0 .. M /\ n + 1 \in 1 .. M /\ (n + 1) - 1 = n /\ F + (n + 1) - 1 = pc
OBVIOUS

(* Facts along a block, after the instruction at pc.                       *)
LEMMA CarriedOne ==
    ASSUME NEW P \in FunctionBodies, NEW b \in DOMAIN Cfg(P), NEW pc \in 1 .. Len(P),
           Starts(P)[b] <= pc, pc <= BlockEnd(P, b), NEW reach, Carried(P, b, reach[b])
    PROVE  LET R == reach[b][pc - Starts(P)[b]] IN
           /\ R \in SUBSET ExprFacts
           /\ R \subseteq FactsAt(P, reach, pc)
           /\ \A f \in reach[b][pc - Starts(P)[b] + 1] : ExprAfter(FunctionAliasedVars(P), R, P[pc], f)
<1> DEFINE M == Len(Cfg(P)[b].code)
           n == pc - Starts(P)[b]
<1>1. M \in Nat /\ Starts(P)[b] \in Nat /\ M = BlockEnd(P, b) - Starts(P)[b] + 1
  BY BlockInstructions
<1>1a. BlockEnd(P, b) \in Nat
  <2>1. P \in Seq(Instructions) /\ P # <<>>
    BY DEF FunctionBodies
  <2> QED
    BY <2>1, BlockCode, BlockBounds
<1>1b. pc \in Nat
  OBVIOUS
<1>2. n \in 0 .. M /\ n + 1 \in 1 .. M /\ (n + 1) - 1 = n /\ Starts(P)[b] + (n + 1) - 1 = pc
  BY <1>1, <1>1a, <1>1b, OffsetInBlock
<1>3. /\ \A k \in 0 .. M : reach[b][k] \in SUBSET ExprFacts
      /\ \A k \in 1 .. M : \A f \in reach[b][k] :
            ExprAfter(FunctionAliasedVars(P), reach[b][k - 1], P[Starts(P)[b] + k - 1], f)
  BY DEF Carried
<1> HIDE DEF M, n
<1>4. \A f \in reach[b][n + 1] : ExprAfter(FunctionAliasedVars(P), reach[b][n], P[pc], f)
  BY <1>2, <1>3
<1>5. reach[b][n] \in SUBSET ExprFacts
  BY <1>2, <1>3
<1>6. reach[b][n] \subseteq FactsAt(P, reach, pc)
  BY DEF FactsAt, n
<1> QED
  BY <1>4, <1>5, <1>6 DEF n

(* What the analysis and the rewrite believe at a position.                *)
AvailableAt(P, o, pc) == FactsAt(P, AnalysisOf(P, o), pc) \cup FactsAt(P, RewriteOf(P, o), pc)

(* What they believe after an instruction follows from what they believed  *)
(* before it, within a block and from one block to the next.               *)
LEMMA AvailableFlows ==
    ASSUME NEW P \in FunctionBodies, NEW o, Solves(P, o), NEW b \in DOMAIN Cfg(P),
           NEW pc \in 1 .. Len(P), NEW next \in Nat,
           Starts(P)[b] <= pc, pc <= BlockEnd(P, b), Continues(P, b, pc, next),
           NEW f \in AvailableAt(P, o, next)
    PROVE  \E R \in SUBSET ExprFacts : /\ R \subseteq AvailableAt(P, o, pc)
                                       /\ ExprAfter(FunctionAliasedVars(P), R, P[pc], f)
<1> DEFINE X == AnalysisOf(P, o)
           Y == RewriteOf(P, o)
           A == FunctionAliasedVars(P)
           n == pc - Starts(P)[b]
<1>1. o \in [DOMAIN Cfg(P) -> SUBSET ExprFacts]
  BY DEF Solves
<1>2. \A c \in DOMAIN Cfg(P) : /\ Carried(P, c, X[c]) /\ Carried(P, c, Y[c])
                               /\ X[c][0] = MeetExprs(o, Cfg(P)[c].preds) /\ Y[c][0] = X[c][0]
  BY <1>1, AnalysisIs
<1>3. Meets(P, X)
  <2>1. \A c \in DOMAIN Cfg(P) : \A p \in DOMAIN Cfg(P) \cap Cfg(P)[c].preds :
           MeetExprs(o, Cfg(P)[c].preds) \subseteq o[p]
    BY <1>1, MeetIsBelow
  <2>2. \A c \in DOMAIN Cfg(P) : o[c] = X[c][Len(Cfg(P)[c].code)]
    BY DEF Solves
  <2> HIDE DEF X, Y
  <2> QED
    BY <1>2, <2>1, <2>2 DEF Meets
<1> HIDE DEF X, Y, A
<1>4. /\ X[b][n] \in SUBSET ExprFacts /\ X[b][n] \subseteq FactsAt(P, X, pc)
      /\ \A g \in X[b][n + 1] : ExprAfter(A, X[b][n], P[pc], g)
  BY <1>2, CarriedOne DEF A
<1>5. /\ Y[b][n] \in SUBSET ExprFacts /\ Y[b][n] \subseteq FactsAt(P, Y, pc)
      /\ \A g \in Y[b][n + 1] : ExprAfter(A, Y[b][n], P[pc], g)
  BY <1>2, CarriedOne DEF A
<1>6. FactsAt(P, X, next) \subseteq X[b][n + 1]
  BY <1>3, FactsCarryOver
<1>7. \/ FactsAt(P, Y, next) = Y[b][n + 1]
      \/ FactsAt(P, Y, next) = {}
      \/ FactsAt(P, Y, next) = FactsAt(P, X, next)
  <2>1. CASE \A reach : FactsAt(P, reach, next) = reach[b][n + 1]
    BY <2>1
  <2>2. CASE \A reach : FactsAt(P, reach, next) = {}
    BY <2>2
  <2>3. CASE \E c \in DOMAIN Cfg(P) : \A reach : FactsAt(P, reach, next) = reach[c][0]
    BY <1>2, <2>3
  <2> QED
    BY <2>1, <2>2, <2>3, FactsAtNext
<1> HIDE DEF n
<1>8. AvailableAt(P, o, pc) = FactsAt(P, X, pc) \cup FactsAt(P, Y, pc)
  BY DEF AvailableAt, X, Y
<1>9. f \in FactsAt(P, X, next) \cup FactsAt(P, Y, next)
  BY DEF AvailableAt, X, Y
<1>10. f \in X[b][n + 1] \/ f \in Y[b][n + 1]
  BY <1>6, <1>7, <1>9
<1> SUFFICES \E R \in SUBSET ExprFacts : R \subseteq AvailableAt(P, o, pc) /\ ExprAfter(A, R, P[pc], f)
  BY DEF A
<1>11. CASE f \in X[b][n + 1]
  <2>1. X[b][n] \subseteq AvailableAt(P, o, pc)
    BY <1>4, <1>8
  <2> QED
    BY <1>4, <1>11, <2>1
<1>12. CASE f \in Y[b][n + 1]
  <2>1. Y[b][n] \subseteq AvailableAt(P, o, pc)
    BY <1>5, <1>8
  <2> QED
    BY <1>5, <1>12, <2>1
<1> QED
  BY <1>10, <1>11, <1>12

(* None is claimed at the first instruction.                               *)
LEMMA NoneAtStart ==
    ASSUME NEW P \in FunctionBodies
    PROVE  /\ 1 \in DOMAIN Cfg(P) /\ Entry \in Cfg(P)[1].preds
           /\ \A reach : FactsAt(P, reach, 1) = reach[1][0]
<1>1. P \in Seq(Instructions) /\ P # <<>> /\ Len(P) \in Nat
  BY DEF FunctionBodies
<1>2. Starts(P)[1] = 1 /\ 1 \in DOMAIN Starts(P) /\ 1 \in DOMAIN Cfg(P)
  BY <1>1, FirstAndLastStart DEF Cfg, Partition
<1>3. 1 <= BlockEnd(P, 1)
  BY <1>1, <1>2, BlockBounds
<1>4. Entry \in Cfg(P)[1].preds
  BY <1>2 DEF Cfg, Predecessors
<1>5. \A b \in DOMAIN Cfg(P) : (Starts(P)[b] <= 1 /\ 1 <= BlockEnd(P, b)) <=> b = 1
  BY <1>2, <1>3, PositionIsInOneBlock
<1>6. \A reach : FactsAt(P, reach, 1) = reach[1][0]
  <2> TAKE reach
  <2> DEFINE F(b) == reach[b][1 - Starts(P)[b]]
             In == {b \in DOMAIN Cfg(P) : Starts(P)[b] <= 1 /\ 1 <= BlockEnd(P, b)}
  <2>1. In = {1}
    BY <1>2, <1>5
  <2>2. FactsAt(P, reach, 1) = UNION {F(b) : b \in In}
    BY DEF FactsAt
  <2>3. F(1) = reach[1][0]
    BY <1>2
  <2> HIDE DEF F, In
  <2>4. UNION {F(b) : b \in {1}} = F(1)
    OBVIOUS
  <2> QED
    BY <2>1, <2>2, <2>3, <2>4
<1> QED
  BY <1>2, <1>4, <1>6
----------------------------------------------------------------------------
(* The members pass.  Every read it remembers is in the index by holder.   *)
ScanOK == {S \in Scans : S.seen \subseteq S.byHolder}

(* A read that is remembered after an instruction was before it and uses    *)
(* nothing that the instruction writes, or is the instruction itself.      *)
ReadAfter(R, i, e) ==
    \/ e \in R /\ ~Clears(i) /\ e.key[1] # i.dst /\ e.holder # i.dst
    \/ i.k = "get" /\ e = [key |-> MemberKey(i), holder |-> i.dst]

(* What is forgotten: all reads of the variable, and into it.              *)
LEMMA ForgetLeaves ==
    ASSUME NEW S \in ScanOK, NEW i
    PROVE  /\ Forget(S, i) \in ScanOK
           /\ \A e \in Forget(S, i).seen :
                 e \in S.seen /\ ~Clears(i) /\ e.key[1] # i.dst /\ e.holder # i.dst
<1> DEFINE x == i.dst
           found == {e \in S.seen : e.key[1] = x} \cup {e \in S.byHolder : e.holder = x}
           keys == {e.key : e \in found}
           seen == {e \in S.seen : e.key \notin keys}
           byHolder == {e \in S.byHolder : e.holder # x /\ ~(e \in S.seen /\ e.key \in keys)}
           I == [seen |-> seen, byHolder |-> byHolder]
<1>1. S = [seen |-> S.seen, byHolder |-> S.byHolder] /\ S.seen \in SUBSET Reads
      /\ S.byHolder \in SUBSET Reads /\ S.seen \subseteq S.byHolder
  BY DEF ScanOK, Scans
<1>2. Invalidate(S, x) = I
  <2>1. Invalidate(S, x) = [S EXCEPT !.seen = seen, !.byHolder = byHolder]
    BY DEF Invalidate
  <2> HIDE DEF seen, byHolder
  <2> QED
    BY <1>1, <2>1
<1>3. \A e \in seen : e \in S.seen /\ e.key[1] # x /\ e.holder # x
  BY <1>1
<1>4. \A e \in seen : e \in byHolder
  BY <1>1, <1>3
<1>4a. seen \in SUBSET Reads /\ byHolder \in SUBSET Reads
  BY <1>1
<1> HIDE DEF seen, byHolder, x
<1>5. I \in ScanOK /\ [seen |-> {}, byHolder |-> byHolder] \in ScanOK
  BY <1>4, <1>4a DEF ScanOK, Scans
<1>6. Forget(S, i) = IF Clears(i) THEN [seen |-> {}, byHolder |-> byHolder] ELSE I
  BY <1>2 DEF Forget, x
<1>7. CASE Clears(i)
  <2>1. Forget(S, i) = [seen |-> {}, byHolder |-> byHolder]
    BY <1>6, <1>7
  <2> QED
    BY <1>5, <2>1
<1>8. CASE ~Clears(i)
  <2>1. Forget(S, i) = I
    BY <1>6, <1>8
  <2>2. Forget(S, i).seen = seen
    BY <2>1
  <2>3. \A e \in seen : e \in S.seen /\ ~Clears(i) /\ e.key[1] # i.dst /\ e.holder # i.dst
    BY <1>3, <1>8 DEF x
  <2> HIDE DEF I
  <2> QED
    BY <1>5, <2>1, <2>2, <2>3
<1> QED
  BY <1>7, <1>8

(* And what is remembered.                                                 *)
LEMMA ScanLeaves ==
    ASSUME NEW S \in ScanOK, NEW i \in Instructions
    PROVE  /\ ScanMember(S, i) \in ScanOK
           /\ \A e \in ScanMember(S, i).seen : ReadAfter(S.seen, i, e)
<1> DEFINE T == Forget(S, i)
           entry == [key |-> MemberKey(i), holder |-> i.dst]
           U == [seen |-> T.seen \cup {entry}, byHolder |-> T.byHolder \cup {entry}]
<1>1. T \in ScanOK /\ \A e \in T.seen : ReadAfter(S.seen, i, e)
  BY ForgetLeaves DEF ReadAfter
<1>2. ScanMember(S, i) = IF i.k = "get" /\ Held(S, i) = {} THEN U ELSE T
  BY DEF ScanMember
<1>3. CASE ~(i.k = "get" /\ Held(S, i) = {})
  BY <1>1, <1>2, <1>3
<1>4. CASE i.k = "get" /\ Held(S, i) = {}
  <2>1. i.dst \in Vars
    <3>1. HasFields(i) /\ i.dst \in Vars \cup {""}
      BY InstructionFields
    <3> QED
      BY <1>4, <3>1 DEF HasFields
  <2>2. MemberKey(i) \in Vars \X STRING
    <3>1. 1 \in DOMAIN i.src /\ IsVar(i.src[1]) /\ i.src[1] \in Operands
      BY <1>4, FirstOperand, InstructionFields
    <3>2. i.src[1][2] \in Vars
      BY <3>1, OperandForms
    <3>3. i.at \in STRING
      BY DEF Instructions
    <3> QED
      BY <3>2, <3>3 DEF MemberKey
  <2>3. entry \in Reads
    BY <2>1, <2>2 DEF Reads
  <2>4. T.seen \in SUBSET Reads /\ T.byHolder \in SUBSET Reads /\ T.seen \subseteq T.byHolder
    BY <1>1 DEF ScanOK, Scans
  <2>5. ReadAfter(S.seen, i, entry)
    BY <1>4 DEF ReadAfter
  <2> HIDE DEF entry, T
  <2>6. U \in ScanOK
    BY <2>3, <2>4 DEF ScanOK, Scans
  <2>7. ScanMember(S, i) = U
    BY <1>2, <1>4
  <2>8. U.seen = T.seen \cup {entry}
    OBVIOUS
  <2> HIDE DEF U
  <2>9. \A e \in U.seen : ReadAfter(S.seen, i, e)
    BY <1>1, <2>5, <2>8
  <2> QED
    BY <2>6, <2>7, <2>9
<1> QED
  BY <1>3, <1>4

(* The reads along a block.                                                *)
Remembered(P, b, scan) ==
    LET M == Len(Cfg(P)[b].code)
    IN  /\ scan[0] = NothingSeen
        /\ \A n \in 0 .. M : scan[n] \in ScanOK
        /\ \A n \in 1 .. M : \A e \in scan[n].seen :
              ReadAfter(scan[n - 1].seen, P[Starts(P)[b] + n - 1], e)

(* The scan of a block computes it.                                        *)
LEMMA ScannedIs ==
    ASSUME NEW P \in FunctionBodies, NEW b \in DOMAIN Cfg(P)
    PROVE  Remembered(P, b, Scanned(Cfg(P)[b].code))
<1> DEFINE code == Cfg(P)[b].code
           M == Len(code)
           step == [n \in DOMAIN code |-> [S \in Scans |-> ScanMember(S, code[n])]]
           scan == Scanned(code)
<1>1. /\ M \in Nat /\ DOMAIN code = 1 .. M
      /\ \A n \in 1 .. M : code[n] = P[Starts(P)[b] + n - 1] /\ code[n] \in Instructions
  BY BlockInstructions
<1>2. scan = Along(step, NothingSeen)
  BY DEF Scanned
<1>3. NothingSeen \in ScanOK
  BY DEF NothingSeen, ScanOK, Scans
<1>4. ScanOK \subseteq Scans
  BY DEF ScanOK
<1> SUFFICES /\ scan[0] = NothingSeen
             /\ \A n \in 0 .. M : scan[n] \in ScanOK
             /\ \A n \in 1 .. M : \A e \in scan[n].seen :
                   ReadAfter(scan[n - 1].seen, P[Starts(P)[b] + n - 1], e)
  BY DEF Remembered
<1> HIDE DEF code, M
<1>5. Len(step) = M
  BY <1>1
<1>6. \A n \in 1 .. M : \A S \in ScanOK : step[n][S] = ScanMember(S, code[n])
  BY <1>1, <1>4
<1> HIDE DEF step
<1>7. \A n \in 1 .. M : \A S \in ScanOK :
         step[n][S] \in ScanOK /\ \A e \in step[n][S].seen : ReadAfter(S.seen, code[n], e)
  <2> SUFFICES ASSUME NEW n \in 1 .. M, NEW S \in ScanOK
               PROVE  /\ step[n][S] \in ScanOK
                      /\ \A e \in step[n][S].seen : ReadAfter(S.seen, code[n], e)
    OBVIOUS
  <2>1. step[n][S] = ScanMember(S, code[n])
    BY <1>6
  <2>2. code[n] \in Instructions
    BY <1>1
  <2> QED
    BY <2>1, <2>2, ScanLeaves
<1>8. \A n \in 0 .. M : scan[n] \in ScanOK
  <2> HIDE DEF scan
  <2>1. \A n \in 1 .. M : \A S \in ScanOK : step[n][S] \in ScanOK
    BY <1>7
  <2> QED
    BY <1>1, <1>2, <1>3, <1>5, <2>1, AlongStaysIn
<1>9. scan[0] = NothingSeen /\ \A n \in 1 .. M : scan[n] = step[n][scan[n - 1]]
  <2> HIDE DEF scan
  <2>1. Len(step) \in Nat
    BY <1>1, <1>5
  <2>2. /\ Along(step, NothingSeen)[0] = NothingSeen
        /\ \A n \in 1 .. Len(step) :
              Along(step, NothingSeen)[n] = step[n][Along(step, NothingSeen)[n - 1]]
    BY <2>1, AlongIsDefined
  <2> QED
    BY <1>2, <1>5, <2>2
<1> HIDE DEF scan
<1>10. \A n \in 1 .. M : n - 1 \in 0 .. M
  BY <1>1
<1> QED
  BY <1>1, <1>7, <1>8, <1>9, <1>10

(* The reads remembered before each instruction of each block.             *)
SeenOf(P) ==
    [b \in DOMAIN Cfg(P) |->
        [n \in 0 .. Len(Cfg(P)[b].code) |-> Scanned(Cfg(P)[b].code)[n].seen]]

(* What is remembered after an instruction follows from what was before.   *)
LEMMA SeenFlows ==
    ASSUME NEW P \in FunctionBodies, NEW b \in DOMAIN Cfg(P),
           NEW pc \in 1 .. Len(P), NEW next \in Nat,
           Starts(P)[b] <= pc, pc <= BlockEnd(P, b), Continues(P, b, pc, next),
           NEW e \in FactsAt(P, SeenOf(P), next)
    PROVE  ReadAfter(FactsAt(P, SeenOf(P), pc), P[pc], e)
<1> DEFINE M == Len(Cfg(P)[b].code)
           n == pc - Starts(P)[b]
           X == SeenOf(P)
           scan == Scanned(Cfg(P)[b].code)
<1>1. M \in Nat /\ Starts(P)[b] \in Nat /\ M = BlockEnd(P, b) - Starts(P)[b] + 1
  BY BlockInstructions
<1>2. BlockEnd(P, b) \in Nat
  <2>1. P \in Seq(Instructions) /\ P # <<>>
    BY DEF FunctionBodies
  <2> QED
    BY <2>1, BlockCode, BlockBounds
<1>2a. pc \in Nat
  OBVIOUS
<1>3. n \in 0 .. M /\ n + 1 \in 0 .. M /\ n + 1 \in 1 .. M /\ (n + 1) - 1 = n /\ Starts(P)[b] + (n + 1) - 1 = pc
  BY <1>1, <1>2, <1>2a, OffsetInBlock
<1>4. \A c \in DOMAIN Cfg(P) : X[c][0] = {}
  <2> TAKE c \in DOMAIN Cfg(P)
  <2>1. Scanned(Cfg(P)[c].code)[0] = NothingSeen
    BY ScannedIs DEF Remembered
  <2>2. 0 \in 0 .. Len(Cfg(P)[c].code)
    BY BlockInstructions
  <2>3. X[c][0] = Scanned(Cfg(P)[c].code)[0].seen
    BY <2>2 DEF SeenOf
  <2> QED
    BY <2>1, <2>3 DEF NothingSeen
<1>5. \A k \in 0 .. M : X[b][k] = scan[k].seen
  BY DEF SeenOf
<1>6. \A k \in 1 .. M : \A g \in scan[k].seen : ReadAfter(scan[k - 1].seen, P[Starts(P)[b] + k - 1], g)
  BY ScannedIs DEF Remembered
<1>7. X[b][n] \subseteq FactsAt(P, X, pc)
  BY DEF FactsAt
<1>8. e \in X[b][n + 1]
  <2>1. CASE \A reach : FactsAt(P, reach, next) = reach[b][n + 1]
    BY <2>1
  <2>2. CASE \A reach : FactsAt(P, reach, next) = {}
    BY <2>2
  <2>3. CASE \E c \in DOMAIN Cfg(P) : \A reach : FactsAt(P, reach, next) = reach[c][0]
    BY <1>4, <2>3
  <2> QED
    BY <2>1, <2>2, <2>3, FactsAtNext
<1> HIDE DEF X, scan, n, M
<1>9. ReadAfter(X[b][n], P[pc], e)
  BY <1>3, <1>5, <1>6, <1>8
<1>10. ReadAfter(FactsAt(P, X, pc), P[pc], e)
  BY <1>7, <1>9 DEF ReadAfter
<1> QED
  BY <1>10 DEF X

(* A read that is remembered: its holder has the value of the member.      *)
ReadHolds(e, s) == s.mem[e.holder] = N(Member(s.mem[e.key[1]], e.key[2]))

(* What is remembered after an instruction holds after it.                 *)
LEMMA ReadAfterHolds ==
    ASSUME NEW P \in FunctionBodies, NEW s, MachineOK(P, s), s.pc \in DOMAIN P,
           ~Undefined(P, s), ~AtEvent(P, s),
           NEW R \in SUBSET Reads, \A e \in R : ReadHolds(e, s),
           NEW e, ReadAfter(R, P[s.pc], e),
           NEW t, t.mem = Written(s, P[s.pc])
    PROVE  ReadHolds(e, t)
<1> DEFINE i == P[s.pc]
<1>1. i \in Instructions
  BY DEF FunctionBodies
<1>2. /\ i.k \in Operational <=> i.dst # ""
      /\ i.k \in Operational \ {"atomic"} => Written(s, i) = [s.mem EXCEPT ![i.dst] = Computed(s, i)]
      /\ i.k \notin Operational \cup {"store"} => Written(s, i) = s.mem
  BY WrittenOK
<1>3. s.mem = [y \in Vars |-> s.mem[y]]
  BY DEF MachineOK, MemoryOK
<1>4. CASE e \in R /\ ~Clears(i) /\ e.key[1] # i.dst /\ e.holder # i.dst
  <2>1. i.k \notin {"atomic", "store"}
    BY <1>4 DEF Clears
  <2>2. e.key[1] \in Vars /\ e.holder \in Vars /\ ReadHolds(e, s)
    BY <1>4 DEF Reads
  <2>3. t.mem = s.mem \/ t.mem = [s.mem EXCEPT ![i.dst] = Computed(s, i)]
    BY <1>2, <2>1
  <2> HIDE DEF i
  <2>4. t.mem[e.key[1]] = s.mem[e.key[1]] /\ t.mem[e.holder] = s.mem[e.holder]
    BY <1>3, <1>4, <2>2, <2>3
  <2> QED
    BY <2>2, <2>4 DEF ReadHolds
<1>5. CASE i.k = "get" /\ e = [key |-> MemberKey(i), holder |-> i.dst]
  <2>1. t.mem = [s.mem EXCEPT ![i.dst] = Computed(s, i)]
    BY <1>2, <1>5 DEF Operational
  <2>2. 1 \in DOMAIN i.src /\ i.src[1] \in Operands /\ IsVar(i.src[1]) /\ HasFields(i)
    BY <1>1, <1>5, FirstOperand, InstructionFields
  <2>3. i.src[1] # V(i.dst) /\ i.dst # ""
    BY <1>5, <2>2 DEF HasFields
  <2> DEFINE x == i.src[1][2]
  <2>4. x \in Vars /\ i.src[1] = V(x)
    BY <2>2, OperandForms
  <2>5. x # i.dst /\ i.dst \in Vars
    BY <1>1, <2>3, <2>4, InstructionFields
  <2>6. Computed(s, i) = N(Member(s.mem[x], i.at))
    BY <1>5, <2>2 DEF Computed, Value
  <2>7. e.holder = i.dst /\ e.key[1] = x /\ e.key[2] = i.at
    BY <1>5 DEF MemberKey
  <2> HIDE DEF x, i
  <2>8. t.mem[x] = s.mem[x] /\ t.mem[i.dst] = Computed(s, i)
    BY <1>3, <2>1, <2>4, <2>5
  <2> QED
    BY <2>6, <2>7, <2>8 DEF ReadHolds
<1> QED
  BY <1>4, <1>5 DEF ReadAfter
----------------------------------------------------------------------------
(* While the function runs, what each pass believes where it is holds.     *)
BeliefsHold(P, o, p, s) ==
    /\ p = "members" => \A e \in FactsAt(P, SeenOf(P), s.pc) : ReadHolds(e, s)
    /\ p = "expressions" => \A f \in AvailableAt(P, o, s.pc) : ExprHolds(f, s)

(* The reads remembered at a position are reads.                           *)
LEMMA SeenAreReads ==
    ASSUME NEW P \in FunctionBodies, NEW pc \in Nat
    PROVE  FactsAt(P, SeenOf(P), pc) \in SUBSET Reads
<1> SUFFICES ASSUME NEW b \in DOMAIN Cfg(P), Starts(P)[b] <= pc, pc <= BlockEnd(P, b)
             PROVE  SeenOf(P)[b][pc - Starts(P)[b]] \in SUBSET Reads
  BY DEF FactsAt
<1> DEFINE M == Len(Cfg(P)[b].code)
           n == pc - Starts(P)[b]
           scan == Scanned(Cfg(P)[b].code)
<1>1. M \in Nat /\ Starts(P)[b] \in Nat /\ M = BlockEnd(P, b) - Starts(P)[b] + 1
  BY BlockInstructions
<1>2. BlockEnd(P, b) \in Nat
  <2>1. P \in Seq(Instructions) /\ P # <<>>
    BY DEF FunctionBodies
  <2> QED
    BY <2>1, BlockCode, BlockBounds
<1>3. n \in 0 .. M
  BY <1>1, <1>2, OffsetInBlock
<1>4. SeenOf(P)[b][n] = scan[n].seen
  BY <1>3 DEF SeenOf
<1>5. scan[n] \in ScanOK
  BY <1>3, ScannedIs DEF Remembered
<1> QED
  BY <1>4, <1>5 DEF ScanOK, Scans

(* A step keeps them true.                                                 *)
LEMMA BeliefsHoldAfterStep ==
    ASSUME NEW P \in FunctionBodies, NEW o, NEW p, p = "expressions" => Solves(P, o),
           NEW s, MachineOK(P, s), s.pc \in DOMAIN P, ~Undefined(P, s), ~AtEvent(P, s),
           BeliefsHold(P, o, p, s)
    PROVE  BeliefsHold(P, o, p, Run1(P, s))
<1> DEFINE next == NextPc(P, s)
           t == Run1(P, s)
<1>1. PICK b \in DOMAIN Cfg(P) : Starts(P)[b] <= s.pc /\ s.pc <= BlockEnd(P, b)
  BY InABlock
<1>2. s.pc \in 1 .. Len(P) /\ Len(P) \in Nat
  BY InABlock
<1>3. next \in Nat
  <2>1. \A n \in DOMAIN P : n \in Nat
    BY InABlock
  <2> QED
    BY <1>2, <2>1, NextPcCases
<1>4. Continues(P, b, s.pc, next)
  BY <1>1, RunContinues
<1>5. t.pc = next /\ t.mem = Written(s, P[s.pc])
  BY DEF Run1
<1> HIDE DEF next, t
<1>6. ASSUME p = "members", NEW e \in FactsAt(P, SeenOf(P), next) PROVE ReadHolds(e, t)
  <2> DEFINE R == FactsAt(P, SeenOf(P), s.pc)
  <2>1. ReadAfter(R, P[s.pc], e)
    BY <1>1, <1>2, <1>3, <1>4, <1>6, SeenFlows
  <2>2. R \in SUBSET Reads
    BY <1>2, SeenAreReads
  <2>3. \A g \in R : ReadHolds(g, s)
    BY <1>6 DEF BeliefsHold
  <2> HIDE DEF R
  <2> QED
    BY <1>5, <2>1, <2>2, <2>3, ReadAfterHolds
<1>7. ASSUME p = "expressions", NEW f \in AvailableAt(P, o, next) PROVE ExprHolds(f, t)
  <2>1. PICK R \in SUBSET ExprFacts : /\ R \subseteq AvailableAt(P, o, s.pc)
                                      /\ ExprAfter(FunctionAliasedVars(P), R, P[s.pc], f)
    BY <1>1, <1>2, <1>3, <1>4, <1>7, AvailableFlows
  <2>2. \A g \in R : ExprHolds(g, s)
    BY <1>7, <2>1 DEF BeliefsHold
  <2> QED
    BY <1>5, <2>1, <2>2, AfterHolds
<1> QED
  BY <1>5, <1>6, <1>7 DEF BeliefsHold, t

(* Nothing is believed after a call or a setjmp.                           *)
LEMMA NothingBelieved ==
    ASSUME NEW P \in FunctionBodies, NEW o, NEW p, p = "expressions" => Solves(P, o),
           NEW q \in DOMAIN P, P[q].k \in {"call", "icall", "setjmp"}, NEW s, s.pc = q + 1
    PROVE  BeliefsHold(P, o, p, s)
<1>1. PICK b \in DOMAIN Cfg(P) : Starts(P)[b] <= q /\ q <= BlockEnd(P, b)
  BY InABlock
<1>2. q \in 1 .. Len(P) /\ q + 1 \in Nat
  BY InABlock
<1>3. Continues(P, b, q, q + 1)
  <2>1. ~EndsBasicBlock(P[q])
    BY DEF EndsBasicBlock
  <2>2. q + 1 <= BlockEnd(P, b) \/ (q = BlockEnd(P, b) /\ Enters(P, b, q + 1))
    BY <1>1, <1>2, <2>1, FallsThrough
  <2> QED
    BY <2>2 DEF Continues
<1>4. ASSUME p = "members", NEW e \in FactsAt(P, SeenOf(P), q + 1) PROVE FALSE
  <2>1. ReadAfter(FactsAt(P, SeenOf(P), q), P[q], e)
    BY <1>1, <1>2, <1>3, <1>4, SeenFlows
  <2> QED
    BY <2>1 DEF ReadAfter, Clears
<1>5. ASSUME p = "expressions", NEW f \in AvailableAt(P, o, q + 1) PROVE FALSE
  <2>1. PICK R \in SUBSET ExprFacts : ExprAfter(FunctionAliasedVars(P), R, P[q], f)
    BY <1>1, <1>2, <1>3, <1>5, AvailableFlows
  <2> QED
    BY <2>1, NothingAfterBarrier
<1> QED
  BY <1>4, <1>5 DEF BeliefsHold

(* Nor at the first instruction.                                           *)
LEMMA NothingBelievedAtStart ==
    ASSUME NEW P \in FunctionBodies, NEW o, NEW p, p = "expressions" => Solves(P, o),
           NEW s, s.pc = 1
    PROVE  BeliefsHold(P, o, p, s)
<1>1. /\ 1 \in DOMAIN Cfg(P) /\ Entry \in Cfg(P)[1].preds
      /\ \A reach : FactsAt(P, reach, 1) = reach[1][0]
  BY NoneAtStart
<1>2. FactsAt(P, SeenOf(P), 1) = {}
  <2>1. Scanned(Cfg(P)[1].code)[0] = NothingSeen
    BY <1>1, ScannedIs DEF Remembered
  <2>2. 0 \in 0 .. Len(Cfg(P)[1].code)
    BY <1>1, BlockInstructions
  <2>3. SeenOf(P)[1][0] = Scanned(Cfg(P)[1].code)[0].seen
    BY <1>1, <2>2 DEF SeenOf
  <2> QED
    BY <1>1, <2>1, <2>3 DEF NothingSeen
<1>3. p = "expressions" => AvailableAt(P, o, 1) = {}
  <2> SUFFICES ASSUME p = "expressions" PROVE AvailableAt(P, o, 1) = {}
    OBVIOUS
  <2>1. o \in [DOMAIN Cfg(P) -> SUBSET ExprFacts]
    BY DEF Solves
  <2>2. /\ AnalysisOf(P, o)[1][0] = MeetExprs(o, Cfg(P)[1].preds)
        /\ RewriteOf(P, o)[1][0] = MeetExprs(o, Cfg(P)[1].preds)
    BY <1>1, <2>1, AnalysisIs
  <2>3. MeetExprs(o, Cfg(P)[1].preds) = {}
    BY <1>1 DEF MeetExprs
  <2> QED
    BY <1>1, <2>2, <2>3 DEF AvailableAt
<1> QED
  BY <1>2, <1>3 DEF BeliefsHold
----------------------------------------------------------------------------
(* The function that a pass returns.  An instruction stands where it did,   *)
(* or in its place a copy of the variable believed to hold what it computes. *)
Reuses(P, o, p, n, h) ==
    \/ /\ p = "members" /\ P[n].k = "get"
       /\ [key |-> MemberKey(P[n]), holder |-> h] \in FactsAt(P, SeenOf(P), n)
    \/ /\ p = "expressions" /\ IsCandidate(FunctionAliasedVars(P), P[n])
       /\ [key |-> ExprKey(P[n]), holder |-> h] \in FactsAt(P, RewriteOf(P, o), n)

Stands(P, o, p, n, i) ==
    i = P[n] \/ \E h \in Vars : i = Copy(V(h), P[n].dst) /\ Reuses(P, o, p, n, h)

RewrittenBlock(P, o, p, b) ==
    IF p = "members" THEN RewriteMembers(Cfg(P)[b].code)
    ELSE RewriteExprs(FunctionAliasedVars(P), MeetExprs(o, Cfg(P)[b].preds), Cfg(P)[b].code)

(* A function on the positions of a list is one.                           *)
LEMMA ListOf ==
    ASSUME NEW M \in Nat, NEW X, NEW r, r = [n \in 1 .. M |-> r[n]], \A n \in 1 .. M : r[n] \in X
    PROVE  r \in Seq(X) /\ Len(r) = M
<1>1. r \in [1 .. M -> X]
  OBVIOUS
<1> QED
  BY <1>1

(* What replaces a read of a member.                                       *)
LEMMA ReadMemberIs ==
    ASSUME NEW S \in ScanOK, NEW i \in Instructions
    PROVE  \/ ReadMember(S, i) = i
           \/ \E h \in Vars : /\ ReadMember(S, i) = Copy(V(h), i.dst) /\ i.k = "get"
                              /\ [key |-> MemberKey(i), holder |-> h] \in S.seen
<1> DEFINE e == CHOOSE g \in Held(S, i) : TRUE
<1>1. CASE Held(S, i) = {}
  BY <1>1 DEF ReadMember
<1>2. CASE Held(S, i) # {}
  <2>1. ReadMember(S, i) = Copy(V(e.holder), i.dst)
    BY <1>2 DEF ReadMember
  <2>2. e \in Held(S, i)
    BY <1>2
  <2> HIDE DEF e
  <2>3. e \in Forget(S, i).seen /\ i.k = "get" /\ e.key = MemberKey(i)
    BY <2>2 DEF Held
  <2>4. e \in S.seen
    BY <2>3, ForgetLeaves
  <2>5. e \in Reads
    BY <2>4 DEF ScanOK, Scans
  <2>6. e.holder \in Vars /\ e = [key |-> e.key, holder |-> e.holder]
    BY <2>5 DEF Reads
  <2> QED
    BY <2>1, <2>3, <2>4, <2>6
<1> QED
  BY <1>1, <1>2

(* What replaces an expression.                                            *)
LEMMA ReusedIs ==
    ASSUME NEW aliased, NEW R \in SUBSET ExprFacts, NEW i
    PROVE  \/ Reused(aliased, R, i) = i
           \/ \E h \in Vars : /\ Reused(aliased, R, i) = Copy(V(h), i.dst) /\ IsCandidate(aliased, i)
                              /\ [key |-> ExprKey(i), holder |-> h] \in R
<1> DEFINE H == HeldExprs(aliased, R, i)
           f == CHOOSE g \in H : TRUE
<1>1. CASE H = {}
  BY <1>1 DEF Reused
<1>2. CASE H # {}
  <2>1. Reused(aliased, R, i) = Copy(V(f.holder), i.dst)
    BY <1>2 DEF Reused
  <2>2. f \in H
    BY <1>2
  <2> HIDE DEF f
  <2>3. f \in R /\ IsCandidate(aliased, i) /\ f.key = ExprKey(i)
    BY <2>2 DEF HeldExprs
  <2>4. f \in Availables
    BY <2>3 DEF ExprFacts
  <2>5. f.holder \in Vars /\ f = [key |-> f.key, holder |-> f.holder]
    BY <2>4 DEF Availables
  <2> QED
    BY <2>1, <2>3, <2>5
<1> QED
  BY <1>1, <1>2

(* What can stand in the place of an instruction.                          *)
Results(P) ==
    {P[n] : n \in DOMAIN P} \cup {Copy(V(h), P[n].dst) : h \in Vars, n \in DOMAIN P}

(* Each instruction of a rewritten block stands for the one it replaces.   *)
LEMMA RewrittenStands ==
    ASSUME NEW P \in FunctionBodies, NEW o, NEW p \in {"members", "expressions"},
           p = "expressions" => Solves(P, o), NEW b \in DOMAIN Cfg(P)
    PROVE  /\ RewrittenBlock(P, o, p, b) \in Seq(Results(P))
           /\ Len(RewrittenBlock(P, o, p, b)) = Len(Cfg(P)[b].code)
           /\ \A n \in 1 .. Len(Cfg(P)[b].code) :
                 Stands(P, o, p, Starts(P)[b] + n - 1, RewrittenBlock(P, o, p, b)[n])
<1> DEFINE code == Cfg(P)[b].code
           M == Len(code)
           A == FunctionAliasedVars(P)
           r == RewrittenBlock(P, o, p, b)
           q(n) == Starts(P)[b] + n - 1
<1>1. /\ M \in Nat /\ DOMAIN code = 1 .. M /\ Starts(P)[b] \in Nat
      /\ M = BlockEnd(P, b) - Starts(P)[b] + 1
      /\ \A n \in 1 .. M : code[n] = P[q(n)] /\ code[n] \in Instructions /\ q(n) \in DOMAIN P
  BY BlockInstructions
<1>1a. BlockEnd(P, b) \in Nat
  <2>1. P \in Seq(Instructions) /\ P # <<>>
    BY DEF FunctionBodies
  <2> QED
    BY <2>1, BlockCode, BlockBounds
<1>2. \A n \in 1 .. M : n - 1 \in 0 .. M /\ q(n) - Starts(P)[b] = n - 1 /\ Starts(P)[b] <= q(n)
                        /\ q(n) <= BlockEnd(P, b)
  BY <1>1, <1>1a
<1>3. \A reach : \A n \in 1 .. M : reach[b][n - 1] \subseteq FactsAt(P, reach, q(n))
  BY <1>2 DEF FactsAt
<1>4. CASE p = "members"
  <2> DEFINE scan == Scanned(code)
  <2>1. r = [n \in DOMAIN code |-> ReadMember(scan[n - 1], code[n])]
    BY <1>4 DEF RewrittenBlock, RewriteMembers
  <2>2. \A n \in 0 .. M : scan[n] \in ScanOK /\ SeenOf(P)[b][n] = scan[n].seen
    BY ScannedIs DEF Remembered, SeenOf
  <2> HIDE DEF scan, r, M, code, q
  <2>3. DOMAIN r = 1 .. M /\ \A n \in 1 .. M : r[n] = ReadMember(scan[n - 1], code[n])
    BY <1>1, <2>1
  <2>3a. r = [n \in 1 .. M |-> r[n]]
    BY <1>1, <2>1
  <2>4. \A n \in 1 .. M : Stands(P, o, p, q(n), r[n])
    <3> TAKE n \in 1 .. M
    <3>1. scan[n - 1] \in ScanOK /\ scan[n - 1].seen = SeenOf(P)[b][n - 1]
      BY <1>2, <2>2
    <3>2. code[n] = P[q(n)] /\ code[n] \in Instructions
      BY <1>1
    <3>3. \/ r[n] = P[q(n)]
          \/ \E h \in Vars : /\ r[n] = Copy(V(h), P[q(n)].dst) /\ P[q(n)].k = "get"
                             /\ [key |-> MemberKey(P[q(n)]), holder |-> h] \in SeenOf(P)[b][n - 1]
      BY <2>3, <3>1, <3>2, ReadMemberIs
    <3>4. SeenOf(P)[b][n - 1] \subseteq FactsAt(P, SeenOf(P), q(n))
      BY <1>3
    <3> QED
      BY <1>4, <3>3, <3>4 DEF Stands, Reuses
  <2>5. \A n \in 1 .. M : r[n] \in Results(P)
    BY <1>1, <2>4 DEF Stands, Results
  <2>6. r \in Seq(Results(P)) /\ Len(r) = M
    BY <1>1, <2>3a, <2>5, ListOf
  <2> QED
    BY <2>4, <2>6 DEF r, M, code, q
<1>5. CASE p = "expressions"
  <2> DEFINE Y == RewriteOf(P, o)
  <2>1. r = [n \in DOMAIN code |-> Reused(A, Y[b][n - 1], code[n])]
    BY <1>5 DEF RewrittenBlock, RewriteExprs, RewriteOf
  <2>2. \A n \in 0 .. M : Y[b][n] \in SUBSET ExprFacts
    BY <1>5, AnalysisIs DEF Carried, Solves
  <2> HIDE DEF Y, r, M, code, q, A
  <2>3. DOMAIN r = 1 .. M /\ \A n \in 1 .. M : r[n] = Reused(A, Y[b][n - 1], code[n])
    BY <1>1, <2>1
  <2>3a. r = [n \in 1 .. M |-> r[n]]
    BY <1>1, <2>1
  <2>4. \A n \in 1 .. M : Stands(P, o, p, q(n), r[n])
    <3> TAKE n \in 1 .. M
    <3>1. Y[b][n - 1] \in SUBSET ExprFacts
      BY <1>2, <2>2
    <3>2. code[n] = P[q(n)]
      BY <1>1
    <3>3. \/ r[n] = P[q(n)]
          \/ \E h \in Vars : /\ r[n] = Copy(V(h), P[q(n)].dst) /\ IsCandidate(A, P[q(n)])
                             /\ [key |-> ExprKey(P[q(n)]), holder |-> h] \in Y[b][n - 1]
      <4> DEFINE R == Y[b][n - 1]
                 i == code[n]
      <4>1. R \in SUBSET ExprFacts
        BY <3>1
      <4>2. r[n] = Reused(A, R, i)
        BY <2>3
      <4> HIDE DEF R, i
      <4>3. \/ Reused(A, R, i) = i
            \/ \E h \in Vars : /\ Reused(A, R, i) = Copy(V(h), i.dst) /\ IsCandidate(A, i)
                               /\ [key |-> ExprKey(i), holder |-> h] \in R
        BY <4>1, ReusedIs
      <4>4. i = P[q(n)]
        BY <3>2 DEF i
      <4> QED
        BY <4>2, <4>3, <4>4 DEF R
    <3>4. Y[b][n - 1] \subseteq FactsAt(P, Y, q(n))
      BY <1>3
    <3> QED
      BY <1>5, <3>3, <3>4 DEF Stands, Reuses, A, Y
  <2>5. \A n \in 1 .. M : r[n] \in Results(P)
    BY <1>1, <2>4 DEF Stands, Results
  <2>6. r \in Seq(Results(P)) /\ Len(r) = M
    BY <1>1, <2>3a, <2>5, ListOf
  <2> QED
    BY <2>4, <2>6 DEF r, M, code, q
<1> QED
  BY <1>4, <1>5

(* The blocks before block k are rewritten.                                *)
OutUpTo(P, o, p, w, k) ==
    /\ w \in Seq(Results(P))
    /\ Len(w) = IF k = 1 THEN 0 ELSE BlockEnd(P, k - 1)
    /\ \A n \in 1 .. Len(w) : Stands(P, o, p, n, w[n])

(* Rewriting one more block appends it.                                    *)
LEMMA OutGrows ==
    ASSUME NEW P \in FunctionBodies, NEW o, NEW p \in {"members", "expressions"},
           p = "expressions" => Solves(P, o), NEW k \in DOMAIN Cfg(P), NEW w, OutUpTo(P, o, p, w, k)
    PROVE  OutUpTo(P, o, p, w \o RewrittenBlock(P, o, p, k), k + 1)
<1> DEFINE r == RewrittenBlock(P, o, p, k)
           X == Results(P)
           M == Len(Cfg(P)[k].code)
           L == Len(w)
           u == w \o r
<1>1. P \in Seq(Instructions) /\ P # <<>>
  BY DEF FunctionBodies
<1>2. /\ r \in Seq(X) /\ Len(r) = M
      /\ \A n \in 1 .. M : Stands(P, o, p, Starts(P)[k] + n - 1, r[n])
  BY RewrittenStands
<1>3. /\ M \in Nat /\ Starts(P)[k] \in Nat /\ BlockEnd(P, k) \in Nat
      /\ M = BlockEnd(P, k) - Starts(P)[k] + 1
  BY <1>1, BlockInstructions, BlockCode, BlockBounds
<1>4. w \in Seq(X) /\ \A n \in 1 .. L : Stands(P, o, p, n, w[n])
  BY DEF OutUpTo
<1>5. k \in Nat \ {0} /\ k \in DOMAIN Starts(P)
  <2>1. DOMAIN Cfg(P) = 1 .. Cardinality(Leaders(P)) /\ Cardinality(Leaders(P)) \in Nat
    BY <1>1, CfgIsSequence
  <2> QED
    BY <1>1, <2>1, BlockCode
<1>6. Starts(P)[k] = L + 1
  <2>1. CASE k = 1
    BY <1>1, <2>1, FirstAndLastStart DEF OutUpTo
  <2>2. CASE k # 1
    <3>1. Len(Starts(P)) = Cardinality(Leaders(P)) /\ DOMAIN Starts(P) = 1 .. Cardinality(Leaders(P))
          /\ Cardinality(Leaders(P)) \in Nat
      BY <1>1, StartsEnumerate, CfgIsSequence
    <3>2. k - 1 # Len(Starts(P)) /\ (k - 1) + 1 = k
      BY <1>5, <3>1
    <3>3. BlockEnd(P, k - 1) = Starts(P)[k] - 1
      BY <3>2 DEF BlockEnd
    <3>4. L = BlockEnd(P, k - 1)
      BY <2>2 DEF OutUpTo
    <3> QED
      BY <1>3, <3>3, <3>4
  <2> QED
    BY <2>1, <2>2
<1> HIDE DEF r, X, M
<1>7. L \in Nat
  BY <1>4
<1>8. u \in Seq(X) /\ Len(u) = L + M
  <2>1. \A v \in Seq(X) : \A x \in Seq(X) : v \o x \in Seq(X) /\ Len(v \o x) = Len(v) + Len(x)
    OBVIOUS
  <2> QED
    BY <1>2, <1>4, <2>1
<1>9. \A n \in 1 .. L + M : u[n] = IF n <= L THEN w[n] ELSE r[n - L]
  BY <1>2, <1>4
<1> HIDE DEF u, L
<1>10. \A n \in 1 .. L + M : Stands(P, o, p, n, u[n])
  <2> TAKE n \in 1 .. L + M
  <2>1. CASE n <= L
    <3>1. n \in 1 .. L /\ u[n] = w[n]
      BY <1>7, <1>9, <2>1
    <3> QED
      BY <1>4, <3>1
  <2>2. CASE ~(n <= L)
    <3>1. n - L \in 1 .. M /\ Starts(P)[k] + (n - L) - 1 = n
      BY <1>3, <1>6, <1>7, <2>2
    <3>2. u[n] = r[n - L]
      BY <1>9, <2>2
    <3> QED
      BY <1>2, <3>1, <3>2
  <2> QED
    BY <2>1, <2>2
<1>11. L + M = BlockEnd(P, k)
  BY <1>3, <1>6, <1>7
<1>12. k + 1 # 1 /\ (k + 1) - 1 = k
  BY <1>5
<1> QED
  BY <1>8, <1>10, <1>11, <1>12 DEF OutUpTo, u, X, r

(* Q is the optimized form of P.                                           *)
Optimized(P, o, p, Q) ==
    /\ DOMAIN Q = DOMAIN P /\ Len(Q) = Len(P)
    /\ \A n \in DOMAIN P : Stands(P, o, p, n, Q[n])

(* What is returned when all are.                                          *)
LEMMA OutIsOptimized ==
    ASSUME NEW P \in FunctionBodies, NEW o, NEW p, NEW Q, OutUpTo(P, o, p, Q, Len(Cfg(P)) + 1)
    PROVE  Optimized(P, o, p, Q)
<1> DEFINE c == Len(Cfg(P))
           X == Results(P)
<1>1. P \in Seq(Instructions) /\ P # <<>> /\ Len(P) \in Nat /\ DOMAIN P = 1 .. Len(P)
  BY DEF FunctionBodies
<1>2. c \in Nat \ {0} /\ c = Len(Starts(P))
  BY <1>1, CfgIsSequence, StartsEnumerate
<1> HIDE DEF c
<1>3. c + 1 # 1 /\ (c + 1) - 1 = c
  BY <1>2
<1>4. BlockEnd(P, c) = Len(P)
  BY <1>2 DEF BlockEnd
<1>5. Q \in Seq(X) /\ Len(Q) = Len(P) /\ \A n \in 1 .. Len(P) : Stands(P, o, p, n, Q[n])
  BY <1>3, <1>4 DEF OutUpTo, c
<1> HIDE DEF X
<1>6. DOMAIN Q = 1 .. Len(P)
  BY <1>5
<1> QED
  BY <1>1, <1>5, <1>6 DEF Optimized
----------------------------------------------------------------------------
(* The function and its optimized form in lockstep.                        *)
(* A list of one.                                                          *)
LEMMA ListOfOne ==
    ASSUME NEW x, NEW w, w = <<x>>
    PROVE  1 \in DOMAIN w /\ w[1] = x
OBVIOUS

(* The fields of a copy.                                                   *)
LEMMA CopyFields ==
    ASSUME NEW x, NEW d
    PROVE  /\ Copy(x, d).k = "copy" /\ Copy(x, d).dst = d
           /\ 1 \in DOMAIN Copy(x, d).src /\ Copy(x, d).src[1] = x
<1> DEFINE w == <<x>>
           u == Copy(x, d).src
<1>1. Copy(x, d).k = "copy" /\ u = w /\ Copy(x, d).dst = d
  <2> HIDE DEF w
  <2> QED
    BY DEF Copy, Instr, w
<1> HIDE DEF u
<1>2. 1 \in DOMAIN u /\ u[1] = x
  BY <1>1, ListOfOne
<1> QED
  BY <1>1, <1>2 DEF u

(* Instruction n is replaced by a copy of h.                               *)
Replaced(P, o, p, n, i, h) == i = Copy(V(h), P[n].dst) /\ Reuses(P, o, p, n, h)

(* What stands in the place of an instruction is the instruction, or has   *)
(* replaced it.                                                            *)
LEMMA StandsOrReplaced ==
    ASSUME NEW P, NEW o, NEW p, NEW n, NEW i, Stands(P, o, p, n, i)
    PROVE  i = P[n] \/ \E h \in Vars : Replaced(P, o, p, n, i, h)
BY DEF Stands, Replaced

Assigns(i) == i.dst # ""

(* It only gives its destination a value, as the copy does.                *)
LEMMA ReplacedKinds ==
    ASSUME NEW P \in FunctionBodies, NEW o, NEW p, NEW n \in DOMAIN P, NEW i, NEW h,
           Replaced(P, o, p, n, i, h)
    PROVE  i.k = "copy" /\ P[n].k \in Candidates /\ Assigns(P[n])
<1>1. i = Copy(V(h), P[n].dst) /\ Reuses(P, o, p, n, h)
  BY DEF Replaced
<1>2. P[n].k \in Candidates
  BY <1>1 DEF Reuses, IsCandidate, Candidates
<1>3. P[n].dst # ""
  <2>1. P[n] \in Instructions
    BY DEF FunctionBodies
  <2>2. HasFields(P[n])
    BY <2>1, InstructionFields
  <2> QED
    BY <1>2, <2>2 DEF HasFields, Candidates
<1>4. i.k = "copy"
  BY <1>1, CopyFields
<1> QED
  BY <1>2, <1>3, <1>4 DEF Assigns

(* So what stands in its place is the instruction or a copy.               *)
LEMMA StandsKinds ==
    ASSUME NEW P \in FunctionBodies, NEW o, NEW p, NEW n \in DOMAIN P, NEW i, Stands(P, o, p, n, i)
    PROVE  i = P[n] \/ (i.k = "copy" /\ P[n].k \in Candidates)
<1>1. CASE \E h \in Vars : Replaced(P, o, p, n, i, h)
  <2>1. PICK h \in Vars : Replaced(P, o, p, n, i, h)
    BY <1>1
  <2>2. i.k = "copy" /\ P[n].k \in Candidates
    BY <2>1, ReplacedKinds
  <2> QED
    BY <2>2
<1> QED
  BY <1>1, StandsOrReplaced

(* The variable that is reused has the value the instruction computes.     *)
LEMMA ReuseComputes ==
    ASSUME NEW P \in FunctionBodies, NEW o, NEW p, NEW s, MachineOK(P, s), s.pc \in DOMAIN P,
           ~Undefined(P, s), ~AtEvent(P, s), BeliefsHold(P, o, p, s), NEW h, Reuses(P, o, p, s.pc, h)
    PROVE  s.mem[h] = Computed(s, P[s.pc])
<1> DEFINE i == P[s.pc]
<1>1. i \in Instructions
  BY DEF FunctionBodies
<1>2. CASE /\ p = "members" /\ i.k = "get"
           /\ [key |-> MemberKey(i), holder |-> h] \in FactsAt(P, SeenOf(P), s.pc)
  <2> DEFINE e == [key |-> MemberKey(i), holder |-> h]
  <2>1. ReadHolds(e, s)
    BY <1>2 DEF BeliefsHold
  <2>2. e.holder = h /\ e.key[1] = i.src[1][2] /\ e.key[2] = i.at
    BY DEF MemberKey
  <2>3. 1 \in DOMAIN i.src /\ IsVar(i.src[1])
    BY <1>1, <1>2, FirstOperand
  <2>4. Computed(s, i) = N(Member(s.mem[i.src[1][2]], i.at))
    BY <1>2, <2>3 DEF Computed, Value
  <2> HIDE DEF e, i
  <2> QED
    BY <2>1, <2>2, <2>4 DEF ReadHolds, i
<1>3. CASE /\ p = "expressions" /\ IsCandidate(FunctionAliasedVars(P), i)
           /\ [key |-> ExprKey(i), holder |-> h] \in FactsAt(P, RewriteOf(P, o), s.pc)
  <2> DEFINE f == [key |-> ExprKey(i), holder |-> h]
             key == ExprKey(i)
  <2>1. ExprHolds(f, s)
    BY <1>3 DEF BeliefsHold, AvailableAt
  <2>2. i.k \in Candidates
    BY <1>3 DEF IsCandidate, Candidates
  <2>3. key.k = i.k /\ key.src = SortedOperands(i) /\ key.at = i.at
    BY DEF ExprKey
  <2>4. Computed(s, Instr(i.k, SortedOperands(i), h, i.at)) = Computed(s, i)
    BY <2>2, KeyComputes
  <2>5. f.holder = h /\ f.key = key
    OBVIOUS
  <2> HIDE DEF f, key, i
  <2>6. s.mem[h] = Computed(s, Instr(key.k, key.src, h, key.at))
    BY <2>1, <2>5 DEF ExprHolds
  <2> QED
    BY <2>3, <2>4, <2>6 DEF i
<1> QED
  BY <1>2, <1>3 DEF Reuses

(* No label is replaced, so that jumps go where they went.                 *)
LEMMA SameLabels ==
    ASSUME NEW P \in FunctionBodies, NEW o, NEW p, NEW Q, Optimized(P, o, p, Q), NEW l
    PROVE  Goto(Q, l) = Goto(P, l)
<1>1. \A n \in DOMAIN P : (Q[n].k = "label" /\ Q[n].at = l) <=> (P[n].k = "label" /\ P[n].at = l)
  <2> TAKE n \in DOMAIN P
  <2>1. Stands(P, o, p, n, Q[n])
    BY DEF Optimized
  <2>2. Q[n] = P[n] \/ (Q[n].k = "copy" /\ P[n].k \in Candidates)
    BY <2>1, StandsKinds
  <2> QED
    BY <2>2 DEF Candidates
<1>2. DOMAIN Q = DOMAIN P
  BY DEF Optimized
<1>3. LabelsNamed(Q, l) = LabelsNamed(P, l)
  BY <1>1, <1>2 DEF LabelsNamed
<1> QED
  BY <1>3 DEF Goto

(* A copy in the place of an instruction gives its destination what the     *)
(* instruction does, if the copied variable has that value.                *)
LEMMA SameWrite ==
    ASSUME NEW s, NEW i, i.k \in Candidates, Assigns(i), NEW h, s.mem[h] = Computed(s, i)
    PROVE  Written(s, Copy(V(h), i.dst)) = Written(s, i)
<1> DEFINE j == Copy(V(h), i.dst)
           a == [n \in DOMAIN j.src |-> Value(s.mem, j.src[n])]
<1>1. j.k = "copy" /\ 1 \in DOMAIN j.src /\ j.src[1] = V(h) /\ j.dst = i.dst
  BY CopyFields
<1> HIDE DEF j
<1>2. a[1] = s.mem[h]
  <2>1. Value(s.mem, V(h)) = s.mem[h]
    BY DEF Value, V, IsVar
  <2> QED
    BY <1>1, <2>1
<1>3. Computed(s, j) = a[1]
  BY <1>1 DEF Computed
<1> HIDE DEF a
<1>4. Computed(s, j) = Computed(s, i)
  BY <1>2, <1>3
<1>5. Written(s, j) = [s.mem EXCEPT ![i.dst] = Computed(s, j)]
  BY <1>1 DEF Written, Assigns
<1>6. Written(s, i) = [s.mem EXCEPT ![i.dst] = Computed(s, i)]
  BY DEF Written, Candidates, Assigns
<1> QED
  BY <1>4, <1>5, <1>6 DEF j

(* Where beliefs hold the two take the same step.                          *)
LEMMA SameStep ==
    ASSUME NEW P \in FunctionBodies, NEW o, NEW p, NEW Q, Optimized(P, o, p, Q),
           NEW s, MachineOK(P, s), s.pc \in DOMAIN P,
           ~Undefined(P, s), ~AtEvent(P, s), BeliefsHold(P, o, p, s)
    PROVE  Run1(Q, s) = Run1(P, s) /\ ~Undefined(Q, s) /\ ~AtEvent(Q, s)
<1> DEFINE i == P[s.pc]
           j == Q[s.pc]
<1>1. Stands(P, o, p, s.pc, j) /\ Len(Q) = Len(P) /\ DOMAIN Q = DOMAIN P
  BY DEF Optimized
<1>2. \A l : Goto(Q, l) = Goto(P, l)
  BY SameLabels
<1>3. j = i \/ \E h \in Vars : Replaced(P, o, p, s.pc, j, h)
  BY <1>1, StandsOrReplaced
<1>4. CASE j = i
  <2>1. NextPc(Q, s) = NextPc(P, s)
    BY <1>2, <1>4 DEF NextPc
  <2> QED
    BY <1>1, <1>4, <2>1 DEF Run1, Undefined, AtEvent
<1>5. ASSUME NEW h \in Vars, Replaced(P, o, p, s.pc, j, h)
      PROVE  Run1(Q, s) = Run1(P, s) /\ ~Undefined(Q, s) /\ ~AtEvent(Q, s)
  <2>1. j = Copy(V(h), i.dst) /\ Reuses(P, o, p, s.pc, h)
    BY <1>5 DEF Replaced
  <2>2. s.mem[h] = Computed(s, i)
    BY <2>1, ReuseComputes
  <2>3. j.k = "copy" /\ i.k \in Candidates /\ Assigns(i)
    BY <1>5, ReplacedKinds
  <2>4. NextPc(P, s) = s.pc + 1
    BY <2>3 DEF NextPc, Candidates
  <2>5. NextPc(Q, s) = s.pc + 1
    BY <2>3 DEF NextPc
  <2>6. P[s.pc].k # "setjmp" /\ Q[s.pc].k # "setjmp"
    BY <2>3 DEF Candidates
  <2>7. ~AtEvent(Q, s)
    BY <1>1, <2>3 DEF AtEvent
  <2>8. ~Undefined(Q, s)
    BY <2>3 DEF Undefined
  <2> HIDE DEF i, j
  <2>9. Written(s, j) = Written(s, i)
    BY <2>1, <2>2, <2>3, SameWrite
  <2>10. Run1(P, s) = [pc |-> s.pc + 1, mem |-> Written(s, i), jb |-> s.jb]
    BY <2>4, <2>6 DEF Run1, i
  <2>11. Run1(Q, s) = [pc |-> s.pc + 1, mem |-> Written(s, j), jb |-> s.jb]
    BY <2>5, <2>6 DEF Run1, j
  <2> QED
    BY <2>7, <2>8, <2>9, <2>10, <2>11
<1> QED
  BY <1>3, <1>4, <1>5

(* They wait for the environment at the same positions, show it the same,   *)
(* and are given the same answer.                                          *)
LEMMA SameEvent ==
    ASSUME NEW P \in FunctionBodies, NEW o, NEW p, NEW Q, Optimized(P, o, p, Q),
           NEW s, MachineOK(P, s)
    PROVE  /\ AtEvent(Q, s) <=> AtEvent(P, s)
           /\ AtEvent(P, s) => \A reach : Observed(Q, s, reach) = Observed(P, s, reach)
           /\ s.pc \in DOMAIN P /\ AtEvent(P, s) =>
                \A eff, w, r : Returned(Q, s, eff, w, r) = Returned(P, s, eff, w, r)
<1>1. Len(Q) = Len(P) /\ DOMAIN P = 1 .. Len(P) /\ Len(P) \in Nat /\ s.pc \in 1 .. Len(P) + 1
  BY DEF Optimized, MachineOK, FunctionBodies
<1>2. CASE s.pc > Len(P)
  <2>1. s.pc \notin DOMAIN P
    BY <1>1, <1>2
  <2> QED
    BY <1>1, <1>2, <2>1 DEF AtEvent, Observed
<1>3. CASE ~(s.pc > Len(P))
  <2>1. s.pc \in DOMAIN P
    BY <1>1, <1>3
  <2>2. Stands(P, o, p, s.pc, Q[s.pc])
    BY <2>1 DEF Optimized
  <2>3. Q[s.pc] = P[s.pc] \/ (Q[s.pc].k = "copy" /\ P[s.pc].k \in Candidates)
    BY <2>1, <2>2, StandsKinds
  <2>4. CASE Q[s.pc] = P[s.pc]
    BY <1>1, <2>4 DEF AtEvent, Observed, Returned
  <2>5. CASE Q[s.pc].k = "copy" /\ P[s.pc].k \in Candidates
    BY <1>1, <1>3, <2>5 DEF AtEvent, Candidates
  <2> QED
    BY <2>3, <2>4, <2>5
<1> QED
  BY <1>2, <1>3
----------------------------------------------------------------------------
(* The worklist.  A program of the set stays the program of the run, and    *)
(* what is at the end of a block are facts.                                *)
ProgOK == prog \in FunctionBodies
FactsOK == blockOut \in [DOMAIN cfg -> SUBSET ExprFacts]

(* The members pass uses neither the worklist nor the facts.               *)
MembersIdle == pass = "members" => worklist = <<>> /\ \A b \in DOMAIN cfg : blockOut[b] = {}

(* A block that is not queued satisfies its data-flow equation.            *)
SettledUnlessQueued ==
    pass = "expressions" =>
        \A b \in DOMAIN cfg : b \notin ToSet(worklist) => blockOut[b] = Equation(blockOut, b)

(* The worklist is empty once the analysis has ended.                      *)
Drained == phase # "analyse" => worklist = <<>>

(* How much of the function is rewritten.                                  *)
OutOK ==
    /\ phase = "analyse" => out = <<>> /\ todo = 1
    /\ phase = "rewrite" => todo \in DOMAIN cfg /\ OutUpTo(prog, blockOut, pass, out, todo)
    /\ phase \notin {"analyse", "rewrite"} => Optimized(prog, blockOut, pass, out)

PassOK == TypeOK /\ ProgOK /\ FactsOK /\ MembersIdle /\ SettledUnlessQueued /\ Drained /\ OutOK

(* The equation is what the analysis says.                                 *)
LEMMA EquationIs ==
    ASSUME TypeOK, ProgOK, FactsOK, NEW b \in DOMAIN cfg
    PROVE  /\ Equation(blockOut, b) = AnalysisOf(prog, blockOut)[b][Len(cfg[b].code)]
           /\ Equation(blockOut, b) \in SUBSET ExprFacts
<1> DEFINE M == Len(cfg[b].code)
           after == AnalysisOf(prog, blockOut)[b]
<1>1. prog \in FunctionBodies /\ cfg = Cfg(prog)
  BY DEF ProgOK, TypeOK
<1>2. M \in Nat
  BY <1>1, BlockInstructions
<1>3. \A n \in 0 .. M : after[n] \in SUBSET ExprFacts
  BY <1>1, AnalysisIs DEF FactsOK, Carried
<1>4. after[M] = Equation(blockOut, b)
  BY <1>1 DEF AnalysisOf, Equation, Aliased, TransferExprs
<1> HIDE DEF M, after
<1>5. M \in 0 .. M
  BY <1>2
<1> QED
  BY <1>3, <1>4, <1>5 DEF M, after

(* Once the worklist is empty the facts are a solution.                    *)
LEMMA FixpointSolves ==
    ASSUME TypeOK, ProgOK, FactsOK, SettledUnlessQueued, worklist = <<>>, pass = "expressions"
    PROVE  Solves(prog, blockOut)
<1>1. ToSet(worklist) = {}
  BY DEF ToSet
<1>2. cfg = Cfg(prog)
  BY DEF TypeOK
<1>3. \A b \in DOMAIN cfg : blockOut[b] = AnalysisOf(prog, blockOut)[b][Len(cfg[b].code)]
  BY <1>1, EquationIs DEF SettledUnlessQueued
<1> QED
  BY <1>2, <1>3 DEF Solves, FactsOK

(* All of it holds at the start.                                           *)
LEMMA PassInit == Init => PassOK
<1> SUFFICES ASSUME Init PROVE PassOK
  OBVIOUS
<1>0. ProgOK
  BY ProgramsAssumption DEF Init, ProgOK
<1>1. prog \in Seq(Instructions) /\ prog # <<>>
  BY <1>0 DEF ProgOK, FunctionBodies
<1> DEFINE c == Cardinality(Leaders(prog))
<1>2. c \in Nat \ {0} /\ DOMAIN cfg = 1 .. c /\ Len(cfg) = c
  BY <1>1, CfgIsSequence DEF Init
<1>3. cfg = Cfg(prog) /\ blockOut = [b \in DOMAIN cfg |-> {}] /\ todo = 1 /\ out = <<>>
      /\ phase = "analyse" /\ pass \in {"members", "expressions"}
  BY DEF Init, EquivInit
<1>4. worklist = IF pass = "members" THEN <<>> ELSE [b \in DOMAIN cfg |-> b]
  BY DEF Init
<1> HIDE DEF c
<1>5. worklist \in Seq(DOMAIN cfg)
  <2> DEFINE w == [b \in 1 .. c |-> b]
  <2>1. w \in Seq(DOMAIN cfg)
    <3>1. c \in Nat /\ (\A n \in 1 .. c : w[n] \in DOMAIN cfg) /\ w = [n \in 1 .. c |-> w[n]]
      BY <1>2
    <3> HIDE DEF w
    <3> QED
      BY <3>1, ListOf
  <2>2. <<>> \in Seq(DOMAIN cfg)
    OBVIOUS
  <2>3. worklist = <<>> \/ worklist = w
    BY <1>2, <1>4
  <2> HIDE DEF w
  <2> QED
    BY <2>1, <2>2, <2>3
<1>6. TypeOK
  <2>1. blockOut \in [DOMAIN cfg -> SUBSET Availables] /\ todo \in 1 .. Len(cfg) + 1
    BY <1>2, <1>3
  <2> QED
    BY <1>3, <1>5, <2>1 DEF TypeOK
<1>7. FactsOK
  BY <1>3 DEF FactsOK
<1>8. MembersIdle
  BY <1>3, <1>4 DEF MembersIdle
<1>9. SettledUnlessQueued
  <2> SUFFICES ASSUME pass = "expressions", NEW b \in DOMAIN cfg PROVE b \in ToSet(worklist)
    BY DEF SettledUnlessQueued
  <2>1. worklist = [d \in DOMAIN cfg |-> d]
    BY <1>4
  <2> QED
    BY <2>1 DEF ToSet
<1>10. Drained /\ OutOK
  BY <1>3 DEF Drained, OutOK
<1> QED
  BY <1>0, <1>6, <1>7, <1>8, <1>9, <1>10 DEF PassOK

(* What Visit does to the facts and the worklist.                          *)
LEMMA VisitEnqueues ==
    ASSUME TypeOK, ProgOK, Visit
    PROVE  LET b == Head(worklist) IN
           /\ b \in DOMAIN cfg
           /\ worklist' \in Seq(DOMAIN cfg)
           /\ ToSet(worklist) \subseteq ToSet(worklist') \cup {b}
           /\ blockOut' = [blockOut EXCEPT ![b] = Equation(blockOut, b)]
           /\ \/ blockOut'[b] = blockOut[b]
              \/ cfg[b].succs \subseteq ToSet(worklist') \cup {Exit}
<1> DEFINE b == Head(worklist)
           t == Tail(worklist)
           newOut == Equation(blockOut, b)
<1>1. worklist \in Seq(DOMAIN cfg) /\ worklist # <<>>
  BY DEF TypeOK, Visit
<1>2. b \in DOMAIN cfg /\ t \in Seq(DOMAIN cfg)
  BY <1>1
<1>3. ToSet(worklist) \subseteq ToSet(t) \cup {b}
  BY <1>1, RangeOfTail
<1>4. blockOut' = [blockOut EXCEPT ![b] = newOut]
  BY DEF Visit
<1>5. CASE blockOut[b] # newOut
  <2>1. PICK order \in Orders(Unqueued(b)) : worklist' = t \o order
    BY <1>5 DEF Visit
  <2>2. Unqueued(b) \subseteq DOMAIN cfg
    BY <1>2, SuccessorsAreBlocks DEF Unqueued, TypeOK, ProgOK, FunctionBodies
  <2>3. IsFiniteSet(Unqueued(b))
    <3>1. Cardinality(Leaders(prog)) \in Int /\ DOMAIN cfg = 1 .. Cardinality(Leaders(prog))
      BY CfgIsSequence DEF TypeOK, ProgOK, FunctionBodies
    <3>2. 1 \in Int
      OBVIOUS
    <3>3. IsFiniteSet(DOMAIN cfg)
      BY <3>1, <3>2, FS_Interval
    <3> QED
      BY <2>2, <3>3, FS_Subset
  <2>4. order \in Seq(Unqueued(b)) /\ ToSet(order) = Unqueued(b)
    BY <2>1, <2>3, OrdersListTheSet
  <2>5. order \in Seq(DOMAIN cfg)
    BY <2>2, <2>4
  <2>6. worklist' \in Seq(DOMAIN cfg)
    BY <1>2, <2>1, <2>5
  <2>7. ToSet(worklist') = ToSet(t) \cup ToSet(order)
    BY <1>2, <2>1, <2>5, RangeOfConcatenation
  <2> QED
    BY <1>2, <1>3, <1>4, <2>4, <2>6, <2>7 DEF Unqueued
<1>6. CASE blockOut[b] = newOut
  <2>1. worklist' = t
    BY <1>6 DEF Visit
  <2>2. blockOut'[b] = blockOut[b]
    BY <1>2, <1>4, <1>6 DEF TypeOK
  <2> QED
    BY <1>2, <1>3, <1>4, <2>1, <2>2
<1> QED
  BY <1>5, <1>6

(* The equation of a block reads the facts of its predecessors only.       *)
LEMMA EquationReadsPredecessors ==
    ASSUME NEW o, NEW o2, NEW c, \A p \in cfg[c].preds : o[p] = o2[p]
    PROVE  Equation(o, c) = Equation(o2, c)
<1>1. MeetExprs(o, cfg[c].preds) = MeetExprs(o2, cfg[c].preds)
  BY DEF MeetExprs
<1> QED
  BY <1>1 DEF Equation

(* A visit settles its block and unsettles only the successors, which it    *)
(* enqueues.                                                               *)
LEMMA SettledVisit ==
    ASSUME TypeOK, ProgOK, SettledUnlessQueued, Visit
    PROVE  SettledUnlessQueued'
<1> DEFINE b == Head(worklist)
<1>1. /\ b \in DOMAIN cfg
      /\ ToSet(worklist) \subseteq ToSet(worklist') \cup {b}
      /\ blockOut' = [blockOut EXCEPT ![b] = Equation(blockOut, b)]
      /\ \/ blockOut'[b] = blockOut[b]
         \/ cfg[b].succs \subseteq ToSet(worklist') \cup {Exit}
  BY VisitEnqueues
<1>2. cfg' = cfg /\ prog' = prog /\ pass' = pass
  BY DEF Visit
<1>3. Exit \notin DOMAIN cfg /\ Entry \notin DOMAIN cfg
  BY CfgIsSequence DEF TypeOK, ProgOK, FunctionBodies, Exit, Entry
<1> SUFFICES ASSUME pass = "expressions", NEW c \in DOMAIN cfg, c \notin ToSet(worklist')
             PROVE  blockOut'[c] = Equation(blockOut', c)
  BY <1>2 DEF SettledUnlessQueued, Equation, Aliased
<1>4. Equation(blockOut', c) = Equation(blockOut, c)
  <2>1. CASE blockOut'[b] = blockOut[b]
    <3>1. blockOut' = blockOut
      BY <1>1, <2>1 DEF TypeOK
    <3> QED
      BY <3>1
  <2>2. CASE cfg[b].succs \subseteq ToSet(worklist') \cup {Exit}
    <3>1. c \notin cfg[b].succs
      BY <1>3, <2>2
    <3>2. b \notin cfg[c].preds
      BY <1>1, <1>3, <3>1, PredecessorsInvertSuccessors DEF TypeOK, ProgOK, FunctionBodies
    <3>3. \A p \in cfg[c].preds : blockOut'[p] = blockOut[p]
      BY <1>1, <3>2 DEF TypeOK
    <3> QED
      BY <3>3, EquationReadsPredecessors
  <2> QED
    BY <1>1, <2>1, <2>2
<1>5. CASE c = b
  BY <1>1, <1>4, <1>5 DEF TypeOK
<1>6. CASE c # b
  <2>1. c \notin ToSet(worklist)
    BY <1>1, <1>6
  <2>2. blockOut[c] = Equation(blockOut, c)
    BY <2>1 DEF SettledUnlessQueued
  <2>3. blockOut'[c] = blockOut[c]
    BY <1>1, <1>6 DEF TypeOK
  <2> QED
    BY <1>4, <2>2, <2>3
<1> QED
  BY <1>5, <1>6

(* What RewriteNext appends is the rewritten block.                        *)
LEMMA BlockIsRewritten ==
    ASSUME TypeOK, todo \in DOMAIN cfg, RewriteNext
    PROVE  out' = out \o RewrittenBlock(prog, blockOut, pass, todo)
BY DEF TypeOK, RewriteNext, RewrittenBlock, Aliased

(* Every step keeps all of it.                                             *)
LEMMA PassStep == PassOK /\ [Next]_vars => PassOK'
<1> SUFFICES ASSUME PassOK, [Next]_vars PROVE PassOK'
  OBVIOUS
<1>0. TypeOK /\ ProgOK /\ FactsOK /\ MembersIdle /\ SettledUnlessQueued /\ Drained /\ OutOK
  BY DEF PassOK
<1>00. /\ Len(cfg) \in Nat \ {0} /\ DOMAIN cfg = 1 .. Len(cfg)
       /\ prog \in FunctionBodies /\ cfg = Cfg(prog)
  BY <1>0, CfgIsSequence DEF TypeOK, ProgOK, FunctionBodies
<1>1. CASE Visit
  <2> DEFINE b == Head(worklist)
  <2>1. /\ b \in DOMAIN cfg /\ worklist' \in Seq(DOMAIN cfg)
        /\ blockOut' = [blockOut EXCEPT ![b] = Equation(blockOut, b)]
    BY <1>0, <1>1, VisitEnqueues
  <2>2. Equation(blockOut, b) \in SUBSET ExprFacts
    BY <1>0, <2>1, EquationIs
  <2>3. UNCHANGED <<prog, out, phase, pass, cfg, todo>> /\ phase = "analyse" /\ worklist # <<>>
    BY <1>1 DEF Visit
  <2>4. blockOut' \in [DOMAIN cfg -> SUBSET ExprFacts]
    BY <1>0, <2>1, <2>2 DEF FactsOK
  <2>5. ExprFacts \subseteq Availables
    BY DEF ExprFacts
  <2>6. blockOut' \in [DOMAIN cfg -> SUBSET Availables]
    BY <2>4, <2>5
  <2>7. TypeOK' /\ ProgOK' /\ FactsOK'
    BY <1>0, <2>1, <2>3, <2>4, <2>6 DEF TypeOK, ProgOK, FactsOK
  <2>8. MembersIdle'
    BY <1>0, <2>3 DEF MembersIdle
  <2>9. SettledUnlessQueued'
    BY <1>0, <1>1, SettledVisit
  <2>10. Drained' /\ OutOK'
    BY <1>0, <2>3 DEF Drained, OutOK
  <2> QED
    BY <2>7, <2>8, <2>9, <2>10 DEF PassOK
<1>2. CASE Converge
  <2>1. UNCHANGED <<prog, out, pass, cfg, blockOut, worklist, todo>>
        /\ phase = "analyse" /\ worklist = <<>> /\ phase' = "rewrite"
    BY <1>2 DEF Converge
  <2>2. TypeOK' /\ ProgOK' /\ FactsOK' /\ MembersIdle' /\ Drained'
    BY <1>0, <2>1 DEF TypeOK, ProgOK, FactsOK, MembersIdle, Drained
  <2>3. SettledUnlessQueued'
    BY <1>0, <2>1 DEF SettledUnlessQueued, Equation, Aliased
  <2>4. out = <<>> /\ todo = 1 /\ 1 \in DOMAIN cfg
    BY <1>0, <1>00, <2>1 DEF OutOK
  <2>5. OutUpTo(prog, blockOut, pass, <<>>, 1)
    <3>1. <<>> \in Seq(Results(prog)) /\ Len(<<>>) = 0
      OBVIOUS
    <3> QED
      BY <3>1 DEF OutUpTo
  <2>6. OutOK'
    BY <2>1, <2>4, <2>5 DEF OutOK
  <2> QED
    BY <2>2, <2>3, <2>6 DEF PassOK
<1>3. CASE RewriteNext
  <2>1. /\ UNCHANGED <<prog, pass, cfg, blockOut, worklist>>
        /\ phase = "rewrite" /\ todo' = todo + 1
        /\ phase' = IF todo = Len(cfg) THEN "ready" ELSE phase
    BY <1>3 DEF RewriteNext
  <2>2. todo \in DOMAIN cfg /\ OutUpTo(prog, blockOut, pass, out, todo)
    BY <1>0, <2>1 DEF OutOK
  <2>3. worklist = <<>>
    BY <1>0, <2>1 DEF Drained
  <2>4. pass = "expressions" => Solves(prog, blockOut)
    BY <1>0, <2>3, FixpointSolves
  <2>5. pass \in {"members", "expressions"}
    BY <1>0 DEF TypeOK
  <2>6. out' = out \o RewrittenBlock(prog, blockOut, pass, todo)
    BY <1>0, <1>3, <2>2, BlockIsRewritten
  <2>7. OutUpTo(prog, blockOut, pass, out', todo + 1)
    BY <1>00, <2>2, <2>4, <2>5, <2>6, OutGrows
  <2>8. todo + 1 \in 1 .. Len(cfg) + 1 /\ (todo # Len(cfg) => todo + 1 \in DOMAIN cfg)
    BY <1>00, <2>2
  <2>9. phase' \in {"rewrite", "ready"}
    BY <2>1
  <2>10. TypeOK' /\ ProgOK' /\ FactsOK' /\ MembersIdle' /\ Drained'
    BY <1>0, <2>1, <2>3, <2>8, <2>9 DEF TypeOK, ProgOK, FactsOK, MembersIdle, Drained
  <2>11. SettledUnlessQueued'
    BY <1>0, <2>1 DEF SettledUnlessQueued, Equation, Aliased
  <2>12. OutOK'
    <3>1. CASE todo = Len(cfg)
      <4>1. Optimized(prog, blockOut, pass, out')
        BY <1>00, <2>7, <3>1, OutIsOptimized
      <4> QED
        BY <2>1, <3>1, <4>1 DEF OutOK
    <3>2. CASE todo # Len(cfg)
      <4>1. phase' = "rewrite"
        BY <2>1, <3>2
      <4> QED
        BY <2>1, <2>7, <2>8, <3>2, <4>1 DEF OutOK
    <3> QED
      BY <3>1, <3>2
  <2> QED
    BY <2>10, <2>11, <2>12 DEF PassOK
<1>4. CASE Run
  <2>1. /\ UNCHANGED <<prog, out, pass, cfg, blockOut, worklist, todo>>
        /\ phase \notin {"analyse", "rewrite"}
        /\ phase' \in {"source", "target", "event", "done"}
    BY <1>4 DEF Run, RunNext, Start, SourceStep, SourceStops, TargetStep, TargetStops, Answer, Finish
  <2>2. TypeOK' /\ ProgOK' /\ FactsOK' /\ MembersIdle' /\ Drained'
    BY <1>0, <2>1 DEF TypeOK, ProgOK, FactsOK, MembersIdle, Drained
  <2>3. SettledUnlessQueued'
    BY <1>0, <2>1 DEF SettledUnlessQueued, Equation, Aliased
  <2>4. OutOK'
    BY <1>0, <2>1 DEF OutOK
  <2> QED
    BY <2>2, <2>3, <2>4 DEF PassOK
<1>5. CASE UNCHANGED vars
  BY <1>0, <1>5 DEF vars, PassOK, TypeOK, ProgOK, FactsOK, MembersIdle, SettledUnlessQueued,
                    Drained, OutOK, Equation, Aliased
<1> QED
  BY <1>1, <1>2, <1>3, <1>4, <1>5 DEF Next, Done

(* Type correctness of the pass, for any set of functions: and the facts   *)
(* the analysis leaves solve its equations, no block is rewritten before   *)
(* they do, and every instruction it returns is the one it was given or a  *)
(* copy that reuses a value the facts report.                              *)
THEOREM TypeCorrect == Spec => []PassOK
<1> QED
  BY PassInit, PassStep, PTL DEF Spec

(* Once the function is rewritten the facts are a solution.                *)
LEMMA RunningSolves ==
    ASSUME PassOK, phase # "analyse"
    PROVE  /\ prog \in FunctionBodies
           /\ pass = "expressions" => Solves(prog, blockOut)
BY FixpointSolves DEF PassOK, Drained, ProgOK
----------------------------------------------------------------------------
(* While the two functions run, the beliefs hold of both machines, and the  *)
(* original function would take the optimized machine to its own: when it  *)
(* waits for an event it has the same machine.                             *)
Good(s) == MachineOK(prog, s) /\ BeliefsHold(prog, blockOut, pass, s)

LockOK ==
    /\ phase \in {"source", "target", "event"} => Good(src) /\ Good(opt)
    /\ phase \in {"source", "target"} => Leads(prog, opt, src)
    /\ phase \in {"target", "event"} => AtEvent(prog, src)
    /\ phase = "event" => opt = src

(* A function starts with a memory that holds no address of a local.       *)
LEMMA StartGood ==
    ASSUME PassOK, phase # "analyse", NEW m \in Memories, NEW s, s = [pc |-> 1, mem |-> m, jb |-> NoJump]
    PROVE  Good(s)
<1>0. prog \in FunctionBodies /\ (pass = "expressions" => Solves(prog, blockOut))
  BY RunningSolves
<1>1. /\ m = [x \in Vars |-> m[x]]
      /\ \A x \in Vars : (m[x][1] = "a" => m[x][2] \in Statics) /\ m[x][1] # "l"
  BY MemoriesAssumption
<1>2. \A x \in Vars : ValueOK(prog, m[x])
  BY <1>1 DEF ValueOK, Reachable
<1>3. MemoryOK(prog, m)
  BY <1>1, <1>2 DEF MemoryOK
<1>4. 1 \in 1 .. Len(prog) + 1
  BY <1>0 DEF FunctionBodies
<1>5. MachineOK(prog, s)
  BY <1>3, <1>4 DEF MachineOK
<1>6. BeliefsHold(prog, blockOut, pass, s)
  BY <1>0, NothingBelievedAtStart
<1> QED
  BY <1>5, <1>6 DEF Good

(* A step of the original function keeps a machine good.                   *)
LEMMA StepGood ==
    ASSUME PassOK, phase # "analyse", NEW s, Good(s), ~AtEvent(prog, s), ~Undefined(prog, s)
    PROVE  s.pc \in DOMAIN prog /\ Good(Run1(prog, s))
<1>0. prog \in FunctionBodies /\ (pass = "expressions" => Solves(prog, blockOut))
  BY RunningSolves
<1>1. MachineOK(prog, s) /\ BeliefsHold(prog, blockOut, pass, s)
  BY DEF Good
<1>2. s.pc \in DOMAIN prog
  BY <1>0, <1>1 DEF MachineOK, FunctionBodies, AtEvent
<1>3. MachineOK(prog, Run1(prog, s))
  BY <1>0, <1>1, <1>2, RunOK
<1>4. BeliefsHold(prog, blockOut, pass, Run1(prog, s))
  BY <1>0, <1>1, <1>2, BeliefsHoldAfterStep
<1> QED
  BY <1>2, <1>3, <1>4 DEF Good

(* The optimized function takes the same step.                             *)
LEMMA LockStep ==
    ASSUME PassOK, phase \in {"source", "target", "event"}, NEW s, Good(s),
           ~AtEvent(prog, s), ~Undefined(prog, s)
    PROVE  Run1(out, s) = Run1(prog, s) /\ ~Undefined(out, s) /\ ~AtEvent(out, s)
<1>1. prog \in FunctionBodies /\ Optimized(prog, blockOut, pass, out)
  BY RunningSolves DEF PassOK, OutOK
<1>2. MachineOK(prog, s) /\ BeliefsHold(prog, blockOut, pass, s)
  BY DEF Good
<1>3. s.pc \in DOMAIN prog
  BY StepGood
<1> QED
  BY <1>1, <1>2, <1>3, SameStep

(* And waits where the original one does.                                  *)
LEMMA LockEvent ==
    ASSUME PassOK, phase \in {"source", "target", "event"}, NEW s, Good(s)
    PROVE  /\ AtEvent(out, s) <=> AtEvent(prog, s)
           /\ AtEvent(prog, s) => \A reach : Observed(out, s, reach) = Observed(prog, s, reach)
           /\ s.pc \in DOMAIN prog /\ AtEvent(prog, s) =>
                \A eff, w, r : Returned(out, s, eff, w, r) = Returned(prog, s, eff, w, r)
<1>1. prog \in FunctionBodies /\ Optimized(prog, blockOut, pass, out)
  BY RunningSolves DEF PassOK, OutOK
<1>2. MachineOK(prog, s)
  BY DEF Good
<1> QED
  BY <1>1, <1>2, SameEvent

(* The answer to a call and a longjmp leave a good machine.                *)
LEMMA AnswerGood ==
    ASSUME PassOK, Good(src), Answer
    PROVE  Good(src')
<1>0. /\ prog \in FunctionBodies /\ (pass = "expressions" => Solves(prog, blockOut))
      /\ MachineOK(prog, src)
  BY RunningSolves DEF Answer, Good
<1>1. src.pc \in DOMAIN prog /\ prog[src.pc].k \in {"call", "icall"}
  BY <1>0 DEF Answer, AtCall, MachineOK, FunctionBodies
<1>2. PICK eff \in Writes, w \in Numbers :
         \/ \E r \in Numbers : src' = Returned(prog, src, eff, w, r)
         \/ src.jb # NoJump /\ src' = JumpedBack(src, eff, w)
  BY DEF Answer
<1>3. CASE \E r \in Numbers : src' = Returned(prog, src, eff, w, r)
  <2>1. PICK r \in Numbers : src' = Returned(prog, src, eff, w, r)
    BY <1>3
  <2>2. MachineOK(prog, src')
    BY <1>0, <1>1, <2>1, ReturnedOK
  <2>3. src'.pc = src.pc + 1
    <3> DEFINE m == [x \in Vars |-> IF x \in eff THEN w ELSE src.mem[x]]
               m3 == IF prog[src.pc].dst = "" THEN m ELSE [m EXCEPT ![prog[src.pc].dst] = r]
               p == src.pc + 1
               t == src'
    <3>1. src = [pc |-> src.pc, mem |-> src.mem, jb |-> src.jb]
      BY <1>0 DEF MachineOK
    <3>2. t = [src EXCEPT !.pc = p, !.mem = m3]
      BY <2>1 DEF Returned
    <3> HIDE DEF m3, p, t
    <3>3. t = [pc |-> p, mem |-> m3, jb |-> src.jb]
      BY <3>1, <3>2, MachineUpdate
    <3>4. t.pc = p
      BY <3>3
    <3> QED
      BY <3>4 DEF p, t
  <2>4. BeliefsHold(prog, blockOut, pass, src')
    BY <1>0, <1>1, <2>3, NothingBelieved
  <2> QED
    BY <2>2, <2>4, <1>0 DEF Good, Answer
<1>4. CASE src.jb # NoJump /\ src' = JumpedBack(src, eff, w)
  <2>1. /\ MachineOK(prog, src')
        /\ \E q \in DOMAIN prog : prog[q].k = "setjmp" /\ src'.pc = q + 1
    BY <1>0, <1>4, JumpedBackOK
  <2>2. PICK q \in DOMAIN prog : prog[q].k = "setjmp" /\ src'.pc = q + 1
    BY <2>1
  <2>3. BeliefsHold(prog, blockOut, pass, src')
    BY <1>0, <2>2, NothingBelieved
  <2> QED
    BY <2>1, <2>3 DEF Good
<1> QED
  BY <1>2, <1>3, <1>4

(* Every step of the two functions and of their environment keeps them in  *)
(* lockstep.                                                               *)
LEMMA LockHolds == PassOK /\ LockOK /\ [Next]_vars => LockOK'
<1> SUFFICES ASSUME PassOK, LockOK, [Next]_vars PROVE LockOK'
  OBVIOUS
<1>1. CASE Visit \/ Converge \/ RewriteNext
  <2>1. phase' \notin {"source", "target", "event"}
    BY <1>1 DEF Visit, Converge, RewriteNext
  <2> QED
    BY <2>1 DEF LockOK
<1>2. CASE UNCHANGED vars
  BY <1>2 DEF vars, LockOK, Good
<1>3. CASE Run
  <2>1. UNCHANGED <<prog, out, pass, blockOut>>
    BY <1>3 DEF Run, RunNext, Start, SourceStep, SourceStops, TargetStep, TargetStops, Answer, Finish
  <2> SUFFICES /\ phase' \in {"source", "target", "event"} => Good(src') /\ Good(opt')
               /\ phase' \in {"source", "target"} => Leads(prog, opt', src')
               /\ phase' \in {"target", "event"} => AtEvent(prog, src')
               /\ phase' = "event" => opt' = src'
    BY <2>1 DEF LockOK, Good
  <2>2. CASE Start
    <3>1. PICK m \in Memories : /\ src' = [pc |-> 1, mem |-> m, jb |-> NoJump]
                                /\ opt' = [pc |-> 1, mem |-> m, jb |-> NoJump]
      BY <2>2 DEF Start
    <3>2. opt' = src' /\ phase # "analyse" /\ phase' = "source"
      BY <2>2, <3>1 DEF Start
    <3>3. Good(src')
      BY <3>1, <3>2, StartGood
    <3>4. Leads(prog, src', src')
      BY LeadsSelf
    <3> QED
      BY <3>2, <3>3, <3>4
  <2>3. CASE SourceStep
    <3>1. /\ phase = "source" /\ phase' = phase /\ opt' = opt /\ src' = Run1(prog, src)
          /\ ~AtEvent(prog, src) /\ ~Undefined(prog, src)
      BY <2>3 DEF SourceStep
    <3>2. Good(src) /\ Good(opt) /\ Leads(prog, opt, src)
      BY <3>1 DEF LockOK
    <3>3. Good(src')
      BY <3>1, <3>2, StepGood
    <3>4. Leads(prog, opt', src')
      BY <3>1, <3>2, LeadsExtend
    <3> QED
      BY <3>1, <3>2, <3>3, <3>4
  <2>4. CASE SourceStops
    <3>1. /\ phase = "source" /\ src' = src /\ opt' = opt
          /\ phase' = "done" \/ (AtEvent(prog, src) /\ phase' = "target")
      BY <2>4 DEF SourceStops
    <3> QED
      BY <3>1 DEF LockOK
  <2>5. CASE TargetStep
    <3>1. /\ phase = "target" /\ phase' = phase /\ src' = src /\ opt' = Run1(out, opt)
          /\ ~AtEvent(out, opt)
      BY <2>5 DEF TargetStep
    <3>2. Good(src) /\ Good(opt) /\ Leads(prog, opt, src) /\ AtEvent(prog, src)
      BY <3>1 DEF LockOK
    <3>3. opt # src
      BY <3>1, <3>2, LockEvent
    <3>4. ~AtEvent(prog, opt) /\ ~Undefined(prog, opt) /\ Leads(prog, Run1(prog, opt), src)
      BY <3>2, <3>3, LeadsAdvance
    <3>5. Run1(out, opt) = Run1(prog, opt)
      BY <3>1, <3>2, <3>4, LockStep
    <3>6. Good(opt')
      BY <3>1, <3>2, <3>4, <3>5, StepGood
    <3> QED
      BY <3>1, <3>2, <3>4, <3>5, <3>6
  <2>6. CASE TargetStops
    <3>1. phase = "target" /\ phase' = "event" /\ src' = src /\ opt' = opt /\ AtEvent(out, opt)
      BY <2>6 DEF TargetStops
    <3>2. Good(src) /\ Good(opt) /\ Leads(prog, opt, src) /\ AtEvent(prog, src)
      BY <3>1 DEF LockOK
    <3>3. AtEvent(prog, opt)
      BY <3>1, <3>2, LockEvent
    <3>4. opt = src
      BY <3>2, <3>3, LeadsAdvance
    <3> QED
      BY <3>1, <3>2, <3>4
  <2>7. CASE Answer
    <3>1. phase = "event" /\ phase' = "source" /\ opt = src /\ AtEvent(prog, src) /\ Good(src)
      BY <2>7 DEF Answer, LockOK
    <3>2. src.pc \in DOMAIN prog
      BY <2>7, <3>1 DEF Answer, AtCall, Good, MachineOK, PassOK, ProgOK, FunctionBodies
    <3>3. \A eff, w, r : Returned(out, src, eff, w, r) = Returned(prog, src, eff, w, r)
      BY <3>1, <3>2, LockEvent
    <3>4. opt' = src'
      BY <2>7, <3>1, <3>3 DEF Answer
    <3>5. Good(src')
      BY <2>7, <3>1, AnswerGood
    <3>6. Leads(prog, src', src')
      BY LeadsSelf
    <3> QED
      BY <3>1, <3>4, <3>5, <3>6
  <2>8. CASE Finish
    BY <2>8 DEF Finish
  <2> QED
    BY <1>3, <2>2, <2>3, <2>4, <2>5, <2>6, <2>7, <2>8 DEF Run, RunNext
<1> QED
  BY <1>1, <1>2, <1>3 DEF Next, Done

(* The two are in lockstep in every state the specification reaches.       *)
THEOREM InLockstep == Spec => []LockOK
<1>1. Init => LockOK
  BY DEF Init, EquivInit, LockOK
<1> QED
  BY <1>1, LockHolds, TypeCorrect, PTL DEF Spec

(* Every expression the analysis reports at the start of a block has,      *)
(* whenever the function gets there, the value of the variable said to     *)
(* hold it: for every program, every memory it may start with, and         *)
(* whatever its callees write or jump back from.                           *)
THEOREM ReportedExpressionsHold == Spec => []AvailableExpressionsHold
<1>1. PassOK /\ LockOK => AvailableExpressionsHold
  <2> SUFFICES ASSUME PassOK, LockOK, phase = "source", NEW b \in DOMAIN cfg, Starts(prog)[b] = src.pc,
                      NEW f \in MeetExprs(blockOut, cfg[b].preds)
               PROVE  src.mem[f.holder] = Computed(src, Instr(f.key.k, f.key.src, f.holder, f.key.at))
    BY DEF AvailableExpressionsHold
  <2>1. prog \in FunctionBodies /\ (pass = "expressions" => Solves(prog, blockOut))
    BY RunningSolves
  <2>2. prog \in Seq(Instructions) /\ prog # <<>> /\ cfg = Cfg(prog)
    BY <2>1 DEF FunctionBodies, PassOK, TypeOK
  <2>3. b \in DOMAIN Starts(prog) /\ src.pc \in Nat /\ src.pc <= BlockEnd(prog, b)
    BY <2>2, BlockCode, BlockBounds
  <2>4. pass = "expressions"
    <3> SUFFICES ASSUME pass = "members" PROVE FALSE
      BY DEF PassOK, TypeOK
    <3>1. \A p \in DOMAIN cfg : blockOut[p] = {}
      BY DEF PassOK, MembersIdle
    <3>2. PICK p \in cfg[b].preds : f \in blockOut[p] /\ Entry \notin cfg[b].preds
      BY DEF MeetExprs
    <3>3. p \in DOMAIN cfg
      BY <2>1, <2>2, <3>2, PredecessorsAreBlocks
    <3> QED
      BY <3>1, <3>2, <3>3
  <2>5. f \in AnalysisOf(prog, blockOut)[b][0]
    BY <2>1, <2>2, <2>4, AnalysisIs DEF Solves
  <2>6. src.pc - Starts(prog)[b] = 0 /\ Starts(prog)[b] <= src.pc
    BY <2>3
  <2>7. f \in FactsAt(prog, AnalysisOf(prog, blockOut), src.pc)
    BY <2>2, <2>3, <2>5, <2>6 DEF FactsAt
  <2>8. f \in AvailableAt(prog, blockOut, src.pc)
    BY <2>7 DEF AvailableAt
  <2>9. ExprHolds(f, src)
    BY <2>4, <2>8 DEF LockOK, Good, BeliefsHold
  <2> QED
    BY <2>9 DEF ExprHolds
<1> QED
  BY <1>1, TypeCorrect, InLockstep, PTL

(* Eliminating common subexpressions preserves what a function shows: at   *)
(* every call and return the optimized function shows its environment what *)
(* the original one shows, and meets no undefined behaviour on the way.    *)
THEOREM EliminationIsEquivalent == Spec => []ObservablyEquivalent
<1>1. PassOK /\ LockOK => ObservablyEquivalent
  <2> SUFFICES ASSUME PassOK, LockOK PROVE ObservablyEquivalent
    OBVIOUS
  <2>1. ASSUME phase = "target" PROVE ~Undefined(out, opt)
    <3>1. Good(src) /\ Good(opt) /\ Leads(prog, opt, src) /\ AtEvent(prog, src)
      BY <2>1 DEF LockOK
    <3>2. CASE opt = src
      <4>1. AtEvent(out, opt)
        BY <2>1, <3>1, <3>2, LockEvent
      <4> QED
        BY <4>1 DEF Undefined
    <3>3. CASE opt # src
      <4>1. ~AtEvent(prog, opt) /\ ~Undefined(prog, opt)
        BY <3>1, <3>3, LeadsAdvance
      <4> QED
        BY <2>1, <3>1, <4>1, LockStep
    <3> QED
      BY <3>2, <3>3
  <2>2. ASSUME phase = "event" PROVE Observed(prog, src, Reach) = Observed(out, opt, Reach)
    <3>1. Good(src) /\ opt = src /\ AtEvent(prog, src)
      BY <2>2 DEF LockOK
    <3>2. \A reach : Observed(out, src, reach) = Observed(prog, src, reach)
      BY <2>2, <3>1, LockEvent
    <3> QED
      BY <3>1, <3>2
  <2> QED
    BY <2>1, <2>2 DEF ObservablyEquivalent
<1> QED
  BY <1>1, TypeCorrect, InLockstep, PTL
=============================================================================
