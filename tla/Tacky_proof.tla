---------------------------- MODULE Tacky_proof ----------------------------
(* Facts about the control-flow graph that the proofs of the passes cite.  *)
EXTENDS Tacky, FiniteSetTheorems, WellFoundedInduction, TLAPS

(* The control-flow graph of a non-empty function is a non-empty sequence  *)
(* of blocks.                                                              *)
LEMMA CfgIsSequence ==
    ASSUME NEW P \in Seq(Instructions), P # <<>>
    PROVE  /\ Cardinality(Leaders(P)) \in Nat \ {0}
           /\ DOMAIN Cfg(P) = 1 .. Cardinality(Leaders(P))
           /\ Len(Cfg(P)) = Cardinality(Leaders(P))
<1> DEFINE L == Leaders(P)
<1>1. L \subseteq 1 .. Len(P)
  BY DEF Leaders
<1>2. IsFiniteSet(L) /\ Cardinality(L) \in Nat
  <2>1. Len(P) \in Int /\ 1 \in Int
    OBVIOUS
  <2>2. IsFiniteSet(1 .. Len(P))
    BY <2>1, FS_Interval
  <2>3. IsFiniteSet(L)
    BY <1>1, <2>2, FS_Subset
  <2> QED
    BY <2>3, FS_CardinalityType
<1>3. 1 \in L
  BY DEF Leaders
<1>4. Cardinality(L) # 0
  BY <1>2, <1>3, FS_EmptySet
<1>5. DOMAIN Cfg(P) = 1 .. Cardinality(L)
  BY DEF Cfg, Partition, Starts, Ascending
<1>6. Cfg(P) = [b \in 1 .. Cardinality(L) |-> Cfg(P)[b]]
  BY <1>5 DEF Cfg
<1>7. Len(Cfg(P)) = Cardinality(L)
  BY <1>2, <1>5
<1> QED
  BY <1>2, <1>4, <1>5, <1>7

(* The blocks are numbered from 1.                                         *)
LEMMA PartitionIsSequence ==
    ASSUME NEW P \in Seq(Instructions), P # <<>>
    PROVE  /\ Len(Partition(P)) \in Nat
           /\ DOMAIN Partition(P) = 1 .. Len(Partition(P))
           /\ DOMAIN Cfg(P) = DOMAIN Partition(P)
<1>1. /\ Cardinality(Leaders(P)) \in Nat
      /\ DOMAIN Partition(P) = 1 .. Cardinality(Leaders(P))
      /\ DOMAIN Cfg(P) = DOMAIN Partition(P)
  BY CfgIsSequence DEF Cfg, Partition, Starts, Ascending
<1> QED
  BY <1>1

(* What Cfg::build pushes on the predecessors of a block and what it pushes *)
(* on the successors of a block, in each arm by itself, are one set of      *)
(* edges.  Whether a block falls through to another or off the end, and     *)
(* whether a jump leads to the next block, makes no difference.             *)
THEOREM PredecessorsInvertSuccessors ==
    ASSUME NEW P \in Seq(Instructions), P # <<>>, NEW b \in DOMAIN Cfg(P), NEW p \in DOMAIN Cfg(P)
    PROVE  p \in Cfg(P)[b].preds <=> b \in Cfg(P)[p].succs
<1> DEFINE code == Partition(P)
           last == code[p][Len(code[p])]
           next == IF p = Len(code) THEN Exit ELSE p + 1
<1>1. Len(code) \in Nat /\ DOMAIN code = 1 .. Len(code) /\ b \in DOMAIN code /\ p \in DOMAIN code
  BY PartitionIsSequence
<1>2. Cfg(P)[b].preds = Predecessors(code, b) /\ Cfg(P)[p].succs = Successors(code, p)
  BY <1>1 DEF Cfg
<1>3. b = p + 1 <=> b = next
  BY <1>1 DEF Exit
<1>4. p # Entry /\ b # Exit
  BY <1>1 DEF Entry, Exit
<1>5. p \in Predecessors(code, b) <=>
        \/ last.k \in {"jump", "jz"} /\ b \in TargetBlocks(code, last.at)
        \/ last.k = "jind" /\ b \in LabelBlocks(code)
        \/ ~ExitsCfg(last) /\ last.k \notin {"jump", "jind"} /\ b = p + 1
  BY <1>1, <1>4 DEF Predecessors
<1>6. CASE ExitsCfg(last)
  <2>1. Successors(code, p) = {Exit}
    BY <1>6 DEF Successors, ExitsCfg
  <2>2. last.k \notin {"jump", "jz", "jind"}
    BY <1>6 DEF ExitsCfg
  <2> QED
    BY <1>2, <1>4, <1>5, <1>6, <2>1, <2>2
<1>7. CASE last.k = "jump"
  <2>1. ~ExitsCfg(last)
    BY <1>7 DEF ExitsCfg
  <2>2. Successors(code, p) = TargetBlocks(code, last.at)
    BY <1>7, <2>1 DEF Successors
  <2> QED
    BY <1>2, <1>5, <1>7, <2>2
<1>8. CASE last.k = "jind"
  <2>1. ~ExitsCfg(last)
    BY <1>8 DEF ExitsCfg
  <2>2. Successors(code, p) = LabelBlocks(code)
    BY <1>8, <2>1 DEF Successors
  <2> QED
    BY <1>2, <1>5, <1>8, <2>2
<1>9. CASE last.k = "jz"
  <2>1. ~ExitsCfg(last)
    BY <1>9 DEF ExitsCfg
  <2>2. Successors(code, p) = TargetBlocks(code, last.at) \cup {next}
    BY <1>9, <2>1 DEF Successors
  <2> QED
    BY <1>2, <1>3, <1>5, <1>9, <2>1, <2>2
<1>10. CASE ~ExitsCfg(last) /\ last.k \notin {"jump", "jind", "jz"}
  <2>1. Successors(code, p) = {next}
    BY <1>10 DEF Successors
  <2> QED
    BY <1>2, <1>3, <1>5, <1>10, <2>1
<1> QED
  BY <1>6, <1>7, <1>8, <1>9, <1>10

(* The predecessors of a block are blocks or the entry node.               *)
LEMMA PredecessorsAreBlocks ==
    ASSUME NEW P, NEW b \in DOMAIN Cfg(P)
    PROVE  Cfg(P)[b].preds \subseteq DOMAIN Cfg(P) \cup {Entry}
BY DEF Cfg, Predecessors

(* The successors of a block are blocks or the exit node.                  *)
LEMMA SuccessorsAreBlocks ==
    ASSUME NEW P \in Seq(Instructions), P # <<>>, NEW b \in DOMAIN Cfg(P)
    PROVE  Cfg(P)[b].succs \subseteq DOMAIN Cfg(P) \cup {Exit}
<1> DEFINE C == Partition(P)
<1>1. /\ Cardinality(Leaders(P)) \in Nat
      /\ DOMAIN C = 1 .. Cardinality(Leaders(P))
      /\ DOMAIN Cfg(P) = DOMAIN C
  BY CfgIsSequence DEF Cfg, Partition, Starts, Ascending
<1>2. Len(C) = Cardinality(Leaders(P))
  BY <1>1
<1>3. LabelBlocks(C) \subseteq DOMAIN C
  BY DEF LabelBlocks
<1>4. \A l : TargetBlocks(C, l) \subseteq DOMAIN C
  BY <1>3 DEF TargetBlocks
<1>5. (IF b = Len(C) THEN Exit ELSE b + 1) \in DOMAIN C \cup {Exit}
  BY <1>1, <1>2
<1>6. Cfg(P)[b].succs = Successors(C, b)
  BY DEF Cfg
<1> QED
  BY <1>1, <1>3, <1>4, <1>5, <1>6 DEF Successors

(* Every order of a set of blocks lists exactly its elements.              *)
LEMMA OrdersListTheSet ==
    ASSUME NEW S, IsFiniteSet(S), NEW w \in Orders(S)
    PROVE  w \in Seq(S) /\ ToSet(w) = S
<1>1. Cardinality(S) \in Nat
  BY FS_CardinalityType
<1> QED
  BY <1>1 DEF Orders, ToSet

(* A concatenation lists what its two parts list.                          *)
LEMMA RangeOfConcatenation ==
    ASSUME NEW S, NEW s \in Seq(S), NEW t \in Seq(S)
    PROVE  ToSet(s \o t) = ToSet(s) \cup ToSet(t)
<1>1. DOMAIN s = 1 .. Len(s) /\ DOMAIN t = 1 .. Len(t) /\ Len(s) \in Nat /\ Len(t) \in Nat
  OBVIOUS
<1>2. DOMAIN (s \o t) = 1 .. Len(s) + Len(t)
  OBVIOUS
<1>3. ASSUME NEW n \in DOMAIN (s \o t) PROVE (s \o t)[n] \in ToSet(s) \cup ToSet(t)
  <2>1. CASE n <= Len(s)
    BY <1>1, <1>2, <2>1 DEF ToSet
  <2>2. CASE n > Len(s)
    <3>1. n - Len(s) \in DOMAIN t /\ (s \o t)[n] = t[n - Len(s)]
      BY <1>1, <1>2, <2>2
    <3> QED
      BY <3>1 DEF ToSet
  <2> QED
    BY <1>1, <1>2, <2>1, <2>2
<1>4. ASSUME NEW n \in DOMAIN s PROVE s[n] \in ToSet(s \o t)
  <2>1. n \in DOMAIN (s \o t) /\ (s \o t)[n] = s[n]
    BY <1>1, <1>2
  <2> QED
    BY <2>1 DEF ToSet
<1>5. ASSUME NEW n \in DOMAIN t PROVE t[n] \in ToSet(s \o t)
  <2>1. Len(s) + n \in DOMAIN (s \o t) /\ (s \o t)[Len(s) + n] = t[n]
    BY <1>1, <1>2
  <2> QED
    BY <2>1 DEF ToSet
<1>6. ToSet(s \o t) \subseteq ToSet(s) \cup ToSet(t)
  BY <1>3 DEF ToSet
<1>7. ToSet(s) \subseteq ToSet(s \o t)
  BY <1>4 DEF ToSet
<1>8. ToSet(t) \subseteq ToSet(s \o t)
  BY <1>5 DEF ToSet
<1> QED
  BY <1>6, <1>7, <1>8

(* Taking the head off a list loses at most the head.                      *)
LEMMA RangeOfTail ==
    ASSUME NEW S, NEW w \in Seq(S), w # <<>>
    PROVE  ToSet(w) \subseteq ToSet(Tail(w)) \cup {Head(w)}
<1> SUFFICES ASSUME NEW n \in DOMAIN w PROVE w[n] \in ToSet(Tail(w)) \cup {Head(w)}
  BY DEF ToSet
<1>1. CASE n = 1
  BY <1>1
<1>2. CASE n # 1
  <2>1. n - 1 \in DOMAIN Tail(w) /\ Tail(w)[n - 1] = w[n]
    BY <1>2
  <2> QED
    BY <2>1 DEF ToSet
<1> QED
  BY <1>1, <1>2
----------------------------------------------------------------------------
(* Recursion along a list.                                                 *)
(* A non-empty set of natural numbers has a least element.                 *)
LEMMA LeastNumber ==
    ASSUME NEW T \in SUBSET Nat, T # {}
    PROVE  \E m \in T : \A k \in T : m <= k
<1> DEFINE Below == OpToRel(<, Nat)
<1>1. IsWellFoundedOn(Below, Nat)
  BY NatLessThanWellFounded, Zenon
<1>2. PICK m \in T : \A k \in T : <<k, m>> \notin Below
  <2>1. T \subseteq Nat
    OBVIOUS
  <2> HIDE DEF Below
  <2> QED
    BY <1>1, <2>1, WFMin
<1>3. \A k \in T : ~(k < m)
  BY <1>2, Zenon DEF OpToRel
<1> QED
  BY <1>3

(* Induction up to M, stated for a set: the provers cannot instantiate the *)
(* induction theorems of the library, whose parameter is an operator.      *)
LEMMA InductionUpTo ==
    ASSUME NEW M \in Nat, NEW S, 0 \in S,
           \A n \in 0 .. M - 1 : n \in S => n + 1 \in S
    PROVE  0 .. M \subseteq S
<1> DEFINE T == (0 .. M) \ S
<1> SUFFICES ASSUME T # {} PROVE FALSE
  OBVIOUS
<1>1. PICK m \in T : \A k \in T : m <= k
  <2>1. T \in SUBSET Nat
    OBVIOUS
  <2> HIDE DEF T
  <2> QED
    BY <2>1, LeastNumber
<1>2. m - 1 \in 0 .. M - 1 /\ m - 1 \in S
  BY <1>1
<1> QED
  BY <1>1, <1>2

(* g lists the results of the first k applications of step to R.           *)
Steps(g, R, step, k) ==
    /\ g = [n \in 0 .. k |-> g[n]]
    /\ g[0] = R
    /\ \A n \in 1 .. k : g[n] = step[n][g[n - 1]]

(* One more step.                                                          *)
LEMMA StepsExtend ==
    ASSUME NEW k \in Nat, NEW R, NEW step, NEW g, Steps(g, R, step, k)
    PROVE  \E h : Steps(h, R, step, k + 1)
<1> DEFINE c == step[k + 1][g[k]]
           h == [n \in 0 .. k + 1 |-> IF n = k + 1 THEN c ELSE g[n]]
<1>1. h = [n \in 0 .. k + 1 |-> h[n]]
  OBVIOUS
<1>2. \A n \in 0 .. k : h[n] = g[n]
  OBVIOUS
<1>3. h[k + 1] = c
  OBVIOUS
<1> HIDE DEF h
<1>4. h[0] = R
  BY <1>2 DEF Steps
<1>5. \A n \in 1 .. k + 1 : h[n] = step[n][h[n - 1]]
  <2> TAKE n \in 1 .. k + 1
  <2>1. CASE n = k + 1
    <3>1. n - 1 = k /\ h[n - 1] = g[k]
      BY <1>2, <2>1
    <3> QED
      BY <1>3, <2>1, <3>1
  <2>2. CASE n \in 1 .. k
    <3>1. h[n] = g[n] /\ h[n - 1] = g[n - 1]
      BY <1>2, <2>2
    <3>2. g[n] = step[n][g[n - 1]]
      BY <2>2 DEF Steps
    <3> QED
      BY <3>1, <3>2
  <2> QED
    BY <2>1, <2>2
<1>6. Steps(h, R, step, k + 1)
  BY <1>1, <1>4, <1>5 DEF Steps
<1> QED
  BY <1>6

(* Any number of steps can be taken.                                       *)
LEMMA StepsExist ==
    ASSUME NEW M \in Nat, NEW R, NEW step
    PROVE  \E g : Steps(g, R, step, M)
<1> DEFINE S == {k \in 0 .. M : \E g : Steps(g, R, step, k)}
<1>1. 0 \in S
  <2>1. Steps([n \in 0 .. 0 |-> R], R, step, 0)
    BY DEF Steps
  <2> QED
    BY <2>1
<1>2. ASSUME NEW k \in 0 .. M - 1, k \in S PROVE k + 1 \in S
  BY <1>2, StepsExtend
<1> HIDE DEF S
<1>3. 0 .. M \subseteq S
  BY <1>1, <1>2, InductionUpTo
<1>4. M \in S
  BY <1>3
<1> QED
  BY <1>4 DEF S

(* What a function defined by recursion on the position in a list is.      *)
LEMMA StepsAreDefined ==
    ASSUME NEW M \in Nat, NEW R, NEW step, NEW after,
           after = CHOOSE g : g = [n \in 0 .. M |-> IF n = 0 THEN R ELSE step[n][g[n - 1]]]
    PROVE  Steps(after, R, step, M)
<1>1. PICK g : Steps(g, R, step, M)
  BY StepsExist
<1>2. g = [n \in 0 .. M |-> IF n = 0 THEN R ELSE step[n][g[n - 1]]]
  <2>1. g = [n \in 0 .. M |-> g[n]]
    BY <1>1 DEF Steps
  <2>2. \A n \in 0 .. M : g[n] = IF n = 0 THEN R ELSE step[n][g[n - 1]]
    <3> TAKE n \in 0 .. M
    <3>1. CASE n = 0
      BY <1>1, <3>1 DEF Steps
    <3>2. CASE n \in 1 .. M
      BY <1>1, <3>2 DEF Steps
    <3> QED
      BY <3>1, <3>2
  <2> QED
    BY <2>1, <2>2
<1>3. after = [n \in 0 .. M |-> IF n = 0 THEN R ELSE step[n][after[n - 1]]]
  BY <1>2
<1> QED
  BY <1>3 DEF Steps

----------------------------------------------------------------------------
(* Where the blocks of a function start.                                   *)
(* The elements of L up to n, and how many they are.                       *)
UpTo(L, n) == L \cap (1 .. n)
Rank(L, n) == Cardinality(UpTo(L, n))

(* The rank of a number in a finite set counts the elements up to it.      *)
LEMMA RankType ==
    ASSUME NEW L, IsFiniteSet(L), NEW n
    PROVE  /\ IsFiniteSet(UpTo(L, n)) /\ Rank(L, n) \in Nat
           /\ Cardinality(L) \in Nat /\ Rank(L, n) <= Cardinality(L)
<1>1. UpTo(L, n) \in SUBSET L
  BY DEF UpTo
<1>2. IsFiniteSet(UpTo(L, n)) /\ Cardinality(UpTo(L, n)) <= Cardinality(L)
  BY <1>1, FS_Subset
<1> QED
  BY <1>2, FS_CardinalityType DEF Rank

(* Ranks do not decrease, and grow at every element.                       *)
LEMMA RankGrows ==
    ASSUME NEW L, IsFiniteSet(L), NEW n \in Nat, NEW k \in Nat, n < k
    PROVE  /\ Rank(L, n) <= Rank(L, k)
           /\ k \in L => Rank(L, n) < Rank(L, k)
<1>1. UpTo(L, n) \in SUBSET UpTo(L, k)
  BY DEF UpTo
<1>2. IsFiniteSet(UpTo(L, k)) /\ Rank(L, n) \in Nat /\ Rank(L, k) \in Nat
  BY RankType
<1>3. Rank(L, n) <= Rank(L, k)
  BY <1>1, <1>2, FS_Subset DEF Rank
<1>4. Rank(L, n) = Rank(L, k) => UpTo(L, n) = UpTo(L, k)
  BY <1>1, <1>2, FS_Subset DEF Rank
<1>5. k \in L => k \in UpTo(L, k) /\ k \notin UpTo(L, n)
  BY DEF UpTo
<1> QED
  BY <1>2, <1>3, <1>4, <1>5

(* The rank grows by one at an element of the set, and there only.         *)
LEMMA RankStep ==
    ASSUME NEW L, IsFiniteSet(L), NEW n \in Nat
    PROVE  Rank(L, n + 1) = IF n + 1 \in L THEN Rank(L, n) + 1 ELSE Rank(L, n)
<1>1. IsFiniteSet(UpTo(L, n))
  BY RankType
<1>2. n + 1 \notin UpTo(L, n)
  BY DEF UpTo
<1>3. CASE n + 1 \in L
  <2>1. UpTo(L, n + 1) = UpTo(L, n) \cup {n + 1}
    BY <1>3 DEF UpTo
  <2>2. Cardinality(UpTo(L, n) \cup {n + 1}) = Cardinality(UpTo(L, n)) + 1
    BY <1>1, <1>2, FS_AddElement
  <2> QED
    BY <1>3, <2>1, <2>2 DEF Rank
<1>4. CASE n + 1 \notin L
  <2>1. UpTo(L, n + 1) = UpTo(L, n)
    BY <1>4 DEF UpTo
  <2> QED
    BY <1>4, <2>1 DEF Rank
<1> QED
  BY <1>3, <1>4

(* The first and the last rank.                                            *)
LEMMA RankEnds ==
    ASSUME NEW M \in Nat, NEW L, L \subseteq 1 .. M
    PROVE  Rank(L, 0) = 0 /\ Rank(L, M) = Cardinality(L) /\ IsFiniteSet(L)
<1>1. UpTo(L, 0) = {}
  BY DEF UpTo
<1>2. UpTo(L, M) = L
  BY DEF UpTo
<1>3. IsFiniteSet(1 .. M)
  <2>1. 1 \in Int /\ M \in Int
    OBVIOUS
  <2> QED
    BY <2>1, FS_Interval
<1>4. IsFiniteSet(L)
  BY <1>3, FS_Subset
<1> QED
  BY <1>1, <1>2, <1>4, FS_EmptySet DEF Rank

(* Every rank is the rank of one element.                                  *)
LEMMA RankIsOnto ==
    ASSUME NEW M \in Nat, NEW L, L \subseteq 1 .. M, NEW b \in 1 .. Cardinality(L)
    PROVE  \E n \in L : Rank(L, n) = b
<1> DEFINE T == {n \in 0 .. M : b <= Rank(L, n)}
<1>2. Rank(L, 0) = 0 /\ Rank(L, M) = Cardinality(L) /\ IsFiniteSet(L)
  BY RankEnds
<1>1. Cardinality(L) \in Nat /\ \A n : Rank(L, n) \in Nat
  BY <1>2, RankType
<1>3. PICK n \in T : \A k \in T : n <= k
  <2>1. T \in SUBSET Nat /\ M \in T
    BY <1>1, <1>2
  <2> HIDE DEF T
  <2> QED
    BY <2>1, LeastNumber
<1>4. n # 0
  BY <1>2, <1>3
<1>5. n - 1 \in 0 .. M /\ n - 1 \notin T
  BY <1>3, <1>4
<1>6. Rank(L, n - 1) < b
  BY <1>1, <1>5
<1>7. Rank(L, n) = IF n \in L THEN Rank(L, n - 1) + 1 ELSE Rank(L, n - 1)
  <2>1. n - 1 \in Nat /\ (n - 1) + 1 = n
    BY <1>3, <1>5
  <2> DEFINE k == n - 1
  <2>2. k \in Nat /\ k + 1 = n
    BY <2>1
  <2> HIDE DEF k
  <2>3. Rank(L, k + 1) = IF k + 1 \in L THEN Rank(L, k) + 1 ELSE Rank(L, k)
    BY <1>2, <2>2, RankStep
  <2> QED
    BY <2>2, <2>3 DEF k
<1>8. Rank(L, n) \in Nat /\ Rank(L, n - 1) \in Nat /\ b <= Rank(L, n)
  BY <1>1, <1>3
<1> QED
  BY <1>6, <1>7, <1>8

(* Different elements have different ranks.                                *)
LEMMA RankIsOneToOne ==
    ASSUME NEW L, IsFiniteSet(L), L \subseteq Nat, NEW m \in L, NEW n \in L,
           Rank(L, m) = Rank(L, n)
    PROVE  m = n
<1>1. m \in Nat /\ n \in Nat /\ Rank(L, m) \in Int /\ Rank(L, n) \in Int
  BY RankType
<1> SUFFICES ASSUME m # n PROVE FALSE
  OBVIOUS
<1>2. CASE m < n
  BY <1>1, <1>2, RankGrows
<1>3. CASE n < m
  BY <1>1, <1>3, RankGrows
<1> QED
  BY <1>1, <1>2, <1>3

(* A set of positions in ascending order: each is found at its rank.       *)
LEMMA AscendingIs ==
    ASSUME NEW M \in Nat, NEW L, L \subseteq 1 .. M
    PROVE  LET w == Ascending(L) IN
           /\ DOMAIN w = 1 .. Cardinality(L) /\ Len(w) = Cardinality(L)
           /\ \A b \in DOMAIN w : w[b] \in L /\ Rank(L, w[b]) = b
           /\ \A n \in L : Rank(L, n) \in DOMAIN w /\ w[Rank(L, n)] = n
<1> DEFINE w == Ascending(L)
<1>0. L \subseteq Nat /\ \A n \in L : n >= 1
  OBVIOUS
<1>1. IsFiniteSet(L) /\ L \subseteq Nat /\ Rank(L, 0) = 0
  BY <1>0, RankEnds
<1>2. \A n \in L : {m \in L : m <= n} = UpTo(L, n)
  <2> TAKE n \in L
  <2>1. \A m \in L : m <= n <=> m \in 1 .. n
    BY <1>0
  <2> QED
    BY <2>1 DEF UpTo
<1>3. w = [b \in 1 .. Cardinality(L) |-> CHOOSE n \in L : Cardinality({m \in L : m <= n}) = b]
  BY DEF Ascending
<1>4. Cardinality(L) \in Nat
  BY <1>1, FS_CardinalityType
<1>5. DOMAIN w = 1 .. Cardinality(L) /\ Len(w) = Cardinality(L)
  BY <1>3, <1>4
<1>6. ASSUME NEW b \in 1 .. Cardinality(L)
      PROVE  w[b] \in L /\ Rank(L, w[b]) = b
  <2>1. \E n \in L : Rank(L, n) = b
    BY RankIsOnto
  <2>2. \E n \in L : Cardinality({m \in L : m <= n}) = b
    BY <1>2, <2>1 DEF Rank
  <2>3. w[b] \in L /\ Cardinality({m \in L : m <= w[b]}) = b
    BY <1>3, <2>2
  <2> QED
    BY <1>2, <2>3 DEF Rank
<1> HIDE DEF w
<1>7. ASSUME NEW n \in L PROVE Rank(L, n) \in 1 .. Cardinality(L) /\ w[Rank(L, n)] = n
  <2> DEFINE b == Rank(L, n)
  <2>1. b \in Nat /\ b <= Cardinality(L)
    BY <1>1, RankType
  <2>2. 0 \in Nat /\ n \in Nat /\ 0 < n
    OBVIOUS
  <2>3. Rank(L, 0) < b
    BY <1>1, <2>2, RankGrows
  <2>4. b \in 1 .. Cardinality(L)
    BY <1>1, <1>4, <2>1, <2>3
  <2>5. w[b] \in L /\ Rank(L, w[b]) = b
    BY <1>6, <2>4
  <2>6. w[b] = n
    BY <1>1, <2>5, RankIsOneToOne
  <2> QED
    BY <2>4, <2>6
<1> QED
  BY <1>5, <1>6, <1>7 DEF w

(* The leaders of a function are some of its positions, the first among    *)
(* them.                                                                   *)
LEMMA LeadersOf ==
    ASSUME NEW P \in Seq(Instructions), P # <<>>
    PROVE  /\ Leaders(P) \subseteq 1 .. Len(P) /\ Leaders(P) \subseteq Nat
           /\ IsFiniteSet(Leaders(P)) /\ 1 \in Leaders(P)
           /\ Len(P) \in Nat \ {0}
<1>1. Leaders(P) \subseteq 1 .. Len(P) /\ 1 \in Leaders(P) /\ Len(P) \in Nat \ {0}
  BY DEF Leaders
<1>2. IsFiniteSet(Leaders(P))
  BY <1>1, RankEnds
<1> QED
  BY <1>1, <1>2

(* Starts lists the leaders in ascending order.                            *)
LEMMA StartsEnumerate ==
    ASSUME NEW P \in Seq(Instructions), P # <<>>
    PROVE  /\ DOMAIN Starts(P) = 1 .. Cardinality(Leaders(P))
           /\ Len(Starts(P)) = Cardinality(Leaders(P))
           /\ \A b \in DOMAIN Starts(P) :
                 Starts(P)[b] \in Leaders(P) /\ Rank(Leaders(P), Starts(P)[b]) = b
<1>1. Leaders(P) \subseteq 1 .. Len(P) /\ Len(P) \in Nat
  BY LeadersOf
<1> QED
  BY <1>1, AscendingIs DEF Starts

(* A leader is the start of the block of its rank.                         *)
LEMMA StartOfLeader ==
    ASSUME NEW P \in Seq(Instructions), P # <<>>, NEW n \in Leaders(P)
    PROVE  /\ Rank(Leaders(P), n) \in DOMAIN Starts(P)
           /\ Starts(P)[Rank(Leaders(P), n)] = n
<1>1. Leaders(P) \subseteq 1 .. Len(P) /\ Len(P) \in Nat
  BY LeadersOf
<1> QED
  BY <1>1, AscendingIs DEF Starts

(* No leader lies between the starts of two consecutive blocks.            *)
LEMMA StartsAscend ==
    ASSUME NEW P \in Seq(Instructions), P # <<>>,
           NEW b \in DOMAIN Starts(P), b + 1 \in DOMAIN Starts(P)
    PROVE  /\ Starts(P)[b] < Starts(P)[b + 1]
           /\ \A n \in Leaders(P) : ~(Starts(P)[b] < n /\ n < Starts(P)[b + 1])
<1> DEFINE L == Leaders(P)
           s == Starts(P)[b]
           t == Starts(P)[b + 1]
<1>1. IsFiniteSet(L) /\ L \subseteq Nat
  BY LeadersOf
<1>2. s \in L /\ Rank(L, s) = b /\ t \in L /\ Rank(L, t) = b + 1 /\ b \in Nat
  BY StartsEnumerate
<1>3. s \in Nat /\ t \in Nat
  BY <1>1, <1>2
<1> HIDE DEF L, s, t
<1>4. s < t
  <2>1. CASE t < s
    BY <1>1, <1>2, <1>3, <2>1, RankGrows
  <2>2. CASE t = s
    BY <1>2, <2>2
  <2> QED
    BY <1>3, <2>1, <2>2
<1>5. ASSUME NEW n \in L, s < n, n < t PROVE FALSE
  <2>1. n \in Nat /\ Rank(L, n) \in Nat
    BY <1>1, RankType
  <2>2. Rank(L, s) < Rank(L, n)
    BY <1>1, <1>3, <1>5, <2>1, RankGrows
  <2>3. Rank(L, n) < Rank(L, t)
    BY <1>1, <1>2, <1>3, <1>5, <2>1, RankGrows
  <2> QED
    BY <1>2, <2>1, <2>2, <2>3
<1> QED
  BY <1>4, <1>5 DEF L, s, t

(* The first block starts the function; no leader lies after the last      *)
(* start.                                                                  *)
LEMMA FirstAndLastStart ==
    ASSUME NEW P \in Seq(Instructions), P # <<>>
    PROVE  LET c == Len(Starts(P)) IN
           /\ c \in Nat \ {0} /\ 1 \in DOMAIN Starts(P) /\ Starts(P)[1] = 1
           /\ \A n \in Leaders(P) : n <= Starts(P)[c]
<1> DEFINE L == Leaders(P)
           c == Cardinality(L)
<1>1. L \subseteq Nat /\ IsFiniteSet(L) /\ 1 \in L /\ L \subseteq 1 .. Len(P) /\ Len(P) \in Nat
  BY LeadersOf
<1>2. Len(Starts(P)) = c /\ DOMAIN Starts(P) = 1 .. c
  BY StartsEnumerate
<1>3. Rank(L, 1) = 1
  <2>1. 0 \in Nat
    OBVIOUS
  <2>2. Rank(L, 0 + 1) = IF 0 + 1 \in L THEN Rank(L, 0) + 1 ELSE Rank(L, 0)
    BY <1>1, <2>1, RankStep
  <2>3. Rank(L, 0) = 0
    BY <1>1, RankEnds
  <2>4. 0 + 1 = 1
    OBVIOUS
  <2> QED
    BY <1>1, <2>2, <2>3, <2>4
<1>4. Starts(P)[1] = 1 /\ 1 \in DOMAIN Starts(P)
  BY <1>1, <1>3, StartOfLeader
<1>5. c \in Nat
  BY <1>1, FS_CardinalityType
<1>6. c # 0
  BY <1>2, <1>4, <1>5
<1>7. ASSUME NEW n \in L PROVE n <= Starts(P)[c]
  <2> DEFINE t == Starts(P)[c]
  <2>1. t \in L /\ Rank(L, t) = c
    BY <1>2, <1>5, <1>6, StartsEnumerate
  <2>2. n \in Nat /\ t \in Nat
    BY <1>1, <2>1
  <2>3. Rank(L, n) \in Nat /\ Rank(L, n) <= c
    BY <1>1, RankType
  <2> HIDE DEF L, t
  <2> SUFFICES ASSUME t < n PROVE FALSE
    BY <2>2 DEF t
  <2>4. Rank(L, t) < Rank(L, n)
    BY <1>1, <2>2, RankGrows
  <2> QED
    BY <1>5, <2>1, <2>3, <2>4 DEF L
<1> QED
  BY <1>2, <1>4, <1>5, <1>6, <1>7

(* The last position of block b.                                           *)
BlockEnd(P, b) == IF b = Len(Starts(P)) THEN Len(P) ELSE Starts(P)[b + 1] - 1

(* A block ends before the next leader.                                    *)
LEMMA BlockBounds ==
    ASSUME NEW P \in Seq(Instructions), P # <<>>, NEW b \in DOMAIN Starts(P)
    PROVE  /\ Starts(P)[b] \in Nat \ {0} /\ BlockEnd(P, b) \in Nat
           /\ Starts(P)[b] <= BlockEnd(P, b) /\ BlockEnd(P, b) <= Len(P)
           /\ \A n \in Leaders(P) : ~(Starts(P)[b] < n /\ n <= BlockEnd(P, b))
<1>1. Leaders(P) \subseteq 1 .. Len(P) /\ Len(P) \in Nat
  BY LeadersOf
<1>2. DOMAIN Starts(P) = 1 .. Len(Starts(P)) /\ Len(Starts(P)) \in Nat
  BY StartsEnumerate, FirstAndLastStart
<1>3. Starts(P)[b] \in Leaders(P)
  BY StartsEnumerate
<1>4. Starts(P)[b] \in Nat \ {0} /\ Starts(P)[b] <= Len(P)
  BY <1>1, <1>3
<1>4a. \A n \in Leaders(P) : n \in Nat
  BY <1>1
<1>5. CASE b = Len(Starts(P))
  <2>1. \A n \in Leaders(P) : n <= Starts(P)[b]
    BY <1>5, FirstAndLastStart
  <2>2. \A n \in Leaders(P) : ~(Starts(P)[b] < n)
    BY <1>4, <1>4a, <2>1
  <2> QED
    BY <1>1, <1>4, <1>5, <2>2 DEF BlockEnd
<1>6. CASE b # Len(Starts(P))
  <2>1. b + 1 \in DOMAIN Starts(P)
    BY <1>2, <1>6
  <2>2. Starts(P)[b + 1] \in Leaders(P)
    BY <2>1, StartsEnumerate
  <2>3. Starts(P)[b + 1] \in Nat /\ Starts(P)[b + 1] <= Len(P)
    BY <1>1, <2>2
  <2>4. /\ Starts(P)[b] < Starts(P)[b + 1]
        /\ \A n \in Leaders(P) : ~(Starts(P)[b] < n /\ n < Starts(P)[b + 1])
    BY <2>1, StartsAscend
  <2>5. BlockEnd(P, b) = Starts(P)[b + 1] - 1
    BY <1>6 DEF BlockEnd
  <2>6. \A n \in Leaders(P) : n <= BlockEnd(P, b) => n < Starts(P)[b + 1]
    BY <1>4a, <2>3, <2>5
  <2> QED
    BY <1>1, <1>4, <2>3, <2>4, <2>5, <2>6
<1> QED
  BY <1>5, <1>6

(* The code of a block is that of the function from its start to its end.  *)
LEMMA BlockCode ==
    ASSUME NEW P \in Seq(Instructions), P # <<>>, NEW b \in DOMAIN Cfg(P)
    PROVE  LET code == Cfg(P)[b].code IN
           /\ b \in DOMAIN Starts(P)
           /\ code = Partition(P)[b]
           /\ code \in Seq(Instructions)
           /\ DOMAIN code = 1 .. Len(code)
           /\ Len(code) = BlockEnd(P, b) - Starts(P)[b] + 1
           /\ Len(code) \in Nat \ {0}
           /\ \A n \in 1 .. Len(code) : code[n] = P[Starts(P)[b] + n - 1]
<1> DEFINE s == Starts(P)[b]
           e == BlockEnd(P, b)
           code == Cfg(P)[b].code
<1>1. b \in DOMAIN Starts(P)
  BY DEF Cfg, Partition
<1>2. s \in Nat \ {0} /\ e \in Nat /\ s <= e /\ e <= Len(P)
  BY <1>1, BlockBounds
<1>3. code = Partition(P)[b]
  BY DEF Cfg
<1>4. Partition(P)[b] = SubSeq(P, s, e)
  BY <1>1 DEF Partition, BlockEnd
<1>5. code = SubSeq(P, s, e)
  BY <1>3, <1>4
<1> HIDE DEF s, e, code
<1>6. code \in Seq(Instructions) /\ Len(code) = e - s + 1
  BY <1>2, <1>5
<1>7. \A n \in 1 .. Len(code) : code[n] = P[s + n - 1]
  BY <1>2, <1>5
<1> QED
  BY <1>1, <1>2, <1>3, <1>6, <1>7 DEF s, e, code

(* Every position belongs to a block.                                      *)
LEMMA EveryPosition ==
    ASSUME NEW P \in Seq(Instructions), P # <<>>, NEW pc \in 1 .. Len(P)
    PROVE  \E b \in DOMAIN Cfg(P) : Starts(P)[b] <= pc /\ pc <= BlockEnd(P, b)
<1> DEFINE L == Leaders(P)
           b == Rank(L, pc)
           c == Len(Starts(P))
<1>1. L \subseteq 1 .. Len(P) /\ L \subseteq Nat /\ IsFiniteSet(L) /\ Len(P) \in Nat
  BY LeadersOf
<1>2. c \in Nat \ {0} /\ DOMAIN Starts(P) = 1 .. c /\ c = Cardinality(L)
  BY StartsEnumerate, FirstAndLastStart
<1>3. Starts(P)[1] = 1 /\ 1 \in DOMAIN Starts(P)
  BY FirstAndLastStart
<1>4. Rank(L, 1) = 1 /\ 1 \in L
  BY <1>3, StartsEnumerate
<1>5. b \in Nat /\ b <= c
  BY <1>1, <1>2, RankType
<1>6. 1 <= b
  <2>1. CASE pc = 1
    BY <1>4, <2>1
  <2>2. CASE pc # 1
    <3>1. 1 \in Nat /\ pc \in Nat /\ 1 < pc
      BY <2>2
    <3>2. Rank(L, 1) <= Rank(L, pc)
      BY <1>1, <3>1, RankGrows
    <3> QED
      BY <1>4, <3>2
  <2> QED
    BY <2>1, <2>2
<1>7. b \in DOMAIN Starts(P)
  BY <1>2, <1>5, <1>6
<1>8. Starts(P)[b] \in L /\ Rank(L, Starts(P)[b]) = b
  BY <1>7, StartsEnumerate
<1>9. Starts(P)[b] \in Nat /\ pc \in Nat
  BY <1>1, <1>8
<1>10. Starts(P)[b] <= pc
  <2> DEFINE t == Starts(P)[b]
  <2> HIDE DEF t
  <2>0. t \in Nat /\ t \in L /\ Rank(L, t) = b
    BY <1>8, <1>9 DEF t
  <2> SUFFICES ASSUME pc < t PROVE FALSE
    BY <1>9, <2>0 DEF t
  <2>1. Rank(L, pc) < Rank(L, t)
    BY <1>1, <1>9, <2>0, RankGrows
  <2> QED
    BY <1>5, <2>0, <2>1
<1>11. pc <= BlockEnd(P, b)
  <2>1. CASE b = c
    BY <2>1 DEF BlockEnd
  <2>2. CASE b # c
    <3> DEFINE t == Starts(P)[b + 1]
    <3>1. b + 1 \in DOMAIN Starts(P)
      BY <1>2, <1>5, <1>6, <2>2
    <3>2. t \in L /\ Rank(L, t) = b + 1
      BY <3>1, StartsEnumerate
    <3>3. t \in Nat /\ BlockEnd(P, b) = t - 1
      BY <1>1, <2>2, <3>2 DEF BlockEnd
    <3> HIDE DEF t
    <3> SUFFICES ASSUME t <= pc PROVE FALSE
      BY <1>9, <3>3
    <3>4. CASE t = pc
      BY <1>5, <3>2, <3>4
    <3>5. CASE t < pc
      <4>1. Rank(L, t) <= Rank(L, pc)
        BY <1>1, <1>9, <3>3, <3>5, RankGrows
      <4> QED
        BY <1>5, <3>2, <4>1
    <3> QED
      BY <1>9, <3>3, <3>4, <3>5
  <2> QED
    BY <2>1, <2>2
<1>12. b \in DOMAIN Cfg(P)
  BY <1>7 DEF Cfg, Partition
<1> QED
  BY <1>10, <1>11, <1>12

(* A label starts the block a jump to it names.                            *)
LEMMA LabelStartsBlock ==
    ASSUME NEW P \in Seq(Instructions), P # <<>>, NEW n \in DOMAIN P, P[n].k = "label"
    PROVE  \E b \in DOMAIN Cfg(P) :
              /\ Starts(P)[b] = n
              /\ b \in LabelBlocks(Partition(P))
              /\ b \in TargetBlocks(Partition(P), P[n].at)
<1> DEFINE b == Rank(Leaders(P), n)
<1>1. n \in Leaders(P)
  BY DEF Leaders
<1>2. b \in DOMAIN Starts(P) /\ Starts(P)[b] = n
  BY <1>1, StartOfLeader
<1>3. b \in DOMAIN Cfg(P) /\ b \in DOMAIN Partition(P)
  BY <1>2 DEF Cfg, Partition
<1> HIDE DEF b
<1>4. Partition(P)[b][1] = P[n]
  <2>1. Partition(P)[b][1] = P[Starts(P)[b] + 1 - 1]
    BY <1>3, BlockCode
  <2>2. n \in Nat /\ n + 1 - 1 = n
    OBVIOUS
  <2> QED
    BY <1>2, <2>1, <2>2
<1>5. b \in LabelBlocks(Partition(P))
  BY <1>3, <1>4 DEF LabelBlocks
<1>6. b \in TargetBlocks(Partition(P), P[n].at)
  BY <1>4, <1>5 DEF TargetBlocks
<1> QED
  BY <1>2, <1>3, <1>5, <1>6

----------------------------------------------------------------------------
(* Where control goes.                                                     *)
(* The recursion of Along has a solution, whatever the steps are.          *)
LEMMA AlongIsDefined ==
    ASSUME NEW step, NEW R, Len(step) \in Nat
    PROVE  LET after == Along(step, R) IN
           /\ DOMAIN after = 0 .. Len(step)
           /\ after[0] = R
           /\ \A n \in 1 .. Len(step) : after[n] = step[n][after[n - 1]]
<1> DEFINE M == Len(step)
           after == Along(step, R)
<1>1. after = CHOOSE g : g = [n \in 0 .. M |-> IF n = 0 THEN R ELSE step[n][g[n - 1]]]
  BY DEF Along
<1> HIDE DEF after
<1>2. Steps(after, R, step, M)
  BY <1>1, StepsAreDefined
<1> QED
  BY <1>2 DEF Steps, after

(* What every step preserves holds after all of them.                      *)
LEMMA AlongStaysIn ==
    ASSUME NEW step, NEW R, NEW S, Len(step) \in Nat, R \in S,
           \A n \in 1 .. Len(step) : \A x \in S : step[n][x] \in S
    PROVE  \A n \in 0 .. Len(step) : Along(step, R)[n] \in S
<1> DEFINE M == Len(step)
           after == Along(step, R)
           Good == {n \in 0 .. M : after[n] \in S}
<1>1. /\ after[0] = R
      /\ \A n \in 1 .. M : after[n] = step[n][after[n - 1]]
  BY AlongIsDefined
<1> HIDE DEF after
<1>2. 0 \in Good
  BY <1>1
<1>3. ASSUME NEW n \in 0 .. M - 1, n \in Good PROVE n + 1 \in Good
  <2>1. n + 1 \in 1 .. M /\ (n + 1) - 1 = n
    OBVIOUS
  <2>2. after[n + 1] = step[n + 1][after[n]]
    BY <1>1, <2>1
  <2> QED
    BY <1>3, <2>1, <2>2
<1> HIDE DEF Good
<1>4. 0 .. M \subseteq Good
  BY <1>2, <1>3, InductionUpTo
<1> QED
  BY <1>4 DEF Good, after

(* Where control goes after an instruction that does not end the function. *)
LEMMA PositionIsInOneBlock ==
    ASSUME NEW P \in FunctionBodies, NEW b \in DOMAIN Cfg(P), NEW c \in DOMAIN Cfg(P), NEW pc \in Nat,
           Starts(P)[b] <= pc, pc <= BlockEnd(P, b), Starts(P)[c] <= pc, pc <= BlockEnd(P, c)
    PROVE  b = c
<1>1. P \in Seq(Instructions) /\ P # <<>>
  BY DEF FunctionBodies
<1> DEFINE s == Starts(P)[b]
           t == Starts(P)[c]
<1>2. b \in DOMAIN Starts(P) /\ c \in DOMAIN Starts(P)
  BY <1>1, BlockCode
<1>3. /\ s \in Nat /\ t \in Nat /\ BlockEnd(P, b) \in Nat /\ BlockEnd(P, c) \in Nat
      /\ s \in Leaders(P) /\ t \in Leaders(P)
      /\ Rank(Leaders(P), s) = b /\ Rank(Leaders(P), t) = c
  BY <1>1, <1>2, BlockBounds, StartsEnumerate
<1>4. \A n \in Leaders(P) : ~(s < n /\ n <= BlockEnd(P, b)) /\ ~(t < n /\ n <= BlockEnd(P, c))
  BY <1>1, <1>2, BlockBounds
<1> HIDE DEF s, t
<1>5. ~(s < t)
  BY <1>3, <1>4 DEF s, t
<1>6. ~(t < s)
  BY <1>3, <1>4 DEF s, t
<1>7. s = t
  BY <1>3, <1>5, <1>6
<1> QED
  BY <1>3, <1>7

(* Control leaves block b for the start of a block that has b as a         *)
(* predecessor, or for the end of the function.                            *)
Enters(P, b, pc) ==
    \/ pc = Len(P) + 1
    \/ \E c \in DOMAIN Cfg(P) : Starts(P)[c] = pc /\ b \in Cfg(P)[c].preds

(* Falling through stays in the block or enters the next one.              *)
LEMMA FallsThrough ==
    ASSUME NEW P \in FunctionBodies, NEW b \in DOMAIN Cfg(P), NEW pc \in 1 .. Len(P),
           Starts(P)[b] <= pc, pc <= BlockEnd(P, b),
           ~EndsBasicBlock(P[pc]) \/ P[pc].k = "jz"
    PROVE  pc + 1 <= BlockEnd(P, b) \/ (pc = BlockEnd(P, b) /\ Enters(P, b, pc + 1))
<1>1. P \in Seq(Instructions) /\ P # <<>> /\ Len(P) \in Nat
  BY DEF FunctionBodies
<1>2. b \in DOMAIN Starts(P) /\ BlockEnd(P, b) \in Nat /\ BlockEnd(P, b) <= Len(P)
  BY <1>1, BlockCode, BlockBounds
<1> SUFFICES ASSUME ~(pc + 1 <= BlockEnd(P, b)) PROVE pc = BlockEnd(P, b) /\ Enters(P, b, pc + 1)
  OBVIOUS
<1>3. pc = BlockEnd(P, b)
  BY <1>2
<1> DEFINE code == Partition(P)
           last == code[b][Len(code[b])]
<1>4. last = P[pc]
  <2>1. /\ code[b] = Cfg(P)[b].code
        /\ Len(code[b]) = BlockEnd(P, b) - Starts(P)[b] + 1
        /\ Len(code[b]) \in Nat \ {0}
        /\ \A n \in 1 .. Len(code[b]) : code[b][n] = P[Starts(P)[b] + n - 1]
    BY <1>1, BlockCode
  <2>2. Starts(P)[b] \in Nat
    BY <1>1, <1>2, BlockBounds
  <2> DEFINE m == Len(code[b])
  <2>3. m \in 1 .. m /\ Starts(P)[b] + m - 1 = pc
    BY <1>2, <1>3, <2>1, <2>2
  <2> QED
    BY <2>1, <2>3
<1>5. Len(code) = Len(Starts(P)) /\ DOMAIN code = DOMAIN Starts(P) /\ DOMAIN Cfg(P) = DOMAIN code
      /\ DOMAIN code = 1 .. Len(code) /\ Len(code) \in Nat
  <2>1. DOMAIN Starts(P) = 1 .. Len(Starts(P)) /\ Len(Starts(P)) \in Nat
    BY <1>1, StartsEnumerate, FirstAndLastStart
  <2>2. DOMAIN code = DOMAIN Starts(P) /\ DOMAIN Cfg(P) = DOMAIN code
    BY DEF Partition, Cfg
  <2> QED
    BY <2>1, <2>2
<1>6. (IF b = Len(code) THEN Exit ELSE b + 1) \in Successors(code, b)
  <2> HIDE DEF code
  <2> QED
    BY <1>4 DEF Successors, EndsBasicBlock, ExitsCfg
<1>7. CASE b = Len(code)
  BY <1>3, <1>5, <1>7 DEF BlockEnd, Enters
<1>8. CASE b # Len(code)
  <2>1. b + 1 \in DOMAIN Cfg(P)
    BY <1>5, <1>8
  <2>2. b + 1 \in Successors(code, b)
    BY <1>6, <1>8
  <2>3. b \in Cfg(P)[b + 1].preds
    <3>1. b + 1 \in Cfg(P)[b].succs
      BY <1>5, <2>2 DEF Cfg
    <3> QED
      BY <1>1, <2>1, <3>1, PredecessorsInvertSuccessors
  <2>4. pc = Starts(P)[b + 1] - 1
    BY <1>3, <1>5, <1>8 DEF BlockEnd
  <2>5. Starts(P)[b + 1] \in Nat
    BY <1>1, <1>5, <2>1, BlockBounds
  <2> QED
    BY <1>3, <2>1, <2>3, <2>4, <2>5 DEF Enters
<1> QED
  BY <1>7, <1>8

(* A jump taken goes to the start of a block the jump's own is before.     *)
LEMMA JumpEnters ==
    ASSUME NEW P \in FunctionBodies, NEW b \in DOMAIN Cfg(P), NEW pc \in 1 .. Len(P),
           Starts(P)[b] <= pc, pc <= BlockEnd(P, b),
           NEW n \in DOMAIN P, P[n].k = "label",
           \/ P[pc].k \in {"jump", "jz"} /\ P[n].at = P[pc].at
           \/ P[pc].k = "jind"
    PROVE  pc = BlockEnd(P, b) /\ Enters(P, b, n)
<1>1. P \in Seq(Instructions) /\ P # <<>> /\ Len(P) \in Nat
  BY DEF FunctionBodies
<1>2. b \in DOMAIN Starts(P) /\ BlockEnd(P, b) \in Nat /\ BlockEnd(P, b) <= Len(P) /\ Starts(P)[b] \in Nat
  BY <1>1, BlockCode, BlockBounds
<1>3. pc = BlockEnd(P, b)
  <2> SUFFICES ASSUME pc < BlockEnd(P, b) PROVE FALSE
    BY <1>2
  <2>1. pc + 1 \in Leaders(P)
    <3>1. pc + 1 \in DOMAIN P /\ (pc + 1) - 1 = pc
      BY <1>1, <1>2
    <3>2. EndsBasicBlock(P[pc])
      BY DEF EndsBasicBlock
    <3> QED
      BY <3>1, <3>2 DEF Leaders
  <2>2. ~(Starts(P)[b] < pc + 1 /\ pc + 1 <= BlockEnd(P, b))
    BY <1>1, <1>2, <2>1, BlockBounds
  <2> QED
    BY <1>2, <2>2
<1> DEFINE code == Partition(P)
           last == code[b][Len(code[b])]
<1>4. last = P[pc]
  <2>1. /\ code[b] = Cfg(P)[b].code
        /\ Len(code[b]) = BlockEnd(P, b) - Starts(P)[b] + 1
        /\ Len(code[b]) \in Nat \ {0}
        /\ \A k \in 1 .. Len(code[b]) : code[b][k] = P[Starts(P)[b] + k - 1]
    BY <1>1, BlockCode
  <2> DEFINE m == Len(code[b])
  <2>2. m \in 1 .. m /\ Starts(P)[b] + m - 1 = pc
    BY <1>2, <1>3, <2>1
  <2> QED
    BY <2>1, <2>2
<1>5. PICK c \in DOMAIN Cfg(P) :
         Starts(P)[c] = n /\ c \in LabelBlocks(code) /\ c \in TargetBlocks(code, P[n].at)
  BY <1>1, LabelStartsBlock
<1>6. c \in Successors(code, b)
  <2> HIDE DEF code
  <2> QED
    BY <1>4, <1>5 DEF Successors, ExitsCfg
<1>7. c \in Cfg(P)[b].succs
  BY <1>6 DEF Cfg
<1>8. b \in Cfg(P)[c].preds
  BY <1>1, <1>7, PredecessorsInvertSuccessors
<1> QED
  BY <1>3, <1>5, <1>8 DEF Enters

----------------------------------------------------------------------------
(* What the memory of a running function holds.                            *)
(* The types of the fields of an instruction.                              *)
LEMMA InstructionFields ==
    ASSUME NEW i \in Instructions
    PROVE  /\ i.src \in Seq(Operands) /\ DOMAIN i.src = 1 .. Len(i.src) /\ Len(i.src) \in Nat
           /\ i.dst \in Vars \cup {""} /\ i.k \in Kinds /\ HasFields(i)
           /\ \A n \in DOMAIN i.src : i.src[n] \in Operands
<1>1. i \in [k : Kinds, src : Seq(Operands), dst : Vars \cup {""}, at : STRING] /\ HasFields(i)
  BY Zenon DEF Instructions
<1> DEFINE w == i.src
           O == Operands
<1> HIDE DEF O
<1>2. w \in Seq(O)
  BY <1>1 DEF O
<1>2a. i.dst \in Vars \cup {""} /\ i.k \in Kinds
  BY <1>1
<1> HIDE DEF w
<1>3. DOMAIN w = 1 .. Len(w) /\ Len(w) \in Nat
  BY <1>2
<1>4. \A n \in DOMAIN w : w[n] \in O
  BY <1>2
<1> QED
  BY <1>1, <1>2, <1>2a, <1>3, <1>4 DEF w, O

(* The operands that the kind of an instruction promises.                  *)
LEMMA FirstOperand ==
    ASSUME NEW i \in Instructions
    PROVE  /\ i.k \in {"copy", "typed", "addr", "load", "put", "get", "cps", "jz", "jind",
                       "store", "atomic", "icall"} => 1 \in DOMAIN i.src
           /\ i.k \in {"store", "atomic"} => 2 \in DOMAIN i.src
           /\ i.k \in {"addr", "get", "cps", "icall"} => IsVar(i.src[1])
<1> DEFINE w == i.src
           k == i.k
<1>1. DOMAIN w = 1 .. Len(w) /\ Len(w) \in Nat /\ HasFields(i)
  BY InstructionFields
<1>2. /\ k \in {"copy", "typed", "addr", "load", "put", "get", "cps", "jz", "jind"} => Len(w) = 1
      /\ k \in {"store", "atomic"} => Len(w) = 2
      /\ k = "icall" => Len(w) >= 1
  BY <1>1, Zenon DEF HasFields
<1>3. k \in {"addr", "get", "cps", "icall"} => IsVar(w[1])
  BY <1>1, Zenon DEF HasFields, IsVar
<1> HIDE DEF w, k
<1>4. DOMAIN w = 1 .. Len(w) /\ Len(w) \in Nat
  BY <1>1
<1>5. Len(w) >= 1 => 1 \in DOMAIN w
  BY <1>4
<1>6. Len(w) = 2 => 2 \in DOMAIN w
  BY <1>4
<1>7. Len(w) = 1 \/ Len(w) = 2 => Len(w) >= 1
  OBVIOUS
<1> QED
  BY <1>2, <1>3, <1>5, <1>6, <1>7, Zenon DEF w, k

(* An operand is a variable or a constant.                                 *)
LEMMA OperandForms ==
    ASSUME NEW o \in Operands
    PROVE  \/ IsVar(o) /\ o[2] \in Vars /\ o = V(o[2])
           \/ ~IsVar(o) /\ o[1] \in {"n", "w"}
BY DEF Operands, IsVar, V

(* The variables an instruction reads are variables of the function.       *)
LEMMA SourceVarsAreVars ==
    ASSUME NEW i \in Instructions
    PROVE  /\ SourceVars(i) \subseteq Vars
           /\ \A n \in DOMAIN i.src : IsVar(i.src[n]) => i.src[n][2] \in SourceVars(i)
<1>1. \A o \in ToSet(i.src) : o \in Operands
  BY InstructionFields DEF ToSet
<1>2. \A n \in DOMAIN i.src : i.src[n] \in ToSet(i.src)
  BY DEF ToSet
<1> QED
  BY <1>1, <1>2, OperandForms DEF SourceVars

(* So are those that pointers can reach.                                   *)
LEMMA ReachableAreVars ==
    ASSUME NEW P \in FunctionBodies
    PROVE  Reachable(P) \subseteq Vars
<1>1. \A n \in DOMAIN P : P[n] \in Instructions
  BY DEF FunctionBodies
<1>2. \A n \in DOMAIN P : SourceVars(P[n]) \subseteq Vars
  BY <1>1, SourceVarsAreVars
<1>3. AddressTaken(P) \subseteq Vars
  BY <1>2 DEF AddressTaken
<1> QED
  BY <1>3, StaticsAssumption DEF Reachable

(* An address is that of a variable that pointers can reach, and a label's  *)
(* address that of a label.                                                *)
ValueOK(P, v) ==
    /\ v[1] = "a" => v[2] \in Reachable(P)
    /\ v[1] = "l" => \E n \in DOMAIN P : P[n].k = "label" /\ P[n].at = v[2]

MemoryOK(P, m) ==
    /\ m = [x \in Vars |-> m[x]]
    /\ \A x \in Vars : ValueOK(P, m[x])

MachineOK(P, s) ==
    /\ s = [pc |-> s.pc, mem |-> s.mem, jb |-> s.jb]
    /\ s.pc \in 1 .. Len(P) + 1
    /\ MemoryOK(P, s.mem)
    /\ \/ s.jb = NoJump
       \/ \E q \in DOMAIN P : P[q].k = "setjmp" /\ s.jb = <<q + 1, P[q].dst>>

(* Writing such a value keeps the memory so.                               *)
LEMMA MemoryAfterWrite ==
    ASSUME NEW P, NEW m, MemoryOK(P, m), NEW x \in Vars, NEW v, ValueOK(P, v),
           NEW m2, m2 = [m EXCEPT ![x] = v]
    PROVE  MemoryOK(P, m2)
<1>1. m = [y \in Vars |-> m[y]]
  BY DEF MemoryOK
<1>2. m2 = [y \in Vars |-> IF y = x THEN v ELSE m[y]]
  BY <1>1
<1>3. \A y \in Vars : m2[y] = IF y = x THEN v ELSE m[y]
  BY <1>2
<1>4. m2 = [y \in Vars |-> m2[y]]
  BY <1>2
<1>5. \A y \in Vars : ValueOK(P, m2[y])
  BY <1>3 DEF MemoryOK
<1> QED
  BY <1>4, <1>5 DEF MemoryOK

(* The value of an operand is such a value.                                *)
LEMMA OperandValueOK ==
    ASSUME NEW P, NEW m, MemoryOK(P, m), NEW o \in Operands
    PROVE  ValueOK(P, Value(m, o))
<1>1. CASE IsVar(o) /\ o[2] \in Vars
  BY <1>1 DEF MemoryOK, Value
<1>2. CASE ~IsVar(o) /\ o[1] \in {"n", "w"}
  BY <1>2 DEF Value, ValueOK
<1> QED
  BY <1>1, <1>2, OperandForms

(* Anything that is not an address is such a value.                        *)
LEMMA NumberOK ==
    ASSUME NEW P, NEW v, v[1] \in {"n", "w", "f", "s"}
    PROVE  ValueOK(P, v)
BY DEF ValueOK

Operational ==
    {"copy", "op", "typed", "addr", "load", "atomic", "put", "get", "cps", "laddr", "frame",
     "setjmp", "vastart"}

(* An instruction computes such a value: it takes the address of variables *)
(* whose address is taken, and loads what the memory holds.                *)
LEMMA ComputedOK ==
    ASSUME NEW P \in FunctionBodies, NEW s, MachineOK(P, s), s.pc \in DOMAIN P,
           P[s.pc].k \in Operational, ~Undefined(P, s), ~AtEvent(P, s)
    PROVE  ValueOK(P, Computed(s, P[s.pc]))
<1> DEFINE i == P[s.pc]
           a == [n \in DOMAIN i.src |-> Value(s.mem, i.src[n])]
<1>1. i \in Instructions
  BY DEF FunctionBodies
<1>2. MemoryOK(P, s.mem)
  BY DEF MachineOK
<1> HIDE DEF i
<1>3. /\ i.src \in Seq(Operands) /\ DOMAIN i.src = 1 .. Len(i.src) /\ Len(i.src) \in Nat
      /\ HasFields(i) /\ \A n \in DOMAIN i.src : i.src[n] \in Operands
  BY <1>1, InstructionFields
<1>4. \A n \in DOMAIN i.src : a[n] = Value(s.mem, i.src[n]) /\ ValueOK(P, a[n])
  BY <1>2, <1>3, OperandValueOK
<1> SUFFICES ValueOK(P, Computed(s, i))
  BY DEF i
<1> HIDE DEF a
<1>5. CASE i.k \in {"copy", "cps"}
  <2>1. Computed(s, i) = a[1]
    BY <1>5 DEF Computed, a
  <2>2. 1 \in DOMAIN i.src
    BY <1>1, <1>5, FirstOperand
  <2> QED
    BY <1>4, <2>1, <2>2
<1>6. CASE i.k = "op"
  <2>1. Computed(s, i) = OpResult(i.at, a)
    BY <1>6 DEF Computed, a
  <2>2. OpResult(i.at, a)[1] = "n"
    BY DEF OpResult, N
  <2> QED
    BY <2>1, <2>2, NumberOK
<1>7. CASE i.k = "typed"
  <2>1. Computed(s, i) = TypedResult(OperandType(i.src[1]), a[1])
    BY <1>7 DEF Computed, a
  <2>2. Computed(s, i)[1] = "n"
    BY <2>1 DEF TypedResult, N
  <2> QED
    BY <2>2, NumberOK
<1>8. CASE i.k = "addr"
  <2>1. Computed(s, i) = <<"a", i.src[1][2]>>
    BY <1>8 DEF Computed, a
  <2>2. 1 \in DOMAIN i.src /\ IsVar(i.src[1])
    BY <1>1, <1>8, FirstOperand
  <2>3. i.src[1][2] \in SourceVars(i)
    BY <1>1, <2>2, SourceVarsAreVars
  <2>4. SourceVars(i) \subseteq Reachable(P)
    BY <1>8 DEF Reachable, AddressTaken, i
  <2> QED
    BY <2>1, <2>3, <2>4 DEF ValueOK
<1>9. CASE i.k \in {"load", "atomic"}
  <2>1. Computed(s, i) = s.mem[a[1][2]]
    BY <1>9 DEF Computed, a
  <2>2. 1 \in DOMAIN i.src
    BY <1>1, <1>9, FirstOperand
  <2>3. a[1][1] = "a"
    BY <1>9 DEF Undefined, i, a
  <2>4. a[1][2] \in Vars
    BY <1>4, <2>2, <2>3, ReachableAreVars DEF ValueOK
  <2> QED
    BY <1>2, <2>1, <2>4 DEF MemoryOK
<1>10. CASE i.k = "put"
  <2>1. Computed(s, i) = SetMember(s.mem[i.dst], i.at, a[1][2])
    BY <1>10 DEF Computed, a
  <2>2. Computed(s, i)[1] = "s"
    BY <2>1 DEF SetMember
  <2> QED
    BY <2>2, NumberOK
<1>11. CASE i.k = "get"
  <2>1. Computed(s, i) = N(Member(a[1], i.at))
    BY <1>11 DEF Computed, a
  <2>2. Computed(s, i)[1] = "n"
    BY <2>1 DEF N
  <2> QED
    BY <2>2, NumberOK
<1>12. CASE i.k = "laddr"
  <2>1. Computed(s, i) = <<"l", i.at>>
    BY <1>12 DEF Computed, a
  <2>2. \E m \in DOMAIN P : P[m].k = "label" /\ P[m].at = i.at
    BY <1>12 DEF FunctionBodies, i
  <2> QED
    BY <2>1, <2>2 DEF ValueOK
<1>13. CASE i.k \in {"frame", "vastart"}
  <2>1. Computed(s, i) = <<"f">>
    BY <1>13 DEF Computed, a
  <2>2. Computed(s, i)[1] = "f"
    BY <2>1
  <2> QED
    BY <2>2, NumberOK
<1>14. CASE i.k = "setjmp"
  <2>1. Computed(s, i) = N(0)
    BY <1>14 DEF Computed, a
  <2>2. Computed(s, i)[1] = "n"
    BY <2>1 DEF N
  <2> QED
    BY <2>2, NumberOK
<1> QED
  <2>1. i.k \in Operational
    BY DEF i
  <2> QED
    BY <1>5, <1>6, <1>7, <1>8, <1>9, <1>10, <1>11, <1>12, <1>13, <1>14, <2>1 DEF Operational

(* What an instruction writes through a pointer goes to a variable that     *)
(* pointers can reach.                                                     *)
LEMMA WrittenOK ==
    ASSUME NEW P \in FunctionBodies, NEW s, MachineOK(P, s), s.pc \in DOMAIN P,
           ~Undefined(P, s), ~AtEvent(P, s)
    PROVE  LET i == P[s.pc]
               a == [n \in DOMAIN i.src |-> Value(s.mem, i.src[n])]
           IN  /\ MemoryOK(P, Written(s, i))
               /\ i.k \in Operational <=> i.dst # ""
               /\ i.k = "store" => /\ a[2][2] \in Reachable(P)
                                   /\ Written(s, i) = [s.mem EXCEPT ![a[2][2]] = a[1]]
               /\ i.k = "atomic" =>
                    /\ a[1][2] \in Reachable(P)
                    /\ Written(s, i) = [[s.mem EXCEPT ![a[1][2]] = a[2]] EXCEPT ![i.dst] = Computed(s, i)]
               /\ i.k \in Operational \ {"atomic"} =>
                    Written(s, i) = [s.mem EXCEPT ![i.dst] = Computed(s, i)]
               /\ i.k \notin Operational \cup {"store"} => Written(s, i) = s.mem
<1> DEFINE i == P[s.pc]
           a == [n \in DOMAIN i.src |-> Value(s.mem, i.src[n])]
<1>1. i \in Instructions /\ MemoryOK(P, s.mem)
  BY DEF FunctionBodies, MachineOK
<1>2. i.k \notin {"call", "icall", "ret", "njump", "longjmp", "unreach"}
  BY DEF AtEvent
<1>3. /\ i.src \in Seq(Operands) /\ DOMAIN i.src = 1 .. Len(i.src) /\ Len(i.src) \in Nat
      /\ HasFields(i) /\ \A n \in DOMAIN i.src : i.src[n] \in Operands
      /\ i.dst \in Vars \cup {""} /\ i.k \in Kinds
  BY <1>1, InstructionFields
<1>4. \A n \in DOMAIN i.src : a[n] = Value(s.mem, i.src[n]) /\ ValueOK(P, a[n])
  BY <1>1, <1>3, OperandValueOK
<1>5. i.k \in Operational => ValueOK(P, Computed(s, i))
  BY ComputedOK
<1>6. i.k = "store" => a[2][1] = "a"
  BY DEF Undefined
<1>7. i.k = "atomic" => a[1][1] = "a"
  BY DEF Undefined
<1> HIDE DEF i, a
<1>8. i.k \in Operational <=> i.dst # ""
  BY <1>2, <1>3 DEF HasFields, Kinds, Operational
<1>9. CASE i.k = "store"
  <2>1. 1 \in DOMAIN i.src /\ 2 \in DOMAIN i.src
    BY <1>1, <1>9, FirstOperand
  <2>2. a[2][2] \in Reachable(P) /\ a[2][2] \in Vars
    BY <1>4, <1>6, <1>9, <2>1, ReachableAreVars DEF ValueOK
  <2>3. Written(s, i) = [s.mem EXCEPT ![a[2][2]] = a[1]]
    BY <1>8, <1>9 DEF Written, Operational, a
  <2>4. MemoryOK(P, Written(s, i))
    BY <1>1, <1>4, <2>1, <2>2, <2>3, MemoryAfterWrite
  <2> QED
    BY <1>8, <1>9, <2>2, <2>3, <2>4 DEF Operational, i, a
<1>10. CASE i.k = "atomic"
  <2>1. 1 \in DOMAIN i.src /\ 2 \in DOMAIN i.src
    BY <1>1, <1>10, FirstOperand
  <2>2. a[1][2] \in Reachable(P) /\ a[1][2] \in Vars
    BY <1>4, <1>7, <1>10, <2>1, ReachableAreVars DEF ValueOK
  <2> DEFINE m == [s.mem EXCEPT ![a[1][2]] = a[2]]
  <2>3. Written(s, i) = [m EXCEPT ![i.dst] = Computed(s, i)]
    BY <1>8, <1>10 DEF Written, Operational, a
  <2>4. MemoryOK(P, m)
    BY <1>1, <1>4, <2>1, <2>2, MemoryAfterWrite
  <2>5. i.dst \in Vars /\ ValueOK(P, Computed(s, i))
    BY <1>3, <1>5, <1>8, <1>10 DEF Operational
  <2> HIDE DEF m
  <2>6. MemoryOK(P, Written(s, i))
    BY <2>3, <2>4, <2>5, MemoryAfterWrite
  <2> QED
    BY <1>8, <1>10, <2>2, <2>3, <2>6 DEF Operational, i, a, m
<1>11. CASE i.k \in Operational \ {"atomic"}
  <2>1. Written(s, i) = [s.mem EXCEPT ![i.dst] = Computed(s, i)]
    BY <1>8, <1>11 DEF Written, Operational
  <2>2. i.dst \in Vars /\ ValueOK(P, Computed(s, i))
    BY <1>3, <1>5, <1>8, <1>11
  <2>3. MemoryOK(P, Written(s, i))
    BY <1>1, <2>1, <2>2, MemoryAfterWrite
  <2> QED
    BY <1>8, <1>11, <2>1, <2>3 DEF Operational, i
<1>12. CASE i.k \notin Operational \cup {"store"}
  <2>1. Written(s, i) = s.mem
    BY <1>8, <1>12 DEF Written, Operational
  <2> QED
    BY <1>1, <1>8, <1>12, <2>1 DEF Operational, i
<1> QED
  BY <1>9, <1>10, <1>11, <1>12

(* A jump that is taken goes to a label that the function has.             *)
LEMMA GotoIsLabel ==
    ASSUME NEW P, NEW l, \E n \in DOMAIN P : P[n].k = "label" /\ P[n].at = l
    PROVE  /\ Goto(P, l) \in DOMAIN P
           /\ P[Goto(P, l)].k = "label" /\ P[Goto(P, l)].at = l
BY Zenon DEF Goto, LabelsNamed

(* The next position is the one below or a label that the jump names.      *)
LEMMA NextPcCases ==
    ASSUME NEW P \in FunctionBodies, NEW s, MachineOK(P, s), s.pc \in DOMAIN P,
           ~Undefined(P, s), ~AtEvent(P, s)
    PROVE  \/ /\ NextPc(P, s) = s.pc + 1
              /\ ~EndsBasicBlock(P[s.pc]) \/ P[s.pc].k = "jz"
           \/ /\ NextPc(P, s) \in DOMAIN P
              /\ P[NextPc(P, s)].k = "label"
              /\ \/ P[s.pc].k \in {"jump", "jz"} /\ P[NextPc(P, s)].at = P[s.pc].at
                 \/ P[s.pc].k = "jind"
<1> DEFINE i == P[s.pc]
<1>1. i \in Instructions
  BY DEF FunctionBodies
<1>2. i.k \in {"jump", "jz"} => \E n \in DOMAIN P : P[n].k = "label" /\ P[n].at = i.at
  BY DEF FunctionBodies
<1>3. i.k \notin {"njump", "longjmp", "ret", "unreach"}
  BY DEF AtEvent
<1>4. i.k = "jind" =>
        \E n \in DOMAIN P : P[n].k = "label" /\ P[n].at = Value(s.mem, i.src[1])[2]
  <2> SUFFICES ASSUME i.k = "jind"
               PROVE  \E n \in DOMAIN P : P[n].k = "label" /\ P[n].at = Value(s.mem, i.src[1])[2]
    OBVIOUS
  <2>1. 1 \in DOMAIN i.src /\ i.src[1] \in Operands
    BY <1>1, FirstOperand, InstructionFields
  <2>2. Value(s.mem, i.src[1])[1] = "l"
    BY <2>1 DEF Undefined
  <2>3. ValueOK(P, Value(s.mem, i.src[1]))
    BY <2>1, OperandValueOK DEF MachineOK
  <2> QED
    BY <2>2, <2>3 DEF ValueOK
<1>5. CASE i.k = "jump"
  <2>1. NextPc(P, s) = Goto(P, i.at)
    BY <1>5 DEF NextPc
  <2> QED
    BY <1>2, <1>5, <2>1, GotoIsLabel
<1>6. CASE i.k = "jind"
  <2>1. NextPc(P, s) = Goto(P, Value(s.mem, i.src[1])[2])
    BY <1>6 DEF NextPc
  <2> QED
    BY <1>4, <1>6, <2>1, GotoIsLabel
<1>7. CASE i.k = "jz" /\ Value(s.mem, i.src[1])[2] = 0
  <2>1. NextPc(P, s) = Goto(P, i.at)
    BY <1>7 DEF NextPc
  <2> QED
    BY <1>2, <1>7, <2>1, GotoIsLabel
<1>8. CASE i.k = "jz" /\ Value(s.mem, i.src[1])[2] # 0
  <2>1. NextPc(P, s) = s.pc + 1
    BY <1>8 DEF NextPc
  <2> QED
    BY <1>8, <2>1
<1>9. CASE i.k \notin {"jump", "jind", "jz"}
  <2>1. NextPc(P, s) = s.pc + 1
    BY <1>9 DEF NextPc
  <2> QED
    BY <1>3, <1>9, <2>1 DEF EndsBasicBlock
<1> QED
  BY <1>5, <1>6, <1>7, <1>8, <1>9

(* A step of a function that meets no undefined behaviour leaves a machine  *)
(* whose addresses and positions are those of the function.                *)
LEMMA RunOK ==
    ASSUME NEW P \in FunctionBodies, NEW s, MachineOK(P, s), s.pc \in DOMAIN P,
           ~Undefined(P, s), ~AtEvent(P, s)
    PROVE  MachineOK(P, Run1(P, s))
<1> DEFINE t == Run1(P, s)
<1>1. /\ t = [pc |-> t.pc, mem |-> t.mem, jb |-> t.jb]
      /\ t.pc = NextPc(P, s) /\ t.mem = Written(s, P[s.pc])
      /\ t.jb = IF P[s.pc].k = "setjmp" THEN <<s.pc + 1, P[s.pc].dst>> ELSE s.jb
  BY DEF Run1
<1>2. DOMAIN P = 1 .. Len(P) /\ Len(P) \in Nat
  BY DEF FunctionBodies
<1>3. t.pc \in 1 .. Len(P) + 1
  BY <1>1, <1>2, NextPcCases
<1>4. MemoryOK(P, t.mem)
  <2>1. MemoryOK(P, Written(s, P[s.pc]))
    BY WrittenOK, Zenon
  <2> QED
    BY <1>1, <2>1
<1>5. t.jb = NoJump \/ \E q \in DOMAIN P : P[q].k = "setjmp" /\ t.jb = <<q + 1, P[q].dst>>
  BY <1>1 DEF MachineOK
<1>5a. t = [pc |-> t.pc, mem |-> t.mem, jb |-> t.jb]
  BY <1>1
<1> HIDE DEF t
<1>6. MachineOK(P, t)
  BY <1>3, <1>4, <1>5, <1>5a, Zenon DEF MachineOK
<1> QED
  BY <1>6 DEF t

(* Control stays in block b, or leaves it for a successor.                 *)
Continues(P, b, pc, next) ==
    \/ next = pc + 1 /\ next <= BlockEnd(P, b)
    \/ pc = BlockEnd(P, b) /\ Enters(P, b, next)

(* A step goes on in the block or enters a successor.                      *)
LEMMA RunContinues ==
    ASSUME NEW P \in FunctionBodies, NEW s, MachineOK(P, s), s.pc \in DOMAIN P,
           ~Undefined(P, s), ~AtEvent(P, s), NEW b \in DOMAIN Cfg(P),
           Starts(P)[b] <= s.pc, s.pc <= BlockEnd(P, b)
    PROVE  Continues(P, b, s.pc, NextPc(P, s))
<1> DEFINE pc == s.pc
           next == NextPc(P, s)
<1>1. pc \in 1 .. Len(P)
  BY DEF FunctionBodies
<1>2. CASE next = pc + 1 /\ (~EndsBasicBlock(P[pc]) \/ P[pc].k = "jz")
  <2>1. pc + 1 <= BlockEnd(P, b) \/ (pc = BlockEnd(P, b) /\ Enters(P, b, pc + 1))
    BY <1>1, <1>2, FallsThrough
  <2> QED
    BY <1>2, <2>1 DEF Continues
<1>3. CASE /\ next \in DOMAIN P /\ P[next].k = "label"
           /\ \/ P[pc].k \in {"jump", "jz"} /\ P[next].at = P[pc].at
              \/ P[pc].k = "jind"
  <2>1. pc = BlockEnd(P, b) /\ Enters(P, b, next)
    BY <1>1, <1>3, JumpEnters
  <2> QED
    BY <2>1 DEF Continues
<1> QED
  BY <1>2, <1>3, NextPcCases

(* reach[b][n] is a set of facts for the position after n instructions of   *)
(* block b; the facts at the start of a block hold at the end of every     *)
(* block before it.                                                        *)
Meets(P, reach) ==
    \A c \in DOMAIN Cfg(P) : \A b \in DOMAIN Cfg(P) \cap Cfg(P)[c].preds :
        reach[c][0] \subseteq reach[b][Len(Cfg(P)[b].code)]

(* The facts at a position, whichever block it is in.                      *)
FactsAt(P, reach, pc) ==
    UNION {reach[b][pc - Starts(P)[b]] : b \in
        {b \in DOMAIN Cfg(P) : Starts(P)[b] <= pc /\ pc <= BlockEnd(P, b)}}

(* The facts at the next position are among those after the instruction.   *)
LEMMA FactsCarryOver ==
    ASSUME NEW P \in FunctionBodies, NEW reach, Meets(P, reach), NEW b \in DOMAIN Cfg(P),
           NEW pc \in 1 .. Len(P), NEW next \in Nat,
           Starts(P)[b] <= pc, pc <= BlockEnd(P, b), Continues(P, b, pc, next)
    PROVE  FactsAt(P, reach, next) \subseteq reach[b][pc - Starts(P)[b] + 1]
<1>1. P \in Seq(Instructions) /\ P # <<>> /\ Len(P) \in Nat
  BY DEF FunctionBodies
<1>2. b \in DOMAIN Starts(P) /\ BlockEnd(P, b) \in Nat /\ Starts(P)[b] \in Nat
      /\ Len(Cfg(P)[b].code) = BlockEnd(P, b) - Starts(P)[b] + 1
  BY <1>1, BlockCode, BlockBounds
<1> SUFFICES ASSUME NEW c \in DOMAIN Cfg(P), Starts(P)[c] <= next, next <= BlockEnd(P, c)
             PROVE  reach[c][next - Starts(P)[c]] \subseteq reach[b][pc - Starts(P)[b] + 1]
  BY DEF FactsAt
<1>3. BlockEnd(P, c) <= Len(P) /\ BlockEnd(P, c) \in Nat /\ Starts(P)[c] \in Nat
  BY <1>1, BlockCode, BlockBounds
<1>4. CASE next = pc + 1 /\ next <= BlockEnd(P, b)
  <2>1. Starts(P)[b] <= next
    BY <1>2, <1>4
  <2>2. b = c
    BY <1>4, <2>1, PositionIsInOneBlock
  <2>3. next - Starts(P)[b] = pc - Starts(P)[b] + 1
    BY <1>2, <1>4
  <2> QED
    BY <2>2, <2>3
<1>5. CASE pc = BlockEnd(P, b) /\ Enters(P, b, next)
  <2>1. PICK d \in DOMAIN Cfg(P) : Starts(P)[d] = next /\ b \in Cfg(P)[d].preds
    BY <1>1, <1>3, <1>5 DEF Enters
  <2>2. next <= BlockEnd(P, d)
    BY <1>1, <2>1, BlockCode, BlockBounds
  <2>3. c = d
    BY <2>1, <2>2, PositionIsInOneBlock
  <2>4. next - Starts(P)[c] = 0
    BY <2>1, <2>3
  <2>5. reach[c][0] \subseteq reach[b][Len(Cfg(P)[b].code)]
    BY <2>1, <2>3 DEF Meets
  <2>6. pc - Starts(P)[b] + 1 = Len(Cfg(P)[b].code)
    BY <1>2, <1>5
  <2> QED
    BY <2>4, <2>5, <2>6
<1> QED
  BY <1>4, <1>5 DEF Continues

(* The environment writes numbers, so a call leaves such a machine too.    *)
LEMMA EffectsOK ==
    ASSUME NEW P, NEW m, MemoryOK(P, m), NEW eff, NEW w \in Numbers
    PROVE  MemoryOK(P, [x \in Vars |-> IF x \in eff THEN w ELSE m[x]])
<1> DEFINE m2 == [x \in Vars |-> IF x \in eff THEN w ELSE m[x]]
<1>1. w[1] = "n"
  BY DEF Numbers, N
<1>2. ValueOK(P, w)
  BY <1>1, NumberOK
<1>3. \A x \in Vars : m2[x] = IF x \in eff THEN w ELSE m[x]
  OBVIOUS
<1>4. m2 = [x \in Vars |-> m2[x]]
  OBVIOUS
<1> HIDE DEF m2
<1>5. \A x \in Vars : ValueOK(P, m2[x])
  BY <1>2, <1>3 DEF MemoryOK
<1>6. MemoryOK(P, m2)
  BY <1>4, <1>5 DEF MemoryOK
<1> QED
  BY <1>6 DEF m2

(* A machine whose position and memory are replaced.                       *)
LEMMA MachineUpdate ==
    ASSUME NEW s, s = [pc |-> s.pc, mem |-> s.mem, jb |-> s.jb], NEW p, NEW m, NEW t,
           t = [s EXCEPT !.pc = p, !.mem = m]
    PROVE  t = [pc |-> p, mem |-> m, jb |-> s.jb]
<1>1. PICK a, b, c : s = [pc |-> a, mem |-> b, jb |-> c]
  OBVIOUS
<1> DEFINE u == [s EXCEPT !.pc = p]
<1>2. u = [pc |-> p, mem |-> b, jb |-> c]
  BY <1>1
<1>3. t = [u EXCEPT !.mem = m]
  OBVIOUS
<1> HIDE DEF u
<1>4. t = [pc |-> p, mem |-> m, jb |-> c]
  BY <1>2, <1>3
<1>5. s.jb = c
  BY <1>1
<1> QED
  BY <1>4, <1>5

(* The answer to a call leaves such a machine.                             *)
LEMMA ReturnedOK ==
    ASSUME NEW P \in FunctionBodies, NEW s, MachineOK(P, s), s.pc \in DOMAIN P,
           NEW eff, NEW w \in Numbers, NEW r \in Numbers
    PROVE  MachineOK(P, Returned(P, s, eff, w, r))
<1> DEFINE t == Returned(P, s, eff, w, r)
           m == [x \in Vars |-> IF x \in eff THEN w ELSE s.mem[x]]
           d == P[s.pc].dst
<1>0. P[s.pc] \in Instructions
  BY DEF FunctionBodies
<1>1. MemoryOK(P, m)
  BY EffectsOK DEF MachineOK
<1>2. ValueOK(P, r)
  <2>1. r[1] = "n"
    BY DEF Numbers, N
  <2> QED
    BY <2>1, NumberOK
<1> DEFINE m3 == IF d = "" THEN m ELSE [m EXCEPT ![d] = r]
           p == s.pc + 1
<1>3. t = [pc |-> p, mem |-> m3, jb |-> s.jb]
  <2>1. s = [pc |-> s.pc, mem |-> s.mem, jb |-> s.jb]
    BY DEF MachineOK
  <2>2. t = [s EXCEPT !.pc = p, !.mem = m3]
    BY DEF Returned
  <2> HIDE DEF t, p, m3
  <2> QED
    BY <2>1, <2>2, MachineUpdate
<1> HIDE DEF t, m
<1> HIDE DEF m3
<1>3a. /\ t = [pc |-> t.pc, mem |-> t.mem, jb |-> t.jb]
       /\ t.pc = s.pc + 1 /\ t.jb = s.jb /\ t.mem = m3
  BY <1>3
<1>4. MemoryOK(P, t.mem)
  <2>1. CASE d = ""
    BY <1>1, <1>3a, <2>1 DEF m3
  <2>2. CASE d # ""
    <3>1. d \in Vars
      BY <1>0, <2>2, InstructionFields
    <3>2. t.mem = [m EXCEPT ![d] = r]
      BY <1>3a, <2>2 DEF m3
    <3> HIDE DEF d
    <3> QED
      BY <1>1, <1>2, <3>1, <3>2, MemoryAfterWrite
  <2> QED
    BY <2>1, <2>2
<1>5. t.pc \in 1 .. Len(P) + 1
  <2>1. Len(P) \in Nat /\ DOMAIN P = 1 .. Len(P)
    BY DEF FunctionBodies
  <2>2. t.pc = s.pc + 1
    BY <1>3a
  <2> QED
    BY <2>1, <2>2
<1>6. t.jb = NoJump \/ \E q \in DOMAIN P : P[q].k = "setjmp" /\ t.jb = <<q + 1, P[q].dst>>
  BY <1>3a DEF MachineOK
<1>7. t = [pc |-> t.pc, mem |-> t.mem, jb |-> t.jb]
  BY <1>3a
<1>8. MachineOK(P, t)
  BY <1>4, <1>5, <1>6, <1>7, Zenon DEF MachineOK
<1> QED
  BY <1>8 DEF t

(* A longjmp resumes the function after the setjmp it executed.            *)
LEMMA JumpedBackOK ==
    ASSUME NEW P \in FunctionBodies, NEW s, MachineOK(P, s), s.jb # NoJump,
           NEW eff, NEW w \in Numbers
    PROVE  LET t == JumpedBack(s, eff, w) IN
           /\ MachineOK(P, t)
           /\ \E q \in DOMAIN P : P[q].k = "setjmp" /\ t.pc = q + 1
<1> DEFINE t == JumpedBack(s, eff, w)
           m == [x \in Vars |-> IF x \in eff THEN w ELSE s.mem[x]]
<1>1. PICK q \in DOMAIN P : P[q].k = "setjmp" /\ s.jb = <<q + 1, P[q].dst>>
  BY DEF MachineOK
<1>2. s = [pc |-> s.pc, mem |-> s.mem, jb |-> s.jb]
  BY DEF MachineOK
<1>3. t = [s EXCEPT !.pc = s.jb[1], !.mem = [m EXCEPT ![s.jb[2]] = N(1)]]
  BY DEF JumpedBack
<1>4. s.jb[1] = q + 1 /\ s.jb[2] = P[q].dst
  BY <1>1
<1>5. MemoryOK(P, m)
  <2>1. MemoryOK(P, s.mem)
    BY DEF MachineOK
  <2> QED
    BY <2>1, EffectsOK
<1> HIDE DEF t, m
<1> DEFINE m3 == [m EXCEPT ![P[q].dst] = N(1)]
<1>6. t = [pc |-> q + 1, mem |-> m3, jb |-> s.jb]
  <2> DEFINE p == q + 1
  <2>1. t = [s EXCEPT !.pc = p, !.mem = m3]
    BY <1>3, <1>4
  <2> HIDE DEF m3, p
  <2>2. t = [pc |-> p, mem |-> m3, jb |-> s.jb]
    BY <1>2, <2>1, MachineUpdate
  <2> QED
    BY <2>2 DEF p
<1>7. P[q].dst \in Vars
  <2>1. P[q] \in Instructions
    BY DEF FunctionBodies
  <2>2. HasFields(P[q]) /\ P[q].dst \in Vars \cup {""}
    BY <2>1, InstructionFields
  <2> QED
    BY <1>1, <2>2 DEF HasFields
<1>8. ValueOK(P, N(1))
  <2>1. N(1)[1] = "n"
    BY DEF N
  <2> QED
    BY <2>1, NumberOK
<1>9. MemoryOK(P, m3)
  <2> DEFINE d == P[q].dst
             v == N(1)
  <2> HIDE DEF d, v
  <2>1. d \in Vars /\ ValueOK(P, v) /\ m3 = [m EXCEPT ![d] = v]
    BY <1>7, <1>8 DEF d, v
  <2> HIDE DEF m3
  <2> QED
    BY <1>5, <2>1, MemoryAfterWrite
<1> HIDE DEF m3
<1>10. t.pc \in 1 .. Len(P) + 1
  <2>1. Len(P) \in Nat /\ DOMAIN P = 1 .. Len(P)
    BY DEF FunctionBodies
  <2> QED
    BY <1>6, <2>1
<1>11. /\ t = [pc |-> t.pc, mem |-> t.mem, jb |-> t.jb]
       /\ t.mem = m3 /\ t.jb = s.jb /\ t.pc = q + 1
  BY <1>6
<1>12. t.jb = NoJump \/ \E n \in DOMAIN P : P[n].k = "setjmp" /\ t.jb = <<n + 1, P[n].dst>>
  BY <1>11 DEF MachineOK
<1>13. t = [pc |-> t.pc, mem |-> t.mem, jb |-> t.jb] /\ MemoryOK(P, t.mem)
  BY <1>9, <1>11
<1>14. MachineOK(P, t)
  BY <1>10, <1>12, <1>13, Zenon DEF MachineOK
<1> QED
  BY <1>1, <1>11, <1>14 DEF t

----------------------------------------------------------------------------
(* The variables that a function mentions.                                 *)
Mentioned(P) ==
    Vars \cap UNION {SourceVars(P[n]) \cup {P[n].dst} : n \in DOMAIN P}

(* The variables of an instruction are among those the function mentions.  *)
LEMMA MentionedVars ==
    ASSUME NEW P \in FunctionBodies, NEW n \in DOMAIN P
    PROVE  /\ P[n] \in Instructions
           /\ SourceVars(P[n]) \subseteq Mentioned(P)
           /\ P[n].dst # "" => P[n].dst \in Mentioned(P) /\ P[n].dst \in Vars
<1>1. P[n] \in Instructions
  BY DEF FunctionBodies
<1>2. SourceVars(P[n]) \subseteq Vars /\ P[n].dst \in Vars \cup {""}
  BY <1>1, SourceVarsAreVars, InstructionFields
<1> DEFINE U(k) == SourceVars(P[k]) \cup {P[k].dst}
<1>3. Mentioned(P) = Vars \cap UNION {U(k) : k \in DOMAIN P}
  BY DEF Mentioned
<1>4. SourceVars(P[n]) \subseteq U(n) /\ P[n].dst \in U(n)
  OBVIOUS
<1> HIDE DEF U
<1>5. U(n) \cap Vars \subseteq Mentioned(P)
  BY <1>3
<1> QED
  BY <1>1, <1>2, <1>4, <1>5

(* A variable that is mentioned and that pointers reach is aliased for the *)
(* optimizer.                                                              *)
LEMMA ReachableIsAliased ==
    ASSUME NEW P, NEW x \in Mentioned(P), x \in Reachable(P)
    PROVE  x \in FunctionAliasedVars(P)
<1>1. CASE x \in AddressTaken(P)
  BY <1>1 DEF FunctionAliasedVars, FindAliasedVars
<1>2. CASE x \in Statics
  <2>1. PICK n \in DOMAIN P : x \in SourceVars(P[n]) \cup {P[n].dst}
    BY DEF Mentioned
  <2>2. x \in ReferencedStatics(P)
    BY <1>2, <2>1 DEF ReferencedStatics
  <2> QED
    BY <2>2 DEF FunctionAliasedVars, FindAliasedVars
<1> QED
  BY <1>1, <1>2 DEF Reachable

(* Every position is in a block.                                           *)
LEMMA InABlock ==
    ASSUME NEW P \in FunctionBodies, NEW pc \in DOMAIN P
    PROVE  /\ \E b \in DOMAIN Cfg(P) : Starts(P)[b] <= pc /\ pc <= BlockEnd(P, b)
           /\ pc \in 1 .. Len(P) /\ Len(P) \in Nat
BY EveryPosition DEF FunctionBodies

(* The instructions of a block are those of the function from its start on. *)
LEMMA BlockInstructions ==
    ASSUME NEW P \in FunctionBodies, NEW b \in DOMAIN Cfg(P)
    PROVE  LET code == Cfg(P)[b].code IN
           /\ Len(code) \in Nat /\ DOMAIN code = 1 .. Len(code)
           /\ Starts(P)[b] \in Nat /\ Len(code) = BlockEnd(P, b) - Starts(P)[b] + 1
           /\ \A n \in 1 .. Len(code) : /\ code[n] = P[Starts(P)[b] + n - 1]
                                        /\ Starts(P)[b] + n - 1 \in DOMAIN P
                                        /\ code[n] \in Instructions
<1> DEFINE code == Cfg(P)[b].code
           M == Len(code)
<1>1. P \in Seq(Instructions) /\ P # <<>>
  BY DEF FunctionBodies
<1>2. /\ b \in DOMAIN Starts(P) /\ DOMAIN code = 1 .. M /\ M \in Nat
      /\ M = BlockEnd(P, b) - Starts(P)[b] + 1
      /\ \A n \in 1 .. M : code[n] = P[Starts(P)[b] + n - 1]
  BY <1>1, BlockCode
<1>3. Starts(P)[b] \in Nat \ {0} /\ BlockEnd(P, b) \in Nat /\ BlockEnd(P, b) <= Len(P)
  BY <1>1, <1>2, BlockBounds
<1>4. DOMAIN P = 1 .. Len(P) /\ Len(P) \in Nat
  BY <1>1
<1> HIDE DEF code, M
<1>5. \A n \in 1 .. M : Starts(P)[b] + n - 1 \in DOMAIN P
  BY <1>2, <1>3, <1>4
<1>6. \A n \in 1 .. M : code[n] \in Instructions
  BY <1>2, <1>5 DEF FunctionBodies
<1> QED
  BY <1>2, <1>3, <1>5, <1>6 DEF code, M

(* The facts at a position are those of its block.                         *)
LEMMA FactsAtIs ==
    ASSUME NEW P \in FunctionBodies, NEW b \in DOMAIN Cfg(P), NEW pc \in Nat,
           Starts(P)[b] <= pc, pc <= BlockEnd(P, b)
    PROVE  \A reach : FactsAt(P, reach, pc) = reach[b][pc - Starts(P)[b]]
<1> TAKE reach
<1> DEFINE In == {d \in DOMAIN Cfg(P) : Starts(P)[d] <= pc /\ pc <= BlockEnd(P, d)}
           F(d) == reach[d][pc - Starts(P)[d]]
<1>1. In = {b}
  BY PositionIsInOneBlock
<1>2. FactsAt(P, reach, pc) = UNION {F(d) : d \in In}
  BY DEF FactsAt
<1> HIDE DEF In, F
<1>3. UNION {F(d) : d \in {b}} = F(b)
  OBVIOUS
<1> QED
  BY <1>1, <1>2, <1>3 DEF F

(* The facts at the next position: those one instruction further on in the *)
(* block, or those at the start of the block that is entered.              *)
LEMMA FactsAtNext ==
    ASSUME NEW P \in FunctionBodies, NEW b \in DOMAIN Cfg(P), NEW pc \in 1 .. Len(P), NEW next \in Nat,
           Starts(P)[b] <= pc, pc <= BlockEnd(P, b), Continues(P, b, pc, next)
    PROVE  \/ \A reach : FactsAt(P, reach, next) = reach[b][pc - Starts(P)[b] + 1]
           \/ \A reach : FactsAt(P, reach, next) = {}
           \/ \E c \in DOMAIN Cfg(P) : /\ b \in Cfg(P)[c].preds
                                       /\ \A reach : FactsAt(P, reach, next) = reach[c][0]
<1>1. P \in Seq(Instructions) /\ P # <<>> /\ Len(P) \in Nat
  BY DEF FunctionBodies
<1>2. b \in DOMAIN Starts(P) /\ BlockEnd(P, b) \in Nat /\ Starts(P)[b] \in Nat
  BY <1>1, BlockCode, BlockBounds
<1>3. ASSUME NEW c \in DOMAIN Cfg(P), Starts(P)[c] <= next, next <= BlockEnd(P, c)
      PROVE  \A reach : FactsAt(P, reach, next) = reach[c][next - Starts(P)[c]]
  <2> TAKE reach
  <2> DEFINE In == {d \in DOMAIN Cfg(P) : Starts(P)[d] <= next /\ next <= BlockEnd(P, d)}
             F(d) == reach[d][next - Starts(P)[d]]
  <2>1. In = {c}
    BY <1>3, PositionIsInOneBlock
  <2>2. FactsAt(P, reach, next) = UNION {F(d) : d \in In}
    BY DEF FactsAt
  <2> HIDE DEF In, F
  <2>3. UNION {F(d) : d \in {c}} = F(c)
    OBVIOUS
  <2> QED
    BY <2>1, <2>2, <2>3 DEF F
<1>4. CASE next = pc + 1 /\ next <= BlockEnd(P, b)
  <2>1. Starts(P)[b] <= next
    BY <1>2, <1>4
  <2>2. next - Starts(P)[b] = pc - Starts(P)[b] + 1
    BY <1>2, <1>4
  <2> QED
    BY <1>3, <1>4, <2>1, <2>2
<1>5. CASE next = Len(P) + 1
  <2>1. \A c \in DOMAIN Cfg(P) : ~(next <= BlockEnd(P, c))
    <3>1. \A c \in DOMAIN Cfg(P) : BlockEnd(P, c) <= Len(P) /\ BlockEnd(P, c) \in Nat
      BY <1>1, BlockCode, BlockBounds
    <3> QED
      BY <1>1, <1>5, <3>1
  <2>2. \A reach : FactsAt(P, reach, next) = {}
    BY <2>1 DEF FactsAt
  <2> QED
    BY <2>2
<1>6. ASSUME NEW c \in DOMAIN Cfg(P), Starts(P)[c] = next, b \in Cfg(P)[c].preds
      PROVE  \A reach : FactsAt(P, reach, next) = reach[c][0]
  <2>1. next <= BlockEnd(P, c) /\ Starts(P)[c] <= next
    BY <1>1, <1>6, BlockCode, BlockBounds
  <2>2. next - Starts(P)[c] = 0
    BY <1>6
  <2> QED
    BY <1>3, <2>1, <2>2
<1> QED
  BY <1>4, <1>5, <1>6 DEF Continues, Enters
----------------------------------------------------------------------------
(* The original function takes a machine from s to t: t is in every set     *)
(* that contains s and the successor of each of its machines that has one. *)
Leads(P, s, t) ==
    \A S : s \in S /\ (\A u \in S : ~AtEvent(P, u) /\ ~Undefined(P, u) => Run1(P, u) \in S) => t \in S

(* It may take no step.                                                    *)
LEMMA LeadsSelf ==
    ASSUME NEW P, NEW s
    PROVE  Leads(P, s, s)
BY DEF Leads

(* It may take one more.                                                   *)
LEMMA LeadsExtend ==
    ASSUME NEW P, NEW s, NEW t, Leads(P, s, t), ~AtEvent(P, t), ~Undefined(P, t)
    PROVE  Leads(P, s, Run1(P, t))
<1> DEFINE v == Run1(P, t)
<1> SUFFICES ASSUME NEW S, s \in S,
                    \A u \in S : ~AtEvent(P, u) /\ ~Undefined(P, u) => Run1(P, u) \in S
             PROVE  v \in S
  BY DEF Leads
<1>1. t \in S
  BY DEF Leads
<1> QED
  BY <1>1

(* Or it has a first step, from which the rest leads on.                   *)
LEMMA LeadsAdvance ==
    ASSUME NEW P, NEW s, NEW t, Leads(P, s, t), s # t
    PROVE  ~AtEvent(P, s) /\ ~Undefined(P, s) /\ Leads(P, Run1(P, s), t)
<1>1. ~AtEvent(P, s) /\ ~Undefined(P, s)
  <2> SUFFICES ASSUME AtEvent(P, s) \/ Undefined(P, s) PROVE FALSE
    OBVIOUS
  <2> DEFINE S == {s}
  <2>1. s \in S /\ \A u \in S : ~AtEvent(P, u) /\ ~Undefined(P, u) => Run1(P, u) \in S
    OBVIOUS
  <2>2. t \notin S
    OBVIOUS
  <2> HIDE DEF S
  <2> QED
    BY <2>1, <2>2 DEF Leads
<1> DEFINE v == Run1(P, s)
<1>2. ASSUME NEW S, v \in S,
             \A u \in S : ~AtEvent(P, u) /\ ~Undefined(P, u) => Run1(P, u) \in S
      PROVE  t \in S
  <2> DEFINE T == S \cup {s}
  <2>1. s \in T /\ \A u \in T : ~AtEvent(P, u) /\ ~Undefined(P, u) => Run1(P, u) \in T
    BY <1>2
  <2> HIDE DEF T
  <2>2. t \in T
    BY <2>1 DEF Leads
  <2> QED
    BY <2>2 DEF T
<1>3. Leads(P, v, t)
  BY <1>2 DEF Leads
<1> QED
  BY <1>1, <1>3

----------------------------------------------------------------------------
(* Leaving instructions out.  Q keeps the positions K of P, in their order; *)
(* what stands there is of the same kind, names the same label and defines *)
(* the same variable, and what is left out computes a value.               *)
Shrinks(P, K, Q) ==
    /\ K \subseteq DOMAIN P
    /\ DOMAIN Q = 1 .. Cardinality(K) /\ Len(Q) = Cardinality(K)
    /\ \A p \in DOMAIN P \ K : P[p].k \in Operational \ {"atomic", "setjmp"}
    /\ \A p \in K : /\ Q[Rank(K, p)].k = P[p].k
                    /\ Q[Rank(K, p)].dst = P[p].dst
                    /\ Q[Rank(K, p)].at = P[p].at

(* The position in Q of the first instruction kept from position p of P on. *)
Image(K, p) == Rank(K, p - 1) + 1

(* The image moves on at the positions that are kept, and there only.      *)
LEMMA ImageIs ==
    ASSUME NEW P \in FunctionBodies, NEW K, NEW Q, Shrinks(P, K, Q)
    PROVE  /\ \A p \in 1 .. Len(P) + 1 : Image(K, p) \in 1 .. Len(Q) + 1
           /\ \A p \in K : /\ Rank(K, p) = Image(K, p) /\ Image(K, p) \in DOMAIN Q
                           /\ Image(K, p + 1) = Image(K, p) + 1
           /\ \A p \in DOMAIN P \ K : Image(K, p + 1) = Image(K, p)
           /\ Image(K, 1) = 1 /\ Image(K, Len(P) + 1) = Len(Q) + 1
           /\ Len(P) \in Nat /\ DOMAIN P = 1 .. Len(P) /\ Len(Q) \in Nat
<1> DEFINE M == Len(P)
           C == Cardinality(K)
<1>1. M \in Nat /\ DOMAIN P = 1 .. M
  BY DEF FunctionBodies
<1>2. K \subseteq 1 .. M /\ DOMAIN Q = 1 .. C /\ Len(Q) = C
  BY <1>1 DEF Shrinks
<1> HIDE DEF M
<1>3. Rank(K, 0) = 0 /\ Rank(K, M) = C /\ IsFiniteSet(K)
  BY <1>1, <1>2, RankEnds
<1>4. C \in Nat /\ \A n : Rank(K, n) \in Nat /\ Rank(K, n) <= C
  BY <1>3, RankType
<1> HIDE DEF C
<1>5. \A p \in 1 .. M : Rank(K, p) = IF p \in K THEN Rank(K, p - 1) + 1 ELSE Rank(K, p - 1)
  <2> TAKE p \in 1 .. M
  <2> DEFINE n == p - 1
  <2>1. n \in Nat /\ n + 1 = p
    BY <1>1
  <2> HIDE DEF n
  <2>2. Rank(K, n + 1) = IF n + 1 \in K THEN Rank(K, n) + 1 ELSE Rank(K, n)
    BY <1>3, <2>1, RankStep
  <2> QED
    BY <2>1, <2>2 DEF n
<1>6. \A p \in 1 .. M : (p + 1) - 1 = p
  BY <1>1
<1>7. \A p \in 1 .. M : Image(K, p + 1) = Rank(K, p) + 1
  BY <1>6 DEF Image
<1>8. \A p \in 1 .. M + 1 : Image(K, p) \in 1 .. C + 1
  BY <1>4 DEF Image
<1>9. \A p \in K : /\ Rank(K, p) = Image(K, p) /\ Image(K, p) \in 1 .. C
                   /\ Image(K, p + 1) = Image(K, p) + 1
  <2> TAKE p \in K
  <2>1. p \in 1 .. M
    BY <1>2
  <2>2. Rank(K, p) = Rank(K, p - 1) + 1
    BY <1>5, <2>1
  <2>3. Rank(K, p) = Image(K, p)
    BY <2>2 DEF Image
  <2>4. Rank(K, p) \in 1 .. C
    BY <1>4, <2>2
  <2> QED
    BY <1>7, <2>1, <2>3, <2>4
<1>10. \A p \in (1 .. M) \ K : Image(K, p + 1) = Image(K, p)
  BY <1>5, <1>7 DEF Image
<1>11. Image(K, 1) = 1 /\ Image(K, M + 1) = C + 1
  <2>1. 1 - 1 = 0 /\ (M + 1) - 1 = M
    BY <1>1
  <2> QED
    BY <1>3, <2>1 DEF Image
<1> QED
  BY <1>1, <1>2, <1>4, <1>8, <1>9, <1>10, <1>11 DEF M

(* Every position of Q is the image of one that is kept.                   *)
LEMMA ImageIsOnto ==
    ASSUME NEW P \in FunctionBodies, NEW K, NEW Q, Shrinks(P, K, Q), NEW n \in DOMAIN Q
    PROVE  \E p \in K : Rank(K, p) = n
<1>1. Len(P) \in Nat /\ K \subseteq 1 .. Len(P) /\ n \in 1 .. Cardinality(K)
  BY DEF FunctionBodies, Shrinks
<1> QED
  BY <1>1, RankIsOnto

(* A jump to a label finds the image of the instruction it found in P.     *)
LEMMA GotoImage ==
    ASSUME NEW P \in FunctionBodies, NEW K, NEW Q, Shrinks(P, K, Q),
           NEW l, \E n \in DOMAIN P : P[n].k = "label" /\ P[n].at = l
    PROVE  Goto(Q, l) = Image(K, Goto(P, l))
<1> DEFINE g == Goto(P, l)
           h == Goto(Q, l)
<1>1. g \in DOMAIN P /\ P[g].k = "label" /\ P[g].at = l
  BY GotoIsLabel
<1> HIDE DEF g, h
<1>2. g \in K
  BY <1>1 DEF Shrinks, Operational
<1>3. Rank(K, g) = Image(K, g) /\ Image(K, g) \in DOMAIN Q
  BY <1>2, ImageIs
<1>4. Q[Image(K, g)].k = "label" /\ Q[Image(K, g)].at = l
  BY <1>1, <1>2, <1>3 DEF Shrinks
<1>5. h \in DOMAIN Q /\ Q[h].k = "label" /\ Q[h].at = l
  BY <1>3, <1>4, GotoIsLabel DEF h
<1>6. PICK p \in K : Rank(K, p) = h
  BY <1>5, ImageIsOnto
<1>7. P[p].k = "label" /\ P[p].at = l /\ p \in DOMAIN P
  BY <1>5, <1>6 DEF Shrinks
<1>8. p = g
  BY <1>1, <1>7 DEF FunctionBodies
<1> QED
  BY <1>3, <1>6, <1>8 DEF g, h

(* Where the machine s of P goes on, a machine t of Q that stands at the    *)
(* image goes on at the image, if the two agree on the operand of a jump.  *)
LEMMA NextImage ==
    ASSUME NEW P \in FunctionBodies, NEW K, NEW Q, Shrinks(P, K, Q),
           NEW s, MachineOK(P, s), s.pc \in K, ~Undefined(P, s), ~AtEvent(P, s),
           NEW t, t.pc = Image(K, s.pc),
           P[s.pc].k \in {"jz", "jind"} =>
              Value(t.mem, Q[t.pc].src[1]) = Value(s.mem, P[s.pc].src[1])
    PROVE  NextPc(Q, t) = Image(K, NextPc(P, s))
<1> DEFINE i == P[s.pc]
           j == Q[t.pc]
<1>0. s.pc \in DOMAIN P
  BY DEF Shrinks
<1>1. t.pc = Rank(K, s.pc) /\ Image(K, s.pc + 1) = t.pc + 1
  BY ImageIs
<1>2. j.k = i.k /\ j.at = i.at
  BY <1>1 DEF Shrinks
<1>3. i.k \in {"jump", "jz"} => \E n \in DOMAIN P : P[n].k = "label" /\ P[n].at = i.at
  BY <1>0 DEF FunctionBodies
<1>4. i.k = "jind" => \E n \in DOMAIN P : P[n].k = "label" /\ P[n].at = Value(s.mem, i.src[1])[2]
  <2> SUFFICES ASSUME i.k = "jind"
               PROVE  \E n \in DOMAIN P : P[n].k = "label" /\ P[n].at = Value(s.mem, i.src[1])[2]
    OBVIOUS
  <2>0. i \in Instructions
    BY <1>0 DEF FunctionBodies
  <2>1. 1 \in DOMAIN i.src /\ i.src[1] \in Operands
    BY <2>0, FirstOperand, InstructionFields
  <2>2. Value(s.mem, i.src[1])[1] = "l"
    BY <2>1 DEF Undefined
  <2>3. ValueOK(P, Value(s.mem, i.src[1]))
    BY <2>1, OperandValueOK DEF MachineOK
  <2> QED
    BY <2>2, <2>3 DEF ValueOK
<1>5. CASE i.k = "jump" \/ (i.k = "jz" /\ Value(s.mem, i.src[1])[2] = 0)
  <2>1. NextPc(P, s) = Goto(P, i.at) /\ NextPc(Q, t) = Goto(Q, i.at)
    BY <1>2, <1>5 DEF NextPc
  <2> QED
    BY <1>3, <1>5, <2>1, GotoImage
<1>6. CASE i.k = "jind"
  <2>1. NextPc(P, s) = Goto(P, Value(s.mem, i.src[1])[2]) /\ NextPc(Q, t) = Goto(Q, Value(s.mem, i.src[1])[2])
    BY <1>2, <1>6 DEF NextPc
  <2> QED
    BY <1>4, <1>6, <2>1, GotoImage
<1>7. CASE i.k \notin {"jump", "jind"} /\ ~(i.k = "jz" /\ Value(s.mem, i.src[1])[2] = 0)
  <2>1. NextPc(P, s) = s.pc + 1 /\ NextPc(Q, t) = t.pc + 1
    BY <1>2, <1>7 DEF NextPc
  <2> QED
    BY <1>1, <2>1
<1> QED
  BY <1>5, <1>6, <1>7

(* An instruction read at memory m has these operand values.               *)
Values(m, i) == [n \in DOMAIN i.src |-> Value(m, i.src[n])]

(* j at t has the form of i at s, and the same operand values.             *)
ReadsAlike(i, s, j, t) ==
    /\ j.k = i.k /\ j.dst = i.dst /\ j.at = i.at
    /\ DOMAIN j.src = DOMAIN i.src
    /\ Values(t.mem, j) = Values(s.mem, i)
    /\ i.k = "typed" => OperandType(j.src[1]) = OperandType(i.src[1])
    /\ i.k = "addr" => j.src = i.src

(* Instructions that read alike compute alike, if what a pointer names and *)
(* the aggregate that is written in part are alike.                        *)
LEMMA ComputesAlike ==
    ASSUME NEW i, NEW j, NEW s, NEW t, ReadsAlike(i, s, j, t), i.k \in Operational,
           i.k \in {"load", "atomic"} =>
              t.mem[Values(s.mem, i)[1][2]] = s.mem[Values(s.mem, i)[1][2]],
           i.k = "put" => t.mem[i.dst] = s.mem[i.dst]
    PROVE  Computed(t, j) = Computed(s, i)
<1> DEFINE a == Values(s.mem, i)
           c == Values(t.mem, j)
<1>0. j.k = i.k /\ j.dst = i.dst /\ j.at = i.at /\ c = a
  BY DEF ReadsAlike
<1>1. CASE i.k = "addr"
  <2>1. j.src = i.src
    BY <1>1 DEF ReadsAlike
  <2> QED
    BY <1>0, <1>1, <2>1 DEF Computed
<1>2. CASE i.k \in {"copy", "cps"}
  <2>1. Computed(s, i) = a[1] /\ Computed(t, j) = c[1]
    BY <1>0, <1>2 DEF Computed, Values
  <2> QED
    BY <1>0, <2>1
<1>3. CASE i.k = "op"
  <2>1. Computed(s, i) = OpResult(i.at, a)
    BY <1>3 DEF Computed, Values
  <2>2. Computed(t, j) = OpResult(j.at, c)
    BY <1>0, <1>3 DEF Computed, Values
  <2> QED
    BY <1>0, <2>1, <2>2
<1>4. CASE i.k = "typed"
  <2>1. Computed(s, i) = TypedResult(OperandType(i.src[1]), a[1])
    BY <1>4 DEF Computed, Values
  <2>2. Computed(t, j) = TypedResult(OperandType(j.src[1]), c[1])
    BY <1>0, <1>4 DEF Computed, Values
  <2>3. OperandType(j.src[1]) = OperandType(i.src[1])
    BY <1>4 DEF ReadsAlike
  <2> QED
    BY <1>0, <2>1, <2>2, <2>3
<1>5. CASE i.k \in {"load", "atomic"}
  <2>1. Computed(s, i) = s.mem[a[1][2]]
    BY <1>5 DEF Computed, Values
  <2>2. Computed(t, j) = t.mem[c[1][2]]
    BY <1>0, <1>5 DEF Computed, Values
  <2>3. t.mem[a[1][2]] = s.mem[a[1][2]]
    BY <1>5
  <2> QED
    BY <1>0, <2>1, <2>2, <2>3
<1>6. CASE i.k = "put"
  <2>1. Computed(s, i) = SetMember(s.mem[i.dst], i.at, a[1][2])
    BY <1>6 DEF Computed, Values
  <2>2. Computed(t, j) = SetMember(t.mem[j.dst], j.at, c[1][2])
    BY <1>0, <1>6 DEF Computed, Values
  <2>3. t.mem[i.dst] = s.mem[i.dst]
    BY <1>6
  <2> QED
    BY <1>0, <2>1, <2>2, <2>3
<1>7. CASE i.k = "get"
  <2>1. Computed(s, i) = N(Member(a[1], i.at))
    BY <1>7 DEF Computed, Values
  <2>2. Computed(t, j) = N(Member(c[1], j.at))
    BY <1>0, <1>7 DEF Computed, Values
  <2> QED
    BY <1>0, <2>1, <2>2
<1>8. CASE i.k \in {"laddr", "frame", "setjmp", "vastart"}
  BY <1>0, <1>8 DEF Computed
<1> QED
  BY <1>1, <1>2, <1>3, <1>4, <1>5, <1>6, <1>7, <1>8 DEF Operational

(* If what a pointer writes through is too, the memories they leave are     *)
(* alike.                                                                  *)
LEMMA WritesAlike ==
    ASSUME NEW i, NEW j, NEW s, NEW t, ReadsAlike(i, s, j, t), t.mem = s.mem,
           i.dst # "" => i.k \in Operational
    PROVE  Written(t, j) = Written(s, i)
<1> DEFINE a == Values(s.mem, i)
           c == Values(t.mem, j)
           m == s.mem
<1>2. j.k = i.k /\ j.dst = i.dst /\ a = c /\ t.mem = m
  BY DEF ReadsAlike
<1>4. i.k \in Operational => Computed(t, j) = Computed(s, i)
  BY ComputesAlike
<1> DEFINE thru(n, k, v) ==
              CASE k = "store"  -> [n EXCEPT ![v[2][2]] = v[1]]
                [] k = "atomic" -> [n EXCEPT ![v[1][2]] = v[2]]
                [] OTHER        -> n
           all(n, k, d, v, x) == IF d = "" THEN thru(n, k, v) ELSE [thru(n, k, v) EXCEPT ![d] = x]
<1>3. Written(s, i) = all(s.mem, i.k, i.dst, a, Computed(s, i))
  BY Zenon DEF Written, Values
<1>5. Written(t, j) = all(t.mem, j.k, j.dst, c, Computed(t, j))
  BY Zenon DEF Written, Values
<1> HIDE DEF thru, a, c
<1>6. CASE i.dst = ""
  BY <1>2, <1>3, <1>5, <1>6
<1>7. CASE i.dst # ""
  <2>1. Computed(t, j) = Computed(s, i)
    BY <1>4, <1>7
  <2> QED
    BY <1>2, <1>3, <1>5, <1>7, <2>1
<1> QED
  BY <1>6, <1>7

(* The two machines stand at such instructions.                            *)
StandAlike(P, s, Q, t) ==
    /\ Len(P) \in Nat /\ s.pc \in 1 .. Len(P)
    /\ Len(Q) \in Nat /\ t.pc \in 1 .. Len(Q)
    /\ ReadsAlike(P[s.pc], s, Q[t.pc], t)

(* They meet undefined behaviour alike, wait for the environment alike and *)
(* pass it the same values.                                                *)
LEMMA StandsAlike ==
    ASSUME NEW P, NEW Q, NEW s, NEW t, StandAlike(P, s, Q, t)
    PROVE  /\ AtEvent(Q, t) <=> AtEvent(P, s)
           /\ Undefined(Q, t) <=> Undefined(P, s)
           /\ \A reach : (\A x \in reach \cup Statics : t.mem[x] = s.mem[x]) =>
                 Observed(Q, t, reach) = Observed(P, s, reach)
<1> DEFINE i == P[s.pc]
           j == Q[t.pc]
           a == Values(s.mem, i)
           c == Values(t.mem, j)
<1>0. j.k = i.k /\ j.dst = i.dst /\ j.at = i.at /\ c = a /\ DOMAIN j.src = DOMAIN i.src
  BY DEF ReadsAlike, StandAlike
<1>1. ~(s.pc > Len(P)) /\ ~(t.pc > Len(Q))
  BY DEF StandAlike
<1>2. /\ AtEvent(P, s) <=> i.k \in {"call", "icall", "ret", "njump", "longjmp", "unreach"}
      /\ AtEvent(Q, t) <=> j.k \in {"call", "icall", "ret", "njump", "longjmp", "unreach"}
  BY <1>1 DEF AtEvent
<1> DEFINE Und(k, at, d, v) ==
              \/ k \in {"op", "typed", "jz"} /\ \E n \in d : ~IsNumber(v[n])
              \/ k = "op" /\ at = "div" /\ v[2][2] = 0
              \/ k \in {"load", "atomic"} /\ v[1][1] # "a"
              \/ k = "store" /\ v[2][1] # "a"
              \/ k = "jind" /\ v[1][1] # "l"
              \/ k = "put" /\ ~IsNumber(v[1])
<1>3. Undefined(P, s) <=> ~AtEvent(P, s) /\ Und(i.k, i.at, DOMAIN i.src, a)
  BY DEF Undefined, Values
<1>4. Undefined(Q, t) <=> ~AtEvent(Q, t) /\ Und(j.k, j.at, DOMAIN j.src, c)
  BY DEF Undefined, Values
<1> DEFINE seen(k, reach) == IF k \in {"call", "icall"} THEN reach ELSE Statics
           Obs(k, v, m, reach) ==
              IF k = "unreach" THEN <<"unreach", <<>>, <<>>>>
              ELSE <<k, v, [x \in seen(k, reach) |-> m[x]]>>
<1>5. \A reach : /\ Observed(P, s, reach) = Obs(i.k, a, s.mem, reach)
                 /\ Observed(Q, t, reach) = Obs(j.k, c, t.mem, reach)
  BY <1>1 DEF Observed, Values
<1>6. ASSUME NEW reach, \A x \in reach \cup Statics : t.mem[x] = s.mem[x]
      PROVE  Observed(Q, t, reach) = Observed(P, s, reach)
  <2>1. \A k : [x \in seen(k, reach) |-> t.mem[x]] = [x \in seen(k, reach) |-> s.mem[x]]
    BY <1>6
  <2> HIDE DEF seen, a, c
  <2>2. Obs(i.k, a, t.mem, reach) = Obs(i.k, a, s.mem, reach)
    BY <2>1
  <2> HIDE DEF Obs, i, j
  <2> QED
    BY <1>0, <1>5, <2>2
<1> HIDE DEF Und, a, c, i, j
<1>7. Undefined(Q, t) <=> Undefined(P, s)
  BY <1>0, <1>2, <1>3, <1>4
<1> QED
  BY <1>0, <1>2, <1>6, <1>7

(* The point a setjmp saved, in Q.                                         *)
ImageJb(K, jb) == IF jb = NoJump THEN NoJump ELSE <<Image(K, jb[1]), jb[2]>>

(* The machine of Q that stands where s does, with the same memory.        *)
Img(K, s) == [pc |-> Image(K, s.pc), mem |-> s.mem, jb |-> ImageJb(K, s.jb)]

(* A setjmp saves a point that differs from none.                          *)
LEMMA PointIsSaved ==
    ASSUME NEW p, NEW x, p # 0
    PROVE  <<p, x>> # NoJump
BY Zenon DEF NoJump

(* A longjmp leaves the two at the image again.                            *)
LEMMA SameJump ==
    ASSUME NEW K, NEW s, s = [pc |-> s.pc, mem |-> s.mem, jb |-> s.jb], s.jb # NoJump, NEW eff, NEW w
    PROVE  JumpedBack(Img(K, s), eff, w) = Img(K, JumpedBack(s, eff, w))
<1> DEFINE t == Img(K, s)
           m == [[x \in Vars |-> IF x \in eff THEN w ELSE s.mem[x]] EXCEPT ![s.jb[2]] = N(1)]
           p == s.jb[1]
           n == Image(K, p)
           a == JumpedBack(s, eff, w)
           c == JumpedBack(t, eff, w)
<1>1. t = [pc |-> Image(K, s.pc), mem |-> s.mem, jb |-> ImageJb(K, s.jb)]
  BY DEF Img
<1>2. t.mem = s.mem /\ t.jb = ImageJb(K, s.jb) /\ t = [pc |-> t.pc, mem |-> t.mem, jb |-> t.jb]
  BY <1>1
<1> HIDE DEF t
<1>3. t.jb = <<n, s.jb[2]>>
  BY <1>2 DEF ImageJb
<1>4. t.jb[1] = n /\ t.jb[2] = s.jb[2]
  BY <1>3
<1>5. a = [s EXCEPT !.pc = p, !.mem = m]
  BY DEF JumpedBack
<1>6. c = [t EXCEPT !.pc = n, !.mem = m]
  BY <1>2, <1>4 DEF JumpedBack
<1> HIDE DEF a, c, m, p, n
<1>7. a = [pc |-> p, mem |-> m, jb |-> s.jb]
  BY <1>5, MachineUpdate
<1>8. c = [pc |-> n, mem |-> m, jb |-> t.jb]
  BY <1>2, <1>6, MachineUpdate
<1>9. Img(K, a) = [pc |-> n, mem |-> m, jb |-> ImageJb(K, s.jb)]
  BY <1>7 DEF Img, n
<1> QED
  BY <1>2, <1>8, <1>9 DEF t, a, c

(* The list w has J[q] for each position q of K after a and up to p.       *)
Lists(K, J, Y, w, a, p) ==
    /\ w \in Seq(Y)
    /\ Len(w) = Rank(K, p) - Rank(K, a)
    /\ \A q \in K : a < q /\ q <= p => w[Rank(K, q) - Rank(K, a)] = J[q]

(* No position is listed at first.                                         *)
LEMMA ListsNone ==
    ASSUME NEW K, IsFiniteSet(K), NEW J, NEW Y, NEW a \in Nat, K \in SUBSET Nat
    PROVE  Lists(K, J, Y, <<>>, a, a)
<1>1. Rank(K, a) \in Nat
  BY RankType
<1> QED
  BY <1>1 DEF Lists

(* One more is, if it belongs to K.                                        *)
LEMMA ListsOneMore ==
    ASSUME NEW K \in SUBSET Nat, IsFiniteSet(K), NEW J, NEW Y, NEW w, NEW a \in Nat, NEW p \in Nat,
           a < p, Lists(K, J, Y, w, a, p - 1), p \in K => J[p] \in Y
    PROVE  Lists(K, J, Y, IF p \in K THEN Append(w, J[p]) ELSE w, a, p)
<1> DEFINE n == p - 1
           u == Append(w, J[p])
<1>1. n \in Nat /\ n + 1 = p /\ a <= n
  OBVIOUS
<1>2. Rank(K, p) = IF p \in K THEN Rank(K, n) + 1 ELSE Rank(K, n)
  <2> HIDE DEF n
  <2>1. Rank(K, n + 1) = IF n + 1 \in K THEN Rank(K, n) + 1 ELSE Rank(K, n)
    BY <1>1, RankStep
  <2> QED
    BY <1>1, <2>1
<1>3. /\ w \in Seq(Y) /\ Len(w) = Rank(K, n) - Rank(K, a)
      /\ \A q \in K : a < q /\ q <= n => w[Rank(K, q) - Rank(K, a)] = J[q]
  BY DEF Lists
<1>4. \A x : Rank(K, x) \in Nat
  BY RankType
<1> HIDE DEF n
<1>5. CASE p \notin K
  <2>1. \A q \in K : q <= p => q <= n
    BY <1>1, <1>5
  <2>2. Lists(K, J, Y, w, a, p)
    BY <1>2, <1>3, <1>5, <2>1 DEF Lists
  <2> QED
    BY <1>5, <2>2
<1>6. CASE p \in K
  <2>1. u \in Seq(Y) /\ Len(u) = Len(w) + 1 /\ u[Len(w) + 1] = J[p]
        /\ \A m \in 1 .. Len(w) : u[m] = w[m]
    <3> DEFINE x == J[p]
    <3>1. x \in Y
      BY <1>6
    <3> HIDE DEF x
    <3>2. LET z == Append(w, x) IN
          /\ z \in Seq(Y) /\ Len(z) = Len(w) + 1 /\ z[Len(w) + 1] = x
          /\ \A m \in 1 .. Len(w) : z[m] = w[m]
      BY <1>3, <3>1
    <3> QED
      BY <3>2 DEF u, x
  <2> HIDE DEF u
  <2>2. ASSUME NEW q \in K, a < q, q <= n
        PROVE  u[Rank(K, q) - Rank(K, a)] = J[q]
    <3>1. Rank(K, a) < Rank(K, q)
      BY <2>2, RankGrows
    <3>2. Rank(K, q) <= Rank(K, n)
      <4>1. CASE q = n
        BY <1>4, <4>1
      <4>2. CASE q # n
        <5>1. q < n
          BY <1>1, <2>2, <4>2
        <5> QED
          BY <1>1, <5>1, RankGrows
      <4> QED
        BY <4>1, <4>2
    <3>3. Rank(K, q) - Rank(K, a) \in 1 .. Len(w)
      BY <1>3, <1>4, <3>1, <3>2
    <3> QED
      BY <1>3, <2>1, <2>2, <3>3
  <2>3. u[Rank(K, p) - Rank(K, a)] = J[p]
    <3>1. Rank(K, p) - Rank(K, a) = Len(w) + 1
      BY <1>2, <1>3, <1>4, <1>6
    <3> QED
      BY <2>1, <3>1
  <2>4. \A q \in K : a < q /\ q <= p => u[Rank(K, q) - Rank(K, a)] = J[q]
    <3> TAKE q \in K
    <3>1. CASE q = p
      BY <2>3, <3>1
    <3>2. CASE q # p
      <4>1. q <= p => q <= n
        BY <1>1, <3>2
      <4> QED
        BY <2>2, <4>1
    <3> QED
      BY <3>1, <3>2
  <2>5. Len(u) = Rank(K, p) - Rank(K, a)
    BY <1>2, <1>3, <1>4, <1>6, <2>1
  <2>6. Lists(K, J, Y, u, a, p)
    BY <2>1, <2>4, <2>5 DEF Lists
  <2> QED
    BY <1>6, <2>6 DEF u
<1> QED
  BY <1>5, <1>6

(* Lists of neighbouring ranges are put together.                          *)
LEMMA ListsJoin ==
    ASSUME NEW K \in SUBSET Nat, IsFiniteSet(K), NEW J, NEW Y, NEW w, NEW u,
           NEW a \in Nat, NEW b \in Nat, NEW c \in Nat, a <= b, b <= c,
           Lists(K, J, Y, w, a, b), Lists(K, J, Y, u, b, c)
    PROVE  Lists(K, J, Y, w \o u, a, c)
<1> DEFINE v == w \o u
           R(x) == Rank(K, x)
<1>1. /\ w \in Seq(Y) /\ Len(w) = R(b) - R(a)
      /\ \A q \in K : a < q /\ q <= b => w[R(q) - R(a)] = J[q]
  BY DEF Lists
<1>2. /\ u \in Seq(Y) /\ Len(u) = R(c) - R(b)
      /\ \A q \in K : b < q /\ q <= c => u[R(q) - R(b)] = J[q]
  BY DEF Lists
<1>3. \A x : R(x) \in Nat
  BY RankType
<1>4. /\ v \in Seq(Y) /\ Len(v) = Len(w) + Len(u)
      /\ \A m \in 1 .. Len(w) : v[m] = w[m]
      /\ \A m \in 1 .. Len(u) : v[Len(w) + m] = u[m]
  BY <1>1, <1>2
<1>5. \A x \in Nat : \A y \in K : (x < y => R(x) < R(y)) /\ (y < x => R(y) <= R(x))
  <2> TAKE x \in Nat
  <2> TAKE y \in K
  <2>1. y \in Nat
    OBVIOUS
  <2> QED
    BY <2>1, RankGrows
<1> HIDE DEF v, R
<1>6. ASSUME NEW q \in K, a < q, q <= c
      PROVE  v[R(q) - R(a)] = J[q]
  <2>1. CASE q <= b
    <3>1. R(a) < R(q) /\ R(q) <= R(b)
      <4>1. q = b \/ q < b
        BY <2>1
      <4> QED
        BY <1>3, <1>5, <1>6, <4>1
    <3>2. R(q) - R(a) \in 1 .. Len(w)
      BY <1>1, <1>3, <3>1
    <3> QED
      BY <1>1, <1>4, <1>6, <2>1, <3>2
  <2>2. CASE ~(q <= b)
    <3>0. b < q
      BY <2>2
    <3>1. R(b) < R(q) /\ R(q) <= R(c)
      <4>1. q = c \/ q < c
        BY <1>6
      <4> QED
        BY <1>3, <1>5, <3>0, <4>1
    <3>2. R(q) - R(b) \in 1 .. Len(u) /\ R(q) - R(a) = Len(w) + (R(q) - R(b))
      BY <1>1, <1>2, <1>3, <3>1
    <3>3. u[R(q) - R(b)] = J[q]
      BY <1>2, <1>6, <3>0
    <3> QED
      BY <1>4, <3>2, <3>3
  <2> QED
    BY <2>1, <2>2
<1>7. Len(v) = R(c) - R(a)
  BY <1>1, <1>2, <1>3, <1>4
<1> QED
  BY <1>4, <1>6, <1>7 DEF Lists, v, R

(* What is left of a list when only the positions D of it are kept.        *)
LEMMA ListsOnly ==
    ASSUME NEW K \in SUBSET Nat, IsFiniteSet(K), NEW K2 \in SUBSET K, NEW J, NEW Y, NEW w,
           NEW a \in Nat, NEW c \in Nat, a <= c, Lists(K, J, Y, w, a, c),
           NEW D, D \subseteq 1 .. Len(w),
           \A q \in K : a < q /\ q <= c => (q \in K2 <=> Rank(K, q) - Rank(K, a) \in D)
    PROVE  Lists(K2, J, Y, [m \in 1 .. Cardinality(D) |-> w[Ascending(D)[m]]], a, c)
<1> DEFINE R(x) == Rank(K, x)
           R2(x) == Rank(K2, x)
           u == [m \in 1 .. Cardinality(D) |-> w[Ascending(D)[m]]]
           T == {n \in 0 .. c - a : R2(a + n) - R2(a) = Rank(D, R(a + n) - R(a))}
<1>1. /\ w \in Seq(Y) /\ Len(w) = R(c) - R(a) /\ Len(w) \in Nat
      /\ \A q \in K : a < q /\ q <= c => w[R(q) - R(a)] = J[q]
  BY DEF Lists
<1>2. IsFiniteSet(K2) /\ IsFiniteSet(D) /\ Rank(D, 0) = 0 /\ Rank(D, Len(w)) = Cardinality(D)
  BY <1>1, RankEnds, FS_Subset
<1>3. \A x : R(x) \in Nat /\ R2(x) \in Nat /\ Rank(D, x) \in Nat
  BY <1>2, RankType
<1>4. \A x, y \in Nat : x <= y => R(x) <= R(y)
  <2> TAKE x, y \in Nat
  <2> HAVE x <= y
  <2>1. CASE x = y
    BY <1>3, <2>1
  <2>2. CASE x < y
    BY <2>2, RankGrows
  <2> QED
    BY <2>1, <2>2
<1>5. 0 \in T
  BY <1>2, <1>3
<1>6. \A n \in 0 .. (c - a) - 1 : n \in T => n + 1 \in T
  <2> TAKE n \in 0 .. (c - a) - 1
  <2> HAVE n \in T
  <2> DEFINE p == a + n
  <2>1. p \in Nat /\ a <= p /\ p + 1 <= c /\ a < p + 1 /\ p + 1 = a + (n + 1) /\ p + 1 \in Nat
        /\ n + 1 \in 0 .. c - a
    OBVIOUS
  <2>2. R2(p) - R2(a) = Rank(D, R(p) - R(a))
    OBVIOUS
  <2> HIDE DEF p, T, u, R, R2
  <2>3. /\ R(p + 1) = IF p + 1 \in K THEN R(p) + 1 ELSE R(p)
        /\ R2(p + 1) = IF p + 1 \in K2 THEN R2(p) + 1 ELSE R2(p)
    BY <1>2, <2>1, RankStep DEF R, R2
  <2>4. R(p) - R(a) \in Nat
    <3>1. R(a) <= R(p)
      BY <1>4, <2>1
    <3>2. R(a) \in Nat /\ R(p) \in Nat
      BY <1>3
    <3> QED
      BY <3>1, <3>2
  <2>5. Rank(D, (R(p) - R(a)) + 1)
        = IF (R(p) - R(a)) + 1 \in D THEN Rank(D, R(p) - R(a)) + 1 ELSE Rank(D, R(p) - R(a))
    BY <1>2, <2>4, RankStep
  <2>6. R2(p + 1) - R2(a) = Rank(D, R(p + 1) - R(a))
    <3>1. CASE p + 1 \in K
      <4>1. R(p + 1) - R(a) = (R(p) - R(a)) + 1
        BY <1>3, <2>3, <3>1
      <4>2. p + 1 \in K2 <=> (R(p) - R(a)) + 1 \in D
        BY <2>1, <3>1, <4>1 DEF R
      <4>3. R2(p) \in Nat /\ R2(a) \in Nat /\ Rank(D, R(p) - R(a)) \in Nat
        BY <1>3
      <4>4. CASE p + 1 \in K2
        <5>1. /\ R2(p + 1) = R2(p) + 1
              /\ Rank(D, (R(p) - R(a)) + 1) = Rank(D, R(p) - R(a)) + 1
          BY <2>3, <2>5, <4>2, <4>4
        <5> QED
          BY <2>2, <4>1, <4>3, <5>1
      <4>5. CASE p + 1 \notin K2
        BY <2>2, <2>3, <2>5, <4>1, <4>2, <4>5
      <4> QED
        BY <4>4, <4>5
    <3>2. CASE p + 1 \notin K
      BY <2>2, <2>3, <3>2
    <3> QED
      BY <3>1, <3>2
  <2> QED
    BY <2>1, <2>6 DEF T
<1>7. c - a \in Nat
  OBVIOUS
<1> HIDE DEF T
<1>8. 0 .. c - a \subseteq T
  BY <1>5, <1>6, <1>7, InductionUpTo
<1>9. ASSUME NEW p \in Nat, a <= p, p <= c
      PROVE  R2(p) - R2(a) = Rank(D, R(p) - R(a))
  <2>1. p - a \in 0 .. c - a /\ a + (p - a) = p
    BY <1>9
  <2>2. p - a \in T
    BY <1>8, <2>1
  <2> QED
    BY <2>1, <2>2 DEF T
<1> HIDE DEF R, R2
<1>10. Cardinality(D) \in Nat /\ Cardinality(D) = R2(c) - R2(a)
  BY <1>1, <1>2, <1>3, <1>9
<1>11. /\ DOMAIN Ascending(D) = 1 .. Cardinality(D)
       /\ \A m \in 1 .. Cardinality(D) : Ascending(D)[m] \in D
       /\ \A d \in D : Rank(D, d) \in 1 .. Cardinality(D) /\ Ascending(D)[Rank(D, d)] = d
  BY <1>1, AscendingIs
<1>12. DOMAIN u = 1 .. Cardinality(D) /\ Len(u) = Cardinality(D) /\ u \in Seq(Y)
  BY <1>1, <1>10, <1>11
<1>13. ASSUME NEW q \in K2, a < q, q <= c PROVE u[R2(q) - R2(a)] = J[q]
  <2> DEFINE d == R(q) - R(a)
  <2>1. q \in K /\ q \in Nat /\ a <= q
    BY <1>13
  <2>2. d \in D
    BY <1>13, <2>1 DEF R
  <2>3. R2(q) - R2(a) = Rank(D, d)
    BY <1>9, <1>13, <2>1
  <2>4. u[Rank(D, d)] = w[d]
    BY <1>11, <2>2
  <2> QED
    BY <1>1, <1>13, <2>1, <2>3, <2>4
<1> HIDE DEF u
<1>14. Len(u) = R2(c) - R2(a)
  BY <1>10, <1>12
<1> QED
  BY <1>12, <1>13, <1>14 DEF Lists, R2, u

(* Flattening puts the lists of neighbouring ranges together.              *)
LEMMA FlattenLists ==
    ASSUME NEW K \in SUBSET Nat, IsFiniteSet(K), NEW J, NEW Y, NEW M \in Nat \ {0},
           NEW code, Len(code) = M,
           NEW cut, \A b \in 0 .. M : cut[b] \in Nat /\ cut[0] <= cut[b],
           \A b \in 1 .. M : cut[b - 1] <= cut[b] /\ Lists(K, J, Y, code[b], cut[b - 1], cut[b])
    PROVE  Lists(K, J, Y, FlattenSeq(code), cut[0], cut[M])
<1> DEFINE step == [n \in 1 .. M |-> [w \in Seq(Y) |-> w \o code[n]]]
           flatten == CHOOSE g : g = [i \in 1 .. M |-> IF i = 1 THEN code[i] ELSE g[i - 1] \o code[i]]
<1>1. FlattenSeq(code) = flatten[M]
  BY DEF FlattenSeq
<1>2. \A b \in 1 .. M : code[b] \in Seq(Y)
  BY DEF Lists
<1>3. PICK h : Steps(h, <<>>, step, M)
  <2> HIDE DEF step
  <2> QED
    BY StepsExist
<1>4. h[0] = <<>> /\ \A n \in 1 .. M : h[n] = step[n][h[n - 1]]
  BY <1>3 DEF Steps
<1>5. \A n \in 0 .. M : h[n] \in Seq(Y)
  <2> DEFINE T == {n \in 0 .. M : h[n] \in Seq(Y)}
  <2>1. 0 \in T
    <3>1. <<>> \in Seq(Y) /\ 0 \in 0 .. M
      OBVIOUS
    <3> QED
      BY <1>4, <3>1
  <2>2. \A n \in 0 .. M - 1 : n \in T => n + 1 \in T
    <3> TAKE n \in 0 .. M - 1
    <3> HAVE n \in T
    <3>1. n + 1 \in 1 .. M /\ (n + 1) - 1 = n /\ h[n] \in Seq(Y) /\ n + 1 \in 0 .. M
      OBVIOUS
    <3>2. h[n + 1] = h[n] \o code[n + 1]
      BY <1>4, <3>1
    <3>3. h[n + 1] \in Seq(Y)
      BY <1>2, <3>1, <3>2
    <3> QED
      BY <3>1, <3>3
  <2> HIDE DEF T
  <2>3. 0 .. M \subseteq T
    BY <2>1, <2>2, InductionUpTo
  <2> QED
    BY <2>3 DEF T
<1>6. \A n \in 1 .. M : h[n] = h[n - 1] \o code[n]
  <2> TAKE n \in 1 .. M
  <2>1. n - 1 \in 0 .. M
    OBVIOUS
  <2>2. h[n - 1] \in Seq(Y)
    BY <1>5, <2>1
  <2> QED
    BY <1>4, <2>2
<1>7. \E g : g = [i \in 1 .. M |-> IF i = 1 THEN code[i] ELSE g[i - 1] \o code[i]]
  <2> DEFINE g == [i \in 1 .. M |-> h[i]]
  <2>1. ASSUME NEW i \in 1 .. M
        PROVE  h[i] = IF i = 1 THEN code[i] ELSE g[i - 1] \o code[i]
    <3>1. CASE i = 1
      <4>1. h[1] = h[0] \o code[1]
        BY <1>6, <3>1
      <4>2. h[1] = code[1]
        BY <1>2, <1>4, <3>1, <4>1
      <4> QED
        BY <3>1, <4>2
    <3>2. CASE i # 1
      <4>1. i - 1 \in 1 .. M
        BY <3>2
      <4>2. g[i - 1] = h[i - 1]
        BY <4>1
      <4> QED
        BY <1>6, <3>2, <4>2
    <3> QED
      BY <3>1, <3>2
  <2>2. g = [i \in 1 .. M |-> IF i = 1 THEN code[i] ELSE g[i - 1] \o code[i]]
    BY <2>1
  <2> QED
    BY <2>2
<1>8. flatten = [i \in 1 .. M |-> IF i = 1 THEN code[i] ELSE flatten[i - 1] \o code[i]]
  BY <1>7
<1> HIDE DEF flatten, step
<1>9. \A i \in 1 .. M : flatten[i] = IF i = 1 THEN code[i] ELSE flatten[i - 1] \o code[i]
  BY <1>8
<1> DEFINE T == {n \in 0 .. M : n = 0 \/ Lists(K, J, Y, flatten[n], cut[0], cut[n])}
<1>10. 0 \in T
  OBVIOUS
<1>11. \A n \in 0 .. M - 1 : n \in T => n + 1 \in T
  <2> TAKE n \in 0 .. M - 1
  <2> HAVE n \in T
  <2>1. n + 1 \in 1 .. M /\ n + 1 \in 0 .. M /\ (n + 1) - 1 = n /\ n \in 0 .. M /\ 0 \in 0 .. M
    OBVIOUS
  <2>2. Lists(K, J, Y, code[n + 1], cut[n], cut[n + 1])
    BY <2>1
  <2>3. CASE n = 0
    <3>1. flatten[1] = code[1]
      BY <1>9
    <3> QED
      BY <2>1, <2>2, <2>3, <3>1
  <2>4. CASE n # 0
    <3>0. n + 1 # 1
      BY <2>4
    <3>1. flatten[n + 1] = flatten[n] \o code[n + 1]
      BY <1>9, <2>1, <3>0
    <3>2. Lists(K, J, Y, flatten[n], cut[0], cut[n])
      BY <2>4
    <3>3. /\ cut[0] \in Nat /\ cut[n] \in Nat /\ cut[n + 1] \in Nat
          /\ cut[0] <= cut[n] /\ cut[n] <= cut[n + 1]
      BY <2>1
    <3>4. Lists(K, J, Y, flatten[n] \o code[n + 1], cut[0], cut[n + 1])
      BY <2>2, <3>2, <3>3, ListsJoin
    <3> QED
      BY <2>1, <3>1, <3>4
  <2> QED
    BY <2>3, <2>4
<1> HIDE DEF T
<1>12. 0 .. M \subseteq T
  BY <1>10, <1>11, InductionUpTo
<1>13. M \in T /\ M # 0
  BY <1>12
<1> QED
  BY <1>1, <1>13 DEF T
============================================================================
