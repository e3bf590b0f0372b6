--------------------------- MODULE RegAlloc_proof ---------------------------
(***************************************************************************)
(* For every function, every set of registers and every order the hash     *)
(* maps leave open: merging keeps the interference graph a graph, merges   *)
(* nothing that interferes, and what interferes gets different registers.  *)
(* Nothing here looks into what an instruction reads or writes: Updated    *)
(* and the live sets are whatever they are.                                *)
(***************************************************************************)
EXTENDS RegAlloc, TLAPS, WellFoundedInduction

USE DEF analysis, graph, colors

\* Every interference between nodes not merged with one another is an edge of
\* the graph as merged so far; nothing merged interferes.
EdgesAreKept(g, built, r, nodes) ==
    /\ DOMAIN r = nodes
    /\ \A x \in nodes : r[x] \in DOMAIN g
    /\ \A x, y \in nodes :
          y \in built[x] => r[x] # r[y] /\ r[y] \in g[r[x]]
MergeInv == phase = "coalesce" => EdgesAreKept(adj, Built, root, Nodes(func))

\* While nodes are taken away and colored, the graph has every interference.
GraphIsComplete ==
    phase \in {"simplify", "select"} =>
       /\ Nodes(func) \subseteq DOMAIN adj
       /\ \A x, y \in Nodes(func) : y \in Built[x] => y \in adj[x]
ProperlyColored ==
    phase = "select" =>
       /\ DOMAIN color = DOMAIN adj
       /\ DOMAIN adj \subseteq Nodes(func)
       /\ \A x \in DOMAIN adj : \A y \in adj[x] : color[x] # 0 => color[x] # color[y]
DomainInv == phase \in {"coalesce", "simplify", "select"} => DOMAIN adj \subseteq Nodes(func)

IInv == GraphIsWellFormed /\ MergeInv /\ GraphIsComplete /\ DomainInv /\ ProperlyColored

\* Shape of a graph, as a fact about one value.
WellFormed(g) ==
    \A x \in DOMAIN g :
       /\ g[x] \subseteq DOMAIN g \ {x}
       /\ \A y \in g[x] : x \in g[y]
       /\ x \in Hard => Hard \ {x} \subseteq g[x]
----------------------------------------------------------------------------
(* build_interference_graph: the graph it builds is well formed.           *)
LEMMA InterferenceIsWellFormed ==
    ASSUME NEW nodes, NEW c, NEW after, Hard \subseteq nodes
    PROVE  WellFormed(Interference(nodes, c, after))
<1> DEFINE g == Interference(nodes, c, after)
<1>1. DOMAIN g = nodes
  BY DEF Interference
<1>2. \A x \in nodes : g[x] = {y \in nodes \ {x} : \/ x \in Hard /\ y \in Hard
                                                   \/ Clobbers(c, after, x, y)
                                                   \/ Clobbers(c, after, y, x)}
  BY DEF Interference
<1> HIDE DEF g
<1>3. WellFormed(g)
  BY <1>1, <1>2 DEF WellFormed
<1> QED
  BY <1>3 DEF g

\* The graph and the roots after one node was merged into another.
LEMMA MergeKeepsWellFormed ==
    ASSUME NEW g, WellFormed(g), NEW from \in DOMAIN g, NEW into \in DOMAIN g,
           from # into, from \notin Hard
    PROVE  WellFormed(Merge(g, from, into))
<1> DEFINE h == Merge(g, from, into)
<1>1. DOMAIN h = DOMAIN g \ {from}
  BY DEF Merge
<1>2. \A x \in DOMAIN g \ {from} :
         h[x] = IF x = into THEN (g[into] \cup g[from]) \ {from, into}
                ELSE IF x \in g[from] THEN (g[x] \ {from}) \cup {into}
                ELSE g[x]
  BY DEF Merge
<1> HIDE DEF h
<1>3. \A x \in DOMAIN h : h[x] \subseteq DOMAIN h \ {x}
  BY <1>1, <1>2 DEF WellFormed
<1>4. \A x \in DOMAIN h : \A y \in h[x] : x \in h[y]
  <2> SUFFICES ASSUME NEW x \in DOMAIN h, NEW y \in h[x]
               PROVE  x \in h[y]
    OBVIOUS
  <2>1. y \in DOMAIN g \ {from} /\ y # x
    BY <1>1, <1>3
  <2>2. CASE x = into
    BY <1>1, <1>2, <2>1, <2>2 DEF WellFormed
  <2>3. CASE x # into /\ y = into
    BY <1>1, <1>2, <2>1, <2>3 DEF WellFormed
  <2>4. CASE x # into /\ y # into
    BY <1>1, <1>2, <2>1, <2>4 DEF WellFormed
  <2> QED
    BY <2>2, <2>3, <2>4
<1>5. \A x \in DOMAIN h : x \in Hard => Hard \ {x} \subseteq h[x]
  BY <1>1, <1>2 DEF WellFormed
<1>6. WellFormed(h)
  BY <1>3, <1>4, <1>5 DEF WellFormed
<1> QED
  BY <1>6 DEF h

(* A merge keeps every edge that was built, between the roots of its ends. *)
LEMMA MergeKeepsEdges ==
    ASSUME NEW g, WellFormed(g), NEW from \in DOMAIN g, NEW into \in DOMAIN g,
           from # into, into \notin g[from],
           NEW built, NEW r, NEW nodes, EdgesAreKept(g, built, r, nodes)
    PROVE  EdgesAreKept(Merge(g, from, into), built, Union(r, from, into), nodes)
<1> DEFINE h == Merge(g, from, into)
           q == Union(r, from, into)
<1>1. DOMAIN h = DOMAIN g \ {from}
  BY DEF Merge
<1>2. \A x \in DOMAIN g \ {from} :
         h[x] = IF x = into THEN (g[into] \cup g[from]) \ {from, into}
                ELSE IF x \in g[from] THEN (g[x] \ {from}) \cup {into}
                ELSE g[x]
  BY DEF Merge
<1>3. DOMAIN q = nodes /\ \A x \in nodes : q[x] = IF r[x] = from THEN into ELSE r[x]
  BY DEF Union, EdgesAreKept
<1> HIDE DEF h, q
<1>4. \A x \in nodes : q[x] \in DOMAIN h
  BY <1>1, <1>3 DEF EdgesAreKept
<1>5. ASSUME NEW x \in nodes, NEW y \in nodes, y \in built[x]
      PROVE  q[x] # q[y] /\ q[y] \in h[q[x]]
  <2>1. r[x] # r[y] /\ r[y] \in g[r[x]] /\ r[x] \in DOMAIN g /\ r[y] \in DOMAIN g
    BY <1>5 DEF EdgesAreKept
  <2>2. r[x] \in g[r[y]] /\ from \notin g[into]
    BY <2>1 DEF WellFormed
  <2>3. CASE r[x] = from
    BY <1>2, <1>3, <2>1, <2>2, <2>3
  <2>4. CASE r[y] = from
    BY <1>2, <1>3, <2>1, <2>2, <2>4
  <2>5. CASE r[x] # from /\ r[y] # from
    BY <1>2, <1>3, <2>1, <2>2, <2>5
  <2> QED
    BY <2>3, <2>4, <2>5
<1>6. EdgesAreKept(h, built, q, nodes)
  BY <1>3, <1>4, <1>5 DEF EdgesAreKept
<1> QED
  BY <1>6 DEF h, q

\* What is asked for and granted: two nodes without an edge, one of which may
\* be a register and stays.
LEMMA CoalescedPair ==
    ASSUME NEW g, WellFormed(g), NEW src, NEW dst, CanCoalesce(g, src, dst),
           NEW into, into = IF dst \notin Hard /\ src \in Hard THEN src ELSE dst,
           NEW from, from = IF into = dst THEN src ELSE dst
    PROVE  /\ from \in DOMAIN g /\ into \in DOMAIN g
           /\ from # into /\ from \notin Hard /\ into \notin g[from]
<1>1. src # dst /\ src \in DOMAIN g /\ dst \in DOMAIN g /\ dst \notin g[src]
  BY DEF CanCoalesce
<1>2. ~(src \in Hard /\ dst \in Hard)
  BY DEF CanCoalesce
<1>3. src \notin g[dst]
  BY <1>1 DEF WellFormed
<1> QED
  BY <1>1, <1>2, <1>3

(* The free colours have a smallest one.                                   *)
LEMMA SmallestColor ==
    ASSUME NEW free, free \subseteq Nat, free # {}
    PROVE  \E c \in free : \A d \in free : c <= d
<1> DEFINE Less == {ss \in Nat \X Nat : ss[1] < ss[2]}
<1>1. IsWellFoundedOn(Less, Nat)
  BY NatLessThanWellFounded DEF OpToRel
<1> HIDE DEF Less
<1>2. PICK c \in free : \A d \in free : <<d, c>> \notin Less
  BY <1>1, WFMin
<1>3. ASSUME NEW d \in free PROVE c <= d
  <2>1. ~(d < c)
    BY <1>2 DEF Less
  <2> QED
    BY <2>1
<1> QED
  BY <1>3
----------------------------------------------------------------------------
(* The invariant.                                                          *)
LEMMA GraphAsFact == GraphIsWellFormed <=> WellFormed(adj)
BY DEF GraphIsWellFormed, WellFormed

(* The invariant holds at the start.                                       *)
LEMMA IInvInit == Init => IInv
BY DEF Init, IInv, GraphIsWellFormed, MergeInv, GraphIsComplete, DomainInv, ProperlyColored

\* Building starts from the graph itself, with nothing merged.
LEMMA BuildKeepsIInv ==
    ASSUME IInv, Build
    PROVE  IInv'
<1> DEFINE nodes == Nodes(func)
           g == Interference(nodes, code, liveAfter)
<1>1. /\ adj' = g /\ root' = [x \in nodes |-> x]
      /\ phase' \in {"coalesce", "simplify"}
      /\ UNCHANGED <<func, code, liveAfter>>
  BY DEF Build
<1>2. Hard \subseteq nodes
  BY DEF Nodes
<1>3. WellFormed(g)
  BY <1>2, InterferenceIsWellFormed
<1>4. DOMAIN g = nodes
  BY DEF Interference
<1>5. Built' = g
  BY <1>1 DEF Built, nodes
<1>6. Nodes(func)' = nodes
  BY <1>1
<1> HIDE DEF g, nodes
<1>7. GraphIsWellFormed'
  BY <1>1, <1>3 DEF GraphIsWellFormed, WellFormed
<1>8. \A x, y \in nodes : y \in g[x] => x # y
  BY <1>3, <1>4 DEF WellFormed
<1>9. MergeInv'
  BY <1>1, <1>4, <1>5, <1>6, <1>8 DEF MergeInv, EdgesAreKept
<1>10. GraphIsComplete' /\ DomainInv' /\ ProperlyColored'
  BY <1>1, <1>4, <1>5, <1>6 DEF GraphIsComplete, DomainInv, ProperlyColored
<1> QED
  BY <1>7, <1>9, <1>10 DEF IInv

(* A move that is looked at is merged or left.                             *)
LEMMA CoalesceKeepsIInv ==
    ASSUME IInv, Coalesce
    PROVE  IInv'
<1> DEFINE src == Find(root, code[Head(todo)].a)
           dst == Find(root, code[Head(todo)].b)
           into == IF dst \notin Hard /\ src \in Hard THEN src ELSE dst
           from == IF into = dst THEN src ELSE dst
<1>1. /\ phase = "coalesce" /\ phase' = phase
      /\ UNCHANGED <<func, code, liveAfter>>
  BY DEF Coalesce
<1>2. Built' = Built /\ Nodes(func)' = Nodes(func)
  BY <1>1 DEF Built
<1>3. WellFormed(adj) /\ EdgesAreKept(adj, Built, root, Nodes(func))
      /\ DOMAIN adj \subseteq Nodes(func)
  BY <1>1, GraphAsFact DEF IInv, MergeInv, DomainInv
<1>4. CASE CanCoalesce(adj, src, dst)
  <2>1. adj' = Merge(adj, from, into) /\ root' = Union(root, from, into)
    BY <1>4 DEF Coalesce
  <2> HIDE DEF src, dst
  <2>2. /\ from \in DOMAIN adj /\ into \in DOMAIN adj
        /\ from # into /\ from \notin Hard /\ into \notin adj[from]
    BY <1>3, <1>4, CoalescedPair
  <2> HIDE DEF from, into
  <2>3. WellFormed(adj')
    BY <1>3, <2>1, <2>2, MergeKeepsWellFormed
  <2>4. EdgesAreKept(adj', Built, root', Nodes(func))
    BY <1>3, <2>1, <2>2, MergeKeepsEdges
  <2>5. DOMAIN adj' \subseteq Nodes(func)
    BY <1>3, <2>1 DEF Merge
  <2> QED
    BY <1>1, <1>2, <2>3, <2>4, <2>5
    DEF IInv, GraphIsWellFormed, WellFormed, MergeInv, GraphIsComplete, DomainInv, ProperlyColored
<1>5. CASE ~CanCoalesce(adj, src, dst)
  <2>1. UNCHANGED <<adj, root>>
    BY <1>5 DEF Coalesce
  <2> QED
    BY <1>1, <1>2, <2>1
    DEF IInv, GraphIsWellFormed, MergeInv, GraphIsComplete, DomainInv, ProperlyColored
<1> QED
  BY <1>4, <1>5

\* Without a merge the graph is the one that was built.
LEMMA EndRoundKeepsIInv ==
    ASSUME IInv, EndRound
    PROVE  IInv'
<1>1. phase = "coalesce" /\ UNCHANGED <<func, adj, root, color>>
  BY DEF EndRound
<1>2. CASE \E x \in DOMAIN root : root[x] # x
  <2>1. phase' = "liveness"
    BY <1>2 DEF EndRound
  <2> QED
    BY <1>1, <2>1 DEF IInv, GraphIsWellFormed, MergeInv, GraphIsComplete, DomainInv, ProperlyColored
<1>3. CASE ~\E x \in DOMAIN root : root[x] # x
  <2>1. phase' = "simplify" /\ UNCHANGED <<code, liveAfter>>
    BY <1>3 DEF EndRound
  <2>2. Built' = Built /\ Nodes(func)' = Nodes(func)
    BY <1>1, <2>1 DEF Built
  <2>3. EdgesAreKept(adj, Built, root, Nodes(func))
    BY <1>1 DEF IInv, MergeInv
  <2>4. /\ Nodes(func) \subseteq DOMAIN adj
        /\ \A x, y \in Nodes(func) : y \in Built[x] => y \in adj[x]
    BY <1>3, <2>3 DEF EdgesAreKept
  <2>5. GraphIsComplete'
    BY <1>1, <2>2, <2>4 DEF GraphIsComplete
  <2> QED
    BY <1>1, <2>1, <2>5 DEF IInv, GraphIsWellFormed, MergeInv, DomainInv, ProperlyColored
<1> QED
  BY <1>2, <1>3

(* Simplification colours the registers and nothing else.                  *)
LEMMA SimplifiedKeepsIInv ==
    ASSUME IInv, Simplified
    PROVE  IInv'
<1>1. /\ phase = "simplify" /\ phase' = "select"
      /\ UNCHANGED <<func, code, liveAfter, adj>>
  BY DEF Simplified
<1>2. color' = [x \in DOMAIN adj |->
                  IF x \in Hard THEN CHOOSE n \in DOMAIN ColorOrder : R(ColorOrder[n]) = x
                  ELSE 0]
  BY DEF Simplified
<1>3. \A x \in DOMAIN adj \cap Hard : color'[x] \in DOMAIN ColorOrder /\ R(ColorOrder[color'[x]]) = x
  BY <1>2 DEF Hard
<1>4. \A x \in DOMAIN adj \ Hard : color'[x] = 0
  BY <1>2
<1>5. 0 \notin DOMAIN ColorOrder
  BY AsmAssumption
<1>6. ASSUME NEW x \in DOMAIN adj, NEW y \in adj[x], color'[x] # 0
      PROVE  color'[x] # color'[y]
  <2>1. y \in DOMAIN adj /\ y # x
    BY DEF IInv, GraphIsWellFormed
  <2>2. x \in Hard
    BY <1>4, <1>6
  <2> QED
    BY <1>3, <1>4, <1>5, <2>1, <2>2
<1>7. DOMAIN color' = DOMAIN adj
  BY <1>2
<1>8. ProperlyColored'
  BY <1>1, <1>6, <1>7 DEF ProperlyColored, IInv, DomainInv
<1>9. Built' = Built
  BY <1>1 DEF Built
<1> QED
  BY <1>1, <1>8, <1>9 DEF IInv, GraphIsWellFormed, MergeInv, GraphIsComplete, DomainInv

\* A node gets a colour none of its neighbours has now.
LEMMA SelectKeepsIInv ==
    ASSUME IInv, Select
    PROVE  IInv'
<1> DEFINE x == Head(stack)
           free == FreeColors(x)
<1>1. /\ phase = "select" /\ phase' = "select"
      /\ UNCHANGED <<func, code, liveAfter, adj>>
  BY DEF Select
<1>2. color' = [color EXCEPT ![x] =
                  IF free = {} THEN 0 ELSE CHOOSE c \in free : \A d \in free : c <= d]
  BY DEF Select
<1>3. /\ DOMAIN color = DOMAIN adj /\ DOMAIN adj \subseteq Nodes(func)
      /\ \A y \in DOMAIN adj : \A z \in adj[y] : color[y] # 0 => color[y] # color[z]
  BY <1>1 DEF IInv, ProperlyColored
<1>4. free \subseteq Nat
  <2>1. K \in Nat
    BY AsmAssumption DEF K
  <2> QED
    BY <2>1 DEF FreeColors
<1>5. free # {} => (CHOOSE c \in free : \A d \in free : c <= d) \in free
  BY <1>4, SmallestColor
<1>6. free = (1 .. K) \ {color[y] : y \in adj[x]}
  BY DEF FreeColors
<1> HIDE DEF x, free
<1>7. x \in DOMAIN adj /\ color'[x] # 0 => \A y \in adj[x] : color'[x] # color[y]
  BY <1>2, <1>3, <1>5, <1>6
<1>8. ASSUME NEW y \in DOMAIN adj, NEW z \in adj[y], color'[y] # 0
      PROVE  color'[y] # color'[z]
  <2>1. z \in DOMAIN adj /\ z # y /\ y \in adj[z]
    BY DEF IInv, GraphIsWellFormed
  <2>2. \A u \in DOMAIN adj \ {x} : color'[u] = color[u]
    BY <1>2, <1>3
  <2>3. CASE y = x
    BY <1>7, <1>8, <2>1, <2>2, <2>3
  <2>4. CASE z = x
    BY <1>7, <1>8, <2>1, <2>2, <2>4
  <2>5. CASE y # x /\ z # x
    BY <1>3, <1>8, <2>1, <2>2, <2>5
  <2> QED
    BY <2>3, <2>4, <2>5
<1>9. DOMAIN color' = DOMAIN adj
  BY <1>2, <1>3
<1>10. ProperlyColored'
  BY <1>1, <1>3, <1>8, <1>9 DEF ProperlyColored
<1>11. Built' = Built
  BY <1>1 DEF Built
<1> QED
  BY <1>1, <1>10, <1>11 DEF IInv, GraphIsWellFormed, MergeInv, GraphIsComplete, DomainInv

(* Every step keeps the invariant.                                         *)
LEMMA IInvStep == IInv /\ [Next]_vars => IInv'
<1> SUFFICES ASSUME IInv, [Next]_vars PROVE IInv'
  OBVIOUS
<1>1. ASSUME phase' = phase,
             UNCHANGED <<func, code, liveAfter, adj, root, color>>
      PROVE  IInv'
  <2>1. Built' = Built
    BY <1>1 DEF Built
  <2> QED
    BY <1>1, <2>1
    DEF IInv, GraphIsWellFormed, MergeInv, GraphIsComplete, DomainInv, ProperlyColored
<1>2. ASSUME phase' \notin {"coalesce", "simplify", "select"}, UNCHANGED adj
      PROVE  IInv'
  BY <1>2 DEF IInv, GraphIsWellFormed, MergeInv, GraphIsComplete, DomainInv, ProperlyColored
<1>3. CASE Visit
  BY <1>1, <1>3 DEF Visit
<1>4. CASE Settle
  BY <1>2, <1>4 DEF Settle
<1>5. CASE Build
  BY <1>5, BuildKeepsIInv
<1>6. CASE Coalesce
  BY <1>6, CoalesceKeepsIInv
<1>7. CASE EndRound
  BY <1>7, EndRoundKeepsIInv
<1>8. CASE Simplify
  BY <1>1, <1>8 DEF Simplify
<1>9. CASE Simplified
  BY <1>9, SimplifiedKeepsIInv
<1>10. CASE Select
  BY <1>10, SelectKeepsIInv
<1>11. CASE Apply
  BY <1>2, <1>11 DEF Apply
<1>12. CASE Start
  BY <1>2, <1>12 DEF Start
<1>13. CASE SourceStep \/ OutStep \/ Answer
  BY <1>1, <1>13 DEF SourceStep, OutStep, Answer
<1>14. CASE Done \/ UNCHANGED vars
  BY <1>1, <1>14 DEF Done, vars
<1> QED
  BY <1>3, <1>4, <1>5, <1>6, <1>7, <1>8, <1>9, <1>10, <1>11, <1>12, <1>13, <1>14
  DEF Next, Allocate, Run

(* It holds in every state.                                                *)
LEMMA IInvAlways == Spec => []IInv
BY IInvInit, IInvStep, PTL DEF Spec
----------------------------------------------------------------------------
(* What it gives.                                                          *)

\* coalesce_pass: whatever is merged, in whatever order, the graph keeps two
\* ends to each edge, no node is its own neighbour, and the registers
\* interfere with one another.
THEOREM CoalescingKeepsTheGraph == Spec => []GraphIsWellFormed
<1>1. IInv => GraphIsWellFormed
  BY DEF IInv
<1> QED
  BY <1>1, IInvAlways, PTL

\* coalesce_pass: two nodes of the graph that was built are never merged when
\* they interfere.
THEOREM CoalescingIsSafe == Spec => []MergesAreSafe
<1>1. IInv => MergesAreSafe
  BY DEF IInv, MergeInv, EdgesAreKept, MergesAreSafe
<1> QED
  BY <1>1, IInvAlways, PTL

\* color_graph: an instruction never writes the register of something that is
\* live after it, the source of a move of 64 bits aside.
THEOREM ColoringIsProper == Spec => []RegistersAreNotShared
<1>1. ASSUME IInv, Colored, NEW n \in DOMAIN code,
             NEW u \in Updated(code[n]) \cap DOMAIN color,
             NEW l \in liveAfter[n] \cap DOMAIN color,
             u # l, ~Exempt(code[n], l), color[u] # 0
      PROVE  color[u] # color[l]
  <2>1. Clobbers(code, liveAfter, u, l)
    BY <1>1 DEF Clobbers
  <2>2. u \in Nodes(func) /\ l \in Nodes(func) /\ u \in DOMAIN adj
    BY <1>1 DEF IInv, ProperlyColored, Colored
  <2>3. l \in Built[u]
    BY <1>1, <2>1, <2>2 DEF Built, Interference
  <2>4. l \in adj[u]
    BY <1>1, <2>2, <2>3 DEF IInv, GraphIsComplete, Colored
  <2> QED
    BY <1>1, <2>2, <2>4 DEF IInv, ProperlyColored, Colored
<1>2. IInv => RegistersAreNotShared
  BY <1>1 DEF RegistersAreNotShared
<1> QED
  BY <1>2, IInvAlways, PTL
=============================================================================
