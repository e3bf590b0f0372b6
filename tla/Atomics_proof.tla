---------------------------- MODULE Atomics_proof ----------------------------
(***************************************************************************)
(* The sequences of accesses implement atomic objects, for any threads,    *)
(* objects, operators and sizes, of every operation the two emitters get   *)
(* right: not the new value of an x86-64 instruction that returns none,    *)
(* nor a comparison with a register that holds more than the object.       *)
(***************************************************************************)
EXTENDS Atomics, TLAPS

Kinds == {"load", "store", "fetch", "xchg", "cmpxchg", "cas"}
IsOperation(o) ==
    /\ o.k \in Kinds /\ o.cell \in Cells /\ o.old \in BOOLEAN
    /\ o.arg \in Int /\ \A v \in Int : Combine(o.op, v, o.arg) \in Int
Supported(tgt, o) ==
    /\ tgt = "x86_64" /\ o.k = "fetch" => IsLoop(o)
    /\ tgt = "aarch64" /\ o.k = "cas" => o.want = Cut(o.cell, o.want)
Programs(tgt, prog) ==
    \A t \in Threads :
       /\ Len(prog[t]) \in Nat
       /\ \A i \in 1 .. Len(prog[t]) : IsOperation(prog[t][i]) /\ Supported(tgt, prog[t][i])

AllSupported ==
    \A c \in Cases :
       /\ c.target \in {"x86_64", "aarch64"} /\ c.mem \in [Cells -> Int]
       /\ Programs(c.target, c.program)

Results == [ok : BOOLEAN, value : Int]
Places == {"idle", "load", "store", "read", "cmpxchg", "xchg", "ldx", "stx", "deliver"}
Typed ==
    /\ target \in {"x86_64", "aarch64"} /\ Programs(target, program)
    /\ mem \in [Cells -> Int]
    /\ pc \in [Threads -> Places]
    /\ old \in [Threads -> Int] /\ new \in [Threads -> Int]
    /\ monitor \subseteq Threads
    /\ done \in [Threads -> Seq(Results)]

\* The access a thread is at is one of its operation.
Belongs(p, o) ==
    /\ p \in {"load", "store", "xchg"} => o.k = p
    /\ p = "read" => target = "x86_64" /\ o.k = "fetch"
    /\ p = "cmpxchg" => target = "x86_64" /\ o.k \in {"fetch", "cmpxchg", "cas"}
    /\ p \in {"ldx", "stx"} => target = "aarch64" /\ o.k \in {"fetch", "xchg", "cmpxchg", "cas"}
\* What a thread will store was computed from what it found.
Ready(t) ==
    /\ pc[t] # "idle" => Len(done[t]) < Len(program[t]) /\ Belongs(pc[t], Op(t))
    /\ pc[t] = "cmpxchg" /\ Op(t).k = "fetch" => new[t] = NewValue(Op(t), old[t])
    /\ pc[t] = "stx" => new[t] = NewValue(Op(t), old[t]) /\ ~Differs(t, old[t])
\* A good exclusive access found what the object still holds.
Monitored == \A t \in monitor : pc[t] = "stx" /\ old[t] = mem[Cell(t)]
IInv == Typed /\ Monitored /\ \A t \in Threads : Ready(t)
----------------------------------------------------------------------------
\* The operation of a thread that has one left.
LEMMA CurrentOperation ==
    ASSUME Typed, NEW t \in Threads, Len(done[t]) < Len(program[t])
    PROVE  IsOperation(Op(t)) /\ Supported(target, Op(t))
<1>1. Len(done[t]) \in Nat /\ Len(program[t]) \in Nat BY DEF Typed, Programs
<1>2. Len(done[t]) + 1 \in 1 .. Len(program[t]) BY <1>1
<1> QED BY <1>2 DEF Typed, Programs, Op

(* A value cut to the width of a cell is an integer.                       *)
LEMMA CutIsInt == ASSUME NEW c \in Cells, NEW v \in Int PROVE Cut(c, v) \in Int
BY SizeAssumption DEF Cut

(* What an operation computes from an integer is one.                      *)
LEMMA NewValueIsInt ==
    ASSUME NEW o, IsOperation(o), NEW v \in Int PROVE NewValue(o, v) \in Int
BY DEF NewValue, IsOperation

(* The result an operation delivers is a result.                           *)
LEMMA ResultType ==
    ASSUME Typed, NEW t \in Threads, IsOperation(Op(t)) PROVE Result(t) \in Results
<1>1. old[t] \in Int /\ new[t] \in Int BY DEF Typed
<1>2. Cut(Op(t).cell, new[t]) \in Int BY <1>1, CutIsInt DEF IsOperation
<1>3. Equal(t) \in BOOLEAN BY DEF Equal
<1> QED BY <1>1, <1>2, <1>3 DEF Result, Results, IsOperation, Kinds

\* A step leaves the other threads where they are.
Apart(t) ==
    /\ target' = target /\ program' = program
    /\ \E p \in Places : pc' = [pc EXCEPT ![t] = p]
    /\ \A u \in Threads \ {t} : old'[u] = old[u] /\ new'[u] = new[u] /\ done'[u] = done[u]

(* A step keeps the types and touches the state of its own thread only.    *)
LEMMA StepIsApart ==
    ASSUME IInv, NEW t \in Threads, Step(t) PROVE Typed' /\ Apart(t)
<1> USE DEF IInv
<1>1. Typed /\ Ready(t) /\ pc[t] \in Places
  BY DEF Typed
<1>2. pc[t] # "idle" => IsOperation(Op(t)) /\ Supported(target, Op(t))
  BY <1>1, CurrentOperation DEF Ready
<1>3. pc[t] # "idle" => /\ mem[Cell(t)] \in Int
                        /\ NewValue(Op(t), mem[Cell(t)]) \in Int
                        /\ \A v \in Int : Cut(Cell(t), v) \in Int
  BY <1>1, <1>2, NewValueIsInt, CutIsInt DEF Typed, IsOperation, Cell
<1>4. \A v \in Int : pc[t] # "idle" => [mem EXCEPT ![Cell(t)] = Cut(Cell(t), v)] \in [Cells -> Int]
  BY <1>1, <1>3 DEF Typed
<1>5. {u \in monitor \ {t} : Cell(u) # Cell(t)} \subseteq Threads
  BY <1>1 DEF Typed
<1>6. pc[t] # "idle" => Op(t).arg \in Int
  BY <1>2 DEF IsOperation
<1> USE <1>1, <1>3, <1>4, <1>5, <1>6 DEF Goto, Keep, registers, Typed, Apart, Places, Find, Prepare
<1>7. CASE Begin(t)
  <2>1. IsOperation(Op(t)) /\ Supported(target, Op(t))
    BY <1>7, CurrentOperation DEF Begin
  <2>2. /\ target = "x86_64" => FirstX86(Op(t)) \in Places
        /\ FirstAArch64(Op(t)) \in Places
    BY <2>1 DEF FirstX86, FirstAArch64, IsOperation, Kinds, Supported, Compares
  <2> QED
    BY <1>7, <2>2 DEF Begin
<1>8. CASE Load(t) BY <1>8 DEF Load
<1>9. CASE Store(t) BY <1>9 DEF Store, Put
<1>10. CASE Read(t) BY <1>10 DEF Read
<1>11. CASE CompareSucceeds(t) BY <1>11 DEF CompareSucceeds, Put
<1>12. CASE CompareFails(t) BY <1>12 DEF CompareFails
<1>13. CASE Exchange(t) BY <1>13 DEF Exchange, Put
<1>14. CASE Locked(t) BY <1>14 DEF Locked
<1>15. CASE Reload(t) BY <1>15 DEF Reload
<1>16. CASE LoadExclusive(t) BY <1>16 DEF LoadExclusive
<1>17. CASE StoreExclusive(t) BY <1>17 DEF StoreExclusive, Put
<1>18. CASE StoreFails(t) BY <1>18 DEF StoreFails
<1>19. CASE Deliver(t)
  <2>1. Result(t) \in Results
    BY <1>2, <1>19, ResultType DEF Deliver
  <2>2. done' \in [Threads -> Seq(Results)]
    BY <1>19, <2>1 DEF Deliver
  <2> QED
    BY <1>19, <2>2 DEF Deliver
<1> QED
  BY <1>7, <1>8, <1>9, <1>10, <1>11, <1>12, <1>13, <1>14, <1>15, <1>16, <1>17, <1>18, <1>19
  DEF Step

\* Nothing is computed for a thread that another one can change.
LEMMA OthersKeep ==
    ASSUME IInv, NEW t \in Threads, Step(t), NEW u \in Threads, u # t
    PROVE  /\ pc'[u] = pc[u] /\ Op(u)' = Op(u) /\ Cell(u)' = Cell(u) /\ old'[u] = old[u]
           /\ Ready(u)' /\ Outcome'[u] = Outcome[u]
<1>1. Typed /\ Apart(t) /\ Ready(u)
  BY StepIsApart DEF IInv
<1>2. pc'[u] = pc[u] /\ old'[u] = old[u] /\ new'[u] = new[u] /\ done'[u] = done[u]
  BY <1>1 DEF Apart, Typed
<1>3. target' = target /\ program' = program
  BY <1>1 DEF Apart
<1>4. Op(u)' = Op(u) /\ Cell(u)' = Cell(u)
  BY <1>2, <1>3 DEF Op, Cell
<1>5. Ready(u)'
  BY <1>1, <1>2, <1>3, <1>4 DEF Ready, Belongs, Differs, Wanted
<1>6. Result(u)' = Result(u)
  BY <1>2, <1>3, <1>4 DEF Result, Equal, Wanted
<1>7. pc[u] # "reload"
  BY <1>1 DEF Typed, Places
<1>8. Outcome'[u] = Outcome[u]
  BY <1>2, <1>6, <1>7 DEF Outcome
<1> QED
  BY <1>2, <1>4, <1>5, <1>8

\* The thread that stepped is where its operation goes on.
LEMMA OwnKeeps ==
    ASSUME IInv, NEW t \in Threads, Step(t)
    PROVE  Ready(t)'
<1>1. Typed /\ Apart(t) /\ Typed' /\ Ready(t) /\ pc[t] \in Places
  BY StepIsApart DEF IInv, Typed
<1>2. target' = target /\ program' = program
  BY <1>1 DEF Apart
<1>3. ASSUME done' = done PROVE Op(t)' = Op(t) /\ Cell(t)' = Cell(t)
  BY <1>2, <1>3 DEF Op, Cell
<1>4. pc[t] # "idle" => IsOperation(Op(t)) /\ Supported(target, Op(t))
  BY <1>1, CurrentOperation DEF Ready
<1> USE <1>1, <1>2, <1>3 DEF Goto, Keep, registers, Ready, Typed, Belongs, Find, Prepare, Differs, Wanted
<1>7. CASE Begin(t)
  <2>1. IsOperation(Op(t)) /\ Supported(target, Op(t))
    BY <1>7, CurrentOperation DEF Begin
  <2>2. pc'[t] = IF target = "x86_64" THEN FirstX86(Op(t)) ELSE FirstAArch64(Op(t))
    BY <1>7 DEF Begin
  <2>3. CASE target = "x86_64"
    <3>1. Belongs(pc'[t], Op(t)) /\ (pc'[t] = "cmpxchg" => Op(t).k # "fetch") /\ pc'[t] # "stx"
      BY <2>1, <2>2, <2>3 DEF FirstX86, IsOperation, Kinds, Supported, Compares
    <3> QED
      BY <1>7, <3>1 DEF Begin
  <2>4. CASE target = "aarch64"
    <3>1. Belongs(pc'[t], Op(t)) /\ pc'[t] \notin {"stx", "cmpxchg"}
      BY <2>1, <2>2, <2>4 DEF FirstAArch64, IsOperation, Kinds
    <3> QED
      BY <1>7, <3>1 DEF Begin
  <2> QED
    BY <2>3, <2>4
<1>8. CASE Load(t) BY <1>8 DEF Load
<1>9. CASE Store(t) BY <1>9 DEF Store
<1>10. CASE Read(t) BY <1>10 DEF Read, NewValue
<1>11. CASE CompareSucceeds(t) BY <1>11 DEF CompareSucceeds
<1>12. CASE CompareFails(t) BY <1>12 DEF CompareFails, NewValue
<1>13. CASE Exchange(t) BY <1>13 DEF Exchange
<1>16. CASE LoadExclusive(t) BY <1>16 DEF LoadExclusive, NewValue
<1>17. CASE StoreExclusive(t) BY <1>17 DEF StoreExclusive
<1>18. CASE StoreFails(t) BY <1>18 DEF StoreFails
<1>19. CASE Deliver(t) BY <1>19 DEF Deliver
<1> QED
  BY <1>7, <1>8, <1>9, <1>10, <1>11, <1>12, <1>13, <1>16, <1>17, <1>18, <1>19
  DEF Step, Places, Locked, Reload

\* A write takes away every access it makes stale.
LEMMA MonitorsKeep ==
    ASSUME IInv, NEW t \in Threads, Step(t)
    PROVE  Monitored'
<1>1. Typed /\ Monitored /\ Typed' /\ Ready(t)
  BY StepIsApart DEF IInv
<1>2. SUFFICES ASSUME NEW u \in monitor' PROVE (pc[u] = "stx" /\ old[u] = mem[Cell(u)])'
  BY DEF Monitored
<1>3. u \in Threads
  BY <1>1, <1>2 DEF Typed
<1>4. CASE u = t
  <2>1. LoadExclusive(t) \/ t \in monitor
    BY <1>2, <1>4 DEF Step, Begin, Load, Store, Read, CompareSucceeds, CompareFails, Exchange, Locked,
           Reload, StoreExclusive, StoreFails, Deliver, Put, Keep
  <2>2. CASE LoadExclusive(t)
    <3>1. Cell(t)' = Cell(t)
      BY <2>2 DEF LoadExclusive, Cell, Op
    <3> QED
      BY <1>1, <1>2, <1>4, <2>2, <3>1 DEF LoadExclusive, Find, Goto, Typed
  <2>3. CASE t \in monitor
    <3>1. pc[t] = "stx"
      BY <1>1, <2>3 DEF Monitored
    <3>2. StoreExclusive(t) \/ StoreFails(t)
      BY <3>1 DEF Step, Begin, Load, Store, Read, CompareSucceeds, CompareFails, Exchange, Locked,
             Reload, LoadExclusive, Deliver
    <3> QED
      BY <1>2, <1>4, <3>2 DEF StoreExclusive, StoreFails, Put
  <2> QED
    BY <2>1, <2>2, <2>3
<1>5. CASE u # t
  <2>1. pc'[u] = pc[u] /\ Cell(u)' = Cell(u) /\ old'[u] = old[u]
    BY <1>3, <1>5, OthersKeep
  <2>2. u \in monitor /\ (mem' = mem \/ (Cell(u) # Cell(t) /\ \E v : mem' = [mem EXCEPT ![Cell(t)] = v]))
    BY <1>2, <1>5 DEF Step, Begin, Load, Store, Read, CompareSucceeds, CompareFails, Exchange, Locked,
           Reload, LoadExclusive, StoreExclusive, StoreFails, Deliver, Put, Keep
  <2>3. pc[u] = "stx" /\ old[u] = mem[Cell(u)]
    BY <1>1, <2>2 DEF Monitored
  <2>4. mem'[Cell(u)] = mem[Cell(u)]
    <3>1. Ready(u)
      BY <1>3 DEF IInv
    <3>2. Cell(u) \in Cells
      BY <1>1, <1>3, <2>3, <3>1, CurrentOperation DEF Ready, IsOperation, Cell
    <3> QED
      BY <1>1, <2>2, <3>2 DEF Typed
  <2> QED
    BY <2>1, <2>3, <2>4
<1> QED
  BY <1>4, <1>5

(* The invariant is inductive: the stepping thread keeps its own part of it*)
(* and the monitors, and every other thread keeps its part.                *)
LEMMA StepKeepsIInv ==
    ASSUME IInv, NEW t \in Threads, Step(t) PROVE IInv'
<1>1. Typed' /\ Monitored' /\ Ready(t)'
  BY StepIsApart, MonitorsKeep, OwnKeeps
<1>2. \A u \in Threads : u # t => Ready(u)'
  BY OthersKeep
<1> QED
  BY <1>1, <1>2 DEF IInv

(* It holds at the start, when every operation is one the target supports. *)
LEMMA InitIsIInv == AllSupported /\ Init => IInv
<1> SUFFICES ASSUME AllSupported, Init PROVE IInv
  OBVIOUS
<1>1. PICK c \in Cases : target = c.target /\ program = c.program /\ mem = c.mem
  BY DEF Init
<1>2. Typed
  <2>1. \A t \in Threads : <<>> \in Seq(Results)
    OBVIOUS
  <2>2. target \in {"x86_64", "aarch64"} /\ Programs(target, program) /\ mem \in [Cells -> Int]
    BY <1>1 DEF AllSupported
  <2> QED
    BY <2>1, <2>2 DEF Init, Typed, Places
<1>3. Monitored /\ \A t \in Threads : Ready(t)
  BY DEF Init, Monitored, Ready
<1> QED
  BY <1>2, <1>3 DEF IInv
----------------------------------------------------------------------------
(* The refinement.                                                         *)

\* The effect of the operation of a thread.
TakesEffect(t) ==
    /\ pc[t] \notin {"idle", "deliver"} /\ pc'[t] = "deliver" /\ done' = done
    /\ mem' = [mem EXCEPT ![Cell(t)] = Object!Stored(Op(t), mem[Cell(t)])]
    /\ Result(t)' = Object!Returned(Op(t), mem[Cell(t)])

(* A step changes the outcome of no other thread.                          *)
LEMMA OutcomeFrame ==
    ASSUME IInv, NEW t \in Threads, Step(t), NEW r, Outcome'[t] = r
    PROVE  Outcome' = [Outcome EXCEPT ![t] = r]
<1>1. \A u \in Threads : u # t => Outcome'[u] = Outcome[u]
  BY OthersKeep
<1>2. DOMAIN Outcome = Threads /\ DOMAIN Outcome' = Threads
  BY DEF Outcome
<1>3. Outcome = [u \in Threads |-> Outcome[u]] /\ Outcome' = [u \in Threads |-> Outcome'[u]]
  BY DEF Outcome
<1> QED
  BY <1>1, <1>2, <1>3

(* A step that takes effect is an operation of the atomic object.          *)
LEMMA EffectIsOperate ==
    ASSUME IInv, NEW t \in Threads, Step(t), TakesEffect(t)
    PROVE  Object!Operate(t)
<1>1. Typed /\ Apart(t) /\ Ready(t)
  BY StepIsApart DEF IInv
<1>2. Outcome[t] = done[t]
  BY <1>1 DEF Outcome, TakesEffect, Typed, Places
<1>3. Len(Outcome[t]) < Len(program[t]) /\ Op(t) = program[t][Len(Outcome[t]) + 1]
  BY <1>1, <1>2 DEF Ready, TakesEffect, Op
<1>4. Outcome'[t] = Append(done[t], Object!Returned(Op(t), mem[Cell(t)]))
  BY DEF Outcome, TakesEffect
<1>5. Outcome' = [Outcome EXCEPT ![t] = Append(Outcome[t], Object!Returned(Op(t), mem[Cell(t)]))]
  BY <1>2, <1>4, OutcomeFrame
<1> QED
  BY <1>1, <1>3, <1>5 DEF Object!Operate, Apart, TakesEffect, Cell

(* Every other step of a thread leaves the atomic object as it is.         *)
LEMMA StepRefines ==
    ASSUME IInv, NEW t \in Threads, Step(t)
    PROVE  Object!Operate(t) \/ UNCHANGED <<program, mem, Outcome>>
<1>1. Typed /\ Apart(t) /\ Ready(t) /\ Monitored /\ pc[t] \in Places
  BY StepIsApart DEF IInv, Typed
<1>2. target' = target /\ program' = program
  BY <1>1 DEF Apart
<1>3. ASSUME done' = done PROVE Op(t)' = Op(t) /\ Cell(t)' = Cell(t)
  BY <1>2, <1>3 DEF Op, Cell
<1>4. pc[t] # "idle" => IsOperation(Op(t)) /\ Supported(target, Op(t))
  BY <1>1, CurrentOperation DEF Ready
<1>5. ASSUME mem' = mem, done' = done, pc[t] # "deliver", pc'[t] # "deliver"
      PROVE  UNCHANGED <<program, mem, Outcome>>
  <2>1. pc'[t] # "reload" /\ pc[t] # "reload"
    BY StepIsApart, <1>1 DEF Typed, Places
  <2>2. Outcome[t] = done[t] /\ Outcome'[t] = done[t]
    BY <1>5, <2>1 DEF Outcome
  <2>3. Outcome' = [Outcome EXCEPT ![t] = Outcome[t]]
    BY <2>2, OutcomeFrame
  <2>4. Outcome' = Outcome
    BY <2>3 DEF Outcome
  <2> QED
    BY <1>2, <1>5, <2>4
<1>6. mem = [mem EXCEPT ![Cell(t)] = mem[Cell(t)]]
  BY <1>1 DEF Typed
<1>7. ASSUME TakesEffect(t) PROVE Object!Operate(t)
  BY <1>7, EffectIsOperate
<1> USE <1>1, <1>2, <1>3, <1>6 DEF Goto, Keep, registers, Find, Typed, Result, Object!Stored, Object!Returned
<1>8. CASE Begin(t)
  <2>1. IsOperation(Op(t)) /\ pc'[t] # "deliver"
    BY <1>8, CurrentOperation DEF Begin, FirstX86, FirstAArch64, IsOperation, Kinds, Compares
  <2> QED
    BY <1>5, <1>8, <2>1 DEF Begin
<1>9. CASE Load(t)
  <2>1. Op(t).k = "load"
    BY <1>9 DEF Load, Ready, Belongs
  <2> QED
    BY <1>7, <1>9, <2>1 DEF Load, TakesEffect
<1>10. CASE Store(t)
  <2>1. Op(t).k = "store"
    BY <1>10 DEF Store, Ready, Belongs
  <2> QED
    BY <1>7, <1>10, <2>1 DEF Store, Put, TakesEffect, Cell, Cut, Object!Cut
<1>11. CASE Read(t) BY <1>5, <1>11 DEF Read
<1>12. CASE CompareSucceeds(t)
  <2>1. Op(t).k \in {"fetch", "cmpxchg", "cas"} /\ target = "x86_64" /\ Op(t).old \in BOOLEAN
    BY <1>4, <1>12 DEF CompareSucceeds, Ready, Belongs, IsOperation
  <2>2. CASE Op(t).k = "fetch"
    <3>1. new[t] = NewValue(Op(t), mem[Cell(t)])
      BY <1>12, <2>2 DEF CompareSucceeds, Compared, Ready
    <3> QED
      BY <1>7, <1>12, <2>2, <3>1
      DEF CompareSucceeds, Put, TakesEffect, NewValue, Cell, Cut, Object!Cut
  <2>3. CASE Op(t).k # "fetch"
    BY <1>7, <1>12, <2>1, <2>3
    DEF CompareSucceeds, Compared, Equal, Put, TakesEffect, Cell, Cut, Object!Cut
  <2> QED
    BY <2>2, <2>3
<1>13. CASE CompareFails(t)
  <2>1. Op(t).k \in {"fetch", "cmpxchg", "cas"} /\ target = "x86_64" /\ Op(t).old \in BOOLEAN
    BY <1>4, <1>13 DEF CompareFails, Ready, Belongs, IsOperation
  <2>2. CASE Op(t).k = "fetch"
    BY <1>5, <1>13, <2>2 DEF CompareFails
  <2>3. CASE Op(t).k # "fetch"
    BY <1>7, <1>13, <2>1, <2>3
    DEF CompareFails, Compared, Equal, TakesEffect, Cell, Cut, Object!Cut
  <2> QED
    BY <2>2, <2>3
<1>14. CASE Exchange(t)
  <2>1. Op(t).k = "xchg"
    BY <1>14 DEF Exchange, Ready, Belongs
  <2> QED
    BY <1>7, <1>14, <2>1 DEF Exchange, Put, TakesEffect, Cell, Cut, Object!Cut
<1>15. CASE LoadExclusive(t)
  <2>1. Op(t).k \in {"fetch", "xchg", "cmpxchg", "cas"} /\ target = "aarch64" /\ Op(t).old \in BOOLEAN
    BY <1>4, <1>15 DEF LoadExclusive, Ready, Belongs, IsOperation
  <2>2. Compares(Op(t)) => Wanted(t) = Cut(Cell(t), Op(t).want)
    BY <1>4, <1>15, <2>1 DEF LoadExclusive, Wanted, Supported, Compares, Cell
  <2>3. CASE Differs(t, mem[Cell(t)])
    BY <1>7, <1>15, <2>1, <2>2, <2>3
    DEF LoadExclusive, Differs, Compares, Equal, Wanted, TakesEffect, Cell, Cut, Object!Cut
  <2>4. CASE ~Differs(t, mem[Cell(t)])
    BY <1>5, <1>15, <2>4 DEF LoadExclusive
  <2> QED
    BY <2>3, <2>4
<1>16. CASE StoreExclusive(t)
  <2>1. Op(t).k \in {"fetch", "xchg", "cmpxchg", "cas"} /\ target = "aarch64" /\ Op(t).old \in BOOLEAN
    BY <1>4, <1>16 DEF StoreExclusive, Ready, Belongs, IsOperation
  <2>2. Compares(Op(t)) => Wanted(t) = Cut(Cell(t), Op(t).want)
    BY <1>4, <1>16, <2>1 DEF StoreExclusive, Wanted, Supported, Compares, Cell
  <2>3. old[t] = mem[Cell(t)] /\ new[t] = NewValue(Op(t), mem[Cell(t)]) /\ ~Differs(t, mem[Cell(t)])
    BY <1>16 DEF StoreExclusive, Monitored, Ready
  <2>4. old'[t] = old[t] /\ new'[t] = new[t] /\ done' = done /\ pc'[t] = "deliver"
    BY <1>16 DEF StoreExclusive
  <2>5. mem' = [mem EXCEPT ![Cell(t)] = Cut(Cell(t), new[t])]
    BY <1>16 DEF StoreExclusive, Put
  <2>6. CASE Compares(Op(t))
    BY <1>7, <1>16, <2>1, <2>2, <2>3, <2>4, <2>5, <2>6
    DEF StoreExclusive, Differs, Compares, Equal, Wanted, NewValue, TakesEffect, Cell, Cut, Object!Cut
  <2>7. CASE ~Compares(Op(t))
    BY <1>7, <1>16, <2>1, <2>3, <2>4, <2>5, <2>7
    DEF StoreExclusive, Compares, NewValue, TakesEffect, Cell, Cut, Object!Cut
  <2> QED
    BY <2>6, <2>7
<1>17. CASE StoreFails(t) BY <1>5, <1>17 DEF StoreFails
<1>18. CASE Deliver(t)
  <2>1. Outcome[t] = Append(done[t], Result(t)) /\ Outcome'[t] = Append(done[t], Result(t))
    BY <1>18 DEF Outcome, Deliver
  <2>2. Outcome' = [Outcome EXCEPT ![t] = Outcome[t]]
    BY <2>1, OutcomeFrame
  <2>3. Outcome' = Outcome
    BY <2>2 DEF Outcome
  <2> QED
    BY <1>18, <2>3 DEF Deliver
<1> QED
  BY <1>8, <1>9, <1>10, <1>11, <1>12, <1>13, <1>14, <1>15, <1>16, <1>17, <1>18
  DEF Step, Places, Locked, Reload
----------------------------------------------------------------------------
\* However threads interleave and exclusive stores fail, every operation that
\* the emitters support acts on its object at one moment and returns what that
\* moment gave: the emitted sequences implement atomic objects.
THEOREM ImplementsAtomicObject ==
    ASSUME AllSupported
    PROVE  Spec => OperationsAreAtomic
<1>1. Init => IInv /\ Object!Init
  <2>1. Init => Object!Init
    BY DEF Init, Object!Init, Outcome
  <2> QED
    BY <2>1, InitIsIInv
<1>2. IInv /\ [Next]_vars => IInv'
  <2>1. CASE UNCHANGED vars
    BY <2>1 DEF vars, IInv, Typed, Monitored, Ready, Belongs, Op, Cell, Differs, Wanted
  <2> QED
    BY <2>1, StepKeepsIInv DEF Next
<1>3. IInv /\ [Next]_vars => [Object!Next]_<<program, mem, Outcome>>
  <2>1. CASE UNCHANGED vars
    BY <2>1 DEF vars, Outcome, Result, Equal, Wanted, Op, Cell
  <2> QED
    BY <2>1, StepRefines DEF Next, Object!Next
<1> QED
  BY <1>1, <1>2, <1>3, PTL DEF Spec, OperationsAreAtomic, Object!Spec
============================================================================
