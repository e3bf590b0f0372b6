------------------------------- MODULE Atomics -------------------------------
(***************************************************************************)
(* The atomic builtins as the two back ends emit them (emit_atomic_rmw,    *)
(* _exchange, _compare_exchange and _compare_swap), run by several threads *)
(* on shared objects.  x86-64 has locked instructions; AArch64 has pairs   *)
(* of an exclusive load and store, of which the store fails when another   *)
(* thread wrote the object since, or for no reason at all.                 *)
(*                                                                         *)
(* One action is one access to memory with the register instructions that  *)
(* follow it.  Accesses are seen by all threads in one order.              *)
(***************************************************************************)
EXTENDS Integers, Sequences

CONSTANTS
    Threads,
    Cells,
    Size,                 \* how many values an object has
    Word,                 \* how many values a register has
    Combine(_, _, _),     \* add, sub, and, or, xor, nand on registers
    Cases                 \* what is run: [target, program, mem]

ASSUME SizeAssumption ==
    /\ Word \in Nat \ {0} /\ Size \in [Cells -> 1 .. Word]
    /\ \A c \in Cells : Word % Size[c] = 0

VARIABLES
    target,               \* "x86_64" or "aarch64"
    program,              \* the operations of each thread
    mem,                  \* the objects
    pc,                   \* the access each thread makes next
    old,                  \* what its last access found
    new,                  \* what it is about to store
    monitor,              \* the threads whose exclusive access is still good
    done                  \* what its operations returned

vars == <<target, program, mem, pc, old, new, monitor, done>>
registers == <<old, new>>

Cut(c, v) == v % Size[c]
Op(t) == program[t][Len(done[t]) + 1]
Cell(t) == Op(t).cell
----------------------------------------------------------------------------
(* What the code generators emit for an operation: the first access.       *)
Compares(o) == o.k \in {"cmpxchg", "cas"}
\* An x86-64 fetch is a locked instruction unless the old value is asked for
\* or there is no such instruction.
IsLoop(o) == o.old \/ o.op = "nand"

FirstX86(o) ==
    CASE o.k \in {"load", "store", "xchg"} -> o.k
      [] o.k = "fetch" -> IF IsLoop(o) THEN "read" ELSE "lock"
      [] Compares(o) -> "cmpxchg"
FirstAArch64(o) == IF o.k \in {"load", "store"} THEN o.k ELSE "ldx"

\* What an exclusive load is followed by storing.
NewValue(o, v) == IF o.k = "fetch" THEN Combine(o.op, v, o.arg) ELSE o.arg

Init ==
    /\ \E c \in Cases : target = c.target /\ program = c.program /\ mem = c.mem
    /\ pc = [t \in Threads |-> "idle"]
    /\ old = [t \in Threads |-> 0] /\ new = [t \in Threads |-> 0]
    /\ monitor = {}
    /\ done = [t \in Threads |-> <<>>]

Goto(t, p) == pc' = [pc EXCEPT ![t] = p]
\* A write takes every other thread's exclusive access to the object away.
Put(t, v) ==
    /\ mem' = [mem EXCEPT ![Cell(t)] = Cut(Cell(t), v)]
    /\ monitor' = {u \in monitor \ {t} : Cell(u) # Cell(t)}
Keep == UNCHANGED <<mem, monitor>>

\* The operands are moved to their registers, where they stay.
Begin(t) ==
    /\ pc[t] = "idle" /\ Len(done[t]) < Len(program[t])
    /\ Goto(t, IF target = "x86_64" THEN FirstX86(Op(t)) ELSE FirstAArch64(Op(t)))
    /\ Keep /\ UNCHANGED <<target, program, registers, done>>

Find(t) == old' = [old EXCEPT ![t] = mem[Cell(t)]]
Prepare(t) == new' = [new EXCEPT ![t] = NewValue(Op(t), mem[Cell(t)])]

\* Fences come before these two and order them; the access is a plain one.
Load(t) ==
    /\ pc[t] = "load" /\ Goto(t, "deliver")
    /\ Find(t)
    /\ Keep /\ UNCHANGED <<target, program, new, done>>
Store(t) ==
    /\ pc[t] = "store" /\ Goto(t, "deliver")
    /\ Put(t, Op(t).arg)
    /\ UNCHANGED <<target, program, registers, done>>

(* x86-64.                                                                 *)
Read(t) ==
    /\ pc[t] = "read" /\ Goto(t, "cmpxchg")
    /\ Find(t) /\ Prepare(t)
    /\ Keep /\ UNCHANGED <<target, program, done>>

\* lock cmpxchg, of the object's size: for a fetch on what was read, for a
\* comparison on what is asked for.
Compared(t) == IF Op(t).k = "fetch" THEN old[t] ELSE Cut(Cell(t), Op(t).want)
CompareSucceeds(t) ==
    /\ pc[t] = "cmpxchg" /\ mem[Cell(t)] = Compared(t)
    /\ Put(t, IF Op(t).k = "fetch" THEN new[t] ELSE Op(t).arg)
    /\ Find(t)
    /\ Goto(t, "deliver")
    /\ UNCHANGED <<target, program, new, done>>
\* AX becomes what was found; the loop of a fetch computes again from there.
\* (Mutant: the new value is the one computed before.)
CompareFailsAsBefore(t) ==
    /\ pc[t] = "cmpxchg" /\ mem[Cell(t)] # Compared(t)
    /\ Find(t)
    /\ Goto(t, IF Op(t).k = "fetch" THEN "cmpxchg" ELSE "deliver")
    /\ Keep /\ UNCHANGED <<target, program, new, done>>
CompareFails(t) ==
    /\ pc[t] = "cmpxchg" /\ mem[Cell(t)] # Compared(t)
    /\ Find(t)
    /\ IF Op(t).k = "fetch" THEN Prepare(t) /\ Goto(t, "cmpxchg")
       ELSE UNCHANGED new /\ Goto(t, "deliver")
    /\ Keep /\ UNCHANGED <<target, program, done>>

Exchange(t) ==
    /\ pc[t] = "xchg" /\ Goto(t, "deliver")
    /\ Find(t)
    /\ Put(t, Op(t).arg)
    /\ UNCHANGED <<target, program, new, done>>

\* A locked instruction, and a plain load for its result.
Locked(t) ==
    /\ pc[t] = "lock" /\ Goto(t, "reload")
    /\ Put(t, NewValue(Op(t), mem[Cell(t)]))
    /\ UNCHANGED <<target, program, registers, done>>
Reload(t) ==
    /\ pc[t] = "reload" /\ Goto(t, "deliver")
    /\ new' = [new EXCEPT ![t] = mem[Cell(t)]]
    /\ Keep /\ UNCHANGED <<target, program, old, done>>

(* AArch64.  The exclusive load clears the upper bits of its register, the *)
(* comparison is of whole registers.                                       *)
\* What a comparison asks for: *expected is loaded with the object's size, a
\* value is in its register as the program computed it.
Wanted(t) == IF Op(t).k = "cmpxchg" THEN Cut(Cell(t), Op(t).want) ELSE Op(t).want
Differs(t, v) == Compares(Op(t)) /\ v # Wanted(t)
LoadExclusive(t) ==
    /\ pc[t] = "ldx"
    /\ Find(t) /\ Prepare(t)
    /\ IF Differs(t, mem[Cell(t)])
       THEN monitor' = monitor \ {t} /\ Goto(t, "deliver")
       ELSE monitor' = monitor \cup {t} /\ Goto(t, "stx")
    /\ UNCHANGED <<target, program, mem, done>>
StoreExclusive(t) ==
    /\ pc[t] = "stx" /\ t \in monitor
    /\ Put(t, new[t])
    /\ Goto(t, "deliver")
    /\ UNCHANGED <<target, program, registers, done>>
\* (Mutant: only the store is tried again.)
StoreAgain(t) ==
    /\ pc[t] = "stx" /\ monitor' = monitor \ {t}
    /\ UNCHANGED <<target, program, mem, pc, registers, done>>
StoreFails(t) ==
    /\ pc[t] = "stx" /\ monitor' = monitor \ {t}
    /\ Goto(t, "ldx")
    /\ UNCHANGED <<target, program, mem, registers, done>>

\* The result goes to its destination, cut to its type; a compare-exchange
\* that failed has stored what it found to *expected.  The flag is that of the
\* comparison of what was found with what was asked for.
Equal(t) == old[t] = IF target = "x86_64" THEN Cut(Cell(t), Op(t).want) ELSE Wanted(t)
Result(t) ==
    LET o == Op(t)
    IN  CASE o.k \in {"load", "xchg"} -> [ok |-> TRUE, value |-> old[t]]
          [] o.k = "store" -> [ok |-> TRUE, value |-> 0]
          [] o.k = "fetch" -> [ok |-> TRUE, value |-> IF o.old THEN old[t] ELSE Cut(o.cell, new[t])]
          [] o.k = "cmpxchg" -> [ok |-> Equal(t), value |-> old[t]]
          [] o.k = "cas" -> [ok |-> o.old \/ Equal(t), value |-> IF o.old THEN old[t] ELSE 0]
Deliver(t) ==
    /\ pc[t] = "deliver" /\ Goto(t, "idle")
    /\ done' = [done EXCEPT ![t] = Append(@, Result(t))]
    /\ Keep /\ UNCHANGED <<target, program, registers>>

Step(t) ==
    \/ Begin(t) \/ Load(t) \/ Store(t)
    \/ Read(t) \/ CompareSucceeds(t) \/ CompareFails(t) \/ Exchange(t) \/ Locked(t) \/ Reload(t)
    \/ LoadExclusive(t) \/ StoreExclusive(t) \/ StoreFails(t)
    \/ Deliver(t)
Finished == \A t \in Threads : pc[t] = "idle" /\ Len(done[t]) = Len(program[t])
Next == (\E t \in Threads : Step(t)) \/ (Finished /\ UNCHANGED vars)

\* Threads are scheduled; a store that can succeed again and again does once.
Fairness == \A t \in Threads : WF_vars(Step(t)) /\ SF_vars(StoreExclusive(t))
Spec == Init /\ [][Next]_vars /\ Fairness
----------------------------------------------------------------------------
(* Correctness.                                                            *)

\* An operation counts from its effect on, with the result it will deliver.
Outcome ==
    [t \in Threads |->
       IF pc[t] = "deliver" THEN Append(done[t], Result(t))
       ELSE IF pc[t] = "reload"
       THEN Append(done[t], [ok |-> TRUE, value |-> mem[Cell(t)]])
       ELSE done[t]]

\* However threads interleave and stores fail, every operation acts on its
\* object at one moment and returns what that moment gave.
Object == INSTANCE AtomicObject WITH outcome <- Outcome
OperationsAreAtomic == Object!Spec

\* No thread tries for ever.
EveryOperationEnds == <>Finished

TypeOK ==
    /\ mem \in [Cells -> 0 .. Word - 1]
    /\ \A c \in Cells : mem[c] < Size[c]
    /\ \A t \in Threads : Len(done[t]) <= Len(program[t])
    /\ \A t \in Threads : pc[t] # "idle" => Len(done[t]) < Len(program[t])
    /\ \A t \in monitor : pc[t] = "stx" /\ old[t] = mem[Cell(t)]
=============================================================================
