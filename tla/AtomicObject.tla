---------------------------- MODULE AtomicObject ----------------------------
(***************************************************************************)
(* What the atomic builtins promise: each operation of a thread takes      *)
(* effect on its object at one moment, with the value the object has then, *)
(* and returns what that moment gives.  Nothing is said of how.            *)
(***************************************************************************)
EXTENDS Integers, Sequences

CONSTANTS
    Threads,
    Cells,                \* the objects
    Size,                 \* how many values an object has
    Combine(_, _, _)      \* what an operator makes of two values
VARIABLES
    program,              \* the operations of each thread, in order
    mem,                  \* the objects
    outcome               \* what the operations of each thread returned so far

\* An operation is [k, cell, op, arg, want, old]: its kind, its object, its
\* operator, its value, what a comparison asks for and whether it returns the
\* old value.  Values are those of registers and are cut to the object's size.
Cut(c, v) == v % Size[c]

\* The object after an operation that found v in it.
Stored(o, v) ==
    CASE o.k = "load" -> v
      [] o.k \in {"store", "xchg"} -> Cut(o.cell, o.arg)
      [] o.k = "fetch" -> Cut(o.cell, Combine(o.op, v, o.arg))
      [] o.k \in {"cmpxchg", "cas"} ->
           IF v = Cut(o.cell, o.want) THEN Cut(o.cell, o.arg) ELSE v

\* What it returns: whether it succeeded and a value, which for a compare-
\* exchange is what *expected holds afterwards.
Returned(o, v) ==
    LET equal == v = Cut(o.cell, o.want)
    IN  CASE o.k \in {"load", "xchg"} -> [ok |-> TRUE, value |-> v]
          [] o.k = "store" -> [ok |-> TRUE, value |-> 0]
          [] o.k = "fetch" -> [ok |-> TRUE, value |-> IF o.old THEN v ELSE Stored(o, v)]
          [] o.k = "cmpxchg" -> [ok |-> equal, value |-> v]
          [] o.k = "cas" -> [ok |-> o.old \/ equal, value |-> IF o.old THEN v ELSE 0]

Init == outcome = [t \in Threads |-> <<>>]

Operate(t) ==
    /\ Len(outcome[t]) < Len(program[t])
    /\ LET o == program[t][Len(outcome[t]) + 1]
       IN  /\ mem' = [mem EXCEPT ![o.cell] = Stored(o, @)]
           /\ outcome' = [outcome EXCEPT ![t] = Append(@, Returned(o, mem[o.cell]))]
    /\ UNCHANGED program

Next == \E t \in Threads : Operate(t)
Spec == Init /\ [][Next]_<<program, mem, outcome>>
=============================================================================
