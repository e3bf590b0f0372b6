----------------------------- MODULE MCAtomics -----------------------------
(***************************************************************************)
(* Two threads, the second with two operations, on a byte of two bits in   *)
(* registers of three: every choice of their operations, on both targets.  *)
(***************************************************************************)
EXTENDS Atomics, FiniteSetsExt

MCThreads == {"t1", "t2"}
MCCells == {"x"}
MCSize == [c \in MCCells |-> 4]
MCWord == 8

And(x, y) == MapThenSumSet(LAMBDA b : b * ((x \div b) % 2) * ((y \div b) % 2), {1, 2, 4})
MCCombine(op, x, y) ==
    CASE op = "add"  -> (x + y) % MCWord
      [] op = "sub"  -> (x - y) % MCWord
      [] op = "and"  -> And(x, y)
      [] op = "or"   -> x + y - And(x, y)
      [] op = "nand" -> MCWord - 1 - And(x, y)

Operation(k, op, arg, want, first) ==
    [k |-> k, cell |-> "x", op |-> op, arg |-> arg, want |-> want, old |-> first]
Fetch(op, arg, first) == Operation("fetch", op, arg, 0, first)

\* The upper bits of a register may be anything: 5 is 1 in the object.
Common == {
    Fetch("add", 5, TRUE), Fetch("sub", 1, TRUE), Fetch("or", 2, TRUE), Fetch("nand", 7, FALSE),
    Operation("xchg", "", 7, 0, TRUE), Operation("cmpxchg", "", 1, 0, FALSE),
    Operation("cas", "", 6, 1, TRUE), Operation("cas", "", 0, 3, FALSE),
    Operation("load", "", 0, 0, FALSE), Operation("store", "", 4, 0, FALSE)}

CasesOf(target_, ops) ==
    {[target |-> target_, mem |-> [c \in MCCells |-> 0],
      program |-> [t \in MCThreads |-> IF t = "t1" THEN <<o>> ELSE <<p, q>>]] :
        o \in ops, p \in ops, q \in ops}

\* The new value of a locked instruction of x86-64 is asked for beside a
\* thread that only reads: beside a writer it may be the writer's.
Alone == [target |-> "x86_64", mem |-> [c \in MCCells |-> 0],
          program |-> [t \in MCThreads |->
              IF t = "t1" THEN <<Fetch("add", 3, FALSE), Fetch("sub", 1, FALSE)>>
              ELSE <<Operation("load", "", 0, 0, FALSE)>>]]
MCCases ==
    {Alone} \cup CasesOf("x86_64", Common)
    \cup CasesOf("aarch64", Common \cup {Fetch("add", 1, FALSE), Fetch("and", 6, FALSE)})
=============================================================================
