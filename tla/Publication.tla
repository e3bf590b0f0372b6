---------------------------- MODULE Publication ----------------------------
(***************************************************************************)
(* What the users of the driver rely on, whatever happens to it: a file    *)
(* changes in one step, and only to something that a running command may   *)
(* leave there; nothing else they have is touched, nothing published is    *)
(* taken back; and a command succeeds only when every file it was asked    *)
(* for holds what a command may leave in it.                               *)
(***************************************************************************)
CONSTANT Commands, Files

VARIABLES
    visible,   \* the contents of each file
    may,       \* for each command and file, the contents it may leave there
    must,      \* the files each command was asked for
    status     \* what has become of each command

vars == <<visible, may, must, status>>

Init == status = [c \in Commands |-> "running"]

\* Whatever a step of a command changes, it changes to what it may leave there.
Written(c) == \A f \in Files : visible'[f] \in {visible[f]} \cup may[c][f]
Complete(c) == \A f \in must[c] : \E o \in Commands : visible'[f] \in may[o][f]

Act(c, from, to) ==
    /\ status[c] = from
    /\ status' = [status EXCEPT ![c] = to]
    /\ UNCHANGED <<may, must>>

Next == \E c \in Commands :
    \/ \E to \in {"running", "error"} : Act(c, "running", to) /\ Written(c)
    \/ Act(c, "running", "ok") /\ Written(c) /\ Complete(c)
    \/ Act(c, "running", "crashed") /\ UNCHANGED visible
    \/ Act(c, "crashed", "running") /\ UNCHANGED visible

Spec == Init /\ [][Next]_vars
============================================================================
