----------------------------- MODULE ScatterAdd -----------------------------
(***************************************************************************)
(* What the sparse Adagrad kernels promise of the moment and parameter     *)
(* tensors, however their threads are scheduled, when no two items update  *)
(* the same cell: item i's contribution goes into each cell of targets[i]  *)
(* once, in one indivisible step, and no contribution already in a cell is *)
(* ever lost -- the kernels behave as if every read-modify-write were an   *)
(* atomic add.  When two items share a cell (repeated indices) nothing is  *)
(* promised.  A cell's content is recorded as how many times each item has *)
(* been folded into it, as in the kernels' models.                         *)
(***************************************************************************)
CONSTANTS
    Items,       \* the items of the kernel: gradient values or rows
    Cells        \* the cells of the updated tensor

VARIABLES
    targets,     \* targets[i]: the cells item i updates, fixed for the run
    acc          \* acc[c][i]: how often item i has been folded into cell c

(* No two items update a common cell.                                      *)
Disjoint ==
    \A i, j \in Items : i # j => targets[i] \cap targets[j] = {}

Init ==
    /\ targets \in [Items -> SUBSET Cells]
    /\ acc = [c \in Cells |-> [i \in Items |-> 0]]

(* Item i is added, atomically, into cell c of its targets, which has not  *)
(* taken it in yet; no other cell changes.                                 *)
Add(i, c) ==
    /\ c \in targets[i]
    /\ acc[c][i] = 0
    /\ acc' = [acc EXCEPT ![c][i] = 1]
    /\ UNCHANGED targets

(* With a shared cell the contract does not bind the contents.             *)
Unpromised ==
    /\ ~Disjoint
    /\ UNCHANGED targets

Next ==
    \/ \E i \in Items, c \in Cells : Add(i, c)
    \/ Unpromised

Spec == Init /\ [][Next]_<<targets, acc>>
=============================================================================
