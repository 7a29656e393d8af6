---------------------------- MODULE RegionOutput ----------------------------
(***************************************************************************)
(* What RMACRegionsOp promises of its output tensor, independent of how    *)
(* the device fills it: the host sizes the output once, then every cell is *)
(* written with the value that belongs to it, never overwritten with       *)
(* anything else, and in the end no cell is left unwritten.  Any number of *)
(* cells may be written in one step, in any order.                         *)
(***************************************************************************)
EXTENDS Naturals

CONSTANTS
    Value(_),    \* Value(k): the content cell k of the output must get
    Unset        \* the content of a cell nobody has written

VARIABLE out

Init == out = [k \in {} |-> Unset]

(* output->Resize(N, 5): the cells 0 .. N * 5 - 1 exist (a set of cells  *)
(* numbered from 0 without gaps), none written yet.                       *)
Resize ==
    /\ DOMAIN out = {}
    /\ DOMAIN out' \subseteq Nat
    /\ \A k \in DOMAIN out' : 0 .. k \subseteq DOMAIN out'
    /\ \A k \in DOMAIN out' : out'[k] = Unset

(* Some unwritten cells get their value; no other cell changes.            *)
Write ==
    /\ DOMAIN out' = DOMAIN out
    /\ \A k \in DOMAIN out :
           out'[k] = out[k] \/ (out[k] = Unset /\ out'[k] = Value(k))

(* One unwritten cell gets its value: enabled as long as a cell is left.   *)
WriteOne ==
    \E k \in DOMAIN out :
        /\ out[k] = Unset
        /\ out' = [out EXCEPT ![k] = Value(k)]

Next == Resize \/ Write

Spec == Init /\ [][Next]_out /\ WF_out(WriteOne)
=============================================================================
