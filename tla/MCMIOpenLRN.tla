---------------------------- MODULE MCMIOpenLRN ----------------------------
(* Model-checking instance of MIOpenLRN: the input tensors of the run (a  *)
(* .cfg cannot write records or tuples).                                   *)
EXTENDS MIOpenLRN

(* Two NCHW shapes in float, one of them in float16 too, and a tensor of  *)
(* rank 3.                                                                 *)
InputTensors ==
    {[type |-> "float", dims |-> <<2, 3, 4, 4>>],
     [type |-> "float", dims |-> <<1, 3, 4, 4>>],
     [type |-> "float16", dims |-> <<2, 3, 4, 4>>],
     [type |-> "float", dims |-> <<3, 4, 4>>]}
=============================================================================
