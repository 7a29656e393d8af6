-------------------------- MODULE MCSequenceMask --------------------------
(* Model-checking instance of SequenceMask: the input shape of the run and *)
(* the negative argument values (a .cfg can write neither a tuple nor a   *)
(* negative number).                                                       *)
EXTENDS SequenceMask

ShapeDims == <<2, 2, 3>>
AxisArgs == {0, 1, -1}
BatchArgs == {NoArg, 0}
RepeatArgs == {NoArg, 2}
=============================================================================
