-------------------------- MODULE MCDeviceControl --------------------------
(* Model-checking instance of DeviceControl: host threads are symmetric,   *)
(* and callers may pass the negative id -1 (a .cfg cannot write it).       *)
EXTENDS DeviceControl, TLC

Symmetry == Permutations(Procs)

NegativeIds == {-1, 0}
=============================================================================
