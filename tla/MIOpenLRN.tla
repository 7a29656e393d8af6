----------------------------- MODULE MIOpenLRN -----------------------------
(***************************************************************************)
(* MIOPEN_LRNOP and MIOPENLRNGradientOp (operators/local_response_         *)
(* normalization_op_miopen.cc).  Each operator instance owns one MIOpen    *)
(* tensor descriptor data_desc_ and caches the dims it was last set for in *)
(* miopen_input_dims_.  A run dispatches on the element type, resets the   *)
(* descriptor only when the input's dims differ from the cached ones, and  *)
(* hands the descriptor to miopenLRNForward (X and Y) or miopenLRNBackward *)
(* (Y, dY, X and dX, all described by the one descriptor set from dY).     *)
(*                                                                         *)
(* Data abstraction: a tensor is its element type and dims; the gradient   *)
(* op's X, Y and dY are taken of one type and shape, as the gradient maker *)
(* produces them, so a run has one input tensor.  A descriptor is the      *)
(* type and dims it was set to; Garbage stands for a dim read past the end *)
(* of a tensor's dims.                                                     *)
(***************************************************************************)
EXTENDS Naturals, Sequences

CONSTANTS
    Tensors,       \* the inputs a run may see: [type, dims] records with
                   \* dims a sequence of naturals
    SetStatuses,   \* results miopenSet4dTensorDescriptor may return, among
                   \* "miopenStatusSuccess" and "miopenStatusBadParm"
    DimReads,      \* what X.dim32(k) past the rank does: "throws", "garbage"
    Garbage        \* model value: a dim read past the end of dims_

Ops == {"LRN", "LRNGradient"}

(* A descriptor created but never set, and no call made yet.               *)
NoDesc == [type |-> "unset", dims |-> <<>>]
NoCall == [desc |-> NoDesc, tensor |-> [type |-> "none", dims |-> <<>>]]

VARIABLES
    cacheDims,     \* cacheDims[o]: miopen_input_dims_ of instance o
    desc,          \* desc[o]: what data_desc_ of o was last set to, or NoDesc
    called         \* called[o]: the descriptor and tensor of o's last MIOpen
                   \* LRN call, or NoCall

vars == <<cacheDims, desc, called>>

Init ==
    /\ cacheDims = [o \in Ops |-> <<>>]
    /\ desc = [o \in Ops |-> NoDesc]
    /\ called = [o \in Ops |-> NoCall]

(* RunOnDevice dispatches to DoRunWithType<float> or <float16>; any other *)
(* type throws before the cache is looked at.                              *)
Supported(x) == x.type \in {"float", "float16"}

(* miopenLRNForward / miopenLRNBackward with data_desc_ for every tensor.  *)
CallLRN(o, d, x) == called' = [called EXCEPT ![o] = [desc |-> d, tensor |-> x]]

(* X.dims() == miopen_input_dims_: the descriptor is used as it is.       *)
CacheHit(o, x) ==
    /\ Supported(x)
    /\ x.dims = cacheDims[o]
    /\ CallLRN(o, desc[o], x)
    /\ UNCHANGED <<cacheDims, desc>>

(* The dims X.dim32(0 .. 3) that reach miopenSet4dTensorDescriptor, when  *)
(* they are read without an exception.                                     *)
Dims4(x) == [k \in 1 .. 4 |-> IF k <= Len(x.dims) THEN x.dims[k] ELSE Garbage]

(* X.dim32(3) of a tensor of rank 3 reads past dims_: the debug build's  *)
(* enforce throws, the release build reads whatever follows.               *)
Readable(x) == Len(x.dims) >= 4 \/ "garbage" \in DimReads

(* The dims differ: miopen_input_dims_ = X.dims(), then the dims are read *)
(* and the descriptor set; a throw from X.dim32 or from MIOPEN_ENFORCE    *)
(* ends the run with the cache already updated.                            *)
SetDescriptor(o, x) ==
    /\ Supported(x)
    /\ x.dims # cacheDims[o]
    /\ cacheDims' = [cacheDims EXCEPT ![o] = x.dims]
    /\ \/ /\ Len(x.dims) < 4
          /\ "throws" \in DimReads
          /\ UNCHANGED <<desc, called>>
       \/ /\ Readable(x)
          /\ "miopenStatusBadParm" \in SetStatuses
          /\ UNCHANGED <<desc, called>>
       \/ /\ Readable(x)
          /\ "miopenStatusSuccess" \in SetStatuses
          /\ desc' = [desc EXCEPT ![o] = [type |-> x.type, dims |-> Dims4(x)]]
          /\ CallLRN(o, desc'[o], x)

Next == \E o \in Ops, x \in Tensors : CacheHit(o, x) \/ SetDescriptor(o, x)

Spec == Init /\ [][Next]_vars

-----------------------------------------------------------------------------
TypeOK ==
    /\ cacheDims \in [Ops -> Seq(Nat)]
    /\ \A o \in Ops : desc[o].type \in {"unset", "float", "float16"}
    /\ \A o \in Ops : called[o] = NoCall \/ called[o].tensor \in Tensors

(* Every MIOpen LRN call gets a descriptor that describes the tensors it  *)
(* is given: the element type and the four dims of the input.  This is    *)
(* what the descriptor cache of DoRunWithType is meant to guarantee by     *)
(* resetting the descriptor whenever the input changes.                    *)
DescriptorDescribesInput ==
    \A o \in Ops :
        called[o] # NoCall =>
            called[o].desc = [type |-> called[o].tensor.type,
                              dims |-> called[o].tensor.dims]
=============================================================================
