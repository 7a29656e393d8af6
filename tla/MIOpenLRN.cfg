\* Both operators, run after run on four inputs, with the descriptor set
\* succeeding or failing and dim32 past the rank throwing (the enforce of
\* the debug build).
CONSTANTS
    Tensors <- InputTensors
    SetStatuses = {"miopenStatusSuccess", "miopenStatusBadParm"}
    DimReads = {"throws"}
    Garbage = Garbage
SPECIFICATION Spec
INVARIANTS
    DescriptorDescribesInput
