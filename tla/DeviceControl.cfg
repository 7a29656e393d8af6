\* Two host threads, two devices, full device control on; callers pass the
\* ids of both devices and one id past the last device; hipGetDeviceCount may
\* succeed, fail softly or fail fatally.
CONSTANTS
    Procs = {p1, p2}
    NumDevices = 2
    FullControl = TRUE
    Asan = FALSE
    Ids = {0, 1, 2}
    Statuses = {"hipSuccess", "hipErrorUnknown", "otherError"}
SPECIFICATION Spec
INVARIANTS
    CacheCoherent
SYMMETRY Symmetry
CHECK_DEADLOCK FALSE
