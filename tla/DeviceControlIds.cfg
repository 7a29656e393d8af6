\* One host thread, two devices; callers pass the ids -1 and 0 to
\* SetDefaultGPUID and GetDeviceProperty.
CONSTANTS
    Procs = {p1}
    NumDevices = 2
    FullControl = TRUE
    Asan = FALSE
    Ids <- NegativeIds
    Statuses = {"hipSuccess"}
SPECIFICATION Spec
INVARIANTS
    DeviceIdsInRange
CHECK_DEADLOCK FALSE
