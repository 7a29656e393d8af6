--------------------------- MODULE DeviceControl ---------------------------
(***************************************************************************)
(* The process-wide device state of core/common_hip.cc: the cached device  *)
(* count of NumHipDevices, the default GPU id, the per-thread current      *)
(* device of the HIP runtime together with the thread_local cache          *)
(* gCurrentDevice used when FLAGS_caffe2_hip_full_device_control is set,  *)
(* and the lazily built device property table of GetDeviceProperty.       *)
(*                                                                         *)
(* Host threads call the functions in any interleaving.  Foreign           *)
(* (non-Caffe2) code may set the runtime device too; the flag's contract   *)
(* is that it restores the device it found before control returns, and a  *)
(* thread runs Caffe2 device calls only outside foreign code.  A           *)
(* failed CAFFE_ENFORCE or HIP_ENFORCE throws: the call's later effects do *)
(* not happen.  LOG(FATAL) ends the process.                               *)
(***************************************************************************)
EXTENDS Integers

CONSTANTS
    Procs,        \* host threads
    NumDevices,   \* devices the HIP runtime reports on success
    FullControl,  \* FLAGS_caffe2_hip_full_device_control (fixed at start)
    Asan,         \* CAFFE2_ASAN_ENABLED
    Ids,          \* device ids that callers pass in
    Statuses      \* results hipGetDeviceCount may give in this environment

ASSUME DeviceControlAssumption ==
    /\ NumDevices \in Nat
    /\ FullControl \in BOOLEAN
    /\ Asan \in BOOLEAN
    /\ Ids \subseteq Int
    /\ Statuses \subseteq {"hipSuccess", "hipErrorNoDevice",
                           "hipErrorInsufficientDriver",
                           "hipErrorInitializationError", "hipErrorUnknown",
                           "hipErrorMemoryAllocation", "otherError"}

Devices == 0 .. NumDevices - 1
NoDevice == -1

(* hipGetDevice reports device 0 until a device is set, devices or not.    *)
RuntimeDevices == Devices \cup {0}

VARIABLES
    count,       \* static int count of NumHipDevices (-1: not yet asked)
    defaultGpu,  \* gDefaultGPUID
    runtimeDev,  \* runtimeDev[p]: the HIP runtime's current device of p
    cache,       \* cache[p]: thread_local gCurrentDevice of p
    foreign,     \* foreign[p]: device saved on entry to foreign code, or -1
    propsRead,   \* the ids whose props.props[id] GetDeviceProperty returned
    aborted      \* a LOG(FATAL) ended the process

vars == <<count, defaultGpu, runtimeDev, cache, foreign,
          propsRead, aborted>>

Init ==
    /\ count = -1
    /\ defaultGpu = 0
    /\ runtimeDev = [p \in Procs |-> 0]
    /\ cache = [p \in Procs |-> NoDevice]
    /\ foreign = [p \in Procs |-> NoDevice]
    /\ propsRead = {}
    /\ aborted = FALSE

(* The switch of NumHipDevices on the status of hipGetDeviceCount: the     *)
(* statuses that reach LOG(FATAL), and the count cached for the others.    *)
IsFatal(st) ==
    \/ st = "otherError"
    \/ st = "hipErrorMemoryAllocation" /\ ~Asan
CountFor(st) == IF st = "hipSuccess" THEN NumDevices ELSE 0

(* The counts a call of NumHipDevices can return from the current state.   *)
CountResults ==
    IF count >= 0 THEN {count}
    ELSE {CountFor(st) : st \in {s \in Statuses : ~IsFatal(s)}}

(* NumHipDevices reaching LOG(FATAL) on its first call.                    *)
NumHipDevicesFatal ==
    /\ ~aborted
    /\ count < 0
    /\ \E st \in Statuses : IsFatal(st)
    /\ aborted' = TRUE
    /\ UNCHANGED <<count, defaultGpu, runtimeDev, cache, foreign,
                   propsRead>>

(* NumHipDevices(): the first call caches the count, later calls read it.  *)
NumHipDevices ==
    /\ ~aborted
    /\ \E c \in CountResults : count' = c
    /\ UNCHANGED <<defaultGpu, runtimeDev, cache, foreign,
                   propsRead, aborted>>

(* SetDefaultGPUID: CAFFE_ENFORCE_LT(deviceid, NumHipDevices()), then set. *)
SetDefaultGPUID(id) ==
    /\ ~aborted
    /\ \E c \in CountResults :
          /\ count' = c
          /\ defaultGpu' = IF id < c THEN id ELSE defaultGpu
    /\ UNCHANGED <<runtimeDev, cache, foreign, propsRead, aborted>>

(* hipSetDevice(id) succeeds exactly for the ids of present devices.       *)
HipSetDeviceOk(id) == id \in Devices

(* CaffeHipGetDevice: with full control, fill the cache from hipGetDevice  *)
(* when it is empty; the call reads the runtime otherwise.                 *)
CaffeHipGetDevice(p) ==
    /\ ~aborted
    /\ foreign[p] = NoDevice
    /\ FullControl
    /\ cache[p] < 0
    /\ cache' = [cache EXCEPT ![p] = runtimeDev[p]]
    /\ UNCHANGED <<count, defaultGpu, runtimeDev, foreign,
                   propsRead, aborted>>

(* Mutation: gCurrentDevice = id written before HIP_ENFORCE, so a failed  *)
(* hipSetDevice still updates the cache.                                   *)
CaffeHipSetDeviceCacheFirst(p, id) ==
    /\ ~aborted
    /\ foreign[p] = NoDevice
    /\ LET callsRuntime == ~FullControl \/ cache[p] # id
           fails == callsRuntime /\ ~HipSetDeviceOk(id)
       IN  /\ runtimeDev' = IF callsRuntime /\ ~fails
                            THEN [runtimeDev EXCEPT ![p] = id]
                            ELSE runtimeDev
           /\ cache' = IF FullControl
                       THEN [cache EXCEPT ![p] = id]
                       ELSE cache
    /\ UNCHANGED <<count, defaultGpu, foreign, propsRead, aborted>>

(* CaffeHipSetDevice: with full control, call hipSetDevice only when the   *)
(* cache differs, then record id; without, always call hipSetDevice.  A    *)
(* failing HIP_ENFORCE throws before the cache is written.                 *)
CaffeHipSetDevice(p, id) ==
    /\ ~aborted
    /\ foreign[p] = NoDevice
    /\ LET callsRuntime == ~FullControl \/ cache[p] # id
           fails == callsRuntime /\ ~HipSetDeviceOk(id)
       IN  /\ runtimeDev' = IF callsRuntime /\ ~fails
                            THEN [runtimeDev EXCEPT ![p] = id]
                            ELSE runtimeDev
           /\ cache' = IF FullControl /\ ~fails
                       THEN [cache EXCEPT ![p] = id]
                       ELSE cache
    /\ UNCHANGED <<count, defaultGpu, foreign, propsRead, aborted>>

(* Foreign code entered from p sets the runtime device itself ...          *)
ForeignSetDevice(p, d) ==
    /\ ~aborted
    /\ foreign[p] = NoDevice
    /\ foreign' = [foreign EXCEPT ![p] = runtimeDev[p]]
    /\ runtimeDev' = [runtimeDev EXCEPT ![p] = d]
    /\ UNCHANGED <<count, defaultGpu, cache, propsRead, aborted>>

(* ... and, as the flag's contract demands, restores it on exit.           *)
ForeignReturn(p) ==
    /\ ~aborted
    /\ foreign[p] # NoDevice
    /\ runtimeDev' = [runtimeDev EXCEPT ![p] = foreign[p]]
    /\ foreign' = [foreign EXCEPT ![p] = NoDevice]
    /\ UNCHANGED <<count, defaultGpu, cache, propsRead, aborted>>

(* GetDeviceProperty: construct the static table (which asks for the      *)
(* count), CAFFE_ENFORCE_LT(deviceid, NumHipDevices()), return props[id].  *)
GetDeviceProperty(id) ==
    /\ ~aborted
    /\ \E c \in CountResults :
          /\ count' = c
          /\ propsRead' = IF id < c THEN propsRead \cup {id} ELSE propsRead
    /\ UNCHANGED <<defaultGpu, runtimeDev, cache, foreign, aborted>>

Next ==
    \/ NumHipDevicesFatal
    \/ NumHipDevices
    \/ \E id \in Ids : SetDefaultGPUID(id) \/ GetDeviceProperty(id)
    \/ \E p \in Procs :
           \/ CaffeHipGetDevice(p)
           \/ ForeignReturn(p)
           \/ \E id \in Ids : CaffeHipSetDevice(p, id)
           \/ \E d \in Devices : ForeignSetDevice(p, d)

Spec == Init /\ [][Next]_vars

-----------------------------------------------------------------------------
TypeOK ==
    /\ count \in {-1} \cup Nat
    /\ defaultGpu \in Int
    /\ runtimeDev \in [Procs -> RuntimeDevices]
    /\ cache \in [Procs -> Int]
    /\ foreign \in [Procs -> RuntimeDevices \cup {NoDevice}]
    /\ propsRead \subseteq Int
    /\ aborted \in BOOLEAN

(* The premise of full device control: whenever a thread runs Caffe2 code  *)
(* (it is not inside foreign code) and its thread_local cache is filled,   *)
(* the cache names the device the HIP runtime will launch on, through any  *)
(* mix of CaffeHipSetDevice calls, failed ones included, lazy cache fills  *)
(* and foreign code that keeps the entry/exit contract.                    *)
CacheCoherent ==
    \A p \in Procs :
        FullControl /\ foreign[p] = NoDevice /\ cache[p] >= 0
            => cache[p] = runtimeDev[p]

(* Every device id the process keeps or dereferences names a device of    *)
(* this machine: the id SetDefaultGPUID installed (other than the initial  *)
(* 0), as its enforce message says ("should be smaller than the number of  *)
(* gpus"), and every index GetDeviceProperty used in its table of          *)
(* NumHipDevices() entries.                                                *)
DeviceIdsInRange ==
    \A id \in propsRead \cup ({defaultGpu} \ {0}) : id \in 0 .. count - 1

(* The strengthening of CacheCoherent that survives foreign code: while p  *)
(* is inside foreign code, the device saved on entry (the one restored on  *)
(* exit) is the cached one.  CacheCoherent is its case foreign[p] = -1.    *)
CacheTracksDevice ==
    \A p \in Procs :
        FullControl /\ cache[p] >= 0
            => cache[p] = IF foreign[p] = NoDevice THEN runtimeDev[p]
                                                  ELSE foreign[p]
=============================================================================
