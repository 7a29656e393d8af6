------------------------ MODULE DeviceControlProofs ------------------------
(***************************************************************************)
(* Proofs about DeviceControl, for every number of threads and devices,   *)
(* every set of ids callers pass and every environment of statuses.        *)
(***************************************************************************)
EXTENDS DeviceControl, TLAPS

USE DeviceControlAssumption

(* The counts NumHipDevices can cache are device counts.                   *)
LEMMA CountResultsType ==
    ASSUME count \in {-1} \cup Nat
    PROVE  CountResults \subseteq Nat
BY DEF CountResults, CountFor

(* One step of any host thread, foreign code included, keeps the type.    *)
LEMMA TypeNext == TypeOK /\ [Next]_vars => TypeOK'
<1> SUFFICES ASSUME TypeOK, [Next]_vars PROVE TypeOK'
  OBVIOUS
<1>1. CountResults \subseteq Nat
  BY CountResultsType DEF TypeOK
<1>2. CASE NumHipDevicesFatal
  BY <1>2 DEF NumHipDevicesFatal, TypeOK
<1>3. CASE NumHipDevices
  BY <1>1, <1>3 DEF NumHipDevices, TypeOK
<1>4. ASSUME NEW id \in Ids, SetDefaultGPUID(id) PROVE TypeOK'
  BY <1>1, <1>4 DEF SetDefaultGPUID, TypeOK
<1>5. ASSUME NEW id \in Ids, GetDeviceProperty(id) PROVE TypeOK'
  BY <1>1, <1>5 DEF GetDeviceProperty, TypeOK
<1>6. ASSUME NEW p \in Procs, CaffeHipGetDevice(p) PROVE TypeOK'
  BY <1>6 DEF CaffeHipGetDevice, TypeOK, RuntimeDevices, Devices
<1>7. ASSUME NEW p \in Procs, ForeignReturn(p) PROVE TypeOK'
  BY <1>7 DEF ForeignReturn, TypeOK, NoDevice, RuntimeDevices
<1>8. ASSUME NEW p \in Procs, NEW id \in Ids, CaffeHipSetDevice(p, id)
      PROVE TypeOK'
  BY <1>8 DEF CaffeHipSetDevice, HipSetDeviceOk, TypeOK, RuntimeDevices
<1>9. ASSUME NEW p \in Procs, NEW d \in Devices, ForeignSetDevice(p, d)
      PROVE TypeOK'
  BY <1>9 DEF ForeignSetDevice, TypeOK, RuntimeDevices
<1>10. CASE UNCHANGED vars
  BY <1>10 DEF vars, TypeOK
<1>11. QED
  BY <1>2, <1>3, <1>4, <1>5, <1>6, <1>7, <1>8, <1>9, <1>10 DEF Next

(* The state RunOnDevice starts from is well typed.                      *)
LEMMA TypeInit == Init => TypeOK
<1> SUFFICES ASSUME Init PROVE TypeOK
  OBVIOUS
<1>1. count \in {-1} \cup Nat /\ defaultGpu \in Int
  BY DEF Init
<1>2. runtimeDev \in [Procs -> RuntimeDevices]
  BY DEF Init, RuntimeDevices
<1>3. /\ cache \in [Procs -> Int]
      /\ foreign \in [Procs -> RuntimeDevices \cup {NoDevice}]
  BY DEF Init, NoDevice
<1>4. propsRead \subseteq Int /\ aborted \in BOOLEAN
  BY DEF Init
<1>5. QED
  BY <1>1, <1>2, <1>3, <1>4 DEF TypeOK

(* The inductive invariant: the type, and the cache tracking the device   *)
(* the thread runs on or, inside foreign code, the one it will get back   *)
(* (CacheTracksDevice).  TLC checked it on the device_cache instance       *)
(* before it was proved.                                                   *)
IInv == TypeOK /\ CacheTracksDevice

LEMMA IInvInit == Init => IInv
BY TypeInit DEF Init, IInv, CacheTracksDevice, NoDevice

LEMMA IInvNext == IInv /\ [Next]_vars => IInv'
<1> SUFFICES ASSUME IInv, [Next]_vars PROVE IInv'
  OBVIOUS
<1>1. TypeOK'
  BY TypeNext DEF IInv
<1>2. CacheTracksDevice'
  <2> USE DEF IInv, TypeOK
  <2>1. CASE NumHipDevicesFatal
    BY <2>1 DEF NumHipDevicesFatal, CacheTracksDevice
  <2>2. CASE NumHipDevices
    BY <2>2 DEF NumHipDevices, CacheTracksDevice
  <2>3. ASSUME NEW id \in Ids, SetDefaultGPUID(id) PROVE CacheTracksDevice'
    BY <2>3 DEF SetDefaultGPUID, CacheTracksDevice
  <2>4. ASSUME NEW id \in Ids, GetDeviceProperty(id) PROVE CacheTracksDevice'
    BY <2>4 DEF GetDeviceProperty, CacheTracksDevice
  <2>5. ASSUME NEW p \in Procs, CaffeHipGetDevice(p) PROVE CacheTracksDevice'
    BY <2>5 DEF CaffeHipGetDevice, CacheTracksDevice
  <2>6. ASSUME NEW p \in Procs, ForeignReturn(p) PROVE CacheTracksDevice'
    BY <2>6 DEF ForeignReturn, CacheTracksDevice
  <2>7. ASSUME NEW p \in Procs, NEW id \in Ids, CaffeHipSetDevice(p, id)
        PROVE CacheTracksDevice'
    BY <2>7 DEF CaffeHipSetDevice, HipSetDeviceOk, CacheTracksDevice
  <2>8. ASSUME NEW p \in Procs, NEW d \in Devices, ForeignSetDevice(p, d)
        PROVE CacheTracksDevice'
    BY <2>8 DEF ForeignSetDevice, CacheTracksDevice, NoDevice, RuntimeDevices,
               Devices
  <2>9. CASE UNCHANGED vars
    BY <2>9 DEF vars, CacheTracksDevice
  <2>10. QED
    BY <2>1, <2>2, <2>3, <2>4, <2>5, <2>6, <2>7, <2>8, <2>9 DEF Next
<1>3. QED
  BY <1>1, <1>2 DEF IInv

(* Under full device control, a thread running Caffe2 code with a filled   *)
(* gCurrentDevice cache always runs on the cached device (CacheCoherent),  *)
(* through failed CaffeHipSetDevice calls and foreign code that restores   *)
(* the device it found.                                                    *)
THEOREM CacheCoherence == Spec => []CacheCoherent
<1>1. IInv => CacheCoherent
  BY DEF IInv, CacheTracksDevice, CacheCoherent
<1>2. QED
  BY <1>1, IInvInit, IInvNext, PTL DEF Spec

=============================================================================
