------------------------- MODULE NvmeInstanceRace -------------------------
(***************************************************************************)
(* The callbacks of the example NVMe driver (src/EXAMPLE_DRIVER_NVMe.rs)   *)
(* on `static mut NVME_DRIVER_INSTANCE`, called by several callers at once *)
(* (the multi-core use spec section 5 warns about; NvmeDriver takes each   *)
(* callback as one step under the single-caller assumption).               *)
(*                                                                         *)
(* The static is ONE piece of storage: init stores Some(NvmeDriver::new()) *)
(* into it, remove stores None, and probe's `as_mut()` yields a reference  *)
(* into it.  probe is split where it touches the static:                   *)
(*   start  - the null check and the `if let Some(driver)` read;           *)
(*   check  - register_device reads device_count and tests capacity;       *)
(*   write  - it stores the device at that index and writes count + 1,     *)
(*            then the callback returns 0.                                 *)
(* The reference outlives a concurrent remove or init (undefined behaviour *)
(* in Rust); the build's store lands in the static's payload, i.e. in the  *)
(* driver installed at that moment, and is dropped by nothing.  Devices    *)
(* are one constant record, so the payload is abstracted to device_count   *)
(* and the indices of `devices` holding Some.  `claimed` counts the probes *)
(* that returned 0 after writing into the current installation.            *)
(***************************************************************************)
EXTENDS Naturals

CONSTANTS
    Procs,         \* the callers invoking driver callbacks
    NvmeCapacity,  \* the 16 entries of NvmeDriver::devices (a positive natural)
    MaxProbes,     \* bound on probe calls
    None

VARIABLES
    instance,   \* NVME_DRIVER_INSTANCE: None or "some"
    count,      \* device_count of the driver stored in the static
    filled,     \* indices of its devices array holding Some(device)
    claimed,    \* probes that returned 0 after writing into this installation
    probes,     \* number of probe calls so far
    pc,         \* caller -> where it is in the probe callback
    seen        \* caller -> the device_count its register_device read

rvars == <<instance, count, filled, claimed, probes, pc, seen>>

RaceTypeOK ==
    /\ instance \in {None, "some"}
    /\ count \in Nat
    /\ filled \subseteq 0..(NvmeCapacity - 1)
    /\ claimed \in Nat
    /\ probes \in 0..MaxProbes
    /\ pc \in [Procs -> {"idle", "check", "write"}]
    /\ seen \in [Procs -> Nat]

(* The static's initialiser; every caller outside the callbacks. *)
Init ==
    /\ instance = None
    /\ count = 0
    /\ filled = {}
    /\ claimed = 0
    /\ probes = 0
    /\ pc = [p \in Procs |-> "idle"]
    /\ seen = [p \in Procs |-> 0]

(* nvme_driver_init: store a fresh driver. *)
CallInit(p) ==
    /\ pc[p] = "idle"
    /\ instance' = "some"
    /\ count' = 0
    /\ filled' = {}
    /\ claimed' = 0
    /\ UNCHANGED <<probes, pc, seen>>

(* nvme_driver_remove: store None. *)
CallRemove(p) ==
    /\ pc[p] = "idle"
    /\ instance' = None
    /\ UNCHANGED <<count, filled, claimed, probes, pc, seen>>

(* nvme_driver_probe up to `if let Some(driver)`: a null device pointer   *)
(* or an empty static returns at once.                                     *)
ProbeStart(p, ptr) ==
    /\ pc[p] = "idle"
    /\ probes < MaxProbes
    /\ probes' = probes + 1
    /\ pc' = [pc EXCEPT ![p] = IF ptr = "device" /\ instance = "some" THEN "check" ELSE "idle"]
    /\ UNCHANGED <<instance, count, filled, claimed, seen>>

(* register_device: `if self.device_count >= 16` returns NoMemory, which  *)
(* the callback returns as its status.                                     *)
ProbeCheck(p) ==
    /\ pc[p] = "check"
    /\ seen' = [seen EXCEPT ![p] = count]
    /\ pc' = [pc EXCEPT ![p] = IF count >= NvmeCapacity THEN "idle" ELSE "write"]
    /\ UNCHANGED <<instance, count, filled, claimed, probes>>

(* register_device: `devices[device_count] = Some(device)` and           *)
(* `device_count += 1` from the count it read; the callback returns 0.    *)
ProbeWrite(p) ==
    /\ pc[p] = "write"
    /\ filled' = filled \cup {seen[p]}
    /\ count' = seen[p] + 1
    /\ claimed' = claimed + 1
    /\ pc' = [pc EXCEPT ![p] = "idle"]
    /\ UNCHANGED <<instance, probes, seen>>

RaceNext ==
    \E p \in Procs :
        \/ CallInit(p)
        \/ CallRemove(p)
        \/ \E ptr \in {"null", "device"} : ProbeStart(p, ptr)
        \/ ProbeCheck(p)
        \/ ProbeWrite(p)

RaceSpec == Init /\ [][RaceNext]_rvars

-----------------------------------------------------------------------------
(* Properties                                                              *)

(* The installed driver's devices are exactly its first device_count      *)
(* entries, one for each probe that returned 0 into it since init: no      *)
(* successful probe is lost and enumerate_devices never counts an empty    *)
(* entry (spec 4.4: probe claims the device; the unit test registers one   *)
(* device and expects enumerate_devices() = 1).                            *)
ClaimedDevicesCounted ==
    instance = "some" => (filled = 0..(count - 1) /\ count = claimed)

=============================================================================
