--------------------------- MODULE DriverManager ---------------------------
(***************************************************************************)
(* The driver manager facade of the kernel HAL                             *)
(* (src/kernel/hal/driver/mod.rs, device.rs): a DriverRegistry and a       *)
(* device table of MAX_DEVICES optional Device records with a count.       *)
(* register_driver delegates to the registry; probe_device appends a copy  *)
(* of the device at index device_count without looking at its id;         *)
(* get_device returns the first record with the id.  Nothing removes a     *)
(* device.  A Device is abstracted to its id and whether it is active      *)
(* (status != 0); class, vendor and device ids are data no call reads.     *)
(***************************************************************************)
EXTENDS DriverRegistry

CONSTANTS
    MaxDevices,   \* MAX_DEVICES (1024 in the code)
    DeviceIds     \* device id values callers probe

ASSUME MaxDevicesAssumption == MaxDevices \in Nat \ {0}
ASSUME DeviceIdsAssumption == DeviceIds \subseteq Nat

Device == [id : DeviceIds, active : BOOLEAN]

ASSUME DeviceNoneAssumption == None \notin Device

DeviceSlots == 1..MaxDevices

VARIABLES
    devices,        \* slot -> Device or None
    device_count,   \* number of probed devices
    device_last,    \* the result of the last device call
    probed          \* history: the ids probe_device accepted so far

mvars == <<drivers, driver_count, last, devices, device_count, device_last, probed>>

ManagerTypeOK ==
    /\ TypeOK
    /\ devices \in [DeviceSlots -> Device \cup {None}]
    /\ device_count \in 0..MaxDevices
    /\ device_last \in [op : {"none", "probe", "get"}, arg : Nat,
                        res : {"none", "Ok", "NoMemory"}, found : Device \cup {None}]
    /\ probed \subseteq DeviceIds

(* DriverManager::new *)
ManagerInit ==
    /\ Init
    /\ devices = [i \in DeviceSlots |-> None]
    /\ device_count = 0
    /\ device_last = [op |-> "none", arg |-> 0, res |-> "none", found |-> None]
    /\ probed = {}

DeviceVars == <<devices, device_count, device_last, probed>>

(* register_driver: the registry's register, the device table untouched.  *)
RegisterDriver(d) == Register(d) /\ UNCHANGED DeviceVars

(* Mutation: the append written to index device_count - 1 (the 0-based     *)
(* index read as 1-based), overwriting the last probed record.             *)
ProbeDeviceOverwrite(dev) ==
    /\ \/ /\ device_count >= MaxDevices
          /\ device_last' = [op |-> "probe", arg |-> dev.id, res |-> "NoMemory", found |-> None]
          /\ UNCHANGED <<devices, device_count, probed>>
       \/ /\ device_count < MaxDevices
          /\ devices' = [devices EXCEPT ![IF device_count = 0 THEN 1 ELSE device_count] = dev]
          /\ device_count' = device_count + 1
          /\ device_last' = [op |-> "probe", arg |-> dev.id, res |-> "Ok", found |-> None]
          /\ probed' = probed \cup {dev.id}
    /\ UNCHANGED <<drivers, driver_count, last>>

(* Mutation: probe_device without the capacity check. *)
ProbeDeviceNoCapacityCheck(dev) ==
    /\ devices' = [devices EXCEPT ![device_count + 1] = dev]
    /\ device_count' = device_count + 1
    /\ device_last' = [op |-> "probe", arg |-> dev.id, res |-> "Ok", found |-> None]
    /\ probed' = probed \cup {dev.id}
    /\ UNCHANGED <<drivers, driver_count, last>>

(* probe_device: NoMemory at capacity, otherwise append a copy. *)
ProbeDevice(dev) ==
    /\ \/ /\ device_count >= MaxDevices
          /\ device_last' = [op |-> "probe", arg |-> dev.id, res |-> "NoMemory", found |-> None]
          /\ UNCHANGED <<devices, device_count, probed>>
       \/ /\ device_count < MaxDevices
          /\ devices' = [devices EXCEPT ![device_count + 1] = dev]
          /\ device_count' = device_count + 1
          /\ device_last' = [op |-> "probe", arg |-> dev.id, res |-> "Ok", found |-> None]
          /\ probed' = probed \cup {dev.id}
    /\ UNCHANGED <<drivers, driver_count, last>>

(* The slots get_device's find_map visits before it stops. *)
DeviceMatches(id) == {i \in DeviceSlots : devices[i] # None /\ devices[i].id = id}

(* get_device: the record in the first slot holding the id, or None. *)
GetDevice(id) ==
    /\ device_last' =
         [op |-> "get", arg |-> id, res |-> "Ok",
          found |-> IF DeviceMatches(id) = {} THEN None
                    ELSE devices[CHOOSE i \in DeviceMatches(id) :
                                   \A j \in DeviceMatches(id) : i <= j]]
    /\ UNCHANGED <<drivers, driver_count, last, devices, device_count, probed>>

ManagerNext ==
    \/ \E d \in Descriptor : RegisterDriver(d)
    \/ \E id \in DriverIds : (Unregister(id) \/ Find(id)) /\ UNCHANGED DeviceVars
    \/ \E min \in Priorities \cup {0} : GetByPriority(min) /\ UNCHANGED DeviceVars
    \/ \E dev \in Device : ProbeDevice(dev)
    \/ \E id \in DeviceIds : GetDevice(id)

ManagerSpec == ManagerInit /\ [][ManagerNext]_mvars

-----------------------------------------------------------------------------
(* Properties                                                              *)

(* The device table is append-only: no step changes a record probe_device *)
(* has stored (spec section 3: a device is never mutated but for status,  *)
(* and this code has no call that changes status in the table).            *)
DevicesAppendOnly ==
    [][\A i \in 1..device_count : devices'[i] = devices[i]]_devices

(* get_device finds a record for exactly the ids probe_device accepted:  *)
(* no later probe, registry call or lookup ever loses an accepted device   *)
(* (the table only grows; spec section 3 says a device leaves it only when *)
(* its driver's remove completes, which this code never reports).          *)
DeviceFoundIffProbed ==
    device_last.op = "get" =>
        ((device_last.found # None) <=> device_last.arg \in probed)

=============================================================================
