------------------------ MODULE DriverManagerProofs ------------------------
(***************************************************************************)
(* Proofs that the driver manager's device table is well typed and that    *)
(* get_device finds exactly the ids probe_device accepted, for every       *)
(* MAX_DEVICES, every registry capacity and every set of ids.              *)
(*                                                                         *)
(* DeviceFoundIffProbed is not inductive by itself: a probe must land on a *)
(* free slot and a lookup must see every accepted id.  The strengthening   *)
(* adds that the filled slots are exactly 1..device_count (the append at   *)
(* index device_count never overwrites) and that `probed` is the set of    *)
(* ids stored there; the registry part is DriverRegistryProofs' IInv.      *)
(***************************************************************************)
EXTENDS DriverManager, DriverRegistryProofs, WellFoundedInduction

DeviceTypeOK ==
    /\ devices \in [DeviceSlots -> Device \cup {None}]
    /\ device_count \in 0..MaxDevices
    /\ device_last \in [op : {"none", "probe", "get"}, arg : Nat,
                        res : {"none", "Ok", "NoMemory"}, found : Device \cup {None}]
    /\ probed \subseteq DeviceIds

DevicesPrefix == \A i \in DeviceSlots : devices[i] # None <=> i <= device_count

ProbedStored ==
    \A id \in DeviceIds : id \in probed <=> \E i \in 1..device_count : devices[i].id = id

MIInv ==
    /\ IInv
    /\ DeviceTypeOK
    /\ DevicesPrefix
    /\ ProbedStored
    /\ DeviceFoundIffProbed

(* An element no element of T relates to is least in T, when the relation *)
(* holds of every smaller pair.                                            *)
LEMMA LeastFromRelation ==
    ASSUME NEW T, T \subseteq Nat, NEW R, NEW x \in T,
           \A y \in T : ~(<<y, x>> \in R),
           \A y \in T : y < x => <<y, x>> \in R
    PROVE  \A y \in T : x <= y
<1> SUFFICES ASSUME NEW y \in T PROVE x <= y
    OBVIOUS
<1>1. ~(y < x)
    BY Zenon
<1>2. QED
    BY <1>1, SMT

(* A nonempty set of slots has a least element (natural numbers are well  *)
(* founded); get_device's CHOOSE of the first match therefore picks one.   *)
LEMMA FirstSlotExists ==
    ASSUME NEW T, T \subseteq Nat, T # {}
    PROVE  \E i \in T : \A j \in T : i <= j
<1> DEFINE Less == OpToRel(<, Nat)
<1>1. \E x \in T : \A y \in T : ~(<<y, x>> \in Less)
    BY NatLessThanWellFounded, WFMin
<1>2. PICK x \in T : \A y \in T : ~(<<y, x>> \in Less)
    BY <1>1
<1>3. \A y \in T : y < x => <<y, x>> \in Less
    BY Zenon DEF Less, OpToRel
<1>4. \A y \in T : x <= y
    BY <1>2, <1>3, LeastFromRelation, Zenon
<1>5. QED
    BY <1>4, Zenon

LEMMA InitMIInv == ManagerInit => MIInv
<1> SUFFICES ASSUME ManagerInit PROVE MIInv
    OBVIOUS
<1>1. IInv
    BY InitIInv DEF ManagerInit
<1>2. DeviceTypeOK
    BY MaxDevicesAssumption DEF ManagerInit, DeviceTypeOK
<1>3. DevicesPrefix /\ ProbedStored /\ DeviceFoundIffProbed
    BY MaxDevicesAssumption DEF ManagerInit, DevicesPrefix, DeviceSlots, ProbedStored,
                                DeviceFoundIffProbed
<1>4. QED
    BY <1>1, <1>2, <1>3 DEF MIInv

(* A registry call leaves the device table, and so its part, alone. *)
LEMMA DevicePartUnchanged ==
    ASSUME MIInv, UNCHANGED DeviceVars
    PROVE  (DeviceTypeOK /\ DevicesPrefix /\ ProbedStored /\ DeviceFoundIffProbed)'
BY DEF MIInv, DeviceVars, DeviceTypeOK, DevicesPrefix, ProbedStored, DeviceFoundIffProbed

(* probe_device keeps the invariant: the append fills the first free slot. *)
LEMMA ProbeMIInv ==
    ASSUME MIInv, NEW dev \in Device, ProbeDevice(dev)
    PROVE  MIInv'
<1> USE DEF MIInv
<1>1. IInv'
    BY DEF ProbeDevice, IInv, TypeOK, RegistryCompact, RegisteredUniqueAndValid, Live,
           BusyOnlyForLiveDriver, MatchesPriority
<1>2. dev.id \in Nat /\ dev # None
    BY DeviceIdsAssumption, DeviceNoneAssumption DEF Device
<1>3. CASE device_count >= MaxDevices
    BY <1>1, <1>2, <1>3, MaxDevicesAssumption
       DEF ProbeDevice, DeviceTypeOK, DevicesPrefix, ProbedStored, DeviceFoundIffProbed
<1>4. CASE device_count < MaxDevices
    <2>1. /\ devices' = [devices EXCEPT ![device_count + 1] = dev]
          /\ device_count' = device_count + 1
          /\ device_last' = [op |-> "probe", arg |-> dev.id, res |-> "Ok", found |-> None]
          /\ probed' = probed \cup {dev.id}
        BY <1>4, MaxDevicesAssumption DEF ProbeDevice, DeviceTypeOK
    <2>2. device_count + 1 \in DeviceSlots /\ device_count \in Nat
        BY <1>4, MaxDevicesAssumption DEF DeviceTypeOK, DeviceSlots
    <2>3. DeviceTypeOK'
        BY <1>2, <2>1, <2>2 DEF DeviceTypeOK, DeviceSlots, Device
    <2>4. DevicesPrefix'
        BY <1>2, <2>1, <2>2 DEF DevicesPrefix, DeviceTypeOK, DeviceSlots
    <2>5. ProbedStored'
        <3> SUFFICES ASSUME NEW id \in DeviceIds
                     PROVE  id \in probed' <=> \E i \in 1..device_count' : devices'[i].id = id
            BY DEF ProbedStored
        <3>1. \A i \in 1..device_count : devices'[i] = devices[i]
            BY <2>1, <2>2 DEF DeviceTypeOK, DeviceSlots
        <3>2. devices'[device_count + 1] = dev
            BY <2>1, <2>2 DEF DeviceTypeOK
        <3>3. 1..device_count' = (1..device_count) \cup {device_count + 1}
            BY <2>1, <2>2
        <3>4. QED
            BY <2>1, <3>1, <3>2, <3>3 DEF ProbedStored
    <2>6. DeviceFoundIffProbed'
        BY <2>1 DEF DeviceFoundIffProbed
    <2>7. QED
        BY <1>1, <2>3, <2>4, <2>5, <2>6
<1>5. QED
    BY <1>3, <1>4, MaxDevicesAssumption DEF DeviceTypeOK

(* get_device keeps the invariant: a lookup of a probed id picks the      *)
(* record of the first slot holding it, so it finds something exactly     *)
(* when some stored record carries the id.                                 *)
LEMMA GetDeviceMIInv ==
    ASSUME MIInv, NEW id \in DeviceIds, GetDevice(id)
    PROVE  MIInv'
<1> USE DEF MIInv
<1>1. IInv'
    BY DEF GetDevice, IInv, TypeOK, RegistryCompact, RegisteredUniqueAndValid, Live,
           BusyOnlyForLiveDriver, MatchesPriority
<1>2. UNCHANGED <<devices, device_count, probed>>
    BY DEF GetDevice
<1>3. (id \in probed) <=> DeviceMatches(id) # {}
    <2>1. device_count \in 0..MaxDevices
        BY DEF DeviceTypeOK
    <2>2. \A i \in DeviceSlots : (devices[i] # None) <=> i \in 1..device_count
        BY <2>1 DEF DevicesPrefix, DeviceSlots
    <2>3. 1..device_count \subseteq DeviceSlots
        BY <2>1, MaxDevicesAssumption DEF DeviceSlots
    <2>4. DeviceMatches(id) = {i \in 1..device_count : devices[i].id = id}
        BY <2>2, <2>3 DEF DeviceMatches
    <2>5. QED
        BY <2>4 DEF ProbedStored
<1>4. CASE DeviceMatches(id) = {}
    <2>1. device_last' = [op |-> "get", arg |-> id, res |-> "Ok", found |-> None]
        BY <1>4 DEF GetDevice
    <2>2. QED
        BY <1>1, <1>2, <1>3, <1>4, <2>1, DeviceIdsAssumption
           DEF DeviceTypeOK, DevicesPrefix, ProbedStored, DeviceFoundIffProbed
<1>5. CASE DeviceMatches(id) # {}
    <2> DEFINE first == CHOOSE i \in DeviceMatches(id) : \A j \in DeviceMatches(id) : i <= j
    <2>1. DeviceMatches(id) \subseteq Nat
        BY MaxDevicesAssumption DEF DeviceMatches, DeviceSlots
    <2>2. first \in DeviceMatches(id)
        BY <1>5, <2>1, FirstSlotExists
    <2>3. devices[first] \in Device
        BY <2>2 DEF DeviceMatches, DeviceTypeOK
    <2>4. device_last' = [op |-> "get", arg |-> id, res |-> "Ok", found |-> devices[first]]
        BY <1>5 DEF GetDevice
    <2>5. devices[first] # None
        BY <2>3, DeviceNoneAssumption
    <2>6. QED
        BY <1>1, <1>2, <1>3, <1>5, <2>3, <2>4, <2>5, DeviceIdsAssumption
           DEF DeviceTypeOK, DevicesPrefix, ProbedStored, DeviceFoundIffProbed
<1>6. QED
    BY <1>4, <1>5

(* Every manager step, and a stutter, keeps the invariant. *)
LEMMA NextMIInv == MIInv /\ [ManagerNext]_mvars => MIInv'
<1> SUFFICES ASSUME MIInv, [ManagerNext]_mvars PROVE MIInv'
    OBVIOUS
<1>1. CASE \E d \in Descriptor : RegisterDriver(d)
    BY <1>1, RegisterIInv, DevicePartUnchanged DEF RegisterDriver, MIInv
<1>2. CASE \E id \in DriverIds : (Unregister(id) \/ Find(id)) /\ UNCHANGED DeviceVars
    BY <1>2, UnregisterIInv, FindIInv, DevicePartUnchanged DEF MIInv
<1>3. CASE \E min \in Priorities \cup {0} : GetByPriority(min) /\ UNCHANGED DeviceVars
    BY <1>3, GetByPriorityIInv, DevicePartUnchanged DEF MIInv
<1>4. CASE \E dev \in Device : ProbeDevice(dev)
    BY <1>4, ProbeMIInv
<1>5. CASE \E id \in DeviceIds : GetDevice(id)
    BY <1>5, GetDeviceMIInv
<1>6. CASE UNCHANGED mvars
    <2>1. IInv'
        BY <1>6, NextIInv DEF mvars, vars, MIInv
    <2>2. QED
        BY <1>6, <2>1, DevicePartUnchanged DEF mvars, DeviceVars, MIInv
<1>7. QED
    BY <1>1, <1>2, <1>3, <1>4, <1>5, <1>6 DEF ManagerNext

(* The manager's invariant holds in every reachable state. *)
THEOREM MIInvHolds == ManagerSpec => []MIInv
BY InitMIInv, NextMIInv, PTL DEF ManagerSpec

(* Type correctness of the whole manager (registry and device table) for  *)
(* every MAX_DEVICES and registry capacity.                                *)
THEOREM ManagerTypeCorrect == ManagerSpec => []ManagerTypeOK
<1>1. MIInv => ManagerTypeOK
    BY DEF MIInv, IInv, ManagerTypeOK, DeviceTypeOK
<1>2. QED
    BY <1>1, MIInvHolds, PTL

(* get_device(id) finds a record exactly when probe_device accepted a     *)
(* device with that id earlier, whatever registry calls, probes past      *)
(* capacity and lookups came between: probe's append at device_count      *)
(* never overwrites, and nothing removes a device.                         *)
THEOREM DeviceFoundIffProbedHolds == ManagerSpec => []DeviceFoundIffProbed
BY MIInvHolds, PTL DEF MIInv

(* Every manager step either leaves the device table alone or writes only *)
(* past device_count: probe_device's append goes to the first free slot,  *)
(* and every other call, a probe at capacity included, stores nothing.     *)
LEMMA AppendOnlyStep ==
    MIInv /\ [ManagerNext]_mvars =>
        [\A i \in 1..device_count : devices'[i] = devices[i]]_devices
<1> SUFFICES ASSUME MIInv, [ManagerNext]_mvars
             PROVE  [\A i \in 1..device_count : devices'[i] = devices[i]]_devices
    OBVIOUS
<1>1. CASE \E dev \in Device : ProbeDevice(dev) /\ device_count < MaxDevices
    <2> PICK dev \in Device : ProbeDevice(dev) /\ device_count < MaxDevices
        BY <1>1
    <2>1. device_count \in Nat /\ devices \in [DeviceSlots -> Device \cup {None}]
        BY DEF MIInv, DeviceTypeOK
    <2>2. devices' = [devices EXCEPT ![device_count + 1] = dev]
        BY <2>1, MaxDevicesAssumption DEF ProbeDevice
    <2> QED
        BY <2>1, <2>2 DEF DeviceSlots
<1>2. CASE ~\E dev \in Device : ProbeDevice(dev) /\ device_count < MaxDevices
    <2>1. devices' = devices
        BY <1>2 DEF ManagerNext, RegisterDriver, DeviceVars, ProbeDevice, GetDevice, mvars
    <2> QED
        BY <2>1
<1> QED
    BY <1>1, <1>2

(* The action property the driver_manager run checks, for every           *)
(* MAX_DEVICES and registry capacity: no call ever changes a device record *)
(* probe_device has stored.                                                *)
THEOREM DevicesAppendOnlyHolds == ManagerSpec => DevicesAppendOnly
BY MIInvHolds, AppendOnlyStep, PTL DEF ManagerSpec, DevicesAppendOnly

=============================================================================
