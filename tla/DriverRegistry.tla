--------------------------- MODULE DriverRegistry ---------------------------
(***************************************************************************)
(* The driver registry of the kernel HAL                                   *)
(* (src/kernel/hal/driver/registry.rs, descriptor.rs).                     *)
(*                                                                         *)
(* The registry keeps MAX_DRIVERS optional descriptor slots and a count.   *)
(* register appends at index driver_count after validating the descriptor, *)
(* checking capacity and scanning the WHOLE array for the driver_id.       *)
(* unregister removes the first entry with the id and closes the gap       *)
(* (`self.drivers.remove(pos)`), keeping the order of the others; the      *)
(* array keeps its length, so the freed last slot becomes None.  A         *)
(* descriptor is abstracted to what the registry reads: its id, whether    *)
(* the name pointer is non-null, whether probe is present, its priority.   *)
(***************************************************************************)
EXTENDS Naturals

CONSTANTS
    MaxDrivers,   \* MAX_DRIVERS (256 in the code)
    DriverIds,    \* driver_id values drivers present (0 among them)
    Priorities,   \* priority values
    None          \* the empty slot

ASSUME MaxDriversAssumption == MaxDrivers \in Nat \ {0}
ASSUME IdsAssumption == DriverIds \subseteq Nat /\ Priorities \subseteq Nat

Descriptor == [driver_id : DriverIds, named : BOOLEAN, probe : BOOLEAN,
               priority : Priorities]

ASSUME NoneAssumption == None \notin Descriptor

Slots == 1..MaxDrivers

VARIABLES
    drivers,        \* slot -> Descriptor or None
    driver_count,   \* number of registered drivers
    last            \* the result of the last call

vars == <<drivers, driver_count, last>>

Results == {"none", "Ok", "InvalidArg", "NoMemory", "DeviceBusy"}

TypeOK ==
    /\ drivers \in [Slots -> Descriptor \cup {None}]
    /\ driver_count \in 0..MaxDrivers
    /\ last \in [op : {"none", "register", "unregister", "find", "priority"},
                 arg : Nat, res : Results, found : SUBSET DriverIds]

(* DriverDescriptor::validate (descriptor.rs 38-52) *)
Valid(d) == d.driver_id # 0 /\ d.named /\ d.probe

Live == {i \in Slots : drivers[i] # None}

HasId(id) == \E i \in Live : drivers[i].driver_id = id

(* DriverRegistry::new *)
Init ==
    /\ drivers = [i \in Slots |-> None]
    /\ driver_count = 0
    /\ last = [op |-> "none", arg |-> 0, res |-> "none", found |-> {}]

Ret(op, arg, res) == [op |-> op, arg |-> arg, res |-> res, found |-> {}]

(* Mutation: register without the duplicate scan. *)
RegisterNoDupCheck(d) ==
    \/ /\ ~Valid(d)
       /\ last' = Ret("register", d.driver_id, "InvalidArg")
       /\ UNCHANGED <<drivers, driver_count>>
    \/ /\ Valid(d)
       /\ driver_count < MaxDrivers
       /\ drivers' = [drivers EXCEPT ![driver_count + 1] = d]
       /\ driver_count' = driver_count + 1
       /\ last' = Ret("register", d.driver_id, "Ok")

(* Mutation: register without the capacity check. *)
RegisterNoCapacityCheck(d) ==
    \/ /\ ~Valid(d)
       /\ last' = Ret("register", d.driver_id, "InvalidArg")
       /\ UNCHANGED <<drivers, driver_count>>
    \/ /\ Valid(d)
       /\ HasId(d.driver_id)
       /\ last' = Ret("register", d.driver_id, "DeviceBusy")
       /\ UNCHANGED <<drivers, driver_count>>
    \/ /\ Valid(d)
       /\ ~HasId(d.driver_id)
       /\ drivers' = [drivers EXCEPT ![driver_count + 1] = d]
       /\ driver_count' = driver_count + 1
       /\ last' = Ret("register", d.driver_id, "Ok")

(* register: validate, then capacity, then the duplicate scan over the    *)
(* whole array, then the store at index driver_count.                      *)
Register(d) ==
    \/ /\ ~Valid(d)
       /\ last' = Ret("register", d.driver_id, "InvalidArg")
       /\ UNCHANGED <<drivers, driver_count>>
    \/ /\ Valid(d)
       /\ driver_count >= MaxDrivers
       /\ last' = Ret("register", d.driver_id, "NoMemory")
       /\ UNCHANGED <<drivers, driver_count>>
    \/ /\ Valid(d)
       /\ driver_count < MaxDrivers
       /\ HasId(d.driver_id)
       /\ last' = Ret("register", d.driver_id, "DeviceBusy")
       /\ UNCHANGED <<drivers, driver_count>>
    \/ /\ Valid(d)
       /\ driver_count < MaxDrivers
       /\ ~HasId(d.driver_id)
       /\ drivers' = [drivers EXCEPT ![driver_count + 1] = d]
       /\ driver_count' = driver_count + 1
       /\ last' = Ret("register", d.driver_id, "Ok")

(* Mutation: the gap closed by shifting, but the last slot left holding    *)
(* its old descriptor.                                                     *)
RemoveAtNoClear(pos) ==
    [k \in Slots |-> IF k < pos THEN drivers[k]
                     ELSE IF k < MaxDrivers THEN drivers[k + 1]
                     ELSE drivers[k]]

(* Mutation: the slot emptied in place, the gap left open. *)
RemoveAtNoShift(pos) == [drivers EXCEPT ![pos] = None]

(* The array after `remove(pos)`: entries after pos move down one, the     *)
(* last slot is emptied.                                                   *)
RemoveAt(pos) ==
    [k \in Slots |-> IF k < pos THEN drivers[k]
                     ELSE IF k < MaxDrivers THEN drivers[k + 1]
                     ELSE None]

(* The position `iter().position` finds: the first live slot with the id. *)
FirstPos(id) == CHOOSE i \in Live : drivers[i].driver_id = id
                                    /\ \A j \in Live : drivers[j].driver_id = id => i <= j

(* unregister: remove at the first slot with the id, or InvalidArg. *)
Unregister(id) ==
    \/ /\ HasId(id)
       /\ drivers' = RemoveAt(FirstPos(id))
       /\ driver_count' = driver_count - 1
       /\ last' = Ret("unregister", id, "Ok")
    \/ /\ ~HasId(id)
       /\ last' = Ret("unregister", id, "InvalidArg")
       /\ UNCHANGED <<drivers, driver_count>>

(* find: linear lookup, answering whether a descriptor was found. *)
Find(id) ==
    /\ last' = [op |-> "find", arg |-> id, res |-> "Ok",
                found |-> {drivers[i].driver_id : i \in {j \in Live : drivers[j].driver_id = id}}]
    /\ UNCHANGED <<drivers, driver_count>>

(* The filter of get_by_priority. *)
MatchesPriority(d, min) == d.priority >= min

(* get_by_priority: every slot's descriptor whose priority is at least min. *)
GetByPriority(min) ==
    /\ last' = [op |-> "priority", arg |-> min, res |-> "Ok",
                found |-> {drivers[i].driver_id :
                             i \in {j \in Live : MatchesPriority(drivers[j], min)}}]
    /\ UNCHANGED <<drivers, driver_count>>

Next ==
    \/ \E d \in Descriptor : Register(d)
    \/ \E id \in DriverIds : Unregister(id) \/ Find(id)
    \/ \E min \in Priorities \cup {0} : GetByPriority(min)

Spec == Init /\ [][Next]_vars

-----------------------------------------------------------------------------
(* Properties                                                              *)

(* The registered drivers fill exactly the slots 1..driver_count: register *)
(* stores at index driver_count, so after any sequence of registrations    *)
(* and unregistrations that store never lands on a live entry and never   *)
(* leaves a hole.                                                          *)
RegistryCompact ==
    \A i \in Slots : (drivers[i] # None) <=> i <= driver_count

(* Every registered descriptor passed validation and no two share a        *)
(* driver_id: one driver identity, one registration (spec 4.3).            *)
RegisteredUniqueAndValid ==
    \A i, j \in Live :
        /\ Valid(drivers[i])
        /\ (drivers[i].driver_id = drivers[j].driver_id => i = j)

(* register answers DeviceBusy only for an id that is registered now:      *)
(* registering, unregistering and registering the same driver_id again     *)
(* succeeds (spec section 8, round trip), since the duplicate scan covers  *)
(* the whole array, slots past driver_count included.                      *)
BusyOnlyForLiveDriver ==
    (last.op = "register" /\ last.res = "DeviceBusy") =>
        \E i \in 1..driver_count : drivers[i].driver_id = last.arg


-----------------------------------------------------------------------------
(* Refinement: the registry as the set of descriptors in its live slots.   *)

(* The registered descriptors: those in the live slots, positions hidden. *)
RegisteredSet == {drivers[i] : i \in Live}

Directory == INSTANCE RegistrySet WITH registered <- RegisteredSet

(* The slot array implements the abstract registry: every register,       *)
(* unregister, find and get_by_priority answers as the set of registered   *)
(* descriptors says, and changes that set as the abstract call does.  So   *)
(* the capacity check on driver_count counts the registered drivers, the  *)
(* shift of unregister drops exactly the descriptor with the id, and no    *)
(* sequence of calls resurrects or duplicates a descriptor.                *)
ImplementsRegistrySet == Directory!SetSpec

=============================================================================
