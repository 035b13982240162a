----------------------------- MODULE RegistrySet -----------------------------
(***************************************************************************)
(* What the driver registry promises (spec 4.3), with no slots, count or   *)
(* order: the set of registered descriptors, at most MaxDrivers of them,   *)
(* one per driver_id, and the answer of the last call.                     *)
(*                                                                         *)
(*  - register refuses an invalid descriptor, then a full registry, then   *)
(*    an id already registered, and otherwise adds the descriptor;         *)
(*  - unregister removes the descriptor with the id, or refuses an unknown *)
(*    id;                                                                  *)
(*  - find and get_by_priority answer from the set and change nothing.     *)
(***************************************************************************)
EXTENDS Naturals, FiniteSets

CONSTANTS
    MaxDrivers,   \* capacity
    DriverIds,    \* driver_id values
    Priorities    \* priority values

Descriptor == [driver_id : DriverIds, named : BOOLEAN, probe : BOOLEAN,
               priority : Priorities]

Valid(d) == d.driver_id # 0 /\ d.named /\ d.probe

VARIABLES
    registered,   \* the registered descriptors
    last          \* the answer of the last call

rvars == <<registered, last>>

(* The ids registered now. *)
RegisteredIds == {e.driver_id : e \in registered}

Answer(op, arg, res) == [op |-> op, arg |-> arg, res |-> res, found |-> {}]

SetInit ==
    /\ registered = {}
    /\ last = Answer("none", 0, "none")

AddDriver(d) ==
    \/ /\ ~Valid(d)
       /\ last' = Answer("register", d.driver_id, "InvalidArg")
       /\ UNCHANGED registered
    \/ /\ Valid(d)
       /\ Cardinality(registered) >= MaxDrivers
       /\ last' = Answer("register", d.driver_id, "NoMemory")
       /\ UNCHANGED registered
    \/ /\ Valid(d)
       /\ Cardinality(registered) < MaxDrivers
       /\ d.driver_id \in RegisteredIds
       /\ last' = Answer("register", d.driver_id, "DeviceBusy")
       /\ UNCHANGED registered
    \/ /\ Valid(d)
       /\ Cardinality(registered) < MaxDrivers
       /\ d.driver_id \notin RegisteredIds
       /\ registered' = registered \cup {d}
       /\ last' = Answer("register", d.driver_id, "Ok")

RemoveDriver(id) ==
    \/ /\ id \in RegisteredIds
       /\ registered' = {e \in registered : e.driver_id # id}
       /\ last' = Answer("unregister", id, "Ok")
    \/ /\ id \notin RegisteredIds
       /\ last' = Answer("unregister", id, "InvalidArg")
       /\ UNCHANGED registered

LookUp(id) ==
    /\ last' = [op |-> "find", arg |-> id, res |-> "Ok", found |-> RegisteredIds \cap {id}]
    /\ UNCHANGED registered

AtPriority(min) ==
    /\ last' = [op |-> "priority", arg |-> min, res |-> "Ok",
                found |-> {e.driver_id : e \in {f \in registered : f.priority >= min}}]
    /\ UNCHANGED registered

SetNext ==
    \/ \E d \in Descriptor : AddDriver(d)
    \/ \E id \in DriverIds : RemoveDriver(id) \/ LookUp(id)
    \/ \E min \in Priorities \cup {0} : AtPriority(min)

SetSpec == SetInit /\ [][SetNext]_rvars

=============================================================================
