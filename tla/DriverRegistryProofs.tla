------------------------ MODULE DriverRegistryProofs ------------------------
(***************************************************************************)
(* Proofs that the driver registry's invariants hold for every capacity    *)
(* and every set of ids and priorities.                                    *)
(*                                                                         *)
(* The conjunction of the run's invariants is itself inductive:            *)
(* RegistryCompact pins the live slots to 1..driver_count, which is what   *)
(* register's store at index driver_count and the shift of unregister     *)
(* need; RegisteredUniqueAndValid makes the slot unregister removes the    *)
(* only one with the id.                                                   *)
(***************************************************************************)
EXTENDS DriverRegistry, FiniteSetTheorems, TLAPS

IInv ==
    /\ TypeOK
    /\ RegistryCompact
    /\ RegisteredUniqueAndValid
    /\ BusyOnlyForLiveDriver

(* With the registry compact, the live slots are 1..driver_count. *)
LEMMA LiveIsPrefix ==
    ASSUME TypeOK, RegistryCompact
    PROVE  Live = 1..driver_count
BY MaxDriversAssumption DEF TypeOK, RegistryCompact, Live, Slots

(* With ids unique, the position unregister finds is the slot with the id. *)
LEMMA FirstPosIsMatch ==
    ASSUME TypeOK, RegisteredUniqueAndValid, NEW id, HasId(id)
    PROVE  /\ FirstPos(id) \in Live
           /\ drivers[FirstPos(id)].driver_id = id
<1>1. PICK i \in Live : drivers[i].driver_id = id
    BY DEF HasId
<1>2. \A j \in Live : drivers[j].driver_id = id => i <= j
    BY <1>1 DEF RegisteredUniqueAndValid, Live, Slots
<1>3. QED
    BY <1>1, <1>2 DEF FirstPos

(* Removing a live slot of a compact registry shifts the later entries    *)
(* down one and leaves it compact with one entry fewer.                    *)
LEMMA RemoveAtCompact ==
    ASSUME TypeOK, RegistryCompact, NEW pos \in 1..driver_count
    PROVE  /\ RemoveAt(pos) \in [Slots -> Descriptor \cup {None}]
           /\ \A k \in Slots : (RemoveAt(pos)[k] # None) <=> k <= driver_count - 1
           /\ \A k \in 1..(driver_count - 1) :
                  RemoveAt(pos)[k] = drivers[IF k < pos THEN k ELSE k + 1]
<1>1. RemoveAt(pos) \in [Slots -> Descriptor \cup {None}]
    BY MaxDriversAssumption DEF RemoveAt, TypeOK, Slots
<1>2. ASSUME NEW k \in Slots
      PROVE  (RemoveAt(pos)[k] # None) <=> k <= driver_count - 1
    <2>1. CASE k < pos
        <3>1. RemoveAt(pos)[k] = drivers[k]
            BY MaxDriversAssumption, <2>1 DEF RemoveAt
        <3>2. QED
            BY MaxDriversAssumption, <2>1, <3>1 DEF TypeOK, RegistryCompact, Slots
    <2>2. CASE pos <= k /\ k < MaxDrivers
        <3>1. RemoveAt(pos)[k] = drivers[k + 1]
            BY MaxDriversAssumption, <2>2 DEF RemoveAt, Slots
        <3>2. k + 1 \in Slots
            BY MaxDriversAssumption, <2>2 DEF Slots
        <3>3. QED
            BY MaxDriversAssumption, <2>2, <3>1, <3>2 DEF TypeOK, RegistryCompact, Slots
    <2>3. CASE pos <= k /\ k >= MaxDrivers
        <3>1. RemoveAt(pos)[k] = None
            BY MaxDriversAssumption, <2>3 DEF RemoveAt, Slots
        <3>2. QED
            BY MaxDriversAssumption, <2>3, <3>1 DEF TypeOK, Slots
    <2>4. QED
        BY MaxDriversAssumption, <2>1, <2>2, <2>3 DEF Slots
<1>3. ASSUME NEW k \in 1..(driver_count - 1)
      PROVE  RemoveAt(pos)[k] = drivers[IF k < pos THEN k ELSE k + 1]
    <2>1. k \in Slots /\ k < MaxDrivers
        BY MaxDriversAssumption DEF TypeOK, Slots
    <2>2. CASE k < pos
        BY MaxDriversAssumption, <2>1, <2>2 DEF RemoveAt
    <2>3. CASE ~(k < pos)
        BY MaxDriversAssumption, <2>1, <2>3 DEF RemoveAt
    <2>4. QED
        BY <2>2, <2>3
<1>4. QED
    BY <1>1, <1>2, <1>3


LEMMA InitIInv == Init => IInv
<1> SUFFICES ASSUME Init PROVE IInv
    OBVIOUS
<1>1. TypeOK
    <2>1. drivers \in [Slots -> Descriptor \cup {None}]
        BY DEF Init
    <2>2. driver_count \in 0..MaxDrivers
        BY MaxDriversAssumption DEF Init
    <2>3. last \in [op : {"none", "register", "unregister", "find", "priority"},
                    arg : Nat, res : Results, found : SUBSET DriverIds]
        BY DEF Init, Results
    <2>4. QED
        BY <2>1, <2>2, <2>3 DEF TypeOK
<1>2. RegistryCompact
    BY MaxDriversAssumption DEF Init, RegistryCompact, Slots
<1>3. RegisteredUniqueAndValid
    BY DEF Init, RegisteredUniqueAndValid, Live
<1>4. QED
    BY <1>1, <1>2, <1>3 DEF Init, IInv, BusyOnlyForLiveDriver

(* The calls that leave the table alone and answer something other than   *)
(* DeviceBusy or a priority query keep the invariant.                      *)
LEMMA QuietStep ==
    ASSUME IInv, NEW op \in {"register", "unregister"}, NEW arg \in Nat,
           NEW res \in Results \ {"DeviceBusy"},
           last' = Ret(op, arg, res), UNCHANGED <<drivers, driver_count>>
    PROVE  IInv'
BY DEF IInv, TypeOK, RegistryCompact, RegisteredUniqueAndValid, Live,
       BusyOnlyForLiveDriver, Ret, Results

(* register keeps the invariant; only its Ok path changes the table. *)
LEMMA RegisterIInv ==
    ASSUME IInv, NEW d \in Descriptor, Register(d)
    PROVE  IInv'
<1>1. d.driver_id \in Nat
    BY IdsAssumption DEF Descriptor
<1>2. CASE ~Valid(d) /\ last' = Ret("register", d.driver_id, "InvalidArg")
                     /\ UNCHANGED <<drivers, driver_count>>
    BY <1>1, <1>2, QuietStep DEF Results
<1>3. CASE driver_count >= MaxDrivers /\ last' = Ret("register", d.driver_id, "NoMemory")
                                      /\ UNCHANGED <<drivers, driver_count>>
    BY <1>1, <1>3, QuietStep DEF Results
<1>4. CASE HasId(d.driver_id) /\ last' = Ret("register", d.driver_id, "DeviceBusy")
                              /\ UNCHANGED <<drivers, driver_count>>
    <2>1. Live = 1..driver_count
        BY LiveIsPrefix DEF IInv
    <2>2. \E i \in 1..driver_count : drivers[i].driver_id = d.driver_id
        BY <1>4, <2>1 DEF HasId
    <2>3. QED
        BY <1>1, <1>4, <2>2 DEF IInv, TypeOK, RegistryCompact, RegisteredUniqueAndValid,
                                Live, BusyOnlyForLiveDriver, Ret, Results
<1>5. CASE /\ Valid(d) /\ driver_count < MaxDrivers /\ ~HasId(d.driver_id)
           /\ drivers' = [drivers EXCEPT ![driver_count + 1] = d]
           /\ driver_count' = driver_count + 1
           /\ last' = Ret("register", d.driver_id, "Ok")
    <2>1. d # None
        BY NoneAssumption
    <2>2. TypeOK'
        BY <1>1, <1>5, MaxDriversAssumption DEF IInv, TypeOK, Slots, Ret, Results
    <2>3. RegistryCompact'
        BY <1>5, <2>1, MaxDriversAssumption DEF IInv, TypeOK, RegistryCompact, Slots
    <2>4. Live' = 1..(driver_count + 1)
        BY <1>5, <2>2, <2>3, MaxDriversAssumption DEF TypeOK, RegistryCompact, Live, Slots
    <2>5. Live = 1..driver_count
        BY LiveIsPrefix DEF IInv
    <2>8. \A i \in 1..driver_count : drivers'[i] = drivers[i] /\ drivers[i].driver_id # d.driver_id
        BY <1>5, <2>5 DEF IInv, TypeOK, HasId, Slots
    <2>6. RegisteredUniqueAndValid'
        BY <1>5, <2>4, <2>8, MaxDriversAssumption
           DEF IInv, TypeOK, RegisteredUniqueAndValid, Slots, Live
    <2>7. QED
        BY <1>5, <2>2, <2>3, <2>6 DEF IInv, BusyOnlyForLiveDriver, Ret
<1>6. QED
    BY <1>2, <1>3, <1>4, <1>5 DEF Register

(* unregister keeps the invariant: the shift of remove(pos) moves every    *)
(* later entry down one slot, so the live entries stay a prefix and keep   *)
(* distinct ids.                                                           *)
LEMMA UnregisterIInv ==
    ASSUME IInv, NEW id \in DriverIds, Unregister(id)
    PROVE  IInv'
<1>1. id \in Nat
    BY IdsAssumption
<1>2. CASE ~HasId(id) /\ last' = Ret("unregister", id, "InvalidArg")
                      /\ UNCHANGED <<drivers, driver_count>>
    BY <1>1, <1>2, QuietStep DEF Results
<1>3. CASE /\ HasId(id)
           /\ drivers' = RemoveAt(FirstPos(id))
           /\ driver_count' = driver_count - 1
           /\ last' = Ret("unregister", id, "Ok")
    <2> DEFINE pos == FirstPos(id)
               src(k) == IF k < pos THEN k ELSE k + 1
    <2>1. Live = 1..driver_count
        BY LiveIsPrefix DEF IInv
    <2>2. pos \in 1..driver_count /\ drivers[pos].driver_id = id
        BY <1>3, <2>1, FirstPosIsMatch DEF IInv
    <2>3. /\ RemoveAt(pos) \in [Slots -> Descriptor \cup {None}]
          /\ \A k \in Slots : (RemoveAt(pos)[k] # None) <=> k <= driver_count - 1
          /\ \A k \in 1..(driver_count - 1) : RemoveAt(pos)[k] = drivers[src(k)]
        BY <2>2, RemoveAtCompact DEF IInv
    <2>4. TypeOK'
        BY <1>1, <1>3, <2>2, <2>3, MaxDriversAssumption DEF IInv, TypeOK, Ret, Results
    <2>5. RegistryCompact'
        BY <1>3, <2>3 DEF RegistryCompact
    <2>6. Live' = 1..(driver_count - 1)
        BY <1>3, <2>2, <2>3, MaxDriversAssumption DEF IInv, TypeOK, Live, Slots
    <2>7. \A k \in 1..(driver_count - 1) :
              /\ src(k) \in 1..driver_count
              /\ drivers'[k] = drivers[src(k)]
        BY <1>3, <2>2, <2>3 DEF IInv, TypeOK
    <2>8. \A k, m \in 1..(driver_count - 1) : src(k) = src(m) => k = m
        BY <2>2 DEF IInv, TypeOK
    <2>9. RegisteredUniqueAndValid'
        <3> SUFFICES ASSUME NEW i \in Live', NEW j \in Live'
                     PROVE  /\ Valid(drivers'[i])
                            /\ (drivers'[i].driver_id = drivers'[j].driver_id => i = j)
            BY DEF RegisteredUniqueAndValid
        <3>1. i \in 1..(driver_count - 1) /\ j \in 1..(driver_count - 1)
            BY <2>6
        <3>2. src(i) \in Live /\ src(j) \in Live
            BY <3>1, <2>1, <2>7
        <3>3. drivers'[i] = drivers[src(i)] /\ drivers'[j] = drivers[src(j)]
            BY <3>1, <2>7
        <3>4. /\ Valid(drivers[src(i)])
              /\ (drivers[src(i)].driver_id = drivers[src(j)].driver_id => src(i) = src(j))
            BY <3>2 DEF IInv, RegisteredUniqueAndValid
        <3>5. QED
            BY <3>1, <3>3, <3>4, <2>8
    <2>10. QED
        BY <1>3, <2>4, <2>5, <2>9 DEF IInv, BusyOnlyForLiveDriver, Ret
<1>4. QED
    BY <1>2, <1>3 DEF Unregister

(* find changes only the answer. *)
LEMMA FindIInv ==
    ASSUME IInv, NEW id \in DriverIds, Find(id)
    PROVE  IInv'
<1>1. \A i \in Live : drivers[i] \in Descriptor
    BY DEF IInv, TypeOK, Live
<1>2. TypeOK'
    BY <1>1, IdsAssumption DEF Find, IInv, TypeOK, Results, Descriptor
<1>3. QED
    BY <1>2 DEF Find, IInv, RegistryCompact, RegisteredUniqueAndValid, Live,
                BusyOnlyForLiveDriver

(* get_by_priority changes only the answer. *)
LEMMA GetByPriorityIInv ==
    ASSUME IInv, NEW min \in Priorities \cup {0}, GetByPriority(min)
    PROVE  IInv'
<1>1. \A i \in Live : drivers[i] \in Descriptor
    BY DEF IInv, TypeOK, Live
<1>2. TypeOK'
    BY <1>1, IdsAssumption DEF GetByPriority, IInv, TypeOK, Results, Descriptor
<1>3. QED
    BY <1>2 DEF GetByPriority, IInv, RegistryCompact, RegisteredUniqueAndValid, Live,
                      BusyOnlyForLiveDriver

(* Every step of the registry, and a stutter, keeps the invariant. *)
LEMMA NextIInv == IInv /\ [Next]_vars => IInv'
<1> SUFFICES ASSUME IInv, [Next]_vars PROVE IInv'
    OBVIOUS
<1>1. CASE \E d \in Descriptor : Register(d)
    BY <1>1, RegisterIInv
<1>2. CASE \E id \in DriverIds : Unregister(id) \/ Find(id)
    BY <1>2, UnregisterIInv, FindIInv
<1>3. CASE \E min \in Priorities \cup {0} : GetByPriority(min)
    BY <1>3, GetByPriorityIInv
<1>4. CASE UNCHANGED vars
    BY <1>4 DEF vars, IInv, TypeOK, RegistryCompact, RegisteredUniqueAndValid, Live,
                HasId, BusyOnlyForLiveDriver
<1>5. QED
    BY <1>1, <1>2, <1>3, <1>4 DEF Next

(* The registry's invariant holds in every reachable state. *)
THEOREM IInvHolds == Spec => []IInv
BY InitIInv, NextIInv, PTL DEF Spec

(* Type correctness of the registry for every capacity. *)
THEOREM RegistryTypeCorrect == Spec => []TypeOK
BY IInvHolds, PTL DEF IInv

(* After any sequence of register and unregister calls the live entries    *)
(* fill exactly slots 1..driver_count: register's store at driver_count    *)
(* never lands on a live entry, unregister's shift never leaves a hole.    *)
THEOREM RegistryCompactHolds == Spec => []RegistryCompact
BY IInvHolds, PTL DEF IInv

(* No two registered drivers share a driver_id and every registered        *)
(* descriptor passed validate, for every capacity and id set.              *)
THEOREM RegisteredUniqueHolds == Spec => []RegisteredUniqueAndValid
BY IInvHolds, PTL DEF IInv

(* register answers DeviceBusy only for an id registered now, so the       *)
(* register/unregister/register round trip succeeds.                       *)
THEOREM BusyOnlyHolds == Spec => []BusyOnlyForLiveDriver
BY IInvHolds, PTL DEF IInv


-----------------------------------------------------------------------------
(* Refinement of RegistrySet.  With the registry compact and ids unique,   *)
(* slot i <- drivers[i] is a bijection from 1..driver_count onto the       *)
(* registered set, so the capacity check on driver_count is the abstract   *)
(* check on the set's cardinality, and a live id is an id of the set.      *)

(* driver_count counts the registered descriptors. *)
LEMMA RegisteredCount ==
    ASSUME IInv
    PROVE  /\ IsFiniteSet(RegisteredSet)
           /\ Cardinality(RegisteredSet) = driver_count
<1> DEFINE n == driver_count
           f == [i \in 1..n |-> drivers[i]]
<1>1. Live = 1..n
    BY LiveIsPrefix DEF IInv
<1>2. n \in Nat
    BY DEF IInv, TypeOK
<1>3. f \in [1..n -> RegisteredSet]
    BY <1>1 DEF RegisteredSet
<1>4. \A i, j \in 1..n : f[i] = f[j] => i = j
    BY <1>1 DEF IInv, RegisteredUniqueAndValid
<1>5. \A e \in RegisteredSet : \E i \in 1..n : f[i] = e
    BY <1>1 DEF RegisteredSet
<1>6. f \in Injection(1..n, RegisteredSet)
    BY <1>3, <1>4 DEF Injection, IsInjective
<1>7. f \in Surjection(1..n, RegisteredSet)
    BY <1>3, <1>5 DEF Surjection
<1>8. ExistsBijection(1..n, RegisteredSet)
    BY <1>6, <1>7 DEF ExistsBijection, Bijection
<1> QED
    BY <1>2, <1>8, FS_CountingElements, FS_NatBijection

(* An id is registered in the abstract set exactly when a live slot holds it. *)
LEMMA RegisteredIdsAreLive ==
    ASSUME NEW id
    PROVE  id \in Directory!RegisteredIds <=> HasId(id)
BY DEF Directory!RegisteredIds, RegisteredSet, HasId

LEMMA InitRefines == Init => Directory!SetInit
<1> SUFFICES ASSUME Init PROVE Directory!SetInit
    OBVIOUS
<1>1. Live = {}
    BY DEF Init, Live
<1>2. RegisteredSet = {}
    BY <1>1 DEF RegisteredSet
<1> QED
    BY <1>2 DEF Init, Directory!SetInit, Directory!Answer


(* In a reachable successor state the live slots are 1..driver_count'. *)
LEMMA LiveIsPrefixPrimed ==
    ASSUME IInv'
    PROVE  Live' = 1..driver_count'
BY MaxDriversAssumption DEF IInv, TypeOK, RegistryCompact, Live, Slots

(* A call that leaves the array alone leaves the registered set alone. *)
LEMMA SetUnchanged ==
    ASSUME drivers' = drivers
    PROVE  RegisteredSet' = RegisteredSet
BY DEF RegisteredSet, Live

(* register refines the abstract register: an invalid descriptor, a full   *)
(* registry and a live id are refused as the set says, and the store at    *)
(* slot driver_count + 1 adds exactly the descriptor.                      *)
LEMMA RegisterRefines ==
    ASSUME IInv, IInv', NEW d \in Descriptor, Register(d)
    PROVE  Directory!AddDriver(d)
<1>1. Directory!Cardinality(RegisteredSet) = driver_count
    BY RegisteredCount DEF Directory!Cardinality, Cardinality
<1>2. Directory!Valid(d) <=> Valid(d)
    BY DEF Directory!Valid, Valid
<1>3. CASE ~Valid(d) /\ last' = Ret("register", d.driver_id, "InvalidArg")
                     /\ UNCHANGED <<drivers, driver_count>>
    BY <1>2, <1>3, SetUnchanged DEF Directory!AddDriver, Directory!Answer, Ret
<1>4. CASE /\ Valid(d)
           /\ driver_count >= MaxDrivers
           /\ last' = Ret("register", d.driver_id, "NoMemory")
           /\ UNCHANGED <<drivers, driver_count>>
    BY <1>1, <1>2, <1>4, SetUnchanged DEF Directory!AddDriver, Directory!Answer, Ret
<1>5. CASE /\ Valid(d)
           /\ driver_count < MaxDrivers
           /\ HasId(d.driver_id)
           /\ last' = Ret("register", d.driver_id, "DeviceBusy")
           /\ UNCHANGED <<drivers, driver_count>>
    BY <1>1, <1>2, <1>5, SetUnchanged, RegisteredIdsAreLive
       DEF Directory!AddDriver, Directory!Answer, Ret
<1>6. CASE /\ Valid(d)
           /\ driver_count < MaxDrivers
           /\ ~HasId(d.driver_id)
           /\ drivers' = [drivers EXCEPT ![driver_count + 1] = d]
           /\ driver_count' = driver_count + 1
           /\ last' = Ret("register", d.driver_id, "Ok")
    <2>1. Live = 1..driver_count /\ Live' = 1..(driver_count + 1)
        BY <1>6, LiveIsPrefix, LiveIsPrefixPrimed DEF IInv
    <2>2. driver_count \in Nat /\ driver_count + 1 \in Slots
        BY <1>6, MaxDriversAssumption DEF IInv, TypeOK, Slots
    <2>3. \A i \in 1..(driver_count + 1) :
              drivers'[i] = IF i = driver_count + 1 THEN d ELSE drivers[i]
        BY <1>6, <2>2 DEF IInv, TypeOK, Slots
    <2>4. RegisteredSet' = RegisteredSet \cup {d}
        BY <2>1, <2>2, <2>3 DEF RegisteredSet
    <2> QED
        BY <1>1, <1>2, <1>6, <2>4, RegisteredIdsAreLive
           DEF Directory!AddDriver, Directory!Answer, Ret
<1> QED
    BY <1>3, <1>4, <1>5, <1>6 DEF Register


(* unregister refines the abstract unregister: the shift of remove(pos)    *)
(* keeps every descriptor but the one at pos, and with ids unique that is  *)
(* exactly the one with the id.                                            *)
LEMMA UnregisterRefines ==
    ASSUME IInv, IInv', NEW id \in DriverIds, Unregister(id)
    PROVE  Directory!RemoveDriver(id)
<1>1. CASE ~HasId(id) /\ last' = Ret("unregister", id, "InvalidArg")
                      /\ UNCHANGED <<drivers, driver_count>>
    BY <1>1, SetUnchanged, RegisteredIdsAreLive DEF Directory!RemoveDriver, Directory!Answer, Ret
<1>2. CASE /\ HasId(id)
           /\ drivers' = RemoveAt(FirstPos(id))
           /\ driver_count' = driver_count - 1
           /\ last' = Ret("unregister", id, "Ok")
    <2> DEFINE pos == FirstPos(id)
               src(k) == IF k < pos THEN k ELSE k + 1
    <2>1. Live = 1..driver_count
        BY LiveIsPrefix DEF IInv
    <2>2. pos \in 1..driver_count /\ drivers[pos].driver_id = id
        BY <1>2, <2>1, FirstPosIsMatch DEF IInv
    <2>3. Live' = 1..(driver_count - 1)
        BY <1>2, LiveIsPrefixPrimed
    <2>4. \A k \in 1..(driver_count - 1) : drivers'[k] = drivers[src(k)]
        BY <1>2, <2>2, RemoveAtCompact DEF IInv
    <2>5. \A j \in 1..driver_count : drivers[j].driver_id = id => j = pos
        BY <2>1, <2>2 DEF IInv, RegisteredUniqueAndValid
    <2>6. ASSUME NEW k \in 1..(driver_count - 1)
          PROVE  drivers'[k] \in {e \in RegisteredSet : e.driver_id # id}
        <3>1. src(k) \in 1..driver_count /\ src(k) # pos
            BY <2>2 DEF IInv, TypeOK
        <3> QED
            BY <2>1, <2>4, <2>5, <3>1 DEF RegisteredSet
    <2>7. ASSUME NEW j \in 1..driver_count, drivers[j].driver_id # id
          PROVE  \E k \in 1..(driver_count - 1) : drivers'[k] = drivers[j]
        <3>1. j # pos
            BY <2>2, <2>7
        <3> DEFINE k == IF j < pos THEN j ELSE j - 1
        <3>2. k \in 1..(driver_count - 1) /\ src(k) = j
            BY <2>2, <3>1 DEF IInv, TypeOK
        <3> QED
            BY <2>4, <3>2
    <2>8. RegisteredSet' = {e \in RegisteredSet : e.driver_id # id}
        BY <2>1, <2>3, <2>6, <2>7 DEF RegisteredSet
    <2> QED
        BY <1>2, <2>8, RegisteredIdsAreLive DEF Directory!RemoveDriver, Directory!Answer, Ret
<1> QED
    BY <1>1, <1>2 DEF Unregister

(* find answers the abstract lookup. *)
LEMMA FindRefines ==
    ASSUME NEW id \in DriverIds, Find(id)
    PROVE  Directory!LookUp(id)
<1>1. {drivers[i].driver_id : i \in {j \in Live : drivers[j].driver_id = id}}
          = Directory!RegisteredIds \cap {id}
    BY DEF Directory!RegisteredIds, RegisteredSet
<1>2. RegisteredSet' = RegisteredSet
    BY SetUnchanged DEF Find
<1>3. last' = [op |-> "find", arg |-> id, res |-> "Ok", found |-> Directory!RegisteredIds \cap {id}]
    BY <1>1, Zenon DEF Find
<1>4. UNCHANGED RegisteredSet
    BY <1>2
<1> QED
    BY <1>3, <1>4 DEF Directory!LookUp

(* get_by_priority answers the abstract priority query. *)
LEMMA GetByPriorityRefines ==
    ASSUME NEW min \in Priorities \cup {0}, GetByPriority(min)
    PROVE  Directory!AtPriority(min)
<1>1. {drivers[i].driver_id : i \in {j \in Live : MatchesPriority(drivers[j], min)}}
          = {e.driver_id : e \in {f \in RegisteredSet : f.priority >= min}}
    BY DEF RegisteredSet, MatchesPriority
<1>2. RegisteredSet' = RegisteredSet
    BY SetUnchanged DEF GetByPriority
<1>3. last' = [op |-> "priority", arg |-> min, res |-> "Ok",
              found |-> {e.driver_id : e \in {f \in RegisteredSet : f.priority >= min}}]
    BY <1>1, Zenon DEF GetByPriority
<1>4. UNCHANGED RegisteredSet
    BY <1>2
<1> QED
    BY <1>3, <1>4 DEF Directory!AtPriority


(* Every step of the registry is a step of the abstract registry, and a    *)
(* stutter is a stutter.                                                   *)
LEMMA NextRefines ==
    ASSUME IInv, IInv', [Next]_vars
    PROVE  [Directory!SetNext]_Directory!rvars
<1>1. CASE \E d \in Descriptor : Register(d)
    <2> PICK d \in Descriptor : Register(d)
        BY <1>1
    <2>1. d \in Directory!Descriptor
        BY DEF Descriptor, Directory!Descriptor
    <2> QED
        BY <2>1, RegisterRefines DEF Directory!SetNext
<1>2. CASE \E id \in DriverIds : Unregister(id)
    BY <1>2, UnregisterRefines DEF Directory!SetNext
<1>3. CASE \E id \in DriverIds : Find(id)
    BY <1>3, FindRefines DEF Directory!SetNext
<1>4. CASE \E min \in Priorities \cup {0} : GetByPriority(min)
    BY <1>4, GetByPriorityRefines DEF Directory!SetNext
<1>5. CASE UNCHANGED vars
    BY <1>5, SetUnchanged DEF vars, Directory!rvars
<1> QED
    BY <1>1, <1>2, <1>3, <1>4, <1>5 DEF Next

(* The slot array implements the abstract registry RegistrySet for every   *)
(* capacity and every set of ids and priorities: each register,            *)
(* unregister, find and get_by_priority answers and changes the registered *)
(* set as the abstract call does.                                          *)
THEOREM RegistryImplementsSet == Spec => ImplementsRegistrySet
<1>1. IInv /\ IInv' /\ [Next]_vars => [Directory!SetNext]_Directory!rvars
    BY NextRefines
<1> QED
    BY InitRefines, <1>1, IInvHolds, NextIInv, PTL
       DEF Spec, ImplementsRegistrySet, Directory!SetSpec

=============================================================================
