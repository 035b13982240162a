--------------------------- MODULE NvmeDriverProofs ---------------------------
(***************************************************************************)
(* Proofs about the example NVMe driver behind the callback invoker        *)
(* (NvmeDriver).                                                           *)
(*                                                                         *)
(* The caller's capability system is the capability manager, so its part   *)
(* of the state keeps the manager's inductive invariant IInv               *)
(* (CapabilityManagerProofs).  The driver's part needs only its ranges:    *)
(* the static holds None or a device_count in 0..16, because               *)
(* register_device refuses at capacity.  The probe result rests on one     *)
(* fact about the C callback ABI: the i32 codes of error.rs are distinct,  *)
(* so HalError::from undoes into() for every variant.                      *)
(***************************************************************************)
EXTENDS NvmeDriver, CapabilityManagerProofs

(* The inductive invariant: the manager's, and the driver's ranges. *)
NvmeIInv ==
    /\ IInv
    /\ instance \in {None} \cup 0..NvmeCapacity
    /\ drv_last \in [op : Phases, ptr : Pointers, res : HalErrors]

-----------------------------------------------------------------------------
(* The status translation of error.rs. *)

(* Each HalError has its own i32 code. *)
LEMMA ToStatusInjective ==
    ASSUME NEW e \in HalErrors, NEW f \in HalErrors, ToStatus(e) = ToStatus(f)
    PROVE  e = f
BY DEF HalErrors, ToStatus

(* From<HalStatus> maps the code of a variant back to that variant. *)
LEMMA FromToStatus ==
    ASSUME NEW e \in HalErrors
    PROVE  FromStatus(ToStatus(e)) = e
<1>1. \E f \in HalErrors : ToStatus(f) = ToStatus(e)
    OBVIOUS
<1>2. \A f \in HalErrors : ToStatus(f) = ToStatus(e) => f = e
    BY ToStatusInjective
<1> QED
    BY <1>1, <1>2 DEF FromStatus

(* Every status the invoker sees becomes a HalError. *)
LEMMA InvokeType ==
    ASSUME NEW s
    PROVE  Invoke(s) \in HalErrors
BY DEF Invoke, FromStatus, HalErrors

-----------------------------------------------------------------------------
(* NvmeIInv holds initially and is preserved by every action. *)

LEMMA NvmeInitIInv == NvmeInit => NvmeIInv
<1> SUFFICES ASSUME NvmeInit PROVE NvmeIInv
    OBVIOUS
<1>1. IInv
    BY InitIInv DEF NvmeInit
<1>2. drv_last \in [op : Phases, ptr : Pointers, res : HalErrors]
    BY DEF NvmeInit, Phases, Pointers, HalErrors
<1> QED
    BY <1>1, <1>2 DEF NvmeInit, NvmeIInv

(* The caller's capability system steps keep the manager's invariant and *)
(* leave the driver alone.                                                 *)
LEMMA CallerCapIInv == NvmeIInv /\ CallerCapNext => NvmeIInv'
<1> SUFFICES ASSUME NvmeIInv, CallerCapNext PROVE NvmeIInv'
    OBVIOUS
<1>1. IInv'
    <2>1. CASE CreateTokenNoMemory
        BY <2>1, CreateTokenNoMemoryIInv DEF NvmeIInv
    <2>2. CASE \E c \in Containers, a \in Apps, p \in SUBSET PermBits : CreateToken(c, a, p)
        BY <2>2, CreateTokenIInv DEF NvmeIInv
    <2>3. CASE \E id \in RevokeIds : Revoke(id)
        BY <2>3, RevokeIInv DEF NvmeIInv
    <2> QED
        BY <2>1, <2>2, <2>3 DEF CallerCapNext
<1> QED
    BY <1>1 DEF CallerCapNext, NvmeIInv

(* The outcome of a request is one of its three answers. *)
LEMMA RequestResultType ==
    ASSUME NEW idx, NEW t, NEW perm, NEW buf
    PROVE  RequestResult(idx, t, perm, buf) \in HalErrors
BY DEF RequestResult, DriverCap!VerifyResult, HalErrors

(* A driver step: the caller's capability system is left alone, the static *)
(* stays in range and the answer is a phase, a pointer and a HalError.      *)
LEMMA DriverStepIInv ==
    ASSUME NvmeIInv, UNCHANGED capvars,
           instance' \in {None} \cup 0..NvmeCapacity,
           NEW o \in Phases, NEW p \in Pointers, NEW r \in HalErrors,
           drv_last' = [op |-> o, ptr |-> p, res |-> r]
    PROVE  NvmeIInv'
<1>1. IInv'
    BY DEF NvmeIInv, IInv, TypeOK, PoolInIssueOrder, CopiesBoundToIssuance, Occupied, capvars
<1>2. drv_last' \in [op : Phases, ptr : Pointers, res : HalErrors]
    OBVIOUS
<1> QED
    BY <1>1, <1>2 DEF NvmeIInv

LEMMA NvmeNextIInv == NvmeIInv /\ [NvmeNext]_nvars => NvmeIInv'
<1> SUFFICES ASSUME NvmeIInv, [NvmeNext]_nvars PROVE NvmeIInv'
    OBVIOUS
<1> USE NvmeAssumption
<1>1. CASE CallerCapNext
    BY <1>1, CallerCapIInv
<1>2. CASE CallInit
    <2>1. Invoke(0) \in HalErrors
        BY InvokeType
    <2> QED
        BY <1>2, <2>1, DriverStepIInv DEF CallInit, Phases, Pointers
<1>3. CASE \E ptr \in Pointers : CallProbe(ptr)
    <2> PICK ptr \in Pointers : CallProbe(ptr)
        BY <1>3
    <2> DEFINE status == IF ptr = "null" THEN ToStatus("InvalidArg")
                         ELSE IF instance = None THEN 0
                         ELSE RegisterDevice(instance).status
    <2>1. instance' \in {None} \cup 0..NvmeCapacity
        BY DEF CallProbe, RegisterDevice, NvmeIInv
    <2>2. Invoke(status) \in HalErrors
        BY InvokeType
    <2>3. drv_last' = [op |-> "probe", ptr |-> ptr, res |-> Invoke(status)]
        BY DEF CallProbe
    <2> QED
        BY <2>1, <2>2, <2>3, DriverStepIInv DEF CallProbe, Phases
<1>4. CASE \E phase \in {"suspend", "resume"} : CallSuspendResume(phase)
    <2>1. Invoke(0) \in HalErrors
        BY InvokeType
    <2> QED
        BY <1>4, <2>1, DriverStepIInv DEF CallSuspendResume, NvmeIInv, Phases, Pointers, capvars
<1>5. CASE CallRemove
    <2>1. Invoke(0) \in HalErrors
        BY InvokeType
    <2> QED
        BY <1>5, <2>1, DriverStepIInv DEF CallRemove, Phases, Pointers
<1>6. CASE \E op \in {"read", "write"}, idx \in 0..NvmeCapacity, t \in held, buf \in Pointers :
               SubmitRequest(op, idx, t, buf)
    <2> PICK op \in {"read", "write"}, idx \in 0..NvmeCapacity, t \in held, buf \in Pointers :
               SubmitRequest(op, idx, t, buf)
        BY <1>6
    <2> DEFINE r == RequestResult(idx, t, IF op = "read" THEN ReadPerm ELSE WritePerm, buf)
    <2>1. r \in HalErrors
        BY RequestResultType
    <2> QED
        BY <2>1, DriverStepIInv DEF SubmitRequest, NvmeIInv, Phases, capvars
<1>7. CASE UNCHANGED nvars
    BY <1>7 DEF NvmeIInv, IInv, TypeOK, PoolInIssueOrder, CopiesBoundToIssuance, Occupied,
       nvars
<1> QED
    BY <1>1, <1>2, <1>3, <1>4, <1>5, <1>6, <1>7 DEF NvmeNext

THEOREM NvmeIInvHolds == NvmeSpec => []NvmeIInv
BY NvmeInitIInv, NvmeNextIInv, PTL DEF NvmeSpec

(* Type correctness of the driver and the caller's capability system in   *)
(* every reachable state, for every capacity and pool size.                *)
THEOREM NvmeTypeCorrect == NvmeSpec => []NvmeTypeOK
BY NvmeIInvHolds, PTL DEF NvmeIInv, IInv, NvmeTypeOK

-----------------------------------------------------------------------------
(* A probe of a real device reports NoMemory exactly when the driver       *)
(* exists and its table is full: register_device's error comes back       *)
(* through the i32 of the C callback unchanged, and no other path reports  *)
(* it, for every capacity.                                                 *)
LEMMA ProbeOutcomeStep ==
    ASSUME NvmeIInv, CallProbe("device")
    PROVE  (drv_last'.res = "NoMemory") <=> (instance # None /\ instance >= NvmeCapacity)
<1>1. CASE instance = None
    <2>1. drv_last'.res = Invoke(0)
        BY <1>1 DEF CallProbe
    <2> QED
        BY <1>1, <2>1 DEF Invoke
<1>2. CASE instance # None /\ instance >= NvmeCapacity
    <2>1. drv_last'.res = Invoke(ToStatus("NoMemory"))
        BY <1>2 DEF CallProbe, RegisterDevice
    <2>2. Invoke(ToStatus("NoMemory")) = "NoMemory"
        BY FromToStatus DEF Invoke, ToStatus, HalErrors
    <2> QED
        BY <1>2, <2>1, <2>2
<1>3. CASE instance # None /\ ~(instance >= NvmeCapacity)
    <2>1. drv_last'.res = Invoke(0)
        BY <1>3 DEF CallProbe, RegisterDevice
    <2> QED
        BY <1>3, <2>1 DEF Invoke
<1> QED
    BY <1>1, <1>2, <1>3

THEOREM ProbeOutcomeReflectsDriverHolds == NvmeSpec => ProbeOutcomeReflectsDriver
<1>1. NvmeIInv /\ [NvmeNext]_nvars =>
          [CallProbe("device") =>
               ((drv_last'.res = "NoMemory") <=> (instance # None /\ instance >= NvmeCapacity))]_nvars
    BY ProbeOutcomeStep
<1> QED
    BY <1>1, NvmeIInvHolds, PTL DEF NvmeSpec, ProbeOutcomeReflectsDriver

=============================================================================
