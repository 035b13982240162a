---------------------------- MODULE NvmeDriver ----------------------------
(***************************************************************************)
(* The example NVMe driver (src/EXAMPLE_DRIVER_NVMe.rs) driven through the *)
(* driver callback invoker (src/kernel/hal/driver/callback.rs), with the   *)
(* status translation of src/hal/src/error.rs.                             *)
(*                                                                         *)
(* The driver lives in `static mut NVME_DRIVER_INSTANCE`: the init         *)
(* callback replaces it by a fresh NvmeDriver, remove sets it to None, and *)
(* probe registers a device in it when it exists.  A device of the driver  *)
(* is a constant record, so the instance is abstracted to its              *)
(* device_count (or None).  Each NvmeDriver owns a CapabilitySystem made by *)
(* CapabilitySystem::new() that nothing can reach to issue tokens: it is   *)
(* the instance DriverCap below, fixed in its initial state.               *)
(*                                                                         *)
(* I/O requests carry tokens a caller obtained from a capability system    *)
(* it can reach, the CapabilityManager this module extends: `held` are its *)
(* copies.  The callbacks and the requests are called by one caller at a   *)
(* time (boot-time, single core: spec section 5), so each is one step.     *)
(***************************************************************************)
EXTENDS CapabilityManager, Integers

CONSTANTS
    NvmeCapacity,   \* the 16 entries of NvmeDriver::devices
    ReadPerm,       \* Permission::READ
    WritePerm       \* Permission::WRITE

ASSUME NvmeAssumption ==
    /\ NvmeCapacity \in Nat \ {0}
    /\ {ReadPerm, WritePerm} \subseteq PermBits
    /\ None \notin Int

(* HalError and its i32 codes (error.rs 5-15, 17-21). *)
HalErrors == {"Ok", "InvalidArg", "NotSupported", "DeviceBusy", "NoMemory",
              "Timeout", "DeviceFailed", "PermissionDenied"}
ToStatus(e) ==
    CASE e = "Ok" -> 0 [] e = "InvalidArg" -> -1 [] e = "NotSupported" -> -2
      [] e = "DeviceBusy" -> -3 [] e = "NoMemory" -> -4 [] e = "Timeout" -> -5
      [] e = "DeviceFailed" -> -6 [] e = "PermissionDenied" -> -7

(* Mutation: a From<HalStatus> table missing its -4 arm. *)
FromStatusNoNoMemory(s) ==
    IF \E e \in HalErrors \ {"NoMemory"} : ToStatus(e) = s
    THEN CHOOSE e \in HalErrors : ToStatus(e) = s
    ELSE "DeviceFailed"

(* From<HalStatus> for HalError: the variant with that code, any other     *)
(* value is DeviceFailed.                                                  *)
FromStatus(s) ==
    IF \E e \in HalErrors : ToStatus(e) = s
    THEN CHOOSE e \in HalErrors : ToStatus(e) = s
    ELSE "DeviceFailed"

(* DriverCallback::call_<phase> for a present callback: status 0 is Ok,    *)
(* any other is translated.                                                *)
Invoke(status) == IF status # 0 THEN FromStatus(status) ELSE "Ok"

(* The driver's own capability system, never given a token to store. *)
DriverCap == INSTANCE CapabilityManager
                 WITH tokens <- [i \in Slots |-> None], token_count <- 0,
                      next_token_id <- 1, held <- {},
                      last <- [op |-> "none", id |-> 0, res |-> "Ok"]

VARIABLES
    instance,   \* NVME_DRIVER_INSTANCE: None, or the driver's device_count
    drv_last    \* the phase or request last called and what it returned

nvars == <<tokens, token_count, next_token_id, held, last, instance, drv_last>>
capvars == <<tokens, token_count, next_token_id, held, last>>

Phases == {"none", "init", "probe", "suspend", "resume", "remove", "read", "write"}
Pointers == {"null", "device"}

NvmeTypeOK ==
    /\ TypeOK
    /\ instance \in {None} \cup 0..NvmeCapacity
    /\ drv_last \in [op : Phases, ptr : Pointers, res : HalErrors]

NvmeInit ==
    /\ Init
    /\ instance = None
    /\ drv_last = [op |-> "none", ptr |-> "null", res |-> "Ok"]

(* nvme_driver_init through call_init: a fresh NvmeDriver replaces any    *)
(* existing one.                                                           *)
CallInit ==
    /\ instance' = 0
    /\ drv_last' = [op |-> "init", ptr |-> "device", res |-> Invoke(0)]
    /\ UNCHANGED capvars

(* Mutation: register_device without its capacity check. *)
RegisterDeviceNoCheck(n) == [status |-> 0, count |-> n + 1]

(* NvmeDriver::register_device on a driver with n devices: the status the *)
(* probe callback returns for it and the new device_count.                 *)
RegisterDevice(n) ==
    IF n >= NvmeCapacity THEN [status |-> ToStatus("NoMemory"), count |-> n]
    ELSE [status |-> 0, count |-> n + 1]

(* nvme_driver_probe through call_probe: a null device pointer is          *)
(* InvalidArg; with no driver instance the callback returns 0 without      *)
(* registering anything.                                                   *)
CallProbe(ptr) ==
    LET status == IF ptr = "null" THEN ToStatus("InvalidArg")
                  ELSE IF instance = None THEN 0
                  ELSE RegisterDevice(instance).status
    IN
    /\ instance' = IF ptr = "device" /\ instance # None
                      THEN RegisterDevice(instance).count ELSE instance
    /\ drv_last' = [op |-> "probe", ptr |-> ptr, res |-> Invoke(status)]
    /\ UNCHANGED capvars

(* nvme_driver_suspend / nvme_driver_resume: return 0, change nothing. *)
CallSuspendResume(phase) ==
    /\ drv_last' = [op |-> phase, ptr |-> "device", res |-> Invoke(0)]
    /\ UNCHANGED <<instance, tokens, token_count, next_token_id, held, last>>

(* nvme_driver_remove through call_remove: the instance is dropped. *)
CallRemove ==
    /\ instance' = None
    /\ drv_last' = [op |-> "remove", ptr |-> "device", res |-> Invoke(0)]
    /\ UNCHANGED capvars

(* submit_read_request / submit_write_request on the driver instance:     *)
(* the index, then verify_token and has_permission on the driver's OWN     *)
(* capability system, then the buffer pointer.                             *)
RequestResult(idx, t, perm, buf) ==
    IF idx >= instance THEN "InvalidArg"
    ELSE IF DriverCap!VerifyResult(t) # "Ok" THEN DriverCap!VerifyResult(t)
    ELSE IF ~DriverCap!CheckPermissionResult(t, {perm}) THEN "PermissionDenied"
    ELSE IF buf = "null" THEN "InvalidArg"
    ELSE "Ok"

SubmitRequest(op, idx, t, buf) ==
    /\ instance # None
    /\ drv_last' = [op |-> op, ptr |-> buf,
                    res |-> RequestResult(idx, t, IF op = "read" THEN ReadPerm ELSE WritePerm, buf)]
    /\ UNCHANGED <<instance, tokens, token_count, next_token_id, held, last>>

(* The caller's capability system issues and revokes tokens. *)
CallerCapNext ==
    /\ \/ CreateTokenNoMemory
       \/ \E c \in Containers, a \in Apps, p \in SUBSET PermBits : CreateToken(c, a, p)
       \/ \E id \in RevokeIds : Revoke(id)
    /\ UNCHANGED <<instance, drv_last>>

NvmeNext ==
    \/ CallerCapNext
    \/ CallInit
    \/ \E ptr \in Pointers : CallProbe(ptr)
    \/ \E phase \in {"suspend", "resume"} : CallSuspendResume(phase)
    \/ CallRemove
    \/ \E op \in {"read", "write"}, idx \in 0..NvmeCapacity, t \in held, buf \in Pointers :
           SubmitRequest(op, idx, t, buf)

NvmeSpec == NvmeInit /\ [][NvmeNext]_nvars

-----------------------------------------------------------------------------
(* Properties                                                              *)

(* A probe of a real device reports NoMemory exactly when a driver        *)
(* instance exists and its device table is full: register_device's error *)
(* survives the i32 round trip of the C callback ABI (e.into() in the      *)
(* callback, HalError::from(status) in the invoker) and no other path      *)
(* reports it.                                                             *)
ProbeOutcomeReflectsDriver ==
    [][CallProbe("device") =>
         ((drv_last'.res = "NoMemory") <=> (instance # None /\ instance >= NvmeCapacity))
      ]_nvars

(* A probe that reports success for a real device has claimed it: a       *)
(* driver instance exists afterwards and holds one more device (spec:      *)
(* probe is the phase that claims a discovered device).                    *)
ProbeSuccessClaimsDevice ==
    [][CallProbe("device") /\ drv_last'.res = "Ok" =>
         (instance # None /\ instance' = instance + 1)]_nvars

(* A storage request with a device index in range, a buffer, and a token  *)
(* the caller's capability system issued with the needed permission and   *)
(* has not revoked is performed (spec section 2, data flow: the request's  *)
(* token is verified and its permission bit checked through the capability *)
(* system).                                                                *)
AuthorisedRequestAccepted ==
    [][\A op \in {"read", "write"}, idx \in 0..NvmeCapacity, t \in held :
         (/\ SubmitRequest(op, idx, t, "device")
          /\ idx < instance
          /\ \E i \in Occupied : tokens[i].token_id = t.token_id /\ IsValid(tokens[i])
          /\ (IF op = "read" THEN ReadPerm ELSE WritePerm) \in t.permissions)
         => drv_last'.res = "Ok"]_nvars


(* The devices probe registered in the live driver stay registered until   *)
(* the remove callback drops the driver (spec, Device lifecycle: a device  *)
(* is removed when the owning driver's remove callback completes): no      *)
(* call but remove lowers the live driver's device_count.  nvme_driver_init *)
(* assigns a fresh NvmeDriver to the static whether or not one is live.    *)
DevicesKeptUntilRemove ==
    [][instance # None /\ drv_last'.op # "remove" =>
         instance' # None /\ instance' >= instance]_<<instance, drv_last>>

=============================================================================
