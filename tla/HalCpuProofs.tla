---------------------------- MODULE HalCpuProofs ----------------------------
(***************************************************************************)
(* Proofs about the HAL CPU subsystem (HalCpu, src/hal/src/cpu.rs).        *)
(*                                                                         *)
(* The u8 cpu_count the per-CPU guards compare against and the u64         *)
(* cpu_mask send_ipi tests are both written by init only, from the same    *)
(* topology.logical_cpus, so they stay tied: the mask is the low           *)
(* cpu_count bits (taken mod 64, as the release-mode shift does).  Before  *)
(* init cpu_count is 0, so set_per_cpu_data refuses every CPU and all      *)
(* data pointers are null; that is why init's clearing of the first        *)
(* cpu_count slots can never erase a stored pointer.                       *)
(***************************************************************************)
EXTENDS HalCpu, TLAPS

(* The inductive invariant: the type, the count and the mask as init      *)
(* leaves them, the untouched data before init, and the answer of the last *)
(* send_ipi against the mask it tested.                                    *)
IInv ==
    /\ CpuTypeOK
    /\ cpu_count = IF initialized THEN LogicalCpus % 256 ELSE 0
    /\ cpu_mask = Bits \cap LowMask(cpu_count)
    /\ ~initialized => per_cpu_data = [i \in CpuIds |-> "null"]
    /\ cpu_last.op = "send_ipi" =>
           /\ cpu_last.mask \subseteq Bits
           /\ (cpu_last.res = "Ok") <=> cpu_last.mask \cap cpu_mask # {}

(* The state a call leaves alone apart from its answer. *)
CpuStateUnchanged == UNCHANGED <<initialized, cpu_count, cpu_mask, per_cpu_data>>

(* The record a call leaves in cpu_last has the type of cpu_last. *)
LEMMA CallRecordType ==
    ASSUME NEW o \in CallOps, NEW c \in Nat, NEW m \in SUBSET Bits, NEW r \in Outcomes
    PROVE  [op |-> o, cpu |-> c, mask |-> m, res |-> r]
               \in [op : CallOps, cpu : Nat, mask : SUBSET Bits, res : Outcomes]
OBVIOUS

LEMMA InitIInv == Init => IInv
<1> SUFFICES ASSUME Init PROVE IInv
    OBVIOUS
<1>1. cpu_last \in [op : CallOps, cpu : Nat, mask : SUBSET Bits, res : Outcomes]
    BY CallRecordType DEF Init, CallOps, Outcomes, Statuses
<1>2. per_cpu_data \in [CpuIds -> {"null"} \cup DataPtrs]
    BY DEF Init
<1>3. initialized \in BOOLEAN
    BY Zenon DEF Init
<1>6. cpu_count \in 0..255 /\ cpu_mask \subseteq Bits
    BY DEF Init
<1>5. CpuTypeOK
    BY <1>1, <1>2, <1>3, <1>6, Zenon DEF CpuTypeOK
<1>4. cpu_mask = Bits \cap LowMask(cpu_count)
    BY DEF Init, LowMask
<1> QED
    BY <1>5, <1>4 DEF Init, IInv

(* A call that only answers, other than send_ipi, keeps the invariant. *)
LEMMA AnswerOnlyIInv ==
    ASSUME IInv, CpuStateUnchanged,
           NEW op \in CallOps \ {"send_ipi"}, NEW cpu \in Nat, NEW res \in Outcomes,
           Ret(op, cpu, res)
    PROVE  IInv'
<1>1. cpu_last' \in [op : CallOps, cpu : Nat, mask : SUBSET Bits, res : Outcomes]
    BY CallRecordType DEF Ret
<1> QED
    BY <1>1 DEF IInv, CpuTypeOK, CpuStateUnchanged, Ret

(* Every cpu_id a caller passes is a natural. *)
LEMMA CpuIdsNat == CpuIds \subseteq Nat
BY CpuAssumption

LEMMA InitSubsystemIInv == IInv /\ InitSubsystem => IInv'
<1> SUFFICES ASSUME IInv, InitSubsystem PROVE IInv'
    OBVIOUS
<1>1. CASE initialized
    BY <1>1, AnswerOnlyIInv DEF InitSubsystem, CpuStateUnchanged, Outcomes, Statuses, CallOps
<1>2. CASE ~initialized
    <2> DEFINE count == LogicalCpus % 256
    <2>1. count \in 0..255
        BY CpuAssumption
    <2>2. /\ cpu_count' = count
          /\ per_cpu_data' = [i \in CpuIds |-> IF i < count THEN "null" ELSE per_cpu_data[i]]
          /\ cpu_mask' = MaskAll \cap LowMask(count)
          /\ initialized' = TRUE
          /\ cpu_last' = [op |-> "init", cpu |-> 0, mask |-> {}, res |-> "Ok"]
        BY <1>2 DEF InitSubsystem, Ret
    <2>3. cpu_last' \in [op : CallOps, cpu : Nat, mask : SUBSET Bits, res : Outcomes]
        BY <2>2, CallRecordType DEF CallOps, Outcomes, Statuses
    <2>4. per_cpu_data' \in [CpuIds -> {"null"} \cup DataPtrs]
        BY <2>2 DEF IInv, CpuTypeOK
    <2>5. CpuTypeOK'
        BY <2>1, <2>2, <2>3, <2>4 DEF CpuTypeOK, MaskAll
    <2> QED
        BY <2>2, <2>5 DEF IInv, MaskAll
<1> QED
    BY <1>1, <1>2

LEMMA SetPerCpuDataIInv ==
    ASSUME IInv, NEW cpu \in CpuIds, NEW data \in {"null"} \cup DataPtrs,
           SetPerCpuData(cpu, data)
    PROVE  IInv'
<1>0. cpu \in Nat
    BY CpuIdsNat
<1>1. CASE ~CpuOnline(cpu)
    BY <1>0, <1>1, AnswerOnlyIInv DEF SetPerCpuData, CpuStateUnchanged, Outcomes, Statuses,
       CallOps
<1>2. CASE CpuOnline(cpu)
    <2>1. initialized
        BY <1>0, <1>2 DEF IInv, CpuOnline
    <2>2. cpu_last' \in [op : CallOps, cpu : Nat, mask : SUBSET Bits, res : Outcomes]
        BY <1>0, <1>2, CallRecordType DEF SetPerCpuData, Ret, CallOps, Outcomes, Statuses
    <2>3. per_cpu_data' \in [CpuIds -> {"null"} \cup DataPtrs]
        BY <1>2 DEF SetPerCpuData, IInv, CpuTypeOK
    <2> QED
        BY <1>2, <2>1, <2>2, <2>3 DEF SetPerCpuData, Ret, IInv, CpuTypeOK
<1> QED
    BY <1>1, <1>2 DEF SetPerCpuData

LEMMA SendIpiIInv ==
    ASSUME IInv, NEW mask \in IpiMasks, SendIpi(mask)
    PROVE  IInv'
<1>1. mask \subseteq Bits
    <2>1. CASE mask \in {{i} : i \in CpuIds \cap Bits}
        BY <2>1
    <2>2. CASE mask = {63}
        BY <2>2 DEF Bits
    <2>3. CASE mask = MaskAll
        BY <2>3 DEF MaskAll
    <2> QED
        BY <2>1, <2>2, <2>3 DEF IpiMasks
<1>2. cpu_last' \in [op : CallOps, cpu : Nat, mask : SUBSET Bits, res : Outcomes]
    BY <1>1, CallRecordType DEF SendIpi, CallOps, Outcomes, Statuses
<1> QED
    BY <1>1, <1>2 DEF SendIpi, IInv, CpuTypeOK

LEMMA NextIInv == IInv /\ [CpuNext]_cvars => IInv'
<1> SUFFICES ASSUME IInv, [CpuNext]_cvars PROVE IInv'
    OBVIOUS
<1> USE CpuIdsNat
<1>1. CASE InitSubsystem
    BY <1>1, InitSubsystemIInv
<1>2. CASE \E ptr \in Pointers : Enumerate(ptr)
    BY <1>2, AnswerOnlyIInv DEF Enumerate, OutPtrChecked, CpuStateUnchanged, Outcomes,
       Statuses, CallOps
<1>3. CASE \E op \in QueryOps, cpu \in CpuIds, ptr \in Pointers : QueryIntoBuffer(op, cpu, ptr)
    BY <1>3, AnswerOnlyIInv DEF QueryIntoBuffer, OutPtrChecked, CpuStateUnchanged,
       Outcomes, Statuses, CallOps, QueryOps
<1>4. CASE \E cpu \in CpuIds, listed \in BOOLEAN : HasFeature(cpu, listed)
    BY <1>4, AnswerOnlyIInv DEF HasFeature, CpuStateUnchanged, Outcomes, Statuses, CallOps
<1>5. CASE \E cpu \in CpuIds, reg \in 0..5, ptr \in Pointers : ReadCr(cpu, reg, ptr)
    BY <1>5, AnswerOnlyIInv DEF ReadCr, OutPtrChecked, CpuStateUnchanged, Outcomes,
       Statuses, CallOps
<1>6. CASE \E cpu \in CpuIds, reg \in 0..5 : WriteCr(cpu, reg)
    BY <1>6, AnswerOnlyIInv DEF WriteCr, CpuStateUnchanged, Outcomes, Statuses, CallOps
<1>7. CASE \E op \in ControlOps, cpu \in CpuIds : GuardedControl(op, cpu)
    BY <1>7, AnswerOnlyIInv DEF GuardedControl, CpuStateUnchanged, Outcomes, Statuses,
       CallOps, ControlOps
<1>8. CASE \E op \in ValueOps, cpu \in CpuIds : GuardedValue(op, cpu)
    BY <1>8, AnswerOnlyIInv DEF GuardedValue, CpuStateUnchanged, Outcomes, CallOps, ValueOps
<1>9. CASE \E mask \in IpiMasks : SendIpi(mask)
    BY <1>9, SendIpiIInv
<1>10. CASE \E cpu \in CpuIds : GetPerCpuData(cpu)
    <2> PICK cpu \in CpuIds : GetPerCpuData(cpu)
        BY <1>10
    <2>1. per_cpu_data[cpu] \in Outcomes
        BY DEF IInv, CpuTypeOK, Outcomes
    <2> QED
        BY <2>1, AnswerOnlyIInv DEF GetPerCpuData, CpuStateUnchanged, Outcomes, CallOps
<1>11. CASE \E cpu \in CpuIds, data \in {"null"} \cup DataPtrs : SetPerCpuData(cpu, data)
    BY <1>11, SetPerCpuDataIInv
<1>12. CASE UNCHANGED cvars
    BY <1>12 DEF IInv, CpuTypeOK, cvars
<1> QED
    BY <1>1, <1>2, <1>3, <1>4, <1>5, <1>6, <1>7, <1>8, <1>9, <1>10, <1>11, <1>12 DEF CpuNext

THEOREM IInvHolds == CpuSpec => []IInv
BY InitIInv, NextIInv, PTL DEF CpuSpec

-----------------------------------------------------------------------------
(* send_ipi accepts a mask exactly when the mask names a CPU the per-CPU  *)
(* guards accept, for every topology of fewer than 64 logical CPUs (the    *)
(* code's is 16).  From 64 on, the release-mode shift wraps and the u64    *)
(* mask no longer names the CPUs the u8 count admits; TLC finds the        *)
(* disagreement at 64, so the hypothesis cannot be dropped.               *)
THEOREM IpiAgreesWithCpuGuardHolds ==
    ASSUME LogicalCpus % 256 < 64
    PROVE  CpuSpec => []IpiAgreesWithCpuGuard
<1>1. IInv => IpiAgreesWithCpuGuard
    <2> SUFFICES ASSUME IInv, cpu_last.op = "send_ipi"
                 PROVE  (cpu_last.res = "Ok") <=> \E i \in cpu_last.mask : i < cpu_count
        BY DEF IpiAgreesWithCpuGuard
    <2>1. cpu_count \in 0..63
        BY CpuAssumption DEF IInv
    <2>2. \A i \in Bits : i \in cpu_mask <=> i < cpu_count
        BY <2>1 DEF IInv, LowMask, Bits
    <2>3. cpu_last.mask \subseteq Bits
        BY DEF IInv
    <2> QED
        BY <2>2, <2>3 DEF IInv
<1> QED
    BY <1>1, IInvHolds, PTL

(* Every step of the CPU subsystem changes a per-CPU data pointer only as  *)
(* set_per_cpu_data on that online CPU.  init's clearing of the first      *)
(* cpu_count slots runs only while nothing has been stored.                *)
LEMMA PerCpuDataStep ==
    IInv /\ [CpuNext]_cvars =>
        [\A i \in CpuIds :
             per_cpu_data'[i] # per_cpu_data[i] =>
                 cpu_last'.op = "set_per_cpu_data" /\ cpu_last'.cpu = i /\ i < cpu_count]_per_cpu_data
<1> SUFFICES ASSUME IInv, [CpuNext]_cvars,
                    per_cpu_data' # per_cpu_data
             PROVE  \A i \in CpuIds :
                        per_cpu_data'[i] # per_cpu_data[i] =>
                            cpu_last'.op = "set_per_cpu_data" /\ cpu_last'.cpu = i /\ i < cpu_count
    OBVIOUS
<1>1. CASE InitSubsystem /\ ~initialized
    <2>1. per_cpu_data = [i \in CpuIds |-> "null"]
        BY <1>1 DEF IInv
    <2>2. per_cpu_data' = per_cpu_data
        BY <1>1, <2>1 DEF InitSubsystem
    <2> QED
        BY <2>2
<1>2. CASE \E cpu \in CpuIds, data \in {"null"} \cup DataPtrs : SetPerCpuData(cpu, data)
    <2> PICK cpu \in CpuIds, data \in {"null"} \cup DataPtrs : SetPerCpuData(cpu, data)
        BY <1>2
    <2>1. CASE CpuOnline(cpu)
        <3>1. per_cpu_data \in [CpuIds -> {"null"} \cup DataPtrs]
            BY DEF IInv, CpuTypeOK
        <3> QED
            BY <2>1, <3>1 DEF SetPerCpuData, Ret, CpuOnline
    <2>2. CASE ~CpuOnline(cpu)
        BY <2>2 DEF SetPerCpuData
    <2> QED
        BY <2>1, <2>2
<1>3. CASE ~(InitSubsystem /\ ~initialized)
          /\ ~\E cpu \in CpuIds, data \in {"null"} \cup DataPtrs : SetPerCpuData(cpu, data)
    <2>1. per_cpu_data' = per_cpu_data
        BY <1>3 DEF CpuNext, InitSubsystem, Enumerate, QueryIntoBuffer, HasFeature, ReadCr,
           WriteCr, GuardedControl, GuardedValue, SendIpi, GetPerCpuData, cvars
    <2> QED
        BY <2>1
<1> QED
    BY <1>1, <1>2, <1>3

(* The action property the hal_cpu run checks, for every topology and set *)
(* of cpu ids: a repeated init never clears a stored pointer and no call  *)
(* writes a slot past cpu_count.                                           *)
THEOREM PerCpuDataOnlySetExplicitlyHolds == CpuSpec => PerCpuDataOnlySetExplicitly
BY IInvHolds, PerCpuDataStep, PTL DEF CpuSpec, PerCpuDataOnlySetExplicitly

=============================================================================
