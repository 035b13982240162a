------------------------------ MODULE HalCpu ------------------------------
(***************************************************************************)
(* The CPU subsystem of the HAL library (src/hal/src/cpu.rs): the static   *)
(* CPU_STATE with its initialized flag, cpu_count (u8), cpu_mask (u64) and *)
(* the per-CPU data pointers, and the calls that read or write them.       *)
(*                                                                         *)
(* A u64 is represented by the set of its 1 bits (positions 0..63), so     *)
(* `&` is \cap and `(1 << k) - 1` is the positions below k.  Values the    *)
(* calls write into caller buffers (topology, cpuid leaves, MSR and CR     *)
(* contents, statistics) are constants of the code and are left out: a    *)
(* call is modelled by the status it returns and the state it changes.     *)
(* Pointer arguments are "null" or "ptr"; per-CPU data is "null" or one of *)
(* DataPtrs.                                                               *)
(***************************************************************************)
EXTENDS Naturals

CONSTANTS
    LogicalCpus,   \* topology.logical_cpus set by init (DEFAULT_CPU_COUNT, 16)
    CpuIds,        \* u8 cpu_id values callers pass
    DataPtrs       \* non-null per-CPU data pointers callers store

ASSUME CpuAssumption ==
    /\ LogicalCpus \in Nat /\ LogicalCpus < 65536   \* a u16
    /\ CpuIds \subseteq 0..255
    /\ "null" \notin DataPtrs

Bits == 0..63
MaskAll == Bits                         \* HAL_CPU_MASK_ALL = !0u64

(* `((1u64) << k) - 1` for a u8 k in a release build: the shift amount is *)
(* taken mod 64, so k = 64 gives 1 - 1 = 0.  (A debug build panics for    *)
(* k >= 64 instead.)                                                       *)
LowMask(k) == 0..((k % 64) - 1)

VARIABLES
    initialized,    \* CPU_STATE.initialized
    cpu_count,      \* CPU_STATE.cpu_count
    cpu_mask,       \* CPU_STATE.cpu_mask, as its set of 1 bits
    per_cpu_data,   \* CPU_STATE.per_cpu_data, on the ids callers use
    cpu_last        \* the call last made, its cpu_id or mask, and its result

cvars == <<initialized, cpu_count, cpu_mask, per_cpu_data, cpu_last>>

Pointers == {"null", "ptr"}
QueryOps == {"get_info", "cpuid", "read_msr", "get_pstate", "get_stats"}
ControlOps == {"write_msr", "send_sipi", "set_pstate", "set_frequency",
               "enable_turbo", "disable_turbo", "idle", "halt",
               "prefetch_enable", "prefetch_disable",
               "enable_virtualization", "disable_virtualization"}
ValueOps == {"get_tlb_entries", "virtualization_enabled"}

Statuses == {"Ok", "InvalidArg", "NotSupported", "DeviceFailed"}
Outcomes == Statuses \cup {"null"} \cup DataPtrs \cup {"true", "false", "0", "512"}

CallOps == {"none", "init", "enumerate", "has_feature", "read_cr", "write_cr",
            "send_ipi", "get_per_cpu_data", "set_per_cpu_data"}
           \cup QueryOps \cup ControlOps \cup ValueOps

CpuTypeOK ==
    /\ initialized \in BOOLEAN
    /\ cpu_count \in 0..255
    /\ cpu_mask \subseteq Bits
    /\ per_cpu_data \in [CpuIds -> {"null"} \cup DataPtrs]
    /\ cpu_last \in [op : CallOps, cpu : Nat, mask : SUBSET Bits, res : Outcomes]

(* The static initialiser of CPU_STATE. *)
Init ==
    /\ initialized = FALSE
    /\ cpu_count = 0
    /\ cpu_mask = {}
    /\ per_cpu_data = [i \in CpuIds |-> "null"]
    /\ cpu_last = [op |-> "none", cpu |-> 0, mask |-> {}, res |-> "Ok"]

Ret(op, cpu, res) == cpu_last' = [op |-> op, cpu |-> cpu, mask |-> {}, res |-> res]

(* The C entry points hal_cpu_enumerate, _get_info, _cpuid, _read_msr,   *)
(* _read_cr, _get_pstate and _get_stats (ffi.rs) answer InvalidArg for a  *)
(* null out-pointer before forwarding; the CpuSubsystem call repeats the  *)
(* same test first thing, so either layer gives this result.              *)
OutPtrChecked(ptr, res) == IF ptr = "null" THEN "InvalidArg" ELSE res

(* The guard every per-CPU call starts with. *)
CpuOnline(cpu) == cpu < cpu_count

(* Mutation: init without its `if initialized` early return. *)
InitNoGuard ==
    LET count == LogicalCpus % 256 IN
    /\ cpu_count' = count
    /\ per_cpu_data' = [i \in CpuIds |-> IF i < count THEN "null" ELSE per_cpu_data[i]]
    /\ cpu_mask' = MaskAll \cap LowMask(count)
    /\ initialized' = TRUE
    /\ Ret("init", 0, "Ok")

(* Mutation: the mask computed as `1 << cpu_count` without the `- 1`. *)
InitMaskNoMinus ==
    \/ /\ initialized
       /\ Ret("init", 0, "Ok")
       /\ UNCHANGED <<initialized, cpu_count, cpu_mask, per_cpu_data>>
    \/ LET count == LogicalCpus % 256 IN
       /\ ~initialized
       /\ cpu_count' = count
       /\ per_cpu_data' = [i \in CpuIds |-> IF i < count THEN "null" ELSE per_cpu_data[i]]
       /\ cpu_mask' = MaskAll \cap {count % 64}
       /\ initialized' = TRUE
       /\ Ret("init", 0, "Ok")

(* CpuSubsystem::init: Ok at once when initialized; otherwise cpu_count is *)
(* logical_cpus truncated to u8, the first cpu_count data pointers are     *)
(* cleared and the mask gets the low cpu_count bits.                       *)
InitSubsystem ==
    \/ /\ initialized
       /\ Ret("init", 0, "Ok")
       /\ UNCHANGED <<initialized, cpu_count, cpu_mask, per_cpu_data>>
    \/ LET count == LogicalCpus % 256 IN
       /\ ~initialized
       /\ cpu_count' = count
       /\ per_cpu_data' = [i \in CpuIds |-> IF i < count THEN "null" ELSE per_cpu_data[i]]
       /\ cpu_mask' = MaskAll \cap LowMask(count)
       /\ initialized' = TRUE
       /\ Ret("init", 0, "Ok")

(* enumerate: a null buffer, then the initialized flag. *)
Enumerate(ptr) ==
    /\ Ret("enumerate", 0, OutPtrChecked(ptr, IF ~initialized THEN "DeviceFailed" ELSE "Ok"))
    /\ UNCHANGED <<initialized, cpu_count, cpu_mask, per_cpu_data>>

(* get_info, cpuid, read_msr, get_pstate, get_stats: a null out-pointer,  *)
(* then the cpu_id guard; the buffer is filled with constants.             *)
QueryIntoBuffer(op, cpu, ptr) ==
    /\ Ret(op, cpu, OutPtrChecked(ptr, IF ~CpuOnline(cpu) THEN "InvalidArg" ELSE "Ok"))
    /\ UNCHANGED <<initialized, cpu_count, cpu_mask, per_cpu_data>>

(* has_feature: the guard, then Ok for the eleven listed features. *)
HasFeature(cpu, listed) ==
    /\ Ret("has_feature", cpu, IF ~CpuOnline(cpu) THEN "InvalidArg"
                               ELSE IF listed THEN "Ok" ELSE "NotSupported")
    /\ UNCHANGED <<initialized, cpu_count, cpu_mask, per_cpu_data>>

(* read_cr: a null out-pointer, then the guard or reg > 4, then the match *)
(* that knows CR0, CR2, CR3 and CR4 only.                                  *)
ReadCr(cpu, reg, ptr) ==
    /\ Ret("read_cr", cpu,
           OutPtrChecked(ptr, IF ~CpuOnline(cpu) \/ reg > 4 \/ reg = 1 THEN "InvalidArg" ELSE "Ok"))
    /\ UNCHANGED <<initialized, cpu_count, cpu_mask, per_cpu_data>>

(* write_cr: the guard or reg > 4, nothing else. *)
WriteCr(cpu, reg) ==
    /\ Ret("write_cr", cpu, IF ~CpuOnline(cpu) \/ reg > 4 THEN "InvalidArg" ELSE "Ok")
    /\ UNCHANGED <<initialized, cpu_count, cpu_mask, per_cpu_data>>

(* write_msr, send_sipi, set_pstate, set_frequency, enable_turbo,          *)
(* disable_turbo, idle, halt, prefetch_enable, prefetch_disable,           *)
(* enable_virtualization, disable_virtualization: the guard only.          *)
GuardedControl(op, cpu) ==
    /\ Ret(op, cpu, IF CpuOnline(cpu) THEN "Ok" ELSE "InvalidArg")
    /\ UNCHANGED <<initialized, cpu_count, cpu_mask, per_cpu_data>>

(* get_tlb_entries (0 or 512) and virtualization_enabled (false or true). *)
GuardedValue(op, cpu) ==
    /\ Ret(op, cpu, IF op = "get_tlb_entries"
                    THEN (IF CpuOnline(cpu) THEN "512" ELSE "0")
                    ELSE (IF CpuOnline(cpu) THEN "true" ELSE "false"))
    /\ UNCHANGED <<initialized, cpu_count, cpu_mask, per_cpu_data>>

(* send_ipi: InvalidArg when the mask names no CPU of cpu_mask. *)
SendIpi(mask) ==
    /\ cpu_last' = [op |-> "send_ipi", cpu |-> 0, mask |-> mask,
                    res |-> IF mask \cap cpu_mask = {} THEN "InvalidArg" ELSE "Ok"]
    /\ UNCHANGED <<initialized, cpu_count, cpu_mask, per_cpu_data>>

(* get_per_cpu_data: null past cpu_count, otherwise the stored pointer. *)
GetPerCpuData(cpu) ==
    /\ Ret("get_per_cpu_data", cpu, IF CpuOnline(cpu) THEN per_cpu_data[cpu] ELSE "null")
    /\ UNCHANGED <<initialized, cpu_count, cpu_mask, per_cpu_data>>

(* set_per_cpu_data: the guard, then the store. *)
SetPerCpuData(cpu, data) ==
    \/ /\ ~CpuOnline(cpu)
       /\ Ret("set_per_cpu_data", cpu, "InvalidArg")
       /\ UNCHANGED <<initialized, cpu_count, cpu_mask, per_cpu_data>>
    \/ /\ CpuOnline(cpu)
       /\ per_cpu_data' = [per_cpu_data EXCEPT ![cpu] = data]
       /\ Ret("set_per_cpu_data", cpu, "Ok")
       /\ UNCHANGED <<initialized, cpu_count, cpu_mask>>

(* IPI masks callers send: each single CPU the ids name, bit 63 and all.  *)
IpiMasks == {{i} : i \in CpuIds \cap Bits} \cup {{63}, MaskAll}

CpuNext ==
    \/ InitSubsystem
    \/ \E ptr \in Pointers : Enumerate(ptr)
    \/ \E op \in QueryOps, cpu \in CpuIds, ptr \in Pointers : QueryIntoBuffer(op, cpu, ptr)
    \/ \E cpu \in CpuIds, listed \in BOOLEAN : HasFeature(cpu, listed)
    \/ \E cpu \in CpuIds, reg \in 0..5, ptr \in Pointers : ReadCr(cpu, reg, ptr)
    \/ \E cpu \in CpuIds, reg \in 0..5 : WriteCr(cpu, reg)
    \/ \E op \in ControlOps, cpu \in CpuIds : GuardedControl(op, cpu)
    \/ \E op \in ValueOps, cpu \in CpuIds : GuardedValue(op, cpu)
    \/ \E mask \in IpiMasks : SendIpi(mask)
    \/ \E cpu \in CpuIds : GetPerCpuData(cpu)
    \/ \E cpu \in CpuIds, data \in {"null"} \cup DataPtrs : SetPerCpuData(cpu, data)

CpuSpec == Init /\ [][CpuNext]_cvars

-----------------------------------------------------------------------------
(* Properties                                                              *)

(* send_ipi accepts a mask exactly when it names a CPU that every per-CPU *)
(* call accepts: the u64 mask init computes with a shift and the u8        *)
(* cpu_count the guards compare against describe the same CPUs, before    *)
(* and after init.                                                         *)
IpiAgreesWithCpuGuard ==
    cpu_last.op = "send_ipi" =>
        ((cpu_last.res = "Ok") <=> \E i \in cpu_last.mask : i < cpu_count)

(* Per-CPU data changes only by set_per_cpu_data on that CPU: a repeated   *)
(* init never clears a pointer a caller stored, and no call writes a slot  *)
(* past cpu_count.                                                         *)
PerCpuDataOnlySetExplicitly ==
    [][\A i \in CpuIds :
         per_cpu_data'[i] # per_cpu_data[i] =>
             cpu_last'.op = "set_per_cpu_data" /\ cpu_last'.cpu = i /\ i < cpu_count]_per_cpu_data

=============================================================================
