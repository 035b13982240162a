# TLA+ models of the kernel HAL's capability and driver core

This directory holds TLA+ models of the hardware abstraction layer in `src/`.
TLC checks them on small instances. TLAPS proves the following for every value of the constants:

* the invariants of the capability manager, the registry and the device table;
* that the capability manager implements an abstract token store.

## The system

`spec.md` names two coupled subsystems as the core. Around them are collaborators with little or no logic.

* **Capability engine** (`src/kernel/hal/capability/`).
  * `CapabilityManager` owns a fixed pool of `MAX_TOKENS` optional token slots, a live count and an issuance counter.
  * `create_token` stores a new `CapabilityToken` in the first empty slot and returns a *copy*. The token is `Copy`.
  * `verify` and `check_permission` judge a token the caller presents.
  * `revoke` sets `REVOKED` on the resident record.
  * `CapabilitySystem` (`mod.rs`) forwards its four calls to the manager.
* **Driver registry and device table** (`src/kernel/hal/driver/`).
  * `DriverRegistry` keeps up to `MAX_DRIVERS` validated `DriverDescriptor`s. It supports `register`, `unregister` (order-preserving removal), `find` and `get_by_priority`.
  * `DriverManager` composes the registry with an append-only device table (`probe_device`, `get_device`).
  * `DriverCallback` invokes a descriptor's optional lifecycle callbacks and turns a nonzero status into a `HalError`.
* **Error taxonomy** (`src/hal/src/error.rs`): `HalError`, its i32 codes and the conversions in both directions.
* **Example NVMe driver** (`src/EXAMPLE_DRIVER_NVMe.rs`). It ties the two subsystems together:
  * its lifecycle callbacks manage a `static mut` driver instance;
  * its read and write requests carry capability tokens, which it checks with a `CapabilitySystem`.
* **CPU HAL** (`src/hal/src/cpu.rs`, forwarded 1:1 by `ffi.rs`). A static `CPU_STATE` holds:
  * an initialized flag;
  * a u8 `cpu_count`;
  * a u64 `cpu_mask`;
  * per-CPU data pointers.

  Every per-CPU call is guarded by `cpu_id < cpu_count`. The C entry points of `ffi.rs` reject a null out-pointer, then forward.
* **Kernel CPU subsystem** (`src/kernel/hal/cpu/subsystem.rs`, `topology.rs`). A `CpuSubsystem` instance derives a count and a mask from the fixed `CpuTopology::default()` (16 logical CPUs). It is not modelled (see Not modelled).

## Modules

| Module | Models | State | Actions |
|---|---|---|---|
| `CapabilityManager` | manager.rs, token.rs, capability/mod.rs | `tokens` (slot → token or None), `token_count`, `next_token_id`, `held` (the copies callers hold), `last` (the last call's result) | `CreateTokenNoMemory`, `CreateToken`, `Verify`, `Revoke`, `CheckPermission` |
| `CapabilityStore` | the promise of spec sections 3 and 4.1, with no slots or copies | `issued` (id → grant), `revoked` (set of ids) | `Issue`, `RevokeId` |
| `CapabilityForgery` | token.rs (public fields); EXTENDS `CapabilityManager` | as `CapabilityManager` | its actions plus `Forge`: a caller writes a token literal |
| `CapabilityManagerProofs` | TLAPS proofs about `CapabilityManager` | — | — |
| `CapabilityRefinementProofs` | TLAPS proof that `CapabilityManager` implements `CapabilityStore` | — | — |
| `DriverManagerProofs` | TLAPS proofs about `DriverManager` | — | — |
| `DriverRegistryProofs` | TLAPS proofs about `DriverRegistry`, and that it implements `RegistrySet` | — | — |
| `HalCpuProofs` | TLAPS proofs about `HalCpu` | — | — |
| `NvmeDriverProofs` | TLAPS proofs about `NvmeDriver` (EXTENDS `CapabilityManagerProofs`) | — | — |
| `DriverRegistry` | registry.rs, descriptor.rs | `drivers` (slot → descriptor or None), `driver_count`, `last` | `Register` (InvalidArg / NoMemory / DeviceBusy / Ok), `Unregister`, `Find`, `GetByPriority` |
| `RegistrySet` | the promise of spec section 4.3, with no slots, count or order | `registered` (set of descriptors), `last` | `AddDriver`, `RemoveDriver`, `LookUp`, `AtPriority` |
| `DriverManager` | driver/mod.rs, device.rs; EXTENDS `DriverRegistry` | registry state plus `devices`, `device_count`, `device_last`, and the history `probed` | `RegisterDriver`, the registry's calls, `ProbeDevice`, `GetDevice` |
| `NvmeDriver` | EXAMPLE_DRIVER_NVMe.rs, callback.rs, error.rs; EXTENDS `CapabilityManager` | the caller's capability state plus `instance` (None or the driver's device count) and `drv_last` | `CallInit`, `CallProbe`, `CallSuspendResume`, `CallRemove`, `SubmitRequest`, `CallerCapNext` |
| `NvmeInstanceRace` | EXAMPLE_DRIVER_NVMe.rs 32-39, 97-161, with several callers | `instance`, `count`, `filled` (device entries holding Some), `claimed`, per-caller `pc` and `seen` | `CallInit`, `CallRemove`, `ProbeStart`, `ProbeCheck`, `ProbeWrite` |
| `HalCpu` | hal/src/cpu.rs, ffi.rs | `initialized`, `cpu_count`, `cpu_mask` (its set of 1 bits), `per_cpu_data`, `cpu_last` | `InitSubsystem`, `Enumerate`, `QueryIntoBuffer`, `HasFeature`, `ReadCr`, `WriteCr`, `GuardedControl`, `GuardedValue`, `SendIpi`, `GetPerCpuData`, `SetPerCpuData` |

`MC_*.tla` instantiate these for TLC. `PROJECT.json` maps every definition to the source lines it translates.

### Correspondence and abstractions

* **Every call is one atomic step.**
  * Every manager and registry method takes `&mut self` or `&self`.
  * The callbacks and the CPU calls run one at a time: spec section 5 scopes the reference behaviour to a single caller at boot.
  * The exception is `NvmeInstanceRace`. It drops that assumption for the NVMe callbacks and splits `probe` at each read and write of the static.
  * An interleaving is therefore an order of whole calls.
* **Caller copies.** `held` is the set of copies callers hold, and a copy is never updated. This is the point of the model: `verify` and `check_permission` read the *copy's* flags, while `revoke` writes only the resident record.
* **What each call touches.**
  * `create_token` consumes the id before the slot search.
  * The slot search and the `!found_slot` failure are modelled, even though the invariant shows the search cannot fail below capacity.
* **Abstracted data.**
  * Names, signatures, times and cache and topology values are data no decision reads, so they are left out.
  * A descriptor is its id, whether its name pointer is non-null, whether probe is present, and its priority.
  * A device is its id and its active bit.
* **Registry removal.** The registry's `self.drivers.remove(pos)` is not a method of a fixed array. It is modelled as the spec's order-preserving removal, with the freed last slot emptied.
* **NVMe driver.**
  * The NVMe driver's own `CapabilitySystem` is `DriverCap`, an `INSTANCE` of `CapabilityManager` fixed in its initial state. Nothing can reach that private field to issue a token.
  * The tokens its requests carry come from the caller's capability system: the `CapabilityManager` that `NvmeDriver` extends.
* **CPU masks and counts.**
  * A u64 mask is a set of bit positions, so `&` is ∩.
  * `(1u64 << k) - 1` is `LowMask(k)`, with the shift taken mod 64 as in a release build (a debug build panics for `k >= 64`).
  * `cpu_count` is `logical_cpus % 256` (the `as u8`).
  * `OutPtrChecked` is the null check of the `ffi.rs` wrappers. The `cpu.rs` callee repeats the same check.
* **The NVMe static under concurrency.**
  * `NVME_DRIVER_INSTANCE` is one piece of static storage, and `as_mut()` yields a reference into it.
  * A probe that outlives a concurrent `remove` or `init` is undefined behaviour. The build's store still lands in the driver installed at that moment. The model writes its stale `count + 1` there.
* **Refinement mapping.** `AbsIssued` maps each resident token's id to its grant. `AbsRevoked` is the set of ids whose resident record carries `REVOKED`. `held` and `last` are hidden, and `Ids <- Slots` gives the abstract store its capacity.

## Runs

| Run | Config | Expect | Checks |
|---|---|---|---|
| capability_manager | `MC_CapabilityManager.cfg` | pass | `TypeOK`, `PoolInIssueOrder`, `CopiesBoundToIssuance`, `RevocationPermanent`, `IssuedIdsIncrease`, `ImplementsStore` |
| capability_revocation | `MC_CapabilityRevocation.cfg` | violation | `RevokedTokenDenied` |
| driver_registry | `MC_DriverRegistry.cfg` | pass | `TypeOK`, `RegistryCompact`, `RegisteredUniqueAndValid`, `BusyOnlyForLiveDriver`, `ImplementsRegistrySet` |
| driver_manager | `MC_DriverManager.cfg` | pass | `ManagerTypeOK`, `DeviceFoundIffProbed`, `DevicesAppendOnly` |
| nvme_driver | `MC_NvmeDriver.cfg` | pass | `NvmeTypeOK`, `ProbeOutcomeReflectsDriver` |
| nvme_probe_claim | `MC_NvmeProbeClaim.cfg` | violation | `ProbeSuccessClaimsDevice` |
| nvme_authorised_io | `MC_NvmeAuthorisedIo.cfg` | violation | `AuthorisedRequestAccepted` |
| hal_cpu | `MC_HalCpu.cfg` | pass | `IpiAgreesWithCpuGuard`, `PerCpuDataOnlySetExplicitly` |
| capability_forgery | `MC_CapabilityForgery.cfg` | violation | `ForgedTokenRejected` |
| capability_combined_permission | `MC_CapabilityCombined.cfg` | violation | `CombinedPermissionNeedsAll` |
| nvme_reinit_drops_devices | `MC_NvmeReinit.cfg` | violation | `DevicesKeptUntilRemove` |
| nvme_instance_race | `MC_NvmeInstanceRace.cfg` | violation | `ClaimedDevicesCounted` |

What the properties say:

* **`PoolInIssueOrder`**
  * The occupied slots are exactly `1..token_count`.
  * Slot i holds token id i.
  * `next_token_id = token_count + 1`.

  So no id is lost to a failed search, the count never drifts from the pool, and the u32 counter stays far from overflow.
* **`CopiesBoundToIssuance`**: every copy a caller holds matches a resident record in id, container, app and grant, and its flags are a subset of the record's.
* **`RevocationPermanent`**: no step removes, overwrites or un-revokes a resident token.
* **`RegistryCompact`**: the live drivers fill exactly `1..driver_count` after any order of registrations and unregistrations. `register`'s store at index `driver_count` depends on this.
* **`BusyOnlyForLiveDriver`**: `DeviceBusy` is answered only for an id that is registered now. The duplicate scan covers the whole array, so this fails if an unregistered entry lingers.
* **`DeviceFoundIffProbed`**: `get_device` finds exactly the ids `probe_device` accepted.
* **`DevicesAppendOnly`**: no stored device record ever changes.
* **`ProbeOutcomeReflectsDriver`**: a probe reports `NoMemory` exactly when the driver's table is full. The error crosses the C ABI as an i32 and comes back through `HalError::from`.
* **`IpiAgreesWithCpuGuard`**: `send_ipi` accepts a mask exactly when it names a CPU that the per-CPU guards accept. This ties the shifted u64 mask to the u8 count.
* **`ImplementsStore`**: every behaviour of the manager is a behaviour of `CapabilityStore` under the mapping. No id is forgotten, rebound to another grant or un-revoked, and each new id exceeds all earlier ones.
* **`ImplementsRegistrySet`**: every behaviour of the registry is a behaviour of `RegistrySet` under the mapping `registered <- {drivers[i] : i \in Live}`, with `last` mapped to itself. So the capacity check on `driver_count` is a check on the number of registered descriptors, and `unregister`'s shift drops exactly the descriptor with the id. Every answer, including `find` and `get_by_priority`, is the one the set gives.
* **`PerCpuDataOnlySetExplicitly`**: per-CPU data changes only through `set_per_cpu_data` on that CPU, so a repeated `init` never clears it.

Every property of a passing run has a mutant in `PROJECT.json`: a plausible bug in the mapped code, under which TLC finds the property violated. Examples:

* a forgotten `token_count += 1`;
* a forgotten id increment;
* `revoke` freeing the slot;
* removal without shifting, or without clearing the last slot;
* a 0/1-based index slip in `probe_device`;
* a missing arm in `From<HalStatus>`;
* `1 << n` without `- 1`;
* `init` without its early return.

### Findings

The violation runs each show a disagreement between the code and the spec.

* **capability_revocation** (`manager.rs:56`). A copy obtained before `revoke(id)` still gets `Ok` from `verify` and `true` from `has_permission`: both read the presented copy's flags. Spec section 8 requires `PermissionDenied` and `false`. The trace is three steps long: create, revoke, verify.
* **nvme_probe_claim** (`EXAMPLE_DRIVER_NVMe.rs:120`). Before `init`, or after `remove`, the probe callback returns 0 without registering the device, and `call_probe` reports success.
* **capability_forgery** (`manager.rs:63`). `verify` checks only that a resident token has the presented id, and `CapabilityToken`'s fields are public. A caller can therefore write a token for a live id, with another container, and get `Ok`. Spec 4.1 says the resident-id check guards against forged copies. The trace: create a token for c2, forge id 1 for c1, verify.
* **capability_combined_permission** (`manager.rs:88`). `check_permission` tests `permissions & bits != 0`. A READ-only token is therefore granted a request for READ | WRITE. The spec defines the check only for "the requested permission bit".
* **nvme_instance_race** (`EXAMPLE_DRIVER_NVMe.rs:120`). The run has two callers of the callbacks, the multi-core use spec section 5 warns about. The property `ClaimedDevicesCounted` says the installed driver's entries are exactly its first `device_count`, one per probe that returned 0 into it since `init`. TLC breaks it: both probes read `device_count = 0`, both return 0, and the driver ends with one device. A probe that read the count before a `remove` and `init` also plants a stale count in the fresh driver, so the count covers an empty entry.
* **nvme_reinit_drops_devices** (`EXAMPLE_DRIVER_NVMe.rs:105`). `nvme_driver_init` stores a fresh `NvmeDriver` in the static even when a driver instance is live. The trace is init, probe a device, init: the device count drops from 1 to 0 without a call to remove. The spec's device lifecycle says a device is removed when its owning driver's `remove` callback completes. `DevicesKeptUntilRemove` states that no call but remove lowers the live driver's device count.
* **nvme_authorised_io** (`EXAMPLE_DRIVER_NVMe.rs:58`). Requests are verified against the driver's own, always-empty `CapabilitySystem`. Even a valid, unrevoked READ token with a device in range and a buffer gets `InvalidArg`.

### Bounds

* **Capability manager: 3 slots, 2 containers, 1 app, 2 permission bits.**
  * Three slots let a token be revoked while later ones are created and the pool fills, so `CreateTokenNoMemory` fires.
  * Every subset of the two bits is a grant or a request, so the any-bit case of `check_permission` occurs.
  * `revoke` also takes the unknown ids 0 and `MaxTokens + 1`.
* **Registry: 2 slots, ids {0,1,2,3}, priorities {5,10,20}.**
  * Id 0 is invalid.
  * Three valid ids fill the table and exercise `NoMemory` and `DeviceBusy`.
  * Removing from the front of a full table exercises the shift.
  * `get_by_priority` is queried at 0 and at each priority, so below, at and above the priorities registered at any moment.
* **Device table: 2 slots, 2 ids.** The registry is shrunk to one slot to keep the product small. A device can be probed twice and the table fills.
* **NVMe: a 2-device driver table and a 2-slot token pool.**
  * Probes reach the full-table path.
  * Requests use every index 0..2, both pointers and every held token.
* **NVMe static: capacity 2, up to 4 probes, two callers.** Two callers suffice for a lost update and for a probe overlapping `remove` and `init`.
* **CPU: the code's own 16 logical CPUs, with cpu ids {0, 15, 16, 255}** (first, last, one past, the u8 maximum).
  * IPI masks name each of these CPUs, bit 63, and all CPUs.
  * With `LogicalCpus = 64` the same config finds `IpiAgreesWithCpuGuard` violated: the shift wraps and the mask becomes 0. The code fixes the topology at 16, so this cannot happen today; it shows why the theorem needs its hypothesis.

### Fairness

No run states liveness. Every operation is synchronous and returns at once (spec section 5). There is no waiting, retry or message whose eventual delivery a fairness assumption would be about. The specifications are safety-only (`Init /\ [][Next]_vars`).

## Proofs (TLAPS)

`CapabilityManagerProofs.tla` proves the following for every `MaxTokens ∈ Nat \ {0}` and any sets of containers, apps and permission bits:

* `TypeCorrect`
* `PoolInIssueOrderHolds`
* `CopiesBoundHolds`
* `RevocationPermanentHolds` (the action property)
* `NoIdOverflow`: `next_token_id <= MaxTokens + 1`, so with 4096 slots the u32 increment cannot overflow.

The proofs assume only:

* `MaxTokensAssumption`;
* `NoneAssumption`: the empty slot is not a token.

The argument rests on the inductive invariant `IInv == TypeOK /\ PoolInIssueOrder /\ CopiesBoundToIssuance`. `CopiesBoundToIssuance` is not inductive alone: it needs to know that no slot is overwritten, and `PoolInIssueOrder` supplies that. Two lemmas do the work:

* **`FirstFreeIsNext`**: below capacity, the slot search finds `token_count + 1`.
* **`FirstMatchIsId`**: `revoke(id)` hits slot `id` exactly when `id ∈ 1..token_count`.

Each action then has a lemma that it preserves `IInv`. `RevocationPermanentHolds` shows that each step is a `ResidentRecordsKept` step or leaves `tokens` unchanged.

`DriverRegistryProofs.tla` proves every invariant of the `driver_registry` run for every `MaxDrivers ∈ Nat \ {0}` and any sets of ids and priorities:

* `RegistryTypeCorrect`
* `RegistryCompactHolds`
* `RegisteredUniqueHolds`
* `BusyOnlyHolds`

They assume `MaxDriversAssumption`, `IdsAssumption` (ids and priorities are naturals) and `NoneAssumption`. Here the conjunction of the run's invariants is itself inductive. `RegistryCompact` is what makes it so:

* **`LiveIsPrefix`**: the live slots are `1..driver_count`, so register's store at index `driver_count + 1` lands on an empty slot.
* **`FirstPosIsMatch`**: with ids unique, the position `unregister` finds is the slot holding the id.
* **`RemoveAtCompact`**: `remove(pos)` on a compact table leaves it compact with one entry fewer, and the entry at `k` came from `k` or `k + 1`.

Uniqueness after `unregister` follows because that shift is injective.

`DriverManagerProofs.tla` proves two theorems for every `MaxDevices`, registry capacity and set of ids (assuming also `MaxDevicesAssumption`, `DeviceIdsAssumption` and `DeviceNoneAssumption`):

* `ManagerTypeCorrect` (`ManagerTypeOK`);
* `DeviceFoundIffProbedHolds`.

`DeviceFoundIffProbed` is not inductive alone. The strengthening `MIInv` adds:

* the registry's `IInv`;
* `DevicesPrefix`: the filled slots are exactly `1..device_count`;
* `ProbedStored`: `probed` is the set of ids stored there.

`get_device` takes the first matching slot with a `CHOOSE` of a minimum. `FirstSlotExists` shows that minimum exists, using `WFMin` and the well-foundedness of `<` on `Nat` (`WellFoundedInduction`).

`CapabilityRefinementProofs.tla` proves `ManagerImplementsStore`: `Spec => ImplementsStore`, for every `MaxTokens`. The argument runs as follows:

* By `PoolInIssueOrder`, the resident ids are `1..token_count` and slot i holds id i. So `AbsIssued` is the function `i ↦ grant of slot i` on `1..token_count` (`AbsIssuedIsPrefix`).
* A successful `create_token` is `Issue`: the new id `token_count + 1` exceeds every kept id and lies in `Slots`.
* A `revoke` of a resident id is `RevokeId`.
* Every other step, and every failure, leaves both mapped variables unchanged.

`DriverRegistryProofs.tla` also proves `RegistryImplementsSet`: `Spec => ImplementsRegistrySet`, for every `MaxDrivers`. The argument:

* **`RegisteredCount`**: with the live slots `1..driver_count` and ids unique, `i ↦ drivers[i]` is a bijection from `1..driver_count` onto the registered set. By `FS_CountingElements` (FiniteSetTheorems), its cardinality is `driver_count`. So `register`'s `NoMemory` test is the abstract test on the set's size.
* **`RegisteredIdsAreLive`**: an id is in the set exactly when a live slot holds it. So `DeviceBusy` and `InvalidArg` agree.
* A successful `register` adds exactly `d`: the live slots grow by `driver_count + 1`, and the others keep their entries.
* A successful `unregister` leaves `{e \in registered : e.driver_id # id}`. Every surviving slot came from a slot other than `pos` (`RemoveAtCompact`). Conversely, any descriptor with another id sits at some `j # pos` and reappears at `j` or `j - 1`.
* `find` and `get_by_priority` change nothing, and their answers are the abstract `LookUp` and `AtPriority`.

The proof uses the registry's `IInv` in both the state and its successor, as the capability refinement does.

`HalCpuProofs.tla` proves, for every `LogicalCpus` of the topology's u16 and any set of cpu ids and IPI masks:

* `PerCpuDataOnlySetExplicitlyHolds` (the action property);
* `IpiAgreesWithCpuGuardHolds`, under the hypothesis `LogicalCpus % 256 < 64`.

The constant is declared as `LogicalCpus \in Nat /\ LogicalCpus < 65536` rather than as an interval, so the provers do not expand a 65536-case disjunction. The inductive invariant `IInv` adds four facts to `CpuTypeOK`:

* `cpu_count` is `LogicalCpus % 256` after `init` and 0 before it;
* `cpu_mask` is the low `cpu_count % 64` bits;
* before `init` every data pointer is null;
* the last `send_ipi`'s answer matches the mask it tested.

The hypothesis of the IPI theorem is necessary: with 64 CPUs the shift wraps and TLC finds the property violated (see Bounds). The per-CPU result holds because `set_per_cpu_data` refuses every CPU before `init`. So when `init` clears the first `cpu_count` slots, they are already null.

`NvmeDriverProofs.tla` proves `NvmeTypeCorrect` (`NvmeTypeOK`) and `ProbeOutcomeReflectsDriverHolds`, for every driver capacity and token pool size. The caller's capability state keeps the manager's `IInv`: its steps reuse the manager's per-action lemmas. The driver's part needs only the range of the static. The probe result rests on two lemmas:

* **`ToStatusInjective`**: the i32 codes of `error.rs` are distinct.
* **`FromToStatus`**: as a result, `HalError::from` undoes `into()` for every variant.

`DriverManagerProofs.tla` also proves `DevicesAppendOnlyHolds`, the action property. `AppendOnlyStep` shows, from `MIInv`, that only a probe below capacity writes `devices`, and it writes slot `device_count + 1`. `CapabilityManagerProofs.tla` also proves `IssuedIdsIncreaseHolds`: a new copy comes only from a `create_token` step, and every earlier copy has an id below `next_token_id` (`CopiesBoundToIssuance` and `PoolInIssueOrder`).

Every property of a passing run has a theorem. Only the violation runs, including `NvmeInstanceRace`'s model of concurrent callers, are checked by TLC alone: they exhibit counterexamples, and there is nothing to prove. No run states liveness (see Fairness), and no model uses a recursive definition. Either would stay with TLC, since TLAPS cannot prove liveness under fairness or what a recursive definition computes for every input.

## Not modelled

* `Permission::name`, `DriverDescriptor::name` and `HalError`'s `Display` are formatting.
* `kernel/hal/device_node` holds pure mode-bit predicates, and its submodules are missing from the repository.
* The ACPI, UEFI, GPU, audio, block, power and USB subsystems only set a boolean in `init`.
* `hal/src/lib.rs` has a flag nothing reads.
* The kernel CPU subsystem (`kernel/hal/cpu/subsystem.rs`) is not modelled. Spec section 1 calls CPU topology reporting flat data return with no decision logic.
  * Its topology is the private default of 16 logical CPUs, and nothing sets it.
  * `init` writes `cpu_count` and `cpu_mask` once, behind an early return, and no call reads `cpu_mask`.
  * `has_feature` is one comparison with the count.

  No sequence of calls reaches a state that a property could tell apart. `features.rs`, `pstate.rs`, `stats.rs` and `lib.rs` declare data types and re-exports.
* `write_cr` accepts register 1 while `read_cr` refuses it. No text says which registers a write may name, so no property asserts it.
* Token expiry: `created_time` is always 0 and nothing sets `EXPIRED`.

## Plan for later work

* An abstract device table for `DriverManager` (a set of probed ids, append-only), refined from the slot array in the same way.
* The NVMe callbacks with a lock around the static (spec section 5, option a), checked against `ClaimedDevicesCounted`.
