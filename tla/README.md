# Verification of Pointless_OS (Aegis)

TLA+ models of the Aegis capability system, microkernel and durable file store,
checked with TLC on small instances and, for the capability kernel, proved with TLAPS for every value
of the constants. The definitions are translated from the Rust source;
`PROJECT.json` gives for each one the lines it models.

## 1. The system

| Part | Where | State | What is hard about it |
|---|---|---|---|
| Capability kernel (reference model of the OS) | `aegis/crates/capability-core` | per-task slot tables, capability instances, derivation graph, clock, objects | long sequences of copy, grant, destroy, revoke and expiry |
| Task table, scheduler, kernel supervisor | `aegis-kernel/src/tasks.rs`, `supervisor.rs`, `cpu.rs`, `idt.rs` | task states, generations, saved frames, `CURRENT`, arm hooks, budgets | interrupts, faults, kills and restarts in any order |
| IPC, capability tables, task syscalls | `ipc.rs`, `cap.rs`, `supervisor.rs`, `syscall.rs`, `user_ptr.rs` | endpoints, per-task capabilities, return registers | rendezvous against death, restart, refusal and a second client |
| Roles, expansion, anomaly monitor | `role.rs`, `monitor.rs`, `audit.rs`; crate `grants` | pending requests, expiry per slot, suspension ledger | two-party confirmation, stale expiry, full tables |
| Channels, memory, frames | `channel.rs`, `mem.rs`, `frame.rs`, `page_tables.rs`, `iommu.rs` | ring buffers, regions, bitmap | generations, wrap-around, double free |
| Durable store, editor files, A/B update | `nvme_store.rs`, `update.rs`, `editor.rs`, boot path of `main.rs`; crates `object-store`, `system-update` | index, data sectors, header count and anchor, boot view | crash or error between sector writes, rollback |
| Fleet and mesh | `fleet.rs`, `mesh.rs`; crates `fleet`, `macaroon` | epochs, leader, token chains | lost, repeated and reordered messages |
| Network stack | `netif.rs`, `tcp.rs`, `arp.rs`, `tls.rs` ... | socket table, TCP states, ARP cache | retries, stale entries |
| Drivers, hypervisor, desktop, loaders | `virtio.rs`, `usbhcd.rs`, `vmx.rs`, `vdev.rs`, `desktop.rs` ... | device rings, virtual devices, windows | ring wrap-around; much of the rest is hardware I/O or drawing |

A ring-3 program enters the kernel through `syscall_trap_rust`. IPC blocks and
wakes tasks through the task table, a page fault kills or restarts a task and
posts its death on the reserved notification endpoint, and every syscall on an
object resolves a capability of the running task and compares generations.
The editor and
the file browser change files through `EditorFs`, which puts blocks into the store and
writes the new root into the store header. The 24 components, with the reason for each that is not modelled, and the hazards
with their source lines are in `PROJECT.json`.

What each part has to get right:

- **Capability kernel**: authority only narrows, revocation reaches every copy,
  tables are written with consent, the maps agree, effects need a live capability.
- **Tasks**: a Ready task runs, a crash loop ends, the dead stay dead, a restart
  starts from the entry point.
- **IPC**: no side of a rendezvous is lost, a reply reaches the caller that waits
  for it, authority moves only by delegation, a recycled slot inherits none.
- **Roles**: two distinct confirmations, expiry bound to the grant, suspension
  stops use. **Store**: old or new contents after any crash. **Update**: the boot
  target is always a complete generation. **Mesh**: one leader per epoch.

## 2. Modules

- `CapabilityKernel`: every public operation of `Kernel` is one action, because a
  call holds `&mut Kernel`. `lineage`, `revoked` and `minter` are history
  variables. The audit log is the number of records the last operation appended.
- `Tasks`: one CPU with interrupts off in each handler, so a handler is one
  action, including the switch it ends in. A frame is reduced to where it resumes.
  The tick at which an arm hook fires is left open. `spawn` runs in kernel code
  only; today all its callers are in boot, and the model lets it run later too, to
  cover the slot reuse of `spawn_impl`. `waited` and `reborn` are history.
- `TaskIpc` extends `Tasks` (a composition: the fault handler, restart and spawn
  are those of `Tasks` with their effects on endpoints and tables). A syscall is
  one action. Payloads are members of a small set. A user buffer is valid or not
  (`BadPointers`), and a waiting server's buffer may have become invalid by the time
  a message or a death record is written to it (`recvOk`). A reply may have length zero, which every address passes.
  `lives` is history.
- `BlockStore`: the store on the NVMe device, one action per sector write of `put`.
  The id of a block is its content (SHA-256 taken as injective). An entry that
  straddles two index sectors is two writes.
- `BootFs` extends `BlockStore`: the directory tree of `BootView`, the state-changing
  operations of `EditorFs` and the boot path. An operation reads its tables, puts its
  blocks from the leaf to the new root (`job.todo`), repoints the view and, except for
  the boot seeds, writes the anchor. `Crash` keeps the disk only. The other demonstrations
  of the boot path put blocks of their own and are represented by the hello block.
- `DurableFiles`: what a user of `EditorFs` may rely on: one file changes at a time, a
  request answered as done is on the disk, a restart finds the disk. `BootFs` implements
  it with the files reachable from the header's anchor as the disk and those reachable
  from the view as the cache.
- `NatLemmas`, `CapabilityKernelProofs`: the proofs. `MC*`: instances for TLC.

## 3. Runs

| Run | Result | Distinct states | Question |
|---|---|---|---|
| `cap_derivation` | pass | 298,434 | derivation, expiry, destroy, revoke and writes to another task's table |
| `cap_use` | pass | 96,724 | messages, regions, batches, task control |
| `task_table` | pass | 144,038 | bounded waiting under every mix of events |
| `task_crash` | pass | 315 | a crash loop ends (liveness) |
| `ipc_pair` | pass | 28,057 | rendezvous of one server and one client, two endpoints |
| `ipc_authority` | pass | 965,408 | delegation, revocation, suspension, kill, restart, slot reuse, refused buffers |
| `store_crash` | pass | 283,640 | files across write errors and power failures |
| `cap_escape` | violation | | a documented claim of `capability-core` |
| `task_restart` | violation | | a documented claim of `tasks.rs` |
| `ipc_two_clients` | violation | | a documented claim of `ipc.rs` |
| `ipc_stale_reply` | violation | | a documented claim of `ipc.rs` |
| `store_anchor` | violation | | a documented claim of `nvme_store.rs` |

Each violation run states a sentence of the documentation or of a comment that the
code does not keep:

- **Revoke can be escaped** (`cap_escape`): destroying the middle of a chain cuts
  the path `revoke` walks. `RevocationReaches` states what does hold.
- **The kernel supervisor's restart does not reach the entry point**
  (`task_restart`): the fault stub's own switch overwrites the rebuilt frame. Boot
  adopts no task under this supervisor today.
- **A second client displaces the first** (`ipc_two_clients`): the first caller
  stays blocked and no reply can reach it.
- **A reply reaches a task that is not waiting for it** (`ipc_stale_reply`): a call
  refused for its reply buffer stays recorded on the endpoint, and the next reply is
  accepted for that task, running or blocked on another endpoint.
- **A failed header read wipes the anchor** (`store_anchor`): `write_header` ignores
  the result of its read and writes the zeroed buffer with the new count.

More disagreements are in the models without a run that states them: a capability
minted from a grant root can expire after that root, its recorded parent (`kernel.rs:176`
says otherwise); a create refused for a full table leaves its object behind
(`kernel.rs:271`); a successful `mem_read` appends no audit record; an arm hook that
comes due after its task was killed makes the task Ready (`tasks.rs:24`); a call refused
for its reply buffer has already taken the waiting server off the endpoint
(`ipc.rs:387`); a save of the bytes of the hello block, whose sector boot
damages, is answered as done and can never be read, because `put` finds the id in the
index and does not look at the block (`nvme_store.rs:268`, against `editor.rs:12`); and a removed package is seeded again by the next boot (`main.rs:2729`).

`CallerKeepsWaiting` and `ServerKeepsWaiting` therefore hold in `ipc_pair`, with one
client per endpoint, no refused buffer and no task control, and fail outside
those conditions. They are not claimed of the kernel in general.

### Bounds

`cap_derivation` has four objects and five capabilities: a root, a chain of three
below it and a sibling, which is the smallest graph with a revoke of depth two and
a destroyed middle. One clock step separates live from expired.
`task_table` has three slots of which boot fills two, so that both growth and reuse
of a slot happen; the run with more slots shows nothing new and takes minutes.
`ipc_pair` has two user endpoints beside the notification endpoint, so that a task
may wait on one while the other is used. `ipc_authority` has two slots per table, so
that tables fill up, two incarnations of an endpoint slot and two of a task slot.
In it only task 1 serves, revokes and controls tasks and only task 2 calls and
faults, and no task replies: with every operation open to every task the instance
has more than ten million states and was not explored to the end.

`store_crash` has nine slots, two of them straddling. Boot uses six of them: a
directory and a file in it fill the region exactly, and longer behaviours meet it full in
the middle of an operation. A fourth name at the root meets the table limit. The texts saved are
the content of a seeded package, so that
a save may find its block already stored, and that of the hello block, so that it may
find one that boot has damaged. `SavesAreDurable` counts a file with the latter content
by its entry: the name is durable, the bytes cannot be read (see above). `MaxTrouble` allows two failed writes or power
failures in a behaviour. Deadlock is not checked: after a failed `expect` of the boot
path, or without a store, the file system is at rest. `SavesAreDurable` and
`StoredOnce` are stated without read errors, and a write that times out is taken as not
carried out.

### Fairness

`TaskSpec` has weak fairness of `Tick`: the LAPIC timer is periodic and is masked
only inside handlers, which end. `CrashingSpec`, used for `CrashLoopEnds` alone, adds
strong fairness of the fault of each ring-3 task: it describes programs whose next
instruction faults, which is the premise of that property. The safety runs assume
no fairness.

## 4. Proofs

`CapabilityKernelProofs` proves, for any number of objects, capabilities, slots and
clock ticks: `TypeCorrect`, `NoDanglingCap`, `AuthorityBounded`,
`RevokeReachesAnyDepth`, `EveryMintNarrows`, `EveryGrantConsented` and
`NoResurrection`. The assumptions are `Bounds` and `Arguments` of the module.

The inductive invariant `IInv` joins the types, `Bookkeeping`,
`AuthorityWithinCreation` and three facts no run needs by itself: identifiers above
the counters are unused (`FreshCaps`, `FreshObjects`), no live capability has a
revoked parent (`NoChildOfRevoked`), and a capability's `lineage` is its parent's
plus the parent (`LineageInv`). The first makes a mint safe for the maps. The other
two give `RevocationReaches`: among the ancestors of a surviving capability take the
youngest revoked one; the next one down the chain cannot be live, so it was
destroyed. That choice is the least-number principle `LeastNat` of `NatLemmas`,
which stands in for induction. One lemma covers each action; the action properties
follow from what one step does to the slots (`NextSlots`).

Only model-checked: everything in `Tasks`, `TaskIpc` and `BootFs`, `EffectsNeedAuthority`,
`BatchLastWriteWins`, and liveness, which is out of the prover's reach.

## 5. Plan

1. Proofs for `Tasks` (`TypeOK`, then `BoundedWait` from the stronger bound
   `waited[i] + distance from current to i <= spawned`) and for the authority
   properties of `TaskIpc`.
2. `EchoDemo` and `SupervisionTree`: the ring-3 programs of `main.rs` over `TaskIpc`.
   EchoDemo refines an abstract remote call; SupervisionTree states what bounded
   restart and escalation still guarantee with a single-slot notification.
3. `Update` (staging, activation, rollback) over the boot view; a proof of
   `CommittedStays`; the NVMe queue with late completions.
4. `RoleGrants` (roles, expansion, monitor), `Channels` (refining a bounded queue),
   `Memory` (frames, regions, mappings).
5. `Mesh` over a lossy link; `NetIf` with its socket table and TCP states.
6. Descriptor rings of the drivers, the virtual devices of `vdev.rs`, the editor and
   the window stack; the remaining crates.

## 6. Not modelled

Everything in section 5, items 2 to 6, is unmodelled today, so the models cover a
small part of the source: the capability core, the scheduler, IPC and the file store. Register
contents, address spaces, the page walk of `user_ptr.rs`, message bytes, audit
record contents and the monitor's scoring are abstracted away. Packet formats,
ciphers, drawing and hardware register sequences are data or I/O without a protocol
of their own.
