# A TLA+ verification of the Xbox hardware in xqemu

xqemu is QEMU with a model of the original Xbox. QEMU itself is large and
inherited; what this repository adds is `hw/xbox`. This project has two halves:

- the **Xbox devices with concurrency**: the NV2A graphics device, whose two
  threads, the vCPU threads and the main loop share it through three mutexes and
  five condition variables, and the NVNET Ethernet controller, which shares its
  descriptor rings with the guest;
- the **synchronisation that every device stands on**: exclusive sections and
  queued work of the vCPU threads, coroutine locks, `QemuLockCnt` and RCU. This
  is lock-free or nearly so, and what the devices assume of it is proved here.

Files: `X.tla` is a component, `MCX.tla` with its `.cfg` files is a finite
instance for TLC, `XProofs.tla` holds proofs that TLAPS checks. `PROJECT.json`
lists the runs, the theorems, the hazards and, for each definition, the lines of
the source it models.

## 1. The system

### 1.1 Parts, state and operations

| Part | Source | State | Operations |
|---|---|---|---|
| PFIFO | `nv2a_pfifo.c`, `nv2a_user.c` | `CACHE1` ring, its pointers and marks, `DMA_GET`/`PUT`/`STATE`/`SUBROUTINE`, access bits | pusher thread, puller thread, register writes, doorbell |
| PGRAPH control | `nv2a_pgraph.c` | interrupt, FIFO, context, trap and surface registers | `pgraph_method`, `pgraph_context_switch`, `pgraph_wait_fifo_access`, `pgraph_write` |
| Interrupt tree | `nv2a.c`, `nv2a_pmc.c`, `nv2a_pcrtc.c` | pending and enable bits per unit, IRQ line | `update_irq`, `pmc_write`, `pcrtc_write`, vertical blank |
| Texture cache | `lru.c`, `nv2a_pgraph.c` | two linked lists, texture keys, reference counts, dirty bits | `lru_lookup`, `lru_flush`, `pgraph_bind_textures`, `SET_TEXTURE_*` |
| RAMHT | `nv2a_pfifo.c` | hash table in instance memory | `ramht_lookup` |
| Surfaces | `nv2a_pgraph.c` | GL surface, dirty flags both ways | `pgraph_update_surface` and callers |
| Drawing back end | `nv2a_shaders.c`, `nv2a_psh.c`, `nv2a_vsh.c` | GL objects | translation to OpenGL and GLSL |
| Other NV2A units | `nv2a_ptimer.c`, `nv2a_pramdac.c`, ... | registers | read, write |
| NVNET | `nvnet.c` | two descriptor rings, indices, interrupt status, mask and line | `nvnet_dma_packet_to_guest`, `nvnet_dma_packet_from_guest`, register writes |
| Exclusive sections | `cpus-common.c` | `pending_cpus`, `running`, `has_waiter` | `cpu_exec_start`, `cpu_exec_end`, `start_exclusive`, `end_exclusive`, the list of CPUs |
| vCPU threads | `cpus.c`, `cpus-common.c` | queued work, `stop`, `stopped`, `halted`, BQL | `qemu_tcg_cpu_thread_fn`, `run_on_cpu` and its two asynchronous relatives, `pause_all_vcpus`, `resume_all_vcpus` |
| Coroutine locks | `qemu-coroutine-lock.c` | `CoMutex` and its wait records, `CoQueue`, `CoRwlock` | lock, unlock, read and write lock, upgrade, downgrade |
| `QemuLockCnt` | `lockcnt.c` | one futex word: a count and two bits | `inc`, `dec`, `dec_and_lock`, `dec_if_lock`, `lock`, `unlock`, `inc_and_unlock` |
| RCU | `rcu.c`, `rcu.h`, `qemu-thread-posix.c` | `rcu_gp_ctr`, the registry, the callback queue | read lock and unlock, registration, `synchronize_rcu`, `call_rcu1` and its thread |
| SMBus, SMC | `amd_smbus.c`, `smbus_xbox_smc.c` | transaction registers, command cursor | start, complete, read, write |
| APU, DSP, DSP DMA | `mcpx_apu.c`, `dsp/` | voices, DSP memories | frame, interpreter, block list |
| Machine | `xbox.c`, `xbox_pci.c`, ... | wiring | construction |
| Rest of QEMU | `util/async.c`, `exec.c`, ... | event loop, memory, block layer | inherited |

### 1.2 How they interact

1. The guest writes a push buffer in memory and moves `DMA_PUT` (the doorbell).
2. The **pusher** fetches words, expands commands into methods and puts one
   entry per data word into `CACHE1`. Its end of the cache can be closed, and it
   sleeps when the cache is full.
3. The **puller** takes entries out, resolves object handles through RAMHT,
   takes `pgraph.lock`, releases `pfifo.lock` and executes the method.
4. A method may need the guest: a context switch, a trapping `NO_OPERATION` or
   a `FLIP_STALL`. For the first two the puller drops `pgraph.lock`, takes the
   big QEMU lock (BQL), raises the interrupt, retakes `pgraph.lock`, releases
   the BQL, and sleeps on a condition.
5. The guest's handler writes registers, holding the BQL and then `pgraph.lock`;
   the write broadcasts the condition.
6. The main loop, under the BQL, raises the vertical blank. The guest counts a
   flip in response, which ends a stall.
7. A frame from the network, or the guest's kick of the transmit ring, makes
   NVNET walk a ring in guest memory while the driver works on the same ring.
   With a network that answers at once, a reception runs inside a transmission.
8. A vCPU that must change what all of them share (translated code) makes the
   others leave guest code first: an exclusive section. The main loop runs
   functions on a vCPU, and pauses all of them, through their queues of work.
9. The block layer beneath the Xbox disk runs in coroutines that take `CoMutex`
   and `CoRwlock`; the event loop visits its handlers under a `QemuLockCnt`; and
   memory maps are replaced under readers with RCU.

### 1.3 What is hard about it

`PROJECT.json` lists each hazard at its line. In short: `GET = PUT` means both
empty and full, and two threads maintain the marks that tell which; signals are
sent only on the edge of a mark; the pusher stops in the middle of a command and
must resume at the same word; two places drop a lock, take another and come
back to a state a vCPU may have changed; `pgraph_write` acknowledges and enables
interrupts without `update_irq`; teardown sets its flag without the lock; and
the texture cache evicts textures that a unit still draws with. NVNET's status
register is set, not added to, so that a transmission erases the news of a
reception. `cpu_exec_start` and `start_exclusive` each store one flag and read
the other's without a lock; an unlocking coroutine may have to wake one whose
wait record is not there yet; a futex word holds a counter and a mutex, and a
thread that is woken for nothing must pass the wakeup on; an RCU reader may store
the number of a grace period long over; and `call_rcu1` makes a node the tail of
the queue before it is linked, and counts it after.

## 2. The modules

### 2.1 `Pfifo`, `MethodQueue`

`Pfifo` has the two threads, the guest and the teardown. A program counter per
thread says whether it runs its loop with `pfifo.lock` (`run`), sleeps on its
condition (`wait`), contends for the lock after a wakeup (`woken`) or, for the
puller, is handing over (`submit`) or inside PGRAPH (`method`).

| Action | Code |
|---|---|
| `PusherAcquire`, `PusherWait` | `pfifo_pusher_thread`, early returns and loop exits of `pfifo_run_pusher` |
| `PusherData` | the data branch: entry, `PUT`, both marks, signal, `DMA_STATE`, `DMA_GET`, in one step under the lock |
| `PusherMethods`, `PusherJump`, `PusherCall`, `PusherReturn` | the command branch |
| `PusherError` | `DMA_STATE_ERROR_*`, each of which ends in an assertion |
| `PullerAcquire`, `PullerWait`, `PullerPull`, `PullerHandoff`, `MethodDone` | `pfifo_puller_thread`, `pfifo_run_puller` |
| `GuestScript`, `GuestToggle` | `user_write`, `pfifo_write`: a store and two broadcasts under the lock |
| `ExitFlag`, `ExitBroadcast` | `nv2a_exitfn`, in two steps because it holds no lock |
| `SpuriousWakeup` | allowed by `qemu_cond_wait` |

A push-buffer word is a record of what it decodes to and of its value as data;
encodings are left out. RAMHT is a partial function from handle to instance.
`MethodQueue` is the promise: a bounded queue from which each method is taken
once, in order, and executed before the next is taken. `Pfifo` is shown to
implement it with `queue` mapped to the entries between `GET` and `PUT`.

### 2.2 `Pgraph`

The puller inside a method, the vCPU inside a register write, and the interrupt
tree. `bql` and `pgLock` name the holders. The lock-dropping sequences are
separate actions: `ContextSwitch` or `ExecNoOperation` drops `pgraph.lock`,
`RaiseIrq` takes the BQL and runs `update_irq`, `Relock` retakes `pgraph.lock`
and releases the BQL, and `WaitTest`/`WaitReturn` are the turns of a `while`
around `qemu_cond_wait`. A register write is `MmioBegin` (take the BQL) and then
`PgraphWrite`, `IrqWrite` or `PfifoWrite`. Methods that only draw do not appear:
they change nothing this module has. A failed assertion leads to `aborted`.

### 2.3 `Nv2a`

The composition: `Pfifo` and `Pgraph` as instances, joined where the puller
crosses from one to the other (`PullerHandoff`, `MethodDone`) and where the vCPU
writes a PFIFO register. The driver is a sequence of register writes; its
interrupt handler is computed from the registers at the time of the interrupt.
The driver and handler belong to the guest, not to this repository, and are
marked external: they do what the three waits of `nv2a_pgraph.c` are waiting for.

### 2.4 `TextureCache`, `LruCache`

The `next` pointers of `lru.c`, the callbacks of the texture cache, and
`pgraph_bind_textures` unit by unit, for one of several `Setups` (nodes, units,
and whether the guest waits before it reuses texture memory), chosen at the
start. Hashing and lookup are separate steps, so
that a store of the guest can fall between them. `fresh` is a history variable:
the unit was bound, and neither its registers (other than the switch) nor its
memory changed since. `LruCache` is the promise: keys in order of use.

### 2.5 `NvNet`

The two rings in guest memory, the registers the walks use, the buffer
`txrx_dma_buf` that both directions pass through (`dmaBuf`), and a driver. The
device holds the BQL for a whole walk, so the driver reads and writes no register
meanwhile, but its memory accesses fall between any two descriptors: `RxWalk` and
`TxWalk` look at one descriptor each. `TxWalk` copies its data into the buffer,
`TxSend` is the backend's reading of it in `qemu_send_packet`, and `TxUpdate` is
what follows that call. Between `TxSend` and `TxUpdate` a backend may deliver a
frame, and `nvnet_receive` then runs inside the transmission: it overwrites the
buffer, and the descriptor has not been given back.

| Action | Code |
|---|---|
| `nvnet_receive`, `RxWalk`, `RxRaise`, `RxDrop` | `nvnet_receive`, `nvnet_dma_packet_to_guest`; a frame too long for its buffer, or for which there is none, is dropped |
| `Kick`, `TxWalk`, `TxSend`, `TxUpdate`, `TxEnd` | the write to `NvRegTxRxControl`, `nvnet_dma_packet_from_guest` |
| `WriteRingSizes`, `WriteIrqMask`, `WriteIrqStatus`, `WriteControlBit1` | `nvnet_mmio_write` |
| `Give`, `Queue`, `Interrupt`, `ReadIrqStatus`, `Take`, `Reclaim`, `Return` | the guest's driver (external) |

A frame is its number of arrival, a descriptor's data its number of queueing.
`Plans` gives the ring sizes and the bounds of a behaviour. What the driver is
taken to do is in 2.11.

### 2.6 `CpuExclusive`

`cpus-common.c`: one step per access to a shared flag outside
`qemu_cpu_list_lock`, and one per turn of the loop over the CPUs in
`start_exclusive`; a vCPU may be added or removed at any time. Kicks are
`exit_request`; leaving guest code is the vCPU's own step. `cpu_exec` consumes the
request if that is why it returns and keeps it otherwise, so `ExecEnd` may do
either.

### 2.7 `Vcpus`

The loop of a multi-threaded TCG vCPU, which extends `CpuExclusive` and takes its
steps, together with the BQL, the three conditions (`halt_cond`,
`qemu_work_cond`, `qemu_pause_cond`), the queue of each vCPU with its three kinds of
items, halting, device accesses, stops for the debugger (`EXCP_DEBUG`), and a main
thread that calls `run_on_cpu`, pauses and resumes. The vCPUs begin stopped, as
`qemu_init_vcpu` leaves them. A single atomic step (`cpu_exec_step_atomic`) may
fault before its section begins, and may take the BQL for a device within it.
`Workloads` says what may be queued in a behaviour.

### 2.8 `CoMutex`, `FifoLock`, `CoRwlock`

`CoMutex` makes every access to `locked`, the two lists, `handoff` and `sequence` a
step of its own, on threads that interleave freely; the numbers of hand-offs wrap
at `Wrap`. `FifoLock` is its promise: one owner, and those who had to queue are
served in the order in which they queued. `CoRwlock` stands on that promise: its
mutex is a `FifoLock`, and a step is what a coroutine does between taking the
mutex and giving it back or sleeping. `Casts` says who makes which calls.

### 2.9 `LockCnt`, `LockedCounter`

The futex implementation of `lockcnt.c`, with each load, compare-and-swap, futex
wait and wake a step. `LockedCounter` is what `docs/devel/lockcnt.txt` promises,
as a specification of a counter and a mutex.

### 2.10 `Rcu`, `RcuCall`

`Rcu` has the readers (nesting, registering, unregistering), `synchronize_rcu` with
its walk over two lists, and the `QemuEvent` on which it sleeps; both forms of the
counter (`LongBytes` 4: two phases; 8: a count), and the width of the `unsigned` in
which `rcu_read_lock` keeps it. The data that readers protect is one pointer; a
reader that holds a reclaimed version is the error. The barriers are taken to give
sequential consistency. `RcuCall` adds the queue of `call_rcu1` with its dummy
node, the callers, and the thread, as a client of `Rcu`: what its callbacks free is
what `Rcu` reclaims. The thread waits until `RCU_CALL_MIN_SIZE` callbacks are
counted or it has tried often enough; its delays, the reset of its event, and the
taking and releasing of the BQL are steps of their own.

### 2.11 Assumptions about the guest and the callers

The code relies on these and so do the models:

- NV2A: the channel is in DMA mode (asserted), and `CACHE1` pointers are not stored
  to directly; `HW_CONTEXT_SWITCH` of `DEBUG_3` is clear (asserted); `MODULO_3D` is
  not zero when a flip is counted (the code divides by it); the flip counters are
  moved by `INCREMENT` and the `SET_FLIP` methods, not by a store to `SURFACE`,
  which broadcasts nothing;
- NVNET: the driver uses its rings in order, gives receive buffers of one length,
  kicks a frame when all its descriptors are queued and before it queues the next,
  sets rings of fewer than 256 descriptors (sizes are kept in eight bits), and in
  its interrupt handler acknowledges what it read and then looks at *both* rings.
  The backend is done with the data of a frame before it answers it, and delivers no
  frame longer than `txrx_dma_buf` (the code asserts it);
- `run_on_cpu` is called by the main thread. Called from guest code, as some
  targets other than the Xbox's do, it sleeps with `cpu->running` true, and the
  exclusive section of the vCPU it waits for cannot begin;
- locks are released by those who took them, and RCU readers leave their critical
  sections.

## 3. The runs

| Run | Instance | Checks |
|---|---|---|
| `pfifo` | cache of 2, two good and five bad push buffers, every access bit toggled and the device unplugged at any time | `NoLostWakeup`, `StreamInOrder`, `IsMethodQueue`, `AllExecuted`, `SleepersExit` |
| `pgraph` | two channels, context switches, traps, flips, semaphore, any write at any time | `TrapsMatch`, `AwaitedNotHappened` |
| `nv2a` | one frame through the whole device, two drivers | `MethodsInContext`, `NoStaleInterrupt`, `AllExecuted` |
| `texture` | 2 units with 2 nodes, 1 unit with 3 | `RefcountExact`, `UnitsCurrent`, `IsLruCache` |
| `nvnet` | three plans: rings of 1 to 3, up to 5 frames and 4 descriptors | `NoFrameLost`, `RxInOrder`, `TxInOrder`, `InterruptEnds`, `DriverCatchesUp` |
| `cpu_exclusive` | 3 vCPUs, added and removed | `Exclusion`, `SleepHasReason`, `SectionBegins` |
| `vcpus` | 2 vCPUs and the main thread, three workloads | `SafeWorkAlone`, `StackItemAlive`, `RunnerKnowsOfWork`, `SyncReturns`, `PauseCompletes` |
| `co_mutex` | 3 coroutines on 3 threads, numbers modulo 3 | `MutualExclusion`, `PopFinds`, `IsFifoLock`, `LockReturns` |
| `co_rwlock` | 4 coroutines, six scripts dealt in every way | `WriterAlone`, `ServedUnlessDowngraded` |
| `co_rwlock_down` | 4 coroutines, three scripts | `WaitersServed`, which the code violates |
| `lockcnt` | 3 threads, two calls of one and one of the others, every function | `NoVisitWhileFreed`, `SleepersKnown`, `IsLockedCounter`, `CallsReturn` |
| `rcu` | three casts of readers and callers, up to 3 objects | `NoUseAfterFree`, `NoAbort`, `AfterGrace`, `CallbacksRun` |

What they show:

- **PFIFO.** Whatever the interleaving, `CACHE1` neither loses, repeats nor
  reorders a method, even when the pusher is suspended in mid-command; no thread
  sleeps with work to do; if the guest finally leaves the access bits set, all it
  queued is executed, and a bad command ends the emulator with the error the code
  names for it.
- **Teardown.** A thread asleep when `nv2a_exitfn` raises its flag ends. For a
  thread that is running at that moment the code gives no such guarantee (it can
  pass its test, miss the broadcast and wait), so the property does not claim it.
- **PGRAPH.** An interrupt is pending only while the method that raised it still
  waits, so the trap registers the handler reads are that method's, although the
  locks are dropped in between. The puller never sleeps on something that has
  happened.
- **Device.** Every method executes in the channel of the last bound object. A
  frame completes, also with a driver that enables its interrupts only after the
  doorbell: `pgraph_write` does not call `update_irq`, but the next vertical
  blank does. For the same reason no interrupt is stale only with a handler that,
  like these, ends with a write to PMC.
- **Textures.** Counts equal references; a bound unit keeps its texture through
  evictions by the others; the lists implement LRU, which they could not if they
  lost a node.
- **NVNET.** No frame put into the ring is lost or overwritten, and each is a frame
  that arrived, once: the buffer that both directions share is never read for the
  one when it holds the other. Order is kept as long as no frame that would fit
  finds the next descriptor taken; once one has, a walk may pass a buffer in
  use and fill one that the driver emptied since, and the device and the driver no
  longer agree on the next descriptor, as the code has it. A driver that looks at
  both rings at each interrupt misses nothing although the status is overwritten.
  After a write of `NVREG_TXRXCTL_BIT1`, which clears the status without
  `nvnet_update_irq`, the line may stay up for ever: `InterruptEnds`, and what
  `DriverCatchesUp` says of transmission, exclude it. What that property says of
  reception does not.
- **Exclusive sections.** No vCPU is in guest code while another one's section
  lasts, whatever they had read before; a thread sleeps only while somebody who
  will wake it is on the way; a section that is announced begins.
- **vCPU threads.** While one vCPU has an exclusive section, for safe work or for an
  atomic step, no other is in guest code; nobody runs safe work, or waits for a
  section, with the BQL, which an atomic step may need to finish its own; the item of
  `run_on_cpu`, which is on the caller's stack, is not used after the caller
  returned; a vCPU in guest code has been told of its work; `run_on_cpu` and
  `pause_all_vcpus` return unless the guest executes atomic instructions for ever
  (`exclusive_idle` gives no order to those it wakes).
- **Coroutine locks.** The hand-off keeps one owner, never finds a list empty
  that it relies on, and serves waiters in order, also when its numbers come
  round again. A `CoRwlock` keeps writers alone and its counts exact, and where
  nobody downgrades every coroutine that waits gets the lock.
- **`co_rwlock_down`, a disagreement.** `include/qemu/coroutine.h:270` says that
  unlock "schedules the next coroutine that was waiting for this lock to be run".
  A reader queues behind a waiting writer; that writer gets the lock and
  downgrades, which wakes nobody; a second writer queues behind the reader; and
  the first unlocks, now as the last reader. The coroutine that
  `qemu_co_rwlock_unlock` wakes, "only one waiting writer", is the queued reader,
  which finds a writer pending and goes to the end of the queue: the lock is free,
  and nobody is left to wake the two. `block/vdi.c`, the one caller of downgrade,
  does not meet this within one `AioContext`, since it does not yield there while
  it reads.
- **`QemuLockCnt`.** What is freed under the mutex is not visited; no sleeper is
  forgotten; the word implements the documented counter and mutex.
- **RCU.** Nothing is freed under a reader, a callback runs only after a grace
  period that began after its object was removed, although the nodes at the head
  of the queue need not be the ones counted; the thread never finds the queue empty;
  all callbacks run.

### 3.1 Bounds

- A cache of 2 is shorter than the longest method command (3 data words), so that
  it is empty, part full and full, wraps, and suspends the pusher. The proofs cover
  every size from 2. `Straight` kicks the doorbell in mid-command and wraps a
  method address; `Subroutines` calls twice, jumps, and starts away from zero.
- Two channels suffice for a context switch to be needed and not needed. Modulo 2
  lets flip counters meet and part; parameter 9 exercises the three-bit field.
- Two units and two nodes with four keys force evictions of bound textures; four
  bindings are one per node and unit, the most that can be referenced at once.
  Three nodes distinguish head, middle and tail of a list. Bindings are symmetric
  (addresses from `g_malloc`).
- NVNET: one plan has four frames for two receive buffers while a descriptor is
  sent, one sends four descriptors, in frames of one or two, through a ring of two
  with receptions inside them, one has five frames go round a receive ring of three.
- Three vCPUs: one in a section, one leaving guest code, one entering it. Two
  suffice for the threads, with `CpuExclusive` checked for three and proved for all.
- Three coroutines: an owner, one that is locking, and one that is a waiter or a
  second locker; hand-off numbers modulo 3, of which zero is skipped, come round
  within a run. Four coroutines for the read-write lock: a writer, and a reader,
  an upgrader and a writer that wait.
- Three threads on a `QemuLockCnt`: a holder, a sleeper, and one that comes past; only the
  calls that begin something are counted.
- RCU: sections nest twice; two readers put one on each list; two callers
  interleave in the queue. TLC checks the 8-byte counter, the proof both. In the run
  the counter stays below the width of the `unsigned` (`UIntRange` 64); the proof
  covers a counter beyond it. With `UIntRange` 4 TLC finds the three invariants to
  hold and `CallbacksRun` to fail: a reader whose copy was cut short never equals
  the counter, is waited for until it is outside, and can re-enter for ever.

Behaviours of several shapes share one run: a program, setup, plan, workload or cast
is chosen at the start and kept, so that state spaces add up. Deadlock is checked
except where the emulator aborts, the device is unplugged or a script ends.

### 3.2 Fairness

The host schedules every thread: weak fairness on the steps of device threads,
vCPU threads, callers and the RCU thread. A mutex that is released again and again
is eventually obtained: strong fairness on the acquiring steps of `Pfifo`, `Nv2a`,
`CpuExclusive` and `Vcpus`, and on the guest's writes, which acquire too. That is
what a futex-based mutex gives in practice; without it no liveness of lock-based
code holds. Beyond that:

- `Pfifo` alone takes weak fairness of `MethodDone` for "PGRAPH finishes"; `Nv2a`
  discharges this with the real waits. There the display refreshes again and again,
  and interrupts do not starve the driver's own writes;
- a vCPU that was asked to leave guest code does (translated code tests
  `exit_request`), but nothing makes it leave unasked;
- coroutines run on and unlock what they locked; a thread ends its visit or section
  of a `QemuLockCnt`, but need not begin one;
- an RCU reader leaves its outermost section, however often it enters nested ones;
- the NVNET driver kicks a frame it completed and does not leave its interrupt
  masked; its handler runs on.

## 4. The proofs

Assumptions: those named in the modules, and nothing else. `CacheSize >= 2`;
programs, methods, writes and workloads of the right shape; channel 0 exists; the
set of vCPUs is finite, as is the set of threads of a `QemuLockCnt`; the calls of a
`CoRwlock` follow one another legally and end with an unlock; the descriptors of a
ring can be counted in the width of its size register; the width of the
`unsigned` of RCU is even and more than 3; hand-off numbers have at least two
values; and constants that stand for "nobody" are not members of the sets they
are compared with.

Each theorem about an invariant rests on an inductive one. Where many threads share
the state, a lemma says what a step may do to the threads that do not take it, and
the lemma of each action shows that its step is of that kind.

- **`PfifoProofs`.** Inductive invariant: `TypeOK`, `LockHeld`, `MarksTell`,
  `NoLostWakeup`. `LockHeld` is what the others need: the marks change in the
  same step as the pointers, and only the holder is in its loop, so the thread
  going to sleep has just tested what the invariant says of it. Theorems
  `TypeCorrect`, `MarksCorrect`, `LockCorrect`, `WakeupCorrect`. From it,
  `Refinement`: `Spec => IsMethodQueue`. A push appends to the mapped queue
  (`PushAppends`), a pull takes its head, everything else stutters or aborts; the
  marks decide how many entries the ring holds.
- **`PgraphProofs`.** Inductive invariant: `TypeOK`, `MethodAt` (which method
  can be at which program counter), `LocksHeld`, `TrapsMatch`,
  `AwaitedNotHappened`, `FlipsCountable`. `TrapsMatch` needs `MethodAt`, since
  it reads the fields of the current method, and `LocksHeld`, since a register
  write must exclude the puller. `TypeOK` needs `FlipsCountable` for the modulo.
  Theorems `TypeCorrect`, `TrapsCorrect`, `AwaitedCorrect`.
- **`VcpusProofs`.** First `CpuExclusive`: `EInv` is `TypeOK`, `Sections` (at most
  one thread starts or has a section, and who holds the lock), `Counts`
  (`pending_cpus` is one more than the vCPUs that `has_waiter` marks, once the scan
  is over) and `Flags` (what `running`, `has_waiter` and the place of each thread say
  of each other). The count is a cardinality, so adding and removing a waiter are
  lemmas. Theorems `TypeCorrect`, `ExclusionCorrect`, `SleepCorrect`. Then `Vcpus`,
  whose steps keep `EInv` since they are steps of `CpuExclusive` or leave all but
  `exit_request` alone. `VInv` adds `ThreadPlaces` (where a thread is in its loop says
  where it is in `CpuExclusive`), `BqlHeld` (who holds the BQL at which place),
  `Known` and `StackItemAlive`. `Known` is `RunnerKnowsOfWork` from the moment the
  vCPU last saw its queue empty, with the BQL, rather than from its entry to guest
  code: work that is queued on its way there must already be announced. Theorems
  `SafeWorkCorrect`, `StackItemCorrect`, `WorkNotLeftBehind`, `BqlWhereNeeded`.
- **`CoMutexProofs`.** `Token`: at most one coroutine has the right to the mutex,
  which passes from the owner through whoever pops a record to the coroutine it
  wakes, and while `handoff` is not zero nobody has it; `Known`, `Once` and `Recs`
  say whose wait records are in the lists, each once, and that whoever waits and was
  not woken has one. Theorems `ExclusionCorrect`, `PopperCorrect` and `PopCorrect`.
  The refinement `CoMutexIsFifo` (`Spec => IsFifoLock`) needs two more: `Counted`,
  that `locked` is the number of coroutines inside, and `AllTold`, that a coroutine
  about to find the mutex free, or to wake somebody, is about to take the step of
  `FifoLock` that the mapping says. The order of waiters is the reversal of one list
  after another, in the middle of being moved; that each pop takes its head is a set
  of lemmas on sequences.
- **`CoRwlockProofs`.** `Calling` (the call a coroutine is in or makes next, where it
  is), `Sleepers` (whoever is in the queue sleeps, and is there once), `Counted`
  (`reader` is the number of coroutines that read) and `Writers` (a writer has the
  mutex, and there is no reader). A wakeup of a coroutine that reads would lose a
  reader, hence `Sleepers`; an unlock of one that neither reads nor writes would
  too, hence `Calling`. Theorem `WriterCorrect`.
- **`LockCntProofs`.** `Acc` (`NoVisitWhileFreed`, and only the holder of the mutex
  frees), `Loc` (what a thread inside a function knows of its visit and the mutex)
  and `Slp` (a sleeper is known to the word or to somebody with a duty to wake).
  Theorems `FreedUnvisited`, `SleepersWoken` and the refinement
  `WordImplementsCounter`.
- **`RcuProofs`.** First `Rcu`. `Waited`: a reader that holds what an updater removed
  before its `synchronize_rcu` has a counter that is not the current one and was not
  moved to the second list, so that the last wait is not over; with a 4-byte counter,
  whom the first wait has let pass the second will not; `Sections`, `Locks` and `Data`
  carry it. The delicate case is a reader between its load of `rcu_gp_ctr` and its
  store: it has no pointer yet, so it may be passed over. Theorems `GracePeriod` and
  `ReadersListed`, for any number of readers and updaters and both counters. Then
  `RcuCall`, which is an updater of `Rcu` (`CallRcuIsUpdater`, a refinement), so that
  the grace period covers it (`CallGracePeriod`). `CallInv` lays the queue out as a
  sequence: `Chained` (a node is linked to the next, or somebody is about to link it,
  and the dummy is there unless the thread is putting it back), `Owned` (an object is
  in one place), `Counters` (callbacks that were counted are no more than those queued,
  with one to spare for each caller that has queued and not counted) and `Front` (the
  first `n` objects were removed before the grace period began). The queue therefore
  holds the dummy and a counted node when the thread dequeues (`QueueNeverEmpty`), and
  what it runs has waited (`CallbacksAfterGrace`), whether or not the nodes at the
  head are those that were counted.
- **`NvNetProofs`.** Buffers and descriptors are numbered as the driver uses them, and
  number `k` is in place `k` modulo the size of its ring. Those in use are a window no
  longer than the ring, so no two share a place. `Buffers` and `InOrder` say this of
  the receive ring, `Window` of the transmit ring, and `Sending` where the device is in
  it: `AtFull` while descriptors are left, `AtEmpty` once the walk passes those that
  are not valid, until it stops or has gone round; `AtSend` is the moment at which the
  buffer holds the descriptor's data. `Buffered` says what the buffer holds during a
  reception and that accepted frames are older than it, which `FramesKept` needs.
  Theorems `FramesKept`, `ReceivedInOrder`, `SentInOrder`, for rings of every size
  that the size register holds. The arithmetic (equal
  remainders within a window mean equal numbers) is proved from the division theorem.

Only model-checked:

- all liveness, since fairness and `ENABLED` are out of the prover's reach:
  `AllExecuted`, `SleepersExit`, `InterruptEnds`, `DriverCatchesUp`, `SectionBegins`,
  `SyncReturns`, `PauseCompletes`, `LockReturns`, `ServedUnlessDowngraded`,
  `CallsReturn`, `CallbacksRun`;
- `StreamInOrder` of `Pfifo`, which compares what was executed with the expected
  methods of each program of the instance; that the ring keeps whatever the pusher
  decodes is `Refinement`;
- `MethodsInContext` and `NoStaleInterrupt` of `Nv2a`, which hold of drivers that do
  what those of the instance do, not of every sequence of writes;
- `RefcountExact`, `UnitsCurrent` and `IsLruCache` of `TextureCache`, whose lists are
  what a recursive function collects along the `next` pointers. What a store to one
  pointer does to a list of any length is an induction along it; a proof would keep
  the lists as sequences beside the pointers.

## 5. Not modelled

The repository has about 1.8 million lines, nearly all of it QEMU as this fork
found it: targets, devices, the block layer, migration, memory, TCG, and generated
or vendored code. The modules here cover the concurrent core of `hw/xbox` and five
pieces of QEMU's synchronisation, a fraction of a percent of the lines. A model of
the rest would not be one verification project, and a large share of it can have
none worth checking: data conversion, tables, instruction decoders, option parsing.

Of `hw/xbox`:

- Drawing, shader generation, swizzling and hashing are pure data conversion.
- PTIMER, PRAMDAC, PVIDEO, PBUS, PFB and the VGA ports are register files.
- The DSP core is an interpreter. The machine, PCI bridges and controllers are
  static wiring or host input.
- Surfaces, SMBus, SMC, APU and DSP DMA have state worth a model: see the plan.

Inside the modelled parts:

- the hash of RAMHT, which folds a handle to more bits than the table has entries,
  so that only the handles a guest may use satisfy its assertion;
- texture formats and uploads, and the display start address;
- of NVNET, the MII and set-up registers, whose values only the guest reads back
  (those from offset 0x100 on have their place among the fields behind `regs`), and
  `nvnet_reset`, which leaves rings, registers and line as they are: there is no
  restart of the guest in the model. Nor is a hub (`net/hub.c`) between the device and
  several backends, which hands the same buffer to one after another, so that the
  second may see what the first one's answer left there; nor a frame longer than the
  buffer;
- of the vCPU threads, single-threaded TCG, KVM and the other accelerators, timers,
  the end of the loop when a vCPU is unplugged, `vm_stop` and `pause_all_vcpus`
  called by a vCPU thread, and the run state, which `cpu_is_stopped` also reads: it
  leaves "running" after all vCPUs were paused, and comes back to it before they are
  resumed, each in the same section of the BQL, so it adds nothing to `stopped`; of
  `CoMutex`, the test of the owner's `AioContext`, which only ends spinning early;
  of RCU, the handling of `fork`, and memory weaker than what the barriers give; of
  `QemuLockCnt`, the fallback without futexes, which is a mutex.

## 6. Plan

In order:

1. Surface tracking: the dirty flags between VRAM and the GL surface
   (`pgraph_update_surface`), composed with the puller and the display.
2. RAMHT's hash and the swizzle masks as operators against reference definitions.
3. SMBus host controller with the SMC, and an abstract transaction it implements.
4. DSP DMA block list, then the APU's frame and voice lists.
5. `AioContext`: `notify_me`, bottom halves and the thread pool, on `LockCnt`.

Proofs to add: `RefcountExact` for `TextureCache` over an abstraction of the
lists, and `MethodsInContext` for `Nv2a` from the invariants of its two instances,
for a class of drivers.

## 7. Running it

    tlc -workers 2 -config MCPfifo.cfg MCPfifo
    tlapm PfifoProofs.tla

and likewise for the other pairs of module and configuration in `PROJECT.json`.
