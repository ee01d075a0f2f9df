# Formal models of kt-kernel

TLA+ models of the concurrent and fault-tolerant parts of kt-kernel, the
CPU/GPU inference and fine-tuning engine of ktransformers, with TLC runs on
small instances and proofs checked by TLAPS for all instances. kt-kernel is the
part of the repository that is built today (`kt-kernel/`); `archive/` is the
retired framework and `third_party/` is vendored.

## 1. The system

| Component | State it keeps | Operations | What makes it correct |
|---|---|---|---|
| FP8 layerwise transport (`fp8_layerwise_transport.cpp`) | a control region shared by the TP processes, pinned host slots, one consumer thread per rank | construct, `join`, `run_producer`, `wait`, `close` | no slot is overwritten while a copy reads it; `wait` returns only when the layer is on the GPU; one failure stops all ranks and is reported by all; nobody hangs |
| CPU task queue (`cpu_backend/task_queue.cpp`) | a lock-free list, a counter, the first exception | `enqueue`, `sync`, `sync_noexcept`, `record_exception` | every task runs; `sync` waits for what it says and reports failures; no node is used after deletion |
| CPUInfer (`cpu_backend/cpuinfer.h`) | the queue, arguments of stream callbacks, captured graphs | `submit`, `submit_with_cuda_stream`, `sync_with_cuda_stream`, `synchronize_*` | arguments live as long as callbacks and replays need them; a failure surfaces at the next ordinary call, after a full drain |
| Worker pool (`cpu_backend/worker_pool.cpp`) | per-thread status, a shared work counter | `do_work_stealing_job`, destructor | every index is computed once; no thread still reads a job when the next is set up; calls end |
| MoE wrapper (`python/experts_base.py`) | pinned buffers per batch size with two slots, deferred-expert flags, captured sizes | `submit_forward`, `sync_forward`, `clear_buffer_cache`, ... | a slot is not refilled while a task reads it; a result is complete when it is copied back; no pointer outlives its buffer |
| GPU expert cache (`include/kt/gec/expert_cache.hpp`) | rows, slots, reference counts, rounds, pools | admit, load, acquire, evict, expire, ... | a slot is in one place; a lease keeps its expert; the budget is kept |
| Full-weight checkpoints (`python/sft/checkpoint.py`) | shards per generation, an index, the load's failure flag | save, load | the index names a complete generation whatever dies; no forward pass on mixed weights |
| Ephemeral INT8 weights (`python/sft/ephemeral.py`, `scripts/prepare_ephemeral_int8.py`) | a staging and a ready tree in `/dev/shm`, a lease, a manifest | prepare, open, consume, finish, clean up, reclaim | a conversion feeds one run; nothing is left in memory |
| Distributed fine-tuning layer (`python/sft/layer.py`, `autograd.py`, `base.py`, `dist_utils.py`) | rank 0's retained output, saved activations, gradient window | forward, recompute, backward, optimizer step | a failure in the exchanges is one of all ranks; a backward uses its own forward; no gradients of failed steps |
| Cache pipeline, shared memory buffer, Ascend callbacks, the rest of SFT, loaders, kernels, CLI | | | see section 5 |

The components meet as follows. Python calls the MoE wrapper, which submits
tasks to CPUInfer, directly or through a host callback of the accelerator's
stream. CPUInfer puts them into the task queue; the queue's worker runs them one
after the other, and each one spreads its loops over the worker pool. The
layerwise transport stands beside this: for a long prefill every TP process
loads whole layers to its GPU, rank zero writing experts into shared host slots
(`run_layerwise_fp8_batch` in `python/utils/amx.py`). The expert cache keeps
chosen experts on the GPU. Fine-tuning wraps the same backend in an autograd
function that every rank of a job calls; its weights come from a checkpoint or
from a conversion made for one run.

What is hard here: processes that share memory without locks and may die or
time out, copies that go on when the thread that started them is gone, a
lock-free list beside a condition variable, three actors (host, stream, CPU
worker) that work on the same pinned buffers, files that several processes
publish and delete by name, and collectives that every rank has to reach in the
same order whatever has failed. `PROJECT.json` lists these hazards at the lines
where they bite.

## 2. The modules

| Module | Contents |
|---|---|
| `LayerwiseTransport` | the transport: all ranks, their caller, consumer and closer threads, the shared region, the buffers and the copies in flight |
| `LayerBroadcast` | what the transport promises, abstractly: layers broadcast one at a time |
| `TransportProperties`, `TransportInvariant` | its properties with the refinement mapping to `LayerBroadcast`; the inductive invariant `TransportInv` |
| `TransportProofs` | lemmas per part of the invariant; the theorems; on top of them the refinement of `LayerBroadcast` and `NoSpuriousPoison` |
| `TaskQueue`, `QueueProofs` | the task queue, its worker and its properties; their theorems |
| `CpuInfer`, `InferProofs` | the entry points above the queue, stream callbacks, capture and replay; theorems |
| `WorkerPool`, `PoolProofs` | the pool of one NUMA node; theorems |
| `ForwardPipeline`, `PipelineProofs` | the MoE wrapper over host, stream and task queue; theorems |
| `ExpertCache` | the GPU expert cache |
| `FullCheckpoint` | saves and loads of full-weight checkpoints |
| `WeightProofs` | where the weights of experts are, on the GPU and on disk: theorems about the two modules above |
| `EphemeralStaging`, `EphemeralStore`, `EphemeralProofs` | producers and consumers of ephemeral weights, the second extends the first; theorems |
| `DistributedLayer`, `LayerProofs` | one layer of distributed fine-tuning on all ranks; theorems |
| `MCTransport`, `MCQueue`, `MCInfer`, `MCPool`, `MCPipeline`, `MCCache`, `MCEphemeral`, `MCLayer`, `MCCheckpoint` | the instances that TLC checks |

Most components are used in several ways: by one thread or many, on a stream or
directly, under one checkpoint policy or another. Such a module has a constant
`Setups` and a variable `setup` that takes one of them in the initial state and
keeps it: one run then covers all the uses, and a property that holds only for
some of them says so. `CpuInfer` and `ForwardPipeline` take the task queue to be
what `TaskQueue` shows it to be, a FIFO whose first failure is latched.

### LayerwiseTransport

A variable named like a field of `FP8LayerwiseControl` is that cell. `host[s]`,
`gpu[r][x]` are the contents of a host slot and of rank r's GPU copy of expert
x: which expert, written for which epoch, or `Junk`. A slot stands for the buffers
of all ranks, which one call of the writer fills. `dma[r]` are the copies
that rank r's stream still has to do; `DmaComplete` does one whenever it likes,
also after the thread or the process that issued it is gone. `pc` and `cpc` are
program counters of the caller and the consumer thread, `life` the transport
object (and its closer). `joined` is a history variable, the arguments of the
rank's last join.

* Every store to a cell that another thread reads is a step. Relaxed stores
  that a later release store publishes are one step with each other, never
  with the release: `JoinStore`/`JoinActivate`, `WriterReturn`/`ProducerPublish`,
  `FillPoison`/`ReleasePoison`.
* The consumer reads a slot's sequence (`ConsumerPeek`) and what it stands for
  (`ConsumerCopy`) in separate steps.
* The poll loops of `wait_until` are guards. Its three exceptions, poison, close
  and timeout, are `CallerWaitFails` and `ConsumerWaitFails`. They do not require
  the predicate to be false *now*: it was false when it was evaluated, and the
  answer may have arrived since. As the model does not record when it was last
  false, it also admits a timeout of a wait whose predicate was true all along,
  which is more than the code does.
* `poison_message` waits 10 ms for a claim to be published; `Diagnose` may
  come at any time.
* `close` reads, claims and sets `stopping_` in separate steps, while the
  caller and consumer threads of the same rank go on.
* A consumer that failed to initialise CUDA wakes the constructor and then
  tests `stopping_`; both outcomes of that race are in the model. So are both
  outcomes of the test against a close for a failing copy.
* `Events` selects what else may happen: crashes, timeouts, throwing writers,
  CUDA failures, close, construction on a region that was used before. `Lawful`
  selects between the call sequence of `run_layerwise_fp8_batch` and clients
  that make any calls.

Assumed: all ranks pass the same `num_experts`, `tp_size` and slot count; one
caller thread per rank, and one more thread that may call `close`. `wait(0)` has
the same effect as a wait for an epoch that was not joined and is not
enumerated. Left out: argument checks that throw and change nothing, the text
of messages, the timing statistics, CUDA streams and events beyond "the copy is
complete". Sequentially consistent steps stand for the acquire/release pairs of
the code; what the code reads relaxed is published by an earlier release store
in every case that the properties rely on.

### TaskQueue

Node n is the n-th node that was exchanged into `tail`, so the names of nodes
follow the order of the list. `Enqueue`, `Exchange`, `Link`, `Fence`, `Notify` are
the lines of `enqueue`. A critical section is one step, with one exception: the
worker evaluates its predicate (`WorkerLoop`) and goes to sleep (`WorkerSleep`) in
two, because the link it reads is not written under the mutex. The empty
critical section of `enqueue` (`Fence`) has to wait for it. `waiting` are the
threads asleep on `cv`; `notify_one` takes any of them. `before`, `failed`, `thrown`
and `latched` are history variables for the properties. The destructor does not
overlap other calls, as for any C++ object.


### CpuInfer

A call of `submit`, `submit_with_cuda_stream` or `sync_with_cuda_stream` is a
number, which stands for the arguments it allocates. `args` says whether they
are live, freed or freed twice; `stream` holds the callbacks launched and not yet
over, `graph` those a capture has recorded, `queue` the pending tasks, `first` the
call whose failure is latched. A stream call has two steps, the look for a
latched failure with the capture query, and the launch; the stream and the
worker go on between them. When it finds a failure it drains: the device, then
the queue. The faults are a failing capture query, a failing launch, a failing
allocation, a device that answers with an error and a task that throws. One
thread calls, as under the Python interpreter lock.

The queue is a FIFO with one flaw that the callers see: `asleep`. When one thread
enqueues (the host in `submit`, or the driver in a callback) while the other sleeps in
a sync, `NotifyOne` may leave the worker asleep beside a pending task (the finding
below). `RunTask` needs it awake; it is woken by a later notify, or by a spurious
wake-up, which nothing guarantees.

### WorkerPool

Thread 0 is the caller. The members of the pool that workers read without a
lock (`job`, `count`, `curr`, `end`) are plain variables, set in one step before
the first status is stored, as the release stores publish them. `at` is the
position of the caller's loops. A task is claimed (the `fetch_add`), computed and
ended in separate steps. Falling asleep is a step under the worker's mutex,
possible at any time in place of the 50 ms of spinning. `size`, `ran`, `returned`
and `inited` are history variables.

### ForwardPipeline

Three actors: the host in `submit_forward`, `sync_forward` and their variants, the
stream that copies and fires host callbacks in order, the worker that runs tasks
in order. An input slot holds the pass and layer that was copied into it; an
output slot the set of results written (`now`) or added (`incremental`) to it, so a
missing or a foreign contribution shows. Buffers are numbered by allocation and
never reused, so that a dangling pointer stays visible. The five paths are the
ways a task reaches the queue: by callbacks of a CUDA stream, by the host on an
NPU with and without callback worker, on buffers the caller has filled, and by one
callback that runs the whole pinned forward. Captures record the operations of
a pass in `graphs` and replays launch them again. An operation has the buffer, pass
and layer it was launched for, also where the code's callback does not carry them. `deferrals` and `spoiled` are history
variables: which layers deferred experts, and which passes met a failure.

A lookup that makes one temporary buffer too many takes two steps, as in
`get_buffer` and `_evict_oldest_temp_buffer`: `MakeRoom` inserts the buffer (`experts_base.py:365`),
and when device and queue are done (383-386) the host's action drops the first of the list
as it is by then (387), or `Raises` the queue's exception and leaves the new buffer in the list.
In between the callbacks run; those of the pinned path look their buffers up
and so reorder the list (316). A callback that has to make room itself waits for
the device it runs on: its operation becomes `stuck`. `lost` is a history variable:
the host has dropped the buffer it had just inserted, or a clearing one that a callback
will look up.

### ExpertCache

Every method locks one mutex, so a step is a whole call, with the victim
selection, the bookkeeping of slots and the aging of use counts inside. A call that
throws before it changes anything is not a step. Timestamps are the callers'
arguments: ties between victims, and the set of stages an expiry finds too old,
are choices. Use counts saturate at `UseMax` and the router epoch wraps at
`EpochMax` (2^32 in the code). `held` and `routed` are history variables: who holds a
lease, who was demanded in this round. A `setup` names the calls a client makes; it
makes them in any order, whenever the code takes them. The one rule it keeps is that
the planner has a place for every expert.

Four things that a client may do break the cache, and `lapses` remembers which of
them were done. `finished`: `mark_absent` ends a stage that has expired, which is
how the comment at `expert_cache.hpp:556-559` has it end. `restarted`:
`mark_scheduled` takes up a row that is not admitted, an expired one (the plain
restart of 198-201) or an absent one. `dropped`: `mark_ready` drops a row that
`mark_evicting` evicts. `bared`: an expert of a permanent layer is left with neither
pin nor protection. `voided` are the experts that `cancel_loading` or `expire_stages`
has taken from the holders of leases on them. The properties hold for every client,
and say what each lapse, and a voided lease, leaves of them.

### FullCheckpoint

`shard[g][l]` is the file of layer l in generation g: absent, under its temporary
name, whole or torn. A save (`saver`) writes and renames shard after shard, writes
the index under a temporary name, syncs and renames it, and removes the shards of
the generation it found when it began; on an exception it undoes what it wrote.
Any step may fail, and the process may end between any two. The loader
inspects all shards before it copies one, sets the failure flag when a copy fails
and clears it after the last one; a `KeyboardInterrupt` at any place of a load
(`LoadInterrupted`) passes the handler, and `cut` remembers one that came while
the load copied. `params` is what the parameters hold, `backend`
what the CPU backend computes with, refreshed when `dirty`. A loss of power
tears any shard whose data were not written back.

### EphemeralStaging, EphemeralStore

A tree is one directory with its lease, files, manifest and temporary manifests;
`staging` and `ready` are the trees that have these names *now*, so a process that goes
on by name finds whatever is there. The producer's `main` is `ppc`, its converter
`child`. Removing a tree lists it and then removes entry after entry. A consumer
opens the ready tree, loads a layer, writes the manifest, deletes the layer's
files; a signal handler runs the cleanup between any two of these steps and may
return. Kills may come anywhere, and a write may fail, as `/dev/shm` may be full: that of
the first lease before the script has registered its cleanup
(prepare_ephemeral_int8.py:90, 103), that of the converter's while this is at work (137).

### DistributedLayer

`pc` and `phase` are where each rank is, between the collectives of a forward, a
recompute and a backward. A rank leaves a collective when all have entered it, a
gather or scatter when rank 0 and the ranks with rows have. `err` is a failure that
a rank has caught and not yet shared; the all-reduce of the status makes it
everyone's. The routing comes before the exchanges, and its failure leaves the forward
at once (`RouteFails`); `strays` are the ranks that have done so in this step. Rank 0's backend keeps `cache` (the output a checkpoint retains:
EMPTY, READY, POISONED), `saved` and `depth` (activations), `pending` and `grads`
(the window in which the optimizer may read the buffers, and the steps that
added to them). `completed` and `used` are history variables.

## 3. What the runs check

| Run | Instance | Shows |
|---|---|---|
| `transport_any_client` | 2 ranks, 1 slot, layers of 2 and 1 experts, any calls in any order | the inductive invariant, `StatsOfOwnLayer`, the refinement of `LayerBroadcast` |
| `transport_faults` | 2 ranks, 1 slot, one layer of 2 experts; crashes, timeouts, failing writers, CUDA failures, construction on a used region | `NoTornCopy`, `LayerOnGpu`, `ReportsFirstFailure`, `NoSpuriousPoison`; every call of a live rank ends |
| `transport_close` | 2 ranks, 1 slot, layers of 1 and 2 experts; close at any point up to the end of the first layer, no timeouts | close ends; without close all layers load |
| `queue` | one thread that enqueues and syncs; two that enqueue; two that do anything, with exceptions; 3 tasks | `QueueInv`, `SyncMeansDone`, `SyncReports`, every task runs, calls end |
| `queue_apart` | one thread enqueues, another syncs | a violation, see below |
| `infer` | 3 calls, stream calls alone and mixed with direct ones, capture and up to 2 replays, four sets of faults | `ArgsInv`, `FailureSurfaces`; calls end, unless the client mixes calls and a wake-up is lost |
| `pool` | 3 threads, up to 3 tasks, 2 jobs; one job that may throw | `JobInv`, `ComputesItsJob`, calls end |
| `pipeline` | every path, up to 3 layers of which 2 defer, 2 batch sizes with room for one temporary buffer, eviction, clearing, capture and replay, failing tasks | `BuffersInv`; `InputsStable`, `OutputComplete` and progress, on the pinned path until a callback has lost its buffer (progress there without clearing) |
| `cache` | 7 clients, 2 or 3 experts: leases with 2 shards, a permanent layer, the pipeline with leases and all calls in any order, on one slot each; router rounds, pools and the pipeline's stages on two; after a lapse as long as there is one kind of them and at most one slot too many (`SlotBound`); two experts of the same setups are interchangeable (`Alike`) | `SlotsInv`, `LeaseHolds`, `HitIsResident`, `RoundProtects`, `AdmissionSpares`, no deadlock |
| `checkpoint` | 2 saving processes, 2 saves, 2 layers, a loader with an optimizer step, every fault | `IndexWhole`, `ForwardWhole` (not after an interrupt in the middle of a copy) |
| `ephemeral` | 1 producer and 2 consumers of 2 layers; 2 producers and 1 consumer of 1 layer; 2 files per layer, kills, 2 signals per consumer | `TreesInv`, `LeavesNothing` |
| `layer` | 3 ranks with and without rows, 3 steps, every checkpoint policy, every failure; a routing that raises on some ranks | `RanksInv`, `BackwardUsesItsForward`, `GradsOfCompletedSteps`, `RetainedOutputEnds`; steps end, unless the routing raises on some ranks only |

Several properties are conjunctions of named parts (`SlotsInv`, `RanksInv`, ...);
the parts are defined and explained next to them. Every property has at least one
mutated definition in `PROJECT.json`, a plausible slip in the code it models,
under which TLC finds it violated.

### Bounds

* Transport. The code has two host slots and up to eight ranks. What matters of
  the slots is that an expert has to wait for one: one slot and two experts give
  that. Two ranks give rank zero, which produces, and another that only
  consumes. Two epochs make a layer follow another. The safety properties are
  proved for every number of ranks, slots, experts and epochs (section 4), which
  is why the fault run can be small. `transport_close` has a second layer so that
  join's fence and the wait for the slot of an expert do wait in `AllLayersLoad`;
  its action constraint `CloseInFirstLayer` keeps the ranks from starting to close
  in that layer, which has the same waits as the first and would only multiply
  the states.
* Queue: two tasks are enough for one to fail while the other is pending, three
  for one that is linked while the worker decides to sleep after another.
* Infer: three calls are a submit, a sync behind it and one more that finds the
  failure; two replays make the arguments of a callback needed again.
* Pool: two workers, so that one may lag behind in a job that the other has
  ended; two jobs, so that it meets the next one; with fewer tasks than threads
  some stay out of a job.
* Pipeline: three layers bring a slot into use again while the layer before
  has a deferred task, two batch sizes with `MaxTemp` = 1 force evictions. For any
  number of layers, passes, sizes and buffers: section 4.
* Cache: one expert more than slots; the epoch has three values and wraps.
* Checkpoint: two saves that overlap on two layers, so that one may remove what
  the other published. The constraint `CutAmongFiles` explores what follows an
  interrupted load only while no save is going on. For any number of savers and
  layers: section 4.
* Ephemeral: two layers with two files each, so that a process may stop between
  files and between layers.
* Layer: rank 0, one rank with rows and one without; three steps let a failed one
  be followed by one that works and one more that uses what both left.

The savers are symmetric (`Symmetry`); no other symmetry is used, since the other
sets are two or three elements that differ in their roles. Deadlock is checked
where the component can always take another call (`cache`); the others may stop:
after their last call, after poison, after a crash, after the destructor.

### Fairness

Weak fairness throughout, on the steps of threads that run. `Runs(A)` is A with the
constant `setup` unchanged.

* Transport, `FairSpec`: every thread of a live process goes on with its call (the
  waits are polls), and the GPU finishes copies it was given. No fairness for
  crashes, failures, close or timeouts beyond their being a step of the waiting
  thread. `LiveSpec` adds that clients make the calls of
  `run_layerwise_fp8_batch`; it is needed for `AllLayersLoad` only.
* Queue: every thread goes on with its call and the worker with its loop. A mutex
  that is free infinitely often is assumed to be got; in the model it is held for
  one step only.
* Infer: the driver runs callbacks, the host its call, and the worker, as long as it
  is awake, its tasks. Nobody has to begin a call. A worker whose wake-up was lost
  may sleep for ever, so `CallsEnd` excepts, for clients that mix direct and stream
  calls or drain after a device failure, the behaviours in which it does (`<>[]asleep`);
  for clients that keep to the stream it is unconditional.
* Pipeline: the driver runs callbacks, the worker tasks, the host its call. The host
  syncs or drains only where no callback can enqueue at the same time (it waits
  for the device first, or its path has no callbacks), so no wake-up
  is lost there. The one exception is `clear_buffer_cache` on the pinned path
  (`WakeUpsMayBeLost`): with it nothing is assumed of the worker, and progress is claimed
  only for the pinned clients that do not clear.
* Pool: every thread runs on and tasks end. A worker may spin for ever.
* Layer: ranks run on, and a backward that one rank begins all begin, since all
  run the same program. Where the routing has raised on some of the ranks only,
  the others wait for ever; `StepsEnd` excepts those behaviours and no others
  (`<>[](strays \notin {{}, Ranks})`).

### Finding: a lost wake-up in the task queue

`queue_apart` violates `AnySyncEnds`. The worker sleeps; a thread enters `enqueue`
and counts its task (task_queue.cpp:47); another thread calls `sync(0)` or
`sync_noexcept(0)`, sees one pending task and sleeps on the same condition
variable; the first one links the task and calls `notify_one` (line 53), which may
wake the syncing thread. It finds the task still pending and sleeps again. The
worker is never woken: the task does not run and the sync does not return,
until some other enqueue happens to wake the worker. `notify_all` in `enqueue`, or a
condition variable of its own for the worker, removes it. With all calls in
one thread, or no sync during an enqueue, the liveness properties hold (run
`queue`).

### Behaviours worth knowing

Met while modelling. Each is what the code does where it promises nothing else, or a rule for
callers that the code does not check; the properties are stated so that they
hold beside them.

* Transport. A second `wait(e)` after the next epoch's stores reports the next
  layer's statistics. `join`'s fence on `wait_returned_epoch` is needed for the
  statistics; the buffers would be safe without it. The first use of a slot in
  `run_producer`, and the first epoch, do not look for poison: rank zero may
  write and publish after another rank has failed. `close` may decide that no
  layer is active just before rank zero opens one; the consumer is then stopped
  without poison, and the other ranks time out.
* Task queue. The destructor drops tasks that are still in the list.
* CPUInfer. The destructor relies on streams that were drained. When the
  allocation for a sync callback fails, the drain that follows swallows the failure of a
  task. When the capture query fails, the stream counts as captured and the
  arguments of that call are kept for ever.
* Worker pool. A function that throws in the caller's share skips the wait: the
  next job may replace functions and counters under running workers, and the
  destructor may wait for a worker that overwrote EXIT with WAITING.
* MoE wrapper. `get_buffer` inserts the new buffer before it waits and drops "the LRU
  temp buffer" after (`experts_base.py:365-387`); callbacks of the pinned path that
  run during the wait move theirs to the end (316), and the buffer that is dropped may
  be the new one. Its callback then finds none: `run_pinned_forward_sync`, meant for
  "pre-filled buffers", works on a new one filled with zeros, or, if it has to make room
  in turn, waits for the device inside a callback of the device and hangs.
  `clear_buffer_cache` has the same effect on this path, as it waits for the queue and not for
  callbacks an NPU has yet to fire. No pointer dangles even so. With
  `KT_MAX_TEMP_BUFFER_SIZES=0` a lookup drops the buffer it returns, on every path.
* Expert cache. The comment on `expire_stages` (`expert_cache.hpp:556-559`) lets an
  expired stage finish through `mark_absent` or `mark_ready`; only `mark_ready` is
  right: `mark_absent` recycles every EVICTING row's slot (347-349), and the expiry has
  done so already, so that two experts are admitted to one slot. The "plain restart"
  of an expired row (198-201) leaves it without a slot of its own: it is
  loaded, becomes READY and is hit by lookups, in a slot that may have been given to
  another expert. `mark_scheduled` of an absent row does the same. `cancel_loading` and `expire_stages` take
  rows away under leases, and reset their count then or when the stage lands; the
  rolling pipeline expires (`pipeline.hpp:257`) and cancels (574-575, 1443-1444, by way of 1126-1134)
  while its leases from `acquire_pending` are out, and the release (1466) of a lease whose
  count was reset throws "refcount underflow". `mark_ready` between `mark_evicting` and `mark_absent` loses the slot; a
  permanent expert that is neither pinned nor protected any more can be a victim and
  has no slot to give; `bind_forward` locks again what it holds if its mutex type is not
  recursive; an admission that throws for lack of a place has taken its slot already.
* Checkpoints. A load catches `Exception` only: a `KeyboardInterrupt` in the middle of its copies
  leaves parameters of two generations without the flag that refuses a forward
  pass, and only a later load that succeeds mends them. Shards are not synced to disk before the index is, so a loss of power may
  leave a torn one, which the next load refuses. A save after a failed load
  publishes the mixed weights. `load_full_weight_layer` reads the index again for
  every layer, and layers loaded while another process saves may be of two
  generations.
* Ephemeral weights. The lease names the converter: once it has exited, another producer takes
  the tree of a live one for an orphan's. A tree whose producer died before it wrote a
  lease, or could not write it, is empty and never reclaimed, and every later producer
  of the run id refuses it. When the lease of the converter cannot be written
  (prepare_ephemeral_int8.py:137), the script removes the tree and ends while the converter goes on:
  what that still writes has no lease, either, and stays. A producer that has failed removes at exit
  whatever tree has the name. A second signal, or two cleanups that meet at a file, leave
  weights behind. A signal before the converter has started is honoured only
  after the conversion.
* Distributed layer. `_compute_routing` (layer.py:431) runs before the first
  exchange and outside any `try`. Where it raises on some of the ranks, in a
  forward or in a recompute, these leave (or wait in the collective of
  autograd.py:301) and the others stay in the gather of the state for ever: none gets
  further (`StraysStopTheOthers`). A poisoned retained output stays poisoned.

## 4. What is proved

Each theorem holds for every value of its module's constants: any number of
ranks, threads, calls, tasks or steps, and any set of faults. The instances of
section 3 check the same formulas, and the inductive invariant of the transport,
on small instances.

### Transport

`TransportProofs`, for every number of ranks, slots, experts and epochs, any plan,
any clients and any events:

| Theorem | Statement |
|---|---|
| `Invariance` | `Spec => []TransportInv` |
| `TypeCorrect` | `Spec => []TypeOK` |
| `CopiesAreWhole` | `Spec => []NoTornCopy` |
| `WaitMeansLoaded` | `Spec => []LayerOnGpu` |
| `StatsAreOwn` | `Spec => []StatsOfOwnLayer` |
| `ConsumersKeepUp` | `Spec => []ConsumerOnJoinedLayer` |
| `FirstFailureReported` | `Spec => []ReportsFirstFailure` |
| `PoisonIsFinal` | `Spec => PoisonLatches` |
| `TransportBroadcasts` | `Spec => ImplementsBroadcast` |
| `LawfulClientsAreNotAccused` | `Spec => []NoSpuriousPoison` |

The assumptions are those on the constants in `LayerwiseTransport`: at least one
rank, slot and expert, epochs are positive, counts between one and the number
of experts, and a plan that has one layer for an epoch (`PlanAssumption`; the
caller numbers its layers, and it is used only for lawful clients). The argument is
the inductive invariant of `TransportInvariant`. The
properties are far from inductive: that a copy is whole rests on who may touch
a slot (`SlotInv`: a slot that rank zero writes is drained, and one that is not
drained holds what `ready` says), on what a consumer has seen (`GenerationInv`),
and on what becomes of a copy whose consumer is gone (`DmaInv`: its generation is
never acknowledged by that rank, not even by a later transport on the same
region, which starts from the sequences it finds: so rank zero never gets past
the slot again). These in turn rest on the order of the epochs in the cells
(`EpochInv`), on the layer cells being the active epoch's except while rank zero
is between its stores (`LayerInv`), and on what the locals of the threads mean
(`CallerInv`, `ConsumerInv`). There is one lemma per part of the invariant, with
one step per action that can disturb it.

The refinement maps the layer that the cells describe, the ranks that have joined
it, the experts each rank has and the ranks that were told of the end to the
variables of `LayerBroadcast`. Few actions move the mapped state; for each of them the
abstract guard has to be found in the concrete state, and all others are shown to
stutter. That takes `BroadcastInv`, four more invariants: the mapped layer is the one
rank zero has joined (`OpenInv`); no buffer and no slot holds anything of an epoch
that its readers have not joined (`FreshInv`); experts reach a GPU in order
(`OrderInv`); while rank zero produces, every rank has each published expert or has
still to acknowledge its slot, and a layer that is declared produced is on all GPUs
(`DeliveryInv`). `NoSpuriousPoison` needs `LawInv`: what a lawful rank is about to join
is the first planned layer after the one it is in, and rank zero is at most one
layer ahead of any other, so none of the tests for a breach of the protocol can fire.

### Checkpoints

`WeightProofs`, for any number of saving processes, layers, saves and
optimizer steps:

| Theorem | Statement |
|---|---|
| `CheckpointTypes` | `CheckpointSpec => []CheckpointTypeOK` |
| `CheckpointIsWhole` | `CheckpointSpec => []IndexWhole` |
| `ForwardsAreWhole` | `CheckpointSpec => []ForwardWhole` |

That the index names whole shards is not inductive: a save that removes old
shards must be known to remove other ones than the index names. `CheckpointInv`
adds that generations are numbered by the saves begun (`Numbered`), that two
unpublished saves never have the same one (`Distinct`), that the generation of a
save which has not published is neither the index's nor one that another save
will remove (`Owned`), that what a save removes is no longer the index's
(`Superseding`), and which shards a save has written at each of its steps
(`Written`). `ForwardsAreWhole`
needs only the loader's own steps: while the flag of a failed load is down and
no interrupt has cut a load short (`cut`), the parameters of all layers are of one load and one optimizer step, and the backend
is either marked dirty or computes with them.

### Task queue

`QueueProofs`, for any number of threads and tasks, any of which may throw:

| Theorem | Statement |
|---|---|
| `QueueIsSafe` | `Spec => []QueueInv` |
| `SyncKeepsItsPromise` | `Spec => SyncMeansDone` |
| `NoFailureIsDropped` | `Spec => SyncReports` |

The queue takes no lock between the count of a task and the link to its
node, so what `pending` means depends on where every thread is. `QueueIndInv`
says: `pending` is the number of tasks in the list that are not over plus the
number of threads between their count and their exchange (`Counting`, by
cardinality); where a link is missing one thread is about to store it (`Linking`);
the worker has got through linked nodes only (`Working`), the nodes before its
own are deleted and no others (`Deleting`), so nobody holds a deleted one; the
destructor runs alone (`Ending`); the tasks that a sync was called for are in the
list (`Waiting`); and a failure of a task that is over is latched or was thrown
(`Failing`). `SyncMeansDone` and `SyncReports` are then facts about one step.

### CPUInfer

`InferProofs`, for any number of calls, replays and any faults:

| Theorem | Statement |
|---|---|
| `ArgumentsHaveOneOwner` | `Spec => []ArgsInv` |
| `FailuresSurface` | `Spec => []FailureSurfaces` |

`InferInv` follows the arguments of a call through their owners: the call itself until
it has launched (`Going`), then a callback on the stream or one in a graph, and only
one of them (`Owned`). Where captures are seen for what they are, live arguments have
such an owner (`Kept`: nothing leaks). A call that goes on outside a capture
has found no failure (`Latched`), and a drain leaves neither callbacks nor tasks
(`Drained`).

### Worker pool

`PoolProofs`, for any number of threads, tasks and jobs:

| Theorem | Statement |
|---|---|
| `JobsComplete` | `Spec => [](Orderly => JobInv)` |
| `WorkersComputeTheirJob` | `Spec => [](Orderly => ComputesItsJob)` |

`Orderly` is a pool whose functions do not throw, or that has one job only. It is
the rule for callers that `do_work_stealing_job` leaves to them: after a throw in
the caller's share the wait is skipped, and a second job meets the threads of the
first ("Behaviours worth knowing"). All setups of the run are orderly. `PoolInv` says that
the caller replaces functions and counters only while no worker is in a job
(`Quieting`), which rests on what the statuses say at each position of its loops
(`Signalling`); that a thread in a job has initialised for it (`Initing`); that a
task which was taken is computed, or held by exactly one thread that will compute it
(`Holding`, `Taking`); and that no thread leaves before all are taken (`Leaving`).

### Expert cache

`WeightProofs`, for any number of slots, ranks and layouts, any finite set of experts
and any order of the client's calls:

| Theorem | Statement |
|---|---|
| `SlotsAreKept` | `Spec => []SlotsInv` |
| `LeasesHold` | `Spec => []LeaseHolds` |
| `HitsAreResident` | `Spec => []HitIsResident` |
| `RoundsProtect` | `Spec => []RoundProtects` |
| `AdmissionsSpare` | `Spec => AdmissionSpares` |

They hold of every client (`CacheInvariance`: one inductive invariant, `CacheInv`).
The properties themselves say what a lapse destroys (section 2, `ExpertCache`): the
partition of the slots falls with `finished`, `restarted` and `dropped`, the capacity of
the pools with `bared`, the number of slots with any of them, and that what is leased or
hit has a slot with `restarted`. What is not in that list survives every lapse: the
counts of leases that are not voided, the shards of what is READY, the rounds, and what an
admission spares. In scratch runs TLC found each lapse to destroy what is put down to
it, except for two claims that are given up without need: `finished` and
`restarted` seem to leave the number of slots alone, and `bared` the pools.

The slots rest on `Placed`: the rows that have a slot have different ones, the free
list has no slot twice, and the two together are all the slots handed out (a row of
a permanent layer has none: `Seated`). It is kept by the six calls that move a slot: a row leaves
and its slot is freed (`PlacedLeave`, and `PlacedLeaveMany` for all the stages that
expire at once), a row takes the last free slot (`PlacedReuse`) or a new one
(`PlacedNew`). A new slot is taken only when none is free, and then there
are no more of them than residents (`PlacedFull`), of which there are fewer than
`expert_gpu_slots`. `SlotsInOnePlace` is the same partition, by cardinality. What a row
has to be for this (`Good`) is in four parts: which states a resident can be in
(`Standing`), when its shards have landed (`Landed`), who has a slot (`Seated`), and
what its leases rule out (`Leased`). Calls on one row share one lemma (`MakesKept`);
the admissions, the expiry of stages and the counting of uses, which age all rows,
have their own.

### Ephemeral weights

`EphemeralProofs`, for any number of consumers, layers, files, kills and signals, and
any finite number of producers (none of them called "nobody", which is the name of
the producer that no tree has: `SetupAssumption`):

| Theorem | Statement |
|---|---|
| `ConversionFeedsOne` | `Spec => []TreesInv` |
| `EndedLeaveNothing` | `Spec => []LeavesNothing` |

Every process goes on by name, so the tree that a step finds may be another's, and
a producer that is late may make one where it expects to find its own. What orders this is
that a producer whose converter is over makes no tree any more (`Barren`), and that a
manifest is written only by such a producer (`ManifestInv`): the tree a consumer has opened,
once it has lost a file or is gone, never gets it back, under either name. So
whatever a consumer has deleted stays deleted in the tree it has opened, and all is
deleted when its cleanup is over (`FileInv`, which is why it leaves nothing). What a consumer has
deleted, loaded and written down follows from where it is, or from where the
signal handler will return to (`PlaceInv`, `RecordInv`, `CloseInv`). Deleting a file that is not there
is an error outside the cleanup: so with one conversion no two consumers have both deleted
a file (`ExclusiveInv`), and who gets through has deleted all of them, the first one
too. `SoleInv` says for a producer that is alone whether its tree is there, and that the walk
that removes it finds what it has listed. A producer's steps are all of one kind
(`Conversion`), and so are a consumer's (`Use`); each kind is shown once to keep the
invariant, and each action to be of its kind. `EndedLeaveNothing` says what the code can keep: the
producer has waited for its converter or has not started one, and the empty directory whose
first lease could not be written may stay.

### Distributed layer

`LayerProofs`, for any number of ranks, steps and row counts, any
checkpoint policy, any failure on any rank, the routing's included:

| Theorem | Statement |
|---|---|
| `LayerInvariance` | `Spec => []LayerInv` |
| `RanksStayTogether` | `Spec => []RanksInv` |
| `BackwardIsOfItsStep` | `Spec => []BackwardUsesItsForward` |
| `OptimizerSeesCompleted` | `Spec => []GradsOfCompletedSteps` |
| `RetainedOutputIsUsedUp` | `Spec => []RetainedOutputEnds` |

`LayerInv` has two parts. `Zones` lists the twelve sets of places in which ranks can
be at the same time: two sides of a collective, before or after it, or on the two
ways out of an all-reduce of the status, which is the same for all. A rank can
leave a zone only when all others are in it and ready to follow, which is what the
collectives wait for. The ranks whose routing has raised are in the zone of the
beginning of the forward or of the recompute, and so keep the others there. `BackendInv` says for each place of rank 0 what its
backend holds: which step's activations are on top, what of the retained output is
left, whether the gradients' window is open. The three properties are what it says
between the steps.

### MoE wrapper

`PipelineProofs`, for any batch sizes, layers and deferring layers, any number of
passes and buffers, every path, with captures, replays, evictions and failing tasks:

| Theorem | Statement |
|---|---|
| `PipelineInvariance` | `Spec => [](PoolsInv /\ (~lost => PipelineInv))` |
| `BuffersOutliveTheirUses` | `Spec => []BuffersInv` |
| `TasksFindTheirInput` | `Spec => []InputsStable` |
| `ResultsAreComplete` | `Spec => []OutputComplete` |

No use of the wrapper is excluded. `InputsStable` and `OutputComplete` claim nothing once a
buffer is `lost`, and `BuffersInv` says where that can happen: on the pinned path, or
if no temporary buffer may be kept (`MaxTemp = 0`). Except in that second case its `NoDangling` holds also
after a loss. So the invariant has two layers: `PoolsInv` holds always, with the types, what the pinned
path's tasks and graphs refer to (`PinnedInv`), and that on the other paths the host's new buffer
is the newest of at least two when it makes room (`RoomInv`); `PipelineInv` holds until
something is lost.

What a slot holds depends on how far the stream has come, and that on a stream of any
length. The argument looks at one operation, the stream's next one, or the host's if
the stream is empty (`Cur`). `StreamInv` says that each operation in the stream follows the
one before it in the order of one layer after the other, up to the one the host is at;
`GraphInv` says so of each captured graph, complete or just being recorded, so that a
replay appends a whole pass. Hence a step of the stream goes from `Cur` to its
successor, whoever put it there, and a step of the host leaves `Cur` alone unless the stream is
empty. `QueueFits` says which tasks are queued at `Cur`: those of its layer and the
deferred one of the layer before, without a gap up to the last one submitted, and none
older than the last wait allows. Two layers that share a slot are never
both among them, which gives `InputFits`. `OutputFits` says what the last task that
was run has left in the slots of this layer and the next. Whether a task adds or writes is
decided by the flag of the layer before when it is submitted: `FlagInv` says that
the flags the host or the pinned callback will look at are those of the pass, and that
flags of a pass that was given up are overwritten before they are looked at. `HoldInv`
says that a buffer in use is the one its size is looked up by, and `Distinct` that there is one
per size. A buffer is dropped only when stream and queue are empty, and, as nothing is lost, it is not
the host's own. A captured graph's buffers are in
`capture_buffers`, from which nothing is dropped.

### Only model-checked

All liveness, since the prover has no reasoning about fairness or `ENABLED`: that calls of
the transport end and layers load, that every task runs and every call of queue,
CPUInfer and pool ends, `Progress` of the pipeline, and that steps of the distributed layer
end; and the violation of `AnySyncEnds`. Every invariant and every action property of
the runs is proved.

## 5. Not modelled

* Numeric kernels, quantisation, weight loaders, wrappers of single backends: tensor
  arithmetic and data formats without control state. This is most of the
  repository's Python, together with the retired framework under `archive/` (model
  definitions, servers, a former copy of the fine-tuning package), vendored code,
  and the command line tool, whose thousands of lines are prompts, tables and
  subprocess calls in sequence. The models here cover the control of the C++ core
  and of the Python that shares state with it: a small share of the lines, and
  nearly all of those where two things happen at once or one may fail half way.
* The cache's rolling pipeline (`pipeline.hpp`): its own buffers are not modelled.
  Of the calls it makes on the cache, three experts take those on staged rows and
  leases (the clients `Stages` and `Pipeline` of `MCCache`); with `record_use`,
  `mark_scheduled` and `end_startup_protection` beside them they are in the client
  `Anything`, which has two experts.
* `NumaJobDistributor`: the pool's protocol once more, one level up, without
  sleeping.
* Shared memory buffer: a grow-only arena, sequential. Ascend callback worker:
  start and stop of a thread around calls of a vendor library.
* Other parts of SFT: adapter artifacts, construction of the wrapped model, LoRA
  parameters, weight formats.

What would come next:

1. Adapter artifacts (`save_kt_adapter_artifacts`, `load_kt_adapter_artifacts`): a
   manifest that is withdrawn first and written last, with the same questions as the checkpoints.
2. `NumaJobDistributor` above `WorkerPool`.
