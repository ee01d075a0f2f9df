--------------------------- MODULE ForwardPipeline ---------------------------
(***************************************************************************)
(* The inference path of the MoE wrappers (experts_base.py): for each MoE  *)
(* layer the host copies the layer's inputs to pinned buffers, hands one   *)
(* task to the CPU for the experts whose result is needed now and possibly *)
(* one for the deferred experts, whose result the next layer adds to its   *)
(* own, waits for all but the deferred task and copies the result back.    *)
(*                                                                         *)
(* Three actors work at the same time: the host, which runs ahead; the     *)
(* accelerator's stream, which does copies and host callbacks in order;    *)
(* and the worker of the CPU task queue (module TaskQueue), which runs the *)
(* tasks in order.  The tasks hold raw pointers into the pinned buffers.   *)
(*                                                                         *)
(* Data are abstracted to where they come from: an input slot holds the    *)
(* forward pass and layer it was copied for, an output slot the set of     *)
(* task results that were written or added to it.                          *)
(***************************************************************************)
EXTENDS Integers, Sequences, FiniteSets

CONSTANTS
    BatchSizes,  \* the batch sizes of forward passes
    MaxTemp,     \* KT_MAX_TEMP_BUFFER_SIZES
    Setups,      \* the ways the wrappers are used; one holds for a whole run
    MaxBuffers   \* how many buffers are allocated (bound)

VARIABLE setup
Layers    == setup.layers     \* number of MoE layers; they are 0 .. Layers - 1
Deferring == setup.deferring  \* the layers with max_deferred_experts_per_token > 0
Path      == setup.path       \* how the tasks reach the queue, see below
Clears    == setup.clears     \* clear_buffer_cache is called between passes
Captures  == setup.captures   \* passes are also captured into graphs and replayed
Failing   == setup.failing    \* tasks throw
MaxPasses == setup.passes     \* how many passes, captures and replays run (bound)

\* "stream":  CUDA, by host callbacks of the stream
\* "npu":     submitted by the host, after it waited for the copies
\* "bypass":  the same with KT_FORCE_SYNC_SUBMIT=1 or no callback worker
\* "filled":  copy_inputs_to_cpu_buffers, forward_on_pinned_buffers, sync_forward
\* "pinned":  NPU, one host callback of the stream runs run_pinned_forward_sync
Paths == {"stream", "npu", "bypass", "filled", "pinned"}

Cuda == Path = "stream"   \* torch.cuda.is_available()

LayerSet == 0 .. Layers - 1
\* The result of deferred experts is added by the next layer: the last layer
\* has none.
ASSUME SetupAssumption ==
    /\ Setups \subseteq [path : Paths, layers : Nat \ {0}, deferring : SUBSET Nat,
                         clears : BOOLEAN, captures : BOOLEAN, failing : BOOLEAN, passes : Nat]
    /\ \A s \in Setups : s.deferring \subseteq 0 .. s.layers - 2
ASSUME BoundAssumption == {MaxTemp, MaxBuffers} \subseteq Nat

BufferDepth == 2
Slots   == 0 .. BufferDepth - 1
Buffers == 1 .. MaxBuffers
Passes  == 1 .. MaxPasses
Nothing == <<0, 0>>   \* what a fresh slot holds

VARIABLES
    temp_buffers,      \* <<batch size, buffer>>, least recently used first
    capture_buffers,   \* batch size -> buffer, 0 if there is none
    capture_bs,        \* the registered batch sizes
    pending_deferred,  \* _layer_has_pending_deferred
    input, output,     \* the pinned memory, by buffer and slot
    host,              \* what the host does
    stream,            \* operations the accelerator has still to do
    queue,             \* tasks the CPU has still to do; the first one runs
    graphs,            \* batch size -> the operations captured for it
    error,             \* the queue's first_exception is set
    allocs, passes,    \* how many buffers and passes there were
    lost,              \* history: a buffer was dropped that a lookup will miss
    deferrals,         \* history: <<pass, layer>> with a deferred task
    spoiled            \* history: passes with a failed task or an exception

pools  == <<temp_buffers, capture_buffers, capture_bs, allocs, lost>>
memory == <<input, output>>
hist   == <<deferrals, spoiled>>
vars   == <<setup, pools, pending_deferred, memory, host, stream, queue, graphs,
            error, passes, hist>>

Idle == [at |-> "idle", pass |-> 0, layer |-> 0, size |-> 0, buf |-> 0, evicting |-> 0,
         capturing |-> FALSE]

Init ==
    /\ setup \in Setups
    /\ temp_buffers = <<>> /\ capture_buffers = [b \in BatchSizes |-> 0]
    /\ capture_bs = {} /\ allocs = 0 /\ lost = FALSE
    /\ pending_deferred = [l \in LayerSet |-> FALSE]
    /\ input = [u \in Buffers |-> [s \in Slots |-> Nothing]]
    /\ output = [u \in Buffers |-> [s \in Slots |-> {}]]
    /\ host = Idle /\ stream = <<>> /\ queue = <<>>
    /\ graphs = [b \in BatchSizes |-> <<>>]
    /\ error = FALSE /\ passes = 0 /\ deferrals = {} /\ spoiled = {}

-----------------------------------------------------------------------------
(* Tasks and stream operations.                                            *)

\* A layer's slot, and the next layer's.  Mutants: one slot for all layers; the
\* next one does not wrap.
SlotShared(l) == 0
SlotOf(l)   == l % BufferDepth
NextSlotUnwrapped(l) == SlotOf(l) + 1
NextSlot(l) == (SlotOf(l) + 1) % BufferDepth

\* The task for the experts needed now, and the one for the deferred experts,
\* which writes where the next layer's result goes.
Immediate(u, p, l) ==
    [kind |-> "now", buf |-> u, pass |-> p, layer |-> l, into |-> SlotOf(l),
     incremental |-> l - 1 \in LayerSet /\ pending_deferred[l - 1]]
Deferred(u, p, l) ==
    [kind |-> "later", buf |-> u, pass |-> p, layer |-> l, into |-> NextSlot(l),
     incremental |-> FALSE]

\* A stream operation: a copy in or out, a callback that submits a task, that
\* waits for the queue, or that runs the whole layer.  This last one uses only
\* the layer and the size of the batch, by which it looks its buffer up, and
\* the wait only how many tasks it allows; their other fields record for what
\* they were launched.
Op(what, u, p, l, allow, inc) ==
    [what |-> what, buf |-> u, pass |-> p, layer |-> l, allow |-> allow, incremental |-> inc,
     size |-> host.size]
CopyIn(u, p, l)  == Op("in", u, p, l, 0, FALSE)
CopyOut(u, p, l) == Op("out", u, p, l, 0, FALSE)
Callback(t)      == Op(t.kind, t.buf, t.pass, t.layer, 0, t.incremental)
Sync(u, p, l, n) == Op("sync", u, p, l, n, FALSE)
WholeLayer(u, p, l) == Op("pinned", u, p, l, 0, FALSE)

\* The task that a callback carries.
TaskOf(op) == [kind |-> op.what, buf |-> op.buf, pass |-> op.pass, layer |-> op.layer,
               into |-> IF op.what = "now" THEN SlotOf(op.layer) ELSE NextSlot(op.layer),
               incremental |-> op.incremental]

\* While a graph is being captured, operations go to the graph.
Enqueue(ops) ==
    IF host.capturing
    THEN /\ graphs' = [graphs EXCEPT ![host.size] = @ \o ops] /\ UNCHANGED stream
    ELSE /\ stream' = stream \o ops /\ UNCHANGED graphs

\* The buffers that are not freed: those of the class's dictionaries and, in
\* submit_forward and copy_forward_output_to_device, the one in a local variable.
Kept == {temp_buffers[i][2] : i \in DOMAIN temp_buffers} \cup
        {capture_buffers[b] : b \in BatchSizes} \cup
        (IF host.at \in {"now", "later", "out"} THEN {host.buf} ELSE {})

DeviceDone == stream = <<>>
Drained    == DeviceDone /\ queue = <<>>

\* The layer's wait leaves the deferred task of the layer pending.
\* Mutant: it wants fewer tasks than it allows.
AllowFewer(pending)   == IF pending THEN 0 ELSE -1
AllowPending(pending) == IF pending THEN 1 ELSE 0

-----------------------------------------------------------------------------
(* KExpertsCPUBuffer: which buffer a batch size has.  get_buffer finds it, *)
(* or allocates one; if there are too many then, it waits for the device   *)
(* and the queue, raises the queue's exception, or drops the one that is   *)
(* the least recently used by that time.  The callbacks of the pinned path *)
(* look buffers up while it waits.                                         *)

TempOf(b)     == {i \in DOMAIN temp_buffers : temp_buffers[i][1] = b}
Without(i)    == SubSeq(temp_buffers, 1, i - 1) \o SubSeq(temp_buffers, i + 1, Len(temp_buffers))
ToCapture(b)  == b \in capture_bs \/ host.capturing

\* A size that has a buffer: hit(b, u) holds of it and the buffer found.
Hit(b, u) ==
    \/ /\ capture_buffers[b] = u /\ u # 0
       /\ UNCHANGED pools
    \/ \E i \in TempOf(b) :
        /\ capture_buffers[b] = 0 /\ temp_buffers[i][2] = u
        /\ temp_buffers' = IF ToCapture(b) THEN Without(i) ELSE Append(Without(i), <<b, u>>)
        /\ capture_buffers' = IF ToCapture(b) THEN [capture_buffers EXCEPT ![b] = u]
                              ELSE capture_buffers
        /\ UNCHANGED <<capture_bs, allocs, lost>>

\* A new buffer for a size: fresh memory; kept for good, or the newest of the
\* temporary ones.
Allocate(b, u) ==
    /\ capture_buffers[b] = 0 /\ TempOf(b) = {} /\ allocs < MaxBuffers
    /\ u = allocs + 1 /\ allocs' = u
    /\ IF ToCapture(b)
         THEN capture_buffers' = [capture_buffers EXCEPT ![b] = u] /\ UNCHANGED temp_buffers
         ELSE temp_buffers' = Append(temp_buffers, <<b, u>>) /\ UNCHANGED capture_buffers
    /\ UNCHANGED <<capture_bs, lost>>

\* A new buffer would be one too many.
Overflows(b) ==
    /\ capture_buffers[b] = 0 /\ TempOf(b) = {}
    /\ ~ToCapture(b) /\ Len(temp_buffers) >= MaxTemp

\* A lookup that has not to make room.
GetBuffer(b, u) == Hit(b, u) \/ (~Overflows(b) /\ Allocate(b, u))

\* The oldest buffer is dropped when everything in flight is over.
\* Mutant: it is dropped at once.
DropAtOnce == temp_buffers' = Without(1)
DropOldest == Drained /\ ~error /\ temp_buffers' = Without(1)

\* A lookup of the host, which may make room: then its last step is to drop the
\* buffer that is the oldest now.  That may be the new one.
HostBuffer(u) ==
    \/ host.evicting = 0 /\ GetBuffer(host.size, u)
    \/ /\ host.evicting = u
       /\ DropOldest
       /\ lost' = (lost \/ temp_buffers[1][1] = host.size)
       /\ UNCHANGED <<capture_buffers, capture_bs, allocs>>

-----------------------------------------------------------------------------
(* The host: one forward pass at a time, layer after layer.                *)

At(where)   == host.at = where
Goes(where) == host' = [host EXCEPT !.at = where]

\* An exception leaves the pass.
Raise == /\ host' = Idle /\ error' = FALSE
         /\ spoiled' = spoiled \cup {host.pass}

\* A pass over a batch begins, eagerly or, once per size, under capture.
Begin(b, capturing) ==
    /\ At("idle") /\ passes < MaxPasses
    /\ capturing => Captures /\ Path \in {"stream", "pinned"} /\ graphs[b] = <<>>
    /\ passes' = passes + 1
    /\ host' = [Idle EXCEPT !.at = "prepare", !.pass = passes + 1, !.size = b, !.capturing = capturing]
    /\ UNCHANGED <<pools, pending_deferred, memory, stream, queue, graphs, error, hist>>

\* A lookup inserts a buffer that is one too many, and goes on to wait.
MakeRoom ==
    /\ host.at \in {"prepare", "sync", "out"} /\ host.evicting = 0
    /\ Overflows(host.size)
    /\ \E u \in Buffers :
        /\ Allocate(host.size, u)
        /\ host' = [host EXCEPT !.evicting = u]
    /\ UNCHANGED <<pending_deferred, memory, stream, queue, graphs, error, passes, hist>>

\* _prepare_forward_cpu_buffers: find the buffer, start the copies.
Prepare ==
    /\ At("prepare")
    /\ \E u \in Buffers :
        /\ HostBuffer(u)
        /\ host' = [host EXCEPT !.at = IF Path = "pinned" THEN "callback" ELSE "now", !.buf = u,
                                !.evicting = 0]
        /\ Enqueue(<<CopyIn(u, host.pass, host.layer)>>)
    /\ UNCHANGED <<pending_deferred, memory, queue, error, passes, hist>>

\* The immediate task, by the path's way of submitting.  On the host's way the
\* copies must be over.
CopiedIn == DeviceDone

SubmitNow ==
    /\ At("now")
    /\ LET t == Immediate(host.buf, host.pass, host.layer)
       IN  IF Path = "stream"
           THEN Enqueue(<<Callback(t)>>) /\ UNCHANGED queue
           ELSE CopiedIn /\ queue' = Append(queue, t) /\ UNCHANGED <<stream, graphs>>
    /\ error => host.capturing
    /\ pending_deferred' = [pending_deferred EXCEPT ![host.layer] = FALSE]
    /\ host' = [host EXCEPT !.at = IF host.layer \in Deferring THEN "later" ELSE "sync"]
    /\ UNCHANGED <<pools, memory, error, passes, hist>>

\* The deferred task.  forward_on_pinned_buffers looks whether there is a
\* deferred expert at all, and uses the stream for it; the flag tells the next
\* layer to add.  Mutant: the flag is not set.
FlagForgotten == UNCHANGED pending_deferred
FlagDeferred  == pending_deferred' = [pending_deferred EXCEPT ![host.layer] = TRUE]

SubmitLater ==
    /\ At("later")
    /\ LET t == Deferred(host.buf, host.pass, host.layer)
       IN  IF Path \in {"stream", "filled"}
           THEN Enqueue(<<Callback(t)>>) /\ UNCHANGED queue
           ELSE CopiedIn /\ queue' = Append(queue, t) /\ UNCHANGED <<stream, graphs>>
    /\ error => host.capturing
    /\ FlagDeferred
    /\ deferrals' = deferrals \cup {<<host.pass, host.layer>>}
    /\ Goes("sync")
    /\ UNCHANGED <<pools, memory, error, passes, spoiled>>
SkipLater ==
    /\ At("later") /\ Path = "filled"
    /\ Goes("sync")
    /\ UNCHANGED <<pools, pending_deferred, memory, stream, queue, graphs, error, passes, hist>>

\* sync_forward: wait for the layer's immediate task, in the stream or here.
\* The buffer is looked up again.
SyncForward ==
    /\ At("sync")
    /\ LET n == AllowPending(pending_deferred[host.layer]) IN
       \E u \in Buffers :
        /\ HostBuffer(u)
        /\ host' = [host EXCEPT !.at = "out", !.buf = u, !.evicting = 0]
        /\ IF Path = "stream"
           THEN /\ error => host.capturing
                /\ Enqueue(<<Sync(u, host.pass, host.layer, n)>>)
           ELSE /\ Path \in {"npu", "filled"} => DeviceDone
                /\ Len(queue) <= n /\ ~error
                /\ UNCHANGED <<stream, graphs>>
    /\ UNCHANGED <<pending_deferred, memory, queue, error, passes, hist>>

\* A pending exception is raised instead: on the stream's way after the device
\* and the queue are done, by submit and sync after the queue is done.  A lookup
\* that makes room raises it after both; the new buffer stays.
Raises ==
    /\ error /\ ~host.capturing
    /\ \/ host.evicting # 0 /\ Drained
       \/ /\ At("now") \/ At("later")
          /\ IF Path = "stream" \/ (Path = "filled" /\ At("later")) THEN Drained
             ELSE CopiedIn /\ queue = <<>>
       \/ /\ At("sync") /\ host.evicting = 0
          /\ IF Path = "stream" THEN Drained
             ELSE /\ Path \in {"npu", "filled"} => DeviceDone
                  /\ queue = <<>>
    /\ Raise
    /\ UNCHANGED <<pools, pending_deferred, memory, stream, queue, graphs, passes, deferrals>>

\* The whole layer as one host callback (copy_inputs_to_cpu_buffers, then
\* _launch_host_func of run_pinned_forward_sync).
LaunchPinned ==
    /\ At("callback")
    /\ Enqueue(<<WholeLayer(host.buf, host.pass, host.layer)>>)
    /\ Goes("out")
    /\ UNCHANGED <<pools, pending_deferred, memory, queue, error, passes, hist>>

\* copy_forward_output_to_device, and on to the next layer.
CopyOutput ==
    /\ At("out")
    /\ \E u \in Buffers :
        /\ HostBuffer(u)
        /\ Enqueue(<<CopyOut(u, host.pass, host.layer)>>)
        /\ host' = IF host.layer + 1 \in LayerSet
                   THEN [host EXCEPT !.at = "prepare", !.layer = @ + 1, !.evicting = 0]
                   ELSE Idle
    /\ UNCHANGED <<pending_deferred, memory, queue, error, passes, hist>>

\* A captured pass is replayed on new data.
Replay(b) ==
    /\ At("idle") /\ passes < MaxPasses
    /\ graphs[b] # <<>>
    /\ passes' = passes + 1
    /\ LET again == [i \in DOMAIN graphs[b] |-> [graphs[b][i] EXCEPT !.pass = passes + 1]]
       IN  /\ stream' = stream \o again
           /\ deferrals' = deferrals \cup
                {<<passes + 1, again[i].layer>> : i \in {j \in DOMAIN again : again[j].what = "later"}}
    /\ UNCHANGED <<pools, pending_deferred, memory, host, queue, graphs, error, spoiled>>

\* set_capture_batch_sizes, and clear_buffer_cache between two passes.
\* Mutant: the cache is cleared without waiting.
SetCaptureBatchSizes(bs) ==
    /\ At("idle") /\ Captures /\ capture_bs # bs
    /\ capture_bs' = bs
    /\ UNCHANGED <<temp_buffers, capture_buffers, allocs, lost, pending_deferred, memory, host,
                   stream, queue, graphs, error, passes, hist>>

\* The pinned path's callbacks that the stream has still to do are not waited for.
ClearTemp ==
    /\ temp_buffers' = <<>> /\ UNCHANGED capture_buffers
    /\ lost' = (lost \/ \E i \in DOMAIN stream : stream[i].what = "pinned")
ClearBufferCache ==
    /\ Clears /\ At("idle") /\ temp_buffers # <<>>
    /\ Cuda => DeviceDone
    /\ queue = <<>>
    /\ IF error THEN error' = FALSE /\ UNCHANGED <<temp_buffers, capture_buffers, lost>>
       ELSE ClearTemp /\ UNCHANGED error
    /\ UNCHANGED <<capture_bs, allocs, pending_deferred, memory, host, stream, queue, graphs,
                   passes, hist>>

-----------------------------------------------------------------------------
(* The accelerator does the first operation of the stream.                 *)

StreamStep ==
    /\ stream # <<>>
    /\ LET op == Head(stream) IN
       \/ /\ op.what = "in"
          /\ input' = [input EXCEPT ![op.buf][SlotOf(op.layer)] = <<op.pass, op.layer>>]
          /\ stream' = Tail(stream)
          /\ UNCHANGED <<output, queue, pools, pending_deferred, deferrals>>
       \/ /\ op.what \in {"now", "later"}
          /\ queue' = Append(queue, TaskOf(op))
          /\ stream' = Tail(stream)
          /\ UNCHANGED <<memory, pools, pending_deferred, deferrals>>
       \/ /\ op.what = "sync" /\ Len(queue) <= op.allow /\ (error => queue = <<>>)
          /\ stream' = Tail(stream)
          /\ UNCHANGED <<memory, queue, pools, pending_deferred, deferrals>>
       \/ /\ op.what = "out"
          /\ stream' = Tail(stream)
          /\ UNCHANGED <<memory, queue, pools, pending_deferred, deferrals>>
       \* run_pinned_forward_sync: submit one task or two, then wait
       \/ /\ op.what = "pinned" /\ ~error
          /\ \E u \in Buffers, later \in BOOLEAN :
              /\ GetBuffer(op.size, u)
              /\ later => op.layer \in Deferring
              /\ queue' = queue \o <<Immediate(u, op.pass, op.layer)>> \o
                          (IF later THEN <<Deferred(u, op.pass, op.layer)>> ELSE <<>>)
              /\ pending_deferred' = [pending_deferred EXCEPT ![op.layer] = later]
              /\ deferrals' = IF later THEN deferrals \cup {<<op.pass, op.layer>>} ELSE deferrals
              /\ stream' = <<[op EXCEPT !.what = "wait", !.allow = AllowPending(later)]>> \o Tail(stream)
          /\ UNCHANGED memory
       \* or hang: it has to make room, and waits for the device from a callback
       \* of the device
       \/ /\ op.what = "pinned" /\ Overflows(op.size)
          /\ \E u \in Buffers : Allocate(op.size, u)
          /\ stream' = <<[op EXCEPT !.what = "stuck"]>> \o Tail(stream)
          /\ UNCHANGED <<memory, queue, pending_deferred, deferrals>>
       \/ /\ op.what = "wait" /\ Len(queue) <= op.allow /\ ~error
          /\ stream' = Tail(stream)
          /\ UNCHANGED <<memory, queue, pools, pending_deferred, deferrals>>
    /\ UNCHANGED <<host, graphs, error, passes, spoiled>>

\* The exception of an earlier task, or of the layer's own, is raised inside
\* the callback, by submit or by sync.
PinnedRaises ==
    /\ stream # <<>> /\ error /\ queue = <<>>
    /\ LET op == Head(stream) IN
        /\ \/ op.what = "pinned" /\ \E u \in Buffers : GetBuffer(op.size, u)
           \/ op.what = "wait" /\ UNCHANGED pools
        /\ spoiled' = spoiled \cup {op.pass}
    /\ stream' = Tail(stream) /\ error' = FALSE
    /\ UNCHANGED <<pending_deferred, memory, host, queue, graphs, passes, deferrals>>

\* The worker runs the first task of the queue on the input it finds.
Result(t) == <<t.kind, input[t.buf][SlotOf(t.layer)]>>
RunTask ==
    /\ queue # <<>>
    /\ LET t == Head(queue) IN
       \/ /\ output' = [output EXCEPT ![t.buf][t.into] =
                            (IF t.incremental THEN @ ELSE {}) \cup {Result(t)}]
          /\ UNCHANGED <<error, spoiled>>
       \/ /\ Failing /\ UNCHANGED output
          /\ error' = TRUE /\ spoiled' = spoiled \cup {t.pass}
    /\ queue' = Tail(queue)
    /\ UNCHANGED <<pools, pending_deferred, input, host, stream, graphs, passes, deferrals>>

-----------------------------------------------------------------------------
HostStep == \/ MakeRoom \/ Prepare \/ SubmitNow \/ SubmitLater \/ SkipLater \/ SyncForward
            \/ Raises \/ LaunchPinned \/ CopyOutput

Next ==
    /\ \/ HostStep \/ StreamStep \/ PinnedRaises \/ RunTask
       \/ \E b \in BatchSizes : Replay(b) \/ \E c \in BOOLEAN : Begin(b, c)
       \/ \E bs \in SUBSET BatchSizes : SetCaptureBatchSizes(bs)
       \/ ClearBufferCache
    /\ UNCHANGED setup

\* clear_buffer_cache waits for the queue while a callback of the pinned path
\* may enqueue: it can take the worker's wake-up (AnySyncEnds of TaskQueue).
WakeUpsMayBeLost == Path = "pinned" /\ Clears

\* The host thread goes on with a pass it has begun, the stream and the worker,
\* if it is woken, go on while they have something to do.
Runs(A)  == A /\ UNCHANGED setup
Fairness == /\ WF_vars(Runs(HostStep)) /\ WF_vars(Runs(StreamStep \/ PinnedRaises))
            /\ WF_vars(Runs(RunTask /\ ~WakeUpsMayBeLost))
Spec == Init /\ [][Next]_vars /\ Fairness

-----------------------------------------------------------------------------
(* Properties.                                                             *)

Token == {Nothing} \cup (Passes \X LayerSet)
TaskType == [kind : {"now", "later"}, buf : Buffers, pass : Passes, layer : LayerSet,
             into : Slots, incremental : BOOLEAN]

\* The variables have the types their comments say.
TypeOK ==
    /\ \A i \in DOMAIN temp_buffers : temp_buffers[i] \in BatchSizes \X Buffers
    /\ capture_buffers \in [BatchSizes -> Buffers \cup {0}]
    /\ capture_bs \subseteq BatchSizes
    /\ pending_deferred \in [LayerSet -> BOOLEAN]
    /\ input \in [Buffers -> [Slots -> Token]]
    /\ output \in [Buffers -> [Slots -> SUBSET ({"now", "later"} \X Token)]]
    /\ \A i \in DOMAIN queue : queue[i] \in TaskType
    /\ {error, lost} \subseteq BOOLEAN /\ passes \in 0 .. MaxPasses /\ allocs \in 0 .. MaxBuffers

\* A task in the queue finds the input of its own pass and layer until it is
\* over: no later layer's copy gets into the slot (_prepare_forward_cpu_buffers
\* uses a slot again after two layers, while a deferred task may be pending).
\* A task left over from a pass that ended in an exception is not meant, nor is
\* what comes after a buffer was lost that a callback is going to look up.
InputsStable ==
    ~lost => \A i \in DOMAIN queue :
        LET t == queue[i] IN
        t.pass \notin spoiled => input[t.buf][SlotOf(t.layer)] = <<t.pass, t.layer>>

\* What the copy back to the device must find in the slot, as long as it runs:
\* the layer's own result and the previous layer's deferred one, of this pass,
\* and nothing else (sync_forward and incremental of submit_forward).
OutputComplete ==
    ~lost /\ stream # <<>> /\ Head(stream).what = "out" /\ Head(stream).pass \notin spoiled =>
        LET op   == Head(stream)
            p    == op.pass
            l    == op.layer
            late == IF <<p, l - 1>> \in deferrals THEN {<<"later", <<p, l - 1>>>>} ELSE {}
        IN  output[op.buf][SlotOf(l)] = {<<"now", <<p, l>>>>} \cup late

\* Whoever still holds a raw pointer (a task, a callback of the stream, a
\* captured graph) holds one into a buffer that was not dropped
\* (_evict_oldest_temp_buffer and clear_buffer_cache).
Holders == {queue[i].buf : i \in DOMAIN queue} \cup
           {stream[i].buf : i \in {j \in DOMAIN stream : stream[j].what \in {"now", "later"}}} \cup
           UNION {{graphs[b][i].buf : i \in {j \in DOMAIN graphs[b] : graphs[b][j].what # "sync"}} :
                    b \in BatchSizes}
NoDangling == Holders \subseteq Kept

\* A pass the host has begun ends, in a result or an exception, and what it
\* has put in the stream and the queue is done, unless a callback has lost its
\* buffer, or the worker may have lost its wake-up.
PassEnds == (host.at # "idle") ~> (host.at = "idle" \/ lost \/ WakeUpsMayBeLost)
Drains   == (~Drained) ~> (Drained \/ lost \/ WakeUpsMayBeLost)

\* Only the callbacks of the pinned path can make a buffer go that something
\* will look up, unless there is no room for any (KT_MAX_TEMP_BUFFER_SIZES=0).
LostOnlyPinned == lost => Path = "pinned" \/ MaxTemp = 0

\* The buffers in every state: slots and flags are in range, no buffer is lost
\* but on the pinned path, and no pointer into a buffer outlives it, also when
\* one was lost there.
BuffersInv == TypeOK /\ LostOnlyPinned /\ (NoDangling \/ (lost /\ MaxTemp = 0))

\* No pass and no stream waits for ever, also when tasks fail or buffers have
\* to go first.
Progress == PassEnds /\ Drains
=============================================================================
