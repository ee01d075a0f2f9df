------------------------------ MODULE CpuInfer ------------------------------
(***************************************************************************)
(* The entry points of kt-kernel/cpu_backend/cpuinfer.h, through which one *)
(* Python thread hands tasks to the CPU: directly (submit, sync) or as     *)
(* host callbacks on a CUDA stream (submit_with_cuda_stream,               *)
(* sync_with_cuda_stream), which a stream under capture records in a graph *)
(* that is replayed later.                                                 *)
(*                                                                         *)
(* Every call is a number; the number stands for its arguments, which have *)
(* to be freed once, by the guard of the call, by the callback, or never,  *)
(* when a graph holds them.  The task queue is what TaskQueue.tla shows it *)
(* to be: a FIFO whose first failure is latched.                           *)
(***************************************************************************)
EXTENDS Integers, Sequences, SequencesExt

CONSTANTS
    Setups,     \* the runtimes and clients to look at
    MaxCalls    \* bound on the calls with arguments

VARIABLE setup
Queries    == setup.queries     \* whether the runtime can tell that a stream is captured
Faults     == setup.faults      \* what may fail
MaxReplays == setup.replays     \* bound on the replays of the graph
Direct     == setup.direct      \* the client also submits and syncs directly

ASSUME CpuInferAssumption ==
    /\ MaxCalls \in Nat
    /\ \A s \in Setups :
          /\ s.queries \in BOOLEAN /\ s.replays \in Nat /\ s.direct \in BOOLEAN
          /\ s.faults \subseteq {"query", "launch", "alloc", "device", "func"}

Calls == 1..MaxCalls
Kinds == {"submit", "submit_stream", "sync_stream"}

VARIABLES
    pc,         \* where the calling thread is
    calls,      \* number of the latest call with arguments
    kind,       \* the entry point of each call
    capturing,  \* what each stream call takes the stream for
    allow,      \* allow_n_pending of each sync call
    args,       \* "none", "live", "freed" or "twice"
    captured,   \* the stream is under capture
    graph,      \* the callbacks the graph holds
    replays,
    stream,     \* the callbacks launched and not yet over, oldest first
    waited,     \* the sync callback at the head has waited once
    queue,      \* the tasks pending, the running one first
    asleep,     \* the worker sleeps although a task is pending
    first,      \* the call whose failure is latched, or 0
    slipped,    \* history: eager calls that returned normally since the latch
    raised      \* history: the latest stream call raised after a full drain

caller == <<calls, kind, capturing, allow>>
vars == <<pc, caller, args, captured, graph, replays, stream, waited, queue,
          asleep, first, slipped, raised, setup>>

Init ==
    /\ setup \in Setups
    /\ pc = "idle" /\ calls = 0
    /\ kind = [c \in Calls |-> "submit"]
    /\ capturing = [c \in Calls |-> FALSE]
    /\ allow = [c \in Calls |-> 0]
    /\ args = [c \in Calls |-> "none"]
    /\ captured = FALSE /\ graph = <<>> /\ replays = 0
    /\ stream = <<>> /\ waited = FALSE
    /\ queue = <<>> /\ asleep = FALSE /\ first = 0
    /\ slipped = 0 /\ raised = FALSE

Freed(a, c) == [a EXCEPT ![c] = IF @ = "live" THEN "freed" ELSE "twice"]

\* record_exception, and the worker: the first failure wins.
Latch(c) == first' = IF first = 0 THEN c ELSE first

\* A call that did not see a capture returns normally.
Returns ==
    /\ pc' = "idle"
    /\ slipped' = IF first # 0 /\ ~capturing[calls] THEN slipped + 1 ELSE slipped

-----------------------------------------------------------------------------
(* Entry points *)

\* Mutant: a query that fails leaves the caller's hint.
CaptureStateHint(hint, ok) == IF ok THEN captured ELSE hint
CaptureState(hint, ok)     == IF ok THEN captured ELSE TRUE

\* stream_capture_active.  Where the runtime cannot tell, the caller's word
\* is taken; it is what the stream is, or the default, TRUE.
Captures ==
    IF Queries
      THEN {capt \in BOOLEAN :
              \E hint \in BOOLEAN, ok \in IF "query" \in Faults THEN BOOLEAN ELSE {TRUE} :
                 capt = CaptureState(hint, ok)}
      ELSE {captured, TRUE}

\* Mutant: sync_with_cuda_stream does not look for a failure.
LooksFirstSubmits(k, capt) == ~capt /\ first # 0 /\ k # "sync_stream"
LooksFirst(k, capt)        == ~capt /\ first # 0

\* A call begins: the state of the stream is asked for, and a failure that
\* is pending sends the call to a drain, and then out: the guard frees the
\* arguments.
Begin(k, capt, n) ==
    /\ pc = "idle" /\ calls < MaxCalls
    /\ calls' = calls + 1
    /\ kind' = [kind EXCEPT ![calls + 1] = k]
    /\ capturing' = [capturing EXCEPT ![calls + 1] = capt]
    /\ allow' = [allow EXCEPT ![calls + 1] = n]
    /\ IF LooksFirst(k, capt)
         THEN /\ pc' = IF k = "submit" THEN "drain_queue" ELSE "drain"
              /\ args' = IF k = "sync_stream" THEN args
                           ELSE [args EXCEPT ![calls + 1] = "freed"]
         ELSE /\ pc' = "ready"
              /\ args' = [args EXCEPT ![calls + 1] =
                            IF k = "sync_stream" THEN "none" ELSE "live"]
    /\ raised' = FALSE
    /\ UNCHANGED <<captured, graph, replays, stream, waited, queue, first, slipped>>

BeginSubmit     == Direct /\ Begin("submit", FALSE, 0)
BeginStreamCall ==
    \E k \in {"submit_stream", "sync_stream"}, capt \in Captures, n \in {0, 1} :
        (k = "submit_stream" => n = 0) /\ Begin(k, capt, n)

\* The function of a direct submission puts its task in the queue; the
\* guard frees the arguments.
Submit ==
    /\ pc = "ready" /\ kind[calls] = "submit"
    /\ args' = Freed(args, calls)
    /\ \/ queue' = Append(queue, calls) /\ Returns
       \/ "func" \in Faults /\ pc' = "idle" /\ UNCHANGED <<queue, slipped>>
    /\ UNCHANGED <<caller, captured, graph, replays, stream, waited, first, raised>>

\* A stream under capture records the callback, another one will run it.
Launch ==
    /\ pc = "ready" /\ kind[calls] # "submit"
    /\ args' = [args EXCEPT ![calls] = "live"]
    /\ IF captured
         THEN graph' = Append(graph, calls) /\ UNCHANGED stream
         ELSE stream' = Append(stream, calls) /\ UNCHANGED graph
    /\ Returns
    /\ UNCHANGED <<caller, captured, replays, waited, queue, first, raised>>

\* Mutant: the guard is released before the launch is known to have worked.
LaunchFailsReleased ==
    /\ "launch" \in Faults
    /\ pc = "ready" /\ kind[calls] # "submit"
    /\ pc' = IF capturing[calls] THEN "idle" ELSE "drain"
    /\ UNCHANGED <<caller, args, captured, graph, replays, stream, waited, queue,
                   first, slipped, raised>>

LaunchFails ==
    /\ "launch" \in Faults
    /\ pc = "ready" /\ kind[calls] # "submit"
    /\ args' = [args EXCEPT ![calls] = "freed"]
    /\ pc' = IF capturing[calls] THEN "idle" ELSE "drain"
    /\ UNCHANGED <<caller, captured, graph, replays, stream, waited, queue,
                   first, slipped, raised>>

\* The record of the callback cannot be allocated.  The sync call drains the
\* stream before it fails, the submission only frees its task.
AllocFails ==
    /\ "alloc" \in Faults
    /\ pc = "ready" /\ kind[calls] # "submit"
    /\ args' = IF kind[calls] = "submit_stream" THEN Freed(args, calls) ELSE args
    /\ pc' = IF kind[calls] = "sync_stream" /\ ~capturing[calls] THEN "drain" ELSE "idle"
    /\ UNCHANGED <<caller, captured, graph, replays, stream, waited, queue,
                   first, slipped, raised>>

\* synchronize_and_rethrow and synchronize_all_and_rethrow, called by the
\* client outside a capture.
Synchronize ==
    /\ pc = "idle" /\ ~captured
    /\ pc' = "drain"
    /\ raised' = FALSE
    /\ UNCHANGED <<caller, args, captured, graph, replays, stream, waited, queue,
                   first, slipped>>

\* Mutant: the device is not waited for.
DeviceSyncSkipped ==
    /\ pc = "drain"
    /\ pc' = "drain_all"
    /\ UNCHANGED <<caller, args, captured, graph, replays, stream, waited, queue,
                   first, slipped, raised>>

\* cudaDeviceSynchronize: every callback launched is over, unless it fails.
DeviceSync ==
    /\ pc = "drain"
    /\ \/ stream = <<>> /\ pc' = "drain_all"
       \/ "device" \in Faults /\ pc' = "drain_queue"
    /\ UNCHANGED <<caller, args, captured, graph, replays, stream, waited, queue,
                   first, slipped, raised>>

\* TaskQueue::sync(0), which takes the failure; the call raises it, or the
\* failure it drains for, or, when there is none, returns.
QueueSync ==
    /\ pc \in {"drain_queue", "drain_all"}
    /\ queue = <<>>
    /\ first' = 0 /\ slipped' = 0
    /\ raised' = (pc = "drain_all" /\ first # 0)
    /\ pc' = "idle"
    /\ UNCHANGED <<caller, args, captured, graph, replays, stream, waited, queue>>

\* The entry point sync waits for at most n tasks, and when a failure is
\* latched by then for all; then it takes the failure.
Sync(n) ==
    /\ pc = "idle" /\ Direct
    /\ pc' = IF n = 0 THEN "sync_0" ELSE "sync_1"
    /\ raised' = FALSE
    /\ UNCHANGED <<caller, args, captured, graph, replays, stream, waited, queue,
                   first, slipped>>

Syncing     == {"sync_0", "sync_1"}
SyncAllows  == IF pc = "sync_1" /\ first = 0 THEN 1 ELSE 0
SyncReturns ==
    /\ pc \in Syncing /\ Len(queue) <= SyncAllows
    /\ pc' = "idle"
    /\ first' = 0 /\ slipped' = 0
    /\ UNCHANGED <<caller, args, captured, graph, replays, stream, waited, queue, raised>>

-----------------------------------------------------------------------------
(* The graph, the stream and the worker *)

BeginCapture ==
    /\ pc = "idle" /\ ~captured /\ graph = <<>>
    /\ captured' = TRUE
    /\ UNCHANGED <<pc, caller, args, graph, replays, stream, waited, queue, first,
                   slipped, raised>>

EndCapture ==
    /\ pc = "idle" /\ captured
    /\ captured' = FALSE
    /\ UNCHANGED <<pc, caller, args, graph, replays, stream, waited, queue, first,
                   slipped, raised>>

Replay ==
    /\ pc = "idle" /\ ~captured /\ graph # <<>> /\ replays < MaxReplays
    /\ replays' = replays + 1
    /\ stream' = stream \o graph
    /\ raised' = FALSE
    /\ UNCHANGED <<pc, caller, args, captured, graph, waited, queue, first, slipped>>

\* Mutant: the arguments are freed after every callback.
AutofreeAlways(c) == TRUE
Autofree(c)       == ~capturing[c]

AfterCallback(c) ==
    /\ args' = IF Autofree(c) THEN Freed(args, c) ELSE args
    /\ stream' = Tail(stream)

\* submit_: the function queues the task, or fails and is recorded.
SubmitCallback ==
    /\ stream # <<>> /\ kind[Head(stream)] = "submit_stream"
    /\ \/ queue' = Append(queue, Head(stream)) /\ UNCHANGED first
       \/ "func" \in Faults /\ Latch(Head(stream)) /\ UNCHANGED queue
    /\ AfterCallback(Head(stream))
    /\ UNCHANGED <<pc, caller, captured, graph, replays, waited, slipped, raised>>

\* The number of tasks that the sync callback at the head waits for.
CallbackAllows == IF waited THEN 0 ELSE allow[Head(stream)]

\* Mutant: fewer tasks have to be pending than are allowed.
SyncCallbackStrict ==
    /\ stream # <<>> /\ kind[Head(stream)] = "sync_stream"
    /\ Len(queue) < CallbackAllows
    /\ waited' = FALSE /\ AfterCallback(Head(stream))
    /\ UNCHANGED <<pc, caller, captured, graph, replays, queue, first, slipped, raised>>

\* sync_: it waits, and if a failure is latched by then it waits for all.
SyncCallback ==
    /\ stream # <<>> /\ kind[Head(stream)] = "sync_stream"
    /\ Len(queue) <= CallbackAllows
    /\ IF ~waited /\ allow[Head(stream)] > 0 /\ first # 0
         THEN waited' = TRUE /\ UNCHANGED <<args, stream>>
         ELSE waited' = FALSE /\ AfterCallback(Head(stream))
    /\ UNCHANGED <<pc, caller, captured, graph, replays, queue, first, slipped, raised>>

\* The worker of the task queue; the outcome and the count change together.
RunTask ==
    /\ queue # <<>> /\ ~asleep
    /\ queue' = Tail(queue)
    /\ UNCHANGED first \/ Latch(Head(queue))
    /\ UNCHANGED <<pc, caller, args, captured, graph, replays, stream, waited,
                   slipped, raised>>

\* A thread that sleeps in a sync after the step: the host or the driver.
HostSleeps     == \/ pc \in Syncing /\ Len(queue') > SyncAllows
                  \/ pc \in {"drain_queue", "drain_all"}
CallbackSleeps == /\ stream # <<>> /\ kind[Head(stream)] = "sync_stream"
                  /\ Len(queue') > CallbackAllows

\* The step that enqueues a task wakes one sleeper of the queue's condition
\* variable, which need not be the worker: a sync that has seen the task
\* counted, before it was linked, sleeps there as well, and goes on sleeping.
\* A worker that was not woken sleeps until the next notify reaches it, or
\* wakes up for no reason.
NotifyOne ==
    IF Len(queue') > Len(queue)
      THEN asleep' \in IF (asleep \/ queue = <<>>) /\ (HostSleeps \/ CallbackSleeps)
                         THEN BOOLEAN ELSE {FALSE}
      ELSE asleep' \in {asleep, FALSE}

CallerStep ==
    \/ Submit \/ Launch \/ LaunchFails \/ AllocFails
    \/ DeviceSync \/ QueueSync \/ SyncReturns

Client ==
    \/ BeginSubmit \/ BeginStreamCall \/ Synchronize
    \/ BeginCapture \/ EndCapture \/ Replay
    \/ \E n \in {0, 1} : Sync(n)

StreamStep == SubmitCallback \/ SyncCallback

Next ==
    /\ CallerStep \/ Client \/ StreamStep \/ RunTask
    /\ NotifyOne
    /\ UNCHANGED setup

Runs(A) == A /\ NotifyOne /\ UNCHANGED setup

\* The driver runs the callbacks, the worker runs the tasks while it is awake,
\* and a call that has begun goes on.
Spec ==
    /\ Init /\ [][Next]_vars
    /\ WF_vars(Runs(CallerStep)) /\ WF_vars(Runs(StreamStep)) /\ WF_vars(Runs(RunTask))

-----------------------------------------------------------------------------
(* Properties *)

\* The variables stay in their domains; no arguments are freed twice.
TypeOK ==
    /\ pc \in {"idle", "ready", "drain", "drain_all", "drain_queue"} \cup Syncing
    /\ calls \in 0..MaxCalls
    /\ kind \in [Calls -> Kinds]
    /\ capturing \in [Calls -> BOOLEAN]
    /\ allow \in [Calls -> {0, 1}]
    /\ args \in [Calls -> {"none", "live", "freed"}]
    /\ captured \in BOOLEAN /\ waited \in BOOLEAN /\ raised \in BOOLEAN /\ asleep \in BOOLEAN
    /\ graph \in Seq(Calls) /\ stream \in Seq(Calls) /\ queue \in Seq(Calls)
    /\ replays \in 0..MaxReplays /\ first \in 0..MaxCalls /\ slipped \in Nat

\* No callback that is launched or that a graph may replay has lost its
\* arguments, whatever query, launch or allocation failed before.
RunsLiveArgs ==
    \A c \in Range(stream) \cup Range(graph) : args[c] = "live"

\* Between calls, arguments that are still there are those of a callback
\* that has yet to run or of one a graph holds: none is left behind.  A
\* stream whose state is not known counts as captured, for ever.
NothingLeaks ==
    pc = "idle" /\ Queries /\ "query" \notin Faults => \A c \in Calls :
        args[c] = "live" => c \in Range(stream) \cup Range(graph)

\* A failure may be latched after a call has looked for one.  That call
\* returns normally; the next one made outside a capture does not.
SlipsOnce == slipped <= 1

\* When a stream call has raised the failure of a task and the device
\* answered, no callback and no task is left that could touch the buffers.
RaisedIsDrained == raised => stream = <<>> /\ queue = <<>>

\* A call that has begun ends, however the callbacks, the tasks and the
\* latched failure interleave with its drain.  The exception: a client that
\* mixes direct calls with stream calls, or drains the queue after a device
\* failure while callbacks still run, has one thread enqueue while another
\* syncs, and the wake-up of its task may be lost for ever (enqueue's
\* notify_one).  A client that keeps to the stream never meets this.
Mixes    == Direct \/ "device" \in Faults
CallsEnd == (pc # "idle" ~> pc = "idle") \/ (Mixes /\ <>[]asleep)

\* The arguments of stream callbacks have one owner at any time: they are not
\* freed twice, not freed while a callback or a replay may come, and not left
\* behind.
ArgsInv == TypeOK /\ RunsLiveArgs /\ NothingLeaks

\* A failure of a task surfaces at the next call outside a capture, and when
\* it is raised nothing is left running that could touch the caller's buffers.
FailureSurfaces == SlipsOnce /\ RaisedIsDrained
=============================================================================
