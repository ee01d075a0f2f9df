----------------------------- MODULE TaskQueue ------------------------------
(***************************************************************************)
(* The task queue of CPUInfer: any thread enqueues tasks on a linked list, *)
(* without a lock; one worker thread runs them in order; sync waits until  *)
(* at most a given number is pending and rethrows the first exception of a *)
(* task.  The worker and every waiting sync share one mutex and one        *)
(* condition variable.                                                     *)
(*                                                                         *)
(* Node n of the list is the n-th one that was exchanged into tail (0 is   *)
(* the dummy), and stands for its task too.  A critical section of mtx is  *)
(* one step, except the worker's: it reads a link, which is not written    *)
(* under mtx, and then goes to sleep.                                      *)
(***************************************************************************)
EXTENDS Integers

CONSTANTS
    Clients,    \* the threads that use the queue
    Setups,     \* how they may use it: one setup holds for a whole run
    Allowed,    \* the values of allow_n_pending
    MaxTasks    \* how many tasks are enqueued (a bound of the model)

VARIABLE setup
Enqueuers == setup.enqueuers  \* the threads that call enqueue and record_exception
Syncers   == setup.syncers    \* the threads that call sync and sync_noexcept
Unruly    == setup.unruly     \* tasks and callbacks throw, sleepers wake spuriously

ASSUME TasksAssumption == MaxTasks \in Nat
ASSUME AllowedAssumption == Allowed \subseteq Nat
ASSUME SetupAssumption ==
    Setups \subseteq [enqueuers : SUBSET Clients, syncers : SUBSET Clients, unruly : BOOLEAN]

Worker  == "worker"
ASSUME ClientAssumption == Worker \notin Clients

Nodes == 0 .. MaxTasks
Tasks == 1 .. MaxTasks
Null  == -1

\* Exceptions: of a task, of a host callback, or none.
None     == 0
Callback == MaxTasks + 1

VARIABLES
    \* the members of the queue; head is the worker's curr
    tail, next, done, pending, first_exception,
    \* the worker thread
    wpc, curr, task_exception,
    \* each client: where it is in a call, its prev or allow_n_pending, and
    \* the tasks that were in the queue when it called sync
    pc, prev, allow, before,
    \* the threads asleep on cv; the destructor
    waiting, dtor,
    \* history: the nodes deleted, the tasks that threw, the exceptions that
    \* sync has thrown, and the one that was pending once a task was over
    freed, failed, thrown, latched

list    == <<tail, next, freed>>
workers == <<wpc, curr, task_exception>>
calls   == <<pc, prev, allow, before>>
errors  == <<first_exception, failed, thrown, latched>>
vars == <<setup, list, pending, workers, calls, waiting, errors, done, dtor>>

Init ==
    /\ setup \in Setups
    /\ tail = 0 /\ next = [n \in Nodes |-> Null] /\ freed = {}
    /\ pending = 0 /\ done = FALSE /\ dtor = "none"
    /\ wpc = "loop" /\ curr = 0 /\ task_exception = None
    /\ pc = [c \in Clients |-> "idle"] /\ prev = [c \in Clients |-> 0]
    /\ allow = [c \in Clients |-> 0] /\ before = [c \in Clients |-> 0]
    /\ waiting = {}
    /\ first_exception = None /\ failed = {} /\ thrown = {}
    /\ latched = [t \in Tasks |-> None]

\* The worker holds mtx while it goes to sleep; every other critical section
\* is one step.
MutexFree == wpc # "block"

\* cv.notify_one wakes one sleeper, if there is one.
NotifyOne == \/ waiting = {} /\ UNCHANGED waiting
             \/ \E t \in waiting : waiting' = waiting \ {t}

\* The exception that is pending after e was raised: the first one wins.
\* Mutant: the last one does.
LatchLast(e) == e
Latch(e)     == IF first_exception = None THEN e ELSE first_exception

\* Thread c goes on to at, or leaves its call.
Goes(c, at) == pc' = [pc EXCEPT ![c] = at]
Returns(c)  == /\ Goes(c, "idle") /\ prev' = [prev EXCEPT ![c] = 0]
               /\ allow' = [allow EXCEPT ![c] = 0] /\ before' = [before EXCEPT ![c] = 0]

\* Thread c takes part in calls: the queue is not being destroyed.
Ready(c) == pc[c] = "idle" /\ dtor = "none"

-----------------------------------------------------------------------------
(* enqueue.                                                                *)

\* The task is counted before it is in the list.  Mutant: it is not counted.
EnqueueUncounted(c) ==
    /\ Ready(c) /\ pending + curr < MaxTasks
    /\ Goes(c, "exchange")
    /\ UNCHANGED <<list, pending, workers, prev, allow, before, waiting, errors, done, dtor>>
Enqueue(c) ==
    /\ Ready(c) /\ pending + curr < MaxTasks
    /\ pending' = pending + 1
    /\ Goes(c, "exchange")
    /\ UNCHANGED <<list, workers, prev, allow, before, waiting, errors, done, dtor>>

\* It is put at the end of the list, ...
Exchange(c) ==
    /\ pc[c] = "exchange"
    /\ prev' = [prev EXCEPT ![c] = tail] /\ tail' = tail + 1
    /\ Goes(c, "link")
    /\ UNCHANGED <<next, freed, pending, workers, allow, before, waiting, errors, done, dtor>>

\* ... and linked to the task before it: until then the worker cannot see it.
Link(c) ==
    /\ pc[c] = "link"
    /\ next' = [next EXCEPT ![prev[c]] = prev[c] + 1]
    /\ Goes(c, "fence")
    /\ UNCHANGED <<tail, freed, pending, workers, prev, allow, before, waiting, errors, done, dtor>>

\* The empty critical section.  Mutant: it is left out.
FenceLeftOut(c) ==
    /\ pc[c] = "fence"
    /\ Goes(c, "notify")
    /\ UNCHANGED <<list, pending, workers, prev, allow, before, waiting, errors, done, dtor>>
Fence(c) ==
    /\ pc[c] = "fence" /\ MutexFree
    /\ Goes(c, "notify")
    /\ UNCHANGED <<list, pending, workers, prev, allow, before, waiting, errors, done, dtor>>

Notify(c) ==
    /\ pc[c] = "notify"
    /\ NotifyOne
    /\ Returns(c)
    /\ UNCHANGED <<list, pending, workers, errors, done, dtor>>

\* record_exception, when a host callback could not submit its task.
RecordException(c) ==
    /\ Ready(c) /\ Unruly /\ MutexFree
    /\ first_exception' = Latch(Callback)
    /\ UNCHANGED <<list, pending, workers, calls, waiting, failed, thrown, latched, done, dtor>>

-----------------------------------------------------------------------------
(* sync and sync_noexcept.  A thread whose predicate is false sleeps, and  *)
(* evaluates it again when it has been woken.                              *)

Calls(c, at) == \E n \in Allowed :
    /\ Ready(c)
    /\ allow' = [allow EXCEPT ![c] = n] /\ before' = [before EXCEPT ![c] = tail]
    /\ Goes(c, at)
    /\ UNCHANGED <<list, pending, workers, prev, waiting, errors, done, dtor>>

Sync(c)         == Calls(c, "sync")
SyncNoexcept(c) == Calls(c, "quiet")

\* Thread c has mtx and evaluates a predicate of cv.wait.
Evaluates(c, at) == pc[c] = at /\ c \notin waiting /\ MutexFree

\* Mutant: an off-by-one.
FewLeft(n)    == pending < n + 1 + 1
FewPending(n) == pending <= n

Sleeps(c) ==
    /\ waiting' = waiting \cup {c}
    /\ UNCHANGED <<list, pending, workers, calls, errors, done, dtor>>

\* sync ends: it takes the pending exception and throws it, if there is one.
SyncReturn(c) ==
    /\ Returns(c)
    /\ first_exception' = None
    /\ thrown' = IF first_exception = None THEN thrown ELSE thrown \cup {first_exception}
    /\ UNCHANGED <<list, pending, workers, waiting, failed, latched, done, dtor>>

\* sync lets all tasks end before it throws.  Mutant: it does not.
DrainsNever == FALSE
MustDrain   == first_exception # None /\ pending > 0 /\ ~done

SyncWait(c) ==
    /\ Evaluates(c, "sync")
    /\ \/ ~FewPending(allow[c]) /\ ~done /\ Sleeps(c)
       \/ /\ FewPending(allow[c]) \/ done
          /\ ~MustDrain /\ SyncReturn(c)
       \/ /\ FewPending(allow[c]) \/ done
          /\ MustDrain
          /\ Goes(c, "drain") /\ waiting' = waiting \cup {c}
          /\ UNCHANGED <<list, pending, workers, prev, allow, before, errors, done, dtor>>

SyncDrain(c) ==
    /\ Evaluates(c, "drain")
    /\ \/ pending # 0 /\ ~done /\ Sleeps(c)
       \/ (pending = 0 \/ done) /\ SyncReturn(c)

\* wait_for_pending in sync_noexcept, which looks for an exception only when
\* it has let tasks pending.
QuietWait(c) ==
    /\ Evaluates(c, "quiet")
    /\ \/ ~FewPending(allow[c]) /\ ~done /\ Sleeps(c)
       \/ /\ FewPending(allow[c]) \/ done
          /\ IF allow[c] = 0 THEN Returns(c) ELSE Goes(c, "quiet_check") /\ UNCHANGED <<prev, allow, before>>
          /\ UNCHANGED <<list, pending, workers, waiting, errors, done, dtor>>

\* has_pending_exception: then all tasks have to end.
QuietCheck(c) ==
    /\ pc[c] = "quiet_check" /\ MutexFree
    /\ IF first_exception = None THEN Returns(c)
       ELSE Goes(c, "quiet") /\ allow' = [allow EXCEPT ![c] = 0] /\ UNCHANGED <<prev, before>>
    /\ UNCHANGED <<list, pending, workers, waiting, errors, done, dtor>>

-----------------------------------------------------------------------------
(* The worker thread.                                                      *)

Awake == Worker \notin waiting

\* The head of the loop, and the predicate of the worker's wait: leave, take
\* the next task, or go to sleep with mtx held.
WorkerLoop ==
    /\ wpc = "loop" /\ Awake
    /\ wpc' = IF done THEN "exited" ELSE IF next[curr] # Null THEN "run" ELSE "block"
    /\ UNCHANGED <<list, pending, curr, task_exception, calls, waiting, errors, done, dtor>>

WorkerSleep ==
    /\ wpc = "block"
    /\ waiting' = waiting \cup {Worker} /\ wpc' = "loop"
    /\ UNCHANGED <<list, pending, curr, task_exception, calls, errors, done, dtor>>

\* The node the worker deletes.  Mutant: the one whose task it has run.
FreedAfterRun == next[curr]
FreedNode     == curr

\* The task returns or throws; the worker moves on to its node.
WorkerRun ==
    /\ wpc = "run"
    /\ \/ task_exception' = None /\ UNCHANGED failed
       \/ Unruly /\ task_exception' = next[curr] /\ failed' = failed \cup {next[curr]}
    /\ freed' = freed \cup {FreedNode} /\ curr' = next[curr]
    /\ wpc' = "record"
    /\ UNCHANGED <<tail, next, pending, calls, waiting, first_exception, thrown, latched, done, dtor>>

\* Its exception is latched before the task stops being pending.
WorkerRecord ==
    /\ wpc = "record"
    /\ first_exception' = IF task_exception = None THEN first_exception ELSE Latch(task_exception)
    /\ latched' = [latched EXCEPT ![curr] = first_exception']
    /\ pending' = pending - 1
    /\ wpc' = "notify"
    /\ UNCHANGED <<list, curr, task_exception, calls, waiting, failed, thrown, done, dtor>>

\* cv.notify_all.  Mutant: nobody is woken.
WorkerNotifyNobody ==
    /\ wpc = "notify" /\ wpc' = "loop"
    /\ UNCHANGED <<list, pending, curr, task_exception, calls, waiting, errors, done, dtor>>
WorkerNotify ==
    /\ wpc = "notify"
    /\ waiting' = {} /\ wpc' = "loop"
    /\ UNCHANGED <<list, pending, curr, task_exception, calls, errors, done, dtor>>

-----------------------------------------------------------------------------
(* The destructor, which no other call overlaps.                           *)

Destroy ==
    /\ dtor = "none" /\ MutexFree /\ \A c \in Clients : pc[c] = "idle"
    /\ done' = TRUE /\ dtor' = "notify"
    /\ UNCHANGED <<list, pending, workers, calls, waiting, errors>>

\* Mutant: the worker is not woken.
DestroySilent ==
    /\ dtor = "notify" /\ dtor' = "join"
    /\ UNCHANGED <<list, pending, workers, calls, waiting, errors, done>>
DestroyNotify ==
    /\ dtor = "notify"
    /\ waiting' = {} /\ dtor' = "join"
    /\ UNCHANGED <<list, pending, workers, calls, errors, done>>

\* The nodes from head on.
Chain == {n \in Nodes : n >= curr /\ \A m \in Nodes : m >= curr /\ m < n => next[m] # Null}

DestroyJoin ==
    /\ dtor = "join" /\ wpc = "exited"
    /\ freed' = freed \cup Chain /\ dtor' = "over"
    /\ UNCHANGED <<tail, next, pending, workers, calls, waiting, errors, done>>

\* cv.wait may return without a notification.
SpuriousWake ==
    /\ Unruly /\ \E t \in waiting : waiting' = waiting \ {t}
    /\ UNCHANGED <<list, pending, workers, calls, errors, done, dtor>>

-----------------------------------------------------------------------------
EnqueueStep(c) == Exchange(c) \/ Link(c) \/ Fence(c) \/ Notify(c)
SyncStep(c)    == SyncWait(c) \/ SyncDrain(c) \/ QuietWait(c) \/ QuietCheck(c)
WorkerStep     == WorkerLoop \/ WorkerSleep \/ WorkerRun \/ WorkerRecord \/ WorkerNotify
DestroyStep    == DestroyNotify \/ DestroyJoin

Next ==
    /\ \/ \E c \in Enqueuers : Enqueue(c) \/ RecordException(c) \/ EnqueueStep(c)
       \/ \E c \in Syncers : Sync(c) \/ SyncNoexcept(c) \/ SyncStep(c)
       \/ WorkerStep \/ Destroy \/ DestroyStep \/ SpuriousWake
    /\ UNCHANGED setup

Spec == Init /\ [][Next]_vars

\* Every thread that is in a call goes on with it.
Runs(A) == A /\ UNCHANGED setup
FairSpec ==
    /\ Spec /\ WF_vars(Runs(WorkerStep)) /\ WF_vars(Runs(DestroyStep))
    /\ \A c \in Clients : WF_vars(Runs(EnqueueStep(c))) /\ WF_vars(Runs(SyncStep(c)))

-----------------------------------------------------------------------------
\* The tasks that are over are 1 .. Finished.
Finished == IF wpc = "record" THEN curr - 1 ELSE curr
Syncing  == {"sync", "drain", "quiet", "quiet_check"}

\* Every variable has its type; pending does not wrap around.
TypeOK ==
    /\ tail \in Nodes /\ next \in [Nodes -> Nodes \cup {Null}] /\ freed \subseteq Nodes
    /\ pending \in 0 .. MaxTasks /\ done \in BOOLEAN /\ dtor \in {"none", "notify", "join", "over"}
    /\ wpc \in {"loop", "block", "run", "record", "notify", "exited"}
    /\ curr \in Nodes /\ task_exception \in Nodes
    /\ pc \in [Clients -> Syncing \cup {"idle", "exchange", "link", "fence", "notify"}]
    /\ prev \in [Clients -> Nodes] /\ allow \in [Clients -> Allowed \cup {0}] /\ before \in [Clients -> Nodes]
    /\ waiting \subseteq Clients \cup {Worker}
    /\ first_exception \in Nodes \cup {Callback} /\ thrown \subseteq Tasks \cup {Callback}
    /\ failed \subseteq Tasks /\ latched \in [Tasks -> Nodes \cup {Callback}]

\* The worker never deletes a node that it or an enqueue that has exchanged
\* tail but not yet stored the link will still use (worker, enqueue); the
\* destructor deletes every node that is left (~TaskQueue).
NodesLive ==
    /\ dtor # "over" => curr \notin freed
    /\ \A c \in Clients : pc[c] = "link" => prev[c] \notin freed
    /\ dtor = "over" => freed = 0 .. tail

\* When sync returns, at most allow_n_pending of the tasks that were in the
\* queue when it was called are not over; when it throws, all are over, even
\* if some were allowed to be pending.
SyncMeansDone ==
    [][\A c \in Clients :
        pc[c] \in Syncing /\ pc'[c] = "idle" =>
            before[c] - Finished <= IF thrown' = thrown THEN allow[c] ELSE 0]_vars

\* When sync returns and throws nothing, every failure of a task that was over
\* has been thrown by some sync, itself or through the one pending before it.
SyncReports ==
    [][\A c \in Clients :
        pc[c] \in {"sync", "drain"} /\ pc'[c] = "idle" =>
            \A t \in failed : t <= Finished => latched[t] \in thrown']_vars

\* No thread can be asleep in sync while another one enqueues: the notify_one
\* of enqueue cannot go to the wrong sleeper.
OnlyWorkerSleeps == \A c \in Enqueuers, d \in Syncers : c = d

\* Every task in the queue is run, unless the queue is destroyed (enqueue's
\* empty critical section, worker).
EveryTaskRuns == \A t \in Tasks :
    OnlyWorkerSleeps /\ tail >= t ~> (Finished >= t \/ done)

\* Every sync and sync_noexcept of the one thread that also enqueues returns
\* or throws.
SyncEnds == \A c \in Clients :
    OnlyWorkerSleeps /\ pc[c] \in Syncing ~> pc[c] = "idle"

\* Every sync and sync_noexcept of any thread returns or throws: it waits for
\* the requested queue depth, which the worker reaches in the end.
AnySyncEnds == \A c \in Clients : pc[c] \in Syncing ~> pc[c] = "idle"

\* The destructor joins the worker, which may be asleep or in a task.
DestroyEnds == dtor # "none" ~> dtor = "over"

\* The queue as a data structure, in every state: the counter never wraps, and
\* neither the worker nor an enqueue that has exchanged tail holds a node the
\* worker has deleted.
QueueInv == TypeOK /\ NodesLive

\* Every call ends: sync and sync_noexcept return once their tasks are over,
\* and the destructor gets its worker to the end.
CallsEnd == SyncEnds /\ DestroyEnds
=============================================================================
