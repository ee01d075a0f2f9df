----------------------------- MODULE QueueProofs -----------------------------
(***************************************************************************)
(* What the task queue guarantees for any number of threads and tasks, any *)
(* of which may fail: the nodes it uses are live, a sync that returns has  *)
(* waited for what it promises, and no failure is dropped.                 *)
(*                                                                         *)
(* The argument counts.  A task is counted before it is in the list, so    *)
(* pending is the number of tasks in the list that are not over plus the   *)
(* number of threads that have counted one and not yet exchanged tail      *)
(* (Counting).  The list from 0 to tail is linked except behind the nodes  *)
(* whose enqueue has still to link them (Linking): the worker never gets   *)
(* past such a node, so it deletes only nodes nobody holds (Deleting).     *)
(***************************************************************************)
EXTENDS TaskQueue, FiniteSetTheorems, TLAPS

Exchanging == {c \in Clients : pc[c] = "exchange"}

\* pending is what is in the list and not over, and what is still to come.
Counting ==
    /\ IsFiniteSet(Exchanging)
    /\ pending = tail - Finished + Cardinality(Exchanging)
    /\ tail + Cardinality(Exchanging) <= MaxTasks

\* The links lead from each node to the next one; where one is missing a
\* thread is about to store it.
Linking ==
    /\ \A n \in Nodes : next[n] # Null => next[n] = n + 1 /\ n < tail
    /\ \A n \in Nodes : n < tail /\ next[n] = Null => \E c \in Clients : pc[c] = "link" /\ prev[c] = n
    /\ \A c \in Clients : pc[c] = "link" => prev[c] < tail /\ next[prev[c]] = Null
    /\ \A c, d \in Clients : c # d /\ pc[c] = "link" /\ pc[d] = "link" => prev[c] # prev[d]

\* The worker has got through linked nodes only.
Working ==
    /\ curr <= tail
    /\ \A n \in Nodes : n < curr => next[n] # Null
    /\ wpc = "run" => next[curr] # Null
    /\ wpc = "record" => curr > 0

\* The nodes before the worker's are deleted, and no others until the end.
Deleting == freed = IF dtor = "over" THEN 0 .. tail ELSE 0 .. (curr - 1)

\* The destructor runs alone.
Ending ==
    /\ done <=> dtor # "none"
    /\ dtor # "none" => \A c \in Clients : pc[c] = "idle"
    /\ wpc = "exited" => done
    /\ dtor = "over" => wpc = "exited"

\* The tasks a sync has been called for are in the list, and one that is about
\* to look for exceptions has waited for them.
Waiting ==
    /\ \A c \in Clients : before[c] <= tail
    /\ \A c \in Clients : pc[c] = "quiet_check" => before[c] - Finished <= allow[c]

\* The failure that was pending when a failed task was over is still pending
\* or has been thrown.
Failing ==
    /\ \A t \in failed : t <= curr
    /\ wpc = "record" /\ curr \in failed => task_exception = curr
    /\ \A t \in failed : t <= Finished =>
          latched[t] # None /\ latched[t] \in thrown \cup {first_exception}

\* The inductive invariant.
QueueIndInv ==
    /\ TypeOK /\ setup \in Setups
    /\ Counting /\ Linking /\ Working /\ Deleting /\ Ending /\ Waiting /\ Failing

-----------------------------------------------------------------------------
(* Steps of the threads that enqueue.                                      *)

USE TasksAssumption, AllowedAssumption, ClientAssumption DEF Nodes, Tasks, Null, None, Callback

\* What a caller of sync may allow is a number of tasks.
LEMMA AllowedNat == \A n \in Allowed \cup {0} : n \in Nat
BY AllowedAssumption

\* There are finitely many threads between count and exchange.
LEMMA Counted ==
  ASSUME QueueIndInv
  PROVE  IsFiniteSet(Exchanging) /\ Cardinality(Exchanging) \in Nat
  BY FS_CardinalityType DEF QueueIndInv, Counting

\* enqueue counts its task: one more thread is about to exchange.
LEMMA EnqueueKeeps ==
  ASSUME QueueIndInv, NEW c \in Clients, Enqueue(c), UNCHANGED setup
  PROVE  QueueIndInv'
<1>1. Counting' /\ pending' <= MaxTasks
  <2> DEFINE k == Cardinality(Exchanging)
             m == Cardinality(Exchanging')
  <2>1. Exchanging' = Exchanging \cup {c} /\ c \notin Exchanging
    BY DEF Exchanging, TypeOK, Enqueue, Goes, Ready, QueueIndInv
  <2>2. IsFiniteSet(Exchanging') /\ m = k + 1 /\ k \in Nat
    BY <2>1, Counted, FS_AddElement
  <2>3. Finished' = Finished /\ Finished \in Int /\ Finished <= curr /\ curr \in Int /\ tail \in Int /\ pending \in Int
    BY DEF Finished, TypeOK, QueueIndInv, Enqueue, workers
  <2>4. tail' = tail /\ pending' = pending + 1 /\ pending + curr < MaxTasks /\ pending = tail - Finished + k
    BY DEF Enqueue, list, QueueIndInv, Counting
  <2> HIDE DEF k, m
  <2>5. pending' = tail' - Finished' + m /\ tail' + m <= MaxTasks /\ pending' <= MaxTasks
    <3>1. curr >= 0
      BY DEF QueueIndInv, TypeOK
    <3> QED BY <2>2, <2>3, <2>4, <3>1
  <2> QED BY <2>2, <2>5 DEF Counting, m
<1>2. TypeOK'
  BY <1>1 DEF TypeOK, Syncing, Enqueue, Goes, Ready, list, workers, errors, QueueIndInv
<1>3. Linking' /\ Working' /\ Deleting' /\ Ending' /\ Waiting' /\ Failing'
  BY DEF TypeOK, Syncing, Linking, Working, Deleting, Ending, Waiting, Failing, Finished,
         Enqueue, Goes, Ready, list, workers, errors, QueueIndInv
<1> QED BY <1>1, <1>2, <1>3 DEF QueueIndInv

\* The exchange of tail: the task is in the list, and not yet linked.
LEMMA ExchangeKeeps ==
  ASSUME QueueIndInv, NEW c \in Clients, Exchange(c), UNCHANGED setup
  PROVE  QueueIndInv'
<1>1. Counting' /\ tail < MaxTasks
  <2> DEFINE k == Cardinality(Exchanging)
             m == Cardinality(Exchanging')
  <2>1. Exchanging' = Exchanging \ {c} /\ c \in Exchanging
    BY DEF Exchanging, TypeOK, Exchange, Goes, QueueIndInv
  <2>2. IsFiniteSet(Exchanging') /\ m = k - 1 /\ m \in Nat /\ k \in Nat
    BY <2>1, Counted, FS_RemoveElement, FS_CardinalityType
  <2>3. Finished' = Finished /\ Finished \in Int /\ tail \in Int
    BY DEF Finished, TypeOK, QueueIndInv, Exchange, workers
  <2>4. tail' = tail + 1 /\ pending' = pending /\ pending = tail - Finished + k /\ tail + k <= MaxTasks
    BY DEF Exchange, QueueIndInv, Counting
  <2> HIDE DEF k, m
  <2>5. pending' = tail' - Finished' + m /\ tail' + m <= MaxTasks /\ tail < MaxTasks
    BY <2>2, <2>3, <2>4
  <2> QED BY <2>2, <2>5 DEF Counting, m
<1> USE DEF Exchange, Goes, workers, errors, QueueIndInv
<1>2. TypeOK'
  BY <1>1 DEF TypeOK, Syncing
<1>3. Linking' /\ Working'
  BY DEF TypeOK, Linking, Working
<1>4. Deleting'
  BY DEF TypeOK, Deleting, Ending
<1>5. Ending' /\ Waiting' /\ Failing'
  BY DEF TypeOK, Ending, Waiting, Failing, Finished
<1> QED BY <1>1, <1>2, <1>3, <1>4, <1>5

\* The link: the worker can see the task.
LEMMA LinkKeeps ==
  ASSUME QueueIndInv, NEW c \in Clients, Link(c), UNCHANGED setup
  PROVE  QueueIndInv'
<1> USE DEF Link, Goes, workers, errors, QueueIndInv
<1>1. prev[c] \in Nodes /\ prev[c] < tail /\ prev[c] + 1 \in Nodes
  BY DEF TypeOK, Linking
<1>2. TypeOK'
  BY <1>1 DEF TypeOK, Syncing
<1>3. Exchanging' = Exchanging
  BY DEF Exchanging, TypeOK
<1>4. Counting'
  BY <1>3 DEF Counting, Finished
<1>5. Linking' /\ Working'
  BY <1>1 DEF TypeOK, Linking, Working
<1>6. Deleting' /\ Ending' /\ Waiting' /\ Failing'
  BY DEF TypeOK, Deleting, Ending, Waiting, Failing, Finished
<1> QED BY <1>2, <1>4, <1>5, <1>6

-----------------------------------------------------------------------------
(* Steps of a thread outside enqueue's exchange and link: they change no   *)
(* more than the thread's locals, who sleeps, and the pending exception.   *)

\* Where a thread is that holds no node and has no task counted.
Apart == {"idle", "fence", "notify"} \cup Syncing

\* A step inside a call that touches neither the list nor the counter.
LEMMA CallKeeps ==
  ASSUME QueueIndInv, NEW c \in Clients, NEW at \in Apart,
         pc[c] \in Apart, dtor # "none" => at = "idle",
         pc' = [pc EXCEPT ![c] = at],
         prev' = prev \/ prev' = [prev EXCEPT ![c] = 0],
         UNCHANGED <<list, pending, workers, failed, latched, done, dtor>>
  PROVE  Counting' /\ Linking' /\ Working' /\ Deleting' /\ Ending' /\ Finished' = Finished
<1> USE DEF list, workers, QueueIndInv, Apart, Syncing
<1>1. Exchanging' = Exchanging
  BY DEF Exchanging, TypeOK
<1>2. Counting'
  BY <1>1 DEF Counting, Finished
<1>3. \A d \in Clients : (pc'[d] = "link" <=> pc[d] = "link") /\ (pc[d] = "link" => prev'[d] = prev[d])
  BY DEF TypeOK
<1>4. Linking'
  BY <1>3 DEF Linking, TypeOK
<1>5. Working' /\ Deleting' /\ Ending' /\ Finished' = Finished
  BY DEF Working, Deleting, Ending, Finished, TypeOK
<1> QED BY <1>2, <1>4, <1>5

\* The locals of a thread that goes on with its call, or leaves it.
LEMMA LocalsKeep ==
  ASSUME TypeOK, NEW c \in Clients, NEW at \in Apart, Goes(c, at) \/ Returns(c)
  PROVE  /\ pc' \in [Clients -> Syncing \cup {"idle", "exchange", "link", "fence", "notify"}]
         /\ Returns(c) => /\ prev' \in [Clients -> Nodes] /\ before' \in [Clients -> Nodes]
                          /\ allow' \in [Clients -> Allowed \cup {0}]
<1>1. \A x \in Apart : Goes(c, x) => pc' \in [Clients -> Syncing \cup {"idle", "exchange", "link", "fence", "notify"}]
  BY DEF TypeOK, Goes, Apart, Syncing
<1>2. Returns(c) => Goes(c, "idle")
  BY DEF Returns
<1>3. Returns(c) => /\ prev' \in [Clients -> Nodes] /\ before' \in [Clients -> Nodes]
                    /\ allow' \in [Clients -> Allowed \cup {0}]
  BY DEF TypeOK, Returns
<1> QED BY <1>1, <1>2, <1>3 DEF Apart

\* A sleeper leaves or joins the ones that are asleep.
LEMMA SleepersKeep ==
  ASSUME QueueIndInv, waiting' \subseteq Clients \cup {Worker},
         UNCHANGED <<setup, list, pending, workers, calls, errors, done, dtor>>
  PROVE  QueueIndInv'
<1> USE DEF list, workers, calls, errors, QueueIndInv
<1>1. TypeOK' /\ Finished' = Finished /\ Exchanging' = Exchanging
  BY DEF TypeOK, Finished, Exchanging
<1>2. Counting' /\ Linking' /\ Working' /\ Deleting' /\ Ending'
  BY <1>1 DEF Counting, Linking, Working, Deleting, Ending
<1>3. Waiting' /\ Failing'
  BY <1>1 DEF Waiting, Failing
<1> QED BY <1>1, <1>2, <1>3

\* A thread that returns from its call leaves no trace of it.
LEMMA ReturnKeeps ==
  ASSUME QueueIndInv, NEW c \in Clients, pc[c] \in Apart, Returns(c), waiting' \subseteq Clients \cup {Worker},
         UNCHANGED <<setup, list, pending, workers, failed, latched, done, dtor>>,
         \/ UNCHANGED <<first_exception, thrown>>
         \/ /\ first_exception' = None
            /\ thrown' = IF first_exception = None THEN thrown ELSE thrown \cup {first_exception}
  PROVE  QueueIndInv'
<1>1. Counting' /\ Linking' /\ Working' /\ Deleting' /\ Ending' /\ Finished' = Finished
  BY CallKeeps DEF Returns, Goes, Apart
<1>2. TypeOK'
  <2>1. TypeOK BY DEF QueueIndInv
  <2>2. /\ pc' \in [Clients -> Syncing \cup {"idle", "exchange", "link", "fence", "notify"}]
        /\ prev' \in [Clients -> Nodes] /\ before' \in [Clients -> Nodes]
        /\ allow' \in [Clients -> Allowed \cup {0}]
    BY <2>1, LocalsKeep DEF Apart
  <2>3. first_exception' \in Nodes \cup {Callback} /\ thrown' \subseteq Tasks \cup {Callback}
    <3>1. first_exception \in Nodes \cup {Callback} /\ thrown \subseteq Tasks \cup {Callback}
      BY <2>1 DEF TypeOK
    <3>2. first_exception # None => first_exception \in Tasks \cup {Callback}
      BY <3>1
    <3>3. first_exception' \in {first_exception, None} /\ thrown' \in {thrown, thrown \cup {first_exception}}
      BY <3>1
    <3>4. thrown' = thrown \/ (first_exception # None /\ thrown' = thrown \cup {first_exception})
      BY <3>1
    <3> QED BY <3>1, <3>2, <3>3, <3>4
  <2> QED BY <2>1, <2>2, <2>3 DEF TypeOK, list, workers
<1>3. Waiting'
  <2>1. /\ pc \in [Clients -> Syncing \cup {"idle", "exchange", "link", "fence", "notify"}]
        /\ before \in [Clients -> Nodes] /\ allow \in [Clients -> Allowed \cup {0}]
    BY DEF QueueIndInv, TypeOK
  <2>2. tail' = tail /\ tail \in Nodes
    BY DEF list, QueueIndInv, TypeOK
  <2>3. \A d \in Clients : d # c => pc'[d] = pc[d] /\ before'[d] = before[d] /\ allow'[d] = allow[d]
    BY <2>1 DEF Returns, Goes
  <2>4. pc'[c] = "idle" /\ before'[c] = 0
    BY <2>1 DEF Returns, Goes
  <2> QED BY <1>1, <2>2, <2>3, <2>4 DEF Waiting, QueueIndInv
<1>4. Failing'
  BY <1>1 DEF Failing, QueueIndInv, workers, TypeOK
<1> QED BY <1>1, <1>2, <1>3, <1>4 DEF QueueIndInv

\* The rest of enqueue, and record_exception.
LEMMA EnqueueRestKeeps ==
  ASSUME QueueIndInv, NEW c \in Clients, Fence(c) \/ Notify(c) \/ RecordException(c), UNCHANGED setup
  PROVE  QueueIndInv'
<1>1. CASE Fence(c)
  <2> USE DEF QueueIndInv, Fence, Goes
  <2>1. Counting' /\ Linking' /\ Working' /\ Deleting' /\ Ending' /\ Finished' = Finished
    BY <1>1, CallKeeps DEF Apart, errors, Ending
  <2>2. TypeOK'
    BY <1>1 DEF TypeOK, list, workers, errors, Syncing
  <2>3. Waiting' /\ Failing'
    BY <1>1, <2>1 DEF Waiting, Failing, TypeOK, list, workers, errors, Syncing
  <2> QED BY <1>1, <2>1, <2>2, <2>3
<1>2. CASE Notify(c)
  <2>1. waiting' \subseteq Clients \cup {Worker}
    BY <1>2 DEF Notify, NotifyOne, QueueIndInv, TypeOK
  <2> QED BY <1>2, <2>1, ReturnKeeps DEF Notify, Apart, errors
<1>3. CASE RecordException(c)
  <2> USE DEF QueueIndInv, RecordException
  <2>1. TypeOK' /\ Finished' = Finished /\ Exchanging' = Exchanging
    BY <1>3 DEF TypeOK, Finished, Exchanging, list, workers, calls, Latch
  <2>2. Counting' /\ Linking' /\ Working' /\ Deleting' /\ Ending' /\ Waiting'
    BY <1>3, <2>1 DEF Counting, Linking, Working, Deleting, Ending, Waiting, list, workers, calls
  <2>3. Failing'
    BY <1>3, <2>1 DEF Failing, workers, Latch
  <2> QED BY <1>3, <2>1, <2>2, <2>3
<1> QED BY <1>1, <1>2, <1>3

-----------------------------------------------------------------------------
(* Steps of the threads that wait.                                         *)

\* A thread in a call of sync goes on to another place in it: what it is
\* waiting for stays the same, and it waits for no more tasks than before.
LEMMA WaiterKeeps ==
  ASSUME QueueIndInv, NEW c \in Clients, NEW at \in Syncing, pc[c] \in Syncing, Goes(c, at),
         waiting' \subseteq Clients \cup {Worker},
         allow' = allow \/ allow' = [allow EXCEPT ![c] = 0],
         at = "quiet_check" => before[c] - Finished <= allow[c] /\ allow' = allow,
         UNCHANGED <<setup, list, pending, workers, prev, before, errors, done, dtor>>
  PROVE  QueueIndInv'
<1>1. TypeOK /\ Ending /\ dtor = "none"
  BY DEF QueueIndInv, Ending, Syncing, TypeOK
<1>2. Counting' /\ Linking' /\ Working' /\ Deleting' /\ Ending' /\ Finished' = Finished
  BY <1>1, CallKeeps DEF Apart, Goes, errors
<1>3. TypeOK'
  <2>1. pc' \in [Clients -> Syncing \cup {"idle", "exchange", "link", "fence", "notify"}]
    BY <1>1, LocalsKeep DEF Apart
  <2>2. allow' \in [Clients -> Allowed \cup {0}]
    BY <1>1 DEF TypeOK
  <2> QED BY <1>1, <2>1, <2>2 DEF TypeOK, list, workers, errors
<1>4. Waiting'
  <2>1. \A d \in Clients : d # c => pc'[d] = pc[d] /\ allow'[d] = allow[d]
    BY <1>1 DEF TypeOK, Goes
  <2>2. pc'[c] = at
    BY <1>1 DEF TypeOK, Goes
  <2> QED BY <1>2, <2>1, <2>2 DEF Waiting, QueueIndInv, list
<1>5. Failing'
  BY <1>2 DEF Failing, QueueIndInv, workers, errors
<1> QED BY <1>2, <1>3, <1>4, <1>5 DEF QueueIndInv

\* sync and sync_noexcept are called: the tasks in the list are noted.
LEMMA CallsKeeps ==
  ASSUME QueueIndInv, NEW c \in Clients, NEW at \in {"sync", "quiet"}, Calls(c, at), UNCHANGED setup
  PROVE  QueueIndInv'
<1> PICK n \in Allowed : /\ Ready(c)
    /\ allow' = [allow EXCEPT ![c] = n] /\ before' = [before EXCEPT ![c] = tail]
    /\ Goes(c, at)
    /\ UNCHANGED <<list, pending, workers, prev, waiting, errors, done, dtor>>
  BY DEF Calls
<1>1. Counting' /\ Linking' /\ Working' /\ Deleting' /\ Ending' /\ Finished' = Finished
  BY CallKeeps DEF Apart, Goes, errors, Ready, Syncing
<1>2. TypeOK'
  <2>1. TypeOK BY DEF QueueIndInv
  <2>2. /\ pc' \in [Clients -> Syncing \cup {"idle", "exchange", "link", "fence", "notify"}]
        /\ before' \in [Clients -> Nodes] /\ allow' \in [Clients -> Allowed \cup {0}]
    BY <2>1 DEF TypeOK, Goes, Syncing
  <2> QED BY <2>1, <2>2 DEF TypeOK, list, workers, errors
<1>3. Waiting' /\ Failing'
  BY <1>1 DEF Waiting, Failing, QueueIndInv, list, workers, errors, Goes, TypeOK
<1> QED BY <1>1, <1>2, <1>3 DEF QueueIndInv

\* When few enough tasks are pending, few enough of the ones noted are left.
LEMMA FewPendingMeans ==
  ASSUME QueueIndInv, NEW c \in Clients, pc[c] \in Syncing, NEW n \in Nat, FewPending(n) \/ done
  PROVE  before[c] - Finished <= n
<1> DEFINE k == Cardinality(Exchanging)
<1>1. pending <= n
  BY DEF FewPending, QueueIndInv, Ending, Syncing
<1>2. pending = tail - Finished + k /\ before[c] <= tail /\ k \in Nat
  BY Counted DEF QueueIndInv, Counting, Waiting
<1>3. tail \in Int /\ Finished \in Int /\ before[c] \in Int
  BY DEF QueueIndInv, TypeOK, Finished
<1> HIDE DEF k
<1> QED BY <1>1, <1>2, <1>3

\* Every step of sync and sync_noexcept.
LEMMA SyncStepKeeps ==
  ASSUME QueueIndInv, NEW c \in Clients, SyncStep(c), UNCHANGED setup
  PROVE  QueueIndInv'
<1>1. ASSUME Sleeps(c) PROVE QueueIndInv'
  BY <1>1, SleepersKeep DEF Sleeps, QueueIndInv, TypeOK
<1>2. ASSUME SyncReturn(c), pc[c] \in Syncing PROVE QueueIndInv'
  <2>1. waiting' \subseteq Clients \cup {Worker}
    BY <1>2 DEF SyncReturn, QueueIndInv, TypeOK
  <2> QED BY <1>2, <2>1, ReturnKeeps DEF SyncReturn, Apart
<1>3. CASE SyncWait(c)
  <2>1. ASSUME Goes(c, "drain"), waiting' = waiting \cup {c}, pc[c] = "sync",
               UNCHANGED <<list, pending, workers, prev, allow, before, errors, done, dtor>>
        PROVE  QueueIndInv'
    <3>1. waiting' \subseteq Clients \cup {Worker}
      BY <2>1 DEF QueueIndInv, TypeOK
    <3> QED BY <2>1, <3>1, WaiterKeeps DEF Syncing
  <2> QED BY <1>1, <1>2, <1>3, <2>1 DEF SyncWait, Evaluates, Syncing
<1>4. CASE SyncDrain(c)
  BY <1>1, <1>2, <1>4 DEF SyncDrain, Evaluates, Syncing
<1>5. CASE QuietWait(c)
  <2>1. waiting' = waiting => waiting' \subseteq Clients \cup {Worker}
    BY DEF QueueIndInv, TypeOK
  <2>2. ASSUME Returns(c), UNCHANGED <<list, pending, workers, waiting, errors, done, dtor>>
        PROVE  QueueIndInv'
    BY <1>5, <2>1, <2>2, ReturnKeeps DEF QuietWait, Evaluates, Apart, Syncing, errors
  <2>3. ASSUME FewPending(allow[c]) \/ done, Goes(c, "quiet_check"), UNCHANGED <<prev, allow, before>>,
               UNCHANGED <<list, pending, workers, waiting, errors, done, dtor>>
        PROVE  QueueIndInv'
    <3>1. pc[c] \in Syncing
      BY <1>5 DEF QuietWait, Evaluates, Syncing
    <3>2. allow[c] \in Nat
      <4>1. allow[c] \in Allowed \cup {0}
        BY DEF QueueIndInv, TypeOK
      <4> QED BY <4>1, AllowedNat
    <3>3. before[c] - Finished <= allow[c]
      BY <2>3, <3>1, <3>2, FewPendingMeans
    <3> QED BY <2>1, <2>3, <3>1, <3>3, WaiterKeeps DEF Syncing
  <2> QED BY <1>1, <1>5, <2>2, <2>3 DEF QuietWait
<1>6. CASE QuietCheck(c)
  <2>1. waiting' \subseteq Clients \cup {Worker}
    BY <1>6 DEF QueueIndInv, TypeOK, QuietCheck
  <2>2. CASE Returns(c)
    BY <1>6, <2>1, <2>2, ReturnKeeps DEF QuietCheck, Apart, Syncing, errors
  <2>3. CASE Goes(c, "quiet") /\ allow' = [allow EXCEPT ![c] = 0] /\ UNCHANGED <<prev, before>>
    BY <1>6, <2>1, <2>3, WaiterKeeps DEF QuietCheck, Syncing
  <2> QED BY <1>6, <2>2, <2>3 DEF QuietCheck
<1> QED BY <1>3, <1>4, <1>5, <1>6 DEF SyncStep

-----------------------------------------------------------------------------
(* Steps of the worker.                                                    *)

\* The worker looks for a task, goes to sleep, wakes everyone.
LEMMA WorkerIdleKeeps ==
  ASSUME QueueIndInv, WorkerLoop \/ WorkerSleep \/ WorkerNotify, UNCHANGED setup
  PROVE  QueueIndInv'
<1> USE DEF WorkerLoop, WorkerSleep, WorkerNotify, list, calls, errors, QueueIndInv
<1>1. TypeOK' /\ Finished' = Finished /\ Exchanging' = Exchanging
  BY DEF TypeOK, Finished, Exchanging
<1>2. Counting' /\ Linking' /\ Working'
  BY <1>1 DEF Counting, Linking, Working
<1>3. Deleting' /\ Ending' /\ Waiting' /\ Failing'
  BY <1>1 DEF Deleting, Ending, Waiting, Failing, TypeOK
<1> QED BY <1>1, <1>2, <1>3

\* The worker runs the next task and moves on to its node.
LEMMA WorkerRunKeeps ==
  ASSUME QueueIndInv, WorkerRun, UNCHANGED setup
  PROVE  QueueIndInv'
<1> USE DEF WorkerRun, calls, QueueIndInv
<1>1. curr \in Nodes /\ tail \in Nodes /\ next[curr] = curr + 1 /\ curr < tail /\ curr' = curr + 1 /\ curr' \in Tasks
  BY DEF TypeOK, Working, Linking
<1>2. TypeOK'
  <2>1. task_exception' \in Nodes /\ failed' \subseteq Tasks
    <3>1. failed \subseteq Tasks /\ (failed' = failed \/ failed' = failed \cup {curr'})
      BY DEF TypeOK
    <3>2. task_exception' = 0 \/ task_exception' = curr'
      OBVIOUS
    <3>3. failed' \subseteq Tasks
      BY <1>1, <3>1, Zenon
    <3>4. curr' \in Nodes /\ 0 \in Nodes
      BY <1>1
    <3> QED BY <3>2, <3>3, <3>4, Zenon
  <2>2. curr' \in Nodes /\ freed' \subseteq Nodes
    BY <1>1 DEF TypeOK, FreedNode
  <2> QED BY <2>1, <2>2 DEF TypeOK
<1>3. Finished' = Finished /\ Finished = curr /\ Exchanging' = Exchanging
  BY <1>1 DEF Finished, Exchanging, TypeOK
<1>4. Counting'
  BY <1>3 DEF Counting
<1>5. Linking' /\ Working'
  BY <1>1 DEF Linking, Working, TypeOK
<1>6. Ending'
  BY DEF Ending
<1>7. Deleting'
  BY <1>1 DEF Deleting, Ending, FreedNode
<1>8. Waiting'
  BY <1>3 DEF Waiting
<1>9. Failing'
  <2>1. \A t \in failed : t <= curr /\ t \in Int /\ latched[t] # None /\ latched[t] \in thrown \cup {first_exception}
    BY <1>3 DEF Failing, TypeOK
  <2>2. failed' = failed \/ (failed' = failed \cup {curr + 1} /\ task_exception' = curr + 1)
    BY <1>1
  <2>3. curr + 1 \notin failed
    BY <1>1, <2>1
  <2> QED BY <1>1, <1>3, <2>1, <2>2, <2>3 DEF Failing
<1> QED BY <1>2, <1>4, <1>5, <1>6, <1>7, <1>8, <1>9

\* The task is over: its exception is latched, and it is no longer pending.
LEMMA WorkerRecordKeeps ==
  ASSUME QueueIndInv, WorkerRecord, UNCHANGED setup
  PROVE  QueueIndInv'
<1>1. curr \in Tasks /\ curr <= tail /\ tail \in Nodes /\ Finished = curr - 1 /\ Finished' = curr /\ curr' = curr
      /\ wpc' = "notify"
  BY DEF QueueIndInv, TypeOK, Working, WorkerRecord, Finished
<1>2. Counting' /\ pending' \in 0 .. MaxTasks
  <2> DEFINE k == Cardinality(Exchanging)
  <2>1. Exchanging' = Exchanging
    BY DEF Exchanging, WorkerRecord, calls
  <2>2. k \in Nat /\ pending = tail - Finished + k /\ tail + k <= MaxTasks /\ IsFiniteSet(Exchanging)
    BY Counted DEF QueueIndInv, Counting
  <2>3. tail' = tail /\ pending' = pending - 1
    BY DEF WorkerRecord, list
  <2> HIDE DEF k
  <2>4. pending' = tail' - Finished' + k /\ pending' \in 0 .. MaxTasks
    BY <1>1, <2>2, <2>3
  <2> QED BY <2>1, <2>2, <2>3, <2>4 DEF Counting, k
<1>3. first_exception' \in Nodes \cup {Callback}
  BY DEF WorkerRecord, Latch, QueueIndInv, TypeOK
<1>4. TypeOK'
  <2>1. latched' \in [Tasks -> Nodes \cup {Callback}]
    BY <1>1, <1>3 DEF WorkerRecord, QueueIndInv, TypeOK
  <2> QED BY <1>1, <1>2, <1>3, <2>1 DEF TypeOK, WorkerRecord, QueueIndInv, list, calls
<1>5. Linking' /\ Working' /\ Deleting' /\ Ending'
  BY <1>1 DEF WorkerRecord, QueueIndInv, list, calls, Linking, Working, Deleting, Ending
<1>6. Waiting'
  <2>1. \A c \in Clients : before[c] \in Int /\ allow[c] \in Int
    <3>1. \A c \in Clients : before[c] \in Nodes /\ allow[c] \in Allowed \cup {0}
      BY DEF QueueIndInv, TypeOK
    <3>2. \A c \in Clients : allow[c] \in Nat
      BY <3>1, AllowedNat
    <3> QED BY <3>1, <3>2
  <2> QED BY <1>1, <2>1 DEF Waiting, QueueIndInv, WorkerRecord, list, calls
<1>7. Failing'
  <2>1. \A t \in failed : t <= curr /\ t \in Tasks
    BY DEF Failing, QueueIndInv, TypeOK
  <2>2. ASSUME NEW t \in failed, t # curr
        PROVE  latched'[t] # None /\ latched'[t] \in thrown \cup {first_exception'}
    <3>1. t <= Finished /\ t \in Tasks
      BY <1>1, <2>1, <2>2
    <3>2. latched[t] # None /\ latched[t] \in thrown \cup {first_exception}
      BY <3>1 DEF Failing, QueueIndInv
    <3>3. latched'[t] = latched[t]
      BY <3>1, <2>2 DEF WorkerRecord, QueueIndInv, TypeOK
    <3>4. first_exception # None => first_exception' = first_exception
      BY DEF WorkerRecord, Latch
    <3> QED BY <3>2, <3>3, <3>4
  <2>3. ASSUME curr \in failed
        PROVE  latched'[curr] # None /\ latched'[curr] = first_exception'
    <3>1. latched'[curr] = first_exception'
      BY <1>1 DEF WorkerRecord, QueueIndInv, TypeOK
    <3>2. task_exception = curr
      BY <2>3 DEF WorkerRecord, Failing, QueueIndInv
    <3> QED BY <1>1, <3>1, <3>2 DEF WorkerRecord, Latch
  <2>4. failed' = failed /\ thrown' = thrown
    BY DEF WorkerRecord
  <2> QED BY <1>1, <2>1, <2>2, <2>3, <2>4 DEF Failing
<1> QED BY <1>2, <1>4, <1>5, <1>6, <1>7 DEF QueueIndInv

-----------------------------------------------------------------------------
(* Steps of the destructor.                                                *)

\* The destructor says that it is done and wakes the sleepers.
LEMMA DestroyKeeps ==
  ASSUME QueueIndInv, Destroy \/ DestroyNotify, UNCHANGED setup
  PROVE  QueueIndInv'
<1> USE DEF Destroy, DestroyNotify, list, workers, calls, errors, QueueIndInv
<1>1. TypeOK' /\ Finished' = Finished /\ Exchanging' = Exchanging
  BY DEF TypeOK, Finished, Exchanging
<1>2. Counting' /\ Linking' /\ Working'
  BY <1>1 DEF Counting, Linking, Working
<1>3. Deleting' /\ Ending' /\ Waiting' /\ Failing'
  BY <1>1 DEF Deleting, Ending, Waiting, Failing, TypeOK
<1> QED BY <1>1, <1>2, <1>3

\* Once every thread has left, the list is linked to its end: the destructor
\* follows it from the worker's node and deletes what is left.
LEMMA DestroyJoinKeeps ==
  ASSUME QueueIndInv, DestroyJoin, UNCHANGED setup
  PROVE  QueueIndInv'
<1> USE DEF QueueIndInv, DestroyJoin
<1>1. curr \in Nodes /\ tail \in Nodes /\ curr <= tail
  BY DEF TypeOK, Working
<1>2. \A n \in Nodes : n < tail <=> next[n] # Null
  BY DEF Linking, Ending
<1>3. Chain = curr .. tail
  <2>1. ASSUME NEW n \in Chain PROVE n \in curr .. tail
    <3>1. n \in Nodes /\ n >= curr
      BY DEF Chain
    <3>2. SUFFICES ASSUME n > tail PROVE FALSE
      BY <1>1, <3>1
    <3>3. next[tail] # Null
      BY <1>1, <3>1, <3>2 DEF Chain
    <3> QED BY <1>1, <1>2, <3>3
  <2>2. ASSUME NEW n \in curr .. tail PROVE n \in Chain
    <3>1. n \in Nodes /\ n >= curr /\ \A m \in Nodes : m < n => m < tail
      BY <1>1
    <3> QED BY <1>2, <3>1 DEF Chain
  <2> QED BY <2>1, <2>2
<1>4. freed' = 0 .. tail
  BY <1>1, <1>3 DEF Deleting
<1>5. TypeOK' /\ Finished' = Finished /\ Exchanging' = Exchanging
  BY <1>1, <1>4 DEF TypeOK, Finished, Exchanging, workers, calls, errors
<1>6. Counting' /\ Linking' /\ Working'
  BY <1>5 DEF Counting, Linking, Working, workers, calls
<1>7. Deleting' /\ Ending' /\ Waiting' /\ Failing'
  BY <1>4, <1>5 DEF Deleting, Ending, Waiting, Failing, workers, calls, errors
<1> QED BY <1>5, <1>6, <1>7

-----------------------------------------------------------------------------
(* The invariant, and what it says.                                        *)

\* Every step preserves the invariant.
LEMMA QueueStep ==
  ASSUME QueueIndInv, [Next]_vars
  PROVE  QueueIndInv'
<1>1. CASE UNCHANGED vars
  <2>1. waiting' \subseteq Clients \cup {Worker}
    BY <1>1 DEF vars, QueueIndInv, TypeOK
  <2> QED BY <1>1, <2>1, SleepersKeep DEF vars
<1>2. CASE Next
  <2>1. UNCHANGED setup /\ Enqueuers \subseteq Clients /\ Syncers \subseteq Clients
    BY <1>2, SetupAssumption DEF Next, QueueIndInv, Enqueuers, Syncers
  <2>2. ASSUME NEW c \in Enqueuers, Enqueue(c) \/ RecordException(c) \/ EnqueueStep(c) PROVE QueueIndInv'
    BY <2>1, <2>2, EnqueueKeeps, ExchangeKeeps, LinkKeeps, EnqueueRestKeeps DEF EnqueueStep
  <2>3. ASSUME NEW c \in Syncers, Sync(c) \/ SyncNoexcept(c) \/ SyncStep(c) PROVE QueueIndInv'
    BY <2>1, <2>3, CallsKeeps, SyncStepKeeps DEF Sync, SyncNoexcept
  <2>4. ASSUME WorkerStep \/ Destroy \/ DestroyStep PROVE QueueIndInv'
    BY <2>1, <2>4, WorkerIdleKeeps, WorkerRunKeeps, WorkerRecordKeeps, DestroyKeeps, DestroyJoinKeeps
       DEF WorkerStep, DestroyStep
  <2>5. ASSUME SpuriousWake PROVE QueueIndInv'
    <3>1. waiting' \subseteq Clients \cup {Worker}
      BY <2>5 DEF SpuriousWake, QueueIndInv, TypeOK
    <3> QED BY <2>1, <2>5, <3>1, SleepersKeep DEF SpuriousWake
  <2> QED BY <1>2, <2>2, <2>3, <2>4, <2>5 DEF Next
<1> QED BY <1>1, <1>2

\* The new queue satisfies it.
LEMMA QueueStart ==
  ASSUME Init
  PROVE  QueueIndInv
<1> USE DEF Init
<1>1. TypeOK
  <2>1. next \in [Nodes -> Nodes \cup {Null}] /\ latched \in [Tasks -> Nodes \cup {Callback}]
    OBVIOUS
  <2>2. /\ pc \in [Clients -> Syncing \cup {"idle", "exchange", "link", "fence", "notify"}]
        /\ prev \in [Clients -> Nodes] /\ allow \in [Clients -> Allowed \cup {0}] /\ before \in [Clients -> Nodes]
    OBVIOUS
  <2>3. tail \in Nodes /\ pending \in 0 .. MaxTasks /\ curr \in Nodes /\ task_exception \in Nodes
        /\ first_exception \in Nodes \cup {Callback}
    OBVIOUS
  <2> QED BY <2>1, <2>2, <2>3 DEF TypeOK
<1>2. Exchanging = {}
  BY DEF Exchanging
<1>3. Counting
  BY <1>2, FS_EmptySet DEF Counting, Finished
<1>4. Linking /\ Working /\ Deleting /\ Ending /\ Waiting /\ Failing
  BY DEF Linking, Working, Deleting, Ending, Waiting, Failing, Finished
<1> QED BY <1>1, <1>3, <1>4 DEF QueueIndInv

\* The inductive invariant holds in every state of the queue.
LEMMA QueueIsInductive == Spec => []QueueIndInv
BY QueueStart, QueueStep, PTL DEF Spec

\* In every state the counter of pending tasks is in its range, neither the
\* worker nor an enqueue holds a node that has been deleted, and the destructor
\* leaves none (enqueue, worker, ~TaskQueue): for any number of threads and
\* tasks.
THEOREM QueueIsSafe == Spec => []QueueInv
<1>1. ASSUME QueueIndInv PROVE QueueInv
  <2> USE <1>1 DEF QueueIndInv
  <2>1. \A n \in freed : dtor # "over" => n < curr
    BY DEF Deleting, TypeOK
  <2>2. \A c \in Clients : pc[c] = "link" => dtor # "over" /\ prev[c] >= curr
    BY DEF Ending, Linking, Working, TypeOK
  <2> QED BY <2>1, <2>2 DEF QueueInv, NodesLive, Deleting, TypeOK
<1> QED BY <1>1, QueueIsInductive, PTL

\* Only the thread itself ends its call.
LEMMA SyncReturnsOnly ==
  ASSUME QueueIndInv, Next, NEW c \in Clients, pc[c] \in Syncing, pc'[c] = "idle"
  PROVE  SyncStep(c)
<1>1. pc \in [Clients -> Syncing \cup {"idle", "exchange", "link", "fence", "notify"}]
  BY DEF QueueIndInv, TypeOK
<1>2. pc' # pc
  BY DEF Syncing
<1>3. ASSUME NEW d \in Enqueuers, Enqueue(d) \/ RecordException(d) \/ EnqueueStep(d) PROVE FALSE
  BY <1>1, <1>2, <1>3 DEF Enqueue, RecordException, EnqueueStep, Exchange, Link, Fence, Notify, Ready, Returns, Goes,
        calls, Syncing
<1>4. ASSUME NEW d \in Syncers, Sync(d) \/ SyncNoexcept(d) PROVE FALSE
  BY <1>1, <1>4 DEF Sync, SyncNoexcept, Calls, Ready, Goes, Syncing
<1>5. ASSUME NEW d \in Syncers, SyncStep(d), d # c PROVE FALSE
  BY <1>1, <1>5 DEF SyncStep, SyncWait, SyncDrain, QuietWait, QuietCheck, Sleeps, SyncReturn, Returns, Goes, calls, Syncing
<1>6. ~WorkerStep /\ ~Destroy /\ ~DestroyStep /\ ~SpuriousWake
  BY <1>2 DEF WorkerStep, WorkerLoop, WorkerSleep, WorkerRun, WorkerRecord, WorkerNotify, Destroy, DestroyStep,
        DestroyNotify, DestroyJoin, SpuriousWake, calls
<1> QED BY <1>3, <1>4, <1>5, <1>6 DEF Next

\* A sync that returns has waited until at most allow_n_pending of the tasks
\* that were in the queue when it was called are left, and one that throws
\* until none is (sync, sync_noexcept), however the threads interleave.
THEOREM SyncKeepsItsPromise == Spec => SyncMeansDone
<1> DEFINE Promise == \A c \in Clients :
        pc[c] \in Syncing /\ pc'[c] = "idle" =>
            before[c] - Finished <= IF thrown' = thrown THEN allow[c] ELSE 0
<1>1. ASSUME QueueIndInv, [Next]_vars PROVE [Promise]_vars
  <2> SUFFICES ASSUME Next, NEW c \in Clients, pc[c] \in Syncing, pc'[c] = "idle"
               PROVE  before[c] - Finished <= IF thrown' = thrown THEN allow[c] ELSE 0
    BY <1>1
  <2>0. allow[c] \in Nat
    <3>1. allow[c] \in Allowed \cup {0}
      BY <1>1 DEF QueueIndInv, TypeOK
    <3> QED BY <3>1, AllowedNat
  <2>1. SyncStep(c)
    BY <1>1, SyncReturnsOnly
  <2>2. pc[c] \in {"sync", "quiet"} /\ (FewPending(allow[c]) \/ done) => before[c] - Finished <= allow[c]
    BY <1>1, <2>0, FewPendingMeans
  <2>3. pc[c] \in Syncing /\ (FewPending(0) \/ done) => before[c] - Finished <= 0
    BY <1>1, FewPendingMeans
  <2>4. CASE SyncWait(c)
    <3>1. (FewPending(allow[c]) \/ done) /\ ~MustDrain /\ SyncReturn(c)
      BY <1>1, <2>4 DEF SyncWait, Sleeps, calls, Goes, QueueIndInv, TypeOK, Evaluates
    <3>2. CASE thrown' = thrown
      BY <2>2, <2>4, <3>1, <3>2 DEF SyncWait, Evaluates
    <3>3. CASE thrown' # thrown
      <4>1. first_exception # None
        BY <3>1, <3>3 DEF SyncReturn
      <4>2. pending = 0 \/ done
        BY <1>1, <3>1, <4>1 DEF MustDrain, QueueIndInv, TypeOK
      <4> QED BY <2>3, <3>3, <4>2 DEF FewPending
    <3> QED BY <3>2, <3>3
  <2>5. CASE SyncDrain(c)
    <3>1. pending = 0 \/ done
      BY <1>1, <2>5 DEF SyncDrain, Sleeps, calls, QueueIndInv, TypeOK, Evaluates
    <3>2. before[c] - Finished <= 0 /\ before[c] - Finished \in Int
      BY <1>1, <2>3, <3>1 DEF FewPending, QueueIndInv, TypeOK, Finished
    <3> QED BY <2>0, <3>2
  <2>6. CASE QuietWait(c)
    BY <1>1, <2>2, <2>6 DEF QuietWait, Evaluates, Sleeps, calls, errors, Goes, QueueIndInv, TypeOK
  <2>7. CASE QuietCheck(c)
    <3>1. thrown' = thrown /\ pc[c] = "quiet_check"
      BY <2>7 DEF QuietCheck, errors
    <3> QED BY <1>1, <3>1 DEF QueueIndInv, Waiting
  <2> QED BY <2>1, <2>4, <2>5, <2>6, <2>7 DEF SyncStep
<1> QED BY <1>1, QueueIsInductive, PTL DEF Spec, SyncMeansDone

\* When a sync returns, every failure of a task that was over has been thrown,
\* by it or by an earlier one (worker latches a failure before the task stops
\* being pending; sync takes the failure and throws it): none is dropped.
THEOREM NoFailureIsDropped == Spec => SyncReports
<1> DEFINE Reports == \A c \in Clients :
        pc[c] \in {"sync", "drain"} /\ pc'[c] = "idle" =>
            \A t \in failed : t <= Finished => latched[t] \in thrown'
<1>1. ASSUME QueueIndInv, [Next]_vars PROVE [Reports]_vars
  <2> SUFFICES ASSUME Next, NEW c \in Clients, pc[c] \in {"sync", "drain"}, pc'[c] = "idle",
                      NEW t \in failed, t <= Finished
               PROVE  latched[t] \in thrown'
    BY <1>1
  <2>1. SyncStep(c)
    BY <1>1, SyncReturnsOnly DEF Syncing
  <2>2. SyncReturn(c)
    BY <1>1, <2>1 DEF SyncStep, SyncWait, SyncDrain, QuietWait, QuietCheck, Evaluates, Sleeps, calls, Goes, QueueIndInv, TypeOK
  <2>3. latched[t] # None /\ latched[t] \in thrown \cup {first_exception}
    BY <1>1 DEF QueueIndInv, Failing
  <2> QED BY <2>2, <2>3 DEF SyncReturn
<1> QED BY <1>1, QueueIsInductive, PTL DEF Spec, SyncReports
=============================================================================
