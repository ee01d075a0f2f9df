----------------------------- MODULE WorkerPool -----------------------------
(***************************************************************************)
(* A pool of worker threads of one NUMA node: the class InNumaPool of      *)
(* kt-kernel/cpu_backend/worker_pool.cpp.  The caller, thread 0, leaves a  *)
(* job in plain members of the pool, sets the status of the threads that   *)
(* take part to WORKING, takes its own share of the tasks, and waits until *)
(* no status is WORKING.  A worker that has been idle for a while sleeps   *)
(* on its condition variable.                                              *)
(*                                                                         *)
(* Job j is the j-th call of do_work_stealing_job; its number stands for   *)
(* its three functions.  A function that throws in a worker ends the       *)
(* process; one that throws in the caller's share ends the call.           *)
(***************************************************************************)
EXTENDS Integers, FiniteSets, FiniteSetsExt

CONSTANT Setups     \* the pools and callers to look at

VARIABLE setup
N        == setup.n         \* total_worker_count, the caller included
MaxTasks == setup.tasks     \* bound on the tasks of a job
MaxJobs  == setup.jobs      \* bound on the jobs
Throws   == setup.throws    \* whether a function may throw in the caller's share

ASSUME PoolAssumption ==
    \A s \in Setups :
        /\ s.n \in Nat \ {0}
        /\ s.tasks \in Nat /\ s.jobs \in Nat
        /\ s.throws \in BOOLEAN

Threads == 0..(N - 1)
Workers == Threads \ {0}
Jobs    == 1..MaxJobs
Idle    == <<0, 0>>     \* a thread that runs no task

VARIABLES
    job, count, curr, end,  \* the functions, worker_count, curr_, end_
    status,                 \* the status of each thread
    pc,                     \* where each thread is
    at,                     \* the thread the caller's loop is at
    claimed,                \* the task id each thread has taken
    running,                \* the job and task each thread is computing
    asleep,                 \* the workers asleep on their condition variables
    inited,                 \* history: the job whose init_func a thread ran last
    size, ran, returned     \* history: tasks of each job, how often each was
                            \* computed, and the jobs whose call has returned

shared  == <<job, count, curr, end>>
history == <<inited, size, ran, returned>>
vars == <<shared, status, pc, at, claimed, running, asleep, history, setup>>

Init ==
    /\ setup \in Setups
    /\ job = 0 /\ count = 0 /\ curr = 0 /\ end = 0
    /\ status = [t \in Threads |-> "WAITING"]
    /\ pc = [t \in Threads |-> IF t = 0 THEN "idle" ELSE "loop"]
    /\ at = 0
    /\ claimed = [t \in Threads |-> 0]
    /\ running = [t \in Threads |-> Idle]
    /\ asleep = {}
    /\ inited = [t \in Threads |-> 0]
    /\ size = [j \in Jobs |-> 0]
    /\ ran = [j \in Jobs |-> [i \in 0..(MaxTasks - 1) |-> 0]]
    /\ returned = {}

Goes(t, where) == pc' = [pc EXCEPT ![t] = where]

-----------------------------------------------------------------------------
(* The caller *)

\* The functions are replaced first, then the counters, one by one.
SetFunctions(n) ==
    /\ pc[0] = "idle" /\ job < MaxJobs
    /\ job' = job + 1
    /\ size' = [size EXCEPT ![job + 1] = n]
    /\ Goes(0, "count")
    /\ UNCHANGED <<count, curr, end, status, at, claimed, running, asleep,
                   inited, ran, returned>>

SetCount ==
    /\ pc[0] = "count"
    /\ count' = IF N < size[job] THEN N ELSE size[job]
    /\ Goes(0, "curr")
    /\ UNCHANGED <<job, curr, end, status, at, claimed, running, asleep, history>>

SetCurr ==
    /\ pc[0] = "curr"
    /\ curr' = 0
    /\ Goes(0, "end")
    /\ UNCHANGED <<job, count, end, status, at, claimed, running, asleep, history>>

SetEnd ==
    /\ pc[0] = "end"
    /\ end' = size[job]
    /\ at' = 0
    /\ Goes(0, "publish")
    /\ UNCHANGED <<job, count, curr, status, claimed, running, asleep, history>>

\* The worker holds its mutex from the test of the predicate until it sleeps.
MutexFree(t) == pc[t] # "doze"

\* Mutant: the status is stored without the mutex.
PublishUnlocked ==
    /\ pc[0] = "publish" /\ at < count
    /\ status' = [status EXCEPT ![at] = "WORKING"]
    /\ Goes(0, "notify")
    /\ UNCHANGED <<shared, at, claimed, running, asleep, history>>

Publish ==
    /\ pc[0] = "publish" /\ at < count
    /\ MutexFree(at)
    /\ status' = [status EXCEPT ![at] = "WORKING"]
    /\ Goes(0, "notify")
    /\ UNCHANGED <<shared, at, claimed, running, asleep, history>>

Notify ==
    /\ pc[0] = "notify"
    /\ asleep' = asleep \ {at}
    /\ at' = at + 1
    /\ Goes(0, "publish")
    /\ UNCHANGED <<shared, status, claimed, running, history>>

OwnShare ==
    /\ pc[0] = "publish" /\ at = count
    /\ Goes(0, "init")
    /\ UNCHANGED <<shared, status, at, claimed, running, asleep, history>>

\* Mutant: the caller does not wait for the last thread.
WaitedShort == at >= count - 1
Waited      == at >= count

Wait ==
    /\ pc[0] = "wait"
    /\ IF Waited
         THEN /\ returned' = returned \cup {job}
              /\ Goes(0, "idle")
              /\ UNCHANGED at
         ELSE /\ status[at] # "WORKING"
              /\ at' = at + 1
              /\ UNCHANGED <<pc, returned>>
    /\ UNCHANGED <<shared, status, claimed, running, asleep, inited, size, ran>>

-----------------------------------------------------------------------------
(* process_tasks, of the caller and of the workers *)

InitFunc(t) ==
    /\ pc[t] = "init"
    /\ inited' = [inited EXCEPT ![t] = job]
    /\ Goes(t, "look")
    /\ UNCHANGED <<shared, status, at, claimed, running, asleep, size, ran, returned>>

Look(t) ==
    /\ pc[t] = "look"
    /\ Goes(t, IF end - curr <= 0 THEN "finalize" ELSE "claim")
    /\ UNCHANGED <<shared, status, at, claimed, running, asleep, history>>

\* Mutant: the id that was taken is not compared with the end.
ClaimUnchecked(t) ==
    /\ pc[t] = "claim"
    /\ claimed' = [claimed EXCEPT ![t] = curr]
    /\ curr' = curr + 1
    /\ Goes(t, "compute")
    /\ UNCHANGED <<job, count, end, status, at, running, asleep, history>>

Claim(t) ==
    /\ pc[t] = "claim"
    /\ claimed' = [claimed EXCEPT ![t] = curr]
    /\ curr' = curr + 1
    /\ Goes(t, IF curr >= end THEN "finalize" ELSE "compute")
    /\ UNCHANGED <<job, count, end, status, at, running, asleep, history>>

Compute(t) ==
    /\ pc[t] = "compute"
    /\ running' = [running EXCEPT ![t] = <<job, claimed[t]>>]
    /\ Goes(t, "computing")
    /\ UNCHANGED <<shared, status, at, claimed, asleep, history>>

Computed(t) ==
    /\ pc[t] = "computing"
    /\ ran' = [ran EXCEPT ![running[t][1]][running[t][2]] = @ + 1]
    /\ running' = [running EXCEPT ![t] = Idle]
    /\ Goes(t, "look")
    /\ UNCHANGED <<shared, status, at, claimed, asleep, inited, size, returned>>

\* A function throws in the caller's share: nothing of the call is left to
\* do, the wait included.
Throw ==
    /\ Throws
    /\ pc[0] \in {"init", "computing", "finalize"}
    /\ running' = [running EXCEPT ![0] = Idle]
    /\ Goes(0, "idle")
    /\ UNCHANGED <<shared, status, at, claimed, asleep, history>>

\* finalize_func, and the status that tells the caller.
Finalize(t) ==
    /\ pc[t] = "finalize"
    /\ status' = [status EXCEPT ![t] = "WAITING"]
    /\ at' = IF t = 0 THEN 0 ELSE at
    /\ Goes(t, IF t = 0 THEN "wait" ELSE "loop")
    /\ UNCHANGED <<shared, claimed, running, asleep, history>>

-----------------------------------------------------------------------------
(* worker_thread *)

\* Mutant: the worker goes to its share without init_func.
BeginWorkUninitialised(t) ==
    /\ pc[t] = "loop" /\ status[t] = "WORKING"
    /\ Goes(t, "look")
    /\ UNCHANGED <<shared, status, at, claimed, running, asleep, history>>

BeginWork(t) ==
    /\ pc[t] = "loop" /\ status[t] = "WORKING"
    /\ Goes(t, "init")
    /\ UNCHANGED <<shared, status, at, claimed, running, asleep, history>>

\* After 50 ms without work: the mutex is taken and the predicate is tested.
Doze(t) ==
    /\ pc[t] = "loop" /\ status[t] = "WAITING"
    /\ Goes(t, "doze")
    /\ UNCHANGED <<shared, status, at, claimed, running, asleep, history>>

Sleep(t) ==
    /\ pc[t] = "doze"
    /\ asleep' = asleep \cup {t}
    /\ Goes(t, "asleep")
    /\ UNCHANGED <<shared, status, at, claimed, running, history>>

\* A sleeper that is notified tests its predicate again.
Wake(t) ==
    /\ pc[t] = "asleep" /\ t \notin asleep
    /\ Goes(t, IF status[t] = "WAITING" THEN "doze" ELSE "loop")
    /\ UNCHANGED <<shared, status, at, claimed, running, asleep, history>>

Exit(t) ==
    /\ pc[t] = "loop" /\ status[t] = "EXIT"
    /\ Goes(t, "exited")
    /\ UNCHANGED <<shared, status, at, claimed, running, asleep, history>>

-----------------------------------------------------------------------------
(* ~InNumaPool *)

Destroy ==
    /\ pc[0] = "idle"
    /\ at' = 0
    /\ Goes(0, "exit")
    /\ UNCHANGED <<shared, status, claimed, running, asleep, history>>

\* Mutant: the status is stored without the mutex.
StoreExitUnlocked ==
    /\ pc[0] = "exit" /\ at < N
    /\ status' = [status EXCEPT ![at] = "EXIT"]
    /\ Goes(0, "notify_exit")
    /\ UNCHANGED <<shared, at, claimed, running, asleep, history>>

StoreExit ==
    /\ pc[0] = "exit" /\ at < N
    /\ MutexFree(at)
    /\ status' = [status EXCEPT ![at] = "EXIT"]
    /\ Goes(0, "notify_exit")
    /\ UNCHANGED <<shared, at, claimed, running, asleep, history>>

NotifyExit ==
    /\ pc[0] = "notify_exit"
    /\ asleep' = asleep \ {at}
    /\ at' = at + 1
    /\ Goes(0, "exit")
    /\ UNCHANGED <<shared, status, claimed, running, history>>

Join ==
    /\ pc[0] = "exit" /\ at = N
    /\ \A t \in Workers : pc[t] = "exited"
    /\ Goes(0, "over")
    /\ UNCHANGED <<shared, status, at, claimed, running, asleep, history>>

-----------------------------------------------------------------------------
ProcessTasks(t) ==
    InitFunc(t) \/ Look(t) \/ Claim(t) \/ Compute(t) \/ Computed(t) \/ Finalize(t)

\* What the caller does once it is in a call.
CallerStep ==
    \/ SetCount \/ SetCurr \/ SetEnd \/ Publish \/ Notify \/ OwnShare \/ Wait
    \/ StoreExit \/ NotifyExit \/ Join
    \/ ProcessTasks(0)

WorkerStep(t) ==
    ProcessTasks(t) \/ BeginWork(t) \/ Sleep(t) \/ Wake(t) \/ Exit(t)

Next ==
    /\ \/ CallerStep
       \/ \E n \in 0..MaxTasks : SetFunctions(n)
       \/ Throw
       \/ Destroy
       \/ \E t \in Workers : WorkerStep(t) \/ Doze(t)
    /\ UNCHANGED setup

\* The worker threads of any pool.
AllWorkers == Max({s.n : s \in Setups}) - 1

Runs(A) == A /\ UNCHANGED setup

\* Every thread runs on; a task comes to an end.  Nobody has to begin a job
\* or to destroy the pool, and a worker may spin for ever.
Spec ==
    /\ Init /\ [][Next]_vars
    /\ WF_vars(Runs(CallerStep))
    /\ \A t \in 1..AllWorkers : WF_vars(Runs(t \in Workers /\ WorkerStep(t)))

-----------------------------------------------------------------------------
(* Properties *)

\* The variables stay in the domains their declarations give them; no task
\* beyond the end of a job is computed.
TypeOK ==
    /\ job \in 0..MaxJobs /\ count \in 0..N
    /\ curr \in Nat /\ end \in 0..MaxTasks
    /\ status \in [Threads -> {"WAITING", "WORKING", "EXIT"}]
    /\ at \in 0..N
    /\ claimed \in [Threads -> Nat]
    /\ \A t \in Threads :
         \/ running[t] = Idle
         \/ running[t][1] \in Jobs /\ running[t][2] \in 0..(size[running[t][1]] - 1)
    /\ asleep \subseteq Workers
    /\ inited \in [Threads -> 0..MaxJobs]
    /\ returned \subseteq Jobs

\* When do_work_stealing_job has returned, every task of its job has been
\* computed once, and no thread is in a function of it.
JobDone ==
    \A j \in returned :
        /\ \A i \in 0..(size[j] - 1) : ran[j][i] = 1
        /\ \A t \in Threads : running[t][1] # j

\* A thread computes tasks of the job that is in the members, after it has
\* run the init_func of that job: the caller never replaces functions or
\* counters that a worker still uses.
ComputesItsJob ==
    \A t \in Threads : running[t] # Idle =>
        running[t][1] = job /\ inited[t] = job

\* A call ends: no thread sleeps through its share, and none is waited for
\* in vain.
JobEnds == pc[0] = "count" ~> pc[0] = "idle"

\* The destructor ends, unless a call was left with workers in it: every
\* worker sees EXIT and is joined.
DestroyEnds == (~Throws /\ pc[0] = "exit") ~> pc[0] = "over"

\* A job in every state: no index beyond its end is computed, and a job that
\* has returned is complete.
JobInv == TypeOK /\ JobDone

\* Every call ends: do_work_stealing_job, and the destructor.
CallsEnd == JobEnds /\ DestroyEnds
=============================================================================
