----------------------------- MODULE PoolProofs ------------------------------
(***************************************************************************)
(* What a pool of workers guarantees for any number of threads, tasks and  *)
(* jobs: a call returns when every task of its job has been computed once, *)
(* and no thread computes with the functions or counters of another job.   *)
(* It is shown for pools whose callers do not throw, and for a first job   *)
(* that does (Orderly): after a throw the workers are still in the job,    *)
(* and the next call would change it under them.                           *)
(*                                                                         *)
(* A thread is Busy while it is in process_tasks.  The caller replaces the *)
(* job only when no worker is busy or about to be (Quiet); it knows that   *)
(* from the statuses, which a busy worker keeps at WORKING (Signalling).   *)
(* A task that has been taken is computed, or held by one thread that is   *)
(* to compute it (Holding, Taking).                                        *)
(***************************************************************************)
EXTENDS WorkerPool, TLAPS

\* The functions of the caller do not throw, or there is one job only.
Orderly == ~Throws \/ MaxJobs <= 1

Preparing == {"count", "curr", "end"}
Sharing   == {"init", "look", "claim", "compute", "computing", "finalize"}
InCall    == {"publish", "notify", "wait"} \cup Sharing
Resting   == {"idle", "exit", "notify_exit", "over"}

Busy(t)  == pc[t] \in Sharing
Holds(t) == pc[t] \in {"compute", "computing"}

\* No worker is in a job, or will be before the next one is published.
Quiet == \A t \in Workers : ~Busy(t) /\ status[t] # "WORKING"

\* The types of the variables, of where the threads are and of the history.
Types ==
    /\ job \in 0 .. MaxJobs /\ count \in 0 .. N /\ curr \in Nat /\ end \in 0 .. MaxTasks /\ at \in 0 .. N
    /\ status \in [Threads -> {"WAITING", "WORKING", "EXIT"}]
    /\ pc \in [Threads -> Preparing \cup InCall \cup Resting \cup {"loop", "doze", "asleep", "exited"}]
    /\ pc[0] \in Preparing \cup InCall \cup Resting
    /\ claimed \in [Threads -> Nat] /\ asleep \subseteq Workers
    /\ inited \in [Threads -> 0 .. MaxJobs] /\ size \in [Jobs -> 0 .. MaxTasks]
    /\ ran \in [Jobs -> [0 .. (MaxTasks - 1) -> Nat]] /\ running \in [Threads -> Nat \X Nat]

\* What the members of the pool are once a call has set them.
Members ==
    /\ job = 0 => pc[0] \in Resting
    /\ job # 0 /\ pc[0] \notin {"count"} => count <= N /\ count <= size[job]
    /\ pc[0] = "end" => curr = 0
    /\ job # 0 /\ pc[0] \notin Preparing => end = size[job]
    /\ pc[0] = "publish" => at <= count
    /\ pc[0] = "notify" => at < count
    /\ pc[0] = "notify_exit" => at < N

\* Which jobs are over.
Returning ==
    /\ \A j \in returned : j \in Jobs /\ j <= job
    /\ pc[0] \notin Resting => job \notin returned
    /\ pc[0] \in Resting => job = 0 \/ job \in returned \/ (Throws /\ job >= MaxJobs)

\* The caller replaces the members only while no worker is in the job.
Quieting == job = 0 \/ job \in returned \/ pc[0] \in Preparing => Quiet

\* What the statuses say about a job: a worker in it is WORKING, and once the
\* caller has passed a thread in its wait that one is not.
Signalling ==
    /\ pc[0] \in InCall => \A t \in Workers :
          /\ Busy(t) => status[t] = "WORKING"
          /\ status[t] = "WORKING" => t < count
    /\ pc[0] = "wait" => \A t \in Workers : t < at => status[t] # "WORKING"

\* A thread has run the init_func of the job it is in, and computes for it.
Initing ==
    /\ \A t \in Threads : Busy(t) /\ pc[t] # "init" => inited[t] = job
    /\ \A t \in Threads : running[t] = IF pc[t] = "computing" THEN <<job, claimed[t]>> ELSE Idle

\* A task that was taken and is to be computed has one holder.
Holding ==
    /\ \A t \in Threads : Holds(t) => claimed[t] < curr /\ claimed[t] < end /\ ran[job][claimed[t]] = 0
    /\ \A t, u \in Threads : t # u /\ Holds(t) /\ Holds(u) => claimed[t] # claimed[u]

\* No thread leaves process_tasks before all tasks are taken.
Leaving ==
    /\ \A t \in Threads : pc[t] = "finalize" => curr >= end
    /\ pc[0] = "wait" => curr >= end

\* The tasks of the job that are not taken, and the ones that are: those are
\* computed, or held, or lost with a call that threw.
Taking ==
    job # 0 /\ pc[0] \notin Preparing => \A i \in 0 .. (size[job] - 1) :
        /\ ran[job][i] \in {0, 1}
        /\ i >= curr => ran[job][i] = 0
        /\ i < curr /\ ran[job][i] = 0 =>
              \/ \E t \in Threads : Holds(t) /\ claimed[t] = i
              \/ pc[0] \in Resting /\ job \notin returned

\* The tasks of later jobs and of those that are over.
Recording ==
    /\ \A j \in Jobs : j > job \/ (j = job /\ pc[0] \in Preparing) => \A i \in 0 .. (MaxTasks - 1) : ran[j][i] = 0
    /\ \A j \in returned : \A i \in 0 .. (size[j] - 1) : ran[j][i] = 1

\* The inductive invariant.
PoolInv ==
    /\ setup \in Setups /\ Types /\ Members /\ Returning /\ Quieting /\ Signalling
    /\ Initing /\ Holding /\ Leaving /\ Taking /\ Recording

-----------------------------------------------------------------------------
(* The constants of a pool.                                                *)

\* There is a caller, thread 0, and every other thread is a worker.
LEMMA PoolFacts ==
  ASSUME setup \in Setups
  PROVE  /\ N \in Nat \ {0} /\ MaxTasks \in Nat /\ MaxJobs \in Nat
         /\ 0 \in Threads /\ Workers \subseteq Threads /\ 0 \notin Workers
         /\ \A t \in Threads : t \in Nat /\ t < N /\ (t # 0 => t \in Workers)
         /\ \A n \in Nat : n < N => n \in Threads
         /\ \A j : j \in Jobs <=> j \in Nat /\ j # 0 /\ j <= MaxJobs
BY PoolAssumption DEF N, MaxTasks, MaxJobs, Threads, Workers, Jobs

\* They stay the same.
LEMMA PoolStays ==
  ASSUME UNCHANGED setup
  PROVE  /\ N' = N /\ MaxTasks' = MaxTasks /\ MaxJobs' = MaxJobs /\ Throws' = Throws
         /\ Threads' = Threads /\ Workers' = Workers /\ Jobs' = Jobs
BY DEF N, MaxTasks, MaxJobs, Throws, Threads, Workers, Jobs

\* Where a thread may be.
Places == Preparing \cup InCall \cup Resting \cup {"loop", "doze", "asleep", "exited"}

\* One thread goes on.
LEMMA ThreadGoes ==
  ASSUME Types, NEW t \in Threads, NEW w \in Places, Goes(t, w)
  PROVE  pc' \in [Threads -> Places] /\ \A u \in Threads : pc'[u] = IF u = t THEN w ELSE pc[u]
BY DEF Types, Goes, Places

-----------------------------------------------------------------------------
(* Steps that change nothing of the job: a thread goes from one place to   *)
(* another where it holds no task.                                         *)

\* A step of the caller or of a worker that touches no member of the pool.
LEMMA PassKeeps ==
  ASSUME PoolInv, UNCHANGED <<setup, job, curr, end, claimed, running, inited, size, ran, returned>>,
         NEW t \in Threads, NEW w \in Places, Goes(t, w), ~Holds(t), w \notin {"compute", "computing"},
         t = 0 => pc[0] \notin Preparing /\ w \notin Preparing /\ (pc[0] \in Resting <=> w \in Resting),
         w \in Sharing \ {"init"} => Busy(t) /\ pc[t] # "init",
         w = "finalize" \/ (t = 0 /\ w = "wait") => curr >= end
  PROVE  Returning' /\ Initing' /\ Holding' /\ Leaving' /\ Taking' /\ Recording'
<1>1. /\ 0 \in Threads /\ \A u \in Threads : pc'[u] = IF u = t THEN w ELSE pc[u]
      /\ Threads' = Threads /\ Jobs' = Jobs /\ MaxTasks' = MaxTasks /\ MaxJobs' = MaxJobs /\ Throws' = Throws
  BY PoolFacts, PoolStays, ThreadGoes DEF PoolInv
<1>2. (pc'[0] \in Resting <=> pc[0] \in Resting) /\ (pc'[0] \in Preparing <=> pc[0] \in Preparing)
  BY <1>1
<1>3. \A u \in Threads : /\ Holds(u)' <=> Holds(u)
                         /\ pc'[u] = "computing" <=> pc[u] = "computing"
  BY <1>1 DEF Holds
<1>4. Returning' /\ Recording'
  BY <1>1, <1>2 DEF PoolInv, Returning, Recording
<1>5. Initing'
  BY <1>1, <1>3 DEF PoolInv, Initing, Busy, Sharing, Idle
<1>6. Holding'
  BY <1>1, <1>3 DEF PoolInv, Holding
<1>7. Leaving'
  BY <1>1 DEF PoolInv, Leaving
<1>8. Taking'
  BY <1>1, <1>2, <1>3 DEF PoolInv, Taking
<1> QED BY <1>4, <1>5, <1>6, <1>7, <1>8

\* The types of what such a step may change.
LEMMA PassTypes ==
  ASSUME PoolInv, UNCHANGED <<setup, job, count, curr, end, claimed, running, inited, size, ran>>,
         NEW t \in Threads, NEW w \in Places, Goes(t, w), t = 0 => w \in Preparing \cup InCall \cup Resting,
         status' \in [Threads -> {"WAITING", "WORKING", "EXIT"}], at' \in 0 .. N, asleep' \subseteq Workers
  PROVE  Types'
<1>1. /\ 0 \in Threads /\ \A u \in Threads : pc'[u] = IF u = t THEN w ELSE pc[u]
      /\ pc' \in [Threads -> Places]
  BY PoolFacts, PoolStays, ThreadGoes DEF PoolInv
<1>2. pc'[0] \in Preparing \cup InCall \cup Resting
  BY <1>1 DEF PoolInv, Types
<1> QED BY <1>1, <1>2, PoolStays DEF PoolInv, Types, Places

\* Between calls the caller stores EXIT, wakes the workers and joins them.
LEMMA EndingKeeps ==
  ASSUME PoolInv, Destroy \/ StoreExit \/ NotifyExit \/ Join, UNCHANGED setup
  PROVE  PoolInv'
<1>1. PICK w \in Resting : Goes(0, w) /\ (w = "notify_exit" => at' < N)
  BY DEF Destroy, StoreExit, NotifyExit, Join, Resting
<1>2. /\ pc[0] \in Resting /\ UNCHANGED <<job, count, curr, end, claimed, running, inited, size, ran, returned>>
      /\ \/ status' = status
         \/ pc[0] = "exit" /\ at < N /\ status' = [status EXCEPT ![at] = "EXIT"]
      /\ asleep' \subseteq asleep
      /\ at' \in {0, at, at + 1} /\ (at' = at + 1 => pc[0] = "notify_exit" \/ at' \in {0, at})
  BY DEF Destroy, StoreExit, NotifyExit, Join, Resting, shared, history
<1>3. 0 \in Threads /\ N \in Nat \ {0} /\ w \in Places
  BY PoolFacts DEF PoolInv, Places
<1>4. Types'
  <2>1. status' \in [Threads -> {"WAITING", "WORKING", "EXIT"}] /\ asleep' \subseteq Workers
    BY <1>2 DEF PoolInv, Types
  <2>2. at' \in 0 .. N
    BY <1>2, <1>3 DEF PoolInv, Types, Members
  <2> QED BY <1>1, <1>2, <1>3, <2>1, <2>2, PassTypes
<1>5. Returning' /\ Initing' /\ Holding' /\ Leaving' /\ Taking' /\ Recording'
  BY <1>1, <1>2, <1>3, PassKeeps DEF Holds, Resting, Preparing, Sharing
<1>6. /\ pc'[0] = w /\ w \notin InCall /\ w \notin Preparing /\ pc[0] \notin InCall /\ pc[0] \notin Preparing
      /\ \A t \in Workers : pc'[t] = pc[t] /\ (status'[t] = "WORKING" => status[t] = "WORKING")
      /\ Workers' = Workers
  BY <1>1, <1>2, <1>3, PoolFacts, PoolStays, ThreadGoes DEF PoolInv, Types, Resting, InCall, Preparing, Sharing
<1>7. Members'
  BY <1>1, <1>2, <1>6, PoolStays DEF PoolInv, Members, Resting, Preparing
<1>8. Quieting' /\ Signalling'
  BY <1>2, <1>6 DEF PoolInv, Quieting, Quiet, Signalling, Busy, Resting, InCall
<1> QED BY <1>4, <1>5, <1>7, <1>8 DEF PoolInv

\* A worker that is not in the job: it sees its status and takes part, it goes
\* to sleep, it wakes, it ends.
LEMMA IdlingKeeps ==
  ASSUME PoolInv, NEW t \in Workers, BeginWork(t) \/ Doze(t) \/ Sleep(t) \/ Wake(t) \/ Exit(t), UNCHANGED setup
  PROVE  PoolInv'
<1>1. PICK w \in {"init", "doze", "asleep", "loop", "exited"} : Goes(t, w) /\ (w = "init" => status[t] = "WORKING")
  BY DEF BeginWork, Doze, Sleep, Wake, Exit
<1>2. /\ pc[t] \in {"loop", "doze", "asleep"} /\ UNCHANGED <<job, count, curr, end, claimed, running, inited, size, ran, returned>>
      /\ status' = status /\ at' = at /\ asleep' \subseteq asleep \cup {t}
  BY DEF BeginWork, Doze, Sleep, Wake, Exit, shared, history
<1>3. t \in Threads /\ t # 0 /\ w \in Places /\ 0 \in Threads /\ Workers \subseteq Threads
  BY PoolFacts DEF PoolInv, Places, InCall, Sharing
<1>4. Types'
  <2>1. status' \in [Threads -> {"WAITING", "WORKING", "EXIT"}] /\ asleep' \subseteq Workers /\ at' \in 0 .. N
    BY <1>2 DEF PoolInv, Types
  <2> QED BY <1>1, <1>2, <1>3, <2>1, PassTypes
<1>5. Returning' /\ Initing' /\ Holding' /\ Leaving' /\ Taking' /\ Recording'
  BY <1>1, <1>2, <1>3, PassKeeps DEF Holds, Sharing
<1>6. /\ pc'[0] = pc[0] /\ Workers' = Workers /\ N' = N
      /\ \A u \in Workers : pc'[u] = IF u = t THEN w ELSE pc[u]
  BY <1>1, <1>2, <1>3, PoolStays, ThreadGoes DEF PoolInv
<1>7. Members'
  BY <1>2, <1>6 DEF PoolInv, Members
<1>8. \A u \in Workers : Busy(u)' => Busy(u) \/ status[u] = "WORKING"
  BY <1>1, <1>2, <1>6 DEF Busy, Sharing
<1>9. Quieting' /\ Signalling'
  BY <1>2, <1>6, <1>8 DEF PoolInv, Quieting, Quiet, Signalling
<1> QED BY <1>4, <1>5, <1>7, <1>9 DEF PoolInv

-----------------------------------------------------------------------------
(* The caller prepares a job while nobody is in the last one.              *)

\* The next call begins to set the members of the pool.
LEMMA PrepareKeeps ==
  ASSUME PoolInv, Quiet, pc[0] \in {"idle"} \cup Preparing, NEW w \in Preparing \cup {"publish"}, Goes(0, w),
         UNCHANGED <<setup, status, claimed, running, asleep, inited, ran, returned>>
  PROVE  /\ Quieting' /\ Signalling' /\ Initing' /\ Holding' /\ Leaving'
         /\ pc' \in [Threads -> Places] /\ pc'[0] = w /\ \A t \in Threads : ~Holds(t)
<1>1. /\ 0 \in Threads /\ w \in Places /\ Threads' = Threads /\ Workers' = Workers
      /\ \A t \in Threads : t # 0 => t \in Workers
  BY PoolFacts, PoolStays DEF PoolInv, Places, InCall
<1>2. /\ pc' \in [Threads -> Places] /\ \A u \in Threads : pc'[u] = IF u = 0 THEN w ELSE pc[u]
  BY <1>1, ThreadGoes DEF PoolInv
<1>3. \A t \in Threads : pc[t] \notin Sharing /\ pc'[t] \notin Sharing
  BY <1>1, <1>2 DEF Quiet, Busy, Preparing, Sharing
<1>4. Quiet'
  BY <1>1, <1>2, PoolFacts DEF PoolInv, Quiet, Busy
<1>5. Quieting' /\ Signalling'
  BY <1>1, <1>2, <1>4 DEF Quieting, Signalling, Quiet, Preparing
<1>6. Initing'
  BY <1>1, <1>3 DEF PoolInv, Initing, Busy, Sharing, Idle
<1>7. Holding' /\ \A t \in Threads : ~Holds(t)
  BY <1>1, <1>3 DEF Holding, Holds, Sharing
<1>8. Leaving'
  BY <1>1, <1>2, <1>3 DEF Leaving, Sharing, Preparing
<1> QED BY <1>1, <1>2, <1>5, <1>6, <1>7, <1>8

\* A new job begins: its functions are set and nothing of it is computed.
LEMMA SetFunctionsKeeps ==
  ASSUME PoolInv, Orderly, NEW n \in 0 .. MaxTasks, SetFunctions(n), UNCHANGED setup
  PROVE  PoolInv'
<1> USE PoolStays
<1>1. /\ pc[0] = "idle" /\ job < MaxJobs /\ job' = job + 1 /\ size' = [size EXCEPT ![job + 1] = n] /\ Goes(0, "count")
      /\ UNCHANGED <<count, curr, end, status, at, claimed, running, asleep, inited, ran, returned>>
  BY DEF SetFunctions
<1>2. MaxJobs \in Nat /\ job \in Nat /\ job + 1 \in Jobs /\ job' \in 0 .. MaxJobs
  <2>1. MaxJobs \in Nat /\ job \in Nat
    BY PoolFacts DEF PoolInv, Types
  <2>2. job + 1 \in Nat /\ job + 1 # 0 /\ job + 1 <= MaxJobs
    BY <1>1, <2>1
  <2>3. job + 1 \in Jobs
    BY <2>2, PoolFacts DEF PoolInv
  <2> QED BY <1>1, <2>1, <2>2, <2>3
<1>3. job = 0 \/ job \in returned
  BY <1>1, <1>2 DEF PoolInv, Returning, Orderly, Resting
<1>4. Quiet
  BY <1>3 DEF PoolInv, Quieting
<1>5. /\ Quieting' /\ Signalling' /\ Initing' /\ Holding' /\ Leaving'
      /\ pc' \in [Threads -> Places] /\ pc'[0] = "count"
  BY <1>1, <1>4, PrepareKeeps DEF Preparing
<1>6. Types'
  BY <1>1, <1>2, <1>5 DEF PoolInv, Types, Places, Preparing
<1>7. Members' /\ Taking'
  BY <1>1, <1>2, <1>5 DEF Members, Taking, Preparing, Resting
<1>8. /\ \A j \in returned : j \in Jobs /\ j <= job /\ j \in Nat
      /\ job + 1 \notin returned /\ \A j \in returned : size'[j] = size[j]
  BY <1>1, <1>2, PoolFacts DEF PoolInv, Returning, Types
<1>9. Returning'
  BY <1>1, <1>2, <1>5, <1>8 DEF Returning, Resting
<1>10. Recording'
  <2>1. ASSUME NEW j \in Jobs, j > job' \/ j = job' PROVE \A i \in 0 .. (MaxTasks - 1) : ran[j][i] = 0
    BY <1>1, <1>2, <2>1, PoolFacts DEF PoolInv, Recording
  <2>2. \A j \in returned : \A i \in 0 .. (size'[j] - 1) : ran[j][i] = 1
    BY <1>8 DEF PoolInv, Recording
  <2> QED BY <1>1, <2>1, <2>2 DEF Recording
<1> QED BY <1>5, <1>6, <1>7, <1>9, <1>10 DEF PoolInv

\* The counters of the job are set, while every worker is out of it.
LEMMA SetMembersKeeps ==
  ASSUME PoolInv, SetCount \/ SetCurr \/ SetEnd, UNCHANGED setup
  PROVE  PoolInv'
<1> USE PoolStays
<1>1. /\ pc[0] \in Preparing /\ UNCHANGED <<job, status, claimed, running, asleep, inited, size, ran, returned>>
      /\ PoolInv
  BY DEF SetCount, SetCurr, SetEnd, Preparing, history
<1>2. PICK w \in {"curr", "end", "publish"} :
        /\ Goes(0, w)
        /\ w = "curr" => count' = IF N < size[job] THEN N ELSE size[job]
        /\ w # "curr" => count' = count /\ pc[0] # "count"
        /\ w = "end" => curr' = 0
        /\ w # "end" => curr' = curr
        /\ w = "publish" => end' = size[job] /\ at' = 0 /\ pc[0] = "end"
        /\ w # "publish" => end' = end /\ at' = at
  BY DEF SetCount, SetCurr, SetEnd
<1>3. Quiet /\ job # 0 /\ job \in Jobs /\ N \in Nat /\ MaxTasks \in Nat /\ size[job] \in 0 .. MaxTasks
  <2>1. Quiet /\ job # 0 /\ job \in 0 .. MaxJobs
    BY <1>1 DEF PoolInv, Quieting, Members, Types, Preparing, Resting
  <2>2. job \in Nat /\ job <= MaxJobs /\ N \in Nat /\ MaxTasks \in Nat
    BY <2>1, PoolFacts DEF PoolInv
  <2>3. job \in Jobs
    BY <2>1, <2>2, PoolFacts DEF PoolInv
  <2> QED BY <2>1, <2>2, <2>3 DEF PoolInv, Types
<1>4. /\ Quieting' /\ Signalling' /\ Initing' /\ Holding' /\ Leaving'
      /\ pc' \in [Threads -> Places] /\ pc'[0] = w /\ \A t \in Threads : ~Holds(t)
  BY <1>1, <1>2, <1>3, PrepareKeeps DEF Preparing
<1>5. count' \in 0 .. N /\ curr' \in Nat /\ end' \in 0 .. MaxTasks /\ at' \in 0 .. N /\ count' <= N /\ count' <= size[job]
  <2>1. /\ count \in 0 .. N /\ curr \in Nat /\ end \in 0 .. MaxTasks /\ at \in 0 .. N
        /\ (pc[0] # "count" => count <= N /\ count <= size[job])
    BY <1>1, <1>3 DEF PoolInv, Types, Members
  <2>2. count' \in 0 .. N /\ count' <= N /\ count' <= size[job]
    BY <1>2, <1>3, <2>1
  <2> QED BY <1>2, <1>3, <2>1, <2>2
<1>6. Types'
  BY <1>1, <1>2, <1>4, <1>5 DEF PoolInv, Types, Places, Preparing, InCall
<1>7. Members'
  BY <1>1, <1>2, <1>3, <1>4, <1>5 DEF Members, Preparing
<1>8. Returning' /\ Recording'
  BY <1>1, <1>2, <1>4 DEF PoolInv, Returning, Recording, Preparing, Resting
<1>9. Taking'
  <2>1. CASE w = "publish"
    <3>1. curr' = 0
      BY <1>2, <2>1 DEF PoolInv, Members
    <3>2. \A i \in 0 .. (size[job] - 1) : i \in 0 .. (MaxTasks - 1) /\ i >= 0
      BY <1>3
    <3>3. \A i \in 0 .. (size[job] - 1) : ran[job][i] = 0
      BY <1>1, <1>3, <3>2 DEF PoolInv, Recording
    <3> QED BY <1>1, <3>1, <3>3, <3>2 DEF Taking
  <2>2. CASE w # "publish"
    BY <1>2, <1>4, <2>2 DEF Taking, Preparing
  <2> QED BY <2>1, <2>2
<1> QED BY <1>4, <1>6, <1>7, <1>8, <1>9 DEF PoolInv

-----------------------------------------------------------------------------
(* The caller publishes the job, and waits for its end.                    *)

\* A place of the caller in its call, from which it goes to another one.
LEMMA CallKeeps ==
  ASSUME PoolInv, Publish \/ Notify \/ OwnShare, UNCHANGED setup
  PROVE  PoolInv'
<1> USE PoolStays
<1>1. PICK w \in {"publish", "notify", "init"} :
        /\ Goes(0, w) /\ pc[0] \in {"publish", "notify"}
        /\ w = "notify" => pc[0] = "publish" /\ at < count /\ at' = at /\ status' = [status EXCEPT ![at] = "WORKING"]
        /\ w = "publish" => pc[0] = "notify" /\ at' = at + 1 /\ status' = status
        /\ w = "init" => at' = at /\ status' = status
        /\ asleep' \subseteq asleep
        /\ UNCHANGED <<job, count, curr, end, claimed, running, inited, size, ran, returned>>
  BY DEF Publish, Notify, OwnShare, shared, history
<1>2. 0 \in Threads /\ N \in Nat \ {0} /\ w \in Places /\ Workers \subseteq Threads /\ 0 \notin Workers
  BY PoolFacts DEF PoolInv, Places, InCall, Sharing
<1>3. at \in Nat /\ count \in Nat /\ count <= N /\ (pc[0] = "publish" => at <= count) /\ (pc[0] = "notify" => at < count)
  BY <1>2 DEF PoolInv, Types, Members
<1>4. Types'
  <2>1. status' \in [Threads -> {"WAITING", "WORKING", "EXIT"}]
    BY <1>1 DEF PoolInv, Types
  <2>2. at' \in 0 .. N /\ asleep' \subseteq Workers
    <3>1. at' \in 0 .. N
      BY <1>1, <1>2, <1>3
    <3> QED BY <1>1, <3>1 DEF PoolInv, Types
  <2> QED BY <1>1, <1>2, <2>1, <2>2, PassTypes DEF InCall, Sharing
<1>5. Returning' /\ Initing' /\ Holding' /\ Leaving' /\ Taking' /\ Recording'
  BY <1>1, <1>2, PassKeeps DEF Holds, Resting, Preparing, Sharing
<1>6. pc'[0] = w /\ \A u \in Workers : pc'[u] = pc[u]
  BY <1>1, <1>2, ThreadGoes DEF PoolInv
<1>7. Members'
  BY <1>1, <1>3, <1>6 DEF PoolInv, Members, Preparing, Resting
<1>8. \A u \in Workers : status'[u] = status[u] \/ (status'[u] = "WORKING" /\ u < count)
  BY <1>1, <1>2 DEF PoolInv, Types
<1>9. Quieting' /\ Signalling'
  <2>1. ~(job = 0 \/ job \in returned)
    BY <1>1 DEF PoolInv, Members, Returning, Resting
  <2> QED BY <1>1, <1>6, <1>8, <2>1 DEF PoolInv, Quieting, Signalling, Busy, InCall, Preparing
<1> QED BY <1>4, <1>5, <1>7, <1>9 DEF PoolInv

\* The wait for the threads that take part.
LEMMA WaitKeeps ==
  ASSUME PoolInv, Wait, UNCHANGED setup
  PROVE  PoolInv'
<1> USE PoolStays
<1>0. /\ 0 \in Threads /\ Workers \subseteq Threads /\ 0 \notin Workers /\ N \in Nat /\ \A t \in Workers : t \in Nat
      /\ \A t \in Threads : t # 0 => t \in Workers
  BY PoolFacts DEF PoolInv
<1>1. /\ pc[0] = "wait" /\ UNCHANGED <<job, count, curr, end, status, claimed, running, asleep, inited, size, ran>>
      /\ at \in Nat /\ count \in Nat /\ count <= N /\ job # 0
  BY <1>0 DEF PoolInv, Types, Wait, shared, Members, Resting
<1>2. CASE ~Waited
  <2>1. at < count /\ status[at] # "WORKING" /\ at' = at + 1 /\ pc' = pc /\ returned' = returned
    BY <1>1, <1>2 DEF Wait, Waited
  <2>2. Goes(0, "wait") /\ "wait" \in Places /\ "wait" \in InCall
    BY <1>0, <1>1, <2>1 DEF Goes, PoolInv, Types, Places, InCall
  <2>3. at' \in 0 .. N
    BY <1>0, <1>1, <2>1
  <2>4. Types'
    BY <1>0, <1>1, <2>1, <2>2, <2>3, PassTypes DEF PoolInv, Types
  <2>5. Returning' /\ Initing' /\ Holding' /\ Leaving' /\ Taking' /\ Recording'
    BY <1>0, <1>1, <2>1, <2>2, PassKeeps DEF Holds, Resting, Preparing, Sharing, PoolInv, Leaving
  <2>6. Members' /\ Quieting'
    BY <1>1, <2>1 DEF PoolInv, Members, Quieting, Quiet, Busy
  <2>7. \A t \in Workers : t < at' => status[t] # "WORKING"
    BY <1>0, <1>1, <2>1 DEF PoolInv, Signalling
  <2>8. Signalling'
    BY <1>1, <2>1, <2>7 DEF PoolInv, Signalling, Busy
  <2> QED BY <2>4, <2>5, <2>6, <2>8 DEF PoolInv
<1>3. CASE Waited
  <2>1. at >= count /\ returned' = returned \cup {job} /\ Goes(0, "idle") /\ at' = at
    BY <1>1, <1>3 DEF Wait, Waited
  <2>2. /\ "idle" \in Places /\ pc' \in [Threads -> Places] /\ pc'[0] = "idle"
        /\ \A u \in Workers : pc'[u] = pc[u]
    BY <1>0, <2>1, ThreadGoes DEF PoolInv, Places, Resting
  <2>3. Quiet
    BY <1>0, <1>1, <2>1 DEF PoolInv, Signalling, Quiet, InCall
  <2>4. \A t \in Threads : pc[t] \notin Sharing /\ pc'[t] \notin Sharing
    BY <1>0, <1>1, <2>2, <2>3 DEF Quiet, Busy, Sharing
  <2>5. Types'
    BY <1>1, <2>1, <2>2 DEF PoolInv, Types, Places, Resting
  <2>6. Members' /\ Quieting' /\ Signalling'
    BY <1>1, <2>1, <2>2, <2>3 DEF PoolInv, Members, Quieting, Quiet, Busy, Signalling, InCall, Sharing, Resting, Preparing
  <2>7. job \in Jobs /\ job \in Nat /\ size[job] \in Nat /\ end = size[job] /\ curr >= end /\ curr \in Nat
    <3>1. job \in Nat /\ job <= MaxJobs /\ MaxTasks \in Nat
      BY PoolFacts DEF PoolInv, Types
    <3>2. job \in Jobs
      BY <1>1, <3>1, PoolFacts DEF PoolInv
    <3> QED BY <1>1, <3>1, <3>2 DEF PoolInv, Types, Members, Preparing, Leaving
  <2>8. Returning'
    BY <1>1, <2>1, <2>2, <2>7 DEF PoolInv, Returning, Resting
  <2>9. Initing' /\ Holding' /\ Leaving'
    <3>1. Initing'
      BY <1>1, <2>4 DEF PoolInv, Initing, Busy, Sharing, Idle
    <3>2. Holding' /\ Leaving'
      BY <2>2, <2>4 DEF Holding, Leaving, Holds, Sharing
    <3> QED BY <3>1, <3>2
  <2>10. \A i \in 0 .. (size[job] - 1) : ran[job][i] = 1
    <3> SUFFICES ASSUME NEW i \in 0 .. (size[job] - 1) PROVE ran[job][i] = 1
      OBVIOUS
    <3>1. i < curr
      BY <2>7
    <3>2. ~\E t \in Threads : Holds(t) /\ claimed[t] = i
      BY <2>4 DEF Holds, Sharing
    <3> QED BY <1>1, <3>1, <3>2 DEF PoolInv, Taking, Preparing, Resting
  <2>11. Taking'
    BY <1>1, <2>7, <2>10 DEF Taking
  <2>12. Recording'
    BY <1>1, <2>1, <2>2, <2>10 DEF PoolInv, Recording, Preparing
  <2> QED BY <2>5, <2>6, <2>8, <2>9, <2>11, <2>12 DEF PoolInv
<1> QED BY <1>2, <1>3

\* A function throws in the caller's share of the only job: the call is left,
\* and with it the task the caller has held.
LEMMA ThrowKeeps ==
  ASSUME PoolInv, Orderly, Throw, UNCHANGED setup
  PROVE  PoolInv'
<1> USE PoolStays
<1>0. /\ 0 \in Threads /\ Workers \subseteq Threads /\ 0 \notin Workers /\ MaxJobs \in Nat /\ job \in Nat
      /\ \A t \in Threads : t # 0 => t \in Workers
  BY PoolFacts DEF PoolInv, Types
<1>1. /\ Throws /\ pc[0] \in {"init", "computing", "finalize"} /\ Goes(0, "idle") /\ running' = [running EXCEPT ![0] = Idle]
      /\ UNCHANGED <<job, count, curr, end, status, at, claimed, asleep, inited, size, ran, returned>>
  BY DEF Throw, shared, history
<1>2. job >= MaxJobs /\ job # 0 /\ job \notin returned
  BY <1>0, <1>1 DEF Orderly, PoolInv, Members, Returning, Resting
<1>3. /\ pc' \in [Threads -> Places] /\ pc'[0] = "idle" /\ \A u \in Threads : u # 0 => pc'[u] = pc[u]
  BY <1>0, <1>1, ThreadGoes DEF PoolInv, Places, Resting
<1>4. running' \in [Threads -> Nat \X Nat] /\ running'[0] = Idle /\ \A u \in Threads : u # 0 => running'[u] = running[u]
  BY <1>0, <1>1 DEF PoolInv, Types, Idle
<1>5. Types'
  BY <1>1, <1>3, <1>4 DEF PoolInv, Types, Places, Resting
<1>6. Members' /\ Returning'
  BY <1>1, <1>2, <1>3 DEF PoolInv, Members, Returning, Resting, Preparing
<1>7. Quieting' /\ Signalling'
  BY <1>1, <1>2, <1>3 DEF Quieting, Signalling, InCall, Sharing, Preparing
<1>8. Initing'
  BY <1>1, <1>3, <1>4 DEF PoolInv, Initing, Busy, Sharing
<1>9. \A t \in Threads : Holds(t)' => Holds(t)
  BY <1>3 DEF Holds
<1>10. Holding'
  BY <1>1, <1>9 DEF PoolInv, Holding
<1>11. Leaving'
  BY <1>1, <1>3 DEF PoolInv, Leaving
<1>12. Taking'
  BY <1>1, <1>2, <1>3 DEF PoolInv, Taking, Resting, Preparing
<1>13. Recording'
  BY <1>1, <1>3 DEF PoolInv, Recording, Preparing
<1> QED BY <1>5, <1>6, <1>7, <1>8, <1>10, <1>11, <1>12, <1>13 DEF PoolInv

-----------------------------------------------------------------------------
(* process_tasks.                                                          *)

\* While a thread is in it there is a job, published and not over.
LEMMA BusyMeans ==
  ASSUME PoolInv, NEW t \in Threads, Busy(t)
  PROVE  /\ job \in Jobs /\ pc[0] \notin Preparing /\ job \notin returned /\ end = size[job]
         /\ size[job] \in Nat /\ size[job] <= MaxTasks /\ curr \in Nat
<1>1. job \in Nat /\ job <= MaxJobs /\ MaxTasks \in Nat
  BY PoolFacts DEF PoolInv, Types
<1>2. job # 0 /\ job \notin returned /\ pc[0] \notin Preparing
  <2>1. CASE t = 0
    BY <2>1 DEF PoolInv, Members, Returning, Busy, Sharing, Resting, Preparing
  <2>2. CASE t # 0
    <3>1. t \in Workers
      BY <2>2, PoolFacts DEF PoolInv
    <3> QED BY <3>1 DEF PoolInv, Quieting, Quiet
  <2> QED BY <2>1, <2>2
<1>3. job \in Jobs
  BY <1>1, <1>2, PoolFacts DEF PoolInv
<1> QED BY <1>1, <1>2, <1>3 DEF PoolInv, Types, Members

\* A thread goes on in it.
LEMMA ShareKeeps ==
  ASSUME PoolInv, NEW t \in Threads, Busy(t), NEW w \in Sharing, Goes(t, w),
         UNCHANGED <<setup, job, count, end, status, at, size, returned>>
  PROVE  /\ Members' /\ Returning' /\ Quieting' /\ Signalling'
         /\ pc' \in [Threads -> Places] /\ \A u \in Threads : pc'[u] = IF u = t THEN w ELSE pc[u]
         /\ pc'[0] \in Preparing \cup InCall \cup Resting /\ pc'[0] \notin Preparing
         /\ (pc'[0] \in Resting <=> pc[0] \in Resting)
<1> USE PoolStays
<1>1. 0 \in Threads /\ Workers \subseteq Threads /\ w \in Places
  BY PoolFacts DEF PoolInv, Places, InCall
<1>2. pc' \in [Threads -> Places] /\ \A u \in Threads : pc'[u] = IF u = t THEN w ELSE pc[u]
  BY <1>1, ThreadGoes DEF PoolInv
<1>3. job # 0 /\ pc[0] \notin Preparing /\ job \notin returned
  BY BusyMeans, PoolFacts DEF PoolInv
<1>4. /\ pc'[0] \in Preparing \cup InCall \cup Resting /\ pc'[0] \notin Preparing
      /\ (pc'[0] \in Resting <=> pc[0] \in Resting) /\ (pc'[0] \in InCall <=> pc[0] \in InCall)
      /\ \A p \in {"publish", "notify", "notify_exit", "wait"} : pc'[0] = p => pc[0] = p
  BY <1>1, <1>2, <1>3 DEF Busy, Sharing, InCall, Resting, Preparing, PoolInv, Types
<1>5. Members' /\ Returning'
  BY <1>3, <1>4 DEF PoolInv, Members, Returning, Preparing
<1>6. \A u \in Threads : Busy(u)' <=> Busy(u)
  BY <1>2 DEF Busy
<1>7. Quieting' /\ Signalling'
  BY <1>1, <1>3, <1>4, <1>6 DEF PoolInv, Quieting, Signalling
<1> QED BY <1>2, <1>4, <1>5, <1>7

\* A thread runs init_func, and looks whether tasks are left.
LEMMA LookKeeps ==
  ASSUME PoolInv, NEW t \in Threads, InitFunc(t) \/ Look(t), UNCHANGED setup
  PROVE  PoolInv'
<1> USE PoolStays
<1>1. PICK w \in {"look", "finalize", "claim"} :
        /\ Goes(t, w) /\ pc[t] \in {"init", "look"} /\ (w = "finalize" => end - curr <= 0)
        /\ pc[t] = "init" => inited' = [inited EXCEPT ![t] = job] /\ w = "look"
        /\ pc[t] = "look" => inited' = inited
        /\ UNCHANGED <<shared, status, at, claimed, running, asleep, size, ran, returned>>
  BY DEF InitFunc, Look, history
<1>2. w \in Sharing /\ Busy(t) /\ UNCHANGED <<job, count, curr, end>>
  BY <1>1 DEF Sharing, Busy, shared
<1>3. /\ Members' /\ Returning' /\ Quieting' /\ Signalling'
      /\ pc' \in [Threads -> Places] /\ \A u \in Threads : pc'[u] = IF u = t THEN w ELSE pc[u]
      /\ pc'[0] \in Preparing \cup InCall \cup Resting /\ pc'[0] \notin Preparing
      /\ (pc'[0] \in Resting <=> pc[0] \in Resting)
  BY <1>1, <1>2, ShareKeeps
<1>4. /\ pc[0] \notin Preparing /\ job \in 0 .. MaxJobs /\ 0 \in Threads /\ curr \in Nat /\ end \in Nat
  BY <1>2, BusyMeans, PoolFacts DEF PoolInv, Types
<1>5. inited' \in [Threads -> 0 .. MaxJobs] /\ inited'[t] = (IF pc[t] = "init" THEN job ELSE inited[t])
      /\ \A u \in Threads : u # t => inited'[u] = inited[u]
  BY <1>1, <1>4 DEF PoolInv, Types
<1>6. Types'
  BY <1>1, <1>2, <1>3, <1>5 DEF PoolInv, Types, Places
<1>7. Initing'
  <2>1. \A u \in Threads : (Busy(u) /\ pc[u] # "init")' => inited'[u] = job
    BY <1>1, <1>3, <1>5 DEF PoolInv, Initing, Busy, Sharing
  <2>2. \A u \in Threads : pc'[u] = "computing" <=> pc[u] = "computing"
    BY <1>1, <1>3
  <2> QED BY <1>1, <1>2, <2>1, <2>2 DEF PoolInv, Initing, Idle
<1>8. \A u \in Threads : Holds(u)' <=> Holds(u)
  BY <1>1, <1>3 DEF Holds
<1>9. Holding'
  BY <1>1, <1>2, <1>8 DEF PoolInv, Holding
<1>10. Leaving'
  BY <1>1, <1>2, <1>3, <1>4 DEF PoolInv, Leaving
<1>11. Taking' /\ Recording'
  BY <1>1, <1>2, <1>3, <1>4, <1>8 DEF PoolInv, Taking, Recording
<1> QED BY <1>3, <1>6, <1>7, <1>9, <1>10, <1>11 DEF PoolInv

\* A thread takes the next task, if there is one.
LEMMA ClaimKeeps ==
  ASSUME PoolInv, NEW t \in Threads, Claim(t), UNCHANGED setup
  PROVE  PoolInv'
<1> USE PoolStays
<1>1. PICK w \in {"finalize", "compute"} :
        /\ Goes(t, w) /\ pc[t] = "claim" /\ (w = "finalize" <=> curr >= end)
        /\ claimed' = [claimed EXCEPT ![t] = curr] /\ curr' = curr + 1
        /\ UNCHANGED <<job, count, end, status, at, running, asleep, inited, size, ran, returned>>
  BY DEF Claim, history
<1>2. w \in Sharing /\ Busy(t)
  BY <1>1 DEF Sharing, Busy
<1>3. /\ Members' /\ Returning' /\ Quieting' /\ Signalling'
      /\ pc' \in [Threads -> Places] /\ \A u \in Threads : pc'[u] = IF u = t THEN w ELSE pc[u]
      /\ pc'[0] \in Preparing \cup InCall \cup Resting /\ pc'[0] \notin Preparing
      /\ (pc'[0] \in Resting <=> pc[0] \in Resting)
  BY <1>1, <1>2, ShareKeeps
<1>4. /\ pc[0] \notin Preparing /\ 0 \in Threads /\ curr \in Nat /\ end \in Nat /\ end = size[job] /\ job \in Jobs /\ job # 0
  BY <1>2, BusyMeans, PoolFacts DEF PoolInv, Types
<1>5. /\ claimed' \in [Threads -> Nat] /\ \A u \in Threads : claimed'[u] = IF u = t THEN curr ELSE claimed[u]
      /\ \A u \in Threads : claimed[u] \in Nat
  BY <1>1, <1>4 DEF PoolInv, Types
<1>6. Types'
  <2>1. curr' \in Nat
    BY <1>1, <1>4
  <2> QED BY <1>1, <1>3, <1>5, <2>1 DEF PoolInv, Types, Places
<1>7. Initing'
  <2>1. \A u \in Threads : (Busy(u) /\ pc[u] # "init")' => inited'[u] = job
    BY <1>1, <1>3 DEF PoolInv, Initing, Busy, Sharing
  <2>2. \A u \in Threads : pc'[u] = "computing" => pc[u] = "computing" /\ claimed'[u] = claimed[u]
    BY <1>1, <1>3, <1>5
  <2>3. \A u \in Threads : pc[u] = "computing" => pc'[u] = "computing"
    BY <1>1, <1>3
  <2> QED BY <1>1, <2>1, <2>2, <2>3 DEF PoolInv, Initing, Idle
<1>8. \A u \in Threads : u # t => (Holds(u)' <=> Holds(u))
  BY <1>3 DEF Holds
<1>9. Holds(t)' => curr < end
  BY <1>1, <1>3, <1>4 DEF Holds
<1>10. Holding'
  <2>1. ASSUME NEW u \in Threads, Holds(u)', u # t
        PROVE  claimed'[u] < curr /\ claimed'[u] < end /\ ran[job][claimed'[u]] = 0
    BY <1>5, <1>8, <2>1 DEF PoolInv, Holding
  <2>2. ASSUME Holds(t)' PROVE curr < end /\ ran[job][curr] = 0
    <3>1. curr \in 0 .. (size[job] - 1)
      BY <1>4, <1>9, <2>2
    <3> QED BY <1>4, <1>9, <2>2, <3>1 DEF PoolInv, Taking
  <2>3. \A u \in Threads : Holds(u)' => claimed'[u] < curr' /\ claimed'[u] < end' /\ ran'[job'][claimed'[u]] = 0
    BY <1>1, <1>4, <1>5, <2>1, <2>2
  <2>4. \A u, v \in Threads : u # v /\ Holds(u)' /\ Holds(v)' => claimed'[u] # claimed'[v]
    <3> SUFFICES ASSUME NEW u \in Threads, NEW v \in Threads, u # v, Holds(u)', Holds(v)'
                 PROVE  claimed'[u] # claimed'[v]
      OBVIOUS
    <3>1. CASE u = t
      BY <1>4, <1>5, <2>1, <3>1
    <3>2. CASE v = t
      BY <1>4, <1>5, <2>1, <3>2
    <3>3. CASE u # t /\ v # t
      BY <1>5, <1>8, <3>3 DEF PoolInv, Holding
    <3> QED BY <3>1, <3>2, <3>3
  <2> QED BY <2>3, <2>4 DEF Holding
<1>11. Leaving'
  BY <1>1, <1>3, <1>4 DEF PoolInv, Leaving
<1>12. Taking'
  <2> SUFFICES ASSUME NEW i \in 0 .. (size[job] - 1)
               PROVE  /\ ran[job][i] \in {0, 1}
                      /\ i >= curr + 1 => ran[job][i] = 0
                      /\ i < curr + 1 /\ ran[job][i] = 0 =>
                            \/ \E u \in Threads : Holds(u)' /\ claimed'[u] = i
                            \/ pc'[0] \in Resting /\ job \notin returned
    BY <1>1 DEF Taking
  <2>1. /\ ran[job][i] \in {0, 1} /\ (i >= curr => ran[job][i] = 0)
        /\ i < curr /\ ran[job][i] = 0 =>
              \/ \E u \in Threads : Holds(u) /\ claimed[u] = i
              \/ pc[0] \in Resting /\ job \notin returned
    BY <1>4 DEF PoolInv, Taking
  <2>2. \A u \in Threads : Holds(u) => Holds(u)' /\ claimed'[u] = claimed[u]
    BY <1>1, <1>3, <1>5, <1>8 DEF Holds
  <2>3. i = curr => Holds(t)' /\ claimed'[t] = i
    BY <1>1, <1>3, <1>4, <1>5 DEF Holds
  <2>4. i \in Int /\ (i < curr + 1 => i < curr \/ i = curr) /\ (i >= curr + 1 => i >= curr)
    BY <1>4
  <2> QED BY <1>3, <2>1, <2>2, <2>3, <2>4
<1>13. Recording'
  BY <1>1, <1>3, <1>4 DEF PoolInv, Recording
<1> QED BY <1>3, <1>6, <1>7, <1>10, <1>11, <1>12, <1>13 DEF PoolInv

\* A thread begins to compute the task it holds.
LEMMA ComputeKeeps ==
  ASSUME PoolInv, NEW t \in Threads, Compute(t), UNCHANGED setup
  PROVE  PoolInv'
<1> USE PoolStays
<1>1. /\ Goes(t, "computing") /\ pc[t] = "compute" /\ running' = [running EXCEPT ![t] = <<job, claimed[t]>>]
      /\ UNCHANGED <<job, count, curr, end, status, at, claimed, asleep, inited, size, ran, returned>>
  BY DEF Compute, shared, history
<1>2. "computing" \in Sharing /\ Busy(t)
  BY <1>1 DEF Sharing, Busy
<1>3. /\ Members' /\ Returning' /\ Quieting' /\ Signalling'
      /\ pc' \in [Threads -> Places] /\ \A u \in Threads : pc'[u] = IF u = t THEN "computing" ELSE pc[u]
      /\ pc'[0] \in Preparing \cup InCall \cup Resting /\ pc'[0] \notin Preparing
      /\ (pc'[0] \in Resting <=> pc[0] \in Resting)
  BY <1>1, <1>2, ShareKeeps
<1>4. /\ pc[0] \notin Preparing /\ 0 \in Threads /\ job \in Nat
  BY <1>2, BusyMeans, PoolFacts DEF PoolInv, Types
<1>5. running' \in [Threads -> Nat \X Nat] /\ \A u \in Threads : running'[u] = IF u = t THEN <<job, claimed[u]>> ELSE running[u]
  BY <1>1, <1>4 DEF PoolInv, Types
<1>6. Types'
  BY <1>1, <1>3, <1>5 DEF PoolInv, Types, Places
<1>7. Initing'
  <2>1. \A u \in Threads : (Busy(u) /\ pc[u] # "init")' => inited'[u] = job
    BY <1>1, <1>3 DEF PoolInv, Initing, Busy, Sharing
  <2> QED BY <1>1, <1>3, <1>5, <2>1 DEF PoolInv, Initing, Idle
<1>8. \A u \in Threads : Holds(u)' <=> Holds(u)
  BY <1>1, <1>3 DEF Holds
<1>9. Holding' /\ Leaving'
  BY <1>1, <1>3, <1>4, <1>8 DEF PoolInv, Holding, Leaving
<1>10. Taking' /\ Recording'
  BY <1>1, <1>3, <1>4, <1>8 DEF PoolInv, Taking, Recording
<1> QED BY <1>3, <1>6, <1>7, <1>9, <1>10 DEF PoolInv

\* The task is computed: its holder lets it go.
LEMMA ComputedKeeps ==
  ASSUME PoolInv, NEW t \in Threads, Computed(t), UNCHANGED setup
  PROVE  PoolInv'
<1> USE PoolStays
<1> DEFINE c == claimed[t]
<1>1. /\ Goes(t, "look") /\ pc[t] = "computing" /\ running' = [running EXCEPT ![t] = Idle]
      /\ ran' = [ran EXCEPT ![running[t][1]][running[t][2]] = @ + 1]
      /\ UNCHANGED <<job, count, curr, end, status, at, claimed, asleep, inited, size, returned>>
  BY DEF Computed, shared
<1>2. "look" \in Sharing /\ Busy(t) /\ Holds(t) /\ running[t] = <<job, c>>
  BY <1>1 DEF Sharing, Busy, Holds, PoolInv, Initing
<1>3. /\ Members' /\ Returning' /\ Quieting' /\ Signalling'
      /\ pc' \in [Threads -> Places] /\ \A u \in Threads : pc'[u] = IF u = t THEN "look" ELSE pc[u]
      /\ pc'[0] \in Preparing \cup InCall \cup Resting /\ pc'[0] \notin Preparing
      /\ (pc'[0] \in Resting <=> pc[0] \in Resting)
  BY <1>1, <1>2, ShareKeeps
<1>4. /\ pc[0] \notin Preparing /\ 0 \in Threads /\ job \in Jobs /\ job \in Nat /\ job \notin returned /\ job # 0
      /\ end = size[job] /\ size[job] \in Nat /\ size[job] <= MaxTasks /\ curr \in Nat /\ MaxTasks \in Nat
  BY <1>2, BusyMeans, PoolFacts DEF PoolInv, Types
<1>5. c \in 0 .. (MaxTasks - 1) /\ c < curr /\ ran[job][c] = 0
  BY <1>2, <1>4 DEF PoolInv, Holding, Types
<1>6. /\ ran' \in [Jobs -> [0 .. (MaxTasks - 1) -> Nat]] /\ ran'[job][c] = 1
      /\ \A j \in Jobs, i \in 0 .. (MaxTasks - 1) : j # job \/ i # c => ran'[j][i] = ran[j][i]
  <2>1. ran' = [ran EXCEPT ![job][c] = ran[job][c] + 1]
    BY <1>1, <1>2
  <2>2. ran \in [Jobs -> [0 .. (MaxTasks - 1) -> Nat]]
    BY DEF PoolInv, Types
  <2> QED BY <1>4, <1>5, <2>1, <2>2
<1>7. running' \in [Threads -> Nat \X Nat] /\ \A u \in Threads : running'[u] = IF u = t THEN Idle ELSE running[u]
  BY <1>1 DEF PoolInv, Types, Idle
<1>8. Types'
  BY <1>1, <1>3, <1>6, <1>7 DEF PoolInv, Types, Places
<1>9. Initing'
  <2>1. \A u \in Threads : (Busy(u) /\ pc[u] # "init")' => inited'[u] = job
    BY <1>1, <1>3 DEF PoolInv, Initing, Busy, Sharing
  <2> QED BY <1>1, <1>3, <1>7, <2>1 DEF PoolInv, Initing, Idle
<1>10. \A u \in Threads : Holds(u)' <=> Holds(u) /\ u # t
  BY <1>3 DEF Holds
<1>11. Holding'
  <2>1. ASSUME NEW u \in Threads, Holds(u)' PROVE claimed[u] < curr /\ claimed[u] < end /\ ran'[job][claimed[u]] = 0
    <3>1. Holds(u) /\ u # t
      BY <1>10, <2>1
    <3>2. claimed[u] # c /\ claimed[u] < curr /\ claimed[u] < end /\ ran[job][claimed[u]] = 0 /\ claimed[u] \in Nat
      BY <1>2, <3>1 DEF PoolInv, Holding, Types
    <3>3. claimed[u] \in 0 .. (MaxTasks - 1)
      BY <1>4, <3>2
    <3> QED BY <1>4, <1>6, <3>2, <3>3
  <2>2. \A u, v \in Threads : u # v /\ Holds(u)' /\ Holds(v)' => claimed[u] # claimed[v]
    BY <1>10 DEF PoolInv, Holding
  <2> QED BY <1>1, <2>1, <2>2 DEF Holding
<1>12. Leaving'
  BY <1>1, <1>3, <1>4 DEF PoolInv, Leaving
<1>13. Taking'
  <2> SUFFICES ASSUME NEW i \in 0 .. (size[job] - 1)
               PROVE  /\ ran'[job][i] \in {0, 1}
                      /\ i >= curr => ran'[job][i] = 0
                      /\ i < curr /\ ran'[job][i] = 0 =>
                            \/ \E u \in Threads : Holds(u)' /\ claimed[u] = i
                            \/ pc'[0] \in Resting /\ job \notin returned
    BY <1>1 DEF Taking
  <2>1. /\ ran[job][i] \in {0, 1} /\ (i >= curr => ran[job][i] = 0)
        /\ i < curr /\ ran[job][i] = 0 =>
              \/ \E u \in Threads : Holds(u) /\ claimed[u] = i
              \/ pc[0] \in Resting /\ job \notin returned
    BY <1>4 DEF PoolInv, Taking
  <2>2. CASE i = c
    BY <1>4, <1>5, <1>6, <2>2
  <2>3. CASE i # c
    <3>1. i \in 0 .. (MaxTasks - 1)
      BY <1>4
    <3>2. ran'[job][i] = ran[job][i]
      BY <1>4, <1>6, <2>3, <3>1
    <3> QED BY <1>3, <1>10, <2>1, <2>3, <3>2
  <2> QED BY <2>2, <2>3
<1>14. Recording'
  <2>1. ASSUME NEW j \in Jobs, j > job PROVE \A i \in 0 .. (MaxTasks - 1) : ran'[j][i] = 0
    <3>1. j # job
      BY <1>4, <2>1
    <3>2. \A i \in 0 .. (MaxTasks - 1) : ran[j][i] = 0
      BY <2>1 DEF PoolInv, Recording
    <3> QED BY <1>6, <3>1, <3>2
  <2>2. ASSUME NEW j \in returned, NEW i \in 0 .. (size[j] - 1) PROVE ran'[j][i] = 1
    <3>1. j \in Jobs /\ j # job /\ ran[j][i] = 1
      BY <1>4 DEF PoolInv, Returning, Recording
    <3>2. i \in 0 .. (MaxTasks - 1)
      <4>1. size[j] \in 0 .. MaxTasks
        BY <3>1 DEF PoolInv, Types
      <4> QED BY <1>4, <4>1
    <3> QED BY <1>6, <3>1, <3>2
  <2> QED BY <1>1, <1>3, <2>1, <2>2 DEF Recording
<1> QED BY <1>3, <1>8, <1>9, <1>11, <1>12, <1>13, <1>14 DEF PoolInv

\* A thread leaves the job: a worker says so by its status, the caller waits.
LEMMA FinalizeKeeps ==
  ASSUME PoolInv, NEW t \in Threads, Finalize(t), UNCHANGED setup
  PROVE  PoolInv'
<1> USE PoolStays
<1> DEFINE w == IF t = 0 THEN "wait" ELSE "loop"
<1>1. /\ Goes(t, w) /\ pc[t] = "finalize" /\ status' = [status EXCEPT ![t] = "WAITING"]
      /\ at' = (IF t = 0 THEN 0 ELSE at)
      /\ UNCHANGED <<job, count, curr, end, claimed, running, asleep, inited, size, ran, returned>>
  BY DEF Finalize, shared, history
<1>2. /\ w \in Places /\ w \notin Sharing /\ 0 \in Threads /\ Workers \subseteq Threads /\ N \in Nat /\ Busy(t)
      /\ 0 \notin Workers /\ \A u \in Workers : u \in Nat
  BY <1>1, PoolFacts DEF PoolInv, Places, InCall, Sharing, Busy
<1>3. job # 0 /\ pc[0] \notin Preparing /\ job \notin returned /\ curr >= end
  BY <1>1, <1>2, BusyMeans, PoolFacts DEF PoolInv, Leaving
<1>4. Types'
  <2>1. status' \in [Threads -> {"WAITING", "WORKING", "EXIT"}] /\ asleep' \subseteq Workers /\ at' \in 0 .. N
    BY <1>1, <1>2 DEF PoolInv, Types
  <2> QED BY <1>1, <1>2, <2>1, PassTypes DEF InCall
<1>5. Returning' /\ Initing' /\ Holding' /\ Leaving' /\ Taking' /\ Recording'
  BY <1>1, <1>2, <1>3, PassKeeps DEF Holds, Resting, Preparing, Sharing
<1>6. \A u \in Threads : pc'[u] = IF u = t THEN w ELSE pc[u]
  BY <1>1, <1>2, ThreadGoes DEF PoolInv
<1>7. /\ pc'[0] \notin Preparing /\ (pc'[0] \in InCall => pc[0] \in InCall)
      /\ \A p \in {"publish", "notify", "notify_exit"} : pc'[0] = p => pc[0] = p
  BY <1>1, <1>2, <1>3, <1>6 DEF Preparing, InCall, Sharing
<1>8. Members'
  BY <1>1, <1>3, <1>6, <1>7 DEF PoolInv, Members, Preparing
<1>9. Quieting'
  BY <1>1, <1>3, <1>7 DEF Quieting
<1>10. Signalling'
  <2>1. \A u \in Workers : Busy(u)' => Busy(u) /\ u # t
    BY <1>2, <1>6 DEF Busy
  <2>2. \A u \in Workers : status'[u] = IF u = t THEN "WAITING" ELSE status[u]
    BY <1>1, <1>2 DEF PoolInv, Types
  <2>3. pc'[0] = "wait" => (t = 0 /\ at' = 0) \/ (pc[0] = "wait" /\ at' = at)
    BY <1>1, <1>2, <1>6
  <2>4. \A u \in Workers : (Busy(u)' /\ pc'[0] \in InCall => status'[u] = "WORKING")
                           /\ (status'[u] = "WORKING" /\ pc'[0] \in InCall => u < count)
    BY <1>7, <2>1, <2>2 DEF PoolInv, Signalling
  <2>5. pc'[0] = "wait" => \A u \in Workers : u < at' => status'[u] # "WORKING"
    BY <1>2, <2>2, <2>3 DEF PoolInv, Signalling
  <2> QED BY <1>1, <2>4, <2>5 DEF Signalling
<1> QED BY <1>4, <1>5, <1>8, <1>9, <1>10 DEF PoolInv

-----------------------------------------------------------------------------
(* The invariant, and what it says.                                        *)

\* Every step of an orderly pool preserves the invariant.
LEMMA PoolStep ==
  ASSUME Orderly => PoolInv, [Next]_vars
  PROVE  (Orderly => PoolInv)'
<1>1. UNCHANGED setup
  BY DEF Next, vars
<1>2. Orderly' <=> Orderly
  BY <1>1, PoolStays DEF Orderly
<1> SUFFICES ASSUME Orderly PROVE PoolInv'
  BY <1>2
<1>3. PoolInv /\ 0 \in Threads /\ Workers \subseteq Threads
  BY PoolFacts DEF PoolInv
<1>4. CASE UNCHANGED vars
  BY <1>3, <1>4, PoolStays DEF vars, shared, history, PoolInv, Types, Members, Returning, Quieting, Signalling, Initing,
     Holding, Leaving, Taking, Recording, Quiet, Busy, Holds
<1>5. CASE Next
  <2>1. ASSUME NEW t \in Threads, ProcessTasks(t) PROVE PoolInv'
    BY <1>1, <1>3, <2>1, LookKeeps, ClaimKeeps, ComputeKeeps, ComputedKeeps, FinalizeKeeps DEF ProcessTasks
  <2>2. ASSUME CallerStep PROVE PoolInv'
    BY <1>1, <1>3, <2>1, <2>2, SetMembersKeeps, CallKeeps, WaitKeeps, EndingKeeps DEF CallerStep
  <2>3. ASSUME NEW n \in 0 .. MaxTasks, SetFunctions(n) PROVE PoolInv'
    BY <1>1, <1>3, <2>3, SetFunctionsKeeps
  <2>4. ASSUME Throw \/ Destroy PROVE PoolInv'
    BY <1>1, <1>3, <2>4, ThrowKeeps, EndingKeeps
  <2>5. ASSUME NEW t \in Workers, WorkerStep(t) \/ Doze(t) PROVE PoolInv'
    BY <1>1, <1>3, <2>1, <2>5, IdlingKeeps DEF WorkerStep
  <2> QED BY <1>5, <2>2, <2>3, <2>4, <2>5 DEF Next
<1> QED BY <1>4, <1>5

\* A new pool satisfies it.
LEMMA PoolStart ==
  ASSUME Init
  PROVE  PoolInv
<1>1. /\ setup \in Setups /\ N \in Nat /\ MaxTasks \in Nat /\ MaxJobs \in Nat /\ 0 \in Threads
      /\ Workers \subseteq Threads /\ 0 \notin Workers
      /\ \A j \in Jobs : j \in Nat /\ j # 0
  BY PoolFacts DEF Init
<1>2. /\ pc[0] = "idle" /\ \A t \in Threads : pc[t] \in {"idle", "loop"}
      /\ \A t \in Threads : running[t] = Idle /\ status[t] = "WAITING"
  BY <1>1 DEF Init
<1>3. Types
  <2>1. pc \in [Threads -> Places]
    BY DEF Init, Places, Resting
  <2>2. status \in [Threads -> {"WAITING", "WORKING", "EXIT"}] /\ claimed \in [Threads -> Nat]
    BY DEF Init
  <2>3. inited \in [Threads -> 0 .. MaxJobs] /\ size \in [Jobs -> 0 .. MaxTasks]
    BY <1>1 DEF Init
  <2>4. ran \in [Jobs -> [0 .. (MaxTasks - 1) -> Nat]]
    BY DEF Init
  <2>5. running \in [Threads -> Nat \X Nat]
    BY DEF Init, Idle
  <2>6. job \in 0 .. MaxJobs /\ count \in 0 .. N /\ curr \in Nat /\ end \in 0 .. MaxTasks /\ at \in 0 .. N /\ asleep \subseteq Workers
    BY <1>1 DEF Init
  <2> QED BY <1>2, <2>1, <2>2, <2>3, <2>4, <2>5, <2>6 DEF Types, Places, Resting
<1>4. Members /\ Returning /\ Quieting /\ Signalling
  BY <1>1, <1>2 DEF Init, Members, Returning, Quieting, Quiet, Signalling, Busy, Resting, Sharing, InCall, Preparing
<1>5. Initing /\ Holding /\ Leaving
  BY <1>2 DEF Initing, Holding, Leaving, Busy, Holds, Sharing
<1>6. Taking /\ Recording
  BY <1>1 DEF Init, Taking, Recording
<1> QED BY <1>1, <1>3, <1>4, <1>5, <1>6 DEF PoolInv

\* The inductive invariant holds in every state of an orderly pool.
LEMMA PoolIsInductive == Spec => [](Orderly => PoolInv)
BY PoolStart, PoolStep, PTL DEF Spec

\* In a pool whose caller does not throw, or throws in its only job, a call of
\* do_work_stealing_job that has returned has computed every task once and has
\* left no thread in it, and no index beyond the end is computed: for any
\* number of threads, tasks and jobs.
THEOREM JobsComplete == Spec => [](Orderly => JobInv)
<1>1. ASSUME PoolInv PROVE JobInv
  <2>0. 0 \in Threads /\ (\A j : j \in Jobs <=> j \in Nat /\ j # 0 /\ j <= MaxJobs)
    BY <1>1, PoolFacts DEF PoolInv
  <2>1. ASSUME NEW t \in Threads, running[t] # Idle
        PROVE  running[t][1] = job /\ job \in Jobs /\ job \notin returned /\ running[t][2] \in 0 .. (size[job] - 1)
    <3>1. pc[t] = "computing" /\ running[t] = <<job, claimed[t]>>
      BY <1>1, <2>1 DEF PoolInv, Initing
    <3>2. Busy(t) /\ Holds(t)
      BY <3>1 DEF Busy, Holds, Sharing
    <3>3. job \in Jobs /\ job \notin returned /\ end = size[job] /\ size[job] \in Nat
      BY <1>1, <3>2, BusyMeans
    <3>4. claimed[t] \in Nat /\ claimed[t] < end
      BY <1>1, <3>2 DEF PoolInv, Types, Holding
    <3> QED BY <3>1, <3>3, <3>4
  <2>2. TypeOK
    <3>1. \A t \in Threads : \/ running[t] = Idle
                             \/ running[t][1] \in Jobs /\ running[t][2] \in 0 .. (size[running[t][1]] - 1)
      BY <2>1
    <3>2. returned \subseteq Jobs
      BY <1>1 DEF PoolInv, Returning
    <3> QED BY <1>1, <3>1, <3>2 DEF TypeOK, PoolInv, Types
  <2>3. JobDone
    <3>1. \A j \in returned : \A i \in 0 .. (size[j] - 1) : ran[j][i] = 1
      BY <1>1 DEF PoolInv, Recording
    <3>2. ASSUME NEW j \in returned, NEW t \in Threads PROVE running[t][1] # j
      <4>1. j # 0
        BY <1>1, <2>0 DEF PoolInv, Returning
      <4>2. Idle[1] = 0
        BY DEF Idle
      <4> QED BY <2>1, <4>1, <4>2
    <3> QED BY <3>1, <3>2 DEF JobDone
  <2> QED BY <2>2, <2>3 DEF JobInv
<1> QED BY <1>1, PoolIsInductive, PTL

\* There a thread computes with the functions it has initialised for: the
\* caller replaces no member of the pool that a worker still uses.
THEOREM WorkersComputeTheirJob == Spec => [](Orderly => ComputesItsJob)
<1>1. ASSUME PoolInv PROVE ComputesItsJob
  <2>1. ASSUME NEW t \in Threads, running[t] # Idle PROVE running[t][1] = job /\ inited[t] = job
    <3>1. pc[t] = "computing" /\ running[t] = <<job, claimed[t]>>
      BY <1>1, <2>1 DEF PoolInv, Initing
    <3>2. inited[t] = job
      BY <1>1, <3>1 DEF PoolInv, Initing, Busy, Sharing
    <3> QED BY <3>1, <3>2
  <2> QED BY <2>1 DEF ComputesItsJob
<1> QED BY <1>1, PoolIsInductive, PTL
=============================================================================
