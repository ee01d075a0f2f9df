-------------------------- MODULE DistributedLayer --------------------------
(***************************************************************************)
(* One mixture-of-experts layer in distributed fine-tuning                 *)
(* (kt-kernel/python/sft: layer.py, autograd.py, base.py, dist_utils.py).  *)
(* Rank 0 owns the CPU backend; the other ranks send it their rows and get *)
(* back theirs.  Every rank runs the same program, a local failure has to  *)
(* become a failure of all of them, and rank 0's backend keeps three       *)
(* things from one call to the next: the output a checkpoint retains, the  *)
(* activations saved for backward, and the gradients the optimizer reads.  *)
(*                                                                         *)
(* A step is one micro-batch, or one evaluation.  A rank that waits in a   *)
(* collective leaves it when all ranks are in it; in a gather or a scatter *)
(* rank 0 meets the ranks that have rows.  The backend is one that         *)
(* publishes its gradient buffers to the optimizer (authoritative).        *)
(***************************************************************************)
EXTENDS Integers, FiniteSets

CONSTANTS
    World,      \* number of ranks
    Setups      \* the policies and failures to look at

VARIABLE setup
Policy   == setup.policy  \* "retain": a checkpoint reuses the CPU output; "recompute":
                          \* it computes it again; "plain": there is no checkpoint
Faults   == setup.faults  \* what may fail, see the actions
MaxSteps == setup.steps   \* bound on the steps

ASSUME LayerAssumption ==
    /\ World \in Nat \ {0, 1}
    /\ \A s \in Setups :
          /\ s.policy \in {"retain", "recompute", "plain"}
          /\ s.faults \subseteq {"control", "backend", "gpu", "post", "repack", "route"}
          /\ s.steps \in Nat

Ranks == 0..(World - 1)
Steps == 1..MaxSteps

\* Where a rank waits for all the others, and where for rank 0.
Collectives == {"state", "submitted", "gpu_sync", "output_sync", "bsync", "repack_sync"}
               \cup (IF Policy = "retain" THEN {"recomputed"} ELSE {})
Transfers   == {"gather", "scatter", "bgather", "bscatter"}
Rest        == {"done", "failed"}

VARIABLES
    pc, phase,  \* where each rank is: in a forward, a recompute, a backward
    err,        \* the failure each rank has caught and not yet shared
    odd,        \* whether a rank disagrees about the control flow
    strays,     \* history: the ranks whose routing has raised in this step
    rows,       \* the rows of each rank
    step,       \* number of the step
    cache,      \* _checkpoint_cache_state and the step of the output
    pending,    \* _pending_save_for_backward: the forward submitted saves
    saved,      \* the step whose activations the backend holds
    depth,      \* _cache_depth
    grads,      \* the window of the optimizer: open or not, and whose
                \* gradients the buffers sum
    completed,  \* history: the training steps that ended well
    used        \* history: the step whose activations the last backward used

ranks   == <<pc, phase, err, odd>>
backend == <<cache, pending, saved, depth, grads, used>>
vars == <<ranks, rows, strays, step, backend, completed, setup>>

Empty    == [state |-> "EMPTY", of |-> 0]
Poisoned == [state |-> "POISONED", of |-> 0]
Closed   == [open |-> FALSE, of |-> {}]

Init ==
    /\ setup \in Setups
    /\ pc = [r \in Ranks |-> "done"]
    /\ phase = [r \in Ranks |-> "forward"]
    /\ err = [r \in Ranks |-> FALSE]
    /\ odd = [r \in Ranks |-> FALSE]
    /\ rows = [r \in Ranks |-> 0]
    /\ strays = {} /\ step = 0
    /\ cache = Empty
    /\ pending = FALSE
    /\ saved = 0 /\ depth = 0
    /\ grads = Closed
    /\ completed = {} /\ used = 0

Goes(r, where) == pc' = [pc EXCEPT ![r] = where]
Fails(r)       == err' = [err EXCEPT ![r] = TRUE]

\* A failure leaves the forward or the backward; backward catches the one
\* of its recompute.
AllRaise ==
    /\ pc' = [r \in Ranks |-> IF phase[r] = "recompute" THEN "recomputed" ELSE "failed"]
    /\ err' = [r \in Ranks |-> phase[r] = "recompute"]

AllGo(zero, others) ==
    /\ pc' = [r \in Ranks |-> IF r = 0 THEN zero ELSE others]
    /\ err' = [r \in Ranks |-> FALSE]

Meet(label) == \A r \in Ranks : pc[r] = label

-----------------------------------------------------------------------------
(* What the backend does with its caches *)

\* The action of the checkpoint in a phase.
Caches(ph)  == Policy = "retain" /\ ph = "forward"
Reuses(ph)  == Policy = "retain" /\ ph = "recompute"
Retains(ph) == Caches(ph) \/ Reuses(ph)

\* A first forward under a checkpoint that computes again saves nothing.
Saves(ph) == \/ ph = "recompute"
             \/ ph = "forward" /\ Policy # "recompute"

\* Mutant: activations that no backward has used stay.
SavedByFirst(ph) == IF Saves(ph) /\ depth = 0 THEN step ELSE saved
\* Mutant: the forward saves nothing.
SavedByNone(ph)  == saved
\* The task of a forward that saves overwrites the activations there are.
SavedBy(ph)      == IF Saves(ph) THEN step ELSE saved

-----------------------------------------------------------------------------
(* The forward, and the recompute, which runs it again *)

\* The trainer: the next micro-batch, or an evaluation.
StartStep(ph) ==
    /\ \A r \in Ranks : pc[r] \in Rest
    /\ step < MaxSteps
    /\ step' = step + 1
    /\ \E q \in [Ranks -> {0, 1}] : rows' = q
    /\ pc' = [r \in Ranks |-> "route"]
    /\ phase' = [r \in Ranks |-> ph]
    /\ err' = [r \in Ranks |-> FALSE]
    /\ odd' = [r \in Ranks |-> FALSE]
    /\ strays' = {}
    /\ UNCHANGED <<backend, completed>>

\* Routing, on the rank itself.  Fault "control": the rank is in another
\* phase or policy than its peers, or owns a backend it must not own.
Route(r) ==
    /\ pc[r] = "route"
    /\ Goes(r, "state")
    /\ \/ UNCHANGED odd
       \/ "control" \in Faults /\ odd' = [odd EXCEPT ![r] = TRUE]
    /\ UNCHANGED <<phase, err, rows, strays, step, backend, completed>>

\* Fault "route": the routing raises on one rank, outside any try and before
\* the first exchange with the others.  The rank leaves its forward; in a
\* recompute its backward catches the failure.
RouteFails(r) ==
    /\ "route" \in Faults /\ pc[r] = "route"
    /\ IF phase[r] = "recompute" THEN Goes(r, "recomputed") /\ Fails(r)
                                 ELSE Goes(r, "failed") /\ UNCHANGED err
    /\ strays' = strays \cup {r}
    /\ UNCHANGED <<phase, odd, rows, step, backend, completed>>

\* _all_gather_checkpoint_state: every rank sees what every rank is about
\* to do, and all raise when they do not agree.
AgreeOnState ==
    /\ Meet("state")
    /\ IF \E r \in Ranks : odd[r]
         THEN AllRaise
         ELSE AllGo("refresh", IF Reuses(phase[0]) THEN "submitted" ELSE "gather")
    /\ UNCHANGED <<phase, odd, rows, strays, step, backend, completed>>

\* validate_checkpoint_cache_empty
PreflightFails == cache.state # "EMPTY"

\* Rank 0 refreshes the weights and validates its cache.  A live cache in a
\* first forward, and any failure in a recompute, poison it.
Refresh ==
    /\ pc[0] = "refresh"
    /\ Goes(0, IF Reuses(phase[0]) THEN "submitted" ELSE "gather")
    /\ LET invalid == \/ Caches(phase[0]) /\ PreflightFails
                      \/ Reuses(phase[0]) /\ cache.state # "READY"
       IN \/ /\ invalid
             /\ Fails(0) /\ cache' = Poisoned
          \/ /\ "backend" \in Faults
             /\ Fails(0) /\ cache' = IF Reuses(phase[0]) THEN Poisoned ELSE cache
          \/ ~invalid /\ UNCHANGED <<err, cache>>
    /\ UNCHANGED <<phase, odd, rows, strays, step, pending, saved, depth, grads, completed, used>>

\* Mutant: rank 0 waits for ranks without rows, too.
TransferPeersAll == Ranks
\* The ranks that take part in a gather or a scatter.
TransferPeers == {r \in Ranks : r = 0 \/ rows[r] > 0}

AfterTransfer(label, r) ==
    CASE label = "gather"   -> IF r = 0 THEN "submit" ELSE "submitted"
      [] label = "scatter"  -> IF phase[r] = "recompute" THEN "recomputed"
                               ELSE IF phase[r] = "eval" THEN "done" ELSE "between"
      [] label = "bgather"  -> IF r = 0 THEN "bcpu" ELSE "bsync"
      [] label = "bscatter" -> IF r = 0 THEN "repack" ELSE "repack_sync"

\* _dist_gather_varlen_to_rank0, _dist_scatter_varlen_from_rank0
Transfer(label) ==
    /\ \A r \in TransferPeers : pc[r] = label
    /\ pc' = [r \in Ranks |-> IF r \in TransferPeers THEN AfterTransfer(label, r) ELSE pc[r]]
    /\ UNCHANGED <<phase, err, odd, rows, strays, step, backend, completed>>

\* A rank without rows passes by.
PassBy(r) ==
    /\ r # 0 /\ rows[r] = 0 /\ pc[r] \in Transfers
    /\ Goes(r, AfterTransfer(pc[r], r))
    /\ UNCHANGED <<phase, err, odd, rows, strays, step, backend, completed>>

\* The task runs whether or not somebody waits for it in the end.
Submit ==
    /\ pc[0] = "submit"
    /\ Goes(0, "submitted")
    /\ \/ /\ ~err[0]
          /\ pending' = Saves(phase[0])
          /\ saved' = SavedBy(phase[0])
          /\ UNCHANGED <<err, cache>>
       \/ /\ err[0] \/ "backend" \in Faults
          /\ Fails(0)
          /\ cache' = IF Caches(phase[0]) THEN Poisoned ELSE cache
          /\ UNCHANGED <<pending, saved>>
    /\ UNCHANGED <<phase, odd, rows, strays, step, depth, grads, completed, used>>

\* _sync_rank0_exception
ShareSubmit ==
    /\ Meet("submitted")
    /\ IF err[0] THEN AllRaise ELSE AllGo("gpu", "gpu")
    /\ UNCHANGED <<phase, odd, rows, strays, step, backend, completed>>

\* The shared expert and the GPU experts, on every rank.
GpuExperts(r) ==
    /\ pc[r] = "gpu"
    /\ Goes(r, "gpu_sync")
    /\ UNCHANGED err \/ ("gpu" \in Faults /\ Fails(r))
    /\ UNCHANGED <<phase, odd, rows, strays, step, backend, completed>>

\* Mutant: the ranks that failed raise, the others go on.
ShareGpuLocally ==
    /\ Meet("gpu_sync")
    /\ pc' = [r \in Ranks |-> IF err[r] THEN IF phase[r] = "recompute" THEN "recomputed"
                                             ELSE "failed"
                              ELSE IF r = 0 THEN "output" ELSE "output_sync"]
    /\ err' = [r \in Ranks |-> err[r] /\ phase[r] = "recompute"]
    /\ UNCHANGED <<phase, odd, rows, strays, step, backend, completed>>

\* _sync_any_rank_exception; the retained output is lost with the step.
ShareGpu ==
    /\ Meet("gpu_sync")
    /\ IF \E r \in Ranks : err[r]
         THEN /\ AllRaise
              /\ cache' = IF Retains(phase[0]) THEN Poisoned ELSE cache
         ELSE AllGo("output", "output_sync") /\ UNCHANGED cache
    /\ UNCHANGED <<phase, odd, rows, strays, step, pending, saved, depth, grads, completed, used>>

\* Rank 0 waits for the CPU, or takes the output it retained.
Output ==
    /\ pc[0] = "output"
    /\ Goes(0, "output_sync")
    /\ \/ /\ "backend" \in Faults
          /\ Fails(0)
          /\ cache' = IF Retains(phase[0]) THEN Poisoned ELSE cache
          /\ UNCHANGED depth
       \/ /\ Reuses(phase[0])
          /\ IF cache.state = "READY" THEN UNCHANGED <<err, cache>>
                                      ELSE Fails(0) /\ cache' = Poisoned
          /\ UNCHANGED depth
       \/ /\ ~Reuses(phase[0])
          /\ depth' = IF pending THEN 1 ELSE depth
          /\ IF Caches(phase[0])
               THEN IF cache.state = "EMPTY"
                      THEN cache' = [state |-> "READY", of |-> step] /\ UNCHANGED err
                      ELSE Fails(0) /\ cache' = Poisoned
               ELSE UNCHANGED <<err, cache>>
    /\ UNCHANGED <<phase, odd, rows, strays, step, pending, saved, grads, completed, used>>

ShareOutput ==
    /\ Meet("output_sync")
    /\ IF err[0] THEN AllRaise ELSE AllGo("scatter", "scatter")
    /\ UNCHANGED <<phase, odd, rows, strays, step, backend, completed>>

-----------------------------------------------------------------------------
(* The backward *)

\* The trainer gives the step up after its forward.
Abandon ==
    /\ Meet("between")
    /\ AllGo("failed", "failed")
    /\ UNCHANGED <<phase, odd, rows, strays, step, backend, completed>>

\* Reading the saved tensors runs the forward again, under a checkpoint.
BeginBackward(r) ==
    /\ pc[r] = "between"
    /\ IF Policy = "plain"
         THEN Goes(r, "recomputed") /\ UNCHANGED phase
         ELSE Goes(r, "route") /\ phase' = [phase EXCEPT ![r] = "recompute"]
    /\ UNCHANGED <<err, odd, rows, strays, step, backend, completed>>

\* Mutant: the failure does not touch the retained output.
ShareRecomputeKeeps ==
    /\ Policy = "retain" /\ Meet("recomputed")
    /\ phase' = [r \in Ranks |-> "backward"]
    /\ IF \E r \in Ranks : err[r] THEN AllGo("failed", "failed")
                                  ELSE AllGo("bgather", "bgather")
    /\ UNCHANGED <<odd, rows, strays, step, backend, completed>>

\* With a retained output the ranks share the failure of their recomputes.
ShareRecompute ==
    /\ Policy = "retain" /\ Meet("recomputed")
    /\ phase' = [r \in Ranks |-> "backward"]
    /\ IF \E r \in Ranks : err[r]
         THEN AllGo("failed", "failed") /\ cache' = Poisoned
         ELSE AllGo("bgather", "bgather") /\ UNCHANGED cache
    /\ UNCHANGED <<odd, rows, strays, step, pending, saved, depth, grads, completed, used>>

\* Without one each rank raises its own.
Recomputed(r) ==
    /\ Policy # "retain" /\ pc[r] = "recomputed"
    /\ phase' = [phase EXCEPT ![r] = "backward"]
    /\ Goes(r, IF err[r] THEN "failed" ELSE "bgather")
    /\ err' = [err EXCEPT ![r] = FALSE]
    /\ UNCHANGED <<odd, rows, strays, step, backend, completed>>

ClearAfterBackward(failed) ==
    IF (failed /\ Policy = "retain") \/ cache.state = "POISONED" THEN Poisoned ELSE Empty

\* Rank 0's backward: it needs saved activations, adds to the gradients when
\* the window is open and overwrites them when not, and publishes them.  A
\* failure of the task closes the window and uses up the activations; fault
\* "post": the results cannot be split after they were published.
CpuBackward ==
    /\ pc[0] = "bcpu"
    /\ Goes(0, "bsync")
    /\ \/ /\ depth = 0
          /\ Fails(0) /\ cache' = ClearAfterBackward(TRUE)
          /\ UNCHANGED <<saved, depth, grads, used>>
       \/ /\ depth > 0 /\ "backend" \in Faults
          /\ Fails(0) /\ cache' = ClearAfterBackward(TRUE)
          /\ depth' = depth - 1 /\ saved' = 0 /\ grads' = Closed
          /\ UNCHANGED used
       \/ /\ depth > 0
          /\ depth' = depth - 1 /\ saved' = 0 /\ used' = saved
          /\ \/ /\ grads' = [open |-> TRUE,
                             of |-> (IF grads.open THEN grads.of ELSE {}) \cup {step}]
                /\ cache' = ClearAfterBackward(FALSE)
                /\ UNCHANGED err
             \/ /\ "post" \in Faults
                /\ grads' = Closed
                /\ Fails(0) /\ cache' = ClearAfterBackward(TRUE)
    /\ UNCHANGED <<phase, odd, rows, strays, step, pending, completed>>

ShareBackward ==
    /\ Meet("bsync")
    /\ IF err[0] THEN AllGo("failed", "failed") ELSE AllGo("bscatter", "bscatter")
    /\ UNCHANGED <<phase, odd, rows, strays, step, backend, completed>>

\* Mutant: the window stays open when the repack fails.
RepackFailureOpen   == grads
RepackFailureWindow == Closed

\* The weights of the next layer are prepared.
Repack ==
    /\ pc[0] = "repack"
    /\ Goes(0, "repack_sync")
    /\ \/ UNCHANGED <<err, grads>>
       \/ "repack" \in Faults /\ Fails(0) /\ grads' = RepackFailureWindow
    /\ UNCHANGED <<phase, odd, rows, strays, step, cache, pending, saved, depth, completed, used>>

\* Mutant: rank 0 keeps the failure to itself.
ShareRepackZero ==
    /\ Meet("repack_sync")
    /\ AllGo(IF err[0] THEN "failed" ELSE "done", "done")
    /\ completed' = IF err[0] THEN completed ELSE completed \cup {step}
    /\ UNCHANGED <<phase, odd, rows, strays, step, backend>>

ShareRepack ==
    /\ Meet("repack_sync")
    /\ IF err[0]
         THEN AllGo("failed", "failed") /\ UNCHANGED completed
         ELSE AllGo("done", "done") /\ completed' = completed \cup {step}
    /\ UNCHANGED <<phase, odd, rows, strays, step, backend>>

\* update_kt_lora_pointers, after the optimizer has read the gradients.
OptimizerStep ==
    /\ \A r \in Ranks : pc[r] \in Rest
    /\ grads.open
    /\ grads' = Closed
    /\ UNCHANGED <<ranks, rows, strays, step, cache, pending, saved, depth, completed, used>>

-----------------------------------------------------------------------------
RankStep(r) ==
    \/ Route(r) \/ RouteFails(r) \/ PassBy(r) \/ GpuExperts(r) \/ Recomputed(r)

Running ==
    \/ \E r \in Ranks : RankStep(r)
    \/ \E label \in Transfers : Transfer(label)
    \/ AgreeOnState \/ Refresh \/ Submit \/ ShareSubmit \/ ShareGpu \/ Output
    \/ ShareOutput \/ ShareRecompute \/ CpuBackward \/ ShareBackward \/ Repack
    \/ ShareRepack

Trainer ==
    \/ \E ph \in {"forward", "eval"} : StartStep(ph)
    \/ Abandon \/ OptimizerStep
    \/ \E r \in Ranks : BeginBackward(r)

Next ==
    /\ Running \/ Trainer
    /\ UNCHANGED setup

Runs(A) == A /\ UNCHANGED setup

\* The ranks run on, and a backward that one of them has begun is begun by
\* all; the trainer need not begin anything.
Spec ==
    /\ Init /\ [][Next]_vars
    /\ WF_vars(Runs(Running))
    /\ \A r \in Ranks : WF_vars(Runs(BeginBackward(r)))

-----------------------------------------------------------------------------
(* Properties *)

\* The variables stay in their domains, and activations are there when the
\* depth says so.
TypeOK ==
    /\ pc \in [Ranks -> Collectives \cup Transfers \cup Rest \cup
                {"route", "refresh", "submit", "gpu", "output", "between",
                 "recomputed", "bcpu", "repack"}]
    /\ phase \in [Ranks -> {"forward", "eval", "recompute", "backward"}]
    /\ err \in [Ranks -> BOOLEAN] /\ odd \in [Ranks -> BOOLEAN]
    /\ rows \in [Ranks -> {0, 1}] /\ strays \subseteq Ranks /\ step \in 0..MaxSteps
    /\ cache.state \in {"EMPTY", "READY", "POISONED"} /\ cache.of \in 0..MaxSteps
    /\ pending \in BOOLEAN
    /\ saved \in 0..MaxSteps /\ depth \in {0, 1} /\ (depth = 1 => saved # 0)
    /\ grads.open \in BOOLEAN /\ grads.of \subseteq Steps
    /\ completed \subseteq Steps /\ used \in 0..MaxSteps

\* No rank waits in a collective while another waits in a different one, or
\* has left the step: but for the ranks whose routing has raised, which their
\* peers cannot hear of.
NoneIsLeftWaiting ==
    \A r, s \in Ranks \ strays :
        pc[r] \in Collectives =>
            /\ pc[s] \in Collectives => pc[s] = pc[r]
            /\ pc[s] \notin Rest

\* A step ends well on every rank or on none.
EndTogether == ~ \E r, s \in Ranks : pc[r] = "failed" /\ pc[s] = "done"

\* Where the routing of some ranks has raised, no other rank gets past the
\* first exchange of that forward (in a recompute it may still be on its way
\* there, from the forward before): nothing is submitted without them.
StraysStopTheOthers ==
    strays # {} =>
        \A r \in Ranks \ strays : pc[r] \in {"scatter", "between", "route", "state"}

\* The backward of a step works on the activations of that step, also when
\* earlier steps were abandoned or failed half way.
BackwardUsesItsForward ==
    pc[0] \in {"bsync", "bscatter", "repack", "repack_sync"} /\ ~err[0] => used = step

\* The gradients the optimizer can read come from steps that ended well.
GradsOfCompletedSteps ==
    (\A r \in Ranks : pc[r] \in Rest) /\ grads.open => grads.of \subseteq completed

\* The output retained for a step does not outlive it: it is used up or
\* poisoned, unless the trainer gave the step up before its backward.
RetainedOutputEnds ==
    (\A r \in Ranks : pc[r] \in Rest /\ phase[r] \in {"recompute", "backward"})
        => ~(cache.state = "READY" /\ cache.of = step)

\* A step that has begun ends on every rank, or stands between its forward
\* and its backward on every rank; unless the routing has raised on some
\* ranks and not on the others, which then wait for ever.
StepsEnd ==
    \/ \A r \in Ranks : pc[r] \notin Rest ~> pc[r] \in Rest \cup {"between"}
    \/ <>[](strays \notin {{}, Ranks})

\* The ranks stay together: a failure that one of them has within the
\* exchanges is one of all, none waits for one that has left, and a step ends
\* the same way on all.  A failure of the routing, before the exchanges, is
\* not shared; it stops the other ranks at the first of them.
RanksInv == TypeOK /\ NoneIsLeftWaiting /\ EndTogether /\ StraysStopTheOthers
=============================================================================
