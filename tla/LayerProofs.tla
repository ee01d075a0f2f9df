---------------------------- MODULE LayerProofs -----------------------------
(***************************************************************************)
(* What holds of the distributed layer for any number of ranks and steps,  *)
(* any policy and any failures: the ranks stay together, or wait for those *)
(* whose routing has raised, the backward uses the activations of its own  *)
(* step, the optimizer sees the gradients of completed steps only, and a   *)
(* retained output ends with its step.                                     *)
(***************************************************************************)
EXTENDS DistributedLayer, TLAPS

-----------------------------------------------------------------------------
(* Where the ranks can be at the same time.  A rank waits in a collective  *)
(* with the others in the same zone, and all leave it together.            *)

Same(r) == /\ r \notin strays
           /\ phase[r] = phase[0] /\ phase[r] # "backward"
           /\ phase[r] = "recompute" => Policy # "plain"

AtRest(r)  == /\ pc[r] \in Rest /\ pc[r] = pc[0] /\ phase[r] # "recompute" /\ ~err[r]
              /\ r \in strays <=> 0 \in strays

\* The beginning of a forward, which a rank may leave with the others waiting.
AtStart(r) == /\ \/ r \notin strays /\ pc[r] \in {"route", "state"}
                 \/ r \in strays /\ pc[r] = "failed"
              /\ ~err[r]
              /\ phase[r] = phase[0] /\ phase[r] \in {"forward", "eval"}
AtSubmit(r) ==
    /\ Same(r) /\ (err[r] => r = 0)
    /\ pc[r] \in {"gather", "submitted"} \/ (r = 0 /\ pc[r] \in {"refresh", "submit"})
AtGpu(r)    == Same(r) /\ pc[r] \in {"gpu", "gpu_sync"}
AtOutput(r) == /\ Same(r) /\ (err[r] => r = 0)
               /\ pc[r] = "output_sync" \/ (r = 0 /\ pc[r] = "output")

\* The end of an evaluation.
AtEval(r) == r \notin strays /\ phase[r] = "eval" /\ pc[r] \in {"scatter", "done"} /\ ~err[r]

\* The backward up to the failure rank 0 shares.
InBackward(r) == /\ r \notin strays
                 /\ phase[r] = "backward" /\ (err[r] => r = 0 /\ pc[r] = "bsync")
                 /\ pc[r] \in {"bgather", "bsync"} \/ (r = 0 /\ pc[r] = "bcpu")

\* Without a checkpoint the ranks go from the forward to the backward one by one;
AtPlain(r) == /\ Policy = "plain"
              /\ \/ /\ r \notin strays /\ phase[r] = "forward" /\ ~err[r]
                    /\ pc[r] \in {"scatter", "between", "recomputed"}
                 \/ InBackward(r)

\* with one they go to the recompute, whose routing may raise on some of them,
AtFirst(r) ==
    /\ Policy # "plain"
    /\ \/ /\ r \notin strays /\ ~err[r]
          /\ \/ phase[r] = "forward" /\ pc[r] \in {"scatter", "between"}
             \/ phase[r] = "recompute" /\ pc[r] \in {"route", "state"}
       \/ /\ r \in strays
          /\ \/ phase[r] = "recompute" /\ pc[r] = "recomputed" /\ err[r]
             \/ Policy = "recompute" /\ phase[r] = "backward" /\ pc[r] = "failed" /\ ~err[r]

\* and from the end of the recompute, one by one or together, to the backward;
AtAgain(r) ==
    /\ Policy # "plain"
    /\ \/ /\ r \notin strays /\ ~err[r]
          /\ phase[r] = "recompute" /\ pc[r] \in {"scatter", "recomputed"}
       \/ Policy = "recompute" /\ InBackward(r)

\* or it failed on all of them.
AtRaised(r) ==
    /\ Policy # "plain" /\ r \notin strays
    /\ \/ phase[r] = "recompute" /\ pc[r] = "recomputed" /\ err[r]
       \/ Policy = "recompute" /\ phase[r] = "backward" /\ pc[r] = "failed" /\ ~err[r]

\* The end of the backward.
AtEnd(r) == /\ r \notin strays
            /\ phase[r] = "backward" /\ (err[r] => r = 0 /\ pc[r] = "repack_sync")
            /\ pc[r] \in {"bscatter", "repack_sync"} \/ (r = 0 /\ pc[r] = "repack")

Zones ==
    \/ \A r \in Ranks : AtRest(r)
    \/ \A r \in Ranks : AtStart(r)
    \/ \A r \in Ranks : AtSubmit(r)
    \/ \A r \in Ranks : AtGpu(r)
    \/ \A r \in Ranks : AtOutput(r)
    \/ \A r \in Ranks : AtEval(r)
    \/ \A r \in Ranks : AtPlain(r)
    \/ \A r \in Ranks : AtFirst(r)
    \/ \A r \in Ranks : AtAgain(r)
    \/ \A r \in Ranks : AtRaised(r)
    \/ \A r \in Ranks : InBackward(r)
    \/ \A r \in Ranks : AtEnd(r)

-----------------------------------------------------------------------------
(* What rank 0's backend holds, at each point of rank 0's program.         *)

\* The submission of this phase has succeeded.
Submitted == \/ pc[0] \in {"gpu", "gpu_sync", "output", "output_sync", "scatter"}
             \/ pc[0] \in {"submitted", "recomputed"} /\ ~err[0]
             \/ pc[0] = "between"

\* The activations of this step have been saved.
Armed == \/ phase[0] = "forward" /\ Policy # "recompute" /\ Submitted
         \/ phase[0] = "recompute" /\ Policy = "retain"
         \/ phase[0] = "recompute" /\ Submitted
         \/ phase[0] = "backward" /\ pc[0] \in {"bgather", "bcpu"}

\* The backward of this step has succeeded, its step not yet.
Accumulated == pc[0] \in {"bsync", "bscatter", "repack", "repack_sync"} /\ ~err[0]

BackendInv ==
    /\ pc[0] \notin Rest => step # 0
    /\ Armed => saved = step
    /\ Submitted /\ phase[0] \in {"forward", "eval", "recompute"} /\ ~Reuses(phase[0])
           /\ pc[0] \in {"submitted", "gpu", "gpu_sync", "output"} => pending = Saves(phase[0])
    /\ Accumulated => used = step
    /\ grads.open => grads.of \subseteq completed \cup (IF Accumulated THEN {step} ELSE {})
    /\ cache.state = "READY" => Policy = "retain"
    /\ phase[0] = "backward" /\ pc[0] \notin {"bgather", "bcpu"} => cache.state # "READY"

LayerInv == setup \in Setups /\ TypeOK /\ Zones /\ BackendInv

-----------------------------------------------------------------------------
(* The places of a rank, without the policy.                               *)

Places == {"state", "submitted", "gpu_sync", "output_sync", "bsync", "repack_sync",
           "recomputed", "gather", "scatter", "bgather", "bscatter", "done", "failed",
           "route", "refresh", "submit", "gpu", "output", "between", "bcpu", "repack"}

\* Rank 0 is a rank.
LEMMA ZeroIsRank == 0 \in Ranks
BY LayerAssumption DEF Ranks

\* What the setups say of the policy and of the bound.
LEMMA SetupFacts ==
    ASSUME setup \in Setups
    PROVE  Policy \in {"retain", "recompute", "plain"} /\ MaxSteps \in Nat
BY LayerAssumption DEF Policy, MaxSteps

\* The place of a rank, its phase and its failure are of their types.
LEMMA RankTypes ==
    ASSUME TypeOK
    PROVE  /\ pc \in [Ranks -> Places]
           /\ phase \in [Ranks -> {"forward", "eval", "recompute", "backward"}]
           /\ err \in [Ranks -> BOOLEAN]
<1> DEFINE all == Collectives \cup Transfers \cup Rest \cup
                    {"route", "refresh", "submit", "gpu", "output", "between",
                     "recomputed", "bcpu", "repack"}
<1>1. all = Places
  BY DEF Collectives, Transfers, Rest, Places
<1>2. pc \in [Ranks -> all]
  BY DEF TypeOK
<1> QED BY <1>1, <1>2 DEF TypeOK

-----------------------------------------------------------------------------
(* Every step leads from a zone into a zone.                               *)

\* A step of the trainer that begins a micro-batch or an evaluation.
LEMMA StartStepZones ==
    ASSUME LayerInv, NEW ph \in {"forward", "eval"}, StartStep(ph), UNCHANGED setup
    PROVE  Zones'
<1>1. \A q \in Ranks : AtStart(q)'
  BY ZeroIsRank DEF StartStep, AtStart
<1> QED BY <1>1 DEF Zones

\* Routing keeps a rank in its zone.
LEMMA RouteZones ==
    ASSUME LayerInv, NEW r \in Ranks, Route(r), UNCHANGED setup
    PROVE  Zones'
<1>0. /\ strays' = strays
      /\ pc \in [Ranks -> Places] /\ pc[r] = "route" /\ pc' = [pc EXCEPT ![r] = "state"]
      /\ phase' = phase /\ err' = err
  BY RankTypes DEF LayerInv, Route, Goes
<1>1. CASE \A q \in Ranks : AtStart(q)
  <2>1. \A q \in Ranks : AtStart(q)'
    BY <1>0, <1>1 DEF AtStart
  <2> QED BY <2>1 DEF Zones
<1>2. CASE \A q \in Ranks : AtFirst(q)
  <2>1. \A q \in Ranks : AtFirst(q)'
    BY <1>0, <1>2 DEF AtFirst, Policy
  <2> QED BY <2>1 DEF Zones
<1>3. (\A q \in Ranks : AtStart(q)) \/ (\A q \in Ranks : AtFirst(q))
  BY <1>0, ZeroIsRank DEF LayerInv, Zones, AtRest, AtStart, AtSubmit, AtGpu, AtOutput, AtEval,
     AtPlain, AtFirst, AtAgain, AtRaised, InBackward, AtEnd, Rest
<1> QED BY <1>1, <1>2, <1>3

\* A rank whose routing raises stays with the ranks that have not passed the
\* first collective of the forward or of the recompute.
LEMMA RouteFailsZones ==
    ASSUME LayerInv, NEW r \in Ranks, RouteFails(r), UNCHANGED setup
    PROVE  Zones'
<1>0. /\ pc \in [Ranks -> Places] /\ err \in [Ranks -> BOOLEAN] /\ pc[r] = "route"
      /\ phase' = phase /\ strays' = strays \cup {r}
  BY RankTypes DEF LayerInv, RouteFails
<1>1. (\A q \in Ranks : AtStart(q)) \/ (\A q \in Ranks : AtFirst(q))
  BY <1>0, ZeroIsRank DEF LayerInv, Zones, AtRest, AtStart, AtSubmit, AtGpu, AtOutput, AtEval,
     AtPlain, AtFirst, AtAgain, AtRaised, InBackward, AtEnd, Rest
<1>2. CASE \A q \in Ranks : AtStart(q)
  <2>1. pc' = [pc EXCEPT ![r] = "failed"] /\ err' = err
    BY <1>2 DEF RouteFails, Goes, AtStart
  <2>2. \A q \in Ranks : AtStart(q)'
    BY <1>0, <1>2, <2>1 DEF AtStart
  <2> QED BY <2>2 DEF Zones
<1>3. CASE \A q \in Ranks : AtFirst(q)
  <2>1. phase[r] = "recompute"
    BY <1>0, <1>3 DEF AtFirst
  <2>2. pc' = [pc EXCEPT ![r] = "recomputed"] /\ err' = [err EXCEPT ![r] = TRUE]
    BY <2>1 DEF RouteFails, Goes, Fails
  <2>3. \A q \in Ranks : AtFirst(q)'
    BY <1>0, <1>3, <2>1, <2>2 DEF AtFirst, Policy
  <2> QED BY <2>3 DEF Zones
<1> QED BY <1>1, <1>2, <1>3

\* The experts on the GPU may fail on any rank.
LEMMA GpuExpertsZones ==
    ASSUME LayerInv, NEW r \in Ranks, GpuExperts(r), UNCHANGED setup
    PROVE  Zones'
<1>0. /\ strays' = strays
      /\ pc \in [Ranks -> Places] /\ err \in [Ranks -> BOOLEAN]
      /\ pc[r] = "gpu" /\ pc' = [pc EXCEPT ![r] = "gpu_sync"] /\ phase' = phase
  BY RankTypes, SetupFacts, ZeroIsRank DEF LayerInv, GpuExperts, Goes
<1>1. CASE \A q \in Ranks : AtGpu(q)
  <2>1. \A q \in Ranks : AtGpu(q)'
    BY <1>0, <1>1, ZeroIsRank DEF AtGpu, Same, Policy
  <2> QED BY <2>1 DEF Zones
<1>2. \/ \A q \in Ranks : AtGpu(q)
  BY <1>0, ZeroIsRank DEF LayerInv, Zones, AtRest, AtStart, AtSubmit, AtGpu, AtOutput, AtEval,
     AtPlain, AtFirst, AtAgain, AtRaised, InBackward, AtEnd, Rest
<1> QED BY <1>1, <1>2

\* Without a retained output each rank goes on from its recompute alone.
LEMMA RecomputedZones ==
    ASSUME LayerInv, NEW r \in Ranks, Recomputed(r), UNCHANGED setup
    PROVE  Zones'
<1>0. /\ strays' = strays
      /\ pc \in [Ranks -> Places] /\ err \in [Ranks -> BOOLEAN]
      /\ phase \in [Ranks -> {"forward", "eval", "recompute", "backward"}]
      /\ Policy \in {"recompute", "plain"} /\ pc[r] = "recomputed"
      /\ phase' = [phase EXCEPT ![r] = "backward"]
      /\ pc' = [pc EXCEPT ![r] = IF err[r] THEN "failed" ELSE "bgather"]
      /\ err' = [err EXCEPT ![r] = FALSE]
  BY RankTypes, SetupFacts, ZeroIsRank DEF LayerInv, Recomputed, Goes
<1>1. CASE \A q \in Ranks : AtPlain(q)
  <2>1. \A q \in Ranks : AtPlain(q)'
    BY <1>0, <1>1, ZeroIsRank DEF AtPlain, InBackward, Policy
  <2> QED BY <2>1 DEF Zones
<1>2. CASE \A q \in Ranks : AtFirst(q)
  <2>1. \A q \in Ranks : AtFirst(q)'
    BY <1>0, <1>2, ZeroIsRank DEF AtFirst, Policy
  <2> QED BY <2>1 DEF Zones
<1>3. CASE \A q \in Ranks : AtAgain(q)
  <2>1. \A q \in Ranks : AtAgain(q)'
    BY <1>0, <1>3, ZeroIsRank DEF AtAgain, InBackward, Policy
  <2> QED BY <2>1 DEF Zones
<1>4. CASE \A q \in Ranks : AtRaised(q)
  <2>1. \A q \in Ranks : AtRaised(q)'
    BY <1>0, <1>4, ZeroIsRank DEF AtRaised, Policy
  <2> QED BY <2>1 DEF Zones
<1>5. \/ \A q \in Ranks : AtPlain(q)
      \/ \A q \in Ranks : AtFirst(q)
      \/ \A q \in Ranks : AtAgain(q)
      \/ \A q \in Ranks : AtRaised(q)
  BY <1>0, ZeroIsRank DEF LayerInv, Zones, AtRest, AtStart, AtSubmit, AtGpu, AtOutput, AtEval,
     AtPlain, AtFirst, AtAgain, AtRaised, InBackward, AtEnd, Rest
<1> QED BY <1>1, <1>2, <1>3, <1>4, <1>5

\* The ranks begin the backward one by one.
LEMMA BeginBackwardZones ==
    ASSUME LayerInv, NEW r \in Ranks, BeginBackward(r), UNCHANGED setup
    PROVE  Zones'
<1>0. /\ strays' = strays
      /\ pc \in [Ranks -> Places] /\ err \in [Ranks -> BOOLEAN]
      /\ phase \in [Ranks -> {"forward", "eval", "recompute", "backward"}]
      /\ pc[r] = "between" /\ err' = err
      /\ IF Policy = "plain"
           THEN pc' = [pc EXCEPT ![r] = "recomputed"] /\ phase' = phase
           ELSE /\ pc' = [pc EXCEPT ![r] = "route"]
                /\ phase' = [phase EXCEPT ![r] = "recompute"]
  BY RankTypes, SetupFacts, ZeroIsRank DEF LayerInv, BeginBackward, Goes
<1>1. CASE \A q \in Ranks : AtPlain(q)
  <2>1. \A q \in Ranks : AtPlain(q)'
    BY <1>0, <1>1, ZeroIsRank DEF AtPlain, InBackward, Policy
  <2> QED BY <2>1 DEF Zones
<1>2. CASE \A q \in Ranks : AtFirst(q)
  <2>1. \A q \in Ranks : AtFirst(q)'
    BY <1>0, <1>2, ZeroIsRank DEF AtFirst, Policy
  <2> QED BY <2>1 DEF Zones
<1>3. \/ \A q \in Ranks : AtPlain(q)
      \/ \A q \in Ranks : AtFirst(q)
  BY <1>0, ZeroIsRank DEF LayerInv, Zones, AtRest, AtStart, AtSubmit, AtGpu, AtOutput, AtEval,
     AtPlain, AtFirst, AtAgain, AtRaised, InBackward, AtEnd, Rest
<1> QED BY <1>1, <1>2, <1>3

\* Rank 0 prepares the submission.
LEMMA RefreshZones ==
    ASSUME LayerInv, Refresh, UNCHANGED setup
    PROVE  Zones'
<1>0. /\ strays' = strays
      /\ pc \in [Ranks -> Places] /\ err \in [Ranks -> BOOLEAN]
      /\ pc[0] = "refresh" /\ phase' = phase
      /\ \E place \in {"submitted", "gather"} : pc' = [pc EXCEPT ![0] = place]
      /\ err' = err \/ err' = [err EXCEPT ![0] = TRUE]
  BY RankTypes, SetupFacts, ZeroIsRank DEF LayerInv, Refresh, Goes, Fails
<1>1. CASE \A q \in Ranks : AtSubmit(q)
  <2>1. \A q \in Ranks : AtSubmit(q)'
    BY <1>0, <1>1, ZeroIsRank DEF AtSubmit, Same, Policy
  <2> QED BY <2>1 DEF Zones
<1>2. \/ \A q \in Ranks : AtSubmit(q)
  BY <1>0, ZeroIsRank DEF LayerInv, Zones, AtRest, AtStart, AtSubmit, AtGpu, AtOutput, AtEval,
     AtPlain, AtFirst, AtAgain, AtRaised, InBackward, AtEnd, Rest
<1> QED BY <1>1, <1>2

\* Rank 0 submits the task, or fails to.
LEMMA SubmitZones ==
    ASSUME LayerInv, Submit, UNCHANGED setup
    PROVE  Zones'
<1>0. /\ strays' = strays
      /\ pc \in [Ranks -> Places] /\ err \in [Ranks -> BOOLEAN]
      /\ pc[0] = "submit" /\ phase' = phase /\ pc' = [pc EXCEPT ![0] = "submitted"]
      /\ err' = err \/ err' = [err EXCEPT ![0] = TRUE]
  BY RankTypes, SetupFacts, ZeroIsRank DEF LayerInv, Submit, Goes, Fails
<1>1. CASE \A q \in Ranks : AtSubmit(q)
  <2>1. \A q \in Ranks : AtSubmit(q)'
    BY <1>0, <1>1, ZeroIsRank DEF AtSubmit, Same, Policy
  <2> QED BY <2>1 DEF Zones
<1>2. \/ \A q \in Ranks : AtSubmit(q)
  BY <1>0, ZeroIsRank DEF LayerInv, Zones, AtRest, AtStart, AtSubmit, AtGpu, AtOutput, AtEval,
     AtPlain, AtFirst, AtAgain, AtRaised, InBackward, AtEnd, Rest
<1> QED BY <1>1, <1>2

\* Rank 0 has its output, or fails.
LEMMA OutputZones ==
    ASSUME LayerInv, Output, UNCHANGED setup
    PROVE  Zones'
<1>0. /\ strays' = strays
      /\ pc \in [Ranks -> Places] /\ err \in [Ranks -> BOOLEAN]
      /\ pc[0] = "output" /\ phase' = phase /\ pc' = [pc EXCEPT ![0] = "output_sync"]
      /\ err' = err \/ err' = [err EXCEPT ![0] = TRUE]
  BY RankTypes, SetupFacts, ZeroIsRank DEF LayerInv, Output, Goes, Fails
<1>1. CASE \A q \in Ranks : AtOutput(q)
  <2>1. \A q \in Ranks : AtOutput(q)'
    BY <1>0, <1>1, ZeroIsRank DEF AtOutput, Same, Policy
  <2> QED BY <2>1 DEF Zones
<1>2. \/ \A q \in Ranks : AtOutput(q)
  BY <1>0, ZeroIsRank DEF LayerInv, Zones, AtRest, AtStart, AtSubmit, AtGpu, AtOutput, AtEval,
     AtPlain, AtFirst, AtAgain, AtRaised, InBackward, AtEnd, Rest
<1> QED BY <1>1, <1>2

\* Rank 0 runs the backward, or fails to.
LEMMA CpuBackwardZones ==
    ASSUME LayerInv, CpuBackward, UNCHANGED setup
    PROVE  Zones'
<1>0. /\ strays' = strays
      /\ pc \in [Ranks -> Places] /\ err \in [Ranks -> BOOLEAN]
      /\ pc[0] = "bcpu" /\ phase' = phase /\ pc' = [pc EXCEPT ![0] = "bsync"]
      /\ err' = err \/ err' = [err EXCEPT ![0] = TRUE]
  BY RankTypes, SetupFacts, ZeroIsRank DEF LayerInv, CpuBackward, Goes, Fails
<1>1. CASE \A q \in Ranks : AtPlain(q)
  <2>1. \A q \in Ranks : AtPlain(q)'
    BY <1>0, <1>1, ZeroIsRank DEF AtPlain, InBackward, Policy
  <2> QED BY <2>1 DEF Zones
<1>2. CASE \A q \in Ranks : AtAgain(q)
  <2>1. \A q \in Ranks : AtAgain(q)'
    BY <1>0, <1>2, ZeroIsRank DEF AtAgain, InBackward, Policy
  <2> QED BY <2>1 DEF Zones
<1>3. CASE \A q \in Ranks : InBackward(q)
  <2>1. \A q \in Ranks : InBackward(q)'
    BY <1>0, <1>3, ZeroIsRank DEF InBackward
  <2> QED BY <2>1 DEF Zones
<1>4. \/ \A q \in Ranks : AtPlain(q)
      \/ \A q \in Ranks : AtAgain(q)
      \/ \A q \in Ranks : InBackward(q)
  BY <1>0, ZeroIsRank DEF LayerInv, Zones, AtRest, AtStart, AtSubmit, AtGpu, AtOutput, AtEval,
     AtPlain, AtFirst, AtAgain, AtRaised, InBackward, AtEnd, Rest
<1> QED BY <1>1, <1>2, <1>3, <1>4

\* Rank 0 prepares the weights of the next layer, or fails to.
LEMMA RepackZones ==
    ASSUME LayerInv, Repack, UNCHANGED setup
    PROVE  Zones'
<1>0. /\ strays' = strays
      /\ pc \in [Ranks -> Places] /\ err \in [Ranks -> BOOLEAN]
      /\ pc[0] = "repack" /\ phase' = phase /\ pc' = [pc EXCEPT ![0] = "repack_sync"]
      /\ err' = err \/ err' = [err EXCEPT ![0] = TRUE]
  BY RankTypes, SetupFacts, ZeroIsRank DEF LayerInv, Repack, Goes, Fails
<1>1. CASE \A q \in Ranks : AtEnd(q)
  <2>1. \A q \in Ranks : AtEnd(q)'
    BY <1>0, <1>1, ZeroIsRank DEF AtEnd
  <2> QED BY <2>1 DEF Zones
<1>2. \/ \A q \in Ranks : AtEnd(q)
  BY <1>0, ZeroIsRank DEF LayerInv, Zones, AtRest, AtStart, AtSubmit, AtGpu, AtOutput, AtEval,
     AtPlain, AtFirst, AtAgain, AtRaised, InBackward, AtEnd, Rest
<1> QED BY <1>1, <1>2

\* A rank without rows passes a transfer by.
LEMMA PassByZones ==
    ASSUME LayerInv, NEW r \in Ranks, PassBy(r), UNCHANGED setup
    PROVE  Zones'
<1>0. /\ strays' = strays
      /\ pc \in [Ranks -> Places] /\ err \in [Ranks -> BOOLEAN]
      /\ r # 0 /\ pc[r] \in Transfers /\ phase' = phase /\ err' = err
      /\ pc' = [pc EXCEPT ![r] = AfterTransfer(pc[r], r)]
  BY RankTypes, SetupFacts, ZeroIsRank DEF LayerInv, PassBy, Goes
<1>1. CASE \A q \in Ranks : AtSubmit(q)
  <2>1. \A q \in Ranks : AtSubmit(q)'
    BY <1>0, <1>1, ZeroIsRank DEF AtSubmit, Same, Policy, Transfers, AfterTransfer
  <2> QED BY <2>1 DEF Zones
<1>2. CASE \A q \in Ranks : AtEval(q)
  <2>1. \A q \in Ranks : AtEval(q)'
    BY <1>0, <1>2, ZeroIsRank DEF AtEval, Transfers, AfterTransfer
  <2> QED BY <2>1 DEF Zones
<1>3. CASE \A q \in Ranks : AtPlain(q)
  <2>1. \A q \in Ranks : AtPlain(q)'
    BY <1>0, <1>3, ZeroIsRank DEF AtPlain, InBackward, Policy, Transfers, AfterTransfer
  <2> QED BY <2>1 DEF Zones
<1>4. CASE \A q \in Ranks : AtFirst(q)
  <2>1. \A q \in Ranks : AtFirst(q)'
    BY <1>0, <1>4, ZeroIsRank DEF AtFirst, Policy, Transfers, AfterTransfer
  <2> QED BY <2>1 DEF Zones
<1>5. CASE \A q \in Ranks : AtAgain(q)
  <2>1. \A q \in Ranks : AtAgain(q)'
    BY <1>0, <1>5, ZeroIsRank DEF AtAgain, InBackward, Policy, Transfers, AfterTransfer
  <2> QED BY <2>1 DEF Zones
<1>6. CASE \A q \in Ranks : InBackward(q)
  <2>1. \A q \in Ranks : InBackward(q)'
    BY <1>0, <1>6, ZeroIsRank DEF InBackward, Transfers, AfterTransfer
  <2> QED BY <2>1 DEF Zones
<1>7. CASE \A q \in Ranks : AtEnd(q)
  <2>1. \A q \in Ranks : AtEnd(q)'
    BY <1>0, <1>7, ZeroIsRank DEF AtEnd, Transfers, AfterTransfer
  <2> QED BY <2>1 DEF Zones
<1>8. \/ \A q \in Ranks : AtSubmit(q)
      \/ \A q \in Ranks : AtEval(q)
      \/ \A q \in Ranks : AtPlain(q)
      \/ \A q \in Ranks : AtFirst(q)
      \/ \A q \in Ranks : AtAgain(q)
      \/ \A q \in Ranks : InBackward(q)
      \/ \A q \in Ranks : AtEnd(q)
  BY <1>0, ZeroIsRank DEF LayerInv, Zones, AtRest, AtStart, AtSubmit, AtGpu, AtOutput, AtEval,
     AtPlain, AtFirst, AtAgain, AtRaised, InBackward, AtEnd, Rest, Transfers
<1> QED BY <1>1, <1>2, <1>3, <1>4, <1>5, <1>6, <1>7, <1>8

\* A transfer keeps the ranks in their zone.
LEMMA TransferZones ==
    ASSUME LayerInv, NEW label \in Transfers, Transfer(label), UNCHANGED setup
    PROVE  Zones'
<1>0. /\ strays' = strays
      /\ pc \in [Ranks -> Places] /\ pc[0] = label /\ phase' = phase /\ err' = err
      /\ \A q \in Ranks : pc'[q] = pc[q] \/ (pc[q] = label /\ pc'[q] = AfterTransfer(label, q))
  BY RankTypes, ZeroIsRank DEF LayerInv, Transfer, TransferPeers
<1>1. CASE label = "gather"
  <2>1. \A q \in Ranks : AtSubmit(q)
    BY <1>0, <1>1, ZeroIsRank DEF LayerInv, Zones, AtRest, AtStart, AtSubmit, AtGpu, AtOutput,
       AtEval, AtPlain, AtFirst, AtAgain, AtRaised, InBackward, AtEnd, Rest
  <2>2. \A q \in Ranks : AtSubmit(q)'
    BY <1>0, <1>1, <2>1, ZeroIsRank DEF AtSubmit, Same, Policy, AfterTransfer
  <2> QED BY <2>2 DEF Zones
<1>2. CASE label = "scatter"
  <2>1. \/ \A q \in Ranks : AtEval(q)
        \/ \A q \in Ranks : AtPlain(q)
        \/ \A q \in Ranks : AtFirst(q)
        \/ \A q \in Ranks : AtAgain(q)
    BY <1>0, <1>2, ZeroIsRank DEF LayerInv, Zones, AtRest, AtStart, AtSubmit, AtGpu, AtOutput,
       AtEval, AtPlain, AtFirst, AtAgain, AtRaised, InBackward, AtEnd, Rest
  <2>2. ASSUME \A q \in Ranks : AtEval(q) PROVE \A q \in Ranks : AtEval(q)'
    BY <1>0, <1>2, <2>2 DEF AtEval, AfterTransfer
  <2>3. ASSUME \A q \in Ranks : AtPlain(q) PROVE \A q \in Ranks : AtPlain(q)'
    BY <1>0, <1>2, <2>3 DEF AtPlain, InBackward, Policy, AfterTransfer
  <2>4. ASSUME \A q \in Ranks : AtFirst(q) PROVE \A q \in Ranks : AtFirst(q)'
    BY <1>0, <1>2, <2>4 DEF AtFirst, Policy, AfterTransfer
  <2>5. ASSUME \A q \in Ranks : AtAgain(q) PROVE \A q \in Ranks : AtAgain(q)'
    BY <1>0, <1>2, <2>5 DEF AtAgain, InBackward, Policy, AfterTransfer
  <2> QED BY <2>1, <2>2, <2>3, <2>4, <2>5 DEF Zones
<1>3. CASE label = "bgather"
  <2>1. \/ \A q \in Ranks : AtPlain(q)
        \/ \A q \in Ranks : AtAgain(q)
        \/ \A q \in Ranks : InBackward(q)
    BY <1>0, <1>3, ZeroIsRank DEF LayerInv, Zones, AtRest, AtStart, AtSubmit, AtGpu, AtOutput,
       AtEval, AtPlain, AtFirst, AtAgain, AtRaised, InBackward, AtEnd, Rest
  <2>2. ASSUME \A q \in Ranks : AtPlain(q) PROVE \A q \in Ranks : AtPlain(q)'
    BY <1>0, <1>3, <2>2 DEF AtPlain, InBackward, Policy, AfterTransfer
  <2>3. ASSUME \A q \in Ranks : AtAgain(q) PROVE \A q \in Ranks : AtAgain(q)'
    BY <1>0, <1>3, <2>3 DEF AtAgain, InBackward, Policy, AfterTransfer
  <2>4. ASSUME \A q \in Ranks : InBackward(q) PROVE \A q \in Ranks : InBackward(q)'
    BY <1>0, <1>3, <2>4 DEF InBackward, AfterTransfer
  <2> QED BY <2>1, <2>2, <2>3, <2>4 DEF Zones
<1>4. CASE label = "bscatter"
  <2>1. \A q \in Ranks : AtEnd(q)
    BY <1>0, <1>4, ZeroIsRank DEF LayerInv, Zones, AtRest, AtStart, AtSubmit, AtGpu, AtOutput,
       AtEval, AtPlain, AtFirst, AtAgain, AtRaised, InBackward, AtEnd, Rest
  <2>2. \A q \in Ranks : AtEnd(q)'
    BY <1>0, <1>4, <2>1 DEF AtEnd, AfterTransfer
  <2> QED BY <2>2 DEF Zones
<1> QED BY <1>1, <1>2, <1>3, <1>4 DEF Transfers

\* In the first collective the ranks agree to raise or to go on.
LEMMA AgreeOnStateZones ==
    ASSUME LayerInv, AgreeOnState, UNCHANGED setup
    PROVE  Zones'
<1>0. /\ strays' = strays
      /\ \A q \in Ranks : /\ pc[q] = "state"
                          /\ phase[q] \in {"forward", "eval", "recompute", "backward"}
      /\ phase' = phase
      /\ \/ AllRaise
         \/ \E place \in {"submitted", "gather"} : AllGo("refresh", place)
  BY RankTypes DEF LayerInv, AgreeOnState, Meet
<1>1. \/ \A q \in Ranks : AtStart(q)
      \/ \A q \in Ranks : AtFirst(q)
  BY <1>0, ZeroIsRank DEF LayerInv, Zones, AtRest, AtStart, AtSubmit, AtGpu, AtOutput, AtEval,
     AtPlain, AtFirst, AtAgain, AtRaised, InBackward, AtEnd, Rest
<1>2. /\ \A q \in Ranks : Same(q)
      /\ \/ \A q \in Ranks : phase[q] \in {"forward", "eval"}
         \/ \A q \in Ranks : phase[q] = "recompute"
  BY <1>0, <1>1, ZeroIsRank DEF AtStart, AtFirst, Same
<1>3. CASE AllRaise /\ \A q \in Ranks : phase[q] \in {"forward", "eval"}
  <2>1. \A q \in Ranks : AtRest(q)'
    BY <1>0, <1>2, <1>3, ZeroIsRank DEF AllRaise, AtRest, Rest, Same
  <2> QED BY <2>1 DEF Zones
<1>4. CASE AllRaise /\ \A q \in Ranks : phase[q] = "recompute"
  <2>1. \A q \in Ranks : AtRaised(q)'
    BY <1>0, <1>2, <1>4, ZeroIsRank DEF AllRaise, AtRaised, Same, Policy
  <2> QED BY <2>1 DEF Zones
<1>5. ASSUME NEW place \in {"submitted", "gather"}, AllGo("refresh", place)
      PROVE  Zones'
  <2>1. \A q \in Ranks : AtSubmit(q)'
    BY <1>0, <1>2, <1>5, ZeroIsRank DEF AllGo, AtSubmit, Same, Policy
  <2> QED BY <2>1 DEF Zones
<1> QED BY <1>0, <1>2, <1>3, <1>4, <1>5

\* A failure that all the ranks of one phase raise together.
LEMMA RaiseZones ==
    ASSUME AllRaise, \A q \in Ranks : Same(q), UNCHANGED <<phase, strays, setup>>,
           phase \in [Ranks -> {"forward", "eval", "recompute", "backward"}]
    PROVE  Zones'
<1>1. \/ \A q \in Ranks : phase[q] \in {"forward", "eval"}
      \/ \A q \in Ranks : phase[q] = "recompute"
  BY ZeroIsRank DEF Same
<1>2. CASE \A q \in Ranks : phase[q] \in {"forward", "eval"}
  <2>1. \A q \in Ranks : AtRest(q)'
    BY <1>2, ZeroIsRank DEF AllRaise, AtRest, Rest, Same
  <2> QED BY <2>1 DEF Zones
<1>3. CASE \A q \in Ranks : phase[q] = "recompute"
  <2>1. \A q \in Ranks : AtRaised(q)'
    BY <1>3, ZeroIsRank DEF AllRaise, AtRaised, Same, Policy
  <2> QED BY <2>1 DEF Zones
<1> QED BY <1>1, <1>2, <1>3

\* Rank 0 shares the outcome of the submission.
LEMMA ShareSubmitZones ==
    ASSUME LayerInv, ShareSubmit, UNCHANGED setup
    PROVE  Zones'
<1>0. /\ strays' = strays
      /\ \A q \in Ranks : pc[q] = "submitted"
      /\ phase' = phase /\ phase \in [Ranks -> {"forward", "eval", "recompute", "backward"}]
      /\ AllRaise \/ AllGo("gpu", "gpu")
  BY RankTypes DEF LayerInv, ShareSubmit, Meet
<1>1. \A q \in Ranks : AtSubmit(q)
  BY <1>0, ZeroIsRank DEF LayerInv, Zones, AtRest, AtStart, AtSubmit, AtGpu, AtOutput, AtEval,
     AtPlain, AtFirst, AtAgain, AtRaised, InBackward, AtEnd, Rest
<1>2. \A q \in Ranks : Same(q)
  BY <1>1 DEF AtSubmit
<1>3. CASE AllGo("gpu", "gpu")
  <2>1. \A q \in Ranks : AtGpu(q)'
    BY <1>0, <1>2, <1>3, ZeroIsRank DEF AllGo, AtGpu, Same, Policy
  <2> QED BY <2>1 DEF Zones
<1> QED BY <1>0, <1>2, <1>3, RaiseZones

\* All the ranks share a failure on the GPU of any of them.
LEMMA ShareGpuZones ==
    ASSUME LayerInv, ShareGpu, UNCHANGED setup
    PROVE  Zones'
<1>0. /\ strays' = strays
      /\ \A q \in Ranks : pc[q] = "gpu_sync"
      /\ phase' = phase /\ phase \in [Ranks -> {"forward", "eval", "recompute", "backward"}]
      /\ AllRaise \/ AllGo("output", "output_sync")
  BY RankTypes DEF LayerInv, ShareGpu, Meet
<1>1. \A q \in Ranks : AtGpu(q)
  BY <1>0, ZeroIsRank DEF LayerInv, Zones, AtRest, AtStart, AtSubmit, AtGpu, AtOutput, AtEval,
     AtPlain, AtFirst, AtAgain, AtRaised, InBackward, AtEnd, Rest
<1>2. \A q \in Ranks : Same(q)
  BY <1>1 DEF AtGpu
<1>3. CASE AllGo("output", "output_sync")
  <2>1. \A q \in Ranks : AtOutput(q)'
    BY <1>0, <1>2, <1>3, ZeroIsRank DEF AllGo, AtOutput, Same, Policy
  <2> QED BY <2>1 DEF Zones
<1> QED BY <1>0, <1>2, <1>3, RaiseZones

\* Rank 0 shares the outcome of the CPU's forward.
LEMMA ShareOutputZones ==
    ASSUME LayerInv, ShareOutput, UNCHANGED setup
    PROVE  Zones'
<1>0. /\ strays' = strays
      /\ \A q \in Ranks : pc[q] = "output_sync"
      /\ phase' = phase /\ phase \in [Ranks -> {"forward", "eval", "recompute", "backward"}]
      /\ AllRaise \/ AllGo("scatter", "scatter")
  BY RankTypes DEF LayerInv, ShareOutput, Meet
<1>1. \A q \in Ranks : AtOutput(q)
  BY <1>0, ZeroIsRank DEF LayerInv, Zones, AtRest, AtStart, AtSubmit, AtGpu, AtOutput, AtEval,
     AtPlain, AtFirst, AtAgain, AtRaised, InBackward, AtEnd, Rest
<1>2. \A q \in Ranks : Same(q)
  BY <1>1 DEF AtOutput
<1>3. CASE AllGo("scatter", "scatter") /\ phase[0] = "eval"
  <2>1. \A q \in Ranks : AtEval(q)'
    BY <1>0, <1>2, <1>3, ZeroIsRank DEF AllGo, AtEval, Same
  <2> QED BY <2>1 DEF Zones
<1>4. CASE AllGo("scatter", "scatter") /\ phase[0] = "forward" /\ Policy = "plain"
  <2>1. \A q \in Ranks : AtPlain(q)'
    BY <1>0, <1>2, <1>4, ZeroIsRank DEF AllGo, AtPlain, Same, Policy
  <2> QED BY <2>1 DEF Zones
<1>5. CASE AllGo("scatter", "scatter") /\ phase[0] = "forward" /\ Policy # "plain"
  <2>1. \A q \in Ranks : AtFirst(q)'
    BY <1>0, <1>2, <1>5, ZeroIsRank DEF AllGo, AtFirst, Same, Policy
  <2> QED BY <2>1 DEF Zones
<1>6. CASE AllGo("scatter", "scatter") /\ phase[0] = "recompute"
  <2>1. \A q \in Ranks : AtAgain(q)'
    BY <1>0, <1>2, <1>6, ZeroIsRank DEF AllGo, AtAgain, Same, Policy
  <2> QED BY <2>1 DEF Zones
<1>7. phase[0] \in {"eval", "forward", "recompute"}
  BY <1>0, <1>2, ZeroIsRank DEF Same
<1> QED BY <1>0, <1>2, <1>3, <1>4, <1>5, <1>6, <1>7, RaiseZones

\* The trainer gives a step up on all ranks.
LEMMA AbandonZones ==
    ASSUME LayerInv, Abandon, UNCHANGED setup
    PROVE  Zones'
<1>0. /\ strays' = strays
      /\ \A q \in Ranks : pc[q] = "between"
      /\ phase' = phase /\ AllGo("failed", "failed")
  BY DEF Abandon, Meet
<1>1. \/ \A q \in Ranks : AtPlain(q)
      \/ \A q \in Ranks : AtFirst(q)
  BY <1>0, ZeroIsRank DEF LayerInv, Zones, AtRest, AtStart, AtSubmit, AtGpu, AtOutput, AtEval,
     AtPlain, AtFirst, AtAgain, AtRaised, InBackward, AtEnd, Rest
<1>2. \A q \in Ranks : phase[q] = "forward" /\ q \notin strays
  BY <1>0, <1>1, ZeroIsRank DEF AtPlain, AtFirst, InBackward
<1>3. \A q \in Ranks : AtRest(q)'
  BY <1>0, <1>2, ZeroIsRank DEF AllGo, AtRest, Rest
<1> QED BY <1>3 DEF Zones

\* With a retained output the ranks leave the recompute together.
LEMMA ShareRecomputeZones ==
    ASSUME LayerInv, ShareRecompute, UNCHANGED setup
    PROVE  Zones'
<1>0. /\ strays' = strays
      /\ phase' = [r \in Ranks |-> "backward"]
      /\ \A q \in Ranks : pc[q] = "recomputed" /\ Policy = "retain"
      /\ \/ AllGo("failed", "failed")
         \/ AllGo("bgather", "bgather") /\ \A q \in Ranks : ~err[q]
  BY DEF ShareRecompute, Meet
<1>1. \/ \A q \in Ranks : q \notin strays
      \/ \A q \in Ranks : q \in strays /\ err[q]
  BY <1>0, ZeroIsRank DEF LayerInv, Zones, AtRest, AtStart, AtSubmit, AtGpu, AtOutput, AtEval,
     AtPlain, AtFirst, AtAgain, AtRaised, InBackward, AtEnd, Rest
<1>2. CASE AllGo("failed", "failed")
  <2>1. \A q \in Ranks : AtRest(q)'
    BY <1>0, <1>1, <1>2, ZeroIsRank DEF AllGo, AtRest, Rest
  <2> QED BY <2>1 DEF Zones
<1>3. CASE AllGo("bgather", "bgather") /\ \A q \in Ranks : ~err[q]
  <2>1. \A q \in Ranks : InBackward(q)'
    BY <1>0, <1>1, <1>3, ZeroIsRank DEF AllGo, InBackward
  <2> QED BY <2>1 DEF Zones
<1> QED BY <1>0, <1>2, <1>3

\* Rank 0 shares the outcome of the CPU's backward.
LEMMA ShareBackwardZones ==
    ASSUME LayerInv, ShareBackward, UNCHANGED setup
    PROVE  Zones'
<1>0. /\ strays' = strays
      /\ \A q \in Ranks : pc[q] = "bsync"
      /\ phase' = phase
      /\ AllGo("failed", "failed") \/ AllGo("bscatter", "bscatter")
  BY DEF ShareBackward, Meet
<1>1. \/ \A q \in Ranks : AtPlain(q)
      \/ \A q \in Ranks : AtAgain(q)
      \/ \A q \in Ranks : InBackward(q)
  BY <1>0, ZeroIsRank DEF LayerInv, Zones, AtRest, AtStart, AtSubmit, AtGpu, AtOutput, AtEval,
     AtPlain, AtFirst, AtAgain, AtRaised, InBackward, AtEnd, Rest
<1>2. \A q \in Ranks : phase[q] = "backward" /\ q \notin strays
  BY <1>0, <1>1 DEF AtPlain, AtAgain, InBackward
<1>3. CASE AllGo("failed", "failed")
  <2>1. \A q \in Ranks : AtRest(q)'
    BY <1>0, <1>2, <1>3, ZeroIsRank DEF AllGo, AtRest, Rest
  <2> QED BY <2>1 DEF Zones
<1>4. CASE AllGo("bscatter", "bscatter")
  <2>1. \A q \in Ranks : AtEnd(q)'
    BY <1>0, <1>2, <1>4, ZeroIsRank DEF AllGo, AtEnd
  <2> QED BY <2>1 DEF Zones
<1> QED BY <1>0, <1>3, <1>4

\* The step ends, well or not, on all ranks.
LEMMA ShareRepackZones ==
    ASSUME LayerInv, ShareRepack, UNCHANGED setup
    PROVE  Zones'
<1>0. /\ strays' = strays
      /\ \A q \in Ranks : pc[q] = "repack_sync"
      /\ phase' = phase
      /\ \E end \in Rest : AllGo(end, end)
  BY DEF ShareRepack, Meet, Rest
<1>1. \A q \in Ranks : AtEnd(q)
  BY <1>0, ZeroIsRank DEF LayerInv, Zones, AtRest, AtStart, AtSubmit, AtGpu, AtOutput, AtEval,
     AtPlain, AtFirst, AtAgain, AtRaised, InBackward, AtEnd, Rest
<1>2. \A q \in Ranks : phase[q] = "backward" /\ q \notin strays
  BY <1>1 DEF AtEnd
<1>3. \A q \in Ranks : AtRest(q)'
  BY <1>0, <1>2, ZeroIsRank DEF AllGo, AtRest, Rest
<1> QED BY <1>3 DEF Zones

\* A step that moves no rank keeps the zone.
LEMMA ZonesFrame ==
    ASSUME Zones, UNCHANGED <<ranks, strays, setup>>
    PROVE  Zones'
<1>1. /\ pc' = pc /\ phase' = phase /\ err' = err
      /\ strays' = strays /\ setup' = setup
  BY DEF ranks
<1> QED BY <1>1 DEF Zones, AtRest, AtStart, AtSubmit, AtGpu, AtOutput, AtEval, AtPlain, AtFirst,
     AtAgain, AtRaised, InBackward, AtEnd, Same, Policy

\* Every step keeps the ranks in a zone.
LEMMA ZonesStep ==
    ASSUME LayerInv, [Next]_vars
    PROVE  Zones'
<1>1. ASSUME NEW r \in Ranks, RankStep(r), UNCHANGED setup PROVE Zones'
  BY <1>1, RouteZones, RouteFailsZones, PassByZones, GpuExpertsZones, RecomputedZones
     DEF RankStep
<1>2. CASE Running /\ UNCHANGED setup
  BY <1>1, <1>2, TransferZones, AgreeOnStateZones, RefreshZones, SubmitZones, ShareSubmitZones,
     ShareGpuZones, OutputZones, ShareOutputZones, ShareRecomputeZones, CpuBackwardZones,
     ShareBackwardZones, RepackZones, ShareRepackZones DEF Running
<1>3. CASE Trainer /\ UNCHANGED setup
  <2>1. CASE OptimizerStep
    BY <1>3, <2>1, ZonesFrame DEF OptimizerStep, LayerInv
  <2> QED BY <1>3, <2>1, StartStepZones, AbandonZones, BeginBackwardZones DEF Trainer
<1>4. CASE UNCHANGED vars
  BY <1>4, ZonesFrame DEF vars, LayerInv
<1> QED BY <1>2, <1>3, <1>4 DEF Next

-----------------------------------------------------------------------------
(* The types.                                                              *)

\* Rank 0 at the places where its backend acts.
LEMMA ZeroView ==
    ASSUME LayerInv
    PROVE  /\ pc[0] = "bcpu" => phase[0] = "backward" /\ ~err[0]
           /\ pc[0] = "between" => phase[0] = "forward" /\ ~err[0]
           /\ pc[0] = "recomputed" /\ phase[0] # "recompute"
                => phase[0] = "forward" /\ Policy = "plain"
           /\ pc[0] \in {"refresh", "submit", "submitted", "gpu", "gpu_sync", "output",
                         "output_sync", "state", "route"}
                => phase[0] # "backward"
           /\ pc[0] \in {"bsync", "bscatter", "repack", "repack_sync"} => phase[0] = "backward"
           /\ pc[0] \in {"bscatter", "repack"} => ~err[0]
           /\ pc[0] \in {"bgather", "bcpu"} => phase[0] = "backward"
BY ZeroIsRank DEF LayerInv, Zones, AtRest, AtStart, AtSubmit, AtGpu, AtOutput, AtEval, AtPlain,
   AtFirst, AtAgain, AtRaised, InBackward, AtEnd, Rest, Same

\* The part of the types that is about the ranks.
RankTypeOK ==
    /\ pc \in [Ranks -> Places]
    /\ phase \in [Ranks -> {"forward", "eval", "recompute", "backward"}]
    /\ err \in [Ranks -> BOOLEAN] /\ odd \in [Ranks -> BOOLEAN]
    /\ rows \in [Ranks -> {0, 1}] /\ strays \subseteq Ranks

\* The part that is about rank 0's backend.
BackendTypeOK ==
    /\ step \in 0..MaxSteps
    /\ cache.state \in {"EMPTY", "READY", "POISONED"} /\ cache.of \in 0..MaxSteps
    /\ pending \in BOOLEAN
    /\ saved \in 0..MaxSteps /\ depth \in {0, 1} /\ (depth = 1 => saved # 0)
    /\ grads.open \in BOOLEAN /\ grads.of \subseteq Steps
    /\ completed \subseteq Steps /\ used \in 0..MaxSteps

\* The type invariant is its two parts, before and after a step.
LEMMA TypeParts ==
    /\ TypeOK <=> RankTypeOK /\ BackendTypeOK
    /\ TypeOK' <=> RankTypeOK' /\ BackendTypeOK'
<1> DEFINE all == Collectives \cup Transfers \cup Rest \cup
                    {"route", "refresh", "submit", "gpu", "output", "between",
                     "recomputed", "bcpu", "repack"}
<1>1. all = Places /\ all' = Places
  BY DEF Collectives, Transfers, Rest, Places
<1>2. /\ pc \in [Ranks -> all] <=> pc \in [Ranks -> Places]
      /\ pc' \in [Ranks -> all'] <=> pc' \in [Ranks -> Places]
  BY <1>1
<1> QED BY <1>2 DEF TypeOK, RankTypeOK, BackendTypeOK

\* Where a transfer leads is a place.
LEMMA AfterTransferPlace ==
    ASSUME NEW label \in Transfers, NEW r \in Ranks
    PROVE  AfterTransfer(label, r) \in Places
BY DEF Transfers, AfterTransfer, Places

\* Every step keeps the types of the ranks.
LEMMA RankTypeStep ==
    ASSUME RankTypeOK, Next
    PROVE  RankTypeOK'
<1> USE ZeroIsRank DEF RankTypeOK
<1>1. ASSUME NEW r \in Ranks, RankStep(r) PROVE RankTypeOK'
  <2>1. CASE Route(r)  BY <2>1 DEF Route, Goes, Places
  <2>2. CASE RouteFails(r)  BY <2>2 DEF RouteFails, Goes, Fails, Places
  <2>3. CASE PassBy(r)
    <3>1. AfterTransfer(pc[r], r) \in Places
      BY <2>3, AfterTransferPlace DEF PassBy
    <3> QED BY <2>3, <3>1 DEF PassBy, Goes
  <2>4. CASE GpuExperts(r)  BY <2>4 DEF GpuExperts, Goes, Fails, Places
  <2>5. CASE Recomputed(r)  BY <2>5 DEF Recomputed, Goes, Places
  <2> QED BY <1>1, <2>1, <2>2, <2>3, <2>4, <2>5 DEF RankStep
<1>2. ASSUME NEW label \in Transfers, Transfer(label) PROVE RankTypeOK'
  BY <1>2, AfterTransferPlace DEF Transfer
<1>3. CASE AgreeOnState  BY ZenonT(40), <1>3 DEF AgreeOnState, AllRaise, AllGo, Places
<1>4. CASE Refresh  BY <1>4 DEF Refresh, Goes, Fails, Places
<1>5. CASE Submit  BY <1>5 DEF Submit, Goes, Fails, Places
<1>6. CASE ShareSubmit  BY ZenonT(40), <1>6 DEF ShareSubmit, AllRaise, AllGo, Places
<1>7. CASE ShareGpu  BY ZenonT(40), <1>7 DEF ShareGpu, AllRaise, AllGo, Places
<1>8. CASE Output  BY <1>8 DEF Output, Goes, Fails, Places
<1>9. CASE ShareOutput  BY ZenonT(40), <1>9 DEF ShareOutput, AllRaise, AllGo, Places
<1>10. CASE ShareRecompute  BY ZenonT(40), <1>10 DEF ShareRecompute, AllGo, Places
<1>11. CASE CpuBackward  BY <1>11 DEF CpuBackward, Goes, Fails, Places
<1>12. CASE ShareBackward  BY <1>12 DEF ShareBackward, AllGo, Places
<1>13. CASE Repack  BY <1>13 DEF Repack, Goes, Fails, Places
<1>14. CASE ShareRepack  BY ZenonT(40), <1>14 DEF ShareRepack, AllGo, Places
<1>15. ASSUME NEW ph \in {"forward", "eval"}, StartStep(ph) PROVE RankTypeOK'
  BY <1>15 DEF StartStep, Places
<1>16. CASE Abandon  BY <1>16 DEF Abandon, AllGo, Places
<1>17. CASE OptimizerStep  BY <1>17 DEF OptimizerStep, ranks
<1>18. ASSUME NEW r \in Ranks, BeginBackward(r) PROVE RankTypeOK'
  BY <1>18 DEF BeginBackward, Goes, Places
<1> QED BY <1>1, <1>2, <1>3, <1>4, <1>5, <1>6, <1>7, <1>8, <1>9, <1>10, <1>11, <1>12, <1>13, <1>14,
           <1>15, <1>16, <1>17, <1>18 DEF Next, Running, Trainer

\* When rank 0 takes an output that was saved, it is that of this step.
LEMMA OutputIsArmed ==
    ASSUME LayerInv, pc[0] = "output", pending, ~Reuses(phase[0])
    PROVE  saved = step /\ step # 0
<1>1. phase[0] \in {"forward", "eval", "recompute"}
  BY ZeroView, RankTypes, ZeroIsRank DEF LayerInv
<1>2. Saves(phase[0])
  BY <1>1 DEF LayerInv, BackendInv, Submitted
<1>3. Armed
  BY <1>1, <1>2 DEF Armed, Submitted, Saves
<1> QED BY <1>3 DEF LayerInv, BackendInv, Rest

\* What the backward of rank 0 does: nothing without activations, otherwise
\* it uses them up, and fails or publishes gradients.
LEMMA CpuBackwardCases ==
    ASSUME CpuBackward
    PROVE  \/ /\ err' = [err EXCEPT ![0] = TRUE]
              /\ saved' = saved /\ depth' = depth /\ grads' = grads /\ used' = used
           \/ /\ err' = [err EXCEPT ![0] = TRUE] /\ depth > 0
              /\ saved' = 0 /\ depth' = depth - 1 /\ grads' = Closed
              /\ used' = used \/ used' = saved
           \/ /\ err' = err /\ depth > 0
              /\ saved' = 0 /\ depth' = depth - 1 /\ used' = saved
              /\ grads' = [open |-> TRUE,
                           of |-> (IF grads.open THEN grads.of ELSE {}) \cup {step}]
BY DEF CpuBackward, Fails

\* Every step keeps the types of rank 0's backend.
LEMMA BackendTypeStep ==
    ASSUME LayerInv, Next
    PROVE  BackendTypeOK'
<1>0. /\ BackendTypeOK /\ MaxSteps \in Nat /\ MaxSteps' = MaxSteps /\ Steps' = Steps
      /\ Steps = 1..MaxSteps
  BY TypeParts, SetupFacts DEF LayerInv, Next, MaxSteps, Steps
<1>1. ASSUME UNCHANGED <<step, backend, completed>> PROVE BackendTypeOK'
  BY <1>0, <1>1 DEF backend, BackendTypeOK
<1>2. ASSUME NEW r \in Ranks, RankStep(r) PROVE BackendTypeOK'
  BY <1>1, <1>2 DEF RankStep, Route, RouteFails, PassBy, GpuExperts, Recomputed
<1>3. ASSUME NEW label \in Transfers, Transfer(label) PROVE BackendTypeOK'
  BY <1>1, <1>3 DEF Transfer
<1>4. CASE AgreeOnState  BY <1>1, <1>4 DEF AgreeOnState
<1>5. CASE ShareSubmit  BY <1>1, <1>5 DEF ShareSubmit
<1>6. CASE ShareOutput  BY <1>1, <1>6 DEF ShareOutput
<1>7. CASE ShareBackward  BY <1>1, <1>7 DEF ShareBackward
<1>8. CASE Abandon  BY <1>1, <1>8 DEF Abandon
<1>9. ASSUME NEW r \in Ranks, BeginBackward(r) PROVE BackendTypeOK'
  BY <1>1, <1>9 DEF BeginBackward
<1>10. CASE Refresh  BY <1>0, <1>10 DEF Refresh, BackendTypeOK, Poisoned
<1>11. CASE Submit
  <2>1. pc[0] = "submit" /\ step # 0
    BY <1>11 DEF Submit, LayerInv, BackendInv, Rest
  <2>2. saved' \in {saved, step} /\ pending' \in BOOLEAN
    BY <1>0, <1>11 DEF Submit, SavedBy, Saves, BackendTypeOK
  <2> QED BY <1>0, <1>11, <2>1, <2>2 DEF Submit, BackendTypeOK, Poisoned
<1>12. CASE ShareGpu  BY <1>0, <1>12 DEF ShareGpu, BackendTypeOK, Poisoned
<1>13. CASE Output
  <2>1. pc[0] = "output" /\ step # 0
    BY <1>13 DEF Output, LayerInv, BackendInv, Rest
  <2>2. depth' \in {0, 1} /\ (depth' = 1 => saved # 0)
    BY <1>0, <1>13, <2>1, OutputIsArmed DEF Output, BackendTypeOK
  <2>3. cache' = cache \/ cache' = Poisoned \/ cache' = [state |-> "READY", of |-> step]
    BY <1>13 DEF Output
  <2>4. cache'.state \in {"EMPTY", "READY", "POISONED"} /\ cache'.of \in 0..MaxSteps
    BY <1>0, <2>3 DEF BackendTypeOK, Poisoned
  <2> QED BY <1>0, <1>13, <2>2, <2>4 DEF Output, BackendTypeOK
<1>14. CASE ShareRecompute  BY <1>0, <1>14 DEF ShareRecompute, BackendTypeOK, Poisoned
<1>15. CASE CpuBackward
  <2>1. pc[0] = "bcpu" /\ step \in Steps
    BY <1>0, <1>15 DEF CpuBackward, LayerInv, BackendInv, Rest, BackendTypeOK
  <2>2. cache' = Poisoned \/ cache' = Empty
    BY <1>15 DEF CpuBackward, ClearAfterBackward
  <2>3. cache'.state \in {"EMPTY", "READY", "POISONED"} /\ cache'.of \in 0..MaxSteps
    BY <1>0, <2>2 DEF Poisoned, Empty
  <2>4. step' = step /\ pending' = pending /\ completed' = completed
    BY <1>15 DEF CpuBackward
  <2>5. \/ saved' = saved /\ depth' = depth
        \/ saved' = 0 /\ depth' = depth - 1 /\ depth > 0
    BY <1>15, CpuBackwardCases
  <2>6. saved' \in 0..MaxSteps /\ depth' \in {0, 1} /\ (depth' = 1 => saved' # 0)
    BY <1>0, <2>5 DEF BackendTypeOK
  <2>7. used' \in 0..MaxSteps
    BY <1>0, <1>15, CpuBackwardCases DEF BackendTypeOK
  <2>8. grads' = grads \/ grads' = Closed
        \/ grads' = [open |-> TRUE, of |-> (IF grads.open THEN grads.of ELSE {}) \cup {step}]
    BY <1>15, CpuBackwardCases
  <2>9. grads.open \in BOOLEAN /\ grads.of \subseteq Steps
    BY <1>0 DEF BackendTypeOK
  <2>10. grads'.open \in BOOLEAN /\ grads'.of \subseteq Steps
    <3>1. CASE grads' = grads  BY <3>1, <2>9
    <3>2. CASE grads' = Closed  BY <3>2 DEF Closed
    <3>3. CASE grads' = [open |-> TRUE,
                         of |-> (IF grads.open THEN grads.of ELSE {}) \cup {step}]
      BY <2>1, <2>9, <3>3
    <3> QED BY <2>8, <3>1, <3>2, <3>3
  <2> QED BY <1>0, <2>3, <2>4, <2>6, <2>7, <2>10 DEF BackendTypeOK
<1>16. CASE Repack
  <2>1. grads' = grads \/ grads' = Closed
    BY <1>16 DEF Repack, RepackFailureWindow
  <2>2. grads'.open \in BOOLEAN /\ grads'.of \subseteq Steps
    <3>1. CASE grads' = grads  BY <1>0, <3>1 DEF BackendTypeOK
    <3>2. CASE grads' = Closed  BY <3>2 DEF Closed
    <3> QED BY <2>1, <3>1, <3>2
  <2> QED BY <1>0, <1>16, <2>2 DEF Repack, BackendTypeOK
<1>17. CASE ShareRepack
  <2>1. step \in Steps
    BY <1>0, <1>17, ZeroIsRank DEF ShareRepack, Meet, LayerInv, BackendInv, Rest, BackendTypeOK
  <2> QED BY <1>0, <1>17, <2>1 DEF ShareRepack, backend, BackendTypeOK
<1>18. ASSUME NEW ph \in {"forward", "eval"}, StartStep(ph) PROVE BackendTypeOK'
  BY <1>0, <1>18 DEF StartStep, backend, BackendTypeOK
<1>19. CASE OptimizerStep  BY <1>0, <1>19 DEF OptimizerStep, Closed, BackendTypeOK
<1> QED BY <1>2, <1>3, <1>4, <1>5, <1>6, <1>7, <1>8, <1>9, <1>10, <1>11, <1>12, <1>13, <1>14,
           <1>15, <1>16, <1>17, <1>18, <1>19 DEF Next, Running, Trainer

-----------------------------------------------------------------------------
(* What the backend holds.                                                 *)

\* BackendInv speaks of rank 0 and of the backend only.
LEMMA BackendFrame ==
    ASSUME BackendInv, UNCHANGED <<step, backend, completed, setup>>,
           pc[0]' = pc[0], phase[0]' = phase[0], err[0]' = err[0]
    PROVE  BackendInv'
BY DEF BackendInv, Armed, Submitted, Accumulated, Reuses, Saves, Policy, backend, Rest

\* A step of another rank does not touch it.
LEMMA OtherRank ==
    ASSUME LayerInv, NEW r \in Ranks, r # 0, RankStep(r) \/ BeginBackward(r), UNCHANGED setup
    PROVE  BackendInv'
<1>1. /\ pc \in [Ranks -> Places] /\ err \in [Ranks -> BOOLEAN]
      /\ phase \in [Ranks -> {"forward", "eval", "recompute", "backward"}]
  BY RankTypes DEF LayerInv
<1>2. pc[0]' = pc[0] /\ phase[0]' = phase[0] /\ err[0]' = err[0]
  BY <1>1, ZeroIsRank DEF RankStep, BeginBackward, Route, RouteFails, PassBy, GpuExperts,
     Recomputed, Goes, Fails
<1>3. UNCHANGED <<step, backend, completed>>
  BY DEF RankStep, BeginBackward, Route, RouteFails, PassBy, GpuExperts, Recomputed
<1> QED BY <1>2, <1>3, BackendFrame DEF LayerInv

\* Every step keeps what is said of rank 0's backend.
LEMMA BackendStep ==
    ASSUME LayerInv, Next
    PROVE  BackendInv'
<1>0. /\ pc \in [Ranks -> Places] /\ err \in [Ranks -> BOOLEAN]
      /\ phase \in [Ranks -> {"forward", "eval", "recompute", "backward"}]
      /\ setup' = setup /\ BackendInv /\ 0 \in Ranks
      /\ Policy \in {"retain", "recompute", "plain"}
      /\ step \in Nat /\ phase[0] \in {"forward", "eval", "recompute", "backward"}
  BY RankTypes, ZeroIsRank, SetupFacts, TypeParts DEF LayerInv, Next, BackendTypeOK
<1>1. ASSUME NEW r \in Ranks, RankStep(r) PROVE BackendInv'
  <2>1. CASE r # 0
    BY <1>0, <1>1, <2>1, OtherRank
  <2>2. CASE Route(0)
    BY <1>0, <2>2 DEF Route, Goes, backend, BackendInv, Armed, Submitted, Accumulated, Reuses,
       Saves, Policy, Rest
  <2>3. CASE RouteFails(0)
    BY <1>0, <2>3 DEF RouteFails, Goes, Fails, backend, BackendInv, Armed, Submitted,
       Accumulated, Reuses, Saves, Policy, Rest
  <2>4. CASE GpuExperts(0)
    BY <1>0, <2>4, ZeroView DEF GpuExperts, Goes, Fails, backend, BackendInv, Armed, Submitted,
       Accumulated, Reuses, Saves, Policy, Rest
  <2>5. CASE Recomputed(0)
    BY <1>0, <2>5, ZeroView DEF Recomputed, Goes, backend, BackendInv, Armed, Submitted,
       Accumulated, Reuses, Saves, Policy, Rest
  <2> QED BY <1>1, <2>1, <2>2, <2>3, <2>4, <2>5 DEF RankStep, PassBy
<1>2. ASSUME NEW label \in Transfers, Transfer(label) PROVE BackendInv'
  <2>1. /\ pc[0] = label /\ pc[0]' = AfterTransfer(label, 0)
        /\ UNCHANGED <<phase, err, step, backend, completed>>
    BY <1>0, <1>2 DEF Transfer, TransferPeers
  <2>2. CASE label = "gather"
    BY <1>0, <2>1, <2>2 DEF AfterTransfer, backend, BackendInv, Armed, Submitted, Accumulated,
       Reuses, Saves, Policy, Rest
  <2>3. CASE label = "scatter"
    BY <1>0, <2>1, <2>3, ZeroView DEF AfterTransfer, backend, BackendInv, Armed, Submitted,
       Accumulated, Reuses, Saves, Policy, Rest
  <2>4. CASE label = "bgather"
    BY <1>0, <2>1, <2>4 DEF AfterTransfer, backend, BackendInv, Armed, Submitted, Accumulated,
       Reuses, Saves, Policy, Rest
  <2>5. CASE label = "bscatter"
    BY <1>0, <2>1, <2>5 DEF AfterTransfer, backend, BackendInv, Armed, Submitted, Accumulated,
       Reuses, Saves, Policy, Rest
  <2> QED BY <2>2, <2>3, <2>4, <2>5 DEF Transfers
<1>3. CASE AgreeOnState
  <2>1. /\ pc[0] = "state" /\ phase[0] # "backward"
        /\ UNCHANGED <<phase, step, backend, completed>>
    BY <1>0, <1>3, ZeroView DEF AgreeOnState, Meet
  <2>2. \/ pc[0]' = "refresh"
        \/ pc[0]' = "failed" /\ phase[0] # "recompute"
        \/ pc[0]' = "recomputed" /\ phase[0] = "recompute" /\ err[0]'
    BY <1>0, <1>3 DEF AgreeOnState, AllRaise, AllGo
  <2> QED BY <1>0, <2>1, <2>2 DEF backend, BackendInv, Armed, Submitted, Accumulated, Reuses,
       Saves, Policy, Rest
<1>4. CASE Refresh
  <2>1. /\ pc[0] = "refresh" /\ phase[0] # "backward"
        /\ UNCHANGED <<phase, step, pending, saved, depth, grads, completed, used>>
    BY <1>0, <1>4, ZeroView DEF Refresh
  <2>2. pc[0]' = IF Reuses(phase[0]) THEN "submitted" ELSE "gather"
    BY <1>0, <1>4 DEF Refresh, Goes
  <2>3. cache' = cache \/ cache'.state = "POISONED"
    BY <1>4 DEF Refresh, Poisoned
  <2> QED BY <1>0, <2>1, <2>2, <2>3 DEF BackendInv, Armed, Submitted, Accumulated, Reuses, Saves,
       Policy, Rest
<1>5. CASE Submit
  <2>1. /\ pc[0] = "submit" /\ pc[0]' = "submitted" /\ phase[0] # "backward"
        /\ UNCHANGED <<phase, step, depth, grads, completed, used>>
    BY <1>0, <1>5, ZeroView DEF Submit, Goes
  <2>2. cache' = cache \/ cache'.state = "POISONED"
    BY <1>5 DEF Submit, Poisoned
  <2>3. \/ pending' = Saves(phase[0]) /\ saved' = SavedBy(phase[0])
        \/ err[0]' /\ saved' = saved
    BY <1>0, <1>5 DEF Submit, Fails
  <2>4. Armed' => saved' = step
    <3>1. CASE pending' = Saves(phase[0]) /\ saved' = SavedBy(phase[0])
      BY <1>0, <2>1, <3>1 DEF Armed, Submitted, SavedBy, Saves, Policy
    <3>2. CASE err[0]' /\ saved' = saved
      BY <1>0, <2>1, <3>2 DEF Armed, Submitted, Policy, BackendInv
    <3> QED BY <2>3, <3>1, <3>2
  <2>5. Submitted' => pending' = Saves(phase[0])
    BY <2>1, <2>3 DEF Submitted
  <2>6. Saves(phase[0])' = Saves(phase[0]) /\ ~Accumulated /\ ~Accumulated'
    BY <1>0, <2>1 DEF Saves, Policy, Accumulated
  <2> QED BY <1>0, <2>1, <2>2, <2>4, <2>5, <2>6 DEF BackendInv, Policy, Rest
<1>6. CASE ShareSubmit
  BY ZenonT(40), <1>0, <1>6, ZeroView DEF ShareSubmit, Meet, AllRaise, AllGo, backend, BackendInv,
     Armed, Submitted, Accumulated, Reuses, Saves, Policy, Rest
<1>7. CASE ShareGpu
  <2>1. /\ pc[0] = "gpu_sync" /\ phase[0] # "backward"
        /\ UNCHANGED <<phase, step, pending, saved, depth, grads, completed, used>>
    BY <1>0, <1>7, ZeroView DEF ShareGpu, Meet
  <2>2. \/ pc[0]' = "output"
        \/ pc[0]' = "failed" /\ phase[0] # "recompute"
        \/ pc[0]' = "recomputed" /\ phase[0] = "recompute" /\ err[0]'
    BY <1>0, <1>7 DEF ShareGpu, AllRaise, AllGo
  <2>3. cache' = cache \/ cache'.state = "POISONED"
    BY <1>7 DEF ShareGpu, Poisoned
  <2> QED BY <1>0, <2>1, <2>2, <2>3 DEF BackendInv, Armed, Submitted, Accumulated, Reuses, Saves,
       Policy, Rest
<1>8. CASE Output
  BY <1>0, <1>8, ZeroView DEF Output, Goes, Fails, Caches, Poisoned, BackendInv, Armed,
     Submitted, Accumulated, Reuses, Saves, Policy, Rest
<1>9. CASE ShareOutput
  BY <1>0, <1>9, ZeroView DEF ShareOutput, Meet, AllRaise, AllGo, backend, BackendInv, Armed,
     Submitted, Accumulated, Reuses, Saves, Policy, Rest
<1>10. CASE ShareRecompute
  BY <1>0, <1>10, ZeroView DEF ShareRecompute, Meet, AllGo, Poisoned, BackendInv, Armed,
     Submitted, Accumulated, Reuses, Saves, Policy, Rest
<1>11. CASE CpuBackward
  <2>1. /\ pc[0] = "bcpu" /\ pc[0]' = "bsync" /\ phase[0] = "backward" /\ ~err[0]
        /\ UNCHANGED <<phase, step, pending, completed>>
    BY <1>0, <1>11, ZeroView DEF CpuBackward, Goes
  <2>2. cache'.state # "READY"
    BY <1>11 DEF CpuBackward, ClearAfterBackward, Poisoned, Empty
  <2>3. ~Accumulated /\ saved = step /\ (grads.open => grads.of \subseteq completed)
    BY <1>0, <2>1 DEF BackendInv, Armed, Accumulated
  <2>4. ~Armed' /\ ~Submitted'
    BY <1>0, <2>1 DEF Armed, Submitted
  <2>5. /\ Accumulated' => used' = step
        /\ grads'.open => grads'.of \subseteq completed \cup (IF Accumulated' THEN {step} ELSE {})
    <3>1. CASE err[0]' /\ grads' = grads
      BY <2>3, <3>1 DEF Accumulated
    <3>2. CASE err[0]' /\ grads' = Closed
      BY <3>2 DEF Accumulated, Closed
    <3>3. CASE /\ err[0]' = err[0] /\ used' = saved
               /\ grads' = [open |-> TRUE,
                            of |-> (IF grads.open THEN grads.of ELSE {}) \cup {step}]
      BY <2>1, <2>3, <3>3 DEF Accumulated
    <3> QED BY <1>0, <1>11, <3>1, <3>2, <3>3, CpuBackwardCases
  <2>6. step # 0
    BY <1>0, <2>1 DEF BackendInv, Rest
  <2> QED BY <2>1, <2>2, <2>4, <2>5, <2>6 DEF BackendInv
<1>12. CASE ShareBackward
  BY <1>0, <1>12, ZeroView DEF ShareBackward, Meet, AllGo, backend, BackendInv, Armed,
     Submitted, Accumulated, Reuses, Saves, Policy, Rest
<1>13. CASE Repack
  BY <1>0, <1>13, ZeroView DEF Repack, Goes, Fails, RepackFailureWindow, Closed, BackendInv,
     Armed, Submitted, Accumulated, Reuses, Saves, Policy, Rest
<1>14. CASE ShareRepack
  BY <1>0, <1>14, ZeroView DEF ShareRepack, Meet, AllGo, backend, BackendInv, Armed,
     Submitted, Accumulated, Reuses, Saves, Policy, Rest
<1>15. ASSUME NEW ph \in {"forward", "eval"}, StartStep(ph) PROVE BackendInv'
  BY <1>0, <1>15, ZeroView DEF StartStep, backend, BackendInv, Armed, Submitted, Accumulated,
     Reuses, Saves, Policy, Rest
<1>16. CASE Abandon
  BY <1>0, <1>16, ZeroView DEF Abandon, Meet, AllGo, backend, BackendInv, Armed, Submitted,
     Accumulated, Reuses, Saves, Policy, Rest
<1>17. CASE OptimizerStep
  BY <1>0, <1>17 DEF OptimizerStep, ranks, Closed, BackendInv, Armed, Submitted, Accumulated,
     Reuses, Saves, Policy, Rest
<1>18. ASSUME NEW r \in Ranks, BeginBackward(r) PROVE BackendInv'
  <2>1. CASE r # 0
    BY <1>0, <1>18, <2>1, OtherRank
  <2>2. CASE BeginBackward(0)
    BY <1>0, <2>2, ZeroView DEF BeginBackward, Goes, backend, BackendInv, Armed, Submitted,
       Accumulated, Reuses, Saves, Policy, Rest
  <2> QED BY <1>18, <2>1, <2>2
<1> QED BY <1>1, <1>2, <1>3, <1>4, <1>5, <1>6, <1>7, <1>8, <1>9, <1>10, <1>11, <1>12, <1>13, <1>14,
           <1>15, <1>16, <1>17, <1>18 DEF Next, Running, Trainer

-----------------------------------------------------------------------------
(* The theorems.                                                           *)

\* LayerInv is inductive.
LEMMA LayerIsInductive ==
    /\ Init => LayerInv
    /\ LayerInv /\ [Next]_vars => LayerInv'
<1>1. ASSUME Init PROVE LayerInv
  <2>1. setup \in Setups /\ MaxSteps \in Nat
    BY <1>1, SetupFacts DEF Init
  <2>2. RankTypeOK
    BY <1>1 DEF Init, RankTypeOK, Places
  <2>3. BackendTypeOK
    <3>1. grads.open \in BOOLEAN /\ grads.of = {}
      BY <1>1 DEF Init, Closed
    <3>2. cache.state = "EMPTY" /\ cache.of = 0
      BY <1>1 DEF Init, Empty
    <3>3. pending \in BOOLEAN
      BY <1>1 DEF Init
    <3>4. step = 0 /\ saved = 0 /\ depth = 0 /\ completed = {} /\ used = 0
      BY <1>1 DEF Init
    <3> QED BY <2>1, <3>1, <3>2, <3>3, <3>4 DEF BackendTypeOK
  <2>4. \A r \in Ranks : AtRest(r)
    BY <1>1, ZeroIsRank DEF Init, AtRest, Rest
  <2>5. BackendInv
    BY <1>1, ZeroIsRank DEF Init, BackendInv, Armed, Submitted, Accumulated, Empty, Closed, Rest
  <2> QED BY <2>1, <2>2, <2>3, <2>4, <2>5, TypeParts DEF LayerInv, Zones
<1>2. ASSUME LayerInv, [Next]_vars PROVE LayerInv'
  <2>1. CASE Next
    <3>1. RankTypeOK' /\ BackendTypeOK'
      BY <1>2, <2>1, RankTypeStep, BackendTypeStep, TypeParts DEF LayerInv
    <3>2. TypeOK'
      BY <3>1, TypeParts
    <3>3. setup' \in Setups
      BY <1>2, <2>1 DEF Next, LayerInv
    <3> QED BY <1>2, <2>1, <3>2, <3>3, ZonesStep, BackendStep DEF LayerInv
  <2>2. CASE UNCHANGED vars
    <3>1. UNCHANGED <<pc, phase, err, odd, rows, strays, step, cache, pending, saved, depth,
                      grads, used, completed, setup>>
      BY <2>2 DEF vars, ranks, backend
    <3>2. RankTypeOK' /\ BackendTypeOK'
      BY <1>2, <3>1, TypeParts DEF LayerInv, RankTypeOK, BackendTypeOK, Steps, MaxSteps
    <3>3. TypeOK'
      BY <3>2, TypeParts
    <3>4. BackendInv'
      BY <1>2, <3>1, BackendFrame DEF LayerInv, backend
    <3> QED BY <1>2, <3>1, <3>3, <3>4, ZonesStep DEF LayerInv
  <2> QED BY <1>2, <2>1, <2>2
<1> QED BY <1>1, <1>2

\* The ranks are in one zone of the program, and rank 0's backend holds
\* what its place says, in every behaviour.
THEOREM LayerInvariance == Spec => []LayerInv
BY LayerIsInductive, PTL DEF Spec

\* The exchanges of layer.py and autograd.py turn what fails within them on
\* one rank into a failure of all: no rank waits in a collective for one that
\* is in another or has left the step, and a step ends the same way on all.
\* What they do not share is a failure of the routing, which comes before
\* them (layer.py:431): the rank leaves, and no other rank gets past the
\* first exchange of that forward.
THEOREM RanksStayTogether == Spec => []RanksInv
<1>1. LayerInv => RanksInv
  <2> SUFFICES ASSUME LayerInv PROVE RanksInv
    OBVIOUS
  <2>1. TypeOK
    BY DEF LayerInv
  <2>2. NoneIsLeftWaiting
    BY ZeroIsRank DEF LayerInv, Zones, AtRest, AtStart, AtSubmit, AtGpu, AtOutput, AtEval,
       AtPlain, AtFirst, AtAgain, AtRaised, InBackward, AtEnd, Rest, NoneIsLeftWaiting, Collectives
  <2>3. EndTogether
    BY ZeroIsRank DEF LayerInv, Zones, AtRest, AtStart, AtSubmit, AtGpu, AtOutput, AtEval,
       AtPlain, AtFirst, AtAgain, AtRaised, InBackward, AtEnd, Rest, EndTogether
  <2>4. StraysStopTheOthers
    BY <2>1, ZeroIsRank DEF LayerInv, Zones, AtRest, AtStart, AtSubmit, AtGpu, AtOutput, AtEval,
       AtPlain, AtFirst, AtAgain, AtRaised, InBackward, AtEnd, Rest, Same, StraysStopTheOthers,
       TypeOK
  <2> QED BY <2>1, <2>2, <2>3, <2>4 DEF RanksInv
<1> QED BY <1>1, LayerInvariance, PTL

\* The backward of a step works on the activations that step's own forward
\* (or its recompute) has saved, whatever was abandoned or failed before.
THEOREM BackwardIsOfItsStep == Spec => []BackwardUsesItsForward
<1>1. LayerInv => BackwardUsesItsForward
  BY DEF LayerInv, BackendInv, Accumulated, BackwardUsesItsForward
<1> QED BY <1>1, LayerInvariance, PTL

\* The buffers the optimizer reads sum the gradients of completed steps only.
THEOREM OptimizerSeesCompleted == Spec => []GradsOfCompletedSteps
<1>1. LayerInv => GradsOfCompletedSteps
  BY ZeroIsRank DEF LayerInv, BackendInv, Accumulated, GradsOfCompletedSteps, Rest
<1> QED BY <1>1, LayerInvariance, PTL

\* The output a checkpoint retains for a step does not outlive its backward.
THEOREM RetainedOutputIsUsedUp == Spec => []RetainedOutputEnds
<1>1. LayerInv => RetainedOutputEnds
  <2> SUFFICES ASSUME LayerInv,
                      \A r \in Ranks : pc[r] \in Rest /\ phase[r] \in {"recompute", "backward"}
               PROVE  cache.state # "READY"
    BY DEF RetainedOutputEnds
  <2>1. phase[0] = "backward"
    BY ZeroIsRank DEF LayerInv, Zones, AtRest, AtStart, AtSubmit, AtGpu, AtOutput, AtEval,
       AtPlain, AtFirst, AtAgain, AtRaised, InBackward, AtEnd, Rest, Same
  <2> QED BY <2>1, ZeroIsRank DEF LayerInv, BackendInv, Rest
<1> QED BY <1>1, LayerInvariance, PTL
=============================================================================
