------------------------- MODULE LayerwiseTransport -------------------------
(***************************************************************************)
(* The FP8 layerwise weight transport: TP processes ("ranks") share one    *)
(* control region and HostSlots pinned host slots.  For every layer, rank  *)
(* zero opens an epoch and writes the experts one by one into the slots;   *)
(* on every rank a consumer thread copies each expert to its own GPU and   *)
(* acknowledges the slot, so that rank zero may write it again.  The first *)
(* failure of any thread of any rank poisons the region for all of them.   *)
(*                                                                         *)
(* Each rank has three threads: the caller (construct, join, run_producer, *)
(* wait), the consumer (consumer_main) and the closer (close).  A variable *)
(* with a name of FP8LayerwiseControl is a cell of the shared region; all  *)
(* others are local to one process, or are the bytes of a buffer.  Every   *)
(* store to a cell that other threads read is a step of its own.           *)
(***************************************************************************)
EXTENDS Integers

CONSTANTS
    TP,         \* tp_size: the ranks are 0 .. TP-1
    HostSlots,  \* kFP8LayerwiseHostSlots
    NumExperts, \* num_experts of every transport
    Epochs,     \* the epochs a client may pass
    Layers,     \* the layer ids a client may pass
    Counts,     \* the expert counts a client may pass
    Plan,       \* the layer and count of each epoch, for clients that are Lawful
    Lawful,     \* TRUE: clients make the calls of a model's layers, in order
    Events      \* what else may happen, a subset of AllEvents

AllEvents == {"crash", "timeout", "writer", "cuda", "close", "reopen"}

\* The layer an epoch loads: what the ranks agree on.
Calls == [epoch : Nat, layer : Nat, count : 0 .. NumExperts]

ASSUME TPAssumption == TP \in Nat \ {0}
ASSUME SlotsAssumption == HostSlots \in Nat \ {0}
ASSUME ExpertsAssumption == NumExperts \in Nat \ {0}
ASSUME CallAssumption == /\ Epochs \subseteq Nat \ {0}
                         /\ Layers \subseteq Nat
                         /\ Counts \subseteq 1 .. NumExperts
ASSUME ModeAssumption == /\ Lawful \in BOOLEAN
                         /\ Events \subseteq AllEvents
                         /\ Plan \subseteq Calls
ASSUME PlanAssumption == \A c, d \in Plan : c.epoch = d.epoch => c = d

Ranks   == 0 .. (TP - 1)
Slots   == 0 .. (HostSlots - 1)
Experts == 0 .. (NumExperts - 1)
Slot(x) == x % HostSlots

\* What a buffer holds: the weights of an expert, written for an epoch.
\* Epoch zero is reserved: Junk is an unwritten or a half-written buffer.
Bytes(e, x) == [epoch |-> e, expert |-> x]
Junk        == Bytes(0, 0)

\* The locals of a call, of consumer_main's loop body and of publish_poison
\* while they are not running.  The CAS in publish_poison has one winner.
NoCall      == [epoch |-> 0, layer |-> 0, count |-> 0]
NoWork      == [epoch |-> 0, count |-> 0, expert |-> 0, observed |-> 0]
NoPublisher == [rank |-> 0, thread |-> "none", code |-> "none", stage |-> "none"]

\* What poison_message tells a caller, besides the published diagnostics.
NoReport   == [code |-> "unasked", rank |-> 0]
Incomplete == [code |-> "incomplete", rank |-> 0]

VARIABLES
    \* the shared control region
    poison_state, error_code, error_rank,
    active_epoch, layer_id, expert_count, next_sequence, producer_done_epoch,
    join_epoch, consumer_done_epoch, wait_returned_epoch, ready, ack_sequence,
    \* the buffers: host slots, GPU experts, and the H2D copies in flight
    host, gpu, dma,
    \* the caller thread: its arguments, then its result; what it learned of a
    \* failure; the layer it entered last
    pc, call, report, joined,
    \* run_producer's locals (rank zero)
    expert, published_sequence,
    \* the consumer thread
    cpc, work, last_ready_sequence, completed_epoch,
    \* the transport object of each rank, and its process
    life, alive,
    \* the thread between claiming the poison and having published it
    publisher

poison   == <<poison_state, error_code, error_rank, publisher>>
layer    == <<active_epoch, layer_id, expert_count>>
producer == <<next_sequence, producer_done_epoch, ready, expert, published_sequence>>
ranks    == <<join_epoch, consumer_done_epoch, wait_returned_epoch, ack_sequence>>
buffers  == <<host, gpu, dma>>
caller   == <<pc, call, report, joined>>
consumer == <<cpc, work, last_ready_sequence, completed_epoch>>
process  == <<life, alive>>
vars == <<poison, layer, producer, ranks, buffers, caller, consumer, process>>

\* initialize_fp8_layerwise_control, before any transport is constructed.
Init ==
    /\ poison_state = "healthy" /\ error_code = "none" /\ error_rank = -1
    /\ publisher = NoPublisher
    /\ active_epoch = 0 /\ layer_id = 0 /\ expert_count = 0
    /\ next_sequence = 0 /\ producer_done_epoch = 0
    /\ ready = [s \in Slots |-> [sequence |-> 0, epoch |-> 0, expert |-> 0]]
    /\ expert = 0 /\ published_sequence = [s \in Slots |-> 0]
    /\ join_epoch = [r \in Ranks |-> 0]
    /\ consumer_done_epoch = [r \in Ranks |-> 0]
    /\ wait_returned_epoch = [r \in Ranks |-> 0]
    /\ ack_sequence = [r \in Ranks |-> [s \in Slots |-> 0]]
    /\ host = [s \in Slots |-> Junk]
    /\ gpu = [r \in Ranks |-> [x \in Experts |-> Junk]]
    /\ dma = [r \in Ranks |-> {}]
    /\ pc = [r \in Ranks |-> "idle"] /\ call = [r \in Ranks |-> NoCall]
    /\ report = [r \in Ranks |-> NoReport] /\ joined = [r \in Ranks |-> NoCall]
    /\ cpc = [r \in Ranks |-> "exited"] /\ work = [r \in Ranks |-> NoWork]
    /\ last_ready_sequence = [r \in Ranks |-> [s \in Slots |-> 0]]
    /\ completed_epoch = [r \in Ranks |-> 0]
    /\ life = [r \in Ranks |-> "absent"] /\ alive = [r \in Ranks |-> TRUE]

-----------------------------------------------------------------------------
(* Poison: the first thread to fail claims the region, fills in what went  *)
(* wrong and only then releases it as poisoned.                            *)

Healthy == poison_state = "healthy"

\* publish_poison up to its CAS, by a thread of rank r.
ClaimPoison(r, thread, code) ==
    /\ UNCHANGED <<error_code, error_rank>>
    /\ IF Healthy
       THEN /\ poison_state' = "claimed"
            /\ publisher' = [rank |-> r, thread |-> thread, code |-> code, stage |-> "fill"]
       ELSE UNCHANGED <<poison_state, publisher>>

\* The rest of publish_poison: the relaxed stores of the diagnostics ...
FillPoison ==
    /\ publisher.stage = "fill" /\ alive[publisher.rank]
    /\ error_code' = publisher.code /\ error_rank' = publisher.rank
    /\ publisher' = [rank |-> publisher.rank, thread |-> publisher.thread, code |-> publisher.code, stage |-> "release"]
    /\ UNCHANGED <<poison_state, layer, producer, ranks, buffers, caller, consumer, process>>

\* ... and the release store; the thread then goes on with its exception.
ReleasePoison ==
    /\ publisher.stage = "release" /\ alive[publisher.rank]
    /\ poison_state' = "poisoned"
    /\ publisher' = NoPublisher
    /\ pc' = IF publisher.thread = "caller" THEN [pc EXCEPT ![publisher.rank] = "idle"] ELSE pc
    /\ cpc' = IF publisher.thread = "consumer" THEN [cpc EXCEPT ![publisher.rank] = "exited"] ELSE cpc
    /\ life' = IF publisher.thread = "closer" THEN [life EXCEPT ![publisher.rank] = "closing"] ELSE life
    /\ UNCHANGED <<error_code, error_rank, layer, producer, ranks, buffers, call, report, joined,
                   work, last_ready_sequence, completed_epoch, alive>>

\* The caller of rank r goes on to at, or leaves its call.
CallerGoes(r, at) == pc' = [pc EXCEPT ![r] = at] /\ UNCHANGED call
CallEnds(r)       == pc' = [pc EXCEPT ![r] = "idle"] /\ call' = [call EXCEPT ![r] = NoCall]

\* poison_and_throw in the caller of rank r.
CallerPoisons(r, code) ==
    /\ ClaimPoison(r, "caller", code)
    /\ pc' = [pc EXCEPT ![r] = IF Healthy THEN "poisoning" ELSE "idle"]
    /\ call' = [call EXCEPT ![r] = NoCall]

\* The consumer thread of rank r ends, with or without publishing its failure.
ConsumerExits(r) ==
    /\ cpc' = [cpc EXCEPT ![r] = "exited"] /\ work' = [work EXCEPT ![r] = NoWork]
    /\ UNCHANGED poison
ConsumerFails(r, code) ==
    /\ ClaimPoison(r, "consumer", code)
    /\ cpc' = [cpc EXCEPT ![r] = IF Healthy THEN "poisoning" ELSE "exited"]
    /\ work' = [work EXCEPT ![r] = NoWork]

\* What poison_message reads, when it has stopped waiting for the publication.
\* Mutant: it does not look whether the diagnostics are published.
DiagnosticsUnchecked == [code |-> error_code, rank |-> error_rank]
Diagnostics == IF poison_state = "claimed" THEN Incomplete
               ELSE [code |-> error_code, rank |-> error_rank]

\* poison_message, which waits for a claim to be published, but not forever.
\* Mutant: it does wait forever.
DiagnoseUnbounded(r) ==
    /\ pc[r] = "diagnose" /\ poison_state = "poisoned"
    /\ report' = [report EXCEPT ![r] = Diagnostics]
    /\ CallEnds(r)
    /\ UNCHANGED <<poison, layer, producer, ranks, buffers, joined, consumer, process>>
Diagnose(r) ==
    /\ pc[r] = "diagnose"
    /\ report' = [report EXCEPT ![r] = Diagnostics]
    /\ CallEnds(r)
    /\ UNCHANGED <<poison, layer, producer, ranks, buffers, joined, consumer, process>>

-----------------------------------------------------------------------------
(* The calls of the caller thread.  A call with an invalid argument, or on *)
(* a transport that is closed, throws and changes nothing.                 *)

ClientCalls == [epoch : Epochs, layer : Layers, count : Counts]

\* What a client may call next.  A Lawful one goes through the layers of the
\* Plan: join, on rank zero run_producer, then wait.
MayJoin(r, c) ==
    Lawful => /\ c \in Plan /\ c.epoch > joined[r].epoch
              /\ wait_returned_epoch[r] = joined[r].epoch
              /\ \A d \in Plan : d.epoch < c.epoch => d.epoch <= joined[r].epoch
MayProduce(r, c) == Lawful => c = joined[r] /\ producer_done_epoch < c.epoch
MayWait(r, c) ==
    Lawful => /\ c = joined[r] /\ wait_returned_epoch[r] < c.epoch
              /\ r = 0 => producer_done_epoch = c.epoch

\* ensure_open and throw_if_poisoned pass.
Enters(r) == pc[r] = "idle" /\ life[r] = "open" /\ Healthy

\* throw_if_poisoned does not.
Refused(r) ==
    /\ pc[r] = "idle" /\ life[r] = "open" /\ ~Healthy
    /\ CallerGoes(r, "diagnose")
    /\ UNCHANGED <<poison, layer, producer, ranks, buffers, report, joined, consumer, process>>

\* The sequences already published.
ReadySequences == [s \in Slots |-> ready[s].sequence]

\* The constructor reads these sequences, starts the consumer and waits until
\* that has initialised CUDA.
Construct(r) ==
    /\ pc[r] = "idle" /\ (life[r] = "absent" \/ (life[r] = "stopped" /\ "reopen" \in Events))
    /\ life' = [life EXCEPT ![r] = "starting"]
    /\ last_ready_sequence' = [last_ready_sequence EXCEPT ![r] = ReadySequences]
    /\ cpc' = [cpc EXCEPT ![r] = "init"]
    /\ CallerGoes(r, "constructing")
    /\ UNCHANGED <<poison, layer, producer, ranks, buffers, report, joined, work, completed_epoch, alive>>

\* The constructor returns; or it finds init_error_ set, asks the consumer to
\* stop, joins it and throws.
ConstructReturn(r) ==
    /\ pc[r] = "constructing"
    /\ \/ life[r] = "open" /\ CallEnds(r) /\ UNCHANGED life
       \/ /\ life[r] = "starting" /\ cpc[r] # "init"
          /\ life' = [life EXCEPT ![r] = "aborting"]
          /\ UNCHANGED <<pc, call>>
       \/ /\ life[r] = "aborting" /\ cpc[r] = "exited"
          /\ life' = [life EXCEPT ![r] = "stopped"]
          /\ CallEnds(r)
    /\ UNCHANGED <<poison, layer, producer, ranks, buffers, report, joined, consumer, alive>>

\* join: rank zero opens a fresh epoch, the others enter it.
Join(r, c) ==
    /\ Enters(r) /\ MayJoin(r, c)
    /\ IF r = 0 /\ c.epoch <= active_epoch
       THEN CallerPoisons(r, "protocol")
       ELSE /\ pc' = [pc EXCEPT ![r] = IF r = 0 THEN "join_fence" ELSE "join_wait"]
            /\ call' = [call EXCEPT ![r] = c]
            /\ UNCHANGED poison
    /\ UNCHANGED <<layer, producer, ranks, buffers, report, joined, consumer, process>>

\* run_producer, which is rank-zero only and checks that the layer is joined.
RunProducer(r, c) ==
    /\ r = 0 /\ Enters(r) /\ MayProduce(r, c)
    /\ IF c # [epoch |-> active_epoch, layer |-> layer_id, count |-> expert_count] \/ join_epoch[r] # c.epoch
       THEN CallerPoisons(r, "protocol") /\ UNCHANGED <<expert, published_sequence>>
       ELSE /\ pc' = [pc EXCEPT ![r] = "prod_join"]
            /\ call' = [call EXCEPT ![r] = c]
            /\ expert' = 0 /\ published_sequence' = [s \in Slots |-> 0]
            /\ UNCHANGED poison
    /\ UNCHANGED <<layer, next_sequence, producer_done_epoch, ready, ranks, buffers, report, joined, consumer, process>>

\* wait, which needs this rank to have joined the epoch.
Wait(r, c) ==
    /\ Enters(r) /\ MayWait(r, c)
    /\ IF join_epoch[r] # c.epoch
       THEN CallerPoisons(r, "protocol")
       ELSE /\ pc' = [pc EXCEPT ![r] = "wait"]
            /\ call' = [call EXCEPT ![r] = [epoch |-> c.epoch, layer |-> 0, count |-> 0]]
            /\ UNCHANGED poison
    /\ UNCHANGED <<layer, producer, ranks, buffers, report, joined, consumer, process>>

-----------------------------------------------------------------------------
(* wait_until in the caller thread.                                        *)

\* Every rank has handed slot s back.  Mutant: rank zero has.
AckedByRankZero(s) == ack_sequence[0][s] >= published_sequence[s]
AckedByAll(s) == \A q \in Ranks : ack_sequence[q][s] >= published_sequence[s]

Producing   == {"prod_slot", "prod_write", "prod_ready", "prod_drain"}
CallerWaits == {"join_fence", "join_wait", "prod_join", "prod_slot", "prod_drain", "wait"}

\* Every rank has returned from the active layer.  Mutants: has joined it; an
\* off-by-one.
FenceOnJoin == \A q \in Ranks : join_epoch[q] >= active_epoch
FencePast   == \A q \in Ranks : wait_returned_epoch[q] > active_epoch
FenceOpen   == \A q \in Ranks : wait_returned_epoch[q] >= active_epoch

\* What wait waits for.  Mutant: only the local consumer.
LoadedHere(r) == consumer_done_epoch[r] >= call[r].epoch
Loaded(r)     == consumer_done_epoch[r] >= call[r].epoch /\ producer_done_epoch >= call[r].epoch

\* The predicate of the wait_until the caller of rank r is in.
WaitPredicate(r) ==
    /\ pc[r] = "join_fence" => FenceOpen
    /\ pc[r] = "join_wait"  => active_epoch = call[r].epoch
    /\ pc[r] = "prod_join"  => \A q \in Ranks : join_epoch[q] = call[r].epoch
    /\ pc[r] = "prod_slot"  => AckedByAll(Slot(expert))
    /\ pc[r] = "prod_drain" => \A s \in Slots : AckedByAll(s)
    /\ pc[r] = "wait"       => Loaded(r)

\* There is nothing to wait for: rank zero opens its first epoch, or writes
\* into a slot for the first time in this call.  Then poison is not seen.
NoWait(r) == \/ pc[r] = "join_fence" /\ active_epoch = 0
             \/ pc[r] = "prod_slot" /\ published_sequence[Slot(expert)] = 0

\* The caller is past the wait_until it has reached.
WaitOver(r) == NoWait(r) \/ (WaitPredicate(r) /\ Healthy)

\* close has set stopping_, or the constructor has given up.  Mutant: close joins
\* the consumer before it sets stopping_.
StoppingLate(r) == life[r] \in {"stopped", "aborting"}
Stopping(r) == life[r] \in {"stopping", "stopped", "aborting"}

\* The ways out of wait_until with an exception: poison, close, no progress
\* for the timeout.  The predicate was false when it was last evaluated; what
\* it reads may have changed before the thread acts on it.  run_producer's
\* handler turns a throw for close into poison.
CallerWaitFails(r) ==
    /\ pc[r] \in CallerWaits /\ ~NoWait(r)
    /\ \/ ~Healthy /\ CallerGoes(r, "diagnose") /\ UNCHANGED poison
       \/ /\ Stopping(r)
          /\ IF pc[r] \in Producing \cup {"prod_join"}
             THEN CallerPoisons(r, "writer")
             ELSE CallEnds(r) /\ UNCHANGED poison
       \/ "timeout" \in Events /\ CallerPoisons(r, "timeout")
    /\ UNCHANGED <<layer, producer, ranks, buffers, report, joined, consumer, process>>

-----------------------------------------------------------------------------
(* The bodies of join, wait and run_producer.                              *)

\* Rank zero, when all ranks have returned from the previous layer: the
\* relaxed stores that describe the next one ...  Mutant: one store is missing.
JoinStoreLayerOnly(r) ==
    /\ pc[r] = "join_fence" /\ WaitOver(r)
    /\ layer_id' = call[r].layer
    /\ CallerGoes(r, "join_activate")
    /\ UNCHANGED <<poison, active_epoch, expert_count, producer, ranks, buffers, report, joined, consumer, process>>
JoinStore(r) ==
    /\ pc[r] = "join_fence" /\ WaitOver(r)
    /\ layer_id' = call[r].layer /\ expert_count' = call[r].count
    /\ CallerGoes(r, "join_activate")
    /\ UNCHANGED <<poison, active_epoch, producer, ranks, buffers, report, joined, consumer, process>>

\* ... and the release store that opens the epoch.
JoinActivate(r) ==
    /\ pc[r] = "join_activate"
    /\ active_epoch' = call[r].epoch
    /\ CallerGoes(r, "join_publish")
    /\ UNCHANGED <<poison, layer_id, expert_count, producer, ranks, buffers, report, joined, consumer, process>>

\* The other ranks: rank zero has opened this epoch, for this layer, or a
\* later epoch, or another layer.
JoinCheck(r) ==
    /\ pc[r] = "join_wait"
    /\ \/ WaitOver(r) /\ layer_id = call[r].layer /\ expert_count = call[r].count
          /\ CallerGoes(r, "join_publish") /\ UNCHANGED poison
       \/ /\ \/ active_epoch > call[r].epoch
             \/ WaitOver(r) /\ (layer_id # call[r].layer \/ expert_count # call[r].count)
          /\ CallerPoisons(r, "protocol")
    /\ UNCHANGED <<layer, producer, ranks, buffers, report, joined, consumer, process>>

\* The last store of join.  A rank may join an epoch it is in once more.
JoinPublish(r) ==
    /\ pc[r] = "join_publish"
    /\ join_epoch' = [join_epoch EXCEPT ![r] = call[r].epoch]
    /\ joined' = IF join_epoch[r] = call[r].epoch THEN joined ELSE [joined EXCEPT ![r] = call[r]]
    /\ CallEnds(r)
    /\ UNCHANGED <<poison, layer, producer, consumer_done_epoch, wait_returned_epoch, ack_sequence,
                   buffers, report, consumer, process>>

\* wait, when the local consumer and the producer are through with the epoch:
\* the statistics are read from the shared region ...
WaitStats(r) ==
    /\ pc[r] = "wait" /\ WaitOver(r)
    /\ call' = [call EXCEPT ![r] = [epoch |-> @.epoch, layer |-> layer_id, count |-> expert_count]]
    /\ pc' = [pc EXCEPT ![r] = "wait_return"]
    /\ UNCHANGED <<poison, layer, producer, ranks, buffers, report, joined, consumer, process>>

\* ... before the store that lets rank zero open the next epoch.
WaitReturn(r) ==
    /\ pc[r] = "wait_return"
    /\ wait_returned_epoch' = [wait_returned_epoch EXCEPT ![r] = call[r].epoch]
    /\ CallEnds(r)
    /\ UNCHANGED <<poison, layer, producer, join_epoch, consumer_done_epoch, ack_sequence,
                   buffers, report, joined, consumer, process>>

\* run_producer, when all ranks have joined the layer.
ProducerStart(r) ==
    /\ pc[r] = "prod_join" /\ WaitOver(r)
    /\ CallerGoes(r, "prod_slot")
    /\ UNCHANGED <<poison, layer, producer, ranks, buffers, report, joined, consumer, process>>

\* The slot of the next expert is free: the writer starts to overwrite it.
WriterStart(r) ==
    /\ pc[r] = "prod_slot" /\ WaitOver(r)
    /\ host' = [host EXCEPT ![Slot(expert)] = Junk]
    /\ CallerGoes(r, "prod_write")
    /\ UNCHANGED <<poison, layer, producer, ranks, gpu, dma, report, joined, consumer, process>>

\* The writer returns; a sequence is taken and the generation described.
WriterReturn(r) ==
    /\ pc[r] = "prod_write"
    /\ host' = [host EXCEPT ![Slot(expert)] = Bytes(call[r].epoch, expert)]
    /\ next_sequence' = next_sequence + 1
    /\ ready' = [ready EXCEPT ![Slot(expert)] =
                     [sequence |-> @.sequence, epoch |-> call[r].epoch, expert |-> expert]]
    /\ CallerGoes(r, "prod_ready")
    /\ UNCHANGED <<poison, layer, producer_done_epoch, expert, published_sequence, ranks, gpu, dma,
                   report, joined, consumer, process>>

\* The writer throws.
WriterThrows(r) ==
    /\ pc[r] = "prod_write" /\ "writer" \in Events
    /\ CallerPoisons(r, "writer")
    /\ UNCHANGED <<layer, producer, ranks, buffers, report, joined, consumer, process>>

\* The release store of the sequence publishes the expert.  Mutant: one expert
\* too many.
ProducerPublishPast(r) ==
    /\ pc[r] = "prod_ready"
    /\ ready' = [ready EXCEPT ![Slot(expert)] =
                     [sequence |-> next_sequence, epoch |-> @.epoch, expert |-> @.expert]]
    /\ published_sequence' = [published_sequence EXCEPT ![Slot(expert)] = next_sequence]
    /\ expert' = expert + 1
    /\ CallerGoes(r, IF expert + 1 <= call[r].count THEN "prod_slot" ELSE "prod_drain")
    /\ UNCHANGED <<poison, layer, next_sequence, producer_done_epoch, ranks, buffers, report, joined, consumer, process>>
ProducerPublish(r) ==
    /\ pc[r] = "prod_ready"
    /\ ready' = [ready EXCEPT ![Slot(expert)] =
                     [sequence |-> next_sequence, epoch |-> @.epoch, expert |-> @.expert]]
    /\ published_sequence' = [published_sequence EXCEPT ![Slot(expert)] = next_sequence]
    /\ expert' = expert + 1
    /\ CallerGoes(r, IF expert + 1 < call[r].count THEN "prod_slot" ELSE "prod_drain")
    /\ UNCHANGED <<poison, layer, next_sequence, producer_done_epoch, ranks, buffers, report, joined, consumer, process>>

\* run_producer, when every rank has acknowledged every slot it published.
ProducerDone(r) ==
    /\ pc[r] = "prod_drain" /\ WaitOver(r)
    /\ producer_done_epoch' = call[r].epoch
    /\ CallEnds(r)
    /\ UNCHANGED <<poison, layer, next_sequence, ready, expert, published_sequence, ranks, buffers,
                   report, joined, consumer, process>>

-----------------------------------------------------------------------------
(* The consumer thread, and the copies it starts.                          *)

\* initialize_cuda_worker; consumer_main then reads where this rank stands.
ConsumerInit(r) ==
    /\ cpc[r] = "init"
    /\ \/ /\ cpc' = [cpc EXCEPT ![r] = "scan"]
          /\ completed_epoch' = [completed_epoch EXCEPT ![r] = consumer_done_epoch[r]]
          /\ life' = [life EXCEPT ![r] = "open"]
       \/ /\ "cuda" \in Events
          /\ cpc' = [cpc EXCEPT ![r] = "init_failed"]
          /\ UNCHANGED <<completed_epoch, life>>
    /\ UNCHANGED <<poison, layer, producer, ranks, buffers, caller, work, last_ready_sequence, alive>>

\* Its handler has woken the constructor, which may already have asked the
\* thread to stop: then the failure is not published, unless the handler has
\* tested stopping_ before.
ConsumerInitFails(r) ==
    /\ cpc[r] = "init_failed"
    /\ (Stopping(r) /\ ConsumerExits(r)) \/ ConsumerFails(r, "cuda_init")
    /\ UNCHANGED <<layer, producer, ranks, buffers, caller, last_ready_sequence, completed_epoch, process>>

\* There is a layer this rank has joined and not yet consumed.  Mutant: it need
\* not have joined it.
LayerActive(r)  == active_epoch > completed_epoch[r]
LayerPending(r) == active_epoch > completed_epoch[r] /\ join_epoch[r] = active_epoch

\* The head of consumer_main's loop.
ConsumerScan(r) ==
    /\ cpc[r] = "scan"
    /\ \/ Stopping(r) /\ ConsumerExits(r)
       \/ ~Stopping(r) /\ ~LayerPending(r) /\ ~Healthy /\ ConsumerExits(r)
       \/ /\ ~Stopping(r) /\ LayerPending(r)
          /\ work' = [work EXCEPT ![r] = 
                      [epoch |-> active_epoch, count |-> expert_count, expert |-> 0, observed |-> 0]]
          /\ cpc' = [cpc EXCEPT ![r] = "wait_ready"]
          /\ UNCHANGED poison
    /\ UNCHANGED <<layer, producer, ranks, buffers, caller, last_ready_sequence, completed_epoch, process>>

\* The slot of the expert this consumer waits for, a generation in it that it
\* has not consumed, and that generation being the expert it waits for.
WorkSlot(r)      == Slot(work[r].expert)
NewGeneration(r) == ready[WorkSlot(r)].sequence # last_ready_sequence[r][WorkSlot(r)]
Matches(r)       == ready[WorkSlot(r)].epoch = work[r].epoch /\ ready[WorkSlot(r)].expert = work[r].expert

\* The predicate of its wait loads the sequence ...
ConsumerPeek(r) ==
    /\ cpc[r] = "wait_ready"
    /\ \/ active_epoch > work[r].epoch /\ ConsumerFails(r, "protocol")
       \/ /\ active_epoch <= work[r].epoch /\ NewGeneration(r)
          /\ work' = [work EXCEPT ![r] = [epoch |-> @.epoch, count |-> @.count, expert |-> @.expert,
                                           observed |-> ready[WorkSlot(r)].sequence]]
          /\ cpc' = [cpc EXCEPT ![r] = "match"]
          /\ UNCHANGED poison
    /\ UNCHANGED <<layer, producer, ranks, buffers, caller, last_ready_sequence, completed_epoch, process>>

\* ... and then what it stands for; copy_expert enqueues the H2D copy.
ConsumerCopy(r) ==
    /\ cpc[r] = "match"
    /\ \/ /\ Matches(r) /\ Healthy
          /\ dma' = [dma EXCEPT ![r] = @ \cup {work[r].expert}]
          /\ cpc' = [cpc EXCEPT ![r] = "copying"]
          /\ UNCHANGED <<poison, work>>
       \/ /\ ~Matches(r)
          /\ cpc' = [cpc EXCEPT ![r] = "wait_ready"]
          /\ UNCHANGED <<poison, work, dma>>
       \/ ~Healthy /\ ConsumerExits(r) /\ UNCHANGED dma
    /\ UNCHANGED <<layer, producer, ranks, host, gpu, caller, last_ready_sequence, completed_epoch, process>>

\* The GPU finishes a copy, whatever has become of the thread that started it.
DmaComplete(r, x) ==
    /\ x \in dma[r]
    /\ gpu' = [gpu EXCEPT ![r] = [@ EXCEPT ![x] = host[Slot(x)]]]
    /\ dma' = [dma EXCEPT ![r] = @ \ {x}]
    /\ UNCHANGED <<poison, layer, producer, ranks, host, caller, consumer, process>>

\* The event query reports the copy complete.  Mutant: no query.
CopyAssumed(r)  == TRUE
CopyComplete(r) == work[r].expert \notin dma[r]

\* When it does, the slot is handed back.
ConsumerAck(r) ==
    /\ cpc[r] = "copying" /\ CopyComplete(r) /\ Healthy
    /\ last_ready_sequence' = [last_ready_sequence EXCEPT ![r] = [@ EXCEPT ![WorkSlot(r)] = work[r].observed]]
    /\ ack_sequence' = [ack_sequence EXCEPT ![r] = [@ EXCEPT ![WorkSlot(r)] = work[r].observed]]
    /\ work' = [work EXCEPT ![r] = [epoch |-> @.epoch, count |-> @.count, expert |-> @.expert + 1,
                                     observed |-> @.observed]]
    /\ cpc' = [cpc EXCEPT ![r] = IF work[r].expert + 1 < work[r].count THEN "wait_ready" ELSE "finish"]
    /\ UNCHANGED <<poison, layer, producer, join_epoch, consumer_done_epoch, wait_returned_epoch,
                   buffers, caller, completed_epoch, process>>

\* Every expert of the layer is on this rank's GPU.
ConsumerFinish(r) ==
    /\ cpc[r] = "finish"
    /\ consumer_done_epoch' = [consumer_done_epoch EXCEPT ![r] = work[r].epoch]
    /\ completed_epoch' = [completed_epoch EXCEPT ![r] = work[r].epoch]
    /\ cpc' = [cpc EXCEPT ![r] = "scan"]
    /\ work' = [work EXCEPT ![r] = NoWork]
    /\ UNCHANGED <<poison, layer, producer, join_epoch, wait_returned_epoch, ack_sequence,
                   buffers, caller, last_ready_sequence, process>>

\* The ways out of wait_until with an exception, as for the caller.  A copy may
\* be in flight.
ConsumerWaitFails(r) ==
    /\ cpc[r] \in {"wait_ready", "copying"}
    /\ \/ (~Healthy \/ Stopping(r)) /\ ConsumerExits(r)
       \/ "timeout" \in Events /\ ConsumerFails(r, "timeout")
    /\ UNCHANGED <<layer, producer, ranks, buffers, caller, last_ready_sequence, completed_epoch, process>>

\* A CUDA call of copy_expert fails; the copies enqueued before it, if any,
\* go on.  While stopping, the failure is not published, unless the handler
\* has tested stopping_ before.
CopyFails(r) ==
    /\ cpc[r] = "copying" /\ "cuda" \in Events
    /\ dma' \in {dma, [dma EXCEPT ![r] = @ \ {work[r].expert}]}
    /\ (Stopping(r) /\ ConsumerExits(r)) \/ ConsumerFails(r, "cuda_copy")
    /\ UNCHANGED <<layer, producer, ranks, host, gpu, caller, last_ready_sequence, completed_epoch, process>>

-----------------------------------------------------------------------------
(* The end of a transport, and of a process.                               *)

\* close: the first caller looks whether this rank is in the middle of a layer,
Close(r) ==
    /\ life[r] = "open" /\ pc[r] # "constructing" /\ "close" \in Events
    /\ life' = [life EXCEPT ![r] =
                    IF active_epoch # 0 /\ consumer_done_epoch[r] < active_epoch /\ Healthy
                    THEN "closing_claim" ELSE "closing"]
    /\ UNCHANGED <<poison, layer, producer, ranks, buffers, caller, consumer, alive>>

\* poisons the region if it was, tells every wait_until of this transport to
\* give up, and joins the consumer thread.
CloseReturn(r) ==
    /\ \/ /\ life[r] = "closing_claim" /\ ClaimPoison(r, "closer", "closed")
          /\ life' = [life EXCEPT ![r] = IF Healthy THEN "closing_poison" ELSE "closing"]
       \/ life[r] = "closing" /\ life' = [life EXCEPT ![r] = "stopping"] /\ UNCHANGED poison
       \/ /\ life[r] = "stopping" /\ cpc[r] = "exited"
          /\ life' = [life EXCEPT ![r] = "stopped"] /\ UNCHANGED poison
    /\ UNCHANGED <<layer, producer, ranks, buffers, caller, consumer, alive>>

\* The process of rank r dies; nothing in the shared region says so.
Crash(r) ==
    /\ "crash" \in Events
    /\ alive' = [alive EXCEPT ![r] = FALSE]
    /\ UNCHANGED <<poison, layer, producer, ranks, buffers, caller, consumer, life>>

-----------------------------------------------------------------------------
Call(r) ==
    \/ Refused(r) \/ Construct(r)
    \/ \E c \in ClientCalls : Join(r, c) \/ RunProducer(r, c) \/ Wait(r, c)

CallerStep(r) ==
    \/ ConstructReturn(r) \/ JoinStore(r) \/ JoinActivate(r) \/ JoinCheck(r) \/ JoinPublish(r)
    \/ WaitStats(r) \/ WaitReturn(r)
    \/ ProducerStart(r) \/ WriterStart(r) \/ WriterReturn(r) \/ WriterThrows(r)
    \/ ProducerPublish(r) \/ ProducerDone(r)
    \/ CallerWaitFails(r) \/ Diagnose(r)

ConsumerStep(r) ==
    \/ ConsumerInit(r) \/ ConsumerInitFails(r) \/ ConsumerScan(r) \/ ConsumerPeek(r) \/ ConsumerCopy(r)
    \/ ConsumerAck(r) \/ ConsumerFinish(r) \/ ConsumerWaitFails(r) \/ CopyFails(r)

PublisherStep == FillPoison \/ ReleasePoison

\* The threads of a rank run while its process lives.
Next ==
    \/ PublisherStep
    \/ \E r \in Ranks :
          \/ alive[r] /\ (Call(r) \/ CallerStep(r) \/ ConsumerStep(r) \/ Close(r) \/ CloseReturn(r) \/ Crash(r))
          \/ \E x \in Experts : DmaComplete(r, x)

Spec == Init /\ [][Next]_vars

\* Every live thread keeps running, and the GPU finishes what it is given.
Fairness ==
    /\ WF_vars(PublisherStep)
    /\ \A r \in Ranks : /\ WF_vars(alive[r] /\ CallerStep(r))
                        /\ WF_vars(alive[r] /\ ConsumerStep(r))
                        /\ WF_vars(alive[r] /\ CloseReturn(r))
                        /\ WF_vars(\E x \in Experts : DmaComplete(r, x))

FairSpec == Spec /\ Fairness

\* The same, with clients that do make their calls.
LiveSpec == FairSpec /\ \A r \in Ranks : WF_vars(alive[r] /\ Call(r))
=============================================================================
