------------------------- MODULE TransportInvariant -------------------------
(***************************************************************************)
(* The inductive invariant behind NoTornCopy, LayerOnGpu, StatsOfOwnLayer, *)
(* ConsumerOnJoinedLayer and ReportsFirstFailure: who publishes a failure, *)
(* how the epochs of the cells are ordered, what the locals of a thread    *)
(* imply, who may touch a host slot, and what the GPUs hold.               *)
(***************************************************************************)
EXTENDS TransportProperties

\* The region is claimed while some thread publishes its failure, that thread
\* waits in publish_poison, and the diagnostics are complete before release.
PublisherInv ==
    /\ publisher.stage # "none" <=> poison_state = "claimed"
    /\ publisher.stage # "none" => publisher.code # "none"
    /\ publisher.stage = "release" => error_code = publisher.code /\ error_rank = publisher.rank
    /\ poison_state = "poisoned" => error_code # "none"
    /\ publisher.thread = "caller" => pc[publisher.rank] = "poisoning"
    /\ publisher.thread = "consumer" => cpc[publisher.rank] = "poisoning"
    /\ publisher.thread = "closer" => life[publisher.rank] = "closing_poison"
    /\ \A r \in Ranks : pc[r] = "diagnose" => ~Healthy
    /\ ReportsFirstFailure

\* A transport that is not there has no consumer thread, and one that is being
\* constructed waits for it.
LifeInv ==
    \A r \in Ranks : /\ life[r] \in {"absent", "stopped"} => cpc[r] = "exited"
                     /\ cpc[r] = "init" => life[r] = "starting"

\* Only rank zero opens epochs and produces; only the others wait for it.
RankZeroPcs == Producing \cup {"join_fence", "join_activate", "prod_join"}
RolesInv == /\ pc[0] # "join_wait"
            /\ \A r \in Ranks : r # 0 => pc[r] \notin RankZeroPcs

\* A rank is told of an epoch after it consumed it, consumes it after it
\* joined it, and joins it after rank zero has opened it; and no epoch is
\* opened before the ranks have been told of the one they are in.
EpochInv ==
    \A r \in Ranks : /\ wait_returned_epoch[r] <= consumer_done_epoch[r]
                     /\ consumer_done_epoch[r] <= join_epoch[r]
                     /\ join_epoch[r] <= active_epoch
                     /\ completed_epoch[r] <= consumer_done_epoch[r]
                     /\ joined[r].epoch = join_epoch[r]
                     /\ join_epoch[r] < active_epoch => wait_returned_epoch[r] = join_epoch[r]

\* The layer cells are those of the active epoch, for the ranks that are in
\* it, except while rank zero is between its stores in join: then every rank
\* has returned from the active epoch.
Current(c) == c.epoch = active_epoch /\ c.layer = layer_id /\ c.count = expert_count
AllReturned == \A q \in Ranks : wait_returned_epoch[q] = active_epoch
LayerInv ==
    /\ active_epoch # 0 => expert_count # 0
    /\ pc[0] = "join_activate" => AllReturned
    /\ pc[0] # "join_activate" =>
           \A r \in Ranks : active_epoch # 0 /\ join_epoch[r] = active_epoch => Current(joined[r])

\* What the caller's locals are worth at each point of a call.
CallerInv ==
    /\ pc[0] \in {"join_fence", "join_activate"} => call[0].epoch > active_epoch /\ call[0].count # 0
    /\ pc[0] = "join_activate" => call[0].layer = layer_id /\ call[0].count = expert_count
    /\ pc[0] = "join_publish" => Current(call[0]) /\ join_epoch[0] < active_epoch
    /\ pc[0] \in Producing \cup {"prod_join"} => Current(call[0]) /\ join_epoch[0] = active_epoch
    /\ pc[0] \in Producing => \A q \in Ranks : join_epoch[q] = active_epoch
    /\ pc[0] \in {"prod_join", "prod_slot", "prod_write", "prod_ready"} => expert < call[0].count
    /\ pc[0] = "prod_join" => \A s \in Slots : published_sequence[s] = 0
    /\ \A r \in Ranks :
        /\ pc[r] = "join_publish" /\ join_epoch[r] # call[r].epoch =>
               Current(call[r]) /\ (r # 0 => pc[0] # "join_activate")
        /\ pc[r] = "join_wait" => call[r].epoch # 0
        /\ pc[r] = "join_publish" => call[r].epoch # 0
        /\ pc[r] \in {"wait", "wait_return"} => call[r].epoch = join_epoch[r] /\ join_epoch[r] # 0
        /\ pc[r] = "wait_return" =>
               /\ consumer_done_epoch[r] = call[r].epoch
               /\ wait_returned_epoch[r] < call[r].epoch => call[r] = joined[r]

\* What the consumer's locals are worth.
ConsumerInv ==
    \A r \in Ranks :
        /\ cpc[r] \in Consuming \cup {"scan"} => completed_epoch[r] = consumer_done_epoch[r]
        /\ cpc[r] \in Consuming =>
            /\ work[r].epoch = active_epoch /\ join_epoch[r] = active_epoch
            /\ work[r].count = expert_count
            /\ consumer_done_epoch[r] < active_epoch
            /\ cpc[r] # "finish" => work[r].expert < work[r].count
            /\ cpc[r] = "finish" => work[r].expert = work[r].count

\* No rank has still to acknowledge the generation in slot s.
Drained(s) == \A q \in Ranks : ack_sequence[q][s] = ready[s].sequence

\* Sequences grow; and unless poison has stopped it, rank zero has drained
\* every slot it is not using, and the one it writes.
SlotInv ==
    /\ \A s \in Slots :
        /\ ready[s].sequence <= next_sequence
        /\ pc[0] = "prod_ready" => ready[s].sequence < next_sequence
        /\ \A r \in Ranks : ack_sequence[r][s] <= ready[s].sequence
        /\ pc[0] \notin Producing /\ Healthy => Drained(s)
        /\ pc[0] \in Producing /\ published_sequence[s] = 0 => Drained(s)
        /\ pc[0] \in Producing /\ published_sequence[s] # 0 => published_sequence[s] = ready[s].sequence
        /\ ~Drained(s) => host[s] = Bytes(ready[s].epoch, ready[s].expert)
    /\ pc[0] \in {"prod_write", "prod_ready"} => Drained(Slot(expert))
    /\ pc[0] = "prod_ready" => /\ host[Slot(expert)] = Bytes(active_epoch, expert)
                               /\ ready[Slot(expert)].epoch = active_epoch
                               /\ ready[Slot(expert)].expert = expert

\* A running consumer has not seen a generation later than the one in the
\* slot, and the one it is matching or copying is not acknowledged.
Running(r) == cpc[r] \in Consuming \cup {"init", "init_failed", "scan"}
GenerationInv ==
    \A r \in Ranks :
        /\ Running(r) => \A s \in Slots : /\ ack_sequence[r][s] <= last_ready_sequence[r][s]
                                          /\ last_ready_sequence[r][s] <= ready[s].sequence
        /\ cpc[r] \in {"match", "copying"} => /\ work[r].observed = ready[WorkSlot(r)].sequence
                                              /\ NewGeneration(r)
        /\ cpc[r] = "copying" => Matches(r)

\* A copy in flight is the running consumer's current one, or was left by one
\* that has ended: then no consumer of this rank gets past its slot again.
Stuck(r, s) ==
    Running(r) => /\ last_ready_sequence[r][s] = ready[s].sequence
                  /\ cpc[r] \in Consuming => work[r].expert <= s
DmaInv ==
    \A r \in Ranks : \A x \in dma[r] :
        /\ ready[Slot(x)].epoch = active_epoch /\ ready[Slot(x)].expert = x
        /\ join_epoch[r] = active_epoch /\ x < expert_count
        /\ consumer_done_epoch[r] < active_epoch
        /\ ack_sequence[r][Slot(x)] # ready[Slot(x)].sequence
        /\ (cpc[r] = "copying" /\ work[r].expert = x) \/ Stuck(r, Slot(x))

\* What each rank's GPU holds of the layer the rank is in.
Holds(r, x) == gpu[r][x] = Bytes(join_epoch[r], x)
GpuInv ==
    \A r \in Ranks :
        /\ cpc[r] \in Consuming => \A x \in Experts : x < work[r].expert => Holds(r, x)
        /\ cpc[r] = "copying" => work[r].expert \in dma[r] \/ Holds(r, work[r].expert)
        /\ join_epoch[r] # 0 /\ consumer_done_epoch[r] = join_epoch[r] =>
               \A x \in Experts : x < joined[r].count => Holds(r, x)

TransportInv ==
    /\ TypeOK /\ LifeInv /\ PublisherInv /\ RolesInv /\ EpochInv /\ LayerInv /\ CallerInv /\ ConsumerInv
    /\ SlotInv /\ GenerationInv /\ DmaInv /\ GpuInv

-----------------------------------------------------------------------------
(* What the refinement of LayerBroadcast and NoSpuriousPoison need besides. *)

\* Rank zero is in the epoch it has opened, except between the last two stores
\* of join; and it opens the epochs the clients pass.
OpenInv ==
    /\ pc[0] # "join_publish" => join_epoch[0] = active_epoch
    /\ pc[0] \in {"join_fence", "join_activate"} => call[0].epoch \in Epochs /\ call[0].count \in Counts
    /\ active_epoch = 0 /\ pc[0] # "join_activate" => expert_count = 0
    /\ \A r \in Ranks : join_epoch[r] = 0 => joined[r].count = 0

\* No buffer holds an expert, and no slot a generation, of an epoch its readers
\* have not joined.
FreshInv ==
    /\ \A r \in Ranks, x \in Experts : gpu[r][x].epoch <= join_epoch[r]
    /\ \A s \in Slots : ready[s].epoch <= active_epoch
    /\ \A s \in Slots : ready[s].epoch # 0 /\ ready[s].epoch = active_epoch =>
                            \A q \in Ranks : join_epoch[q] = active_epoch

\* The experts of a layer reach a GPU in order.
OrderInv ==
    \A r \in Ranks, x \in Experts :
        join_epoch[r] # 0 /\ (Holds(r, x) \/ x \in dma[r]) => \A y \in Experts : y < x => Holds(r, y)

\* While rank zero produces, every rank has each published expert, or has still
\* to acknowledge the slot it is in; and rank zero declares a layer produced
\* when every rank has all of it.
Outstanding(q, x) == /\ ready[Slot(x)].epoch = active_epoch /\ ready[Slot(x)].expert = x
                     /\ ack_sequence[q][Slot(x)] # ready[Slot(x)].sequence
DeliveryInv ==
    /\ pc[0] = "prod_join" => expert = 0
    /\ pc[0] = "prod_drain" => expert = expert_count
    /\ pc[0] \in Producing => \A q \in Ranks, x \in Experts : x < expert => Holds(q, x) \/ Outstanding(q, x)
    /\ producer_done_epoch <= active_epoch
    /\ active_epoch # 0 /\ producer_done_epoch = active_epoch =>
           \A q \in Ranks : /\ join_epoch[q] = active_epoch
                            /\ \A x \in Experts : x < joined[q].count => Holds(q, x)
    /\ \A r \in Ranks : pc[r] = "wait_return" => producer_done_epoch >= call[r].epoch

BroadcastInv == OpenInv /\ FreshInv /\ OrderInv /\ DeliveryInv

\* Lawful clients: what a rank is about to join is the first planned layer after
\* the one it is in, and rank zero is at most one layer ahead of any rank.
NextPlanned(c, e) == c \in Plan /\ c.epoch > e /\ \A d \in Plan : d.epoch < c.epoch => d.epoch <= e
LawInv ==
    /\ error_code # "protocol" /\ publisher.code # "protocol"
    /\ \A r \in Ranks :
        /\ pc[r] \in {"join_fence", "join_activate", "join_wait"} => NextPlanned(call[r], join_epoch[r])
        /\ \A d \in Plan : d.epoch < active_epoch => d.epoch <= join_epoch[r]
    /\ active_epoch # 0 /\ pc[0] # "join_activate" =>
           [epoch |-> active_epoch, layer |-> layer_id, count |-> expert_count] \in Plan
=============================================================================
