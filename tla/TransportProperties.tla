------------------------ MODULE TransportProperties -------------------------
(***************************************************************************)
(* What the layerwise transport guarantees, to any clients: the calls may  *)
(* come in any order, and the events of AllEvents may happen at any time.  *)
(***************************************************************************)
EXTENDS LayerwiseTransport

ErrorCodes  == {"none", "protocol", "timeout", "cuda_init", "cuda_copy", "writer", "closed"}
AllBytes    == [epoch : Nat, expert : Nat]
CallerPcs   == CallerWaits \cup Producing \cup
    {"idle", "constructing", "diagnose", "poisoning", "join_activate", "join_publish", "wait_return"}
Consuming   == {"wait_ready", "match", "copying", "finish"}
ConsumerPcs == Consuming \cup {"init", "init_failed", "scan", "poisoning", "exited"}
Lives       == {"absent", "starting", "aborting", "open", "closing", "closing_claim", "closing_poison", "stopping", "stopped"}

\* Every variable has its type.
TypeOK ==
    /\ poison_state \in {"healthy", "claimed", "poisoned"}
    /\ error_code \in ErrorCodes /\ error_rank \in Ranks \cup {-1}
    /\ publisher \in [rank : Ranks, thread : {"none", "caller", "consumer", "closer"}, code : ErrorCodes,
                      stage : {"none", "fill", "release"}]
    /\ active_epoch \in Nat /\ layer_id \in Nat /\ expert_count \in 0 .. NumExperts
    /\ next_sequence \in Nat /\ producer_done_epoch \in Nat
    /\ ready \in [Slots -> [sequence : Nat, epoch : Nat, expert : Nat]]
    /\ expert \in 0 .. NumExperts /\ published_sequence \in [Slots -> Nat]
    /\ join_epoch \in [Ranks -> Nat] /\ consumer_done_epoch \in [Ranks -> Nat]
    /\ wait_returned_epoch \in [Ranks -> Nat] /\ ack_sequence \in [Ranks -> [Slots -> Nat]]
    /\ host \in [Slots -> AllBytes] /\ gpu \in [Ranks -> [Experts -> AllBytes]]
    /\ dma \in [Ranks -> SUBSET Experts]
    /\ pc \in [Ranks -> CallerPcs]
    /\ call \in [Ranks -> Calls] /\ joined \in [Ranks -> Calls]
    /\ report \in [Ranks -> [code : ErrorCodes \cup {"unasked", "incomplete"}, rank : Ranks \cup {-1}]]
    /\ cpc \in [Ranks -> ConsumerPcs]
    /\ work \in [Ranks -> [epoch : Nat, count : 0 .. NumExperts, expert : 0 .. NumExperts, observed : Nat]]
    /\ last_ready_sequence \in [Ranks -> [Slots -> Nat]] /\ completed_epoch \in [Ranks -> Nat]
    /\ life \in [Ranks -> Lives] /\ alive \in [Ranks -> BOOLEAN]

\* A host slot is never written while a copy out of it is in flight, even a
\* copy whose consumer thread has failed, stopped or died: the source of the
\* copy holds exactly the expert being copied (wait_for_slot_ack, copy_expert).
NoTornCopy ==
    \A r \in Ranks : \A x \in dma[r] : host[Slot(x)] = Bytes(joined[r].epoch, x)

\* From the return of wait(epoch) until the rank joins a later epoch, its GPU
\* holds every expert of its layer, with the bytes written for that epoch.
LayerOnGpu ==
    \A r \in Ranks :
        join_epoch[r] # 0 /\ wait_returned_epoch[r] = join_epoch[r] =>
            \A x \in Experts : x < joined[r].count => gpu[r][x] = Bytes(join_epoch[r], x)

\* The first wait for an epoch reports the layer the rank joined, although it
\* reads layer_id and expert_count from cells rank zero writes for the next.
StatsOfOwnLayer ==
    \A r \in Ranks :
        pc[r] = "wait_return" /\ wait_returned_epoch[r] < call[r].epoch => call[r] = joined[r]

\* A consumer that works on a layer works on the one its rank has joined, with
\* that layer's number of experts, and no other becomes active meanwhile: the
\* test for it in consumer_main's wait never fires.
ConsumerOnJoinedLayer ==
    \A r \in Ranks :
        cpc[r] \in Consuming => /\ work[r].epoch = joined[r].epoch /\ work[r].count = joined[r].count
                                /\ work[r].epoch = active_epoch

\* An exception raised by poison carries the complete diagnostics of the
\* first failure, or says that they were never completed (poison_message).
ReportsFirstFailure ==
    \A r \in Ranks :
        \/ report[r] \in {NoReport, Incomplete}
        \/ /\ poison_state = "poisoned" /\ error_code # "none"
           /\ report[r] = [code |-> error_code, rank |-> error_rank]

\* Poison is never taken back, and what it says never changes.
PoisonLatches ==
    [][/\ poison_state # "healthy" => poison_state' # "healthy"
       /\ poison_state = "poisoned" => UNCHANGED <<poison_state, error_code, error_rank>>]_vars

\* Ranks that make their calls in order never break the protocol, whatever
\* fails: none of the checks in join, run_producer, wait and the consumer that
\* poison a transport for it fires on a rank that is merely late or that meets
\* another rank's failure.
NoSpuriousPoison == Lawful => error_code # "protocol"

\* Every call ends: it returns or throws, whatever the other ranks do, even
\* if the process that was publishing the poison dies (wait_until).
EveryCallEnds == \A r \in Ranks : pc[r] # "idle" ~> (pc[r] = "idle" \/ ~alive[r])

\* close ends: the consumer thread it joins always gets to its exit.
CloseEnds == \A r \in Ranks : life[r] \in {"closing_claim", "closing"} ~> (life[r] = "stopped" \/ ~alive[r])

\* Every rank gets through all its layers, or the transport says why not: it
\* is poisoned, or a process has died or closed its transport.  No failure
\* leaves the ranks in a healthy transport in which nothing moves.
AllLayersLoad ==
    <>(\/ \A r \in Ranks, c \in Plan : wait_returned_epoch[r] >= c.epoch
       \/ ~Healthy \/ \E r \in Ranks : ~alive[r] \/ life[r] = "stopped")

-----------------------------------------------------------------------------
(* The transport implements the broadcast of layers.  While rank zero is   *)
(* between its stores in join, expert_count is already the next layer's.   *)

LayerCount == IF pc[0] = "join_activate" THEN joined[0].count ELSE expert_count

Broadcast == INSTANCE LayerBroadcast WITH
    epoch    <- active_epoch,
    count    <- LayerCount,
    members  <- {r \in Ranks : active_epoch # 0 /\ join_epoch[r] = active_epoch},
    received <- [r \in Ranks |-> {x \in Experts : x < LayerCount /\ gpu[r][x] = Bytes(active_epoch, x)}],
    told     <- {r \in Ranks : active_epoch # 0 /\ wait_returned_epoch[r] = active_epoch},
    failed   <- ~Healthy

\* Layers are loaded one at a time and by all ranks together, each rank gets
\* the experts in order, no rank leaves wait before every rank's GPU has the
\* whole layer, and poison is final: join, run_producer, wait and the consumers
\* together implement the broadcast.
ImplementsBroadcast == Broadcast!BSpec
=============================================================================
