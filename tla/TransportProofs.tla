-------------------------- MODULE TransportProofs ---------------------------
(***************************************************************************)
(* Every step of the transport preserves TransportInv: first the parts     *)
(* about its control (types, publication of a failure, epochs, the locals  *)
(* of the threads), then those about its data (the host slots, the         *)
(* generations in them, the copies in flight and the GPUs).  One lemma per *)
(* part, one step per action.  From all parts follow the theorems.         *)
(*                                                                         *)
(* Then that the transport implements the broadcast of layers, for any     *)
(* clients, and that with clients that make their calls in order no check  *)
(* of the protocol ever fires.                                             *)
(***************************************************************************)
EXTENDS TransportInvariant, TLAPS

\* Rank zero exists, and the host slots are used in a circle (e % kFP8LayerwiseHostSlots).
LEMMA SlotFacts ==
    /\ 0 \in Ranks
    /\ \A x \in Nat : Slot(x) \in Slots /\ Slot(x) <= x
    /\ \A x \in Slots : Slot(x) = x
  BY TPAssumption, SlotsAssumption DEF Ranks, Slots, Slot

\* initialize_fp8_layerwise_control leaves every cell in its type.
LEMMA TypeInit == Init => TypeOK
  BY TPAssumption, SlotsAssumption, ExpertsAssumption
     DEF Init, TypeOK, Ranks, Slots, Experts, Junk, Bytes, AllBytes, NoCall, NoWork, NoPublisher, NoReport,
         ErrorCodes, CallerPcs, ConsumerPcs, Lives, Calls

\* What validate_call lets through: epoch zero and empty layers are refused.
LEMMA CallFacts ==
    \A c \in ClientCalls : c \in Calls /\ c.epoch # 0 /\ c.count # 0
  <1> SUFFICES ASSUME NEW c \in ClientCalls PROVE c \in Calls /\ c.epoch # 0 /\ c.count # 0
    OBVIOUS
  <1>1. /\ c.epoch \in Epochs /\ c.layer \in Layers /\ c.count \in Counts
        /\ c = [epoch |-> c.epoch, layer |-> c.layer, count |-> c.count]
    BY DEF ClientCalls
  <1>2. c.epoch \in Nat \ {0} /\ c.layer \in Nat /\ c.count \in 1 .. NumExperts
    BY <1>1, CallAssumption
  <1> QED BY <1>1, <1>2, ExpertsAssumption DEF Calls

\* A step starts the consumer thread of a rank only in its constructor, and joins
\* it before the transport is gone.
LEMMA LifeStep ==
    ASSUME TypeOK, PublisherInv, LifeInv, Next
    PROVE  LifeInv'
  <1>1. /\ poison_state \in {"healthy", "claimed", "poisoned"} /\ pc \in [Ranks -> CallerPcs]
        /\ cpc \in [Ranks -> ConsumerPcs] /\ life \in [Ranks -> Lives] /\ error_code \in ErrorCodes
        /\ error_rank \in Ranks \cup {-1}
    BY DEF TypeOK
  <1>2. /\ report \in [Ranks -> [code : ErrorCodes \cup {"unasked", "incomplete"}, rank : Ranks \cup {-1}]]
        /\ publisher \in [rank : Ranks, thread : {"none", "caller", "consumer", "closer"},
                         code : ErrorCodes, stage : {"none", "fill", "release"}]
    BY DEF TypeOK
  <1>3. CASE FillPoison \/ ReleasePoison
    BY <1>1, <1>2, <1>3, SlotFacts
       DEF FillPoison, ReleasePoison, LifeInv, PublisherInv, ReportsFirstFailure, Healthy, NoReport,
           Incomplete, poison, caller, consumer, process, NoPublisher
  <1>4. ASSUME NEW r \in Ranks, Refused(r) \/ Construct(r)
        PROVE  LifeInv'
    BY <1>1, <1>2, <1>4, SlotFacts
       DEF Refused, CallerGoes, Construct, LifeInv, PublisherInv, ReportsFirstFailure, Healthy, NoReport,
           Incomplete, poison, caller, consumer, process, NoPublisher
  <1>5. ASSUME NEW r \in Ranks, NEW c \in ClientCalls, Join(r, c) \/ RunProducer(r, c) \/ Wait(r, c)
        PROVE  LifeInv'
    BY <1>1, <1>2, <1>5, SlotFacts
       DEF Join, Enters, MayJoin, CallerPoisons, ClaimPoison, ClientCalls, NoCall, RunProducer, MayProduce,
           Wait, MayWait, LifeInv, PublisherInv, ReportsFirstFailure, Healthy, NoReport, Incomplete, poison,
           caller, consumer, process, NoPublisher
  <1>6. ASSUME NEW r \in Ranks, ConstructReturn(r) \/ JoinCheck(r) \/ WaitStats(r) \/ CallerWaitFails(r) \/
               Diagnose(r) \/ JoinStore(r) \/ JoinActivate(r) \/ JoinPublish(r) \/ WaitReturn(r)
        PROVE  LifeInv'
    BY <1>1, <1>2, <1>6, SlotFacts
       DEF ConstructReturn, CallEnds, NoCall, JoinCheck, WaitOver, WaitPredicate, NoWait, CallerGoes,
           CallerPoisons, ClaimPoison, WaitStats, CallerWaitFails, CallerWaits, Diagnose, JoinStore,
           JoinActivate, JoinPublish, WaitReturn, LifeInv, PublisherInv, ReportsFirstFailure, Healthy,
           NoReport, Incomplete, poison, caller, consumer, process, NoPublisher
  <1>7. ASSUME NEW r \in Ranks, ProducerStart(r) \/ WriterStart(r) \/ WriterReturn(r) \/ WriterThrows(r) \/
               ProducerPublish(r) \/ ProducerDone(r)
        PROVE  LifeInv'
    BY <1>1, <1>2, <1>7, SlotFacts
       DEF ProducerStart, WaitOver, WaitPredicate, NoWait, CallerGoes, WriterStart, AckedByAll, Junk,
           Bytes, WriterReturn, WriterThrows, CallerPoisons, ClaimPoison, NoCall, ProducerPublish,
           ProducerDone, CallEnds, LifeInv, PublisherInv, ReportsFirstFailure, Healthy, NoReport,
           Incomplete, poison, caller, consumer, process, NoPublisher
  <1>8. ASSUME NEW r \in Ranks, ConsumerInit(r) \/ ConsumerInitFails(r) \/ ConsumerScan(r) \/
               ConsumerPeek(r) \/ ConsumerCopy(r) \/ ConsumerAck(r) \/ ConsumerFinish(r) \/
               ConsumerWaitFails(r) \/ CopyFails(r)
        PROVE  LifeInv'
    BY <1>1, <1>2, <1>8, SlotFacts
       DEF ConsumerInit, ConsumerInitFails, ConsumerExits, ConsumerFails, ClaimPoison, NoWork,
           ConsumerScan, LayerPending, ConsumerPeek, NewGeneration, WorkSlot, ConsumerCopy, Matches,
           ConsumerAck, ConsumerFinish, ConsumerWaitFails, CopyFails, LifeInv,
           PublisherInv, ReportsFirstFailure, Healthy, NoReport, Incomplete, poison, caller, consumer,
           process, NoPublisher
  <1>9. ASSUME NEW r \in Ranks, Close(r) \/ CloseReturn(r) \/ Crash(r)
        PROVE  LifeInv'
    BY <1>1, <1>2, <1>9, SlotFacts
       DEF Close, ClaimPoison, CloseReturn, Crash, LifeInv, PublisherInv, ReportsFirstFailure, Healthy,
           NoReport, Incomplete, poison, caller, consumer, process, NoPublisher
  <1>10. ASSUME NEW r \in Ranks, NEW x \in Experts, DmaComplete(r, x)
        PROVE  LifeInv'
    BY <1>1, <1>2, <1>10, SlotFacts
       DEF DmaComplete, LifeInv, PublisherInv, ReportsFirstFailure, Healthy, NoReport, Incomplete, poison,
           caller, consumer, process, NoPublisher
  <1> QED BY <1>3, <1>4, <1>5, <1>6, <1>7, <1>8, <1>9, <1>10
           DEF Next, PublisherStep, Call, CallerStep, ConsumerStep

\* The CAS of publish_poison has one winner, whose diagnostics are complete before
\* the release store: a step keeps them for every caller that reports them.
LEMMA PublisherInvStep ==
    ASSUME TypeOK, LifeInv, PublisherInv, Next
    PROVE  PublisherInv'
  <1>1. /\ poison_state \in {"healthy", "claimed", "poisoned"} /\ pc \in [Ranks -> CallerPcs]
        /\ cpc \in [Ranks -> ConsumerPcs] /\ life \in [Ranks -> Lives] /\ error_code \in ErrorCodes
        /\ error_rank \in Ranks \cup {-1}
    BY DEF TypeOK
  <1>2. /\ report \in [Ranks -> [code : ErrorCodes \cup {"unasked", "incomplete"}, rank : Ranks \cup {-1}]]
        /\ publisher \in [rank : Ranks, thread : {"none", "caller", "consumer", "closer"},
                         code : ErrorCodes, stage : {"none", "fill", "release"}]
    BY DEF TypeOK
  <1>3. CASE FillPoison \/ ReleasePoison
    BY <1>1, <1>2, <1>3, SlotFacts
       DEF FillPoison, ReleasePoison, PublisherInv, ReportsFirstFailure, Healthy, NoReport, Incomplete,
           LifeInv, poison, caller, consumer, process, NoPublisher
  <1>4. ASSUME NEW r \in Ranks, Refused(r)
        PROVE  PublisherInv'
    BY <1>1, <1>2, <1>4, SlotFacts
       DEF Refused, CallerGoes, PublisherInv, ReportsFirstFailure, Healthy, NoReport, Incomplete, LifeInv,
           poison, caller, consumer, process, NoPublisher
  <1>5. ASSUME NEW r \in Ranks, NEW c \in ClientCalls, Join(r, c) \/ Wait(r, c)
        PROVE  PublisherInv'
    BY <1>1, <1>2, <1>5, SlotFacts
       DEF Join, Enters, MayJoin, CallerPoisons, ClaimPoison, ClientCalls, NoCall, Wait, MayWait,
           PublisherInv, ReportsFirstFailure, Healthy, NoReport, Incomplete, LifeInv, poison, caller,
           consumer, process, NoPublisher
  <1>6. ASSUME NEW r \in Ranks, Construct(r) PROVE PublisherInv'
    <2>1. /\ UNCHANGED poison /\ UNCHANGED report /\ pc[r] = "idle" /\ life[r] \in {"absent", "stopped"}
          /\ pc' = [pc EXCEPT ![r] = "constructing"] /\ cpc' = [cpc EXCEPT ![r] = "init"]
          /\ life' = [life EXCEPT ![r] = "starting"]
      BY <1>6 DEF Construct, CallerGoes
    <2> QED BY <1>1, <1>2, <2>1 DEF PublisherInv, ReportsFirstFailure, Healthy, poison, LifeInv
  <1>7. ASSUME NEW r \in Ranks, NEW c \in ClientCalls, RunProducer(r, c) PROVE PublisherInv'
    <2>1. /\ pc[r] = "idle" /\ Healthy /\ UNCHANGED <<report, cpc, life>>
          /\ \/ UNCHANGED poison /\ pc' = [pc EXCEPT ![r] = "prod_join"]
             \/ CallerPoisons(r, "protocol")
      BY <1>7 DEF RunProducer, Enters, consumer, process
    <2> QED BY <1>1, <1>2, <2>1
       DEF PublisherInv, ReportsFirstFailure, Healthy, poison, CallerPoisons, ClaimPoison, NoReport, Incomplete
  <1>8. ASSUME NEW r \in Ranks, ConstructReturn(r) \/ JoinCheck(r) \/ WaitStats(r) \/ CallerWaitFails(r) \/
               Diagnose(r) \/ JoinStore(r) \/ JoinActivate(r) \/ JoinPublish(r) \/ WaitReturn(r)
        PROVE  PublisherInv'
    BY <1>1, <1>2, <1>8, SlotFacts
       DEF ConstructReturn, CallEnds, NoCall, JoinCheck, WaitOver, WaitPredicate, NoWait, CallerGoes,
           CallerPoisons, ClaimPoison, WaitStats, CallerWaitFails, CallerWaits, Diagnose, JoinStore,
           JoinActivate, JoinPublish, WaitReturn, PublisherInv, ReportsFirstFailure, Healthy, NoReport,
           Incomplete, LifeInv, poison, caller, consumer, process, NoPublisher,
           FenceOpen, Loaded, Diagnostics
  <1>9. ASSUME NEW r \in Ranks, ProducerStart(r) \/ WriterStart(r) \/ WriterReturn(r) \/ WriterThrows(r) \/
               ProducerPublish(r) \/ ProducerDone(r)
        PROVE  PublisherInv'
    BY <1>1, <1>2, <1>9, SlotFacts
       DEF ProducerStart, WaitOver, WaitPredicate, NoWait, CallerGoes, WriterStart, AckedByAll, Junk,
           Bytes, WriterReturn, WriterThrows, CallerPoisons, ClaimPoison, NoCall, ProducerPublish,
           ProducerDone, CallEnds, PublisherInv, ReportsFirstFailure, Healthy, NoReport, Incomplete,
           LifeInv, poison, caller, consumer, process, NoPublisher
  <1>10. ASSUME NEW r \in Ranks, ConsumerInit(r) \/ ConsumerInitFails(r) \/ ConsumerScan(r) \/
               ConsumerPeek(r) \/ ConsumerCopy(r) \/ ConsumerAck(r) \/ ConsumerFinish(r) \/
               ConsumerWaitFails(r) \/ CopyFails(r)
        PROVE  PublisherInv'
    BY <1>1, <1>2, <1>10, SlotFacts
       DEF ConsumerInit, ConsumerInitFails, ConsumerExits, ConsumerFails, ClaimPoison, NoWork,
           ConsumerScan, LayerPending, ConsumerPeek, NewGeneration, WorkSlot, ConsumerCopy, Matches,
           ConsumerAck, ConsumerFinish, ConsumerWaitFails, CopyFails, PublisherInv,
           ReportsFirstFailure, Healthy, NoReport, Incomplete, LifeInv, poison, caller, consumer, process,
           NoPublisher
  <1>11. ASSUME NEW r \in Ranks, Close(r) \/ CloseReturn(r) \/ Crash(r)
        PROVE  PublisherInv'
    BY <1>1, <1>2, <1>11, SlotFacts
       DEF Close, ClaimPoison, CloseReturn, Crash, PublisherInv, ReportsFirstFailure, Healthy, NoReport,
           Incomplete, LifeInv, poison, caller, consumer, process, NoPublisher
  <1>12. ASSUME NEW r \in Ranks, NEW x \in Experts, DmaComplete(r, x)
        PROVE  PublisherInv'
    BY <1>1, <1>2, <1>12, SlotFacts
       DEF DmaComplete, PublisherInv, ReportsFirstFailure, Healthy, NoReport, Incomplete, LifeInv, poison,
           caller, consumer, process, NoPublisher
  <1> QED BY <1>3, <1>4, <1>5, <1>6, <1>7, <1>8, <1>9, <1>10, <1>11, <1>12
           DEF Next, PublisherStep, Call, CallerStep, ConsumerStep

\* A step never takes rank zero into the part of join the others run, nor them
\* into its own.
LEMMA RolesStep ==
    ASSUME TypeOK, RolesInv, Next
    PROVE  RolesInv'
  <1>1. /\ pc \in [Ranks -> CallerPcs]
    BY DEF TypeOK
  <1>2. CASE FillPoison \/ ReleasePoison
    BY <1>1, <1>2, SlotFacts
       DEF FillPoison, ReleasePoison, NoPublisher, RolesInv, RankZeroPcs, Producing, caller
  <1>3. ASSUME NEW r \in Ranks, Refused(r) \/ Construct(r)
        PROVE  RolesInv'
    BY <1>1, <1>3, SlotFacts
       DEF Refused, CallerGoes, Construct, RolesInv, RankZeroPcs, Producing, caller
  <1>4. ASSUME NEW r \in Ranks, NEW c \in ClientCalls, Join(r, c) \/ RunProducer(r, c) \/ Wait(r, c)
        PROVE  RolesInv'
    BY <1>1, <1>4, SlotFacts
       DEF Join, Enters, MayJoin, CallerPoisons, ClaimPoison, ClientCalls, NoCall, RunProducer, MayProduce,
           Wait, MayWait, RolesInv, RankZeroPcs, Producing, caller
  <1>5. ASSUME NEW r \in Ranks, ConstructReturn(r) \/ JoinCheck(r) \/ WaitStats(r) \/ CallerWaitFails(r) \/
               Diagnose(r) \/ JoinStore(r) \/ JoinActivate(r) \/ JoinPublish(r) \/ WaitReturn(r)
        PROVE  RolesInv'
    BY <1>1, <1>5, SlotFacts
       DEF ConstructReturn, CallEnds, NoCall, JoinCheck, WaitOver, WaitPredicate, NoWait, CallerGoes,
           CallerPoisons, ClaimPoison, WaitStats, CallerWaitFails, CallerWaits, Diagnose, Incomplete,
           JoinStore, JoinActivate, JoinPublish, WaitReturn, RolesInv, RankZeroPcs, Producing, caller
  <1>6. ASSUME NEW r \in Ranks, ProducerStart(r) \/ WriterStart(r) \/ WriterReturn(r) \/ WriterThrows(r) \/
               ProducerPublish(r) \/ ProducerDone(r)
        PROVE  RolesInv'
    BY <1>1, <1>6, SlotFacts
       DEF ProducerStart, WaitOver, WaitPredicate, NoWait, CallerGoes, WriterStart, AckedByAll, Junk,
           Bytes, WriterReturn, WriterThrows, CallerPoisons, ClaimPoison, NoCall, ProducerPublish,
           ProducerDone, CallEnds, RolesInv, RankZeroPcs, Producing, caller
  <1>7. ASSUME NEW r \in Ranks, ConsumerInit(r) \/ ConsumerInitFails(r) \/ ConsumerScan(r) \/
               ConsumerPeek(r) \/ ConsumerCopy(r) \/ ConsumerAck(r) \/ ConsumerFinish(r) \/
               ConsumerWaitFails(r) \/ CopyFails(r)
        PROVE  RolesInv'
    BY <1>1, <1>7, SlotFacts
       DEF ConsumerInit, ConsumerInitFails, ConsumerExits, ConsumerFails, ClaimPoison, NoWork,
           ConsumerScan, LayerPending, ConsumerPeek, NewGeneration, WorkSlot, ConsumerCopy, Matches,
           ConsumerAck, ConsumerFinish, ConsumerWaitFails, CopyFails, RolesInv,
           RankZeroPcs, Producing, caller
  <1>8. ASSUME NEW r \in Ranks, Close(r) \/ CloseReturn(r) \/ Crash(r)
        PROVE  RolesInv'
    BY <1>1, <1>8, SlotFacts
       DEF Close, ClaimPoison, CloseReturn, Crash, RolesInv, RankZeroPcs, Producing, caller
  <1>9. ASSUME NEW r \in Ranks, NEW x \in Experts, DmaComplete(r, x)
        PROVE  RolesInv'
    BY <1>1, <1>9, SlotFacts
       DEF DmaComplete, RolesInv, RankZeroPcs, Producing, caller
  <1> QED BY <1>2, <1>3, <1>4, <1>5, <1>6, <1>7, <1>8, <1>9
           DEF Next, PublisherStep, Call, CallerStep, ConsumerStep

\* A step keeps the order of the epochs in the cells of each rank.
LEMMA EpochStep ==
    ASSUME TypeOK, RolesInv, EpochInv, LayerInv, CallerInv, ConsumerInv, Next
    PROVE  EpochInv'
  <1>1. /\ pc \in [Ranks -> CallerPcs] /\ call \in [Ranks -> Calls] /\ joined \in [Ranks -> Calls]
        /\ active_epoch \in Nat /\ join_epoch \in [Ranks -> Nat] /\ consumer_done_epoch \in [Ranks -> Nat]
        /\ wait_returned_epoch \in [Ranks -> Nat] /\ completed_epoch \in [Ranks -> Nat]
        /\ cpc \in [Ranks -> ConsumerPcs]
        /\ work \in [Ranks -> [epoch : Nat, count : 0 .. NumExperts, expert : 0 .. NumExperts, observed : Nat]]
    BY DEF TypeOK
  <1>2. \/ UNCHANGED <<wait_returned_epoch, consumer_done_epoch, join_epoch, active_epoch, completed_epoch, joined>>
        \/ \E r \in Ranks : \/ JoinActivate(r) \/ JoinPublish(r) \/ WaitReturn(r)
                            \/ ConsumerInit(r) \/ ConsumerFinish(r)
    <2>1. ASSUME NEW q \in Ranks, Call(q)
          PROVE  \/ UNCHANGED <<wait_returned_epoch, consumer_done_epoch, join_epoch, active_epoch, completed_epoch, joined>>
                 \/ \E r \in Ranks : \/ JoinActivate(r) \/ JoinPublish(r) \/ WaitReturn(r)
                                     \/ ConsumerInit(r) \/ ConsumerFinish(r)
      BY <2>1 DEF Call, Refused, Construct, Join, RunProducer, Wait, layer, ranks, caller, consumer
    <2>2. ASSUME NEW q \in Ranks, CallerStep(q)
          PROVE  \/ UNCHANGED <<wait_returned_epoch, consumer_done_epoch, join_epoch, active_epoch, completed_epoch, joined>>
                 \/ \E r \in Ranks : \/ JoinActivate(r) \/ JoinPublish(r) \/ WaitReturn(r)
                                     \/ ConsumerInit(r) \/ ConsumerFinish(r)
      BY <2>2 DEF CallerStep, ConstructReturn, JoinStore, JoinCheck, WaitStats, ProducerStart, WriterStart,
             WriterReturn, WriterThrows, ProducerPublish, ProducerDone, CallerWaitFails, Diagnose, layer,
             ranks, caller, consumer
    <2>3. ASSUME NEW q \in Ranks, ConsumerStep(q) \/ Close(q) \/ CloseReturn(q) \/ Crash(q) \/
                                \E x \in Experts : DmaComplete(q, x)
          PROVE  \/ UNCHANGED <<wait_returned_epoch, consumer_done_epoch, join_epoch, active_epoch, completed_epoch, joined>>
                 \/ \E r \in Ranks : \/ JoinActivate(r) \/ JoinPublish(r) \/ WaitReturn(r)
                                     \/ ConsumerInit(r) \/ ConsumerFinish(r)
      BY <2>3 DEF ConsumerStep, ConsumerInitFails, ConsumerScan, ConsumerPeek, ConsumerCopy, ConsumerAck,
             ConsumerWaitFails, CopyFails, Close, CloseReturn, Crash, DmaComplete, layer, ranks, caller,
             consumer
    <2>4. ASSUME PublisherStep PROVE \/ UNCHANGED <<wait_returned_epoch, consumer_done_epoch, join_epoch, active_epoch, completed_epoch, joined>>
                                     \/ \E r \in Ranks : \/ JoinActivate(r) \/ JoinPublish(r) \/ WaitReturn(r)
                                                         \/ ConsumerInit(r) \/ ConsumerFinish(r)
      BY <2>4 DEF PublisherStep, FillPoison, ReleasePoison, layer, ranks, caller, consumer
    <2> QED BY <2>1, <2>2, <2>3, <2>4 DEF Next
  <1>3. CASE UNCHANGED <<wait_returned_epoch, consumer_done_epoch, join_epoch, active_epoch, completed_epoch, joined>>
    BY <1>3 DEF EpochInv
  <1>4. ASSUME NEW r \in Ranks, JoinActivate(r) PROVE EpochInv'
    <2>1. r = 0
      BY <1>4 DEF JoinActivate, RolesInv, RankZeroPcs
    <2>2. active_epoch' > active_epoch /\ active_epoch' \in Nat /\ \A q \in Ranks : wait_returned_epoch[q] = active_epoch
      BY <1>1, <1>4, <2>1 DEF JoinActivate, CallerInv, LayerInv, AllReturned, Calls
    <2>3. UNCHANGED <<wait_returned_epoch, consumer_done_epoch, join_epoch, completed_epoch, joined>>
      BY <1>4 DEF JoinActivate, ranks, consumer
    <2> QED BY <1>1, <2>2, <2>3 DEF EpochInv
  <1>5. ASSUME NEW r \in Ranks, JoinPublish(r) PROVE EpochInv'
    BY <1>1, <1>5, SlotFacts DEF JoinPublish, layer, consumer, CallEnds, Calls, EpochInv, CallerInv, Current, LayerInv
  <1>6. ASSUME NEW r \in Ranks, WaitReturn(r) PROVE EpochInv'
    BY <1>1, <1>6, SlotFacts DEF WaitReturn, layer, consumer, CallEnds, Calls, EpochInv, CallerInv
  <1>7. ASSUME NEW r \in Ranks, ConsumerInit(r) PROVE EpochInv'
    <2>1. /\ UNCHANGED <<wait_returned_epoch, consumer_done_epoch, join_epoch, active_epoch, joined>>
          /\ \A q \in Ranks : completed_epoch'[q] \in {completed_epoch[q], consumer_done_epoch[q]}
      BY <1>1, <1>7 DEF ConsumerInit, layer, ranks, caller
    <2> QED BY <1>1, <2>1 DEF EpochInv
  <1>8. ASSUME NEW r \in Ranks, ConsumerFinish(r) PROVE EpochInv'
    BY <1>1, <1>8 DEF ConsumerFinish, layer, caller, EpochInv, ConsumerInv, Consuming
  <1> QED BY <1>2, <1>3, <1>4, <1>5, <1>6, <1>7, <1>8


\* A step keeps layer_id and expert_count those of the active epoch, except between
\* the stores of join.
LEMMA LayerStep ==
    ASSUME TypeOK, RolesInv, EpochInv, CallerInv, PublisherInv, LayerInv, Next
    PROVE  LayerInv'
  <1>1. /\ poison_state \in {"healthy", "claimed", "poisoned"} /\ pc \in [Ranks -> CallerPcs]
        /\ active_epoch \in Nat /\ layer_id \in Nat /\ expert_count \in 0 .. NumExperts
        /\ expert \in 0 .. NumExperts /\ published_sequence \in [Slots -> Nat]
        /\ join_epoch \in [Ranks -> Nat] /\ consumer_done_epoch \in [Ranks -> Nat]
        /\ wait_returned_epoch \in [Ranks -> Nat] /\ cpc \in [Ranks -> ConsumerPcs]
        /\ completed_epoch \in [Ranks -> Nat] /\ life \in [Ranks -> Lives] /\ error_code \in ErrorCodes
        /\ error_rank \in Ranks \cup {-1}
    BY DEF TypeOK
  <1>2. /\ call \in [Ranks -> Calls] /\ joined \in [Ranks -> Calls]
        /\ report \in [Ranks -> [code : ErrorCodes \cup {"unasked", "incomplete"}, rank : Ranks \cup {-1}]]
        /\ publisher \in [rank : Ranks, thread : {"none", "caller", "consumer", "closer"},
                         code : ErrorCodes, stage : {"none", "fill", "release"}]
    BY DEF TypeOK
  <1>3. CASE FillPoison \/ ReleasePoison
    BY <1>1, <1>2, <1>3, SlotFacts, CallAssumption
       DEF FillPoison, ReleasePoison, NoPublisher, LayerInv, Current, AllReturned, RolesInv, RankZeroPcs,
           Producing, EpochInv, CallerInv, PublisherInv, ReportsFirstFailure, Healthy, NoReport, Incomplete,
           poison, layer, producer, ranks, caller, consumer, process, Calls, ClientCalls
  <1>4. ASSUME NEW r \in Ranks, Refused(r) \/ Construct(r)
        PROVE  LayerInv'
    BY <1>1, <1>2, <1>4, SlotFacts, CallAssumption
       DEF Refused, CallerGoes, Construct, LayerInv, Current, AllReturned, RolesInv, RankZeroPcs,
           Producing, EpochInv, CallerInv, PublisherInv, ReportsFirstFailure, Healthy, NoReport, Incomplete,
           poison, layer, producer, ranks, caller, consumer, process, Calls, ClientCalls
  <1>5. ASSUME NEW r \in Ranks, NEW c \in ClientCalls, Join(r, c) \/ RunProducer(r, c) \/ Wait(r, c)
        PROVE  LayerInv'
    BY <1>1, <1>2, <1>5, SlotFacts, CallAssumption
       DEF Join, Enters, MayJoin, CallerPoisons, ClaimPoison, NoCall, RunProducer, MayProduce, Wait,
           MayWait, LayerInv, Current, AllReturned, RolesInv, RankZeroPcs, Producing, EpochInv, CallerInv,
           PublisherInv, ReportsFirstFailure, Healthy, NoReport, Incomplete, poison, layer, producer, ranks,
           caller, consumer, process, Calls, ClientCalls
  <1>6. ASSUME NEW r \in Ranks, ConstructReturn(r) \/ JoinCheck(r) \/ WaitStats(r) \/ CallerWaitFails(r) \/
               Diagnose(r)
        PROVE  LayerInv'
    BY <1>1, <1>2, <1>6, SlotFacts, CallAssumption
       DEF ConstructReturn, CallEnds, NoCall, JoinCheck, WaitOver, WaitPredicate, NoWait, CallerGoes,
           CallerPoisons, ClaimPoison, WaitStats, CallerWaitFails, CallerWaits, Diagnose, LayerInv, Current,
           AllReturned, RolesInv, RankZeroPcs, Producing, EpochInv, CallerInv, PublisherInv,
           ReportsFirstFailure, Healthy, NoReport, Incomplete, poison, layer, producer, ranks, caller,
           consumer, process, Calls, ClientCalls
  <1>7. ASSUME NEW r \in Ranks, JoinStore(r) PROVE LayerInv'
    <2>1. r = 0 /\ UNCHANGED <<active_epoch, wait_returned_epoch, join_epoch, joined>>
      BY <1>7 DEF JoinStore, RolesInv, RankZeroPcs, ranks
    <2>2. active_epoch = 0 \/ \A q \in Ranks : wait_returned_epoch[q] >= active_epoch
      BY <1>7 DEF JoinStore, WaitOver, NoWait, WaitPredicate, FenceOpen, Loaded
    <2>3. \A q \in Ranks : wait_returned_epoch[q] \in Nat /\ wait_returned_epoch[q] <= active_epoch
      BY <1>1 DEF EpochInv
    <2>4. AllReturned
      BY <1>1, <2>2, <2>3 DEF AllReturned
    <2>5. pc'[0] = "join_activate" /\ expert_count' = call[0].count /\ call[0].count # 0
      BY <1>1, <1>7, <2>1, SlotFacts DEF JoinStore, CallerGoes, CallerInv
    <2> QED BY <2>1, <2>4, <2>5 DEF LayerInv, AllReturned
  <1>8. ASSUME NEW r \in Ranks, JoinActivate(r)
        PROVE  LayerInv'
    BY <1>1, <1>2, <1>8, SlotFacts, CallAssumption
       DEF JoinActivate, CallerGoes, LayerInv, Current, AllReturned, RolesInv, RankZeroPcs, Producing,
           EpochInv, CallerInv, PublisherInv, ReportsFirstFailure, Healthy, NoReport, Incomplete, poison,
           layer, producer, ranks, caller, consumer, process, Calls, ClientCalls
  <1>9. ASSUME NEW r \in Ranks, JoinPublish(r)
        PROVE  LayerInv'
    BY <1>1, <1>2, <1>9, SlotFacts, CallAssumption
       DEF JoinPublish, CallEnds, NoCall, LayerInv, Current, AllReturned, RolesInv, RankZeroPcs, Producing,
           EpochInv, CallerInv, PublisherInv, ReportsFirstFailure, Healthy, NoReport, Incomplete, poison,
           layer, producer, ranks, caller, consumer, process, Calls, ClientCalls
  <1>10. ASSUME NEW r \in Ranks, WaitReturn(r)
        PROVE  LayerInv'
    BY <1>1, <1>2, <1>10, SlotFacts, CallAssumption
       DEF WaitReturn, CallEnds, NoCall, LayerInv, Current, AllReturned, RolesInv, RankZeroPcs, Producing,
           EpochInv, CallerInv, PublisherInv, ReportsFirstFailure, Healthy, NoReport, Incomplete, poison,
           layer, producer, ranks, caller, consumer, process, Calls, ClientCalls
  <1>11. ASSUME NEW r \in Ranks, ProducerStart(r) \/ WriterStart(r) \/ WriterReturn(r) \/ WriterThrows(r) \/
               ProducerPublish(r) \/ ProducerDone(r)
        PROVE  LayerInv'
    BY <1>1, <1>2, <1>11, SlotFacts, CallAssumption
       DEF ProducerStart, WaitOver, WaitPredicate, NoWait, CallerGoes, WriterStart, AckedByAll, Junk,
           Bytes, WriterReturn, WriterThrows, CallerPoisons, ClaimPoison, NoCall, ProducerPublish,
           ProducerDone, CallEnds, LayerInv, Current, AllReturned, RolesInv, RankZeroPcs, Producing,
           EpochInv, CallerInv, PublisherInv, ReportsFirstFailure, Healthy, NoReport, Incomplete, poison,
           layer, producer, ranks, caller, consumer, process, Calls, ClientCalls
  <1>12. ASSUME NEW r \in Ranks, ConsumerInit(r) \/ ConsumerInitFails(r) \/ ConsumerScan(r) \/
               ConsumerPeek(r) \/ ConsumerCopy(r) \/ ConsumerAck(r) \/ ConsumerFinish(r) \/
               ConsumerWaitFails(r) \/ CopyFails(r)
        PROVE  LayerInv'
    <2>1. UNCHANGED <<layer, pc, joined, join_epoch, wait_returned_epoch>>
      BY <1>12
         DEF ConsumerInit, ConsumerInitFails, ConsumerScan, ConsumerPeek, ConsumerCopy, ConsumerAck,
             ConsumerFinish, ConsumerWaitFails, CopyFails, caller, ranks
    <2> QED BY <2>1 DEF LayerInv, Current, AllReturned, layer
  <1>13. ASSUME NEW r \in Ranks, Close(r) \/ CloseReturn(r) \/ Crash(r)
        PROVE  LayerInv'
    BY <1>1, <1>2, <1>13, SlotFacts, CallAssumption
       DEF Close, ClaimPoison, CloseReturn, Crash, LayerInv, Current, AllReturned, RolesInv, RankZeroPcs,
           Producing, EpochInv, CallerInv, PublisherInv, ReportsFirstFailure, Healthy, NoReport, Incomplete,
           poison, layer, producer, ranks, caller, consumer, process, Calls, ClientCalls
  <1>14. ASSUME NEW r \in Ranks, NEW x \in Experts, DmaComplete(r, x)
        PROVE  LayerInv'
    BY <1>1, <1>2, <1>14, SlotFacts, CallAssumption
       DEF DmaComplete, LayerInv, Current, AllReturned, RolesInv, RankZeroPcs, Producing, EpochInv,
           CallerInv, PublisherInv, ReportsFirstFailure, Healthy, NoReport, Incomplete, poison, layer,
           producer, ranks, caller, consumer, process, Calls, ClientCalls
  <1> QED BY <1>3, <1>4, <1>5, <1>6, <1>7, <1>8, <1>9, <1>10, <1>11, <1>12, <1>13, <1>14
           DEF Next, PublisherStep, Call, CallerStep, ConsumerStep

\* A step keeps what consumer_main's locals are worth: no layer becomes active while
\* a consumer works on another.
LEMMA ConsumerInvStep ==
    ASSUME TypeOK, RolesInv, EpochInv, LayerInv, CallerInv, ConsumerInv, Next
    PROVE  ConsumerInv'
  <1>1. /\ pc \in [Ranks -> CallerPcs] /\ active_epoch \in Nat /\ layer_id \in Nat
        /\ expert_count \in 0 .. NumExperts /\ expert \in 0 .. NumExperts
        /\ published_sequence \in [Slots -> Nat] /\ join_epoch \in [Ranks -> Nat]
        /\ consumer_done_epoch \in [Ranks -> Nat] /\ wait_returned_epoch \in [Ranks -> Nat]
        /\ cpc \in [Ranks -> ConsumerPcs] /\ completed_epoch \in [Ranks -> Nat]
    BY DEF TypeOK
  <1>2. /\ call \in [Ranks -> Calls] /\ joined \in [Ranks -> Calls]
        /\ work \in [Ranks -> [epoch : Nat, count : 0 .. NumExperts, expert : 0 .. NumExperts, observed : Nat]]
    BY DEF TypeOK
  <1>3. CASE FillPoison \/ ReleasePoison
    BY <1>1, <1>2, <1>3, SlotFacts, CallAssumption
       DEF FillPoison, ReleasePoison, NoPublisher, ConsumerInv, Consuming, RolesInv, RankZeroPcs,
           Producing, EpochInv, LayerInv, Current, AllReturned, CallerInv, layer, producer, ranks, caller,
           consumer, Calls, ClientCalls
  <1>4. ASSUME NEW r \in Ranks, Refused(r) \/ Construct(r)
        PROVE  ConsumerInv'
    BY <1>1, <1>2, <1>4, SlotFacts, CallAssumption
       DEF Refused, CallerGoes, Construct, ConsumerInv, Consuming, RolesInv, RankZeroPcs, Producing,
           EpochInv, LayerInv, Current, AllReturned, CallerInv, layer, producer, ranks, caller, consumer,
           Calls, ClientCalls
  <1>5. ASSUME NEW r \in Ranks, NEW c \in ClientCalls, Join(r, c) \/ RunProducer(r, c) \/ Wait(r, c)
        PROVE  ConsumerInv'
    BY <1>1, <1>2, <1>5, SlotFacts, CallAssumption
       DEF Join, Enters, MayJoin, CallerPoisons, ClaimPoison, NoCall, RunProducer, MayProduce, Wait,
           MayWait, ConsumerInv, Consuming, RolesInv, RankZeroPcs, Producing, EpochInv, LayerInv, Current,
           AllReturned, CallerInv, layer, producer, ranks, caller, consumer, Calls, ClientCalls
  <1>6. ASSUME NEW r \in Ranks, ConstructReturn(r) \/ JoinCheck(r) \/ WaitStats(r) \/ CallerWaitFails(r) \/
               Diagnose(r)
        PROVE  ConsumerInv'
    BY <1>1, <1>2, <1>6, SlotFacts, CallAssumption
       DEF ConstructReturn, CallEnds, NoCall, JoinCheck, WaitOver, WaitPredicate, NoWait, CallerGoes,
           CallerPoisons, ClaimPoison, WaitStats, CallerWaitFails, CallerWaits, Diagnose, Incomplete,
           ConsumerInv, Consuming, RolesInv, RankZeroPcs, Producing, EpochInv, LayerInv, Current,
           AllReturned, CallerInv, layer, producer, ranks, caller, consumer, Calls, ClientCalls
  <1>7. ASSUME NEW r \in Ranks, JoinStore(r)
        PROVE  ConsumerInv'
    BY <1>1, <1>2, <1>7, SlotFacts, CallAssumption
       DEF JoinStore, WaitOver, WaitPredicate, NoWait, CallerGoes, ConsumerInv, Consuming, RolesInv,
           RankZeroPcs, Producing, EpochInv, LayerInv, Current, AllReturned, CallerInv, layer, producer,
           ranks, caller, consumer, Calls, ClientCalls, FenceOpen, Loaded
  <1>8. ASSUME NEW r \in Ranks, JoinActivate(r)
        PROVE  ConsumerInv'
    BY <1>1, <1>2, <1>8, SlotFacts, CallAssumption
       DEF JoinActivate, CallerGoes, ConsumerInv, Consuming, RolesInv, RankZeroPcs, Producing, EpochInv,
           LayerInv, Current, AllReturned, CallerInv, layer, producer, ranks, caller, consumer, Calls,
           ClientCalls
  <1>9. ASSUME NEW r \in Ranks, JoinPublish(r)
        PROVE  ConsumerInv'
    BY <1>1, <1>2, <1>9, SlotFacts, CallAssumption
       DEF JoinPublish, CallEnds, NoCall, ConsumerInv, Consuming, RolesInv, RankZeroPcs, Producing,
           EpochInv, LayerInv, Current, AllReturned, CallerInv, layer, producer, ranks, caller, consumer,
           Calls, ClientCalls
  <1>10. ASSUME NEW r \in Ranks, WaitReturn(r)
        PROVE  ConsumerInv'
    BY <1>1, <1>2, <1>10, SlotFacts, CallAssumption
       DEF WaitReturn, CallEnds, NoCall, ConsumerInv, Consuming, RolesInv, RankZeroPcs, Producing,
           EpochInv, LayerInv, Current, AllReturned, CallerInv, layer, producer, ranks, caller, consumer,
           Calls, ClientCalls
  <1>11. ASSUME NEW r \in Ranks, ProducerStart(r) \/ WriterStart(r) \/ WriterReturn(r) \/ WriterThrows(r) \/
               ProducerPublish(r) \/ ProducerDone(r)
        PROVE  ConsumerInv'
    BY <1>1, <1>2, <1>11, SlotFacts, CallAssumption
       DEF ProducerStart, WaitOver, WaitPredicate, NoWait, CallerGoes, WriterStart, AckedByAll, Junk,
           Bytes, WriterReturn, WriterThrows, CallerPoisons, ClaimPoison, NoCall, ProducerPublish,
           ProducerDone, CallEnds, ConsumerInv, Consuming, RolesInv, RankZeroPcs, Producing, EpochInv,
           LayerInv, Current, AllReturned, CallerInv, layer, producer, ranks, caller, consumer, Calls,
           ClientCalls
  <1>12. ASSUME NEW r \in Ranks, ConsumerInit(r) \/ ConsumerInitFails(r) \/ ConsumerPeek(r) \/
               ConsumerCopy(r) \/ ConsumerWaitFails(r) \/ CopyFails(r)
        PROVE  ConsumerInv'
    BY <1>1, <1>2, <1>12, SlotFacts, CallAssumption
       DEF ConsumerInit, ConsumerInitFails, ConsumerExits, ConsumerFails, ClaimPoison, NoWork,
           ConsumerPeek, NewGeneration, WorkSlot, ConsumerCopy, Matches, ConsumerWaitFails,
           CopyFails, ConsumerInv, Consuming, RolesInv, RankZeroPcs, Producing, EpochInv, LayerInv, Current,
           AllReturned, CallerInv, layer, producer, ranks, caller, consumer, Calls, ClientCalls
  <1>13. ASSUME NEW r \in Ranks, ConsumerScan(r)
        PROVE  ConsumerInv'
    BY <1>1, <1>2, <1>13, SlotFacts, CallAssumption
       DEF ConsumerScan, ConsumerExits, NoWork, LayerPending, ConsumerInv, Consuming, RolesInv,
           RankZeroPcs, Producing, EpochInv, LayerInv, Current, AllReturned, CallerInv, layer, producer,
           ranks, caller, consumer, Calls, ClientCalls
  <1>14. ASSUME NEW r \in Ranks, ConsumerAck(r)
        PROVE  ConsumerInv'
    BY <1>1, <1>2, <1>14, SlotFacts, CallAssumption
       DEF ConsumerAck, WorkSlot, ConsumerInv, Consuming, RolesInv, RankZeroPcs, Producing, EpochInv,
           LayerInv, Current, AllReturned, CallerInv, layer, producer, ranks, caller, consumer, Calls,
           ClientCalls
  <1>15. ASSUME NEW r \in Ranks, ConsumerFinish(r)
        PROVE  ConsumerInv'
    BY <1>1, <1>2, <1>15, SlotFacts, CallAssumption
       DEF ConsumerFinish, NoWork, ConsumerInv, Consuming, RolesInv, RankZeroPcs, Producing, EpochInv,
           LayerInv, Current, AllReturned, CallerInv, layer, producer, ranks, caller, consumer, Calls,
           ClientCalls
  <1>16. ASSUME NEW r \in Ranks, Close(r) \/ CloseReturn(r) \/ Crash(r)
        PROVE  ConsumerInv'
    BY <1>1, <1>2, <1>16, SlotFacts, CallAssumption
       DEF Close, ClaimPoison, CloseReturn, Crash, ConsumerInv, Consuming, RolesInv, RankZeroPcs,
           Producing, EpochInv, LayerInv, Current, AllReturned, CallerInv, layer, producer, ranks, caller,
           consumer, Calls, ClientCalls
  <1>17. ASSUME NEW r \in Ranks, NEW x \in Experts, DmaComplete(r, x)
        PROVE  ConsumerInv'
    BY <1>1, <1>2, <1>17, SlotFacts, CallAssumption
       DEF DmaComplete, ConsumerInv, Consuming, RolesInv, RankZeroPcs, Producing, EpochInv, LayerInv,
           Current, AllReturned, CallerInv, layer, producer, ranks, caller, consumer, Calls, ClientCalls
  <1> QED BY <1>3, <1>4, <1>5, <1>6, <1>7, <1>8, <1>9, <1>10, <1>11, <1>12, <1>13, <1>14, <1>15, <1>16,
             <1>17
           DEF Next, PublisherStep, Call, CallerStep, ConsumerStep

\* A step keeps what the locals of join, run_producer and wait are worth.
LEMMA CallerInvStep ==
    ASSUME TypeOK, RolesInv, EpochInv, LayerInv, ConsumerInv, CallerInv, Next
    PROVE  CallerInv'
  <1>1. /\ pc \in [Ranks -> CallerPcs] /\ active_epoch \in Nat /\ layer_id \in Nat
        /\ expert_count \in 0 .. NumExperts /\ expert \in 0 .. NumExperts
        /\ published_sequence \in [Slots -> Nat] /\ join_epoch \in [Ranks -> Nat]
        /\ consumer_done_epoch \in [Ranks -> Nat] /\ wait_returned_epoch \in [Ranks -> Nat]
        /\ cpc \in [Ranks -> ConsumerPcs] /\ completed_epoch \in [Ranks -> Nat]
    BY DEF TypeOK
  <1>2. /\ call \in [Ranks -> Calls] /\ joined \in [Ranks -> Calls]
        /\ work \in [Ranks -> [epoch : Nat, count : 0 .. NumExperts, expert : 0 .. NumExperts, observed : Nat]]
    BY DEF TypeOK
  <1>3. CASE FillPoison \/ ReleasePoison
    BY <1>1, <1>2, <1>3, SlotFacts, CallAssumption
       DEF FillPoison, ReleasePoison, NoPublisher, CallerInv, Current, Producing, RolesInv, RankZeroPcs,
           EpochInv, LayerInv, AllReturned, layer, producer, ranks, caller, consumer, Calls, ClientCalls
  <1>4. ASSUME NEW r \in Ranks, Refused(r) \/ Construct(r)
        PROVE  CallerInv'
    BY <1>1, <1>2, <1>4, SlotFacts, CallAssumption
       DEF Refused, CallerGoes, Construct, CallerInv, Current, Producing, RolesInv, RankZeroPcs, EpochInv,
           LayerInv, AllReturned, layer, producer, ranks, caller, consumer, Calls, ClientCalls
  <1>5. ASSUME NEW r \in Ranks, NEW c \in ClientCalls, Join(r, c) PROVE CallerInv'
    <2>1. /\ \/ pc'[r] \in {"idle", "poisoning"}
             \/ call'[r] = c /\ pc'[r] = "join_wait" /\ r # 0
             \/ call'[r] = c /\ pc'[r] = "join_fence" /\ r = 0 /\ ~(c.epoch <= active_epoch)
          /\ \A q \in Ranks : q # r => pc'[q] = pc[q] /\ call'[q] = call[q]
          /\ UNCHANGED <<layer, producer, ranks, joined>>
      BY <1>1, <1>2, <1>5 DEF Join, CallerPoisons
    <2>2. c.epoch \in Nat /\ c.epoch # 0 /\ c.count # 0
      BY CallFacts DEF Calls
    <2> QED BY <1>1, <1>2, <2>1, <2>2, SlotFacts DEF CallerInv, Current, Producing, layer, producer, ranks
  <1>6. ASSUME NEW r \in Ranks, NEW c \in ClientCalls, RunProducer(r, c)
        PROVE  CallerInv'
    BY <1>1, <1>2, <1>6, SlotFacts, CallAssumption
       DEF RunProducer, Enters, MayProduce, CallerPoisons, ClaimPoison, NoCall, CallerInv, Current,
           Producing, RolesInv, RankZeroPcs, EpochInv, LayerInv, AllReturned, layer, producer, ranks,
           caller, consumer, Calls, ClientCalls
  <1>7. ASSUME NEW r \in Ranks, NEW c \in ClientCalls, Wait(r, c) PROVE CallerInv'
    <2>1. /\ pc[r] = "idle" /\ UNCHANGED <<layer, producer, ranks, joined>>
          /\ \A q \in Ranks : q # r => pc'[q] = pc[q] /\ call'[q] = call[q]
          /\ \/ pc'[r] \in {"idle", "poisoning"}
             \/ pc'[r] = "wait" /\ call'[r].epoch = c.epoch /\ join_epoch[r] = c.epoch
      BY <1>1, <1>2, <1>7 DEF Wait, Enters, CallerPoisons
    <2>2. c.epoch # 0
      BY CallFacts
    <2> QED BY <2>1, <2>2, SlotFacts DEF CallerInv, Current, Producing, layer, producer, ranks
  <1>8. ASSUME NEW r \in Ranks, ConstructReturn(r) \/ CallerWaitFails(r) \/ Diagnose(r) PROVE CallerInv'
    <2>1. /\ \/ pc' = pc /\ call' = call
             \/ pc' = [pc EXCEPT ![r] = pc'[r]] /\ pc'[r] \in {"idle", "poisoning", "diagnose"} /\ \A q \in Ranks : q # r => call'[q] = call[q]
          /\ UNCHANGED <<layer, producer, ranks, joined>>
      BY <1>1, <1>2, <1>8 DEF ConstructReturn, CallerWaitFails, Diagnose, CallEnds, CallerGoes, CallerPoisons
    <2> QED BY <1>1, <1>2, <2>1, SlotFacts DEF CallerInv, Current, Producing, layer, producer, ranks
  <1>9. ASSUME NEW r \in Ranks, JoinStore(r) PROVE CallerInv'
    <2>1. r = 0 /\ pc[0] = "join_fence"
      BY <1>9 DEF JoinStore, RolesInv, RankZeroPcs
    <2>2. /\ UNCHANGED <<active_epoch, producer, ranks, joined, call>> /\ pc' = [pc EXCEPT ![0] = "join_activate"]
          /\ layer_id' = call[0].layer /\ expert_count' = call[0].count
      BY <1>9, <2>1 DEF JoinStore, CallerGoes
    <2>3. active_epoch = 0 \/ \A q \in Ranks : wait_returned_epoch[q] >= active_epoch
      BY <1>9 DEF JoinStore, WaitOver, NoWait, WaitPredicate, FenceOpen, Loaded
    <2>4. \A q \in Ranks : join_epoch[q] = active_epoch
      <3>1. \A q \in Ranks : wait_returned_epoch[q] <= join_epoch[q] /\ join_epoch[q] <= active_epoch
        BY <1>1 DEF EpochInv
      <3> QED BY <1>1, <2>3, <3>1
    <2>5. \A q \in Ranks : pc[q] = "join_publish" => call[q].epoch = join_epoch[q]
      BY <1>1, <1>2, <2>4 DEF CallerInv, Current
    <2> QED BY <1>1, <1>2, <2>1, <2>2, <2>4, <2>5, SlotFacts DEF CallerInv, Current, Producing, producer, ranks
  <1>10. ASSUME NEW r \in Ranks, JoinActivate(r)
        PROVE  CallerInv'
    BY <1>1, <1>2, <1>10, SlotFacts, CallAssumption
       DEF JoinActivate, CallerGoes, CallerInv, Current, Producing, RolesInv, RankZeroPcs, EpochInv,
           LayerInv, AllReturned, layer, producer, ranks, caller, consumer, Calls, ClientCalls
  <1>11. ASSUME NEW r \in Ranks, JoinCheck(r) PROVE CallerInv'
    <2>1. /\ pc[r] = "join_wait" /\ UNCHANGED <<layer, producer, ranks, joined>>
          /\ \A q \in Ranks : q # r => pc'[q] = pc[q] /\ call'[q] = call[q]
          /\ \/ pc'[r] \in {"idle", "poisoning"}
             \/ /\ pc'[r] = "join_publish" /\ call'[r] = call[r]
                /\ Current(call[r])
      BY <1>1, <1>2, <1>11 DEF JoinCheck, WaitOver, NoWait, WaitPredicate, CallerGoes, CallerPoisons, Current
    <2>2. r # 0
      BY <2>1 DEF RolesInv
    <2>3. CASE pc[0] = "join_activate" /\ pc'[r] = "join_publish"
      <3>1. AllReturned
        BY <2>3 DEF LayerInv
      <3>2. join_epoch[r] = active_epoch
        BY <1>1, <3>1 DEF AllReturned, EpochInv
      <3> QED BY <1>1, <1>2, <2>1, <2>2, <2>3, <3>2, SlotFacts DEF CallerInv, Current, Producing, layer, producer, ranks
    <2> QED BY <1>1, <1>2, <2>1, <2>2, <2>3, SlotFacts DEF CallerInv, Current, Producing, layer, producer, ranks
  <1>12. ASSUME NEW r \in Ranks, JoinPublish(r)
        PROVE  CallerInv'
    BY <1>1, <1>2, <1>12, SlotFacts, CallAssumption
       DEF JoinPublish, CallEnds, NoCall, CallerInv, Current, Producing, RolesInv, RankZeroPcs, EpochInv,
           LayerInv, AllReturned, layer, producer, ranks, caller, consumer, Calls, ClientCalls
  <1>13. ASSUME NEW r \in Ranks, WaitStats(r) PROVE CallerInv'
    <2>1. /\ pc[r] = "wait" /\ pc' = [pc EXCEPT ![r] = "wait_return"]
          /\ call' = [call EXCEPT ![r] = [epoch |-> call[r].epoch, layer |-> layer_id, count |-> expert_count]]
          /\ UNCHANGED <<layer, producer, ranks, joined>>
      BY <1>13 DEF WaitStats
    <2>5. consumer_done_epoch[r] >= call[r].epoch
      BY <1>13 DEF WaitStats, WaitOver, NoWait, WaitPredicate, FenceOpen, Loaded
    <2>2. call[r].epoch = join_epoch[r] /\ join_epoch[r] # 0 /\ consumer_done_epoch[r] = join_epoch[r]
      <3>1. call[r].epoch = join_epoch[r] /\ join_epoch[r] # 0
        BY <2>1 DEF CallerInv
      <3>2. consumer_done_epoch[r] <= join_epoch[r]
        BY DEF EpochInv
      <3> QED BY <1>1, <2>5, <3>1, <3>2
    <2>3. ASSUME wait_returned_epoch[r] < join_epoch[r]
          PROVE  joined[r] = [epoch |-> join_epoch[r], layer |-> layer_id, count |-> expert_count]
      <3>1. join_epoch[r] = active_epoch /\ pc[0] # "join_activate"
        <4>1. join_epoch[r] <= active_epoch /\ (join_epoch[r] < active_epoch => wait_returned_epoch[r] = join_epoch[r])
          BY DEF EpochInv
        <4>2. pc[0] = "join_activate" => wait_returned_epoch[r] = active_epoch
          BY DEF LayerInv, AllReturned
        <4> QED BY <1>1, <2>3, <4>1, <4>2
      <3>2. Current(joined[r])
        BY <2>2, <3>1 DEF LayerInv
      <3> QED BY <1>1, <1>2, <3>1, <3>2 DEF Current, Calls
    <2> QED BY <1>1, <1>2, <2>1, <2>2, <2>3, SlotFacts DEF CallerInv, Current, Producing, layer, producer, ranks
  <1>14. ASSUME NEW r \in Ranks, WaitReturn(r)
        PROVE  CallerInv'
    BY <1>1, <1>2, <1>14, SlotFacts, CallAssumption
       DEF WaitReturn, CallEnds, NoCall, CallerInv, Current, Producing, RolesInv, RankZeroPcs, EpochInv,
           LayerInv, AllReturned, layer, producer, ranks, caller, consumer, Calls, ClientCalls
  <1>15. ASSUME NEW r \in Ranks, ProducerStart(r) \/ WriterStart(r) \/ WriterReturn(r) \/ WriterThrows(r) \/
               ProducerPublish(r) \/ ProducerDone(r)
        PROVE  CallerInv'
    BY <1>1, <1>2, <1>15, SlotFacts, CallAssumption
       DEF ProducerStart, WaitOver, WaitPredicate, NoWait, CallerGoes, WriterStart, AckedByAll, Junk,
           Bytes, WriterReturn, WriterThrows, CallerPoisons, ClaimPoison, NoCall, ProducerPublish,
           ProducerDone, CallEnds, CallerInv, Current, Producing, RolesInv, RankZeroPcs, EpochInv, LayerInv,
           AllReturned, layer, producer, ranks, caller, consumer, Calls, ClientCalls
  <1>16. ASSUME NEW r \in Ranks, ConsumerInit(r) \/ ConsumerInitFails(r) \/ ConsumerScan(r) \/
               ConsumerPeek(r) \/ ConsumerCopy(r) \/ ConsumerAck(r) \/ ConsumerWaitFails(r) \/ CopyFails(r)
        PROVE  CallerInv'
    <2>1. UNCHANGED <<layer, expert, published_sequence, caller, join_epoch, consumer_done_epoch, wait_returned_epoch>>
      BY <1>16
         DEF ConsumerInit, ConsumerInitFails, ConsumerScan, ConsumerPeek, ConsumerCopy, ConsumerAck,
             ConsumerWaitFails, CopyFails, producer, ranks
    <2> QED BY <2>1 DEF CallerInv, Current, layer, caller
  <1>17. ASSUME NEW r \in Ranks, ConsumerFinish(r) PROVE CallerInv'
    <2>1. /\ UNCHANGED <<layer, producer, join_epoch, wait_returned_epoch, caller>> /\ work[r].epoch = join_epoch[r]
          /\ consumer_done_epoch' = [consumer_done_epoch EXCEPT ![r] = work[r].epoch]
      BY <1>17 DEF ConsumerFinish, ConsumerInv, Consuming
    <2> QED BY <1>1, <1>2, <2>1, SlotFacts DEF CallerInv, Current, Producing, layer, producer, caller
  <1>18. ASSUME NEW r \in Ranks, Close(r) \/ CloseReturn(r) \/ Crash(r)
        PROVE  CallerInv'
    BY <1>1, <1>2, <1>18, SlotFacts, CallAssumption
       DEF Close, ClaimPoison, CloseReturn, Crash, CallerInv, Current, Producing, RolesInv, RankZeroPcs,
           EpochInv, LayerInv, AllReturned, layer, producer, ranks, caller, consumer, Calls, ClientCalls
  <1>19. ASSUME NEW r \in Ranks, NEW x \in Experts, DmaComplete(r, x)
        PROVE  CallerInv'
    BY <1>1, <1>2, <1>19, SlotFacts, CallAssumption
       DEF DmaComplete, CallerInv, Current, Producing, RolesInv, RankZeroPcs, EpochInv, LayerInv,
           AllReturned, layer, producer, ranks, caller, consumer, Calls, ClientCalls
  <1> QED BY <1>3, <1>4, <1>5, <1>6, <1>7, <1>8, <1>9, <1>10, <1>11, <1>12, <1>13, <1>14, <1>15, <1>16,
             <1>17, <1>18, <1>19
           DEF Next, PublisherStep, Call, CallerStep, ConsumerStep

\* A step keeps every variable in its type; the expert counters stay in bounds
\* because the counts the threads work with are those of the joined layer.
LEMMA TypeStep ==
    ASSUME TypeOK, RolesInv, CallerInv, ConsumerInv, Next
    PROVE  TypeOK'
  <1> DEFINE PoisonType == /\ poison_state \in {"healthy", "claimed", "poisoned"}
                           /\ error_code \in ErrorCodes /\ error_rank \in Ranks \cup {-1}
                           /\ publisher \in [rank : Ranks, thread : {"none", "caller", "consumer", "closer"}, code : ErrorCodes,
                                             stage : {"none", "fill", "release"}]
             CellType == /\ active_epoch \in Nat /\ layer_id \in Nat /\ expert_count \in 0 .. NumExperts
                         /\ join_epoch \in [Ranks -> Nat] /\ consumer_done_epoch \in [Ranks -> Nat]
                         /\ wait_returned_epoch \in [Ranks -> Nat] /\ completed_epoch \in [Ranks -> Nat]
                         /\ producer_done_epoch \in Nat
             SlotType == /\ next_sequence \in Nat /\ ready \in [Slots -> [sequence : Nat, epoch : Nat, expert : Nat]]
                         /\ expert \in 0 .. NumExperts /\ published_sequence \in [Slots -> Nat]
                         /\ ack_sequence \in [Ranks -> [Slots -> Nat]] /\ last_ready_sequence \in [Ranks -> [Slots -> Nat]]
             BufferType == /\ host \in [Slots -> AllBytes] /\ gpu \in [Ranks -> [Experts -> AllBytes]]
                           /\ dma \in [Ranks -> SUBSET Experts]
             CallerType == /\ pc \in [Ranks -> CallerPcs] /\ call \in [Ranks -> Calls] /\ joined \in [Ranks -> Calls]
                           /\ report \in [Ranks -> [code : ErrorCodes \cup {"unasked", "incomplete"}, rank : Ranks \cup {-1}]]
             ThreadType == /\ cpc \in [Ranks -> ConsumerPcs]
                           /\ work \in [Ranks -> [epoch : Nat, count : 0 .. NumExperts, expert : 0 .. NumExperts, observed : Nat]]
                           /\ life \in [Ranks -> Lives] /\ alive \in [Ranks -> BOOLEAN]
  <1>1. PoisonType /\ CellType /\ SlotType /\ BufferType /\ CallerType /\ ThreadType
    BY DEF TypeOK
  <1> HIDE DEF PoisonType, CellType, SlotType, BufferType, CallerType, ThreadType
  <1>2. \/ UNCHANGED poison \/ FillPoison \/ ReleasePoison
        \/ \E r \in Ranks : JoinCheck(r) \/ WriterThrows(r) \/ CallerWaitFails(r) \/ ConsumerInitFails(r) \/
                            ConsumerPeek(r) \/ ConsumerWaitFails(r) \/ CopyFails(r) \/ CloseReturn(r) \/
                            \E c \in ClientCalls : Join(r, c) \/ RunProducer(r, c) \/ Wait(r, c)
    BY DEF Next, PublisherStep, Call, CallerStep, ConsumerStep, Refused, Construct, ConstructReturn,
           JoinStore, JoinActivate, JoinPublish, WaitStats, WaitReturn, ProducerStart, WriterStart,
           WriterReturn, ProducerPublish, ProducerDone, Diagnose, ConsumerInit, ConsumerScan, ConsumerCopy,
           ConsumerAck, ConsumerFinish, Close, Crash, DmaComplete, ConsumerExits
  <1>3. PoisonType'
    <2>1. CASE UNCHANGED poison
      BY <1>1, <2>1 DEF PoisonType, poison
    <2>2. CASE FillPoison
      <3>1. /\ publisher.rank \in Ranks /\ publisher.code \in ErrorCodes
            /\ publisher.thread \in {"none", "caller", "consumer", "closer"}
        BY <1>1 DEF PoisonType
      <3>2. /\ publisher' = [rank |-> publisher.rank, thread |-> publisher.thread, code |-> publisher.code,
                             stage |-> "release"]
            /\ error_code' = publisher.code /\ error_rank' = publisher.rank
            /\ poison_state' = poison_state
        BY <2>2 DEF FillPoison
      <3>3. poison_state \in {"healthy", "claimed", "poisoned"}
        BY <1>1 DEF PoisonType
      <3> QED BY <3>1, <3>2, <3>3 DEF PoisonType
    <2>3. CASE ReleasePoison
      <3>1. /\ publisher' = [rank |-> 0, thread |-> "none", code |-> "none", stage |-> "none"]
            /\ poison_state' = "poisoned" /\ error_code' = error_code /\ error_rank' = error_rank
        BY <2>3 DEF ReleasePoison, NoPublisher
      <3>2. error_code \in ErrorCodes /\ error_rank \in Ranks \cup {-1}
        BY <1>1 DEF PoisonType
      <3> QED BY <3>1, <3>2, SlotFacts DEF PoisonType, ErrorCodes
    <2>4. ASSUME NEW r \in Ranks, NEW c \in ClientCalls, Join(r, c) \/ RunProducer(r, c) \/ Wait(r, c)
          PROVE  PoisonType'
      BY <1>1, <2>4 DEF Join, RunProducer, Wait, PoisonType, poison, CallerPoisons, ClaimPoison, ErrorCodes
    <2>5. ASSUME NEW r \in Ranks, JoinCheck(r) \/ WriterThrows(r) \/ CallerWaitFails(r)
          PROVE  PoisonType'
      BY <1>1, <2>5
         DEF JoinCheck, WriterThrows, CallerWaitFails, PoisonType, poison, CallerPoisons, ClaimPoison, ErrorCodes
    <2>6. ASSUME NEW r \in Ranks, ConsumerInitFails(r) \/ ConsumerPeek(r) \/ ConsumerWaitFails(r) \/
                             CopyFails(r) \/ CloseReturn(r)
          PROVE  PoisonType'
      BY <1>1, <2>6
         DEF ConsumerInitFails, ConsumerPeek, ConsumerWaitFails, CopyFails, CloseReturn, PoisonType, poison,
             ConsumerExits, ConsumerFails, ClaimPoison, ErrorCodes
    <2> QED BY <1>2, <2>1, <2>2, <2>3, <2>4, <2>5, <2>6
  <1>4. \/ UNCHANGED <<active_epoch, layer_id, expert_count, join_epoch, consumer_done_epoch, wait_returned_epoch,
                       completed_epoch, producer_done_epoch>>
        \/ \E r \in Ranks : JoinStore(r) \/ JoinActivate(r) \/ JoinPublish(r) \/ WaitReturn(r) \/
                            ProducerDone(r) \/ ConsumerInit(r) \/ ConsumerFinish(r)
    <2>1. ASSUME NEW q \in Ranks, Call(q)
          PROVE  \/ UNCHANGED <<active_epoch, layer_id, expert_count, join_epoch, consumer_done_epoch, wait_returned_epoch,
                                completed_epoch, producer_done_epoch>>
                 \/ \E r \in Ranks : JoinStore(r) \/ JoinActivate(r) \/ JoinPublish(r) \/ WaitReturn(r) \/
                                     ProducerDone(r) \/ ConsumerInit(r) \/ ConsumerFinish(r)
      BY <2>1 DEF Call, Refused, Construct, Join, RunProducer, Wait, layer, producer, ranks, consumer
    <2>2. ASSUME NEW q \in Ranks, CallerStep(q)
          PROVE  \/ UNCHANGED <<active_epoch, layer_id, expert_count, join_epoch, consumer_done_epoch, wait_returned_epoch,
                                completed_epoch, producer_done_epoch>>
                 \/ \E r \in Ranks : JoinStore(r) \/ JoinActivate(r) \/ JoinPublish(r) \/ WaitReturn(r) \/
                                     ProducerDone(r) \/ ConsumerInit(r) \/ ConsumerFinish(r)
      BY <2>2 DEF CallerStep, ConstructReturn, JoinCheck, WaitStats, ProducerStart, WriterStart,
             WriterReturn, WriterThrows, ProducerPublish, CallerWaitFails, Diagnose, layer, producer, ranks,
             consumer
    <2>3. ASSUME NEW q \in Ranks, ConsumerStep(q) \/ Close(q) \/ CloseReturn(q) \/ Crash(q) \/
                                \E x \in Experts : DmaComplete(q, x)
          PROVE  \/ UNCHANGED <<active_epoch, layer_id, expert_count, join_epoch, consumer_done_epoch, wait_returned_epoch,
                                completed_epoch, producer_done_epoch>>
                 \/ \E r \in Ranks : JoinStore(r) \/ JoinActivate(r) \/ JoinPublish(r) \/ WaitReturn(r) \/
                                     ProducerDone(r) \/ ConsumerInit(r) \/ ConsumerFinish(r)
      BY <2>3 DEF ConsumerStep, ConsumerInitFails, ConsumerScan, ConsumerPeek, ConsumerCopy, ConsumerAck,
             ConsumerWaitFails, CopyFails, Close, CloseReturn, Crash, DmaComplete, layer, producer, ranks,
             consumer
    <2>4. ASSUME PublisherStep PROVE \/ UNCHANGED <<active_epoch, layer_id, expert_count, join_epoch, consumer_done_epoch, wait_returned_epoch,
                                                    completed_epoch, producer_done_epoch>>
                                     \/ \E r \in Ranks : JoinStore(r) \/ JoinActivate(r) \/ JoinPublish(r) \/ WaitReturn(r) \/
                                                         ProducerDone(r) \/ ConsumerInit(r) \/ ConsumerFinish(r)
      BY <2>4 DEF PublisherStep, FillPoison, ReleasePoison, layer, producer, ranks, consumer
    <2> QED BY <2>1, <2>2, <2>3, <2>4 DEF Next
  <1>5. \A r \in Ranks : call[r].epoch \in Nat /\ call[r].layer \in Nat /\ call[r].count \in 0 .. NumExperts
    BY <1>1 DEF CallerType, Calls
  <1>6. ASSUME NEW r \in Ranks, JoinStore(r) \/ JoinActivate(r) \/ JoinPublish(r) \/ WaitReturn(r) \/
               ProducerDone(r) PROVE CellType'
    BY <1>1, <1>5, <1>6
       DEF JoinStore, JoinActivate, JoinPublish, WaitReturn, ProducerDone, CellType, layer, producer,
           ranks, consumer
  <1>7. \A r \in Ranks : work[r].epoch \in Nat /\ work[r].expert \in Nat /\ work[r].observed \in Nat
    BY <1>1, ExpertsAssumption DEF ThreadType
  <1>8. ASSUME NEW r \in Ranks, ConsumerInit(r) \/ ConsumerFinish(r) PROVE CellType'
    BY <1>1, <1>7, <1>8
       DEF ConsumerInit, ConsumerFinish, CellType, layer, producer, ranks, consumer
  <1>9. CellType'
    BY <1>1, <1>4, <1>6, <1>8 DEF CellType
  <1>10. \/ UNCHANGED <<next_sequence, ready, expert, published_sequence, ack_sequence, last_ready_sequence>>
        \/ \E r \in Ranks : Construct(r) \/ WriterReturn(r) \/ ProducerPublish(r) \/ ConsumerAck(r) \/ \E c \in ClientCalls : RunProducer(r, c)
    <2>1. ASSUME NEW q \in Ranks, Call(q)
          PROVE  \/ UNCHANGED <<next_sequence, ready, expert, published_sequence, ack_sequence, last_ready_sequence>>
                 \/ \E r \in Ranks : Construct(r) \/ WriterReturn(r) \/ ProducerPublish(r) \/ ConsumerAck(r) \/ \E c \in ClientCalls : RunProducer(r, c)
      BY <2>1 DEF Call, Refused, Join, Wait, producer, ranks, consumer
    <2>2. ASSUME NEW q \in Ranks, CallerStep(q)
          PROVE  \/ UNCHANGED <<next_sequence, ready, expert, published_sequence, ack_sequence, last_ready_sequence>>
                 \/ \E r \in Ranks : Construct(r) \/ WriterReturn(r) \/ ProducerPublish(r) \/ ConsumerAck(r) \/ \E c \in ClientCalls : RunProducer(r, c)
      BY <2>2 DEF CallerStep, ConstructReturn, JoinStore, JoinActivate, JoinCheck, JoinPublish, WaitStats,
             WaitReturn, ProducerStart, WriterStart, WriterThrows, ProducerDone, CallerWaitFails, Diagnose,
             producer, ranks, consumer
    <2>3. ASSUME NEW q \in Ranks, ConsumerStep(q) \/ Close(q) \/ CloseReturn(q) \/ Crash(q) \/
                                \E x \in Experts : DmaComplete(q, x)
          PROVE  \/ UNCHANGED <<next_sequence, ready, expert, published_sequence, ack_sequence, last_ready_sequence>>
                 \/ \E r \in Ranks : Construct(r) \/ WriterReturn(r) \/ ProducerPublish(r) \/ ConsumerAck(r) \/ \E c \in ClientCalls : RunProducer(r, c)
      BY <2>3 DEF ConsumerStep, ConsumerInit, ConsumerInitFails, ConsumerScan, ConsumerPeek, ConsumerCopy,
             ConsumerFinish, ConsumerWaitFails, CopyFails, Close, CloseReturn, Crash, DmaComplete, producer,
             ranks, consumer
    <2>4. ASSUME PublisherStep PROVE \/ UNCHANGED <<next_sequence, ready, expert, published_sequence, ack_sequence, last_ready_sequence>>
                                     \/ \E r \in Ranks : Construct(r) \/ WriterReturn(r) \/ ProducerPublish(r) \/ ConsumerAck(r) \/ \E c \in ClientCalls : RunProducer(r, c)
      BY <2>4 DEF PublisherStep, FillPoison, ReleasePoison, producer, ranks, consumer
    <2> QED BY <2>1, <2>2, <2>3, <2>4 DEF Next
  <1>11. Slot(expert) \in Slots /\ expert \in Nat /\ \A r \in Ranks : WorkSlot(r) \in Slots
    <2>1. expert \in Nat
      BY <1>1, ExpertsAssumption DEF SlotType
    <2> QED BY <1>7, <2>1, SlotFacts DEF WorkSlot
  <1>12. ASSUME NEW r \in Ranks, Construct(r) PROVE SlotType'
    BY <1>1, <1>12
       DEF Construct, SlotType, producer, ranks, ReadySequences
  <1>13. ASSUME NEW r \in Ranks, NEW c \in ClientCalls, RunProducer(r, c) PROVE SlotType'
    BY <1>1, ExpertsAssumption, <1>13
       DEF RunProducer, SlotType, ranks, consumer
  <1>14. ASSUME NEW r \in Ranks, WriterReturn(r) PROVE SlotType'
    BY <1>1, <1>5, <1>11, <1>14
       DEF WriterReturn, SlotType, ranks, consumer
  <1>15. ASSUME NEW r \in Ranks, ProducerPublish(r) PROVE SlotType'
    <2>1. r = 0 /\ expert < call[0].count
      BY <1>15 DEF ProducerPublish, RolesInv, RankZeroPcs, Producing, CallerInv
    <2>2. expert' \in 0 .. NumExperts
      BY <1>5, <1>11, <1>15, <2>1, ExpertsAssumption DEF ProducerPublish
    <2> QED BY <1>1, <1>11, <1>15, <2>2 DEF SlotType, ProducerPublish, ranks, consumer
  <1>16. ASSUME NEW r \in Ranks, ConsumerAck(r) PROVE SlotType'
    BY <1>1, <1>7, <1>11, <1>16
       DEF ConsumerAck, SlotType, producer
  <1>17. SlotType'
    BY <1>1, <1>10, <1>12, <1>13, <1>14, <1>15, <1>16 DEF SlotType
  <1>18. \/ UNCHANGED <<host, gpu, dma>>
        \/ \E r \in Ranks : WriterStart(r) \/ WriterReturn(r) \/ ConsumerCopy(r) \/ CopyFails(r) \/ \E x \in Experts : DmaComplete(r, x)
    <2>1. ASSUME NEW q \in Ranks, Call(q)
          PROVE  \/ UNCHANGED <<host, gpu, dma>>
                 \/ \E r \in Ranks : WriterStart(r) \/ WriterReturn(r) \/ ConsumerCopy(r) \/ CopyFails(r) \/ \E x \in Experts : DmaComplete(r, x)
      BY <2>1 DEF Call, Refused, Construct, Join, RunProducer, Wait, buffers
    <2>2. ASSUME NEW q \in Ranks, CallerStep(q)
          PROVE  \/ UNCHANGED <<host, gpu, dma>>
                 \/ \E r \in Ranks : WriterStart(r) \/ WriterReturn(r) \/ ConsumerCopy(r) \/ CopyFails(r) \/ \E x \in Experts : DmaComplete(r, x)
      BY <2>2 DEF CallerStep, ConstructReturn, JoinStore, JoinActivate, JoinCheck, JoinPublish, WaitStats,
             WaitReturn, ProducerStart, WriterThrows, ProducerPublish, ProducerDone, CallerWaitFails,
             Diagnose, buffers
    <2>3. ASSUME NEW q \in Ranks, ConsumerStep(q) \/ Close(q) \/ CloseReturn(q) \/ Crash(q) \/
                                \E x \in Experts : DmaComplete(q, x)
          PROVE  \/ UNCHANGED <<host, gpu, dma>>
                 \/ \E r \in Ranks : WriterStart(r) \/ WriterReturn(r) \/ ConsumerCopy(r) \/ CopyFails(r) \/ \E x \in Experts : DmaComplete(r, x)
      BY <2>3 DEF ConsumerStep, ConsumerInit, ConsumerInitFails, ConsumerScan, ConsumerPeek, ConsumerAck,
             ConsumerFinish, ConsumerWaitFails, Close, CloseReturn, Crash, buffers
    <2>4. ASSUME PublisherStep PROVE \/ UNCHANGED <<host, gpu, dma>>
                                     \/ \E r \in Ranks : WriterStart(r) \/ WriterReturn(r) \/ ConsumerCopy(r) \/ CopyFails(r) \/ \E x \in Experts : DmaComplete(r, x)
      BY <2>4 DEF PublisherStep, FillPoison, ReleasePoison, buffers
    <2> QED BY <2>1, <2>2, <2>3, <2>4 DEF Next
  <1>19. ASSUME NEW r \in Ranks, WriterStart(r) \/ WriterReturn(r) PROVE BufferType'
    <2>1. Junk \in AllBytes /\ Bytes(call[r].epoch, expert) \in AllBytes
      BY <1>5, <1>11 DEF Junk, Bytes, AllBytes
    <2> QED BY <1>1, <1>11, <1>19, <2>1 DEF BufferType, WriterStart, WriterReturn
  <1>20. ASSUME NEW r \in Ranks, ConsumerCopy(r) \/ CopyFails(r) PROVE BufferType'
    <2>1. cpc[r] \in {"match", "copying"} /\ UNCHANGED <<host, gpu>>
          /\ dma' \in {dma, [dma EXCEPT ![r] = dma[r] \cup {work[r].expert}], [dma EXCEPT ![r] = dma[r] \ {work[r].expert}]}
      BY <1>20 DEF ConsumerCopy, CopyFails
    <2>2. work[r].expert \in Experts
      <3>1. work[r].expert < work[r].count /\ work[r].count \in 0 .. NumExperts
        BY <1>1, <2>1 DEF ConsumerInv, Consuming, ThreadType
      <3> QED BY <1>7, <3>1, ExpertsAssumption DEF Experts
    <2> QED BY <1>1, <2>1, <2>2 DEF BufferType
  <1>21. ASSUME NEW r \in Ranks, NEW x \in Experts, DmaComplete(r, x) PROVE BufferType'
    <2>1. host[Slot(x)] \in AllBytes
      BY <1>1, SlotFacts DEF BufferType, Experts
    <2> QED BY <1>1, <1>21, <2>1 DEF BufferType, DmaComplete
  <1>22. BufferType'
    BY <1>1, <1>18, <1>19, <1>20, <1>21 DEF BufferType
  <1>23. pc \in [Ranks -> CallerPcs] /\ call \in [Ranks -> Calls] /\ joined \in [Ranks -> Calls]
    BY <1>1 DEF CallerType
  <1>24. pc' \in [Ranks -> CallerPcs]
    <2>1. ASSUME NEW q \in Ranks, Call(q)
          PROVE  pc' \in [Ranks -> CallerPcs]
      BY <1>23, <2>1 DEF Call, Refused, Construct, Join, RunProducer, Wait, CallerGoes, CallEnds,
             CallerPoisons, CallerPcs, CallerWaits, Producing, caller
    <2>2. ASSUME NEW q \in Ranks, CallerStep(q)
          PROVE  pc' \in [Ranks -> CallerPcs]
      BY <1>23, <2>2 DEF CallerStep, ConstructReturn, JoinStore, JoinActivate, JoinCheck, JoinPublish,
             WaitStats, WaitReturn, ProducerStart, WriterStart, WriterReturn, WriterThrows, ProducerPublish,
             ProducerDone, CallerWaitFails, Diagnose, CallerGoes, CallEnds, CallerPoisons, CallerPcs,
             CallerWaits, Producing, caller
    <2>3. ASSUME NEW q \in Ranks, ConsumerStep(q) \/ Close(q) \/ CloseReturn(q) \/ Crash(q) \/
                                \E x \in Experts : DmaComplete(q, x)
          PROVE  pc' \in [Ranks -> CallerPcs]
      BY <1>23, <2>3 DEF ConsumerStep, ConsumerInit, ConsumerInitFails, ConsumerScan, ConsumerPeek,
             ConsumerCopy, ConsumerAck, ConsumerFinish, ConsumerWaitFails, CopyFails, Close, CloseReturn,
             Crash, DmaComplete, CallerGoes, CallEnds, CallerPoisons, CallerPcs, CallerWaits, Producing,
             caller
    <2>4. ASSUME PublisherStep PROVE pc' \in [Ranks -> CallerPcs]
      BY <1>23, <2>4 DEF PublisherStep, FillPoison, ReleasePoison, CallerGoes, CallEnds, CallerPoisons,
             CallerPcs, CallerWaits, Producing, caller
    <2> QED BY <2>1, <2>2, <2>3, <2>4 DEF Next
  <1>25. NoCall \in Calls
    BY ExpertsAssumption DEF NoCall, Calls
  <1>26. ASSUME NEW r \in Ranks, ConstructReturn(r) \/ JoinCheck(r) \/ CallerWaitFails(r) \/ Diagnose(r) \/
               JoinStore(r) \/ JoinActivate(r) \/ JoinPublish(r) \/ WaitReturn(r) \/ ProducerStart(r) \/
               WriterStart(r) \/ WriterReturn(r) \/ WriterThrows(r) \/ ProducerPublish(r) \/
               ProducerDone(r) \/ Refused(r) \/ Construct(r)
        PROVE  call' \in [Ranks -> Calls]
    BY <1>23, <1>25, <1>26 DEF ConstructReturn, JoinCheck, CallerWaitFails, Diagnose, JoinStore,
           JoinActivate, JoinPublish, WaitReturn, ProducerStart, WriterStart, WriterReturn, WriterThrows,
           ProducerPublish, ProducerDone, Refused, Construct, CallerGoes, CallEnds, CallerPoisons, caller
  <1>27. ASSUME NEW r \in Ranks, WaitStats(r) PROVE call' \in [Ranks -> Calls]
    <2>1. [epoch |-> call[r].epoch, layer |-> layer_id, count |-> expert_count] \in Calls
      BY <1>1, <1>5 DEF CellType, Calls
    <2> QED BY <1>23, <1>27, <2>1 DEF WaitStats
  <1>28. ASSUME NEW r \in Ranks, NEW c \in ClientCalls, Join(r, c) \/ RunProducer(r, c) \/ Wait(r, c)
         PROVE  call' \in [Ranks -> Calls]
    <2>1. c \in Calls /\ [epoch |-> c.epoch, layer |-> 0, count |-> 0] \in Calls
      BY CallFacts, ExpertsAssumption DEF Calls
    <2> QED BY <1>23, <1>25, <1>28, <2>1 DEF Join, RunProducer, Wait, CallerPoisons
  <1>29. call' \in [Ranks -> Calls]
    BY <1>23, <1>26, <1>27, <1>28 DEF Next, PublisherStep, Call, CallerStep, ConsumerStep, FillPoison,
           ReleasePoison, ConsumerInit, ConsumerInitFails, ConsumerScan, ConsumerPeek, ConsumerCopy,
           ConsumerAck, ConsumerFinish, ConsumerWaitFails, CopyFails, Close, CloseReturn, Crash,
           DmaComplete, caller
  <1>30. \/ UNCHANGED <<joined>>
        \/ \E r \in Ranks : JoinPublish(r)
    <2>1. ASSUME NEW q \in Ranks, Call(q)
          PROVE  \/ UNCHANGED <<joined>>
                 \/ \E r \in Ranks : JoinPublish(r)
      BY <2>1 DEF Call, Refused, Construct, Join, RunProducer, Wait, caller
    <2>2. ASSUME NEW q \in Ranks, CallerStep(q)
          PROVE  \/ UNCHANGED <<joined>>
                 \/ \E r \in Ranks : JoinPublish(r)
      BY <2>2 DEF CallerStep, ConstructReturn, JoinStore, JoinActivate, JoinCheck, WaitStats, WaitReturn,
             ProducerStart, WriterStart, WriterReturn, WriterThrows, ProducerPublish, ProducerDone,
             CallerWaitFails, Diagnose, caller
    <2>3. ASSUME NEW q \in Ranks, ConsumerStep(q) \/ Close(q) \/ CloseReturn(q) \/ Crash(q) \/
                                \E x \in Experts : DmaComplete(q, x)
          PROVE  \/ UNCHANGED <<joined>>
                 \/ \E r \in Ranks : JoinPublish(r)
      BY <2>3 DEF ConsumerStep, ConsumerInit, ConsumerInitFails, ConsumerScan, ConsumerPeek, ConsumerCopy,
             ConsumerAck, ConsumerFinish, ConsumerWaitFails, CopyFails, Close, CloseReturn, Crash,
             DmaComplete, caller
    <2>4. ASSUME PublisherStep PROVE \/ UNCHANGED <<joined>>
                                     \/ \E r \in Ranks : JoinPublish(r)
      BY <2>4 DEF PublisherStep, FillPoison, ReleasePoison, caller
    <2> QED BY <2>1, <2>2, <2>3, <2>4 DEF Next
  <1>31. joined' \in [Ranks -> Calls]
    BY <1>23, <1>30 DEF JoinPublish
  <1>32. \/ UNCHANGED <<report>>
        \/ \E r \in Ranks : Diagnose(r)
    <2>1. ASSUME NEW q \in Ranks, Call(q)
          PROVE  \/ UNCHANGED <<report>>
                 \/ \E r \in Ranks : Diagnose(r)
      BY <2>1 DEF Call, Refused, Construct, Join, RunProducer, Wait, caller
    <2>2. ASSUME NEW q \in Ranks, CallerStep(q)
          PROVE  \/ UNCHANGED <<report>>
                 \/ \E r \in Ranks : Diagnose(r)
      BY <2>2 DEF CallerStep, ConstructReturn, JoinStore, JoinActivate, JoinCheck, JoinPublish, WaitStats,
             WaitReturn, ProducerStart, WriterStart, WriterReturn, WriterThrows, ProducerPublish,
             ProducerDone, CallerWaitFails, caller
    <2>3. ASSUME NEW q \in Ranks, ConsumerStep(q) \/ Close(q) \/ CloseReturn(q) \/ Crash(q) \/
                                \E x \in Experts : DmaComplete(q, x)
          PROVE  \/ UNCHANGED <<report>>
                 \/ \E r \in Ranks : Diagnose(r)
      BY <2>3 DEF ConsumerStep, ConsumerInit, ConsumerInitFails, ConsumerScan, ConsumerPeek, ConsumerCopy,
             ConsumerAck, ConsumerFinish, ConsumerWaitFails, CopyFails, Close, CloseReturn, Crash,
             DmaComplete, caller
    <2>4. ASSUME PublisherStep PROVE \/ UNCHANGED <<report>>
                                     \/ \E r \in Ranks : Diagnose(r)
      BY <2>4 DEF PublisherStep, FillPoison, ReleasePoison, caller
    <2> QED BY <2>1, <2>2, <2>3, <2>4 DEF Next
  <1>33. CallerType'
    <2>1. ASSUME NEW r \in Ranks, Diagnose(r)
          PROVE  report' \in [Ranks -> [code : ErrorCodes \cup {"unasked", "incomplete"}, rank : Ranks \cup {-1}]]
      <3>1. /\ [code |-> error_code, rank |-> error_rank] \in [code : ErrorCodes \cup {"unasked", "incomplete"}, rank : Ranks \cup {-1}]
            /\ Incomplete \in [code : ErrorCodes \cup {"unasked", "incomplete"}, rank : Ranks \cup {-1}]
        BY <1>1, SlotFacts DEF PoisonType, Incomplete
      <3> QED BY <1>1, <2>1, <3>1 DEF CallerType, Diagnose, Diagnostics
    <2> QED BY <1>1, <1>24, <1>29, <1>31, <1>32, <2>1 DEF CallerType
  <1>34. cpc \in [Ranks -> ConsumerPcs] /\ life \in [Ranks -> Lives] /\ alive \in [Ranks -> BOOLEAN]
    BY <1>1 DEF ThreadType
  <1>35. cpc' \in [Ranks -> ConsumerPcs]
    <2>1. ASSUME NEW q \in Ranks, Call(q)
          PROVE  cpc' \in [Ranks -> ConsumerPcs]
      BY <1>34, <2>1 DEF Call, Refused, Construct, Join, RunProducer, Wait, ConsumerExits, ConsumerFails,
             consumer, ConsumerPcs, Consuming
    <2>2. ASSUME NEW q \in Ranks, CallerStep(q)
          PROVE  cpc' \in [Ranks -> ConsumerPcs]
      BY <1>34, <2>2 DEF CallerStep, ConstructReturn, JoinStore, JoinActivate, JoinCheck, JoinPublish,
             WaitStats, WaitReturn, ProducerStart, WriterStart, WriterReturn, WriterThrows, ProducerPublish,
             ProducerDone, CallerWaitFails, Diagnose, ConsumerExits, ConsumerFails, consumer, ConsumerPcs,
             Consuming
    <2>3. ASSUME NEW q \in Ranks, ConsumerStep(q) \/ Close(q) \/ CloseReturn(q) \/ Crash(q) \/
                                \E x \in Experts : DmaComplete(q, x)
          PROVE  cpc' \in [Ranks -> ConsumerPcs]
      BY <1>34, <2>3 DEF ConsumerStep, ConsumerInit, ConsumerInitFails, ConsumerScan, ConsumerPeek,
             ConsumerCopy, ConsumerAck, ConsumerFinish, ConsumerWaitFails, CopyFails, Close, CloseReturn,
             Crash, DmaComplete, ConsumerExits, ConsumerFails, consumer, ConsumerPcs, Consuming
    <2>4. ASSUME PublisherStep PROVE cpc' \in [Ranks -> ConsumerPcs]
      BY <1>34, <2>4 DEF PublisherStep, FillPoison, ReleasePoison, ConsumerExits, ConsumerFails, consumer,
             ConsumerPcs, Consuming
    <2> QED BY <2>1, <2>2, <2>3, <2>4 DEF Next
  <1>36. life' \in [Ranks -> Lives] /\ alive' \in [Ranks -> BOOLEAN]
    <2>1. \/ UNCHANGED life
          \/ \E r \in Ranks : \E l \in Lives : life' = [life EXCEPT ![r] = l]
      <3>1. publisher.rank \in Ranks
        BY <1>1 DEF PoisonType
      <3>11. ASSUME NEW q \in Ranks, Call(q)
            PROVE  \/ UNCHANGED life
                   \/ \E r \in Ranks : \E l \in Lives : life' = [life EXCEPT ![r] = l]
        BY <3>1, <3>11 DEF Call, Refused, Construct, Join, RunProducer, Wait, process, Lives
      <3>12. ASSUME NEW q \in Ranks, CallerStep(q)
            PROVE  \/ UNCHANGED life
                   \/ \E r \in Ranks : \E l \in Lives : life' = [life EXCEPT ![r] = l]
        BY <3>1, <3>12 DEF CallerStep, ConstructReturn, JoinStore, JoinActivate, JoinCheck, JoinPublish,
               WaitStats, WaitReturn, ProducerStart, WriterStart, WriterReturn, WriterThrows,
               ProducerPublish, ProducerDone, CallerWaitFails, Diagnose, process, Lives
      <3>13. ASSUME NEW q \in Ranks, ConsumerStep(q) \/ Close(q) \/ CloseReturn(q) \/ Crash(q) \/
                                  \E x \in Experts : DmaComplete(q, x)
            PROVE  \/ UNCHANGED life
                   \/ \E r \in Ranks : \E l \in Lives : life' = [life EXCEPT ![r] = l]
        BY <3>1, <3>13 DEF ConsumerStep, ConsumerInit, ConsumerInitFails, ConsumerScan, ConsumerPeek,
               ConsumerCopy, ConsumerAck, ConsumerFinish, ConsumerWaitFails, CopyFails, Close, CloseReturn,
               Crash, DmaComplete, process, Lives
      <3>14. ASSUME PublisherStep PROVE \/ UNCHANGED life
                                        \/ \E r \in Ranks : \E l \in Lives : life' = [life EXCEPT ![r] = l]
        BY <3>1, <3>14 DEF PublisherStep, FillPoison, ReleasePoison, process, Lives
      <3> QED BY <3>11, <3>12, <3>13, <3>14 DEF Next
    <2>2. UNCHANGED alive \/ \E r \in Ranks : alive' = [alive EXCEPT ![r] = FALSE]
      <3>1. ASSUME NEW q \in Ranks, Call(q)
            PROVE  UNCHANGED alive \/ \E r \in Ranks : alive' = [alive EXCEPT ![r] = FALSE]
        BY <3>1 DEF Call, Refused, Construct, Join, RunProducer, Wait, process, Lives
      <3>2. ASSUME NEW q \in Ranks, CallerStep(q)
            PROVE  UNCHANGED alive \/ \E r \in Ranks : alive' = [alive EXCEPT ![r] = FALSE]
        BY <3>2 DEF CallerStep, ConstructReturn, JoinStore, JoinActivate, JoinCheck, JoinPublish, WaitStats,
               WaitReturn, ProducerStart, WriterStart, WriterReturn, WriterThrows, ProducerPublish,
               ProducerDone, CallerWaitFails, Diagnose, process, Lives
      <3>3. ASSUME NEW q \in Ranks, ConsumerStep(q) \/ Close(q) \/ CloseReturn(q) \/ Crash(q) \/
                                  \E x \in Experts : DmaComplete(q, x)
            PROVE  UNCHANGED alive \/ \E r \in Ranks : alive' = [alive EXCEPT ![r] = FALSE]
        BY <3>3 DEF ConsumerStep, ConsumerInit, ConsumerInitFails, ConsumerScan, ConsumerPeek, ConsumerCopy,
               ConsumerAck, ConsumerFinish, ConsumerWaitFails, CopyFails, Close, CloseReturn, Crash,
               DmaComplete, process, Lives
      <3>4. ASSUME PublisherStep PROVE UNCHANGED alive \/ \E r \in Ranks : alive' = [alive EXCEPT ![r] = FALSE]
        BY <3>4 DEF PublisherStep, FillPoison, ReleasePoison, process, Lives
      <3> QED BY <3>1, <3>2, <3>3, <3>4 DEF Next
    <2>3. life' \in [Ranks -> Lives]
      BY <1>34, <2>1
    <2>4. alive' \in [Ranks -> BOOLEAN]
      BY <1>34, <2>2, Zenon
    <2> QED BY <2>3, <2>4
  <1>37. \/ UNCHANGED <<work>>
        \/ \E r \in Ranks : ConsumerInitFails(r) \/ ConsumerScan(r) \/ ConsumerPeek(r) \/ ConsumerCopy(r) \/
                            ConsumerAck(r) \/ ConsumerFinish(r) \/ ConsumerWaitFails(r) \/ CopyFails(r)
    <2>1. ASSUME NEW q \in Ranks, Call(q)
          PROVE  \/ UNCHANGED <<work>>
                 \/ \E r \in Ranks : ConsumerInitFails(r) \/ ConsumerScan(r) \/ ConsumerPeek(r) \/ ConsumerCopy(r) \/
                                    ConsumerAck(r) \/ ConsumerFinish(r) \/ ConsumerWaitFails(r) \/ CopyFails(r)
      BY <2>1 DEF Call, Refused, Construct, Join, RunProducer, Wait, consumer
    <2>2. ASSUME NEW q \in Ranks, CallerStep(q)
          PROVE  \/ UNCHANGED <<work>>
                 \/ \E r \in Ranks : ConsumerInitFails(r) \/ ConsumerScan(r) \/ ConsumerPeek(r) \/ ConsumerCopy(r) \/
                                    ConsumerAck(r) \/ ConsumerFinish(r) \/ ConsumerWaitFails(r) \/ CopyFails(r)
      BY <2>2 DEF CallerStep, ConstructReturn, JoinStore, JoinActivate, JoinCheck, JoinPublish, WaitStats,
             WaitReturn, ProducerStart, WriterStart, WriterReturn, WriterThrows, ProducerPublish,
             ProducerDone, CallerWaitFails, Diagnose, consumer
    <2>3. ASSUME NEW q \in Ranks, ConsumerStep(q) \/ Close(q) \/ CloseReturn(q) \/ Crash(q) \/
                                \E x \in Experts : DmaComplete(q, x)
          PROVE  \/ UNCHANGED <<work>>
                 \/ \E r \in Ranks : ConsumerInitFails(r) \/ ConsumerScan(r) \/ ConsumerPeek(r) \/ ConsumerCopy(r) \/
                                    ConsumerAck(r) \/ ConsumerFinish(r) \/ ConsumerWaitFails(r) \/ CopyFails(r)
      BY <2>3 DEF ConsumerStep, ConsumerInit, Close, CloseReturn, Crash, DmaComplete, consumer
    <2>4. ASSUME PublisherStep PROVE \/ UNCHANGED <<work>>
                                     \/ \E r \in Ranks : ConsumerInitFails(r) \/ ConsumerScan(r) \/ ConsumerPeek(r) \/ ConsumerCopy(r) \/
                                                        ConsumerAck(r) \/ ConsumerFinish(r) \/ ConsumerWaitFails(r) \/ CopyFails(r)
      BY <2>4 DEF PublisherStep, FillPoison, ReleasePoison, consumer
    <2> QED BY <2>1, <2>2, <2>3, <2>4 DEF Next
  <1> DEFINE Works == [epoch : Nat, count : 0 .. NumExperts, expert : 0 .. NumExperts, observed : Nat]
  <1>38. work \in [Ranks -> Works] /\ NoWork \in Works
    BY <1>1, ExpertsAssumption DEF ThreadType, NoWork
  <1>39. ASSUME NEW r \in Ranks,
                ConsumerInitFails(r) \/ ConsumerCopy(r) \/ ConsumerFinish(r) \/ ConsumerWaitFails(r) \/ CopyFails(r)
         PROVE  work' \in [Ranks -> Works]
    <2> HIDE DEF Works
    <2> QED BY <1>38, <1>39
      DEF ConsumerInitFails, ConsumerCopy, ConsumerFinish, ConsumerWaitFails, CopyFails, ConsumerExits, ConsumerFails
  <1>40. ASSUME NEW r \in Ranks, ConsumerScan(r) PROVE work' \in [Ranks -> Works]
    <2>1. [epoch |-> active_epoch, count |-> expert_count, expert |-> 0, observed |-> 0] \in Works
      BY <1>1, ExpertsAssumption DEF CellType
    <2> HIDE DEF Works
    <2> QED BY <1>38, <1>40, <2>1 DEF ConsumerScan, ConsumerExits
  <1>41. ASSUME NEW r \in Ranks, ConsumerPeek(r) PROVE work' \in [Ranks -> Works]
    <2>1. [epoch |-> work[r].epoch, count |-> work[r].count, expert |-> work[r].expert,
           observed |-> ready[WorkSlot(r)].sequence] \in Works
      BY <1>1, <1>11, <1>38 DEF SlotType
    <2> HIDE DEF Works
    <2> QED BY <1>38, <1>41, <2>1 DEF ConsumerPeek, ConsumerFails
  <1>42. ASSUME NEW r \in Ranks, ConsumerAck(r) PROVE work' \in [Ranks -> Works]
    <2>1. work[r].expert < work[r].count
      BY <1>42 DEF ConsumerAck, ConsumerInv, Consuming
    <2>2. work[r].expert + 1 \in 0 .. NumExperts
      BY <1>38, <2>1, ExpertsAssumption
    <2>3. [epoch |-> work[r].epoch, count |-> work[r].count, expert |-> work[r].expert + 1,
           observed |-> work[r].observed] \in Works
      BY <1>38, <2>2
    <2> HIDE DEF Works
    <2> QED BY <1>38, <1>42, <2>3 DEF ConsumerAck
  <1>43. ThreadType'
    BY <1>35, <1>36, <1>37, <1>38, <1>39, <1>40, <1>41, <1>42 DEF ThreadType
  <1> QED BY <1>3, <1>9, <1>17, <1>22, <1>33, <1>43
    DEF TypeOK, PoisonType, CellType, SlotType, BufferType, CallerType, ThreadType

-----------------------------------------------------------------------------
(* The host slots, the copies and the GPUs.                                *)

\* A step writes a host slot only when every rank has acknowledged what was in it.
LEMMA SlotStep ==
    ASSUME TypeOK, PublisherInv, RolesInv, CallerInv, GenerationInv, SlotInv, Next
    PROVE  SlotInv'
  <1> DEFINE Quiet == /\ UNCHANGED <<ready, next_sequence, ack_sequence, host>>
                      /\ Healthy' => Healthy
                      /\ \/ pc'[0] = pc[0] /\ UNCHANGED <<expert, published_sequence, active_epoch>>
                         \/ pc'[0] \notin Producing /\ (pc[0] \in Producing => ~Healthy')
  <1>1. /\ pc \in [Ranks -> CallerPcs] /\ active_epoch \in Nat /\ next_sequence \in Nat
        /\ expert \in 0 .. NumExperts /\ published_sequence \in [Slots -> Nat]
        /\ ack_sequence \in [Ranks -> [Slots -> Nat]]
    BY DEF TypeOK
  <1>2. ready \in [Slots -> [sequence : Nat, epoch : Nat, expert : Nat]] /\ host \in [Slots -> AllBytes]
    BY DEF TypeOK
  <1>3. ASSUME FillPoison \/ ReleasePoison PROVE Quiet
    BY <1>1, SlotFacts, <1>3
       DEF FillPoison, ReleasePoison, NoPublisher, Producing, Healthy, poison, layer, producer, ranks,
           buffers, caller, consumer, process, PublisherInv
  <1>4. ASSUME NEW r \in Ranks, Refused(r) \/ Construct(r)
        PROVE  Quiet
    BY <1>1, SlotFacts, <1>4
       DEF Refused, CallerGoes, Construct, Producing, Healthy, poison, layer, producer, ranks, buffers,
           caller, consumer, process
  <1>5. ASSUME NEW r \in Ranks, NEW c \in ClientCalls, Join(r, c) \/ RunProducer(r, c) \/ Wait(r, c)
        PROVE  Quiet
    BY <1>1, SlotFacts, <1>5
       DEF Join, Enters, MayJoin, CallerPoisons, ClaimPoison, ClientCalls, NoCall, RunProducer, MayProduce,
           Wait, MayWait, Producing, Healthy, poison, layer, producer, ranks, buffers, caller, consumer,
           process
  <1>6. ASSUME NEW r \in Ranks, ConstructReturn(r) \/ JoinCheck(r) \/ WaitStats(r) \/ CallerWaitFails(r) \/
               Diagnose(r)
        PROVE  Quiet
    BY <1>1, SlotFacts, <1>6
       DEF ConstructReturn, CallEnds, NoCall, JoinCheck, WaitOver, WaitPredicate, NoWait, CallerGoes,
           CallerPoisons, ClaimPoison, WaitStats, CallerWaitFails, CallerWaits, Diagnose, Incomplete,
           Producing, Healthy, poison, layer, producer, ranks, buffers, caller, consumer, process
  <1>7. ASSUME NEW r \in Ranks, JoinStore(r) \/ JoinActivate(r) \/ JoinPublish(r) \/ WaitReturn(r)
        PROVE  Quiet
    BY <1>1, SlotFacts, <1>7
       DEF JoinStore, WaitOver, WaitPredicate, NoWait, CallerGoes, JoinActivate, JoinPublish, CallEnds,
           NoCall, WaitReturn, Producing, Healthy, poison, layer, producer, ranks, buffers, caller,
           consumer, process, RolesInv, RankZeroPcs
  <1>8. ASSUME NEW r \in Ranks, WriterThrows(r)
        PROVE  Quiet
    BY <1>1, SlotFacts, <1>8
       DEF WriterThrows, CallerPoisons, ClaimPoison, NoCall, Producing, Healthy, poison, layer, producer,
           ranks, buffers, caller, consumer, process
  <1>9. ASSUME NEW r \in Ranks, ConsumerInit(r) \/ ConsumerInitFails(r) \/ ConsumerScan(r) \/
               ConsumerPeek(r) \/ ConsumerCopy(r) \/ ConsumerFinish(r) \/ ConsumerWaitFails(r) \/
               CopyFails(r)
        PROVE  Quiet
    BY <1>1, SlotFacts, <1>9
       DEF ConsumerInit, ConsumerInitFails, ConsumerExits, ConsumerFails, ClaimPoison, NoWork,
           ConsumerScan, LayerPending, ConsumerPeek, NewGeneration, WorkSlot, ConsumerCopy, Matches,
           ConsumerFinish, ConsumerWaitFails, CopyFails, Producing, Healthy, poison, layer,
           producer, ranks, buffers, caller, consumer, process
  <1>10. ASSUME NEW r \in Ranks, Close(r) \/ CloseReturn(r) \/ Crash(r)
        PROVE  Quiet
    BY <1>1, SlotFacts, <1>10
       DEF Close, ClaimPoison, CloseReturn, Crash, Producing, Healthy, poison, layer, producer, ranks,
           buffers, caller, consumer, process
  <1>11. ASSUME NEW r \in Ranks, NEW x \in Experts, DmaComplete(r, x)
        PROVE  Quiet
    BY <1>1, SlotFacts, <1>11
       DEF DmaComplete, Producing, Healthy, poison, layer, producer, ranks, buffers, caller, consumer,
           process
  <1>12. ASSUME Quiet PROVE SlotInv'
    BY <1>12 DEF SlotInv, Drained, Producing
  <1>13. \A r \in Ranks : pc[r] \in {"prod_join", "prod_slot", "prod_write", "prod_ready", "prod_drain"} => r = 0
    BY DEF RolesInv, RankZeroPcs, Producing
  <1>14. 0 \in Ranks /\ Slot(expert) \in Slots
    BY <1>1, SlotFacts, ExpertsAssumption
  <1>15. ASSUME NEW s \in Slots, pc[0] \in Producing, AckedByAll(s) PROVE Drained(s)
    <2>1. published_sequence[s] = 0 => Drained(s)
      BY <1>15 DEF SlotInv
    <2>2. published_sequence[s] # 0 => published_sequence[s] = ready[s].sequence
      BY <1>15 DEF SlotInv
    <2>3. \A q \in Ranks : ack_sequence[q][s] <= ready[s].sequence /\ ack_sequence[q][s] >= published_sequence[s]
      BY <1>15 DEF SlotInv, AckedByAll
    <2>4. ready[s].sequence \in Nat /\ \A q \in Ranks : ack_sequence[q][s] \in Nat
      BY <1>1, <1>2
    <2> QED BY <2>1, <2>2, <2>3, <2>4 DEF Drained
  <1>16. ASSUME ProducerStart(0) PROVE SlotInv'
    <2>1. /\ pc[0] = "prod_join" /\ Healthy /\ pc'[0] = "prod_slot"
          /\ UNCHANGED <<ready, next_sequence, ack_sequence, host, published_sequence>>
      BY <1>1, <1>14, <1>16 DEF ProducerStart, WaitOver, NoWait, CallerGoes, producer, ranks, buffers
    <2>2. \A s \in Slots : published_sequence[s] = 0 /\ Drained(s)
      BY <2>1 DEF CallerInv, SlotInv, Producing
    <2> QED BY <2>1, <2>2 DEF SlotInv, Drained, Producing
  <1>17. ASSUME WriterStart(0) PROVE SlotInv'
    <2>1. /\ pc[0] = "prod_slot" /\ pc'[0] = "prod_write"
          /\ host' = [host EXCEPT ![Slot(expert)] = Junk]
          /\ UNCHANGED <<ready, next_sequence, ack_sequence, published_sequence, expert>>
          /\ published_sequence[Slot(expert)] = 0 \/ AckedByAll(Slot(expert))
      BY <1>1, <1>14, <1>17 DEF WriterStart, WaitOver, NoWait, WaitPredicate, CallerGoes, producer, ranks, buffers
    <2>2. Drained(Slot(expert))
      BY <1>14, <1>15, <2>1 DEF SlotInv, Producing
    <2>3. \A s \in Slots : (Drained(s)' <=> Drained(s)) /\ (~Drained(s) => host'[s] = host[s])
      BY <1>2, <1>14, <2>1, <2>2 DEF Drained
    <2> QED BY <1>14, <2>1, <2>2, <2>3 DEF SlotInv, Producing
  <1>18. ASSUME WriterReturn(0) PROVE SlotInv'
    <2>1. /\ pc[0] = "prod_write" /\ pc'[0] = "prod_ready" /\ call[0].epoch = active_epoch
          /\ Drained(Slot(expert))
          /\ next_sequence' = next_sequence + 1
          /\ UNCHANGED <<ack_sequence, published_sequence, expert, active_epoch>>
      BY <1>1, <1>14, <1>18 DEF WriterReturn, CallerGoes, CallerInv, Current, Producing, SlotInv, layer, ranks
    <2>2. /\ host' = [host EXCEPT ![Slot(expert)] = Bytes(active_epoch, expert)]
          /\ ready' = [ready EXCEPT ![Slot(expert)] =
                           [sequence |-> ready[Slot(expert)].sequence, epoch |-> active_epoch, expert |-> expert]]
      BY <1>18, <2>1 DEF WriterReturn
    <2>3. \A s \in Slots : /\ ready'[s].sequence = ready[s].sequence
                           /\ s # Slot(expert) => ready'[s] = ready[s] /\ host'[s] = host[s]
      BY <1>2, <1>14, <2>2
    <2>4. \A s \in Slots : (Drained(s)' <=> Drained(s)) /\ (~Drained(s) => s # Slot(expert))
      BY <2>1, <2>3 DEF Drained
    <2>5. ready'[Slot(expert)].epoch = active_epoch /\ ready'[Slot(expert)].expert = expert
          /\ host'[Slot(expert)] = Bytes(active_epoch, expert)
      BY <1>2, <1>14, <2>2
    <2>6. \A s \in Slots : ready[s].sequence <= next_sequence /\ ready[s].sequence \in Nat
      BY <1>2 DEF SlotInv
    <2> QED BY <1>1, <1>14, <2>1, <2>3, <2>4, <2>5, <2>6 DEF SlotInv, Producing
  <1>19. ASSUME ProducerPublish(0) PROVE SlotInv'
    <2>1. /\ pc[0] = "prod_ready" /\ pc'[0] \in {"prod_slot", "prod_drain"}
          /\ published_sequence' = [published_sequence EXCEPT ![Slot(expert)] = next_sequence]
          /\ UNCHANGED <<next_sequence, ack_sequence, host, active_epoch>>
          /\ ready' = [ready EXCEPT ![Slot(expert)] = [sequence |-> next_sequence,
                           epoch |-> ready[Slot(expert)].epoch, expert |-> ready[Slot(expert)].expert]]
      BY <1>1, <1>14, <1>19 DEF ProducerPublish, CallerGoes, layer, ranks, buffers
    <2>2. /\ \A s \in Slots : s # Slot(expert) => ready'[s] = ready[s] /\ published_sequence'[s] = published_sequence[s]
          /\ ready'[Slot(expert)].sequence = next_sequence /\ published_sequence'[Slot(expert)] = next_sequence
          /\ ready'[Slot(expert)].epoch = ready[Slot(expert)].epoch
          /\ ready'[Slot(expert)].expert = ready[Slot(expert)].expert
      BY <1>1, <1>2, <1>14, <2>1
    <2>3. /\ \A s \in Slots : ready[s].sequence < next_sequence
          /\ host[Slot(expert)] = Bytes(ready[Slot(expert)].epoch, ready[Slot(expert)].expert)
          /\ \A q \in Ranks : ack_sequence[q][Slot(expert)] = ready[Slot(expert)].sequence
      BY <1>14, <2>1 DEF SlotInv, Drained
    <2>4. next_sequence # 0
      BY <1>1, <1>2, <1>14, <2>3
    <2>5. \A s \in Slots : s # Slot(expert) => (Drained(s)' <=> Drained(s))
      BY <2>1, <2>2 DEF Drained
    <2>6. \A s \in Slots, q \in Ranks : ack_sequence[q][s] <= ready'[s].sequence
      BY <1>1, <1>2, <1>14, <2>2, <2>3 DEF SlotInv
    <2> QED BY <1>1, <1>14, <2>1, <2>2, <2>3, <2>4, <2>5, <2>6 DEF SlotInv, Producing
  <1>20. ASSUME ProducerDone(0) PROVE SlotInv'
    <2>1. /\ pc[0] = "prod_drain" /\ pc'[0] = "idle" /\ \A s \in Slots : AckedByAll(s)
          /\ UNCHANGED <<ready, next_sequence, ack_sequence, host>>
      BY <1>1, <1>14, <1>20 DEF ProducerDone, WaitOver, NoWait, WaitPredicate, CallEnds, ranks, buffers
    <2>2. \A s \in Slots : Drained(s) /\ Drained(s)'
      BY <1>15, <2>1 DEF Drained, Producing
    <2> QED BY <2>1, <2>2 DEF SlotInv, Producing
  <1>21. ASSUME NEW r \in Ranks, ConsumerAck(r) PROVE SlotInv'
    <2>1. WorkSlot(r) \in Slots
      <3>1. work[r].expert \in 0 .. NumExperts
        BY DEF TypeOK
      <3> QED BY <3>1, SlotFacts, ExpertsAssumption DEF WorkSlot
    <2>2. /\ ack_sequence' = [ack_sequence EXCEPT ![r] = [ack_sequence[r] EXCEPT ![WorkSlot(r)] = ready[WorkSlot(r)].sequence]]
          /\ UNCHANGED <<ready, next_sequence, host, pc, Healthy, published_sequence, expert, active_epoch>>
      BY <1>21 DEF ConsumerAck, GenerationInv, poison, Healthy, producer, buffers, caller, layer
    <2>3. \A q \in Ranks, s \in Slots : ack_sequence'[q][s] \in {ack_sequence[q][s], ready[s].sequence}
      BY <1>1, <2>1, <2>2
    <2>4. \A s \in Slots : Drained(s) => Drained(s)'
      BY <2>2, <2>3 DEF Drained
    <2>5. \A q \in Ranks, s \in Slots : ack_sequence'[q][s] <= ready[s].sequence
      BY <1>2, <2>3 DEF SlotInv
    <2> QED BY <1>14, <2>2, <2>4, <2>5 DEF SlotInv
  <1> QED
    BY <1>3, <1>4, <1>5, <1>6, <1>7, <1>8, <1>9, <1>10, <1>11, <1>12, <1>13, <1>16, <1>17, <1>18, <1>19, <1>20,
       <1>21
    DEF Next, PublisherStep, Call, CallerStep, ConsumerStep, ProducerStart, WriterStart, WriterReturn,
        ProducerPublish, ProducerDone

\* A step does not make a consumer acknowledge, or take for new, a generation that
\* is not the one in the slot.
LEMMA GenerationStep ==
    ASSUME TypeOK, PublisherInv, RolesInv, SlotInv, GenerationInv, Next
    PROVE  GenerationInv'
  <1> DEFINE Quiet == /\ UNCHANGED <<ready, ack_sequence, last_ready_sequence>>
                      /\ \A q \in Ranks : \/ cpc'[q] = cpc[q] /\ work'[q] = work[q]
                                          \/ cpc'[q] \notin {"match", "copying"} /\ (Running(q)' => Running(q))
  <1>1. /\ cpc \in [Ranks -> ConsumerPcs] /\ last_ready_sequence \in [Ranks -> [Slots -> Nat]]
        /\ ack_sequence \in [Ranks -> [Slots -> Nat]] /\ next_sequence \in Nat /\ expert \in 0 .. NumExperts
    BY DEF TypeOK
  <1>2. /\ work \in [Ranks -> [epoch : Nat, count : 0 .. NumExperts, expert : 0 .. NumExperts, observed : Nat]]
        /\ ready \in [Slots -> [sequence : Nat, epoch : Nat, expert : Nat]]
    BY DEF TypeOK
  <1>3. ASSUME FillPoison \/ ReleasePoison PROVE Quiet
    BY <1>1, <1>2, <1>3
       DEF FillPoison, ReleasePoison, NoPublisher, Running, Consuming, producer, ranks, consumer,
           PublisherInv
  <1>4. ASSUME NEW r \in Ranks, Refused(r) \/ ConstructReturn(r) \/ JoinCheck(r) \/ WaitStats(r) \/
               CallerWaitFails(r) \/ Diagnose(r) \/ JoinStore(r) \/ JoinActivate(r) \/ JoinPublish(r) \/
               WaitReturn(r)
        PROVE  Quiet
    BY <1>1, <1>2, <1>4
       DEF Refused, CallerGoes, ConstructReturn, CallEnds, NoCall, JoinCheck, WaitOver, WaitPredicate,
           NoWait, CallerPoisons, ClaimPoison, WaitStats, CallerWaitFails, CallerWaits, Diagnose,
           Incomplete, JoinStore, JoinActivate, JoinPublish, WaitReturn, Running, Consuming, producer,
           ranks, consumer
  <1>5. ASSUME NEW r \in Ranks, NEW c \in ClientCalls, Join(r, c) \/ RunProducer(r, c) \/ Wait(r, c)
        PROVE  Quiet
    BY <1>1, <1>2, <1>5
       DEF Join, Enters, MayJoin, CallerPoisons, ClaimPoison, ClientCalls, NoCall, RunProducer, MayProduce,
           Wait, MayWait, Running, Consuming, producer, ranks, consumer
  <1>6. ASSUME NEW r \in Ranks, ProducerStart(r) \/ WriterStart(r) \/ WriterThrows(r) \/ ProducerDone(r)
        PROVE  Quiet
    BY <1>1, <1>2, <1>6
       DEF ProducerStart, WaitOver, WaitPredicate, NoWait, CallerGoes, WriterStart, AckedByAll, Junk,
           Bytes, WriterThrows, CallerPoisons, ClaimPoison, NoCall, ProducerDone, CallEnds, Running,
           Consuming, producer, ranks, consumer
  <1>7. ASSUME NEW r \in Ranks, ConsumerInit(r) \/ ConsumerInitFails(r) \/ ConsumerScan(r) \/
               ConsumerFinish(r) \/ ConsumerWaitFails(r) \/ CopyFails(r)
        PROVE  Quiet
    BY <1>1, <1>2, <1>7
       DEF ConsumerInit, ConsumerInitFails, ConsumerExits, ConsumerFails, ClaimPoison, NoWork,
           ConsumerScan, LayerPending, ConsumerFinish, ConsumerWaitFails, CopyFails,
           Running, Consuming, producer, ranks, consumer
  <1>8. ASSUME NEW r \in Ranks, Close(r) \/ CloseReturn(r) \/ Crash(r)
        PROVE  Quiet
    BY <1>1, <1>2, <1>8
       DEF Close, ClaimPoison, CloseReturn, Crash, Running, Consuming, producer, ranks, consumer
  <1>9. ASSUME NEW r \in Ranks, NEW x \in Experts, DmaComplete(r, x)
        PROVE  Quiet
    BY <1>1, <1>2, <1>9
       DEF DmaComplete, Running, Consuming, producer, ranks, consumer
  <1>10. ASSUME Quiet PROVE GenerationInv'
    BY <1>10 DEF GenerationInv, Running, NewGeneration, Matches, WorkSlot
  <1>11. \A r \in Ranks : WorkSlot(r) \in Slots
    BY <1>2, SlotFacts, ExpertsAssumption DEF WorkSlot
  <1>12. 0 \in Ranks /\ Slot(expert) \in Slots
    BY <1>1, SlotFacts, ExpertsAssumption
  \* A consumer is not at a slot that is drained.
  <1>13. ASSUME NEW r \in Ranks, cpc[r] \in {"match", "copying"}, Drained(WorkSlot(r)) PROVE FALSE
    <2>1. /\ ack_sequence[r][WorkSlot(r)] = ready[WorkSlot(r)].sequence
          /\ ready[WorkSlot(r)].sequence # last_ready_sequence[r][WorkSlot(r)]
      BY <1>13 DEF GenerationInv, NewGeneration, Drained
    <2>2. /\ ack_sequence[r][WorkSlot(r)] <= last_ready_sequence[r][WorkSlot(r)]
          /\ last_ready_sequence[r][WorkSlot(r)] <= ready[WorkSlot(r)].sequence
      BY <1>11, <1>13 DEF GenerationInv, Running, Consuming
    <2>3. ready[WorkSlot(r)].sequence \in Nat /\ last_ready_sequence[r][WorkSlot(r)] \in Nat
      BY <1>1, <1>2, <1>11
    <2> QED BY <2>1, <2>2, <2>3
  <1>14. ASSUME WriterReturn(0) \/ ProducerPublish(0) PROVE GenerationInv'
    <2>1. /\ pc[0] \in {"prod_write", "prod_ready"} /\ UNCHANGED <<cpc, work, last_ready_sequence, ack_sequence>>
          /\ \A s \in Slots : s # Slot(expert) => ready'[s] = ready[s]
          /\ ready'[Slot(expert)].sequence = ready[Slot(expert)].sequence \/ ready'[Slot(expert)].sequence = next_sequence
      BY <1>2, <1>12, <1>14 DEF WriterReturn, ProducerPublish, consumer, ranks
    <2>2. Drained(Slot(expert)) /\ \A s \in Slots : ready[s].sequence <= next_sequence
      BY <2>1 DEF SlotInv
    <2>3. \A r \in Ranks : cpc[r] \in {"match", "copying"} => WorkSlot(r) # Slot(expert)
      BY <1>13, <2>2
    <2>4. \A s \in Slots : ready[s].sequence \in Nat /\ ready[s].sequence <= ready'[s].sequence
      BY <1>1, <1>2, <1>12, <2>1, <2>2
    <2>5. \A r \in Ranks : Running(r) => \A s \in Slots : last_ready_sequence[r][s] <= ready'[s].sequence
      <3> SUFFICES ASSUME NEW r \in Ranks, Running(r), NEW s \in Slots
                   PROVE  last_ready_sequence[r][s] <= ready'[s].sequence
        OBVIOUS
      <3>1. last_ready_sequence[r][s] <= ready[s].sequence
        BY DEF GenerationInv
      <3>2. ready'[s].sequence \in Nat /\ last_ready_sequence[r][s] \in Nat
        BY <1>1, <1>2, <1>12, <2>1
      <3> QED BY <2>4, <3>1, <3>2
    <2>6. \A r \in Ranks : cpc[r] \in {"match", "copying"} => ready'[WorkSlot(r)] = ready[WorkSlot(r)]
      BY <1>11, <2>1, <2>3
    <2> QED BY <1>11, <2>1, <2>5, <2>6 DEF GenerationInv, Running, NewGeneration, Matches, WorkSlot
  <1>15. ASSUME NEW r \in Ranks, Construct(r) PROVE GenerationInv'
    <2>1. /\ UNCHANGED <<work, ack_sequence, ready>> /\ cpc'[r] = "init"
          /\ \A s \in Slots : last_ready_sequence'[r][s] = ready[s].sequence
          /\ \A q \in Ranks : q # r => cpc'[q] = cpc[q] /\ last_ready_sequence'[q] = last_ready_sequence[q]
      BY <1>1, <1>15 DEF Construct, producer, ranks, ReadySequences
    <2>2. \A s \in Slots : ack_sequence[r][s] <= ready[s].sequence /\ ready[s].sequence \in Nat
      BY <1>2 DEF SlotInv
    <2> QED BY <1>11, <2>1, <2>2 DEF GenerationInv, Running, Consuming, NewGeneration, Matches, WorkSlot
  <1>16. ASSUME NEW r \in Ranks, ConsumerPeek(r) \/ ConsumerCopy(r) PROVE GenerationInv'
    <2>1. /\ UNCHANGED <<ack_sequence, ready, last_ready_sequence>>
          /\ \A q \in Ranks : q # r => cpc'[q] = cpc[q] /\ work'[q] = work[q]
          /\ (Running(r) /\ work'[r].expert = work[r].expert) \/ cpc'[r] \in {"poisoning", "exited"}
      BY <1>1, <1>2, <1>16
         DEF ConsumerPeek, ConsumerCopy, ConsumerFails, ConsumerExits, producer, ranks, Running, Consuming
    <2>2. \/ cpc'[r] \notin {"match", "copying"}
          \/ /\ cpc'[r] = "match" /\ NewGeneration(r)
             /\ work'[r].observed = ready[WorkSlot(r)].sequence
          \/ cpc[r] = "match" /\ cpc'[r] = "copying" /\ work'[r] = work[r] /\ Matches(r)
      BY <1>1, <1>2, <1>16 DEF ConsumerPeek, ConsumerCopy, ConsumerFails, ConsumerExits
    <2> QED BY <2>1, <2>2 DEF GenerationInv, Running, Consuming, NewGeneration, Matches, WorkSlot
  <1>17. ASSUME NEW r \in Ranks, ConsumerAck(r) PROVE GenerationInv'
    <2>1. /\ UNCHANGED ready /\ cpc[r] = "copying" /\ cpc'[r] \in {"wait_ready", "finish"}
          /\ \A q \in Ranks : q # r => /\ cpc'[q] = cpc[q] /\ work'[q] = work[q]
                                      /\ last_ready_sequence'[q] = last_ready_sequence[q]
                                      /\ ack_sequence'[q] = ack_sequence[q]
      BY <1>1, <1>2, <1>17 DEF ConsumerAck, producer
    <2>2. work[r].observed = ready[WorkSlot(r)].sequence
      BY <2>1 DEF GenerationInv
    <2>3. \A s \in Slots : \/ s = WorkSlot(r) /\ last_ready_sequence'[r][s] = ready[s].sequence
                                             /\ ack_sequence'[r][s] = ready[s].sequence
                           \/ /\ last_ready_sequence'[r][s] = last_ready_sequence[r][s]
                              /\ ack_sequence'[r][s] = ack_sequence[r][s]
      BY <1>1, <1>17, <2>2 DEF ConsumerAck
    <2>4. \A s \in Slots : ready[s].sequence \in Nat
      BY <1>2
    <2> QED BY <1>11, <2>1, <2>3, <2>4 DEF GenerationInv, Running, Consuming, NewGeneration, Matches, WorkSlot
  <1>18. \A r \in Ranks : pc[r] \in {"prod_write", "prod_ready"} => r = 0
    BY DEF RolesInv, RankZeroPcs, Producing
  <1> QED
    BY <1>3, <1>4, <1>5, <1>6, <1>7, <1>8, <1>9, <1>10, <1>14, <1>15, <1>16, <1>17, <1>18
    DEF Next, PublisherStep, Call, CallerStep, ConsumerStep, WriterReturn, ProducerPublish

\* A copy in flight keeps its slot unacknowledged, even when the thread that started
\* it is gone and another one has been constructed in its place.
LEMMA DmaStep ==
    ASSUME TypeOK, PublisherInv, RolesInv, EpochInv, LayerInv, CallerInv, ConsumerInv, SlotInv, GenerationInv,
           DmaInv, Next
    PROVE  DmaInv'
  <1> DEFINE Cells == <<ready, active_epoch, expert_count, join_epoch, consumer_done_epoch, ack_sequence>>
             Quiet == /\ UNCHANGED <<Cells, last_ready_sequence>>
                      /\ \A q \in Ranks : dma'[q] \subseteq dma[q]
                      /\ \A q \in Ranks :
                            \/ cpc'[q] = cpc[q] /\ work'[q] = work[q]
                            \/ ~Running(q)'
                            \/ /\ Running(q) /\ cpc[q] # "copying"
                               /\ cpc'[q] \in Consuming =>
                                     \/ work'[q].expert = 0
                                     \/ cpc[q] \in Consuming /\ work'[q].expert = work[q].expert
  <1>1. /\ cpc \in [Ranks -> ConsumerPcs] /\ dma \in [Ranks -> SUBSET Experts] /\ active_epoch \in Nat
        /\ consumer_done_epoch \in [Ranks -> Nat] /\ join_epoch \in [Ranks -> Nat] /\ expert \in 0 .. NumExperts
    BY DEF TypeOK
  <1>2. /\ work \in [Ranks -> [epoch : Nat, count : 0 .. NumExperts, expert : 0 .. NumExperts, observed : Nat]]
        /\ ready \in [Slots -> [sequence : Nat, epoch : Nat, expert : Nat]]
    BY DEF TypeOK
  <1>3. last_ready_sequence \in [Ranks -> [Slots -> Nat]] /\ ack_sequence \in [Ranks -> [Slots -> Nat]]
    BY DEF TypeOK
  <1>4. ASSUME FillPoison \/ ReleasePoison PROVE Quiet
    BY <1>1, <1>2, <1>4
       DEF FillPoison, ReleasePoison, NoPublisher, Running, Consuming, layer, producer, ranks, buffers,
           consumer, PublisherInv
  <1>5. ASSUME NEW r \in Ranks, Refused(r) \/ WaitReturn(r) \/ ConstructReturn(r) \/ JoinCheck(r) \/
               WaitStats(r) \/ CallerWaitFails(r) \/ Diagnose(r)
        PROVE  Quiet
    BY <1>1, <1>2, <1>5
       DEF Refused, CallerGoes, WaitReturn, CallEnds, NoCall, ConstructReturn, JoinCheck, WaitOver,
           WaitPredicate, NoWait, CallerPoisons, ClaimPoison, WaitStats, CallerWaitFails, CallerWaits,
           Diagnose, Incomplete, Running, Consuming, layer, producer, ranks, buffers, consumer
  <1>6. ASSUME NEW r \in Ranks, NEW c \in ClientCalls, Join(r, c) \/ RunProducer(r, c) \/ Wait(r, c)
        PROVE  Quiet
    BY <1>1, <1>2, <1>6
       DEF Join, Enters, MayJoin, CallerPoisons, ClaimPoison, ClientCalls, NoCall, RunProducer, MayProduce,
           Wait, MayWait, Running, Consuming, layer, producer, ranks, buffers, consumer
  <1>7. ASSUME NEW r \in Ranks, ProducerStart(r) \/ WriterStart(r) \/ WriterThrows(r) \/ ProducerDone(r)
        PROVE  Quiet
    BY <1>1, <1>2, <1>7
       DEF ProducerStart, WaitOver, WaitPredicate, NoWait, CallerGoes, WriterStart, AckedByAll, Junk,
           Bytes, WriterThrows, CallerPoisons, ClaimPoison, NoCall, ProducerDone, CallEnds, Running,
           Consuming, layer, producer, ranks, buffers, consumer
  <1>8. ASSUME NEW r \in Ranks, ConsumerInit(r) \/ ConsumerInitFails(r) \/ ConsumerScan(r)
        PROVE  Quiet
    BY <1>1, <1>2, <1>8
       DEF ConsumerInit, ConsumerInitFails, ConsumerExits, ConsumerFails, ClaimPoison, NoWork,
           ConsumerScan, LayerPending, Running, Consuming, layer, producer, ranks, buffers, consumer
  <1>9. ASSUME NEW r \in Ranks, ConsumerPeek(r)
        PROVE  Quiet
    BY <1>1, <1>2, <1>9
       DEF ConsumerPeek, ConsumerFails, ClaimPoison, NoWork, NewGeneration, WorkSlot, Running, Consuming,
           layer, producer, ranks, buffers, consumer
  <1>10. ASSUME NEW r \in Ranks, ConsumerWaitFails(r) \/ CopyFails(r)
        PROVE  Quiet
    <2>1. /\ UNCHANGED <<Cells, last_ready_sequence>>
          /\ dma' \in {dma, [dma EXCEPT ![r] = @ \ {work[r].expert}]}
      BY <1>10 DEF ConsumerWaitFails, CopyFails, layer, producer, ranks, buffers
    <2>2. work' = [work EXCEPT ![r] = NoWork] /\ \E p \in {"poisoning", "exited"} : cpc' = [cpc EXCEPT ![r] = p]
      BY <1>10 DEF ConsumerWaitFails, CopyFails, ConsumerExits, ConsumerFails
    <2> QED BY <1>1, <1>2, <2>1, <2>2 DEF Running, Consuming
  <1>11. ASSUME NEW r \in Ranks, Close(r) \/ CloseReturn(r) \/ Crash(r)
        PROVE  Quiet
    BY <1>1, <1>2, <1>11
       DEF Close, ClaimPoison, CloseReturn, Crash, Running, Consuming, layer, producer, ranks, buffers,
           consumer
  <1>12. ASSUME NEW r \in Ranks, NEW x \in Experts, DmaComplete(r, x)
        PROVE  Quiet
    BY <1>1, <1>2, <1>12
       DEF DmaComplete, Running, Consuming, layer, producer, ranks, buffers, consumer
  <1>13. 0 \in Ranks /\ Slot(expert) \in Slots /\ \A r \in Ranks : WorkSlot(r) \in Slots
    BY <1>1, <1>2, SlotFacts, ExpertsAssumption DEF WorkSlot
  <1>14. \A x \in Experts : x \in Nat /\ Slot(x) \in Slots /\ Slot(x) <= x
    BY SlotFacts DEF Experts
  <1>15. \A s \in Slots : s \in Nat
    BY DEF Slots
  <1>16. ASSUME Quiet PROVE DmaInv'
    <2> SUFFICES ASSUME NEW r \in Ranks, NEW x \in dma'[r]
                 PROVE  (/\ ready[Slot(x)].epoch = active_epoch /\ ready[Slot(x)].expert = x
                         /\ join_epoch[r] = active_epoch /\ x < expert_count
                         /\ consumer_done_epoch[r] < active_epoch
                         /\ ack_sequence[r][Slot(x)] # ready[Slot(x)].sequence
                         /\ (cpc[r] = "copying" /\ work[r].expert = x) \/ Stuck(r, Slot(x)))'
      BY DEF DmaInv
    <2>1. x \in dma[r] /\ Slot(x) \in Slots /\ Slot(x) \in Nat
      BY <1>1, <1>14, <1>15, <1>16
    <2>2. (cpc[r] = "copying" /\ work[r].expert = x) \/ Stuck(r, Slot(x))
      BY <2>1 DEF DmaInv
    <2>3. ((cpc[r] = "copying" /\ work[r].expert = x) \/ Stuck(r, Slot(x)))'
      BY <1>16, <2>1, <2>2 DEF Stuck, Running
    <2> QED BY <1>16, <2>1, <2>3 DEF DmaInv
  \* Rank zero changes the layer only when no copy is in flight.
  <1>17. ASSUME NEW r \in Ranks, JoinStore(r) \/ JoinActivate(r) PROVE DmaInv'
    <2>1. r = 0 /\ UNCHANGED dma
      BY <1>17 DEF JoinStore, JoinActivate, RolesInv, RankZeroPcs, buffers
    <2>2. active_epoch = 0 \/ \A q \in Ranks : wait_returned_epoch[q] >= active_epoch
      <3>1. CASE JoinStore(r)
        BY <3>1 DEF JoinStore, WaitOver, NoWait, WaitPredicate, FenceOpen, Loaded
      <3>2. CASE JoinActivate(r)
        <4>1. \A q \in Ranks : wait_returned_epoch[q] = active_epoch
          BY <2>1, <3>2 DEF JoinActivate, LayerInv, AllReturned
        <4> QED BY <1>1, <4>1
      <3> QED BY <1>17, <3>1, <3>2
    <2>3. \A q \in Ranks : wait_returned_epoch[q] <= consumer_done_epoch[q] /\ wait_returned_epoch[q] \in Nat
      BY DEF EpochInv, TypeOK
    <2>4. \A q \in Ranks : ~(consumer_done_epoch[q] < active_epoch)
      BY <1>1, <2>2, <2>3
    <2>5. \A q \in Ranks : dma[q] = {}
      BY <2>4 DEF DmaInv
    <2> QED BY <2>1, <2>5 DEF DmaInv
  <1>18. ASSUME NEW r \in Ranks, JoinPublish(r) PROVE DmaInv'
    <2>1. /\ UNCHANGED <<ready, active_epoch, expert_count, consumer_done_epoch, ack_sequence, last_ready_sequence, cpc, work, dma>>
          /\ pc[r] = "join_publish" /\ join_epoch' = [join_epoch EXCEPT ![r] = call[r].epoch]
      BY <1>18 DEF JoinPublish, layer, producer, buffers, consumer
    <2>2. join_epoch[r] # call[r].epoch => call[r].epoch = active_epoch
      BY <2>1 DEF CallerInv, Current
    <2>3. \A q \in Ranks : join_epoch[q] = active_epoch => join_epoch'[q] = active_epoch
      BY <1>1, <2>1, <2>2
    <2> QED BY <2>1, <2>3 DEF DmaInv, Stuck, Running
  \* Rank zero changes a slot only when no copy out of it is in flight.
  <1>19. ASSUME WriterReturn(0) \/ ProducerPublish(0) PROVE DmaInv'
    <2>1. /\ pc[0] \in {"prod_write", "prod_ready"}
          /\ UNCHANGED <<active_epoch, expert_count, join_epoch, consumer_done_epoch, ack_sequence, last_ready_sequence, cpc, work, dma>>
          /\ \A s \in Slots : s # Slot(expert) => ready'[s] = ready[s]
      BY <1>2, <1>13, <1>19 DEF WriterReturn, ProducerPublish, layer, ranks, buffers, consumer
    <2>2. \A r \in Ranks : ack_sequence[r][Slot(expert)] = ready[Slot(expert)].sequence
      BY <2>1 DEF SlotInv, Drained
    <2>3. \A r \in Ranks : \A x \in dma[r] : Slot(x) # Slot(expert) /\ Slot(x) \in Slots
      BY <1>1, <1>14, <2>2 DEF DmaInv
    <2>4. \A r \in Ranks : \A x \in dma[r] : ready'[Slot(x)] = ready[Slot(x)]
      BY <2>1, <2>3
    <2> QED BY <2>1, <2>4 DEF DmaInv, Stuck, Running
  \* A consumer that is started anew has seen what is in the slots.
  <1>20. ASSUME NEW r \in Ranks, Construct(r) PROVE DmaInv'
    <2>1. /\ UNCHANGED <<Cells, dma, work>> /\ cpc'[r] = "init"
          /\ \A s \in Slots : last_ready_sequence'[r][s] = ready[s].sequence
          /\ \A q \in Ranks : q # r => cpc'[q] = cpc[q] /\ last_ready_sequence'[q] = last_ready_sequence[q]
      BY <1>1, <1>3, <1>20 DEF Construct, layer, producer, ranks, buffers, ReadySequences
    <2>2. \A x \in dma[r] : Slot(x) \in Slots
      BY <1>1, <1>14
    <2>3. \A x \in dma[r] : Stuck(r, Slot(x))'
      BY <2>1, <2>2 DEF Stuck, Consuming
    <2> QED BY <2>1, <2>3 DEF DmaInv, Stuck, Running
  <1>21. ASSUME NEW r \in Ranks, ConsumerCopy(r) PROVE DmaInv'
    <2>1. /\ UNCHANGED <<Cells, last_ready_sequence>> /\ cpc[r] = "match"
          /\ \A q \in Ranks : q # r => cpc'[q] = cpc[q] /\ work'[q] = work[q] /\ dma'[q] = dma[q]
      BY <1>1, <1>2, <1>21 DEF ConsumerCopy, ConsumerExits, layer, producer, ranks
    <2>2. CASE cpc'[r] # "copying"
      <3>1. dma' = dma /\ (~Running(r)' \/ (cpc'[r] = "wait_ready" /\ work' = work))
        BY <1>1, <1>2, <1>21, <2>2 DEF ConsumerCopy, ConsumerExits, Running, Consuming
      <3> QED BY <1>16, <2>1, <3>1 DEF Running, Consuming
    <2>3. CASE cpc'[r] = "copying"
      <3>1. /\ dma'[r] = dma[r] \cup {work[r].expert} /\ work' = work /\ Matches(r)
        BY <1>1, <1>2, <1>21, <2>3 DEF ConsumerCopy, ConsumerExits
      <3>2. \A x \in dma[r] : Stuck(r, Slot(x)) /\ Stuck(r, Slot(x))'
        BY <2>1, <2>3, <3>1 DEF DmaInv, Stuck, Running, Consuming
      <3>3. ack_sequence[r][WorkSlot(r)] # ready[WorkSlot(r)].sequence
        <4>1. /\ ready[WorkSlot(r)].sequence # last_ready_sequence[r][WorkSlot(r)]
              /\ ack_sequence[r][WorkSlot(r)] <= last_ready_sequence[r][WorkSlot(r)]
              /\ last_ready_sequence[r][WorkSlot(r)] <= ready[WorkSlot(r)].sequence
          BY <1>13, <2>1 DEF GenerationInv, NewGeneration, Running, Consuming
        <4>2. ready[WorkSlot(r)].sequence \in Nat /\ last_ready_sequence[r][WorkSlot(r)] \in Nat
          BY <1>2, <1>3, <1>13
        <4> QED BY <4>1, <4>2
      <3>4. /\ work[r].epoch = active_epoch /\ join_epoch[r] = active_epoch /\ work[r].expert < expert_count
            /\ consumer_done_epoch[r] < active_epoch
        BY <2>1 DEF ConsumerInv, Consuming
      <3> QED BY <2>1, <2>3, <3>1, <3>2, <3>3, <3>4 DEF DmaInv, Matches, WorkSlot, Stuck, Running
    <2> QED BY <2>2, <2>3
  \* A consumer that gets on is not past a slot a copy was left in.
  <1>22. ASSUME NEW r \in Ranks, ConsumerAck(r) PROVE DmaInv'
    <2>1. /\ UNCHANGED <<ready, active_epoch, expert_count, join_epoch, consumer_done_epoch, dma>>
          /\ cpc[r] = "copying" /\ cpc'[r] \in {"wait_ready", "finish"} /\ work[r].expert \notin dma[r]
          /\ work'[r].expert = work[r].expert + 1
          /\ \A q \in Ranks : q # r => /\ cpc'[q] = cpc[q] /\ work'[q] = work[q]
                                      /\ last_ready_sequence'[q] = last_ready_sequence[q]
                                      /\ ack_sequence'[q] = ack_sequence[q]
          /\ \A s \in Slots : s # WorkSlot(r) => /\ last_ready_sequence'[r][s] = last_ready_sequence[r][s]
                                                 /\ ack_sequence'[r][s] = ack_sequence[r][s]
      BY <1>1, <1>2, <1>3, <1>22 DEF ConsumerAck, layer, producer, buffers, CopyComplete
    <2>2. ASSUME NEW x \in dma[r] PROVE Slot(x) \in Slots /\ Slot(x) # WorkSlot(r) /\ work[r].expert < Slot(x)
      <3>1. Slot(x) \in Slots /\ Slot(x) \in Nat /\ work[r].expert \in Nat
        BY <1>1, <1>2, <1>14, <1>15, ExpertsAssumption
      <3>2. Stuck(r, Slot(x))
        BY <2>1 DEF DmaInv
      <3>3. last_ready_sequence[r][Slot(x)] = ready[Slot(x)].sequence /\ work[r].expert <= Slot(x)
        BY <2>1, <3>2 DEF Stuck, Running, Consuming
      <3>4. Slot(x) # WorkSlot(r)
        BY <2>1, <3>3 DEF GenerationInv, NewGeneration
      <3>5. work[r].expert # Slot(x)
        BY <3>1, <3>4, SlotFacts DEF WorkSlot
      <3> QED BY <3>1, <3>3, <3>4, <3>5
    <2>3. \A x \in dma[r] : Stuck(r, Slot(x)) /\ Stuck(r, Slot(x))'
      <3> SUFFICES ASSUME NEW x \in dma[r] PROVE Stuck(r, Slot(x)) /\ Stuck(r, Slot(x))'
        OBVIOUS
      <3>1. Stuck(r, Slot(x))
        BY <2>1 DEF DmaInv
      <3>2. work'[r].expert <= Slot(x)
        BY <1>2, <1>15, <2>1, <2>2, ExpertsAssumption
      <3> QED BY <2>1, <2>2, <3>1, <3>2 DEF Stuck, Running, Consuming
    <2> QED BY <2>1, <2>2, <2>3 DEF DmaInv, Stuck, Running
  <1>23. ASSUME NEW r \in Ranks, ConsumerFinish(r) PROVE DmaInv'
    <2>1. /\ UNCHANGED <<ready, active_epoch, expert_count, join_epoch, ack_sequence, dma, last_ready_sequence>>
          /\ cpc[r] = "finish"
          /\ \A q \in Ranks : q # r => /\ cpc'[q] = cpc[q] /\ work'[q] = work[q]
                                      /\ consumer_done_epoch'[q] = consumer_done_epoch[q]
      BY <1>1, <1>2, <1>23 DEF ConsumerFinish, layer, producer, buffers
    <2>2. work[r].expert = expert_count
      BY <2>1 DEF ConsumerInv, Consuming
    <2>3. ASSUME NEW x \in dma[r] PROVE FALSE
      <3>1. x < expert_count /\ Stuck(r, Slot(x))
        BY <2>1 DEF DmaInv
      <3>2. work[r].expert <= Slot(x)
        BY <2>1, <3>1 DEF Stuck, Running, Consuming
      <3>3. x \in Nat /\ Slot(x) \in Nat /\ Slot(x) <= x /\ work[r].expert \in Nat
        BY <1>1, <1>2, <1>14, <1>15, ExpertsAssumption
      <3> QED BY <2>2, <3>1, <3>2, <3>3
    <2> QED BY <2>1, <2>3 DEF DmaInv, Stuck, Running
  <1>24. \A r \in Ranks : pc[r] \in {"prod_write", "prod_ready"} => r = 0
    BY DEF RolesInv, RankZeroPcs, Producing
  <1> QED
    BY <1>4, <1>5, <1>6, <1>7, <1>8, <1>9, <1>10, <1>11, <1>12, <1>16, <1>17, <1>18, <1>19, <1>20, <1>21, <1>22,
       <1>23, <1>24
    DEF Next, PublisherStep, Call, CallerStep, ConsumerStep, WriterReturn, ProducerPublish

\* A step leaves a rank's GPU with the experts its consumer has acknowledged.
LEMMA GpuStep ==
    ASSUME TypeOK, PublisherInv, EpochInv, LayerInv, CallerInv, ConsumerInv, SlotInv, DmaInv, GpuInv, Next
    PROVE  GpuInv'
  <1> DEFINE Quiet == /\ UNCHANGED <<gpu, join_epoch, consumer_done_epoch, joined>>
                      /\ \A q \in Ranks :
                            \/ cpc'[q] = cpc[q] /\ work'[q] = work[q] /\ dma'[q] = dma[q]
                            \/ cpc'[q] \notin Consuming
                            \/ /\ cpc'[q] # "copying"
                               /\ \/ work'[q].expert = 0
                                  \/ cpc[q] \in Consuming /\ work'[q].expert = work[q].expert
  <1>1. /\ cpc \in [Ranks -> ConsumerPcs] /\ dma \in [Ranks -> SUBSET Experts] /\ active_epoch \in Nat
        /\ consumer_done_epoch \in [Ranks -> Nat] /\ join_epoch \in [Ranks -> Nat]
    BY DEF TypeOK
  <1>2. /\ work \in [Ranks -> [epoch : Nat, count : 0 .. NumExperts, expert : 0 .. NumExperts, observed : Nat]]
        /\ gpu \in [Ranks -> [Experts -> AllBytes]]
    BY DEF TypeOK
  <1>3. \A x \in Experts : x \in Nat /\ Slot(x) \in Slots
    BY SlotFacts DEF Experts
  <1>4. ASSUME FillPoison \/ ReleasePoison PROVE Quiet
    BY <1>1, <1>2, <1>4
       DEF FillPoison, ReleasePoison, NoPublisher, Consuming, layer, producer, ranks, buffers, caller,
           consumer, PublisherInv
  <1>5. ASSUME NEW r \in Ranks, Refused(r) \/ Construct(r) \/ JoinStore(r) \/ JoinActivate(r) \/
               WaitReturn(r) \/ ConstructReturn(r) \/ JoinCheck(r) \/ WaitStats(r) \/ CallerWaitFails(r) \/
               Diagnose(r)
        PROVE  Quiet
    BY <1>1, <1>2, <1>5
       DEF Refused, CallerGoes, Construct, JoinStore, WaitOver, WaitPredicate, NoWait, JoinActivate,
           WaitReturn, CallEnds, NoCall, ConstructReturn, JoinCheck, CallerPoisons, ClaimPoison, WaitStats,
           CallerWaitFails, CallerWaits, Diagnose, Incomplete, Consuming, layer, producer, ranks, buffers,
           caller, consumer
  <1>6. ASSUME NEW r \in Ranks, NEW c \in ClientCalls, Join(r, c) \/ RunProducer(r, c) \/ Wait(r, c)
        PROVE  Quiet
    BY <1>1, <1>2, <1>6
       DEF Join, Enters, MayJoin, CallerPoisons, ClaimPoison, ClientCalls, NoCall, RunProducer, MayProduce,
           Wait, MayWait, Consuming, layer, producer, ranks, buffers, caller, consumer
  <1>7. ASSUME NEW r \in Ranks, ProducerStart(r) \/ WriterStart(r) \/ WriterReturn(r) \/ WriterThrows(r) \/
               ProducerPublish(r) \/ ProducerDone(r)
        PROVE  Quiet
    BY <1>1, <1>2, <1>7
       DEF ProducerStart, WaitOver, WaitPredicate, NoWait, CallerGoes, WriterStart, AckedByAll, Junk,
           Bytes, WriterReturn, WriterThrows, CallerPoisons, ClaimPoison, NoCall, ProducerPublish,
           ProducerDone, CallEnds, Consuming, layer, producer, ranks, buffers, caller, consumer
  <1>8. ASSUME NEW r \in Ranks, ConsumerInit(r) \/ ConsumerInitFails(r) \/ ConsumerScan(r)
        PROVE  Quiet
    BY <1>1, <1>2, <1>8
       DEF ConsumerInit, ConsumerInitFails, ConsumerExits, ConsumerFails, ClaimPoison, NoWork,
           ConsumerScan, LayerPending, Consuming, layer, producer, ranks, buffers, caller, consumer
  <1>9. ASSUME NEW r \in Ranks, ConsumerPeek(r)
        PROVE  Quiet
    BY <1>1, <1>2, <1>9
       DEF ConsumerPeek, ConsumerFails, ClaimPoison, NoWork, NewGeneration, WorkSlot, Consuming, layer,
           producer, ranks, buffers, caller, consumer
  <1>10. ASSUME NEW r \in Ranks, ConsumerWaitFails(r) \/ CopyFails(r)
        PROVE  Quiet
    BY <1>1, <1>2, <1>10
       DEF ConsumerWaitFails, ConsumerExits, ConsumerFails, ClaimPoison, NoWork,
           CopyFails, Consuming, layer, producer, ranks, buffers, caller, consumer
  <1>11. ASSUME NEW r \in Ranks, Close(r) \/ CloseReturn(r) \/ Crash(r)
        PROVE  Quiet
    BY <1>1, <1>2, <1>11
       DEF Close, ClaimPoison, CloseReturn, Crash, Consuming, layer, producer, ranks, buffers, caller,
           consumer
  <1>12. ASSUME Quiet PROVE GpuInv'
    BY <1>3, <1>12 DEF GpuInv, Holds, Consuming
  \* The copy that ends brings the bytes of the expert in its slot.
  <1>13. ASSUME NEW r \in Ranks, NEW x \in Experts, DmaComplete(r, x) PROVE GpuInv'
    <2>1. /\ UNCHANGED <<cpc, work, join_epoch, consumer_done_epoch, joined>> /\ x \in dma[r]
          /\ \A q \in Ranks : q # r => gpu'[q] = gpu[q] /\ dma'[q] = dma[q]
          /\ dma'[r] = dma[r] \ {x} /\ gpu'[r][x] = host[Slot(x)]
          /\ \A y \in Experts : y # x => gpu'[r][y] = gpu[r][y]
      BY <1>1, <1>2, <1>13 DEF DmaComplete, ranks, caller, consumer
    <2>2. /\ ready[Slot(x)].epoch = join_epoch[r] /\ ready[Slot(x)].expert = x
          /\ ack_sequence[r][Slot(x)] # ready[Slot(x)].sequence
      BY <2>1 DEF DmaInv
    <2>3. host[Slot(x)] = Bytes(join_epoch[r], x)
      BY <1>3, <2>2 DEF SlotInv, Drained
    <2>4. Holds(r, x)' /\ \A q \in Ranks, y \in Experts : Holds(q, y) => Holds(q, y)'
      BY <2>1, <2>3 DEF Holds
    <2>5. cpc[r] = "copying" => work[r].expert \in Experts
      <3>1. cpc[r] = "copying" => work[r].expert < work[r].count
        BY DEF ConsumerInv, Consuming
      <3>2. work[r].expert \in 0 .. NumExperts /\ work[r].count \in 0 .. NumExperts
        BY <1>2
      <3> QED BY <3>1, <3>2, ExpertsAssumption DEF Experts
    <2>6. cpc[r] = "copying" => work[r].expert \in dma'[r] \/ Holds(r, work[r].expert)'
      BY <2>1, <2>4, <2>5 DEF GpuInv
    <2>7. \A q \in Ranks : q # r /\ cpc[q] = "copying" => work[q].expert \in dma'[q] \/ Holds(q, work[q].expert)'
      BY <2>1 DEF GpuInv, Holds
    <2> QED BY <2>1, <2>4, <2>6, <2>7 DEF GpuInv
  <1>14. ASSUME NEW r \in Ranks, JoinPublish(r) PROVE GpuInv'
    <2>1. /\ UNCHANGED <<gpu, cpc, work, dma, consumer_done_epoch>> /\ pc[r] = "join_publish"
          /\ join_epoch' = [join_epoch EXCEPT ![r] = call[r].epoch]
          /\ joined' = IF join_epoch[r] = call[r].epoch THEN joined ELSE [joined EXCEPT ![r] = call[r]]
      BY <1>14 DEF JoinPublish, buffers, consumer
    <2>2. CASE join_epoch[r] = call[r].epoch
      BY <1>1, <2>1, <2>2 DEF GpuInv, Holds
    <2>3. CASE join_epoch[r] # call[r].epoch
      <3>1. call[r].epoch = active_epoch
        BY <2>1, <2>3 DEF CallerInv, Current
      <3>2. cpc[r] \notin Consuming
        BY <2>3, <3>1 DEF ConsumerInv
      <3>3. consumer_done_epoch[r] <= join_epoch[r] /\ join_epoch[r] <= active_epoch
        BY DEF EpochInv
      <3>4. consumer_done_epoch[r] # active_epoch
        BY <1>1, <2>3, <3>1, <3>3
      <3>5. joined \in [Ranks -> Calls]
        BY DEF TypeOK
      <3>6. /\ join_epoch'[r] = active_epoch
            /\ \A q \in Ranks : q # r => join_epoch'[q] = join_epoch[q] /\ joined'[q] = joined[q]
        BY <1>1, <2>1, <2>3, <3>1, <3>5
      <3> QED BY <2>1, <3>2, <3>4, <3>6 DEF GpuInv, Holds, Consuming
    <2> QED BY <2>2, <2>3
  <1>15. ASSUME NEW r \in Ranks, ConsumerCopy(r) PROVE GpuInv'
    <2>1. /\ UNCHANGED <<gpu, join_epoch, consumer_done_epoch, joined>> /\ cpc[r] = "match"
          /\ \A q \in Ranks : q # r => cpc'[q] = cpc[q] /\ work'[q] = work[q] /\ dma'[q] = dma[q]
          /\ \/ cpc'[r] \notin Consuming
             \/ /\ cpc'[r] \in Consuming /\ work'[r] = work[r]
                /\ cpc'[r] = "copying" => work[r].expert \in dma'[r]
      BY <1>1, <1>2, <1>15 DEF ConsumerCopy, ConsumerExits, ranks, caller, Consuming
    <2> QED BY <2>1 DEF GpuInv, Holds, Consuming
  <1>16. ASSUME NEW r \in Ranks, ConsumerAck(r) PROVE GpuInv'
    <2>1. /\ UNCHANGED <<gpu, dma, join_epoch, consumer_done_epoch, joined>> /\ cpc[r] = "copying"
          /\ cpc'[r] \in {"wait_ready", "finish"} /\ work[r].expert \notin dma[r]
          /\ work'[r].expert = work[r].expert + 1
          /\ \A q \in Ranks : q # r => cpc'[q] = cpc[q] /\ work'[q] = work[q]
      BY <1>1, <1>2, <1>16 DEF ConsumerAck, buffers, caller, CopyComplete
    <2>2. Holds(r, work[r].expert) /\ \A x \in Experts : x < work[r].expert => Holds(r, x)
      BY <2>1 DEF GpuInv, Consuming
    <2>3. \A x \in Experts : x < work'[r].expert => Holds(r, x)
      <3>1. work[r].expert \in Nat
        BY <1>2, ExpertsAssumption
      <3>2. \A x \in Experts : x < work[r].expert + 1 => x < work[r].expert \/ x = work[r].expert
        BY <1>3, <3>1
      <3> QED BY <2>1, <2>2, <3>2
    <2> QED BY <2>1, <2>3 DEF GpuInv, Holds, Consuming
  <1>17. ASSUME NEW r \in Ranks, ConsumerFinish(r) PROVE GpuInv'
    <2>1. /\ UNCHANGED <<gpu, dma, join_epoch, joined>> /\ cpc[r] = "finish" /\ cpc'[r] = "scan"
          /\ \A q \in Ranks : q # r => /\ cpc'[q] = cpc[q] /\ work'[q] = work[q]
                                      /\ consumer_done_epoch'[q] = consumer_done_epoch[q]
      BY <1>1, <1>2, <1>17 DEF ConsumerFinish, buffers, caller
    <2>2. /\ join_epoch[r] = active_epoch /\ work[r].expert = expert_count
          /\ consumer_done_epoch[r] < active_epoch
      BY <2>1 DEF ConsumerInv, Consuming
    <2>3. pc[0] # "join_activate"
      <3>1. wait_returned_epoch[r] \in Nat /\ wait_returned_epoch[r] <= consumer_done_epoch[r]
        BY DEF TypeOK, EpochInv
      <3>2. wait_returned_epoch[r] # active_epoch
        BY <1>1, <2>2, <3>1
      <3> QED BY <3>2 DEF LayerInv, AllReturned
    <2>4. active_epoch # 0
      BY <1>1, <2>2
    <2>5. joined[r].count = expert_count
      BY <2>2, <2>3, <2>4 DEF LayerInv, Current
    <2>6. \A x \in Experts : x < joined[r].count => Holds(r, x)
      BY <2>1, <2>2, <2>5 DEF GpuInv, Consuming
    <2> QED BY <2>1, <2>6 DEF GpuInv, Holds, Consuming
  <1> QED
    BY <1>4, <1>5, <1>6, <1>7, <1>8, <1>9, <1>10, <1>11, <1>12, <1>13, <1>14, <1>15, <1>16, <1>17
    DEF Next, PublisherStep, Call, CallerStep, ConsumerStep

-----------------------------------------------------------------------------
(* The theorems.                                                           *)

\* The region as initialize_fp8_layerwise_control leaves it, with no transport yet.
LEMMA InvInit == Init => TransportInv
  <1> SUFFICES ASSUME Init PROVE TransportInv
    OBVIOUS
  <1>1. TypeOK
    BY TypeInit
  <1>2. LifeInv /\ PublisherInv /\ RolesInv
    BY SlotFacts
       DEF Init, LifeInv, PublisherInv, ReportsFirstFailure, NoPublisher, NoReport, Incomplete, RolesInv,
           RankZeroPcs, Producing, Healthy
  <1>3. EpochInv
    BY DEF Init, EpochInv, NoCall
  <1>4. LayerInv /\ CallerInv /\ ConsumerInv
    BY SlotFacts DEF Init, LayerInv, CallerInv, ConsumerInv, Producing, Consuming
  <1>5. SlotInv
    BY SlotFacts DEF Init, SlotInv, Drained, Producing
  <1>6. GenerationInv /\ DmaInv /\ GpuInv
    BY DEF Init, GenerationInv, DmaInv, GpuInv, Running, Consuming
  <1> QED BY <1>1, <1>2, <1>3, <1>4, <1>5, <1>6 DEF TransportInv

\* Every step of any thread of any rank, and every completion of a copy.
LEMMA InvStep ==
    ASSUME TransportInv, [Next]_vars
    PROVE  TransportInv'
  <1>1. CASE Next
    <2>1. TypeOK' /\ LifeInv' /\ PublisherInv' /\ RolesInv' /\ EpochInv' /\ LayerInv'
      BY <1>1, TypeStep, LifeStep, PublisherInvStep, RolesStep, EpochStep, LayerStep DEF TransportInv
    <2>2. CallerInv' /\ ConsumerInv' /\ SlotInv' /\ GenerationInv' /\ DmaInv' /\ GpuInv'
      BY <1>1, CallerInvStep, ConsumerInvStep, SlotStep, GenerationStep, DmaStep, GpuStep DEF TransportInv
    <2> QED BY <2>1, <2>2 DEF TransportInv
  <1>2. CASE UNCHANGED vars
    <2> USE <1>2 DEF vars, poison, layer, producer, ranks, buffers, caller, consumer, process
    <2>1. TypeOK'
      BY DEF TransportInv, TypeOK
    <2>2. LifeInv' /\ PublisherInv' /\ RolesInv'
      BY DEF TransportInv, LifeInv, PublisherInv, ReportsFirstFailure, RolesInv, Healthy
    <2>3. EpochInv' /\ LayerInv'
      BY DEF TransportInv, EpochInv, LayerInv, Current, AllReturned
    <2>4. CallerInv' /\ ConsumerInv'
      BY DEF TransportInv, CallerInv, ConsumerInv, Current
    <2>5. SlotInv' /\ GenerationInv'
      BY DEF TransportInv, SlotInv, Drained, Healthy, GenerationInv, Running, NewGeneration, Matches, WorkSlot
    <2>6. DmaInv' /\ GpuInv'
      BY DEF TransportInv, DmaInv, Stuck, Running, GpuInv, Holds
    <2> QED BY <2>1, <2>2, <2>3, <2>4, <2>5, <2>6 DEF TransportInv
  <1> QED BY <1>1, <1>2

\* The invariant holds for any number of ranks, host slots and experts, for clients
\* that call join, run_producer and wait in any order, and whatever fails.
THEOREM Invariance == Spec => []TransportInv
  <1>1. Init => TransportInv
    BY InvInit
  <1>2. TransportInv /\ [Next]_vars => TransportInv'
    BY InvStep
  <1> QED BY <1>1, <1>2, PTL DEF Spec

\* Every cell and local stays in its type; in particular no expert index leaves
\* 0 .. num_experts, which copy_expert relies on.
THEOREM TypeCorrect == Spec => []TypeOK
  <1>1. TransportInv => TypeOK
    BY DEF TransportInv
  <1> QED BY <1>1, Invariance, PTL

\* A slot is not acknowledged while a copy out of it is in flight, so rank zero does
\* not overwrite it: wait_for_slot_ack and copy_expert keep copies untorn.
THEOREM CopiesAreWhole == Spec => []NoTornCopy
  <1>1. TransportInv => NoTornCopy
    <2> SUFFICES ASSUME TransportInv, NEW r \in Ranks, NEW x \in dma[r]
                 PROVE  host[Slot(x)] = Bytes(joined[r].epoch, x)
      BY DEF NoTornCopy
    <2>1. x \in Nat /\ Slot(x) \in Slots
      BY SlotFacts, ExpertsAssumption DEF TransportInv, TypeOK, Experts
    <2>2. /\ ready[Slot(x)].epoch = active_epoch /\ ready[Slot(x)].expert = x
          /\ join_epoch[r] = active_epoch
          /\ ack_sequence[r][Slot(x)] # ready[Slot(x)].sequence
      BY DEF TransportInv, DmaInv
    <2>3. ~Drained(Slot(x))
      BY <2>2 DEF Drained
    <2>4. host[Slot(x)] = Bytes(ready[Slot(x)].epoch, ready[Slot(x)].expert)
      BY <2>1, <2>3 DEF TransportInv, SlotInv
    <2>5. joined[r].epoch = join_epoch[r]
      BY DEF TransportInv, EpochInv
    <2> QED BY <2>2, <2>4, <2>5
  <1> QED BY <1>1, Invariance, PTL

\* When wait(epoch) has returned, the rank's GPU holds the whole layer it joined.
THEOREM WaitMeansLoaded == Spec => []LayerOnGpu
  <1>1. TransportInv => LayerOnGpu
    <2> SUFFICES ASSUME TransportInv, NEW r \in Ranks, join_epoch[r] # 0,
                        wait_returned_epoch[r] = join_epoch[r], NEW x \in Experts, x < joined[r].count
                 PROVE  gpu[r][x] = Bytes(join_epoch[r], x)
      BY DEF LayerOnGpu
    <2>1. join_epoch[r] \in Nat /\ consumer_done_epoch[r] \in Nat
      BY DEF TransportInv, TypeOK
    <2>2. wait_returned_epoch[r] <= consumer_done_epoch[r] /\ consumer_done_epoch[r] <= join_epoch[r]
      BY DEF TransportInv, EpochInv
    <2>3. consumer_done_epoch[r] = join_epoch[r]
      BY <2>1, <2>2
    <2> QED BY <2>3 DEF TransportInv, GpuInv, Holds
  <1> QED BY <1>1, Invariance, PTL

\* The first wait for an epoch returns the statistics of the layer the rank joined.
THEOREM StatsAreOwn == Spec => []StatsOfOwnLayer
  <1>1. TransportInv => StatsOfOwnLayer
    BY DEF TransportInv, CallerInv, StatsOfOwnLayer
  <1> QED BY <1>1, Invariance, PTL

\* A consumer works on its rank's layer, and the protocol error of its wait for a
\* ready slot (active_epoch > epoch) cannot happen.
THEOREM ConsumersKeepUp == Spec => []ConsumerOnJoinedLayer
  <1>1. TransportInv => ConsumerOnJoinedLayer
    <2> SUFFICES ASSUME TransportInv, NEW r \in Ranks, cpc[r] \in Consuming
                 PROVE  /\ work[r].epoch = joined[r].epoch /\ work[r].count = joined[r].count
                        /\ work[r].epoch = active_epoch
      BY DEF ConsumerOnJoinedLayer
    <2>1. /\ work[r].epoch = active_epoch /\ join_epoch[r] = active_epoch /\ work[r].count = expert_count
          /\ consumer_done_epoch[r] < active_epoch
      BY DEF TransportInv, ConsumerInv
    <2>2. /\ active_epoch \in Nat /\ consumer_done_epoch[r] \in Nat
          /\ wait_returned_epoch[r] \in Nat
      BY DEF TransportInv, TypeOK
    <2>3. joined[r].epoch = join_epoch[r] /\ wait_returned_epoch[r] <= consumer_done_epoch[r]
      BY DEF TransportInv, EpochInv
    <2>4. pc[0] # "join_activate"
      BY <2>1, <2>2, <2>3 DEF TransportInv, LayerInv, AllReturned
    <2>5. joined[r].count = expert_count
      BY <2>1, <2>2, <2>4 DEF TransportInv, LayerInv, Current
    <2> QED BY <2>1, <2>3, <2>5
  <1> QED BY <1>1, Invariance, PTL

\* Whoever is told of a failure is told of the first one, completely, or is told that
\* its diagnostics are incomplete (poison_message).
THEOREM FirstFailureReported == Spec => []ReportsFirstFailure
  <1>1. TransportInv => ReportsFirstFailure
    BY DEF TransportInv, PublisherInv
  <1> QED BY <1>1, Invariance, PTL

\* A step that finds the region claimed or poisoned leaves it so.
Latch == /\ poison_state # "healthy" => poison_state' # "healthy"
         /\ poison_state = "poisoned" => UNCHANGED <<poison_state, error_code, error_rank>>
LEMMA LatchStep ==
    ASSUME TransportInv, Next
    PROVE  Latch
  <1>1. publisher.stage # "none" <=> poison_state = "claimed"
    BY DEF TransportInv, PublisherInv
  <1>2. \/ UNCHANGED <<poison_state, error_code, error_rank>>
        \/ FillPoison \/ ReleasePoison
        \/ poison_state = "healthy" /\ poison_state' = "claimed"
    <2>1. ASSUME NEW q \in Ranks, Call(q)
          PROVE  \/ UNCHANGED <<poison_state, error_code, error_rank>>
                 \/ FillPoison \/ ReleasePoison
                 \/ poison_state = "healthy" /\ poison_state' = "claimed"
      BY <2>1 DEF Call, Refused, Construct, Join, RunProducer, Wait, poison, CallerPoisons,
             ConsumerExits, ConsumerFails, ClaimPoison, Healthy
    <2>2. ASSUME NEW q \in Ranks, CallerStep(q)
          PROVE  \/ UNCHANGED <<poison_state, error_code, error_rank>>
                 \/ FillPoison \/ ReleasePoison
                 \/ poison_state = "healthy" /\ poison_state' = "claimed"
      BY <2>2 DEF CallerStep, ConstructReturn, JoinStore, JoinActivate, JoinCheck, JoinPublish,
             WaitStats, WaitReturn, ProducerStart, WriterStart, WriterReturn, WriterThrows,
             ProducerPublish, ProducerDone, CallerWaitFails, Diagnose, poison, CallerPoisons,
             ConsumerExits, ConsumerFails, ClaimPoison, Healthy
    <2>3. ASSUME NEW q \in Ranks, ConsumerStep(q) \/ Close(q) \/ CloseReturn(q) \/ Crash(q) \/
                                \E x \in Experts : DmaComplete(q, x)
          PROVE  \/ UNCHANGED <<poison_state, error_code, error_rank>>
                 \/ FillPoison \/ ReleasePoison
                 \/ poison_state = "healthy" /\ poison_state' = "claimed"
      BY <2>3 DEF ConsumerStep, ConsumerInit, ConsumerInitFails, ConsumerScan, ConsumerPeek,
             ConsumerCopy, ConsumerAck, ConsumerFinish, ConsumerWaitFails, CopyFails, Close, CloseReturn,
             Crash, DmaComplete, poison, CallerPoisons, ConsumerExits, ConsumerFails, ClaimPoison, Healthy
    <2>4. ASSUME PublisherStep PROVE \/ UNCHANGED <<poison_state, error_code, error_rank>>
                                     \/ FillPoison \/ ReleasePoison
                                     \/ poison_state = "healthy" /\ poison_state' = "claimed"
      BY <2>4 DEF PublisherStep, poison, CallerPoisons, ConsumerExits, ConsumerFails, ClaimPoison,
             Healthy
    <2> QED BY <2>1, <2>2, <2>3, <2>4 DEF Next
  <1>3. CASE FillPoison \/ ReleasePoison
    <2>1. poison_state = "claimed"
      BY <1>1, <1>3 DEF FillPoison, ReleasePoison
    <2>2. poison_state' \in {poison_state, "poisoned"}
      BY <1>3 DEF FillPoison, ReleasePoison
    <2> QED BY <2>1, <2>2 DEF Latch
  <1> QED BY <1>2, <1>3 DEF Latch

\* publish_poison is called by many threads and takes effect once: poison is never
\* taken back, nor are its diagnostics changed.
THEOREM PoisonIsFinal == Spec => PoisonLatches
  <1>1. TransportInv /\ [Next]_vars => [Latch]_vars
    BY LatchStep
  <1> QED BY <1>1, Invariance, PTL DEF Spec, PoisonLatches, Latch

-----------------------------------------------------------------------------
(* The broadcast of layers that the transport implements.                  *)

\* A step that changes none of the cells BroadcastInv reads, except that threads may
\* leave the places it speaks of and copies may be given up.
Quiet ==
    /\ UNCHANGED <<layer, join_epoch, joined, gpu, ready, ack_sequence, producer_done_epoch>>
    /\ \A q \in Ranks : /\ dma'[q] \subseteq dma[q]
                        /\ pc'[q] = "wait_return" => pc[q] = "wait_return" /\ call'[q] = call[q]
    /\ \/ pc'[0] = pc[0] /\ call'[0] = call[0] /\ expert' = expert
       \/ /\ pc[0] \notin {"join_publish", "join_activate"}
          /\ pc'[0] \notin RankZeroPcs \cup {"join_publish"}
       \/ pc[0] = "prod_slot" /\ pc'[0] = "prod_write" /\ expert' = expert

\* The other steps.
Moves(r) ==
    \/ JoinStore(r) \/ JoinActivate(r) \/ JoinPublish(r) \/ WaitStats(r)
    \/ ProducerStart(r) \/ WriterReturn(r) \/ ProducerPublish(r) \/ ProducerDone(r)
    \/ ConsumerCopy(r) \/ ConsumerAck(r)
    \/ \E c \in ClientCalls : r = 0 /\ (Join(r, c) \/ RunProducer(r, c))
    \/ \E x \in Experts : DmaComplete(r, x)

\* Every step is quiet or one of those.
LEMMA QuietOrMoves ==
    ASSUME TypeOK, PublisherInv, RolesInv, Next
    PROVE  Quiet \/ \E r \in Ranks : Moves(r)
  <1>1. /\ pc \in [Ranks -> CallerPcs] /\ call \in [Ranks -> Calls] /\ dma \in [Ranks -> SUBSET Experts]
        /\ 0 \in Ranks
    BY SlotFacts DEF TypeOK
  <1>2. ASSUME FillPoison \/ ReleasePoison PROVE Quiet
    BY <1>1, <1>2
       DEF FillPoison, ReleasePoison, Quiet, PublisherInv, layer, ranks, producer, buffers, caller, RankZeroPcs, Producing
  <1>3. ASSUME NEW r \in Ranks, Refused(r) \/ Construct(r) PROVE Quiet
    BY <1>1, <1>3
       DEF Refused, Construct, CallerGoes, Quiet, layer, ranks, producer, buffers, caller, RankZeroPcs, Producing
  <1>4. ASSUME NEW r \in Ranks, NEW c \in ClientCalls, Wait(r, c) PROVE Quiet
    BY <1>1, <1>4
       DEF Wait, Enters, CallerPoisons, Quiet, layer, ranks, producer, buffers, caller, RankZeroPcs, Producing
  <1>5. ASSUME NEW r \in Ranks, NEW c \in ClientCalls, Join(r, c), r # 0 PROVE Quiet
    BY <1>1, <1>5
       DEF Join, Enters, CallerPoisons, Quiet, layer, ranks, producer, buffers, caller, RankZeroPcs, Producing
  <1>6. ASSUME NEW r \in Ranks, ConstructReturn(r) \/ JoinCheck(r) \/ CallerWaitFails(r) \/ Diagnose(r) PROVE Quiet
    BY <1>1, <1>6
       DEF ConstructReturn, JoinCheck, CallerWaitFails, Diagnose, CallerWaits, CallEnds, CallerGoes, CallerPoisons, Quiet,
           layer, ranks, producer, buffers, caller, RankZeroPcs, Producing, RolesInv
  <1>7. ASSUME NEW r \in Ranks, WaitReturn(r) \/ WriterStart(r) \/ WriterThrows(r) PROVE Quiet
    BY <1>1, <1>7
       DEF WaitReturn, WriterStart, WriterThrows, CallEnds, CallerGoes, CallerPoisons, Quiet,
           layer, ranks, producer, buffers, caller, RankZeroPcs, Producing, RolesInv
  <1>8. ASSUME NEW r \in Ranks, ConsumerInit(r) \/ ConsumerInitFails(r) \/ ConsumerScan(r) \/ ConsumerPeek(r) \/
                                ConsumerFinish(r) \/ ConsumerWaitFails(r) PROVE Quiet
    BY <1>1, <1>8
       DEF ConsumerInit, ConsumerInitFails, ConsumerScan, ConsumerPeek, ConsumerFinish, ConsumerWaitFails, Quiet,
           layer, ranks, producer, buffers, caller
  <1>9. ASSUME NEW r \in Ranks, CopyFails(r) PROVE Quiet
    BY <1>1, <1>9 DEF CopyFails, Quiet, layer, ranks, producer, caller
  <1>10. ASSUME NEW r \in Ranks, Close(r) \/ CloseReturn(r) \/ Crash(r) PROVE Quiet
    BY <1>1, <1>10 DEF Close, CloseReturn, Crash, Quiet, layer, ranks, producer, buffers, caller
  <1> QED BY <1>2, <1>3, <1>4, <1>5, <1>6, <1>7, <1>8, <1>9, <1>10
           DEF Next, PublisherStep, Call, CallerStep, ConsumerStep, Moves, RunProducer
\* What the steps that move are, for the cells BroadcastInv reads.
LEMMA MoveViews ==
    ASSUME TypeOK, RolesInv, NEW r \in Ranks
    PROVE  /\ JoinStore(r) =>
                 /\ r = 0 /\ pc[0] = "join_fence" /\ pc'[0] = "join_activate"
                 /\ UNCHANGED <<active_epoch, join_epoch, joined, call, gpu, dma, ready, ack_sequence,
                                producer_done_epoch, wait_returned_epoch, expert>>
                 /\ expert_count' = call[0].count /\ layer_id' = call[0].layer
                 /\ \A q \in Ranks : q # 0 => pc'[q] = pc[q]
           /\ JoinActivate(r) =>
                 /\ r = 0 /\ pc[0] = "join_activate" /\ pc'[0] = "join_publish" /\ active_epoch' = call[0].epoch
                 /\ UNCHANGED <<join_epoch, joined, call, gpu, dma, ready, ack_sequence, producer_done_epoch,
                                layer_id, expert_count, wait_returned_epoch, expert>>
                 /\ \A q \in Ranks : q # 0 => pc'[q] = pc[q]
           /\ JoinPublish(r) =>
                 /\ pc[r] = "join_publish" /\ pc'[r] = "idle"
                 /\ UNCHANGED <<layer, gpu, dma, ready, ack_sequence, producer_done_epoch, wait_returned_epoch, expert>>
                 /\ join_epoch'[r] = call[r].epoch
                 /\ join_epoch[r] # call[r].epoch => joined'[r] = call[r]
                 /\ join_epoch[r] = call[r].epoch => joined'[r] = joined[r]
                 /\ \A q \in Ranks : q # r => /\ join_epoch'[q] = join_epoch[q] /\ joined'[q] = joined[q]
                                              /\ pc'[q] = pc[q] /\ call'[q] = call[q]
           /\ WaitStats(r) =>
                 /\ pc[r] = "wait" /\ pc'[r] = "wait_return" /\ Loaded(r)
                 /\ call'[r].epoch = call[r].epoch
                 /\ UNCHANGED <<layer, join_epoch, joined, gpu, dma, ready, ack_sequence, producer_done_epoch, expert>>
                 /\ \A q \in Ranks : q # r => pc'[q] = pc[q] /\ call'[q] = call[q]
  <1>1. /\ pc \in [Ranks -> CallerPcs] /\ call \in [Ranks -> Calls] /\ join_epoch \in [Ranks -> Nat]
        /\ joined \in [Ranks -> Calls] /\ 0 \in Ranks
    BY SlotFacts DEF TypeOK
  <1>2. pc[r] \in RankZeroPcs => r = 0
    BY DEF RolesInv
  <1>3. ASSUME JoinStore(r) \/ JoinActivate(r) PROVE r = 0
    BY <1>2, <1>3 DEF JoinStore, JoinActivate, RankZeroPcs
  <1> QED BY <1>1, <1>3
    DEF JoinStore, JoinActivate, JoinPublish, WaitStats, CallerGoes, CallEnds, layer, ranks, producer, buffers, WaitOver,
        NoWait, WaitPredicate

\* The same for run_producer.
LEMMA ProducerViews ==
    ASSUME TypeOK, RolesInv, NEW r \in Ranks
    PROVE  /\ ProducerStart(r) =>
                 /\ r = 0 /\ pc[0] = "prod_join" /\ pc'[0] = "prod_slot" /\ \A q \in Ranks : join_epoch[q] = call[0].epoch
                 /\ UNCHANGED <<layer, join_epoch, joined, call, gpu, dma, ready, ack_sequence,
                                producer_done_epoch, expert>>
                 /\ \A q \in Ranks : q # 0 => pc'[q] = pc[q]
           /\ WriterReturn(r) =>
                 /\ r = 0 /\ pc[0] = "prod_write" /\ pc'[0] = "prod_ready"
                 /\ UNCHANGED <<layer, join_epoch, joined, call, gpu, dma, ack_sequence, producer_done_epoch, expert>>
                 /\ \A s \in Slots : /\ ready'[s].sequence = ready[s].sequence
                                     /\ s # Slot(expert) => ready'[s] = ready[s]
                 /\ ready'[Slot(expert)].epoch = call[0].epoch /\ ready'[Slot(expert)].expert = expert
                 /\ \A q \in Ranks : q # 0 => pc'[q] = pc[q]
           /\ ProducerPublish(r) =>
                 /\ r = 0 /\ pc[0] = "prod_ready" /\ expert' = expert + 1
                 /\ pc'[0] = IF expert + 1 < call[0].count THEN "prod_slot" ELSE "prod_drain"
                 /\ UNCHANGED <<layer, join_epoch, joined, call, gpu, dma, ack_sequence, producer_done_epoch>>
                 /\ \A s \in Slots : /\ ready'[s].epoch = ready[s].epoch /\ ready'[s].expert = ready[s].expert
                                     /\ s # Slot(expert) => ready'[s] = ready[s]
                 /\ ready'[Slot(expert)].sequence = next_sequence
                 /\ \A q \in Ranks : q # 0 => pc'[q] = pc[q]
           /\ ProducerDone(r) =>
                 /\ r = 0 /\ pc[0] = "prod_drain" /\ pc'[0] = "idle" /\ \A s \in Slots : AckedByAll(s)
                 /\ producer_done_epoch' = call[0].epoch
                 /\ UNCHANGED <<layer, join_epoch, joined, gpu, dma, ready, ack_sequence, expert>>
                 /\ \A q \in Ranks : q # 0 => pc'[q] = pc[q] /\ call'[q] = call[q]
  <1>1. /\ pc \in [Ranks -> CallerPcs] /\ call \in [Ranks -> Calls] /\ 0 \in Ranks
        /\ ready \in [Slots -> [sequence : Nat, epoch : Nat, expert : Nat]]
    BY SlotFacts DEF TypeOK
  <1>2. pc[r] \in RankZeroPcs => r = 0
    BY DEF RolesInv
  <1>3. ASSUME ProducerStart(r) \/ WriterReturn(r) \/ ProducerPublish(r) \/ ProducerDone(r) PROVE r = 0
    BY <1>2, <1>3 DEF ProducerStart, WriterReturn, ProducerPublish, ProducerDone, RankZeroPcs, Producing
  <1>4. expert \in 0 .. NumExperts /\ Slot(expert) \in Slots
    BY SlotFacts, ExpertsAssumption DEF TypeOK
  <1>5. ASSUME ProducerStart(r) PROVE pc[0] = "prod_join" /\ WaitPredicate(0)
    BY <1>3, <1>5 DEF ProducerStart, WaitOver, NoWait
  <1>6. ASSUME ProducerDone(r) PROVE pc[0] = "prod_drain" /\ WaitPredicate(0)
    BY <1>3, <1>6 DEF ProducerDone, WaitOver, NoWait
  <1>7. ASSUME ProducerStart(r) PROVE \A q \in Ranks : join_epoch[q] = call[0].epoch
    BY <1>5, <1>7 DEF WaitPredicate
  <1>8. ASSUME ProducerDone(r) PROVE \A s \in Slots : AckedByAll(s)
    BY <1>6, <1>8 DEF WaitPredicate
  <1>9. ASSUME ProducerPublish(r) \/ WriterReturn(r)
        PROVE  /\ \A s \in Slots : s # Slot(expert) => ready'[s] = ready[s]
               /\ WriterReturn(r) => ready'[Slot(expert)] = [sequence |-> ready[Slot(expert)].sequence,
                                                             epoch |-> call[0].epoch, expert |-> expert]
               /\ ProducerPublish(r) => ready'[Slot(expert)] =
                      [sequence |-> next_sequence, epoch |-> ready[Slot(expert)].epoch, expert |-> ready[Slot(expert)].expert]
    BY <1>1, <1>3, <1>4, <1>9 DEF ProducerPublish, WriterReturn
  <1>10. ASSUME ProducerStart(r) \/ ProducerDone(r) \/ ProducerPublish(r) \/ WriterReturn(r)
         PROVE  UNCHANGED <<layer, join_epoch, joined, gpu, dma, ack_sequence>>
    BY <1>10 DEF ProducerStart, ProducerDone, ProducerPublish, WriterReturn, ranks, buffers
  <1> QED BY <1>1, <1>3, <1>4, <1>7, <1>8, <1>9, <1>10
    DEF ProducerStart, WriterReturn, ProducerPublish, ProducerDone, CallerGoes, CallEnds, producer

\* The same for the consumers, the GPUs and the calls of rank zero.  A copy that
\* completes puts the expert on the GPU that was written for the active epoch.
LEMMA CopyViews ==
    ASSUME TransportInv, NEW r \in Ranks
    PROVE  /\ ConsumerCopy(r) =>
                 /\ UNCHANGED <<layer, join_epoch, joined, gpu, ready, ack_sequence, producer_done_epoch, expert, pc, call>>
                 /\ \A q \in Ranks : q # r => dma'[q] = dma[q]
                 /\ \A x \in dma'[r] : x \in dma[r] \/ (cpc[r] \in Consuming /\ x = work[r].expert)
           /\ ConsumerAck(r) =>
                 /\ UNCHANGED <<layer, join_epoch, joined, gpu, dma, ready, producer_done_epoch, expert, pc, call>>
                 /\ \A q \in Ranks, s \in Slots : q # r \/ s # WorkSlot(r) => ack_sequence'[q][s] = ack_sequence[q][s]
                 /\ ready[WorkSlot(r)].expert = work[r].expert
                 /\ work[r].expert \in Experts => Holds(r, work[r].expert)
           /\ \A x \in Experts : DmaComplete(r, x) =>
                 /\ UNCHANGED <<layer, join_epoch, joined, ready, ack_sequence, producer_done_epoch, expert, pc, call,
                                wait_returned_epoch>>
                 /\ x \in dma[r] /\ dma'[r] = dma[r] \ {x} /\ \A q \in Ranks : q # r => dma'[q] = dma[q]
                 /\ join_epoch[r] = active_epoch /\ gpu'[r][x] = Bytes(active_epoch, x)
                 /\ \A q \in Ranks, y \in Experts : q # r \/ y # x => gpu'[q][y] = gpu[q][y]
  <1>1. /\ dma \in [Ranks -> SUBSET Experts] /\ ack_sequence \in [Ranks -> [Slots -> Nat]]
        /\ gpu \in [Ranks -> [Experts -> AllBytes]]
        /\ work \in [Ranks -> [epoch : Nat, count : 0 .. NumExperts, expert : 0 .. NumExperts, observed : Nat]]
    BY DEF TransportInv, TypeOK
  <1>2. WorkSlot(r) \in Slots
    BY <1>1, SlotFacts, ExpertsAssumption DEF WorkSlot
  <1>3. ASSUME ConsumerCopy(r)
        PROVE  /\ UNCHANGED <<layer, join_epoch, joined, gpu, ready, ack_sequence, producer_done_epoch, expert, pc, call>>
               /\ \A q \in Ranks : q # r => dma'[q] = dma[q]
               /\ \A x \in dma'[r] : x \in dma[r] \/ (cpc[r] \in Consuming /\ x = work[r].expert)
    BY <1>1, <1>3 DEF ConsumerCopy, Consuming, ranks, caller, producer
  <1>4. ASSUME ConsumerAck(r)
        PROVE  /\ UNCHANGED <<layer, join_epoch, joined, gpu, dma, ready, producer_done_epoch, expert, pc, call>>
               /\ \A q \in Ranks, s \in Slots : q # r \/ s # WorkSlot(r) => ack_sequence'[q][s] = ack_sequence[q][s]
               /\ ready[WorkSlot(r)].expert = work[r].expert
               /\ work[r].expert \in Experts => Holds(r, work[r].expert)
    <2>1. cpc[r] = "copying" /\ work[r].expert \notin dma[r]
      BY <1>4 DEF ConsumerAck, CopyComplete
    <2>2. Holds(r, work[r].expert) /\ Matches(r)
      BY <2>1 DEF TransportInv, GpuInv, GenerationInv
    <2>3. \A q \in Ranks, s \in Slots : q # r \/ s # WorkSlot(r) => ack_sequence'[q][s] = ack_sequence[q][s]
      BY <1>1, <1>2, <1>4 DEF ConsumerAck
    <2>4. UNCHANGED <<layer, join_epoch, joined, gpu, dma, ready, producer_done_epoch, expert, pc, call>>
      BY <1>4 DEF ConsumerAck, buffers, producer, caller
    <2> QED BY <2>2, <2>3, <2>4 DEF Matches
  <1>5. ASSUME NEW x \in Experts, DmaComplete(r, x)
        PROVE  /\ UNCHANGED <<layer, join_epoch, joined, ready, ack_sequence, producer_done_epoch, expert, pc, call,
                              wait_returned_epoch>>
               /\ x \in dma[r] /\ dma'[r] = dma[r] \ {x} /\ \A q \in Ranks : q # r => dma'[q] = dma[q]
               /\ join_epoch[r] = active_epoch /\ gpu'[r][x] = Bytes(active_epoch, x)
               /\ \A q \in Ranks, y \in Experts : q # r \/ y # x => gpu'[q][y] = gpu[q][y]
    <2>1. x \in dma[r] /\ UNCHANGED <<layer, producer, ranks, caller>>
      BY <1>5 DEF DmaComplete
    <2>2. /\ gpu'[r][x] = host[Slot(x)]
          /\ \A q \in Ranks, y \in Experts : q # r \/ y # x => gpu'[q][y] = gpu[q][y]
          /\ dma'[r] = dma[r] \ {x} /\ \A q \in Ranks : q # r => dma'[q] = dma[q]
      BY <1>1, <1>5 DEF DmaComplete
    <2>3. /\ join_epoch[r] = active_epoch /\ ready[Slot(x)].epoch = active_epoch /\ ready[Slot(x)].expert = x
          /\ ack_sequence[r][Slot(x)] # ready[Slot(x)].sequence
      BY <2>1 DEF TransportInv, DmaInv
    <2>4. Slot(x) \in Slots
      BY SlotFacts, ExpertsAssumption DEF Experts
    <2>5. host[Slot(x)] = Bytes(active_epoch, x)
      BY <2>3, <2>4 DEF TransportInv, SlotInv, Drained
    <2> QED BY <2>1, <2>2, <2>3, <2>5 DEF producer, ranks, caller
  <1> QED BY <1>3, <1>4, <1>5

\* join and run_producer on rank zero.
LEMMA CallViews ==
    ASSUME TypeOK, NEW c \in ClientCalls, Join(0, c) \/ RunProducer(0, c)
    PROVE  /\ UNCHANGED <<layer, join_epoch, joined, gpu, dma, ready, ack_sequence, producer_done_epoch, wait_returned_epoch>>
           /\ pc[0] = "idle" /\ \A q \in Ranks : q # 0 => pc'[q] = pc[q] /\ call'[q] = call[q]
           /\ \/ pc'[0] \in {"idle", "poisoning"}
              \/ pc'[0] = "join_fence" /\ call'[0] = c /\ c.epoch > active_epoch /\ Join(0, c) /\ UNCHANGED poison
              \/ pc'[0] = "prod_join" /\ call'[0] = c /\ expert' = 0
  <1>1. /\ pc \in [Ranks -> CallerPcs] /\ call \in [Ranks -> Calls] /\ 0 \in Ranks /\ active_epoch \in Nat
    BY SlotFacts DEF TypeOK
  <1>2. c.epoch \in Nat
    BY CallFacts DEF Calls
  <1>3. UNCHANGED <<layer, join_epoch, joined, gpu, dma, ready, ack_sequence, producer_done_epoch, wait_returned_epoch>>
    BY DEF Join, RunProducer, ranks, buffers, producer
  <1> QED BY <1>1, <1>2, <1>3 DEF Join, RunProducer, Enters, CallerPoisons

\* A step keeps rank zero in the epoch it has opened.
LEMMA OpenStep ==
    ASSUME TransportInv, OpenInv, Next
    PROVE  OpenInv'
  <1>1. /\ TypeOK /\ PublisherInv /\ RolesInv /\ EpochInv /\ LayerInv /\ CallerInv /\ ConsumerInv
        /\ 0 \in Ranks /\ active_epoch \in Nat /\ join_epoch \in [Ranks -> Nat] /\ wait_returned_epoch \in [Ranks -> Nat]
        /\ call \in [Ranks -> Calls]
    BY SlotFacts DEF TransportInv, TypeOK
  <1>2. CASE Quiet
    BY <1>1, <1>2 DEF Quiet, OpenInv, layer, RankZeroPcs
  <1>3. ASSUME NEW r \in Ranks, JoinStore(r) PROVE OpenInv'
    BY <1>1, <1>3, MoveViews DEF OpenInv
  <1>4. ASSUME NEW r \in Ranks, JoinActivate(r) PROVE OpenInv'
    <2>1. call[0].epoch > active_epoch /\ call[0].epoch \in Nat
      BY <1>1, <1>4, MoveViews DEF CallerInv, Calls
    <2> QED BY <1>1, <1>4, <2>1, MoveViews DEF OpenInv
  <1>5. ASSUME NEW r \in Ranks, JoinPublish(r) PROVE OpenInv'
    <2>1. pc[r] = "join_publish" /\ call[r].epoch # 0
      BY <1>1, <1>5, MoveViews DEF CallerInv
    <2>2. r = 0 => call[0].epoch = active_epoch
      BY <1>1, <2>1 DEF CallerInv, Current
    <2>3. UNCHANGED <<active_epoch, expert_count>>
      BY <1>1, <1>5, MoveViews DEF layer
    <2>4. \A q \in Ranks : join_epoch'[q] = 0 => joined'[q].count = 0
      BY <1>1, <1>5, <2>1, MoveViews DEF OpenInv
    <2>5. CASE r = 0
      BY <1>1, <1>5, <2>1, <2>2, <2>3, <2>4, <2>5, MoveViews DEF OpenInv
    <2>6. CASE r # 0
      BY <1>1, <1>5, <2>1, <2>3, <2>4, <2>6, MoveViews DEF OpenInv
    <2> QED BY <2>5, <2>6
  <1>6. ASSUME NEW r \in Ranks, WaitStats(r) PROVE OpenInv'
    BY <1>1, <1>6, MoveViews DEF OpenInv, layer
  <1>7. ASSUME NEW r \in Ranks, ProducerStart(r) \/ WriterReturn(r) \/ ProducerPublish(r) \/ ProducerDone(r) PROVE OpenInv'
    BY <1>1, <1>7, ProducerViews DEF OpenInv, layer
  <1>8. ASSUME NEW r \in Ranks, ConsumerCopy(r) \/ ConsumerAck(r) \/ \E x \in Experts : DmaComplete(r, x) PROVE OpenInv'
    BY <1>1, <1>8, CopyViews DEF OpenInv, layer
  <1>9. ASSUME NEW c \in ClientCalls, Join(0, c) \/ RunProducer(0, c) PROVE OpenInv'
    BY <1>1, <1>9, CallViews DEF OpenInv, layer, ClientCalls
  <1> QED BY <1>1, <1>2, <1>3, <1>4, <1>5, <1>6, <1>7, <1>8, <1>9, QuietOrMoves DEF Moves

\* A step writes nothing for an epoch before all who read it have joined it.
LEMMA FreshStep ==
    ASSUME TransportInv, FreshInv, Next
    PROVE  FreshInv'
  <1>1. /\ TypeOK /\ PublisherInv /\ RolesInv /\ EpochInv /\ LayerInv /\ CallerInv
        /\ 0 \in Ranks /\ active_epoch \in Nat /\ join_epoch \in [Ranks -> Nat] /\ call \in [Ranks -> Calls]
    BY SlotFacts DEF TransportInv, TypeOK
  <1>13. Slot(expert) \in Slots
    <2>1. expert \in 0 .. NumExperts
      BY <1>1 DEF TypeOK
    <2> QED BY <2>1, SlotFacts, ExpertsAssumption
  <1>2. \A q \in Ranks, x \in Experts : gpu[q][x].epoch \in Nat
    BY DEF TransportInv, TypeOK, AllBytes
  <1>3. \A s \in Slots : ready[s].epoch \in Nat
    BY <1>1 DEF TypeOK
  <1>4. CASE UNCHANGED <<active_epoch, join_epoch, gpu, ready>>
    BY <1>4 DEF FreshInv
  <1>5. ASSUME NEW r \in Ranks, JoinActivate(r) PROVE FreshInv'
    <2>1. call[0].epoch > active_epoch /\ call[0].epoch \in Nat
      BY <1>1, <1>5, MoveViews DEF CallerInv, Calls
    <2>2. active_epoch' = call[0].epoch /\ UNCHANGED <<join_epoch, gpu, ready>>
      BY <1>1, <1>5, MoveViews
    <2> QED BY <1>1, <1>3, <2>1, <2>2 DEF FreshInv
  <1>6. ASSUME NEW r \in Ranks, JoinPublish(r) PROVE FreshInv'
    <2>1. pc[r] = "join_publish" /\ UNCHANGED <<active_epoch, gpu, ready>>
      BY <1>1, <1>6, MoveViews DEF layer
    <2>2. \A q \in Ranks : join_epoch'[q] \in {join_epoch[q], active_epoch}
      <3>1. join_epoch'[r] = call[r].epoch /\ \A q \in Ranks : q # r => join_epoch'[q] = join_epoch[q]
        BY <1>1, <1>6, MoveViews
      <3>2. join_epoch[r] = call[r].epoch \/ call[r].epoch = active_epoch
        BY <1>1, <2>1 DEF CallerInv, Current
      <3> QED BY <3>1, <3>2
    <2>3. \A q \in Ranks : join_epoch[q] <= active_epoch
      BY <1>1 DEF EpochInv
    <2>4. \A q \in Ranks, x \in Experts : gpu[q][x].epoch <= join_epoch[q]
      BY DEF FreshInv
    <2>5. \A q \in Ranks, x \in Experts : gpu[q][x].epoch <= join_epoch'[q]
      BY <1>1, <1>2, <2>2, <2>3, <2>4
    <2> QED BY <2>1, <2>2, <2>5 DEF FreshInv
  <1>7. ASSUME NEW r \in Ranks, WriterReturn(r) PROVE FreshInv'
    <2>1. /\ UNCHANGED <<active_epoch, join_epoch, gpu>> /\ pc[0] = "prod_write"
          /\ \A s \in Slots : s # Slot(expert) => ready'[s] = ready[s]
          /\ ready'[Slot(expert)].epoch = call[0].epoch
      BY <1>1, <1>7, ProducerViews DEF layer
    <2>2. call[0].epoch = active_epoch /\ \A q \in Ranks : join_epoch[q] = active_epoch
      BY <1>1, <2>1 DEF CallerInv, Producing, Current
    <2> QED BY <1>1, <1>13, <2>1, <2>2 DEF FreshInv
  <1>8. ASSUME NEW r \in Ranks, ProducerPublish(r) PROVE FreshInv'
    <2>1. /\ UNCHANGED <<active_epoch, join_epoch, gpu>>
          /\ \A s \in Slots : ready'[s].epoch = ready[s].epoch
      BY <1>1, <1>8, ProducerViews DEF layer
    <2> QED BY <2>1 DEF FreshInv
  <1>9. ASSUME NEW r \in Ranks, NEW x \in Experts, DmaComplete(r, x) PROVE FreshInv'
    <2>1. UNCHANGED <<active_epoch, join_epoch, ready>> /\ join_epoch[r] = active_epoch
      BY <1>9, CopyViews DEF layer
    <2>2. gpu'[r][x].epoch = active_epoch
      <3>1. gpu'[r][x] = Bytes(active_epoch, x)
        BY <1>9, CopyViews
      <3> QED BY <3>1 DEF Bytes
    <2>3. \A q \in Ranks, y \in Experts : q # r \/ y # x => gpu'[q][y] = gpu[q][y]
      BY <1>9, CopyViews
    <2> QED BY <1>1, <2>1, <2>2, <2>3 DEF FreshInv
  <1>10. ASSUME NEW r \in Ranks, JoinStore(r) \/ WaitStats(r) \/ ProducerStart(r) \/ ProducerDone(r) \/ ConsumerCopy(r)
                                 \/ ConsumerAck(r) PROVE FreshInv'
    BY <1>1, <1>4, <1>10, MoveViews, ProducerViews, CopyViews DEF layer
  <1>11. ASSUME NEW c \in ClientCalls, Join(0, c) \/ RunProducer(0, c) PROVE FreshInv'
    BY <1>1, <1>4, <1>11, CallViews DEF layer
  <1>12. CASE Quiet
    BY <1>4, <1>12 DEF Quiet, layer
  <1> QED BY <1>1, <1>5, <1>6, <1>7, <1>8, <1>9, <1>10, <1>11, <1>12, QuietOrMoves DEF Moves

\* A step brings the experts of a layer to a GPU in order: copy_expert starts a copy
\* when those before it are complete.
LEMMA OrderStep ==
    ASSUME TransportInv, FreshInv, OrderInv, Next
    PROVE  OrderInv'
  <1>1. /\ TypeOK /\ PublisherInv /\ RolesInv /\ EpochInv /\ CallerInv /\ DmaInv /\ GpuInv
        /\ 0 \in Ranks /\ active_epoch \in Nat /\ join_epoch \in [Ranks -> Nat]
    BY SlotFacts DEF TransportInv, TypeOK
  <1>2. CASE UNCHANGED <<join_epoch, gpu>> /\ \A q \in Ranks : dma'[q] \subseteq dma[q]
    BY <1>2 DEF OrderInv, Holds
  <1>3. ASSUME NEW r \in Ranks, JoinPublish(r) PROVE OrderInv'
    <2>1. /\ pc[r] = "join_publish" /\ UNCHANGED <<gpu, dma>> /\ join_epoch'[r] = call[r].epoch
          /\ \A q \in Ranks : q # r => join_epoch'[q] = join_epoch[q]
      BY <1>1, <1>3, MoveViews
    <2>2. CASE join_epoch[r] = call[r].epoch
      BY <2>1, <2>2 DEF OrderInv, Holds
    <2>3. CASE join_epoch[r] # call[r].epoch
      <3>1. call[r].epoch = active_epoch /\ join_epoch[r] < active_epoch
        BY <1>1, <2>1, <2>3 DEF CallerInv, Current, EpochInv
      <3>2. dma[r] = {}
        BY <1>1, <3>1 DEF DmaInv
      <3>3. \A x \in Experts : gpu[r][x].epoch \in Nat /\ gpu[r][x].epoch <= join_epoch[r]
        BY <1>1 DEF FreshInv, TypeOK, AllBytes
      <3>4. \A x \in Experts : gpu[r][x] # Bytes(active_epoch, x)
        BY <1>1, <3>1, <3>3 DEF Bytes
      <3> QED BY <2>1, <3>1, <3>2, <3>4 DEF OrderInv, Holds
    <2> QED BY <2>2, <2>3
  <1>4. ASSUME NEW r \in Ranks, ConsumerCopy(r) PROVE OrderInv'
    <2>1. /\ UNCHANGED <<join_epoch, gpu>> /\ \A q \in Ranks : q # r => dma'[q] = dma[q]
          /\ \A x \in dma'[r] : x \in dma[r] \/ (cpc[r] \in Consuming /\ x = work[r].expert)
      BY <1>4, CopyViews
    <2>2. cpc[r] \in Consuming => \A y \in Experts : y < work[r].expert => Holds(r, y)
      BY <1>1 DEF GpuInv
    <2> QED BY <2>1, <2>2 DEF OrderInv, Holds
  <1>5. ASSUME NEW r \in Ranks, NEW x \in Experts, DmaComplete(r, x) PROVE OrderInv'
    <2>1. /\ UNCHANGED join_epoch /\ join_epoch[r] = active_epoch /\ x \in dma[r]
          /\ dma'[r] = dma[r] \ {x} /\ \A q \in Ranks : q # r => dma'[q] = dma[q]
          /\ gpu'[r][x] = Bytes(active_epoch, x)
          /\ \A q \in Ranks, y \in Experts : q # r \/ y # x => gpu'[q][y] = gpu[q][y]
      BY <1>5, CopyViews
    <2>2. \A q \in Ranks, y \in Experts : Holds(q, y) => Holds(q, y)'
      BY <2>1 DEF Holds
    <2>3. \A q \in Ranks, y \in Experts : Holds(q, y)' \/ y \in dma'[q] => Holds(q, y) \/ y \in dma[q]
      BY <2>1 DEF Holds
    <2> QED BY <2>1, <2>2, <2>3 DEF OrderInv
  <1>6. ASSUME NEW r \in Ranks, JoinStore(r) \/ JoinActivate(r) \/ WaitStats(r) \/ ProducerStart(r) \/ WriterReturn(r)
                                \/ ProducerPublish(r) \/ ProducerDone(r) \/ ConsumerAck(r) PROVE OrderInv'
    BY <1>1, <1>2, <1>6, MoveViews, ProducerViews, CopyViews
  <1>7. ASSUME NEW c \in ClientCalls, Join(0, c) \/ RunProducer(0, c) PROVE OrderInv'
    BY <1>1, <1>2, <1>7, CallViews
  <1>8. CASE Quiet
    BY <1>2, <1>8 DEF Quiet
  <1> QED BY <1>1, <1>3, <1>4, <1>5, <1>6, <1>7, <1>8, QuietOrMoves DEF Moves

\* A step keeps what rank zero knows of the experts it has published: each rank has
\* the expert, or has not acknowledged its slot.
LEMMA DeliveryStep ==
    ASSUME TransportInv, FreshInv, DeliveryInv, Next
    PROVE  DeliveryInv'
  <1>1. /\ TypeOK /\ PublisherInv /\ RolesInv /\ EpochInv /\ LayerInv /\ CallerInv /\ SlotInv
        /\ 0 \in Ranks /\ active_epoch \in Nat /\ producer_done_epoch \in Nat /\ expert \in 0 .. NumExperts
        /\ join_epoch \in [Ranks -> Nat]
    BY SlotFacts DEF TransportInv, TypeOK
  <1>2. Slot(expert) \in Slots /\ \A x \in Experts : Slot(x) \in Slots
    BY <1>1, SlotFacts, ExpertsAssumption DEF Experts
  <1>3. \A q \in Ranks : call[q].epoch \in Nat /\ call[q].count \in 0 .. NumExperts
    BY <1>1 DEF TypeOK, Calls
  <1>4. \A s \in Slots : ready[s].sequence \in Nat /\ \A q \in Ranks : ack_sequence[q][s] \in Nat
    BY <1>1 DEF TypeOK
  <1>5. CASE Quiet
    <2>1. \A q \in Ranks, x \in Experts : /\ Holds(q, x)' <=> Holds(q, x)
                                          /\ Outstanding(q, x)' <=> Outstanding(q, x)
      BY <1>5 DEF Quiet, Holds, Outstanding, layer
    <2> QED BY <1>1, <1>5, <2>1 DEF Quiet, DeliveryInv, RankZeroPcs, Producing, layer
  <1>6. ASSUME NEW r \in Ranks, JoinStore(r) PROVE DeliveryInv'
    <2>1. \A q \in Ranks, x \in Experts : Holds(q, x)' <=> Holds(q, x)
      BY <1>1, <1>6, MoveViews DEF Holds
    <2> QED BY <1>1, <1>6, <2>1, MoveViews DEF DeliveryInv, Producing
  <1>7. ASSUME NEW r \in Ranks, JoinActivate(r) PROVE DeliveryInv'
    <2>1. call[0].epoch > active_epoch
      BY <1>1, <1>7, MoveViews DEF CallerInv
    <2>2. producer_done_epoch <= active_epoch
      BY DEF DeliveryInv
    <2>3. active_epoch' > producer_done_epoch /\ active_epoch' \in Nat
      BY <1>1, <1>3, <1>7, <2>1, <2>2, MoveViews
    <2> QED BY <1>1, <1>7, <2>3, MoveViews DEF DeliveryInv, Producing
  <1>8. ASSUME NEW r \in Ranks, JoinPublish(r) PROVE DeliveryInv'
    <2>1. /\ pc[r] = "join_publish" /\ pc'[r] = "idle" /\ join_epoch'[r] = call[r].epoch
          /\ UNCHANGED <<active_epoch, expert_count, gpu, ready, ack_sequence, producer_done_epoch, expert>>
          /\ \A q \in Ranks : q # r => /\ join_epoch'[q] = join_epoch[q] /\ joined'[q] = joined[q]
                                       /\ pc'[q] = pc[q] /\ call'[q] = call[q]
      BY <1>1, <1>8, MoveViews DEF layer
    <2>2. CASE join_epoch[r] = call[r].epoch
      <3>1. \A q \in Ranks : join_epoch'[q] = join_epoch[q] /\ joined'[q] = joined[q]
        BY <1>1, <1>8, <2>1, <2>2, MoveViews
      <3>2. \A q \in Ranks, x \in Experts : (Holds(q, x)' <=> Holds(q, x)) /\ (Outstanding(q, x)' <=> Outstanding(q, x))
        BY <2>1, <3>1 DEF Holds, Outstanding
      <3> QED BY <1>1, <2>1, <3>1, <3>2 DEF DeliveryInv, Producing
    <2>3. CASE join_epoch[r] # call[r].epoch
      <3>1. call[r].epoch = active_epoch /\ join_epoch[r] # active_epoch
        BY <1>1, <2>1, <2>3 DEF CallerInv, Current
      <3>2. ~(active_epoch # 0 /\ producer_done_epoch = active_epoch)
        BY <3>1 DEF DeliveryInv
      <3>3. pc[0] \notin Producing
        BY <1>1, <3>1 DEF CallerInv
      <3>4. pc'[0] \notin Producing /\ (pc'[0] = "prod_join" => pc[0] = "prod_join")
        BY <1>1, <2>1, <3>3 DEF Producing
      <3>5. \A q \in Ranks : pc'[q] = "wait_return" => pc[q] = "wait_return" /\ call'[q] = call[q]
        BY <2>1
      <3> QED BY <1>1, <2>1, <3>2, <3>4, <3>5 DEF DeliveryInv, Producing
    <2> QED BY <2>2, <2>3
  <1>9. ASSUME NEW r \in Ranks, WaitStats(r) PROVE DeliveryInv'
    <2>1. /\ pc[r] = "wait" /\ pc'[r] = "wait_return" /\ producer_done_epoch >= call[r].epoch
          /\ call'[r].epoch = call[r].epoch
          /\ UNCHANGED <<active_epoch, expert_count, join_epoch, joined, gpu, ready, ack_sequence, producer_done_epoch, expert>>
          /\ \A q \in Ranks : q # r => pc'[q] = pc[q] /\ call'[q] = call[q]
      BY <1>1, <1>9, MoveViews DEF layer, Loaded
    <2>2. \A q \in Ranks, x \in Experts : (Holds(q, x)' <=> Holds(q, x)) /\ (Outstanding(q, x)' <=> Outstanding(q, x))
      BY <2>1 DEF Holds, Outstanding
    <2>3. \A q \in Ranks : pc'[q] = "wait_return" => producer_done_epoch >= call'[q].epoch
      BY <2>1 DEF DeliveryInv
    <2>4. pc'[0] \in Producing \cup {"prod_join"} => pc'[0] = pc[0]
      BY <1>1, <2>1 DEF Producing
    <2> QED BY <2>1, <2>2, <2>3, <2>4 DEF DeliveryInv, Producing
  <1>10. ASSUME NEW r \in Ranks, ProducerStart(r) PROVE DeliveryInv'
    <2>1. \A q \in Ranks, x \in Experts : Holds(q, x)' <=> Holds(q, x)
      BY <1>1, <1>10, ProducerViews DEF Holds
    <2>2. /\ pc[0] = "prod_join" /\ pc'[0] = "prod_slot" /\ UNCHANGED call /\ \A q \in Ranks : q # 0 => pc'[q] = pc[q]
          /\ UNCHANGED <<active_epoch, join_epoch, joined, producer_done_epoch, expert>>
      BY <1>1, <1>10, ProducerViews DEF layer
    <2>3. expert = 0
      BY <2>2 DEF DeliveryInv
    <2>4. \A x \in Experts : ~(x < expert')
      BY <2>2, <2>3 DEF Experts
    <2>5. \A q \in Ranks : pc'[q] = "wait_return" => pc[q] = "wait_return"
      BY <2>2
    <2> QED BY <2>1, <2>2, <2>4, <2>5 DEF DeliveryInv
  <1>11. ASSUME NEW r \in Ranks, WriterReturn(r) PROVE DeliveryInv'
    <2>1. /\ pc[0] = "prod_write" /\ pc'[0] = "prod_ready" /\ \A q \in Ranks : q # 0 => pc'[q] = pc[q]
          /\ UNCHANGED <<active_epoch, join_epoch, joined, gpu, ack_sequence, producer_done_epoch, expert, call>>
          /\ \A s \in Slots : /\ ready'[s].sequence = ready[s].sequence
                              /\ s # Slot(expert) => ready'[s] = ready[s]
      BY <1>1, <1>11, ProducerViews DEF layer
    <2>2. \A q \in Ranks : ack_sequence[q][Slot(expert)] = ready[Slot(expert)].sequence
      BY <1>1, <2>1 DEF SlotInv, Drained
    <2>3. \A q \in Ranks, x \in Experts : Holds(q, x) => Holds(q, x)'
      BY <2>1 DEF Holds
    <2>4. \A q \in Ranks, x \in Experts : Outstanding(q, x) => Slot(x) # Slot(expert)
      BY <2>2 DEF Outstanding
    <2>5. \A q \in Ranks, x \in Experts : Outstanding(q, x) => Outstanding(q, x)'
      BY <1>2, <2>1, <2>4 DEF Outstanding
    <2>6. \A q \in Ranks, x \in Experts : x < expert => Holds(q, x) \/ Outstanding(q, x)
      BY <2>1 DEF DeliveryInv, Producing
    <2>7. \A q \in Ranks : pc'[q] = "wait_return" => pc[q] = "wait_return"
      BY <2>1
    <2> QED BY <2>1, <2>3, <2>5, <2>6, <2>7 DEF DeliveryInv, Producing
  <1>12. ASSUME NEW r \in Ranks, ProducerPublish(r) PROVE DeliveryInv'
    <2>1. /\ pc[0] = "prod_ready" /\ expert' = expert + 1 /\ \A q \in Ranks : q # 0 => pc'[q] = pc[q]
          /\ pc'[0] = IF expert + 1 < call[0].count THEN "prod_slot" ELSE "prod_drain"
          /\ UNCHANGED <<active_epoch, expert_count, join_epoch, joined, gpu, ack_sequence, producer_done_epoch, call>>
          /\ \A s \in Slots : /\ ready'[s].epoch = ready[s].epoch /\ ready'[s].expert = ready[s].expert
                              /\ s # Slot(expert) => ready'[s] = ready[s]
          /\ ready'[Slot(expert)].sequence = next_sequence
      BY <1>1, <1>12, ProducerViews DEF layer
    <2>2. /\ \A q \in Ranks : ack_sequence[q][Slot(expert)] = ready[Slot(expert)].sequence
          /\ ready[Slot(expert)].sequence < next_sequence
          /\ ready[Slot(expert)].epoch = active_epoch /\ ready[Slot(expert)].expert = expert
      BY <1>1, <1>2, <2>1 DEF SlotInv, Drained
    <2>3. \A q \in Ranks : ack_sequence[q][Slot(expert)] # ready'[Slot(expert)].sequence
      <3>1. ready[Slot(expert)].sequence \in Nat /\ next_sequence \in Nat
        BY <1>1, <1>2, <1>4 DEF TypeOK
      <3> QED BY <2>1, <2>2, <3>1
    <2>4. \A q \in Ranks, x \in Experts : Holds(q, x) => Holds(q, x)'
      BY <2>1 DEF Holds
    <2>5. \A q \in Ranks, x \in Experts : Outstanding(q, x) => Slot(x) # Slot(expert)
      BY <2>2 DEF Outstanding
    <2>6. \A q \in Ranks, x \in Experts : Outstanding(q, x) => Outstanding(q, x)'
      BY <1>2, <2>1, <2>5 DEF Outstanding
    <2>7. \A q \in Ranks, x \in Experts : x = expert => Outstanding(q, x)'
      BY <1>2, <2>1, <2>2, <2>3 DEF Outstanding
    <2>8. \A q \in Ranks, x \in Experts : x < expert => Holds(q, x) \/ Outstanding(q, x)
      BY <2>1 DEF DeliveryInv, Producing
    <2>9. \A q \in Ranks, x \in Experts : x < expert' => Holds(q, x)' \/ Outstanding(q, x)'
      <3>1. \A x \in Experts : x < expert' => x < expert \/ x = expert
        BY <1>1, <2>1 DEF Experts
      <3> QED BY <2>4, <2>6, <2>7, <2>8, <3>1
    <2>10. pc'[0] = "prod_drain" => expert' = expert_count
      <3>1. expert < call[0].count /\ call[0].count = expert_count
        BY <1>1, <2>1 DEF CallerInv, Current, Producing
      <3> QED BY <1>1, <1>3, <2>1, <3>1
    <2>11. \A q \in Ranks : pc'[q] = "wait_return" => pc[q] = "wait_return"
      BY <2>1
    <2>12. pc'[0] # "prod_join"
      BY <2>1
    <2> QED BY <2>1, <2>4, <2>9, <2>10, <2>11, <2>12 DEF DeliveryInv
  <1>13. ASSUME NEW r \in Ranks, ProducerDone(r) PROVE DeliveryInv'
    <2>1. /\ pc[0] = "prod_drain" /\ pc'[0] = "idle" /\ \A s \in Slots : AckedByAll(s)
          /\ producer_done_epoch' = call[0].epoch /\ UNCHANGED <<active_epoch, expert_count, join_epoch, joined, gpu>>
          /\ \A q \in Ranks : q # 0 => pc'[q] = pc[q] /\ call'[q] = call[q]
      BY <1>1, <1>13, ProducerViews DEF layer
    <2>2. /\ call[0].epoch = active_epoch /\ \A q \in Ranks : join_epoch[q] = active_epoch
      BY <1>1, <2>1 DEF CallerInv, Producing, Current
    <2>3. \A q \in Ranks : active_epoch # 0 => joined[q].count = expert
      <3>1. expert = expert_count
        BY <2>1 DEF DeliveryInv
      <3> QED BY <1>1, <2>1, <2>2, <3>1 DEF LayerInv, Current
    <2>4. \A q \in Ranks, s \in Slots : ack_sequence[q][s] = ready[s].sequence
      <3> SUFFICES ASSUME NEW q \in Ranks, NEW s \in Slots PROVE ack_sequence[q][s] = ready[s].sequence
        OBVIOUS
      <3>1. published_sequence[s] = 0 => ack_sequence[q][s] = ready[s].sequence
        BY <1>1, <2>1 DEF SlotInv, Drained, Producing
      <3>2. published_sequence[s] # 0 => published_sequence[s] = ready[s].sequence
        BY <1>1, <2>1 DEF SlotInv, Producing
      <3>3. ack_sequence[q][s] <= ready[s].sequence /\ ack_sequence[q][s] >= published_sequence[s]
        BY <1>1, <2>1 DEF SlotInv, AckedByAll
      <3> QED BY <1>4, <3>1, <3>2, <3>3
    <2>5. \A q \in Ranks, x \in Experts : x < expert => Holds(q, x)
      BY <1>2, <2>1, <2>4 DEF DeliveryInv, Producing, Outstanding
    <2>6. \A q \in Ranks, x \in Experts : Holds(q, x)' <=> Holds(q, x)
      BY <2>1 DEF Holds
    <2>7. producer_done_epoch <= active_epoch
      BY DEF DeliveryInv
    <2>8. \A q \in Ranks : pc'[q] = "wait_return" => producer_done_epoch' >= call'[q].epoch
      <3>1. \A q \in Ranks : pc'[q] = "wait_return" => producer_done_epoch >= call[q].epoch /\ call'[q] = call[q]
        BY <2>1 DEF DeliveryInv
      <3> QED BY <1>1, <1>3, <2>1, <2>2, <2>7, <3>1
    <2> QED BY <1>1, <2>1, <2>2, <2>3, <2>5, <2>6, <2>8 DEF DeliveryInv, Producing
  <1>14. ASSUME NEW r \in Ranks, ConsumerCopy(r) PROVE DeliveryInv'
    <2>1. UNCHANGED <<layer, join_epoch, joined, gpu, ready, ack_sequence, producer_done_epoch, expert, pc, call>>
      BY <1>14, CopyViews
    <2> QED BY <2>1 DEF DeliveryInv, Holds, Outstanding, layer
  <1>15. ASSUME NEW r \in Ranks, ConsumerAck(r) PROVE DeliveryInv'
    <2>1. /\ UNCHANGED <<layer, join_epoch, joined, gpu, ready, producer_done_epoch, expert, pc, call>>
          /\ \A q \in Ranks, s \in Slots : q # r \/ s # WorkSlot(r) => ack_sequence'[q][s] = ack_sequence[q][s]
          /\ ready[WorkSlot(r)].expert = work[r].expert
          /\ work[r].expert \in Experts => Holds(r, work[r].expert)
      BY <1>15, CopyViews
    <2>2. \A q \in Ranks, x \in Experts : Holds(q, x)' <=> Holds(q, x)
      BY <2>1 DEF Holds
    <2>3. ASSUME NEW q \in Ranks, NEW x \in Experts, Outstanding(q, x) PROVE Holds(q, x) \/ Outstanding(q, x)'
      <3>1. CASE q = r /\ Slot(x) = WorkSlot(r)
        BY <2>1, <2>3, <3>1 DEF Outstanding
      <3>2. CASE q # r \/ Slot(x) # WorkSlot(r)
        BY <1>2, <2>1, <2>3, <3>2 DEF Outstanding, layer
      <3> QED BY <3>1, <3>2
    <2> QED BY <2>1, <2>2, <2>3 DEF DeliveryInv, layer
  <1>16. ASSUME NEW r \in Ranks, NEW x \in Experts, DmaComplete(r, x) PROVE DeliveryInv'
    <2>1. /\ UNCHANGED <<layer, join_epoch, joined, ready, ack_sequence, producer_done_epoch, expert, pc, call>>
          /\ join_epoch[r] = active_epoch /\ gpu'[r][x] = Bytes(active_epoch, x)
          /\ \A q \in Ranks, y \in Experts : q # r \/ y # x => gpu'[q][y] = gpu[q][y]
      BY <1>16, CopyViews
    <2>2. \A q \in Ranks, y \in Experts : Holds(q, y) => Holds(q, y)'
      BY <2>1 DEF Holds
    <2>3. \A q \in Ranks, y \in Experts : Outstanding(q, y)' <=> Outstanding(q, y)
      BY <2>1 DEF Outstanding, layer
    <2> QED BY <2>1, <2>2, <2>3 DEF DeliveryInv, layer
  <1>17. ASSUME NEW c \in ClientCalls, Join(0, c) \/ RunProducer(0, c) PROVE DeliveryInv'
    <2>1. /\ UNCHANGED <<layer, join_epoch, joined, gpu, producer_done_epoch>>
          /\ \A q \in Ranks : q # 0 => pc'[q] = pc[q] /\ call'[q] = call[q]
          /\ pc'[0] \in {"idle", "poisoning"} \/ pc'[0] = "join_fence" \/ (pc'[0] = "prod_join" /\ expert' = 0)
      BY <1>1, <1>17, CallViews
    <2>2. \A q \in Ranks, x \in Experts : Holds(q, x)' <=> Holds(q, x)
      BY <2>1 DEF Holds
    <2>3. \A q \in Ranks : pc'[q] = "wait_return" => pc[q] = "wait_return" /\ call'[q] = call[q]
      BY <2>1
    <2> QED BY <2>1, <2>2, <2>3 DEF DeliveryInv, layer, Producing
  <1> QED BY <1>1, <1>5, <1>6, <1>7, <1>8, <1>9, <1>10, <1>11, <1>12, <1>13, <1>14, <1>15, <1>16, <1>17, QuietOrMoves
           DEF Moves

\* The control region starts with no layer, and nothing on the GPUs.
LEMMA BroadcastInit == Init => BroadcastInv
  <1> SUFFICES ASSUME Init PROVE BroadcastInv
    OBVIOUS
  <1>1. /\ 0 \in Ranks /\ pc = [r \in Ranks |-> "idle"] /\ active_epoch = 0 /\ expert_count = 0 /\ producer_done_epoch = 0
        /\ join_epoch = [r \in Ranks |-> 0] /\ joined = [r \in Ranks |-> NoCall]
        /\ ready = [s \in Slots |-> [sequence |-> 0, epoch |-> 0, expert |-> 0]]
        /\ gpu = [r \in Ranks |-> [x \in Experts |-> Junk]]
    BY SlotFacts DEF Init
  <1>2. OpenInv
    BY <1>1 DEF OpenInv, NoCall
  <1>3. FreshInv
    BY <1>1 DEF FreshInv, Junk, Bytes
  <1>4. OrderInv
    BY <1>1 DEF OrderInv
  <1>5. DeliveryInv
    BY <1>1 DEF DeliveryInv, Producing
  <1> QED BY <1>2, <1>3, <1>4, <1>5 DEF BroadcastInv

\* The invariant the refinement rests on holds for any clients.
LEMMA BroadcastInvariance == Spec => [](TransportInv /\ BroadcastInv)
  <1>1. Init => TransportInv /\ BroadcastInv
    BY InvInit, BroadcastInit
  <1>2. TransportInv /\ BroadcastInv /\ [Next]_vars => BroadcastInv'
    <2>1. ASSUME TransportInv, BroadcastInv, Next PROVE BroadcastInv'
      BY <2>1, OpenStep, FreshStep, OrderStep, DeliveryStep DEF BroadcastInv
    <2>2. ASSUME BroadcastInv, UNCHANGED vars PROVE BroadcastInv'
      BY <2>2 DEF BroadcastInv, OpenInv, FreshInv, OrderInv, DeliveryInv, Holds, Outstanding, vars, layer, producer, ranks,
         buffers, caller
    <2> QED BY <2>1, <2>2
  <1> QED BY <1>1, <1>2, Invariance, PTL DEF Spec

\* The cells the broadcast sees change in four steps only.
LEMMA VisibleSteps ==
    ASSUME TransportInv, BroadcastInv, Next
    PROVE  \/ UNCHANGED <<active_epoch, LayerCount, join_epoch, gpu, wait_returned_epoch>>
           \/ \E r \in Ranks : \/ JoinActivate(r) \/ JoinPublish(r) \/ WaitReturn(r)
                               \/ \E x \in Experts : DmaComplete(r, x)
  <1>1. /\ TypeOK /\ PublisherInv /\ RolesInv /\ EpochInv /\ LayerInv /\ CallerInv /\ OpenInv
        /\ 0 \in Ranks /\ active_epoch \in Nat
    BY SlotFacts DEF TransportInv, BroadcastInv, TypeOK
  <1>2. UNCHANGED wait_returned_epoch \/ \E r \in Ranks : WaitReturn(r)
    <2>1. ASSUME NEW q \in Ranks, Call(q) PROVE UNCHANGED wait_returned_epoch
      BY <2>1 DEF Call, Refused, Construct, Join, RunProducer, Wait, ranks
    <2>2. ASSUME NEW q \in Ranks, CallerStep(q) PROVE UNCHANGED wait_returned_epoch \/ WaitReturn(q)
      BY <2>2 DEF CallerStep, ConstructReturn, JoinStore, JoinActivate, JoinCheck, JoinPublish, WaitStats, ProducerStart,
         WriterStart, WriterReturn, WriterThrows, ProducerPublish, ProducerDone, CallerWaitFails, Diagnose, ranks
    <2>3. ASSUME NEW q \in Ranks, ConsumerStep(q) PROVE UNCHANGED wait_returned_epoch
      BY <2>3 DEF ConsumerStep, ConsumerInit, ConsumerInitFails, ConsumerScan, ConsumerPeek, ConsumerCopy, ConsumerAck,
         ConsumerFinish, ConsumerWaitFails, CopyFails, ranks
    <2>4. ASSUME NEW q \in Ranks, Close(q) \/ CloseReturn(q) \/ Crash(q) \/ \E x \in Experts : DmaComplete(q, x)
          PROVE  UNCHANGED wait_returned_epoch
      BY <2>4 DEF Close, CloseReturn, Crash, DmaComplete, ranks
    <2>5. ASSUME PublisherStep PROVE UNCHANGED wait_returned_epoch
      BY <2>5 DEF PublisherStep, FillPoison, ReleasePoison, ranks
    <2> QED BY <2>1, <2>2, <2>3, <2>4, <2>5 DEF Next
  <1> DEFINE Still == UNCHANGED <<active_epoch, LayerCount, join_epoch, gpu>>
  <1>3. CASE Quiet
    <2>1. Still
      BY <1>1, <1>3 DEF Quiet, LayerCount, layer, RankZeroPcs
    <2> QED BY <1>2, <2>1
  <1>4. ASSUME NEW r \in Ranks, JoinStore(r) PROVE Still
    <2>1. /\ pc[0] = "join_fence" /\ pc'[0] = "join_activate" /\ UNCHANGED <<active_epoch, join_epoch, joined, gpu>>
      BY <1>1, <1>4, MoveViews
    <2>2. joined[0].count = expert_count
      <3>1. join_epoch[0] = active_epoch
        BY <1>1, <2>1 DEF OpenInv
      <3> QED BY <1>1, <2>1, <3>1 DEF OpenInv, LayerInv, Current
    <2> QED BY <2>1, <2>2 DEF LayerCount
  <1>5. ASSUME NEW r \in Ranks, WaitStats(r) PROVE Still
    BY <1>1, <1>5, MoveViews DEF LayerCount, layer
  <1>6. ASSUME NEW r \in Ranks, ProducerStart(r) \/ WriterReturn(r) \/ ProducerPublish(r) \/ ProducerDone(r) PROVE Still
    BY <1>1, <1>6, ProducerViews DEF LayerCount, layer
  <1>7. ASSUME NEW r \in Ranks, ConsumerCopy(r) \/ ConsumerAck(r) PROVE Still
    BY <1>7, CopyViews DEF LayerCount, layer
  <1>8. ASSUME NEW c \in ClientCalls, Join(0, c) \/ RunProducer(0, c) PROVE Still
    BY <1>1, <1>8, CallViews DEF LayerCount, layer
  <1> HIDE DEF Still
  <1>9. \/ Quiet \/ Still
        \/ \E r \in Ranks : \/ JoinActivate(r) \/ JoinPublish(r) \/ \E x \in Experts : DmaComplete(r, x)
    BY <1>1, <1>4, <1>5, <1>6, <1>7, <1>8, QuietOrMoves DEF Moves
  <1> QED BY <1>2, <1>3, <1>9 DEF Still

\* Each of them is a step of the broadcast: the release store of join opens a layer,
\* its last store enters it, a completed copy is a receipt, and wait tells.
LEMMA OpenRefines ==
    ASSUME TransportInv, BroadcastInv, NEW r \in Ranks, JoinActivate(r)
    PROVE  Broadcast!BNext
  <1>1. /\ TypeOK /\ RolesInv /\ EpochInv /\ LayerInv /\ CallerInv /\ OpenInv /\ FreshInv
        /\ 0 \in Ranks /\ active_epoch \in Nat /\ join_epoch \in [Ranks -> Nat] /\ wait_returned_epoch \in [Ranks -> Nat]
        /\ call \in [Ranks -> Calls] /\ gpu \in [Ranks -> [Experts -> AllBytes]]
    BY SlotFacts DEF TransportInv, BroadcastInv, TypeOK
  <1>2. /\ pc[0] = "join_activate" /\ pc'[0] = "join_publish" /\ active_epoch' = call[0].epoch
        /\ UNCHANGED <<join_epoch, joined, call, gpu, expert_count, wait_returned_epoch>>
    BY <1>1, MoveViews
  <1>3. UNCHANGED Healthy
    BY DEF JoinActivate, poison, Healthy
  <1>4. /\ call[0].epoch \in Epochs /\ call[0].count \in Counts /\ call[0].epoch > active_epoch
        /\ call[0].count = expert_count /\ call[0].epoch \in Nat
    BY <1>1, <1>2 DEF OpenInv, CallerInv, Calls
  <1>5. LayerCount' = call[0].count
    BY <1>2, <1>4 DEF LayerCount
  <1>6. \A q \in Ranks : /\ wait_returned_epoch[q] = active_epoch
                         /\ join_epoch[q] <= active_epoch /\ join_epoch[q] \in Nat
                         /\ \A x \in Experts : gpu[q][x].epoch \in Nat /\ gpu[q][x].epoch <= join_epoch[q]
    BY <1>1, <1>2 DEF LayerInv, AllReturned, EpochInv, FreshInv, AllBytes
  <1>7. \A q \in Ranks : /\ wait_returned_epoch'[q] # active_epoch' /\ join_epoch'[q] # active_epoch'
                         /\ \A x \in Experts : gpu'[q][x] # Bytes(active_epoch', x)
    <2>1. \A q \in Ranks : wait_returned_epoch[q] # call[0].epoch /\ join_epoch[q] # call[0].epoch
      BY <1>1, <1>4, <1>6
    <2>2. \A q \in Ranks, x \in Experts : gpu[q][x].epoch # call[0].epoch
      BY <1>1, <1>4, <1>6
    <2> QED BY <1>2, <2>1, <2>2 DEF Bytes
  <1>8. PICK e \in Epochs, n \in Counts : e = call[0].epoch /\ n = call[0].count
    BY <1>4
  <1>9. Broadcast!Open(e, n)
    BY <1>1, <1>2, <1>3, <1>4, <1>5, <1>6, <1>7, <1>8 DEF Broadcast!Open
  <1> QED BY <1>9 DEF Broadcast!BNext

\* The last store of join.
LEMMA EnterRefines ==
    ASSUME TransportInv, BroadcastInv, NEW r \in Ranks, JoinPublish(r)
    PROVE  [Broadcast!BNext]_(Broadcast!bvars)
  <1>1. /\ TypeOK /\ RolesInv /\ EpochInv /\ LayerInv /\ CallerInv /\ 0 \in Ranks /\ active_epoch \in Nat
        /\ join_epoch \in [Ranks -> Nat]
    BY SlotFacts DEF TransportInv, TypeOK
  <1>2. /\ pc[r] = "join_publish" /\ pc'[r] = "idle" /\ join_epoch'[r] = call[r].epoch
        /\ UNCHANGED <<active_epoch, expert_count, gpu, wait_returned_epoch>>
        /\ \A q \in Ranks : q # r => join_epoch'[q] = join_epoch[q] /\ joined'[q] = joined[q] /\ pc'[q] = pc[q]
    BY <1>1, MoveViews DEF layer
  <1>3. UNCHANGED Healthy
    BY DEF JoinPublish, poison, Healthy
  <1>4. UNCHANGED LayerCount
    BY <1>1, <1>2 DEF LayerCount
  <1>5. UNCHANGED [q \in Ranks |-> {x \in Experts : x < LayerCount /\ gpu[q][x] = Bytes(active_epoch, x)}]
    BY <1>2, <1>4
  <1>6. UNCHANGED {q \in Ranks : active_epoch # 0 /\ wait_returned_epoch[q] = active_epoch}
    BY <1>2
  <1>7. CASE join_epoch[r] = call[r].epoch
    <2>1. \A q \in Ranks : join_epoch'[q] = join_epoch[q]
      BY <1>2, <1>7
    <2>2. UNCHANGED {q \in Ranks : active_epoch # 0 /\ join_epoch[q] = active_epoch}
      BY <1>2, <2>1
    <2> QED BY <1>2, <1>3, <1>4, <1>5, <1>6, <2>2 DEF Broadcast!bvars
  <1>8. CASE join_epoch[r] # call[r].epoch
    <2>1. call[r].epoch = active_epoch /\ call[r].epoch # 0 /\ join_epoch[r] # active_epoch
      BY <1>1, <1>2, <1>8 DEF CallerInv, Current
    <2>2. {q \in Ranks : active_epoch # 0 /\ join_epoch[q] = active_epoch}' =
          {q \in Ranks : active_epoch # 0 /\ join_epoch[q] = active_epoch} \cup {r}
      BY <1>2, <2>1
    <2>3. r \notin {q \in Ranks : active_epoch # 0 /\ join_epoch[q] = active_epoch}
      BY <2>1
    <2>4. Broadcast!Enter(r)
      BY <1>2, <1>3, <1>4, <1>5, <1>6, <2>1, <2>2, <2>3 DEF Broadcast!Enter
    <2> QED BY <2>4 DEF Broadcast!BNext
  <1> QED BY <1>7, <1>8

\* The copies of copy_expert, as the GPU finishes them.
LEMMA ReceiveRefines ==
    ASSUME TransportInv, BroadcastInv, NEW r \in Ranks, NEW x \in Experts, DmaComplete(r, x)
    PROVE  [Broadcast!BNext]_(Broadcast!bvars)
  <1> DEFINE has == [q \in Ranks |-> {y \in Experts : y < LayerCount /\ gpu[q][y] = Bytes(active_epoch, y)}]
  <1>1. /\ TypeOK /\ EpochInv /\ LayerInv /\ DmaInv /\ FreshInv /\ OrderInv /\ 0 \in Ranks /\ active_epoch \in Nat
        /\ join_epoch \in [Ranks -> Nat] /\ consumer_done_epoch \in [Ranks -> Nat]
        /\ wait_returned_epoch \in [Ranks -> Nat]
    BY SlotFacts DEF TransportInv, BroadcastInv, TypeOK
  <1>2. /\ UNCHANGED <<active_epoch, expert_count, join_epoch, joined, pc, wait_returned_epoch>>
        /\ x \in dma[r] /\ join_epoch[r] = active_epoch /\ gpu'[r][x] = Bytes(active_epoch, x)
        /\ \A q \in Ranks, y \in Experts : q # r \/ y # x => gpu'[q][y] = gpu[q][y]
    BY CopyViews DEF layer
  <1>3. UNCHANGED <<Healthy, LayerCount>>
    BY <1>2 DEF DmaComplete, poison, Healthy, LayerCount
  <1>4. /\ ready[Slot(x)].epoch = active_epoch /\ x < expert_count /\ consumer_done_epoch[r] < active_epoch
    BY <1>1, <1>2 DEF DmaInv
  <1>5. Slot(x) \in Slots /\ x \in Nat
    BY SlotFacts, ExpertsAssumption DEF Experts
  <1>6. active_epoch # 0 /\ \A q \in Ranks : join_epoch[q] = active_epoch
    <2>1. active_epoch # 0
      BY <1>1, <1>4
    <2> QED BY <1>4, <1>5, <2>1, <1>1 DEF FreshInv
  <1>7. LayerCount = expert_count
    <2>1. wait_returned_epoch[r] # active_epoch
      BY <1>1, <1>4 DEF EpochInv
    <2> QED BY <1>1, <2>1 DEF LayerInv, AllReturned, LayerCount
  <1>8. {q \in Ranks : active_epoch # 0 /\ join_epoch[q] = active_epoch} = Ranks
    BY <1>6
  <1>9. UNCHANGED <<{q \in Ranks : active_epoch # 0 /\ join_epoch[q] = active_epoch},
                    {q \in Ranks : active_epoch # 0 /\ wait_returned_epoch[q] = active_epoch}>>
    BY <1>2
  <1>10. has' = [has EXCEPT ![r] = has[r] \cup {x}]
    <2>1. \A q \in Ranks : q # r => has'[q] = has[q]
      BY <1>2, <1>3
    <2>2. has'[r] = has[r] \cup {x}
      BY <1>2, <1>3, <1>4, <1>7
    <2> QED BY <2>1, <2>2
  <1>11. CASE x \in has[r]
    <2>1. has' = has
      BY <1>10, <1>11
    <2> QED BY <1>2, <1>3, <1>9, <2>1 DEF Broadcast!bvars
  <1>12. CASE x \notin has[r]
    <2>1. gpu[r][x] # Bytes(active_epoch, x)
      BY <1>4, <1>7, <1>12
    <2>2. \A y \in Experts : y < x => gpu[r][y] = Bytes(active_epoch, y)
      BY <1>1, <1>2, <1>6 DEF OrderInv, Holds
    <2>3. \A y \in Experts : y > x => gpu[r][y] # Bytes(active_epoch, y)
      <3> SUFFICES ASSUME NEW y \in Experts, y > x, gpu[r][y] = Bytes(active_epoch, y) PROVE FALSE
        OBVIOUS
      <3>1. x < y
        BY DEF Experts
      <3>2. Holds(r, x)
        BY <1>1, <1>2, <1>6, <3>1 DEF OrderInv, Holds
      <3> QED BY <1>2, <2>1, <3>2 DEF Holds
    <2>4. expert_count \in 0 .. NumExperts
      BY <1>1 DEF TypeOK
    <2>5. \A y \in Experts : (y < LayerCount /\ gpu[r][y] = Bytes(active_epoch, y)) <=> y \in 0 .. (x - 1)
      <3>1. \A y \in Experts : y < x \/ y = x \/ y > x
        BY <1>5 DEF Experts
      <3>2. \A y \in Experts : y < x => y < expert_count
        BY <1>4, <1>5, <2>4 DEF Experts
      <3>3. \A y \in Experts : y \in 0 .. (x - 1) <=> y < x
        BY <1>5 DEF Experts
      <3> QED BY <1>7, <2>1, <2>2, <2>3, <3>1, <3>2, <3>3
    <2>6. 0 .. (x - 1) \subseteq Experts
      BY ExpertsAssumption DEF Experts
    <2>7. has[r] = 0 .. (x - 1)
      BY <2>5, <2>6
    <2> HIDE DEF has
    <2>8. /\ {q \in Ranks : active_epoch # 0 /\ join_epoch[q] = active_epoch} = Ranks
          /\ x < LayerCount /\ has[r] = 0 .. (x - 1) /\ has' = [has EXCEPT ![r] = @ \cup {x}]
      BY <1>4, <1>7, <1>8, <1>10, <2>7
    <2>9. Broadcast!Receive(r, x)
      BY <1>2, <1>3, <1>9, <2>8 DEF Broadcast!Receive, has
    <2> QED BY <2>9 DEF Broadcast!BNext
  <1> QED BY <1>11, <1>12

\* The last store of wait.
LEMMA TellRefines ==
    ASSUME TransportInv, BroadcastInv, NEW r \in Ranks, WaitReturn(r)
    PROVE  [Broadcast!BNext]_(Broadcast!bvars)
  <1> DEFINE has == [q \in Ranks |-> {y \in Experts : y < LayerCount /\ gpu[q][y] = Bytes(active_epoch, y)}]
  <1>1. /\ TypeOK /\ RolesInv /\ EpochInv /\ LayerInv /\ CallerInv /\ DeliveryInv /\ 0 \in Ranks /\ active_epoch \in Nat
        /\ join_epoch \in [Ranks -> Nat] /\ consumer_done_epoch \in [Ranks -> Nat] /\ producer_done_epoch \in Nat
        /\ wait_returned_epoch \in [Ranks -> Nat] /\ pc \in [Ranks -> CallerPcs]
    BY SlotFacts DEF TransportInv, BroadcastInv, TypeOK
  <1>2. /\ pc[r] = "wait_return" /\ UNCHANGED <<active_epoch, expert_count, join_epoch, joined, gpu, Healthy>>
        /\ wait_returned_epoch'[r] = call[r].epoch /\ pc'[r] = "idle"
        /\ \A q \in Ranks : q # r => wait_returned_epoch'[q] = wait_returned_epoch[q] /\ pc'[q] = pc[q]
    BY <1>1 DEF WaitReturn, CallEnds, poison, Healthy, layer, buffers
  <1>3. UNCHANGED LayerCount
    BY <1>1, <1>2 DEF LayerCount
  <1>4. /\ call[r].epoch = join_epoch[r] /\ join_epoch[r] # 0 /\ producer_done_epoch >= call[r].epoch
    BY <1>1, <1>2 DEF CallerInv, DeliveryInv
  <1>5. UNCHANGED {q \in Ranks : active_epoch # 0 /\ join_epoch[q] = active_epoch}
    BY <1>2
  <1>6. UNCHANGED has
    BY <1>2, <1>3
  <1>7. CASE wait_returned_epoch[r] = call[r].epoch
    <2>1. \A q \in Ranks : wait_returned_epoch'[q] = wait_returned_epoch[q]
      BY <1>2, <1>7
    <2>2. UNCHANGED {q \in Ranks : active_epoch # 0 /\ wait_returned_epoch[q] = active_epoch}
      BY <1>2, <2>1
    <2> QED BY <1>2, <1>3, <1>5, <1>6, <2>2 DEF Broadcast!bvars
  <1>8. CASE wait_returned_epoch[r] # call[r].epoch
    <2>1. join_epoch[r] = active_epoch
      <3>1. join_epoch[r] <= active_epoch /\ (join_epoch[r] < active_epoch => wait_returned_epoch[r] = join_epoch[r])
        BY <1>1 DEF EpochInv
      <3> QED BY <1>1, <1>4, <1>8, <3>1
    <2>2. producer_done_epoch = active_epoch
      BY <1>1, <1>4, <2>1 DEF DeliveryInv
    <2>3. \A q \in Ranks : /\ join_epoch[q] = active_epoch
                           /\ \A y \in Experts : y < joined[q].count => gpu[q][y] = Bytes(active_epoch, y)
      BY <1>1, <1>4, <2>1, <2>2 DEF DeliveryInv, Holds
    <2>4. LayerCount = expert_count /\ \A q \in Ranks : joined[q].count = expert_count
      <3>1. pc[0] # "join_activate"
        BY <1>1, <1>4, <1>8, <2>1 DEF LayerInv, AllReturned
      <3> QED BY <1>1, <1>4, <2>1, <2>3, <3>1 DEF LayerInv, Current, LayerCount
    <2>5. expert_count \in 0 .. NumExperts
      BY <1>1 DEF TypeOK
    <2>6. \A y \in Experts : y < expert_count <=> y \in 0 .. (expert_count - 1)
      BY <2>5 DEF Experts
    <2>7. 0 .. (expert_count - 1) \subseteq Experts
      BY <2>5, ExpertsAssumption DEF Experts
    <2>8. \A q \in Ranks : has[q] = 0 .. (LayerCount - 1)
      BY <2>3, <2>4, <2>6, <2>7
    <2>9. {q \in Ranks : active_epoch # 0 /\ wait_returned_epoch[q] = active_epoch}' =
          {q \in Ranks : active_epoch # 0 /\ wait_returned_epoch[q] = active_epoch} \cup {r}
      BY <1>2, <1>4, <2>1
    <2>10. /\ r \in {q \in Ranks : active_epoch # 0 /\ join_epoch[q] = active_epoch}
           /\ r \notin {q \in Ranks : active_epoch # 0 /\ wait_returned_epoch[q] = active_epoch}
      BY <1>4, <1>8, <2>1
    <2>11. Broadcast!Tell(r)
      BY <1>2, <1>3, <1>5, <1>6, <2>8, <2>9, <2>10 DEF Broadcast!Tell
    <2> QED BY <2>11 DEF Broadcast!BNext
  <1> QED BY <1>7, <1>8

\* Every behaviour of the transport, with any clients and any failures, is one of the
\* broadcast of layers: one layer at a time, by all ranks together, in order, and no
\* rank leaves wait before all of them have all of it.
THEOREM TransportBroadcasts == Spec => ImplementsBroadcast
  <1>1. Init => Broadcast!BInit
    <2> SUFFICES ASSUME Init PROVE Broadcast!BInit
      OBVIOUS
    <2>1. /\ active_epoch = 0 /\ expert_count = 0 /\ poison_state = "healthy" /\ pc = [r \in Ranks |-> "idle"]
          /\ 0 \in Ranks
      BY SlotFacts DEF Init
    <2>2. LayerCount = 0
      BY <2>1 DEF LayerCount
    <2>3. \A x \in Experts : ~(x < 0)
      BY DEF Experts
    <2> QED BY <2>1, <2>2, <2>3 DEF Broadcast!BInit, Healthy
  <1>2. ASSUME TransportInv, BroadcastInv, Next PROVE [Broadcast!BNext]_(Broadcast!bvars)
    <2>1. CASE UNCHANGED <<active_epoch, LayerCount, join_epoch, gpu, wait_returned_epoch>>
      <3>1. UNCHANGED <<active_epoch, LayerCount, {q \in Ranks : active_epoch # 0 /\ join_epoch[q] = active_epoch},
                        [q \in Ranks |-> {x \in Experts : x < LayerCount /\ gpu[q][x] = Bytes(active_epoch, x)}],
                        {q \in Ranks : active_epoch # 0 /\ wait_returned_epoch[q] = active_epoch}>>
        BY <2>1
      <3>2. ~Healthy => ~Healthy'
        BY <1>2, LatchStep DEF Latch, Healthy
      <3>3. CASE Healthy /\ ~Healthy'
        <4>1. Broadcast!Fail
          BY <3>1, <3>3 DEF Broadcast!Fail
        <4> QED BY <4>1 DEF Broadcast!BNext
      <3>4. CASE Healthy' <=> Healthy
        BY <3>1, <3>4 DEF Broadcast!bvars, Healthy
      <3> QED BY <3>2, <3>3, <3>4
    <2> QED BY <1>2, <2>1, VisibleSteps, OpenRefines, EnterRefines, ReceiveRefines, TellRefines
  <1>3. UNCHANGED vars => UNCHANGED Broadcast!bvars
    BY DEF vars, poison, layer, ranks, buffers, caller, Broadcast!bvars, LayerCount, Healthy
  <1>4. TransportInv /\ BroadcastInv /\ [Next]_vars => [Broadcast!BNext]_(Broadcast!bvars)
    BY <1>2, <1>3
  <1> QED BY <1>1, <1>4, BroadcastInvariance, PTL DEF Spec, ImplementsBroadcast, Broadcast!BSpec

-----------------------------------------------------------------------------
(* Clients that make the calls of their layers in order.                   *)

\* A step that leaves the code of a failure alone, or publishes another one than a
\* breach of the protocol.
Unaccused ==
    /\ error_code' \in {error_code, publisher.code}
    /\ publisher'.code \in {publisher.code, "none", "timeout", "cuda_init", "cuda_copy", "writer", "closed"}

\* With such clients every step is of this kind: none of the four places that poison
\* the transport for a breach of the protocol is reached.
LEMMA LawfulStepUnaccused ==
    ASSUME TransportInv, OpenInv, Lawful, LawInv, Next
    PROVE  Unaccused
  <1>1. /\ TypeOK /\ RolesInv /\ EpochInv /\ LayerInv /\ CallerInv /\ ConsumerInv /\ 0 \in Ranks /\ active_epoch \in Nat
        /\ join_epoch \in [Ranks -> Nat] /\ joined \in [Ranks -> Calls] /\ wait_returned_epoch \in [Ranks -> Nat]
        /\ call \in [Ranks -> Calls] /\ layer_id \in Nat /\ expert_count \in 0 .. NumExperts
    BY SlotFacts DEF TransportInv, TypeOK
  <1>2. ASSUME UNCHANGED poison PROVE Unaccused
    BY <1>2 DEF poison, Unaccused
  <1>3. ASSUME NEW r, NEW thread, NEW code \in {"timeout", "cuda_init", "cuda_copy", "writer", "closed"},
               ClaimPoison(r, thread, code)
        PROVE  Unaccused
    BY <1>3 DEF ClaimPoison, Unaccused
  <1>4. ASSUME FillPoison \/ ReleasePoison PROVE Unaccused
    BY <1>4 DEF FillPoison, ReleasePoison, Unaccused, NoPublisher
  <1>5. ASSUME NEW c \in ClientCalls, Join(0, c) PROVE UNCHANGED poison
    <2>1. pc[0] = "idle" /\ c.epoch > joined[0].epoch
      BY <1>5 DEF Join, Enters, MayJoin
    <2>2. joined[0].epoch = active_epoch
      BY <1>1, <2>1 DEF OpenInv, EpochInv
    <2>3. c.epoch \in Nat
      BY CallFacts DEF Calls
    <2>4. ~(c.epoch <= active_epoch)
      BY <1>1, <2>1, <2>2, <2>3
    <2> QED BY <1>5, <2>4 DEF Join
  <1>6. ASSUME NEW r \in Ranks, r # 0, NEW c \in ClientCalls, Join(r, c) PROVE UNCHANGED poison
    BY <1>6 DEF Join
  <1>7. ASSUME NEW r \in Ranks, NEW c \in ClientCalls, RunProducer(r, c) PROVE UNCHANGED poison
    <2>1. r = 0 /\ pc[0] = "idle" /\ c = joined[0]
      BY <1>7 DEF RunProducer, Enters, MayProduce
    <2>2. c.epoch # 0 /\ c \in Calls
      BY CallFacts
    <2>3. join_epoch[0] = active_epoch /\ joined[0].epoch = active_epoch
      BY <1>1, <2>1 DEF OpenInv, EpochInv
    <2>4. Current(c)
      BY <1>1, <2>1, <2>2, <2>3 DEF LayerInv
    <2>5. c = [epoch |-> active_epoch, layer |-> layer_id, count |-> expert_count]
      BY <2>2, <2>4 DEF Current, Calls
    <2>6. join_epoch[r] = c.epoch
      BY <2>1, <2>3
    <2> QED BY <1>7, <2>5, <2>6 DEF RunProducer
  <1>8. ASSUME NEW r \in Ranks, NEW c \in ClientCalls, Wait(r, c) PROVE UNCHANGED poison
    <2>1. c = joined[r]
      BY <1>8 DEF Wait, MayWait
    <2>2. join_epoch[r] = c.epoch
      BY <1>1, <2>1 DEF EpochInv
    <2> QED BY <1>8, <2>2 DEF Wait
  <1>9. ASSUME NEW r \in Ranks, JoinCheck(r) PROVE UNCHANGED poison
    <2>1. pc[r] = "join_wait" /\ r # 0
      BY <1>1, <1>9 DEF JoinCheck, RolesInv
    <2>2. /\ call[r] \in Plan /\ call[r].epoch > join_epoch[r]
          /\ \A d \in Plan : d.epoch < call[r].epoch => d.epoch <= join_epoch[r]
          /\ \A d \in Plan : d.epoch < active_epoch => d.epoch <= join_epoch[r]
      BY <2>1 DEF LawInv, NextPlanned
    <2>3. call[r].epoch \in Nat /\ join_epoch[r] \in Nat /\ join_epoch[r] <= active_epoch
      BY <1>1 DEF Calls, EpochInv
    <2>4. ~(active_epoch > call[r].epoch)
      BY <1>1, <2>2, <2>3
    <2>5. ASSUME active_epoch = call[r].epoch PROVE layer_id = call[r].layer /\ expert_count = call[r].count
      <3>1. pc[0] # "join_activate"
        <4>1. pc[0] = "join_activate" => wait_returned_epoch[r] = active_epoch
          BY <1>1 DEF LayerInv, AllReturned
        <4>2. wait_returned_epoch[r] <= consumer_done_epoch[r] /\ consumer_done_epoch[r] <= join_epoch[r]
          BY <1>1 DEF EpochInv
        <4>3. consumer_done_epoch[r] \in Nat /\ wait_returned_epoch[r] \in Nat
          BY <1>1 DEF TypeOK
        <4> QED BY <1>1, <2>2, <2>3, <2>5, <4>1, <4>2, <4>3
      <3>2. active_epoch # 0
        BY <1>1, <2>2, <2>3, <2>5
      <3>3. [epoch |-> active_epoch, layer |-> layer_id, count |-> expert_count] \in Plan
        BY <3>1, <3>2 DEF LawInv
      <3>4. call[r] = [epoch |-> active_epoch, layer |-> layer_id, count |-> expert_count]
        BY <2>2, <2>5, <3>3, PlanAssumption
      <3> QED BY <3>4
    <2>6. WaitOver(r) => active_epoch = call[r].epoch
      BY <2>1 DEF WaitOver, NoWait, WaitPredicate
    <2> QED BY <1>9, <2>4, <2>5, <2>6 DEF JoinCheck
  <1>10. ASSUME NEW r \in Ranks, ConsumerPeek(r) PROVE UNCHANGED poison
    <2>1. work[r].epoch = active_epoch
      BY <1>1, <1>10 DEF ConsumerPeek, ConsumerInv, Consuming
    <2> QED BY <1>1, <1>10, <2>1 DEF ConsumerPeek
  <1>11. ASSUME NEW r \in Ranks, Refused(r) \/ Construct(r) \/ ConstructReturn(r) \/ JoinStore(r) \/ JoinActivate(r) \/
                JoinPublish(r) \/ WaitStats(r) \/ WaitReturn(r) \/ ProducerStart(r) \/ WriterStart(r) \/ WriterReturn(r) \/
                ProducerPublish(r) \/ ProducerDone(r) \/ Diagnose(r) \/ ConsumerInit(r) \/ ConsumerScan(r) \/
                ConsumerCopy(r) \/ ConsumerAck(r) \/ ConsumerFinish(r) \/ Close(r) \/ Crash(r) \/
                \E x \in Experts : DmaComplete(r, x)
         PROVE  UNCHANGED poison
    BY <1>11 DEF Refused, Construct, ConstructReturn, JoinStore, JoinActivate, JoinPublish, WaitStats, WaitReturn,
       ProducerStart, WriterStart, WriterReturn, ProducerPublish, ProducerDone, Diagnose, ConsumerInit, ConsumerScan,
       ConsumerCopy, ConsumerAck, ConsumerFinish, ConsumerExits, Close, Crash, DmaComplete
  <1>12. ASSUME NEW r \in Ranks, WriterThrows(r) \/ CallerWaitFails(r) PROVE Unaccused
    BY <1>2, <1>3, <1>12 DEF WriterThrows, CallerWaitFails, CallerPoisons
  <1>13. ASSUME NEW r \in Ranks, ConsumerInitFails(r) \/ ConsumerWaitFails(r) \/ CopyFails(r) \/ CloseReturn(r) PROVE Unaccused
    BY <1>2, <1>3, <1>13 DEF ConsumerInitFails, ConsumerWaitFails, CopyFails, CloseReturn, ConsumerExits, ConsumerFails
  <1> QED BY <1>2, <1>4, <1>5, <1>6, <1>7, <1>8, <1>9, <1>10, <1>11, <1>12, <1>13
           DEF Next, PublisherStep, Call, CallerStep, ConsumerStep

\* A rank gets to the waits of join by a call of join.
LEMMA WaitsOfJoin ==
    ASSUME TypeOK, PublisherInv, RolesInv, Next, NEW q \in Ranks,
           pc'[q] \in {"join_fence", "join_activate", "join_wait"}
    PROVE  \/ pc[q] \in {"join_fence", "join_activate", "join_wait"} /\ call'[q] = call[q]
           \/ \E c \in ClientCalls : Join(q, c) /\ call'[q] = c
  <1> DEFINE Waits == {"join_fence", "join_activate", "join_wait"}
             Stays == pc'[q] \in Waits => pc[q] \in Waits /\ call'[q] = call[q]
  <1>1. pc \in [Ranks -> CallerPcs] /\ call \in [Ranks -> Calls]
    BY DEF TypeOK
  <1>2. ASSUME NEW r \in Ranks, NEW c \in ClientCalls, Join(r, c) PROVE Stays \/ (Join(q, c) /\ call'[q] = c)
    BY <1>1, <1>2 DEF Join, CallerPoisons
  <1>3. ASSUME NEW r \in Ranks, NEW c \in ClientCalls, RunProducer(r, c) \/ Wait(r, c) PROVE Stays
    BY <1>1, <1>3 DEF RunProducer, Wait, CallerPoisons
  <1>4. ASSUME NEW r \in Ranks, Refused(r) \/ Construct(r) PROVE Stays
    BY <1>1, <1>4 DEF Refused, Construct, CallerGoes
  <1>5. ASSUME NEW r \in Ranks, CallerStep(r) PROVE Stays
    <2>1. ASSUME ConstructReturn(r) \/ JoinStore(r) \/ JoinActivate(r) \/ JoinCheck(r) \/ JoinPublish(r) PROVE Stays
      BY <1>1, <2>1 DEF ConstructReturn, JoinStore, JoinActivate, JoinCheck, JoinPublish, CallerGoes, CallEnds, CallerPoisons
    <2>2. ASSUME WaitStats(r) \/ WaitReturn(r) \/ CallerWaitFails(r) \/ Diagnose(r) PROVE Stays
      BY <1>1, <2>2 DEF WaitStats, WaitReturn, CallerWaitFails, Diagnose, CallerGoes, CallEnds, CallerPoisons
    <2>3. ASSUME ProducerStart(r) \/ WriterStart(r) \/ WriterReturn(r) \/ WriterThrows(r) \/ ProducerPublish(r) \/
                 ProducerDone(r) PROVE Stays
      BY <1>1, <2>3 DEF ProducerStart, WriterStart, WriterReturn, WriterThrows, ProducerPublish, ProducerDone, CallerGoes,
         CallEnds, CallerPoisons
    <2> QED BY <1>5, <2>1, <2>2, <2>3 DEF CallerStep
  <1>6. ASSUME NEW r \in Ranks, ConsumerStep(r) \/ Close(r) \/ CloseReturn(r) \/ Crash(r) \/
               \E x \in Experts : DmaComplete(r, x) PROVE UNCHANGED <<pc, call>>
    BY <1>6 DEF ConsumerStep, ConsumerInit, ConsumerInitFails, ConsumerScan, ConsumerPeek, ConsumerCopy, ConsumerAck,
       ConsumerFinish, ConsumerWaitFails, CopyFails, Close, CloseReturn, Crash, DmaComplete, caller
  <1>7. ASSUME PublisherStep PROVE Stays
    BY <1>1, <1>7 DEF PublisherStep, FillPoison, ReleasePoison, caller
  <1> QED BY <1>2, <1>3, <1>4, <1>5, <1>6, <1>7 DEF Next, Call

\* A step of lawful clients leaves every rank at most one planned layer behind.
LEMMA LawStep ==
    ASSUME TransportInv, OpenInv, Lawful, LawInv, Next
    PROVE  LawInv'
  <1>1. /\ TypeOK /\ PublisherInv /\ RolesInv /\ EpochInv /\ LayerInv /\ CallerInv /\ 0 \in Ranks /\ active_epoch \in Nat
        /\ join_epoch \in [Ranks -> Nat] /\ joined \in [Ranks -> Calls] /\ wait_returned_epoch \in [Ranks -> Nat]
        /\ call \in [Ranks -> Calls] /\ layer_id \in Nat /\ expert_count \in 0 .. NumExperts
    BY SlotFacts DEF TransportInv, TypeOK
  <1>2. \A d \in Plan : d.epoch \in Nat
    BY ModeAssumption DEF Calls
  <1>3. error_code' # "protocol" /\ publisher'.code # "protocol"
    BY LawfulStepUnaccused DEF Unaccused, LawInv
  <1> DEFINE Behind == \A q \in Ranks : \A d \in Plan : d.epoch < active_epoch => d.epoch <= join_epoch[q]
             Planned == active_epoch # 0 /\ pc[0] # "join_activate" =>
                            [epoch |-> active_epoch, layer |-> layer_id, count |-> expert_count] \in Plan
             Waits == {"join_fence", "join_activate", "join_wait"}
             Nexts == \A q \in Ranks : pc[q] \in Waits => NextPlanned(call[q], join_epoch[q])
  <1>4. Behind /\ Planned /\ Nexts
    <2>1. Behind
      BY DEF LawInv
    <2>2. Planned
      BY DEF LawInv
    <2>3. Nexts
      BY DEF LawInv
    <2> QED BY <2>1, <2>2, <2>3
  <1>5. ASSUME NEW q \in Ranks, NEW c \in ClientCalls, Join(q, c) PROVE NextPlanned(c, join_epoch[q]) /\ UNCHANGED join_epoch
    BY <1>1, <1>5 DEF Join, MayJoin, EpochInv, NextPlanned, ranks
  <1>6. ASSUME \A q \in Ranks : join_epoch'[q] = join_epoch[q] \/ pc'[q] \notin Waits PROVE Nexts'
    <2> SUFFICES ASSUME NEW q \in Ranks, pc'[q] \in Waits PROVE NextPlanned(call'[q], join_epoch'[q])
      OBVIOUS
    <2>1. join_epoch'[q] = join_epoch[q]
      BY <1>6
    <2>2. CASE pc[q] \in Waits /\ call'[q] = call[q]
      BY <1>4, <2>1, <2>2
    <2>3. CASE \E c \in ClientCalls : Join(q, c) /\ call'[q] = c
      <3>1. PICK c \in ClientCalls : Join(q, c) /\ call'[q] = c
        BY <2>3
      <3>2. NextPlanned(c, join_epoch[q])
        BY <1>5, <3>1
      <3> QED BY <2>1, <3>1, <3>2
    <2> QED BY <1>1, <2>2, <2>3, WaitsOfJoin
  <1>7. ASSUME UNCHANGED <<layer, join_epoch>>, pc[0] = "join_activate" => pc'[0] = "join_activate" PROVE LawInv'
    <2>1. Nexts'
      BY <1>6, <1>7
    <2>2. Behind' /\ Planned'
      BY <1>4, <1>7 DEF layer
    <2> QED BY <1>3, <2>1, <2>2 DEF LawInv
  <1>8. CASE Quiet
    BY <1>7, <1>8 DEF Quiet
  <1>9. ASSUME NEW r \in Ranks, JoinStore(r) PROVE LawInv'
    <2>1. pc'[0] = "join_activate" /\ UNCHANGED <<active_epoch, join_epoch>>
      BY <1>1, <1>9, MoveViews
    <2>2. Nexts'
      BY <1>6, <2>1
    <2>3. Behind' /\ Planned'
      BY <1>4, <2>1
    <2> QED BY <1>3, <2>2, <2>3 DEF LawInv
  <1>10. ASSUME NEW r \in Ranks, JoinActivate(r) PROVE LawInv'
    <2>1. /\ pc[0] = "join_activate" /\ pc'[0] = "join_publish" /\ active_epoch' = call[0].epoch
          /\ UNCHANGED <<join_epoch, layer_id, expert_count>>
      BY <1>1, <1>10, MoveViews
    <2>2. /\ call[0] \in Plan /\ call[0].layer = layer_id /\ call[0].count = expert_count
          /\ \A d \in Plan : d.epoch < call[0].epoch => d.epoch <= join_epoch[0]
      BY <1>1, <1>4, <2>1 DEF CallerInv, NextPlanned
    <2>3. call[0] = [epoch |-> call[0].epoch, layer |-> layer_id, count |-> expert_count]
      BY <1>1, <2>2 DEF Calls
    <2>4. \A q \in Ranks : join_epoch[q] = active_epoch
      <3>1. \A q \in Ranks : /\ wait_returned_epoch[q] = active_epoch /\ wait_returned_epoch[q] <= consumer_done_epoch[q]
                             /\ consumer_done_epoch[q] <= join_epoch[q] /\ join_epoch[q] <= active_epoch
        BY <1>1, <2>1 DEF LayerInv, AllReturned, EpochInv
      <3>2. \A q \in Ranks : consumer_done_epoch[q] \in Nat
        BY <1>1 DEF TypeOK
      <3> QED BY <1>1, <3>1, <3>2
    <2>5. Behind'
      BY <1>1, <2>1, <2>2, <2>4
    <2>6. Planned'
      BY <2>1, <2>2, <2>3
    <2>7. Nexts'
      BY <1>6, <2>1
    <2> QED BY <1>3, <2>5, <2>6, <2>7 DEF LawInv
  <1>11. ASSUME NEW r \in Ranks, JoinPublish(r) PROVE LawInv'
    <2>1. /\ pc[r] = "join_publish" /\ pc'[r] = "idle" /\ UNCHANGED layer /\ join_epoch'[r] = call[r].epoch
          /\ \A q \in Ranks : q # r => join_epoch'[q] = join_epoch[q] /\ pc'[q] = pc[q]
      BY <1>1, <1>11, MoveViews
    <2>2. \A q \in Ranks : join_epoch'[q] \in {join_epoch[q], active_epoch}
      BY <1>1, <2>1 DEF CallerInv, Current
    <2>3. Behind'
      BY <1>1, <1>2, <1>4, <2>1, <2>2 DEF layer
    <2>4. Planned'
      BY <1>1, <1>4, <2>1 DEF layer
    <2>5. Nexts'
      BY <1>6, <2>1
    <2> QED BY <1>3, <2>3, <2>4, <2>5 DEF LawInv
  <1>12. ASSUME NEW r \in Ranks, WaitStats(r) PROVE LawInv'
    BY <1>1, <1>7, <1>12, MoveViews
  <1>13. ASSUME NEW r \in Ranks, ProducerStart(r) \/ WriterReturn(r) \/ ProducerPublish(r) \/ ProducerDone(r) PROVE LawInv'
    BY <1>1, <1>7, <1>13, ProducerViews
  <1>14. ASSUME NEW r \in Ranks, ConsumerCopy(r) \/ ConsumerAck(r) \/ \E x \in Experts : DmaComplete(r, x) PROVE LawInv'
    BY <1>7, <1>14, CopyViews
  <1>15. ASSUME NEW c \in ClientCalls, Join(0, c) \/ RunProducer(0, c) PROVE LawInv'
    BY <1>1, <1>7, <1>15, CallViews
  <1> QED BY <1>1, <1>8, <1>9, <1>10, <1>11, <1>12, <1>13, <1>14, <1>15, QuietOrMoves DEF Moves

\* Whatever fails, and however late the ranks are: clients that go through the planned
\* layers in order, with join, run_producer on rank zero and wait, are never told that
\* they broke the protocol.
THEOREM LawfulClientsAreNotAccused == Spec => []NoSpuriousPoison
  <1> DEFINE Law == Lawful => LawInv
  <1>1. Init => Law
    <2> SUFFICES ASSUME Init PROVE LawInv
      OBVIOUS
    <2>1. /\ active_epoch = 0 /\ pc = [r \in Ranks |-> "idle"] /\ error_code = "none" /\ publisher = NoPublisher
          /\ join_epoch = [r \in Ranks |-> 0]
      BY DEF Init
    <2>2. \A d \in Plan : ~(d.epoch < 0)
      BY ModeAssumption DEF Calls
    <2> QED BY <2>1, <2>2 DEF LawInv, NoPublisher
  <1>2. TransportInv /\ BroadcastInv /\ Law /\ [Next]_vars => Law'
    <2>1. ASSUME TransportInv, BroadcastInv, Law, Next, Lawful PROVE LawInv'
      BY <2>1, LawStep DEF BroadcastInv
    <2>2. ASSUME LawInv, UNCHANGED vars PROVE LawInv'
      BY <2>2 DEF LawInv, vars, poison, layer, ranks, caller
    <2> QED BY <2>1, <2>2
  <1>3. Law => NoSpuriousPoison
    BY DEF NoSpuriousPoison, LawInv
  <1> QED BY <1>1, <1>2, <1>3, BroadcastInvariance, PTL DEF Spec

=============================================================================
