---------------------------- MODULE ExpertCache ----------------------------
(***************************************************************************)
(* The global expert cache of the GPU tier: the class GlobalExpertCache of *)
(* kt-kernel/include/kt/gec/expert_cache.hpp.  Logical experts are         *)
(* admitted to K slots, loaded shard by shard, leased by consumers, and    *)
(* evicted by least frequent use.  Every method holds one mutex, so a      *)
(* behaviour is a sequence of whole calls made by any number of threads.   *)
(*                                                                         *)
(* Calls that throw, or that return without changing the cache, are steps  *)
(* the model does not take.  Timestamps are arguments the callers choose,  *)
(* so a tie between two victims, and which stages an expiry finds past     *)
(* their lease, are choices.  The Stats counters are left out.             *)
(*                                                                         *)
(* The planner has a place for every expert.  Beyond that a client may     *)
(* make any of its calls whenever the code takes it.  Some calls, two of   *)
(* them recommended by comments of the code, break the cache: that one of  *)
(* them was made, and on which experts leases were voided, is remembered   *)
(* (lapses, voided), and the properties say what is lost with it.          *)
(***************************************************************************)
EXTENDS Integers, FiniteSets, Sequences, Functions

CONSTANTS
    Setups,         \* the caches and clients to look at
    ProbationUses,  \* probation_uses
    UseMax,         \* the value at which a use count saturates
    EpochMax        \* the number of values of the router epoch

VARIABLE setup
Experts       == setup.experts    \* logical experts, identified by layer and expert id
Permanent     == setup.permanent  \* the experts of layers below num_gpu_layers
Ranks         == setup.ranks      \* TP ranks, one shard each
K             == setup.k          \* expert_gpu_slots
Layouts       == setup.layouts    \* physical layouts that may get a pool
AgingInterval == setup.aging      \* lfu_aging_interval
MaxLease      == setup.leases     \* bound on the leases outstanding on one expert
Calls         == setup.calls      \* the methods this client calls

ASSUME CacheAssumption ==
    /\ {ProbationUses, UseMax} \subseteq Nat
    /\ EpochMax \in Nat \ {0, 1}
    /\ \A s \in Setups :
          /\ IsFiniteSet(s.experts) /\ s.permanent \subseteq s.experts
          /\ s.ranks # {} /\ 0 \in s.layouts
          /\ {s.k, s.aging, s.leases} \subseteq Nat

VARIABLES
    row,        \* experts_: one LogicalExpert per expert
    free,       \* reusable_slots_, a stack
    next,       \* next_slot_
    epoch,      \* router_epoch_
    events,     \* lfu_events_since_aging_
    capacity,   \* pool_capacities_, -1 where no pool is registered
    layout,     \* expert_layouts_
    held,       \* history: leases their holders have not given back
    routed,     \* history: experts demanded in the current router round
    lapses,     \* history: what a client did that the cache does not survive
    voided      \* history: experts a call took away from the holders of leases

vars == <<row, free, next, epoch, events, capacity, layout, held, routed,
          lapses, voided, setup>>

\* What only the calls about pools or rounds change, and what few calls do.
poolVars  == <<capacity, layout>>
roundVars == <<epoch, routed>>
pastVars  == <<lapses, voided>>

States == {"Absent", "Scheduled", "Loading", "Ready", "Evicting"}

\* The lapses of a client.  "finished": mark_absent ends a stage that had
\* expired, as the comment on expire_stages has it end, and hands its slot
\* back again.  "restarted": mark_scheduled on a row that is not admitted, an
\* expired one, which its comment calls a plain restart, or an absent one.
\* "dropped": mark_ready drops a row that mark_evicting evicts and that has its
\* slot still.  "bared": an expert of a permanent layer is left with neither
\* pin nor protection.
Lapses == {"finished", "restarted", "dropped", "bared"}

\* The slot of a row without shards, and of a row in a permanent layer.
NoShards == -2
Static   == -1

\* What the map holds for an expert it has no entry for.
FreshRow ==
    [known |-> FALSE, state |-> "Absent", admission |-> "NotAdmitted",
     refcount |-> 0, inFlight |-> FALSE, protected |-> FALSE,
     pinned |-> FALSE, slot |-> NoShards, shards |-> [r \in Ranks |-> "Absent"],
     useCount |-> 0, lastRouted |-> 0]

Init ==
    /\ setup \in Setups
    /\ row = [e \in Experts |-> FreshRow]
    /\ free = <<>>
    /\ next = 0
    /\ epoch = 0
    /\ events = 0
    /\ capacity = [l \in Layouts |-> -1]
    /\ layout = [e \in Experts |-> 0]
    /\ held = [e \in Experts |-> 0]
    /\ routed = {}
    /\ lapses = {}
    /\ voided = {}

IsResident(x) == x.admission # "NotAdmitted" /\ x.state # "Absent"

\* Mutant: the gate does not look at the reference count.
CanEvictLeased(x) ==
    x.state = "Ready" /\ ~x.inFlight /\ ~x.protected /\ ~x.pinned

CanEvict(x) ==
    x.state = "Ready" /\ x.refcount = 0 /\ ~x.inFlight /\ ~x.protected /\ ~x.pinned

RoundProtected(x) == epoch # 0 /\ x.lastRouted = epoch

AllShards(s) == [r \in Ranks |-> s]

\* Mutant: the slot is forgotten.
RecycledNever(list, x) == list

\* The free list after the row's slot has been handed back.
Recycled(list, x) == IF x.slot < 0 THEN list ELSE Append(list, x.slot)

\* The residents that count against the slots.
SlotResidents == {e \in Experts \ Permanent : IsResident(row[e])}
PoolResidents(l) == {e \in SlotResidents : layout[e] = l}

PoolCapacity(l) ==
    IF capacity[l] # -1 THEN capacity[l]
    ELSE IF \A m \in Layouts : capacity[m] = -1 THEN K ELSE 0

\* The client makes this call; it holds the mutex until it returns.
May(call) == call \in Calls

\* The call is a lapse if this holds,
Lapse(name, b) == lapses' = IF b THEN lapses \cup {name} ELSE lapses

\* and it voids the leases on the experts s.
Void(s) == voided' = voided \cup {e \in s : held[e] > 0}

-----------------------------------------------------------------------------
(* Eviction *)

\* A row as an eviction leaves it.  The reference count and the protection
\* are not reset: the gate has found them clear.
EvictedRow(x) ==
    [x EXCEPT !.state = "Absent", !.admission = "NotAdmitted",
              !.inFlight = FALSE, !.shards = AllShards("Absent")]

\* Mutant: the current round protects nobody.
VictimsOfRound(l) ==
    LET eligible == {e \in Experts :
                        /\ layout[e] = l
                        /\ IsResident(row[e]) /\ CanEvict(row[e])
                        /\ row[e].admission # "Probation"}
    IN  {v \in eligible : \A u \in eligible : row[v].useCount <= row[u].useCount}

\* The rows an admission into layout l may evict.
Victims(l) ==
    LET eligible == {e \in Experts :
                        /\ layout[e] = l
                        /\ IsResident(row[e]) /\ CanEvict(row[e])
                        /\ ~RoundProtected(row[e])
                        /\ row[e].admission # "Probation"}
    IN  {v \in eligible : \A u \in eligible : row[v].useCount <= row[u].useCount}

Evict(e) ==
    /\ May("evict")
    /\ CanEvict(row[e]) /\ ~RoundProtected(row[e])
    /\ row' = [row EXCEPT ![e] = EvictedRow(@)]
    /\ free' = Recycled(free, row[e])
    /\ UNCHANGED <<next, events, held, poolVars, roundVars, pastVars>>

MarkEvicting(e) ==
    /\ May("mark_evicting")
    /\ CanEvict(row[e])
    /\ row' = [row EXCEPT ![e].state = "Evicting",
                          ![e].shards = AllShards("Evicting")]
    /\ UNCHANGED <<free, next, events, held, poolVars, roundVars, pastVars>>

\* A row given up for good, whatever had been granted on it.
ReleasedRow(x) ==
    [EvictedRow(x) EXCEPT !.refcount = 0, !.protected = FALSE]

MarkAbsent(e) ==
    /\ May("mark_absent")
    /\ row[e].known /\ row[e].state \in {"Evicting", "Absent"}
    /\ row' = [row EXCEPT ![e] = ReleasedRow(@)]
    /\ free' = IF row[e].state = "Evicting" THEN Recycled(free, row[e]) ELSE free
    /\ Lapse("finished", row[e].state = "Evicting" /\ row[e].admission = "NotAdmitted")
    /\ UNCHANGED <<next, events, held, poolVars, roundVars, voided>>

-----------------------------------------------------------------------------
(* Admission *)

\* Mutant: the pool of the layout is not looked at.
FullGlobally(e) ==
    e \notin Permanent /\ Cardinality(SlotResidents) >= K

Full(e) ==
    /\ e \notin Permanent
    /\ \/ Cardinality(SlotResidents) >= K
       \/ Cardinality(PoolResidents(layout[e])) >= PoolCapacity(layout[e])

\* The row of an expert admitted to slot s: placed anew, with the history
\* of the row it replaces.
AdmittedRow(e, s, state) ==
    [FreshRow EXCEPT
        !.known = TRUE, !.state = state, !.slot = s,
        !.useCount = row[e].useCount, !.lastRouted = row[e].lastRouted,
        !.protected = TRUE,
        !.pinned = row[e].pinned \/ e \in Permanent,
        !.admission = IF e \in Permanent THEN "Cached" ELSE "Probation"]

\* admit from the eviction on: a full cache gives up the victims vs (none or
\* one), and a slot is taken.  bind_forward binds the SCHEDULED row at once.
AdmitEvicting(e, vs, state) ==
    LET freed == IF vs = {} THEN free
                 ELSE Recycled(free, row[CHOOSE v \in vs : TRUE])
        reuse == e \notin Permanent /\ freed # <<>>
        slot  == IF e \in Permanent THEN Static
                 ELSE IF reuse THEN freed[Len(freed)] ELSE next
    IN  /\ row' = [x \in Experts |->
                     IF x = e THEN AdmittedRow(e, slot, state)
                     ELSE IF x \in vs THEN EvictedRow(row[x]) ELSE row[x]]
        /\ free' = IF reuse THEN SubSeq(freed, 1, Len(freed) - 1) ELSE freed
        /\ next' = IF reuse \/ e \in Permanent THEN next ELSE next + 1
        /\ Void({e})
        /\ UNCHANGED <<events, held, poolVars, roundVars, lapses>>

AdmitThen(e, state) ==
    /\ ~IsResident(row[e])
    /\ IF Full(e)
         THEN \E v \in Victims(layout[e]) : AdmitEvicting(e, {v}, state)
         ELSE AdmitEvicting(e, {}, state)

Admit(e) ==
    /\ May("admit")
    /\ AdmitThen(e, "Scheduled")

EndStartupProtection(e) ==
    /\ May("end_startup_protection")
    /\ IsResident(row[e]) /\ row[e].admission = "Probation"
    /\ row' = [row EXCEPT ![e].admission = "Cached", ![e].protected = FALSE]
    /\ UNCHANGED <<free, next, events, held, poolVars, roundVars, pastVars>>

SetPinned(e, b) ==
    /\ May("set_pinned")
    /\ IsResident(row[e]) /\ row[e].pinned # b
    /\ row' = [row EXCEPT ![e].pinned = b]
    /\ Lapse("bared", e \in Permanent /\ ~b /\ ~row[e].protected)
    /\ UNCHANGED <<free, next, events, held, poolVars, roundVars, voided>>

-----------------------------------------------------------------------------
(* Loading *)

\* A row that is EVICTING starts over, as one nobody holds.
RestartedRow(x) ==
    IF x.state = "Evicting"
      THEN [x EXCEPT !.state = "Scheduled", !.inFlight = FALSE, !.refcount = 0]
      ELSE [x EXCEPT !.state = "Scheduled"]

MarkScheduled(e) ==
    /\ May("mark_scheduled")
    /\ row[e].known /\ row[e].state \in {"Absent", "Evicting"}
    /\ row' = [row EXCEPT ![e] = RestartedRow(@)]
    /\ Lapse("restarted", row[e].admission = "NotAdmitted")
    /\ UNCHANGED <<free, next, events, held, poolVars, roundVars, voided>>

MarkLoading(e) ==
    /\ May("mark_loading")
    /\ row[e].state = "Scheduled"
    /\ row' = [row EXCEPT ![e].state = "Loading", ![e].inFlight = TRUE,
                          ![e].shards = AllShards("Loading")]
    /\ UNCHANGED <<free, next, events, held, poolVars, roundVars, pastVars>>

\* A load is cancelled whether or not somebody holds a lease on it.
CancelLoading(e) ==
    /\ May("cancel_loading")
    /\ row[e].state \in {"Scheduled", "Loading"}
    /\ row' = [row EXCEPT ![e] = ReleasedRow(@)]
    /\ free' = Recycled(free, row[e])
    /\ Void({e})
    /\ UNCHANGED <<next, events, held, poolVars, roundVars, lapses>>

\* The expert is READY once every shard of it is.
ShardLanded(x, r) ==
    LET shards == [x.shards EXCEPT ![r] = "Ready"]
    IN  IF \A q \in Ranks : shards[q] = "Ready"
          THEN [x EXCEPT !.shards = shards, !.state = "Ready", !.inFlight = FALSE]
          ELSE [x EXCEPT !.shards = shards]

MarkShardReady(e, r) ==
    /\ May("mark_shard_ready")
    /\ row[e].state = "Loading" /\ row[e].slot # NoShards
    /\ row' = [row EXCEPT ![e] = ShardLanded(@, r)]
    /\ UNCHANGED <<free, next, events, held, poolVars, roundVars, pastVars>>

-----------------------------------------------------------------------------
(* Leases *)

Acquire(e) ==
    /\ May("acquire")
    /\ row[e].state = "Ready"
    /\ held[e] < MaxLease
    /\ row' = [row EXCEPT ![e].refcount = @ + 1]
    /\ held' = [held EXCEPT ![e] = @ + 1]
    /\ UNCHANGED <<free, next, events, poolVars, roundVars, pastVars>>

AcquirePending(e) ==
    /\ May("acquire_pending")
    /\ row[e].state \notin {"Absent", "Evicting"}
    /\ held[e] < MaxLease
    /\ row' = [row EXCEPT ![e].refcount = @ + 1]
    /\ held' = [held EXCEPT ![e] = @ + 1]
    /\ UNCHANGED <<free, next, events, poolVars, roundVars, pastVars>>

\* A holder gives its lease back.  A count already at zero throws, and
\* stays zero.
Release(e) ==
    /\ May("release")
    /\ held[e] > 0
    /\ row' = [row EXCEPT ![e].refcount = IF @ > 0 THEN @ - 1 ELSE 0]
    /\ held' = [held EXCEPT ![e] = @ - 1]
    /\ voided' = IF held[e] = 1 THEN voided \ {e} ELSE voided
    /\ UNCHANGED <<free, next, events, poolVars, roundVars, lapses>>

-----------------------------------------------------------------------------
(* Use counts and rounds *)

\* Mutant: the use count does not saturate.
UsedRowUnbounded(e, x) ==
    LET promoted == x.admission = "Probation" /\ x.useCount + 1 >= ProbationUses
    IN  [x EXCEPT !.useCount = @ + 1,
                  !.admission = IF promoted THEN "Cached" ELSE @,
                  !.protected = @ /\ ~(promoted /\ e \notin Permanent)]

\* A row after one more use.
UsedRow(e, x) ==
    LET count    == IF x.useCount < UseMax THEN x.useCount + 1 ELSE UseMax
        promoted == x.admission = "Probation" /\ count >= ProbationUses
    IN  [x EXCEPT !.useCount = count,
                  !.admission = IF promoted THEN "Cached" ELSE @,
                  !.protected = @ /\ ~(promoted /\ e \notin Permanent)]

\* record_lfu_locked_ on the row x of e: every AgingInterval uses, all the
\* counts are halved.
RecordLfu(e, x) ==
    LET aged == AgingInterval > 0 /\ events + 1 >= AgingInterval
        used == [row EXCEPT ![e] = UsedRow(e, x)]
    IN  /\ row' = IF aged
                    THEN [u \in Experts |-> [used[u] EXCEPT !.useCount = @ \div 2]]
                    ELSE used
        /\ events' = IF aged \/ AgingInterval = 0 THEN 0 ELSE events + 1

RecordUse(e) ==
    /\ May("record_use")
    /\ row[e].known
    /\ RecordLfu(e, row[e])
    /\ UNCHANGED <<free, next, held, poolVars, roundVars, pastVars>>

RecordRouterDemand(e) ==
    /\ May("record_router_demand")
    /\ RecordLfu(e, [row[e] EXCEPT !.known = TRUE, !.lastRouted = epoch])
    /\ routed' = IF epoch = 0 THEN routed ELSE routed \cup {e}
    /\ UNCHANGED <<free, next, epoch, held, poolVars, pastVars>>

\* Mutant: the rows keep the epochs of before the wrap.
BeginRouterRoundStale ==
    /\ May("begin_router_round")
    /\ epoch' = IF (epoch + 1) % EpochMax = 0 THEN 1 ELSE epoch + 1
    /\ routed' = {}
    /\ UNCHANGED <<row, free, next, events, held, poolVars, pastVars>>

\* The epoch is a fixed-width counter; when it wraps, the epochs the rows
\* remember are forgotten.
BeginRouterRound ==
    /\ May("begin_router_round")
    /\ IF (epoch + 1) % EpochMax = 0
         THEN /\ epoch' = 1
              /\ row' = [e \in Experts |-> [row[e] EXCEPT !.lastRouted = 0]]
         ELSE /\ epoch' = epoch + 1
              /\ UNCHANGED row
    /\ routed' = {}
    /\ UNCHANGED <<free, next, events, held, poolVars, pastVars>>

-----------------------------------------------------------------------------
(* Pools *)

RegisterPool(l, c) ==
    /\ May("register_pool")
    /\ LET others == {m \in Layouts \ {l} : capacity[m] # -1}
       IN  FoldFunctionOnSet(+, c, capacity, others) <= K
    /\ Cardinality(PoolResidents(l)) <= c
    /\ capacity' = [capacity EXCEPT ![l] = c]
    /\ UNCHANGED <<row, free, next, events, layout, held, roundVars, pastVars>>

AssignLayout(e, l) ==
    /\ May("assign_layout")
    /\ capacity[l] # -1 \/ \A m \in Layouts : capacity[m] = -1
    /\ ~IsResident(row[e])
    /\ layout' = [layout EXCEPT ![e] = l]
    /\ UNCHANGED <<row, free, next, events, capacity, held, roundVars, pastVars>>

-----------------------------------------------------------------------------
(* Staging: the calls the rolling pipeline makes on rows it fetched ahead *)

\* Mutant: a stage that had landed stays READY.
ExpireStagesReady(expired) ==
    /\ May("expire_stages")
    /\ \A e \in expired :
          /\ row[e].state \in {"Scheduled", "Loading", "Ready"}
          /\ row[e].protected /\ ~row[e].pinned
    /\ row' = [e \in Experts |->
                 IF e \notin expired THEN row[e]
                 ELSE [row[e] EXCEPT !.state = IF @ = "Ready" THEN @ ELSE "Evicting",
                                     !.admission = "NotAdmitted"]]
    /\ UNCHANGED <<free, next, events, held, poolVars, roundVars, pastVars>>

\* Stages past their lease lose their slots at once, in the order of the
\* map; the copies may still be in flight, and the experts be held.
ExpireStages(expired) ==
    /\ May("expire_stages")
    /\ \A e \in expired :
          /\ row[e].state \in {"Scheduled", "Loading", "Ready"}
          /\ row[e].protected /\ ~row[e].pinned
    /\ row' = [e \in Experts |->
                 IF e \notin expired THEN row[e]
                 ELSE [row[e] EXCEPT !.state = "Evicting", !.inFlight = TRUE,
                                     !.admission = "NotAdmitted"]]
    /\ LET slotted == {e \in expired : row[e].slot >= 0}
       IN  \E order \in Surjection(1..Cardinality(slotted), slotted) :
             free' = free \o [i \in 1..Cardinality(slotted) |-> row[order[i]].slot]
    /\ Void(expired)
    /\ UNCHANGED <<next, events, held, poolVars, roundVars, lapses>>

\* Mutant: the slot is handed back a second time.
MarkReadyTwice(e) ==
    /\ May("mark_ready")
    /\ row[e].state = "Evicting"
    /\ row' = [row EXCEPT ![e] = ReleasedRow(@)]
    /\ free' = Recycled(free, row[e])
    /\ UNCHANGED <<next, events, held, poolVars, roundVars, pastVars>>

\* A late landing of an expired stage: the row is dropped, its slot is
\* somebody else's by now.
MarkReady(e) ==
    /\ May("mark_ready")
    /\ row[e].state = "Evicting"
    /\ row' = [row EXCEPT ![e] = ReleasedRow(@)]
    /\ Lapse("dropped", row[e].admission # "NotAdmitted")
    /\ UNCHANGED <<free, next, events, held, poolVars, roundVars, voided>>

BoundRow(x) == [x EXCEPT !.state = "Loading"]

\* bind_forward holds the mutex when it calls admit and bind_inflight,
\* which lock it again: it returns only where gec_sync.hpp's mutex is the
\* null one, the build this action is for.
BindForward(e) ==
    /\ May("bind_forward")
    /\ \/ /\ row[e].state = "Absent"
          /\ AdmitThen(e, "Loading")
       \/ /\ row[e].state = "Scheduled"
          /\ row' = [row EXCEPT ![e] = BoundRow(@)]
          /\ UNCHANGED <<free, next, events, held, poolVars, roundVars, pastVars>>

SetProtected(e, b) ==
    /\ May("set_protected")
    /\ row[e].known
    /\ row' = [row EXCEPT ![e].protected = b]
    /\ Lapse("bared", e \in Permanent /\ ~b /\ ~row[e].pinned)
    /\ UNCHANGED <<free, next, events, held, poolVars, roundVars, voided>>

Touch(e) ==
    /\ May("touch")
    /\ row[e].admission = "Probation"
    /\ row' = [row EXCEPT ![e].admission = "Cached"]
    /\ UNCHANGED <<free, next, events, held, poolVars, roundVars, pastVars>>

-----------------------------------------------------------------------------
Next ==
    /\ \/ \E e \in Experts :
             \/ Admit(e) \/ EndStartupProtection(e)
             \/ MarkScheduled(e) \/ MarkLoading(e) \/ CancelLoading(e)
             \/ Evict(e) \/ MarkEvicting(e) \/ MarkAbsent(e)
             \/ Acquire(e) \/ AcquirePending(e) \/ Release(e)
             \/ RecordUse(e) \/ RecordRouterDemand(e)
             \/ MarkReady(e) \/ BindForward(e) \/ Touch(e)
             \/ \E r \in Ranks : MarkShardReady(e, r)
             \/ \E b \in BOOLEAN : SetPinned(e, b) \/ SetProtected(e, b)
             \/ \E l \in Layouts : AssignLayout(e, l)
       \/ BeginRouterRound
       \/ \E l \in Layouts, c \in 0..K : RegisterPool(l, c)
       \/ \E s \in SUBSET Experts \ {{}} : ExpireStages(s)
    /\ UNCHANGED setup

Spec == Init /\ [][Next]_vars

-----------------------------------------------------------------------------
(* Properties *)

\* The variables stay in the domains their declarations give them.
TypeOK ==
    /\ row \in [Experts ->
          [known : BOOLEAN, state : States,
           admission : {"NotAdmitted", "Probation", "Cached"},
           refcount : 0..MaxLease, inFlight : BOOLEAN, protected : BOOLEAN,
           pinned : BOOLEAN, slot : NoShards..(next - 1),
           shards : [Ranks -> {"Absent", "Loading", "Ready", "Evicting"}],
           useCount : 0..UseMax, lastRouted : 0..(EpochMax - 1)]]
    /\ free \in Seq(0..(next - 1))
    /\ next \in Nat
    /\ epoch \in 0..(EpochMax - 1)
    /\ events \in Nat
    /\ capacity \in [Layouts -> -1..K]
    /\ layout \in [Experts -> Layouts]
    /\ held \in [Experts -> 0..MaxLease]
    /\ routed \in SUBSET Experts
    /\ lapses \in SUBSET Lapses
    /\ voided \in SUBSET Experts

\* The residents that hold the slot s.
Holders(s) == {e \in Experts : IsResident(row[e]) /\ row[e].slot = s}

\* Every slot handed out so far is in one place: one resident's, or once
\* in the free list.  This is what admit, cancel_loading, mark_absent,
\* evict, evict_one_locked_ and expire_stages keep up between them.
SlotsInOnePlace ==
    \A s \in 0..(next - 1) :
        Cardinality(Holders(s)) + Cardinality({i \in DOMAIN free : free[i] = s}) = 1

\* admit never hands out more slots than the pool has rows, so a resident
\* outside the permanent layers has a slot below expert_gpu_slots.
SlotsInPool == next <= K

\* A registered pool has no more residents than its capacity.
PoolsWithin ==
    \A l \in Layouts : capacity[l] # -1 => Cardinality(PoolResidents(l)) <= capacity[l]

\* The slots and the budget, in every state: each slot is in one place, unless
\* a client ended the eviction of a row with the call for another kind of
\* eviction, or scheduled one that is not admitted; no layout has more
\* residents than it may, unless a permanent expert has been bared and took
\* the place of a victim; and there are no more slots than rows in the pool
\* as long as none of this was done.
SlotsInv ==
    /\ TypeOK
    /\ lapses \subseteq {"bared"} => SlotsInOnePlace
    /\ "bared" \notin lapses => PoolsWithin
    /\ lapses = {} => SlotsInPool

\* The reference count of an expert is the number of leases that acquire and
\* acquire_pending granted on it, and the expert is resident, until they are
\* given back, or a call voids them all: the load is cancelled, or the stage
\* expires.  So a release underflows only where leases have been voided, and
\* the eviction gate opens on no other expert in use.  Only an expert that was
\* scheduled without being admitted may be leased and not be resident.
LeaseHolds ==
    \A e \in Experts : held[e] > 0 /\ e \notin voided =>
        /\ row[e].refcount = held[e]
        /\ row[e].state \in {"Scheduled", "Loading", "Ready"}
        /\ IsResident(row[e]) \/ "restarted" \in lapses

\* A lookup hits only an expert that has all its shards and no copy in flight,
\* and that is resident, unless one that is not was scheduled.
HitIsResident ==
    \A e \in Experts : row[e].state = "Ready" =>
        /\ ~row[e].inFlight /\ \A r \in Ranks : row[e].shards[r] = "Ready"
        /\ IsResident(row[e]) \/ "restarted" \in lapses

\* The router round protects the experts demanded in it and no other,
\* through re-admissions and when the epoch counter wraps.
RoundProtects ==
    \A e \in Experts : RoundProtected(row[e]) <=> e \in routed

\* An admission takes the slot of no expert that is pinned, on probation, or
\* demanded in the current round; of none that is leased, unless the leases
\* have been voided; and it evicts none of a permanent layer that has not
\* been bared of its pin and its protection.
AdmissionSpares ==
    [][\A e, v \in Experts :
          /\ ~IsResident(row[e]) /\ IsResident(row'[e])
          /\ IsResident(row[v]) /\ ~IsResident(row'[v])
          => /\ held[v] = 0 \/ v \in voided
             /\ v \notin routed
             /\ ~row[v].pinned /\ row[v].admission = "Cached"
             /\ IF v \in Permanent THEN "bared" \in lapses
                ELSE row'[e].slot = row[v].slot]_vars
=============================================================================
