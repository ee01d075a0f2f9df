------------------------------ MODULE MCCache -------------------------------
(***************************************************************************)
(* Instances of the expert cache for TLC.                                  *)
(***************************************************************************)
EXTENDS ExpertCache, TLC

CONSTANTS e1, e2, e3, r1, r2

Client(experts, k, calls) ==
    [experts |-> experts, permanent |-> {}, ranks |-> {r1}, k |-> k,
     layouts |-> {0}, aging |-> 0, leases |-> 1, calls |-> calls]

\* Calls a client makes together: to load a row, to evict one, to hold leases,
\* and those of the rolling pipeline on the rows it fetches ahead.
Loads == {"admit", "mark_loading", "mark_shard_ready", "end_startup_protection"}

Evictions == {"evict", "mark_evicting", "mark_absent", "mark_scheduled"}
Holds == {"acquire", "acquire_pending", "release"}
Staging ==
    {"expire_stages", "mark_ready", "bind_forward", "set_protected", "touch",
     "cancel_loading", "evict"}

\* What the Python bindings offer on single rows: two shards, two leases, one
\* slot.
Leases ==
    [Client({e1, e2}, 1, Loads \cup Evictions \cup Holds \cup
        {"cancel_loading", "record_use", "set_pinned"})
     EXCEPT !.ranks = {r1, r2}, !.leases = 2]

\* A permanent layer, and a client that may lift its pin and its protection.
Shared ==
    [Client({e1, e2, e3}, 1, Loads \cup
        {"evict", "mark_evicting", "mark_absent", "acquire", "release",
         "set_pinned", "set_protected"})
     EXCEPT !.permanent = {e3}]

\* Router rounds over three experts and two slots.
Rounds ==
    [Client({e1, e2, e3}, 2, Loads \cup
        {"acquire", "release", "set_pinned", "record_router_demand",
         "begin_router_round"})
     EXCEPT !.aging = 2]

\* Pools registered, and experts assigned to them, at any time.
Pools ==
    [Client({e1, e2, e3}, 2, Loads \cup
        {"cancel_loading", "evict", "register_pool", "assign_layout"})
     EXCEPT !.layouts = {0, 1}]

\* The rolling pipeline on the rows it stages: several at a time, and, with one
\* slot, the leases beside.  It schedules SCHEDULED rows only, which changes
\* nothing.
Stages   == Client({e1, e2, e3}, 2, Loads \cup Staging)
Pipeline ==
    Client({e1, e2, e3}, 1,
        (Loads \ {"end_startup_protection"}) \cup Staging \cup Holds)

\* All the calls on rows, in any order.
Anything ==
    Client({e1, e2}, 1, Loads \cup Staging \cup Holds \cup Evictions \cup
        {"record_use", "set_pinned"})

Uses == {Leases, Shared, Rounds, Pools, Stages, Pipeline, Anything}

\* e1 and e2 are in the same setups, and in the same layers.
Alike == Permutations({e1, e2})

\* Only a client that has lapsed makes the free list and the slots grow beyond
\* the pool.  It is followed while they have grown by one, and until it lapses
\* in another way.
SlotBound ==
    lapses = {} \/ (Len(free) <= K + 1 /\ next <= K + 1 /\ Cardinality(lapses) = 1)
=============================================================================
