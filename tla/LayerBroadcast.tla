--------------------------- MODULE LayerBroadcast ---------------------------
(***************************************************************************)
(* What the layerwise transport promises to the ranks that use it: layers  *)
(* are loaded one at a time; a layer is loaded only when all ranks take    *)
(* part; every rank gets the experts of the layer in order; and no rank is *)
(* told that the layer is loaded before every rank has all of it.  A       *)
(* failure is never taken back.                                            *)
(***************************************************************************)
EXTENDS Integers

CONSTANTS Ranks, Epochs, Counts, Experts

VARIABLES
    epoch,     \* the layer being loaded, 0 before the first
    count,     \* the number of its experts
    members,   \* the ranks that have joined it
    received,  \* the experts of it that each rank has
    told,      \* the ranks that have been told it is loaded
    failed     \* something went wrong

bvars == <<epoch, count, members, received, told, failed>>

BInit ==
    /\ epoch = 0 /\ count = 0
    /\ members = {} /\ told = {}
    /\ received = [r \in Ranks |-> {}]
    /\ failed = FALSE

Open(e, n) ==
    /\ e > epoch
    /\ epoch # 0 => told = Ranks
    /\ epoch' = e /\ count' = n
    /\ members' = {} /\ told' = {}
    /\ received' = [r \in Ranks |-> {}]
    /\ UNCHANGED failed

Enter(r) ==
    /\ epoch # 0 /\ r \notin members
    /\ members' = members \cup {r}
    /\ UNCHANGED <<epoch, count, received, told, failed>>

Receive(r, x) ==
    /\ members = Ranks
    /\ x < count /\ received[r] = 0 .. (x - 1)
    /\ received' = [received EXCEPT ![r] = @ \cup {x}]
    /\ UNCHANGED <<epoch, count, members, told, failed>>

Tell(r) ==
    /\ r \in members /\ r \notin told
    /\ \A q \in Ranks : received[q] = 0 .. (count - 1)
    /\ told' = told \cup {r}
    /\ UNCHANGED <<epoch, count, members, received, failed>>

Fail ==
    /\ ~failed
    /\ failed' = TRUE
    /\ UNCHANGED <<epoch, count, members, received, told>>

BNext ==
    \/ \E e \in Epochs, n \in Counts : Open(e, n)
    \/ \E r \in Ranks : Enter(r) \/ Tell(r) \/ \E x \in Experts : Receive(r, x)
    \/ Fail

BSpec == BInit /\ [][BNext]_bvars
=============================================================================
