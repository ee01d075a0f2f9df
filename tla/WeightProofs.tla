----------------------------- MODULE WeightProofs -----------------------------
(***************************************************************************)
(* Where the weights of experts are: proofs about the slots of the GPU     *)
(* (ExpertCache), and after them about the files of a checkpoint           *)
(* (FullCheckpoint).  The two specifications share no variable, and no     *)
(* proof of one uses the other.                                            *)
(***************************************************************************)
EXTENDS ExpertCache, FullCheckpoint, FiniteSetTheorems, SequenceTheorems, TLAPS

-----------------------------------------------------------------------------
(***************************************************************************)
(* What the expert cache guarantees for any number of experts, slots,      *)
(* ranks and layouts, and any sequence of the calls a client makes.        *)
(*                                                                         *)
(* One invariant holds of every client.  What a lapse of the client (see   *)
(* Lapses) destroys is claimed only as long as there was none of its kind, *)
(* and what a lease grants only until a call has voided it.                *)
(***************************************************************************)

-----------------------------------------------------------------------------
(* Types.                                                                  *)

\* The rows of a cache that has handed out n slots.
Rows(n) ==
    [known : BOOLEAN, state : States,
     admission : {"NotAdmitted", "Probation", "Cached"},
     refcount : 0..MaxLease, inFlight : BOOLEAN, protected : BOOLEAN,
     pinned : BOOLEAN, slot : NoShards..(n - 1),
     shards : [Ranks -> {"Absent", "Loading", "Ready", "Evicting"}],
     useCount : 0..UseMax, lastRouted : 0..(EpochMax - 1)]

\* No count exceeds the leases that are out.
Counted == \A e \in Experts : row[e].refcount <= held[e]

TypeInv == setup \in Setups /\ TypeOK /\ Counted

\* What the setups say.
LEMMA SetupFacts ==
    ASSUME setup \in Setups
    PROVE  /\ IsFiniteSet(Experts) /\ Permanent \subseteq Experts /\ 0 \in Layouts
           /\ K \in Nat /\ AgingInterval \in Nat /\ MaxLease \in Nat
           /\ UseMax \in Nat /\ ProbationUses \in Nat /\ EpochMax \in Nat /\ EpochMax > 1
BY CacheAssumption DEF Experts, Permanent, Layouts, K, AgingInterval, MaxLease

\* Nothing of a setup changes.
LEMMA SetupStays ==
    ASSUME UNCHANGED setup
    PROVE  /\ Experts' = Experts /\ Permanent' = Permanent /\ Ranks' = Ranks /\ K' = K
           /\ Layouts' = Layouts /\ AgingInterval' = AgingInterval /\ MaxLease' = MaxLease
           /\ Calls' = Calls /\ \A n : Rows(n)' = Rows(n)
BY DEF Experts, Permanent, Ranks, K, Layouts, AgingInterval, MaxLease, Calls, Rows

\* The types of the rows, the slots and the counters.
LEMMA TypeFacts ==
    ASSUME TypeInv
    PROVE  /\ row \in [Experts -> Rows(next)] /\ next \in Nat
           /\ free \in Seq(0..(next - 1)) /\ held \in [Experts -> 0..MaxLease]
           /\ epoch \in 0..(EpochMax - 1) /\ layout \in [Experts -> Layouts]
           /\ capacity \in [Layouts -> -1..K] /\ events \in Nat
BY DEF TypeInv, TypeOK, Rows

\* One more slot makes more rows.
LEMMA RowsGrow ==
    ASSUME NEW n \in Nat, NEW x \in Rows(n)
    PROVE  x \in Rows(n + 1)
BY DEF Rows, NoShards

\* A row in its fields.
LEMMA RowFields ==
    ASSUME NEW n \in Nat, NEW x \in Rows(n)
    PROVE  /\ x.known \in BOOLEAN /\ x.state \in States
           /\ x.admission \in {"NotAdmitted", "Probation", "Cached"}
           /\ x.refcount \in 0..MaxLease /\ x.inFlight \in BOOLEAN /\ x.protected \in BOOLEAN
           /\ x.pinned \in BOOLEAN /\ x.slot \in NoShards..(n - 1)
           /\ x.shards \in [Ranks -> {"Absent", "Loading", "Ready", "Evicting"}]
           /\ x.useCount \in 0..UseMax /\ x.lastRouted \in 0..(EpochMax - 1)
BY DEF Rows

\* The rows the calls make are rows: the row that was evicted is one.
LEMMA EvictedIsRow ==
    ASSUME NEW n \in Nat, NEW x \in Rows(n)
    PROVE  /\ EvictedRow(x) \in Rows(n)
           /\ EvictedRow(x).state = "Absent" /\ EvictedRow(x).admission = "NotAdmitted"
           /\ EvictedRow(x).refcount = x.refcount /\ EvictedRow(x).slot = x.slot
           /\ EvictedRow(x).lastRouted = x.lastRouted
BY DEF Rows, EvictedRow, AllShards, States

\* So are the row after a release,
LEMMA ReleasedIsRow ==
    ASSUME NEW n \in Nat, NEW x \in Rows(n), MaxLease \in Nat
    PROVE  /\ ReleasedRow(x) \in Rows(n)
           /\ ReleasedRow(x).state = "Absent" /\ ReleasedRow(x).admission = "NotAdmitted"
           /\ ReleasedRow(x).refcount = 0 /\ ReleasedRow(x).slot = x.slot
           /\ ReleasedRow(x).lastRouted = x.lastRouted
<1> DEFINE y == EvictedRow(x)
<1>1. y \in Rows(n)
  BY EvictedIsRow
<1>2. ReleasedRow(x) = [y EXCEPT !.refcount = 0, !.protected = FALSE]
  BY DEF ReleasedRow
<1> HIDE DEF y
<1>3. 0 \in 0..MaxLease /\ FALSE \in BOOLEAN
  OBVIOUS
<1>4. [y EXCEPT !.refcount = 0, !.protected = FALSE] \in Rows(n)
  BY <1>1, <1>3 DEF Rows
<1>5. /\ ReleasedRow(x).state = y.state
      /\ ReleasedRow(x).admission = y.admission /\ ReleasedRow(x).refcount = 0
      /\ ReleasedRow(x).slot = y.slot /\ ReleasedRow(x).lastRouted = y.lastRouted
  BY <1>1, <1>2 DEF Rows
<1> QED BY <1>2, <1>4, <1>5, EvictedIsRow DEF y

\* the row a shard of which has landed,
LEMMA LandedIsRow ==
    ASSUME NEW n \in Nat, NEW x \in Rows(n), NEW r \in Ranks
    PROVE  LET y == ShardLanded(x, r) IN
           /\ y \in Rows(n)
           /\ y.admission = x.admission /\ y.refcount = x.refcount /\ y.slot = x.slot
           /\ y.lastRouted = x.lastRouted /\ y.protected = x.protected /\ y.pinned = x.pinned
           /\ \/ y.state = x.state /\ y.inFlight = x.inFlight
              \/ y.state = "Ready" /\ y.inFlight = FALSE /\ \A q \in Ranks : y.shards[q] = "Ready"
BY DEF Rows, ShardLanded, States

\* the row that was used,
LEMMA UsedIsRow ==
    ASSUME NEW n \in Nat, NEW x \in Rows(n), NEW e, UseMax \in Nat
    PROVE  LET y == UsedRow(e, x) IN
           /\ y \in Rows(n)
           /\ y.state = x.state /\ y.inFlight = x.inFlight /\ y.shards = x.shards
           /\ y.refcount = x.refcount /\ y.slot = x.slot /\ y.lastRouted = x.lastRouted
           /\ y.pinned = x.pinned
           /\ y.admission = x.admission \/ (x.admission = "Probation" /\ y.admission = "Cached")
           /\ y.protected = x.protected \/ (x.admission = "Probation" /\ e \notin Permanent)
<1> DEFINE y == UsedRow(e, x)
           count == IF x.useCount < UseMax THEN x.useCount + 1 ELSE UseMax
           promoted == x.admission = "Probation" /\ count >= ProbationUses
           ad == IF promoted THEN "Cached" ELSE x.admission
           pr == x.protected /\ ~(promoted /\ e \notin Permanent)
<1>1. y = [x EXCEPT !.useCount = count, !.admission = ad, !.protected = pr]
  BY DEF UsedRow
<1>2. x.useCount \in 0..UseMax
  BY DEF Rows
<1>3. count \in 0..UseMax
  BY <1>2
<1>4. x.protected \in BOOLEAN /\ x.admission \in {"NotAdmitted", "Probation", "Cached"}
  BY DEF Rows
<1>5. pr \in BOOLEAN /\ (pr = x.protected \/ (x.admission = "Probation" /\ e \notin Permanent))
  BY <1>4, Zenon
<1>6. ad \in {"NotAdmitted", "Probation", "Cached"}
      /\ (ad = x.admission \/ (x.admission = "Probation" /\ ad = "Cached"))
  BY <1>4
<1> HIDE DEF count, ad, pr, y
<1>7. y \in Rows(n)
  BY <1>1, <1>3, <1>5, <1>6 DEF Rows
<1>8. /\ y.state = x.state /\ y.inFlight = x.inFlight /\ y.shards = x.shards
      /\ y.refcount = x.refcount /\ y.slot = x.slot /\ y.lastRouted = x.lastRouted
      /\ y.pinned = x.pinned /\ y.admission = ad /\ y.protected = pr
  BY <1>1 DEF Rows
<1> QED BY <1>5, <1>6, <1>7, <1>8 DEF y

\* and the row of an admission.
LEMMA AdmittedIsRow ==
    ASSUME NEW n \in Nat, NEW e \in Experts, row[e] \in Rows(n), NEW s \in Static..(n - 1), NEW st \in States,
           setup \in Setups
    PROVE  LET y == AdmittedRow(e, s, st) IN
           /\ y \in Rows(n)
           /\ y.state = st /\ y.slot = s /\ y.refcount = 0 /\ y.inFlight = FALSE /\ y.protected = TRUE
           /\ y.lastRouted = row[e].lastRouted
           /\ y.admission = IF e \in Permanent THEN "Cached" ELSE "Probation"
           /\ e \in Permanent => y.pinned
<1> DEFINE p == row[e].pinned \/ e \in Permanent
           ad == IF e \in Permanent THEN "Cached" ELSE "Probation"
<1>1. /\ p \in BOOLEAN /\ (e \in Permanent => p)
      /\ ad \in {"NotAdmitted", "Probation", "Cached"}
  OBVIOUS
<1>2. row[e].useCount \in 0..UseMax /\ row[e].lastRouted \in 0..(EpochMax - 1)
  BY DEF Rows
<1>3. s \in NoShards..(n - 1) /\ 0 \in 0..MaxLease
  BY SetupFacts DEF Static, NoShards
<1>4. AdmittedRow(e, s, st) =
        [FreshRow EXCEPT !.known = TRUE, !.state = st, !.slot = s, !.useCount = row[e].useCount,
                         !.lastRouted = row[e].lastRouted, !.protected = TRUE, !.pinned = p,
                         !.admission = ad]
  BY DEF AdmittedRow
<1> DEFINE y == AdmittedRow(e, s, st)
           u == row[e].useCount
           l == row[e].lastRouted
<1> HIDE DEF p, ad, u, l
<1>5. y = [FreshRow EXCEPT !.known = TRUE, !.state = st, !.slot = s, !.useCount = u,
                           !.lastRouted = l, !.protected = TRUE, !.pinned = p, !.admission = ad]
  BY <1>4 DEF u, l
<1> HIDE DEF y
<1>6. y \in Rows(n)
  BY <1>1, <1>2, <1>3, <1>5 DEF Rows, FreshRow, u, l
<1>7. /\ y.state = st /\ y.slot = s /\ y.refcount = 0 /\ y.inFlight = FALSE /\ y.protected = TRUE
      /\ y.lastRouted = l /\ y.admission = ad /\ y.pinned = p
  BY <1>5 DEF FreshRow
<1> QED BY <1>1, <1>6, <1>7 DEF y, ad, l

-----------------------------------------------------------------------------
(* Slots: how the set R of the rows that have one, the slots sl they have, *)
(* the free list f and the number n of slots handed out belong together.   *)

Placed(R, sl, f, n) ==
    /\ f \in Seq(0..(n - 1))
    /\ \A e \in R : sl[e] \in Static..(n - 1)
    /\ \A e, u \in R : e # u /\ sl[e] >= 0 => sl[e] # sl[u]
    /\ \A i, j \in 1..Len(f) : f[i] = f[j] => i = j
    /\ \A i \in 1..Len(f) : \A e \in R : sl[e] # f[i]
    /\ \A s \in 0..(n - 1) : (\E i \in 1..Len(f) : f[i] = s) \/ (\E e \in R : sl[e] = s)

\* Only the slots of the rows in R matter.
LEMMA PlacedSame ==
    ASSUME NEW R, NEW sl, NEW f, NEW n \in Nat, NEW tl, Placed(R, sl, f, n),
           \A e \in R : tl[e] = sl[e]
    PROVE  Placed(R, tl, f, n)
BY DEF Placed

\* A row leaves, and its slot is free.
LEMMA PlacedLeave ==
    ASSUME NEW R, NEW sl, NEW f, NEW n \in Nat, Placed(R, sl, f, n), NEW e \in R
    PROVE  Placed(R \ {e}, sl, IF sl[e] < 0 THEN f ELSE Append(f, sl[e]), n)
<1>1. CASE sl[e] < 0
  BY <1>1 DEF Placed, Static
<1>2. CASE ~(sl[e] < 0)
  <2> DEFINE g == Append(f, sl[e])
  <2>1. sl[e] \in 0..(n - 1) /\ f \in Seq(0..(n - 1))
    BY <1>2 DEF Placed, Static
  <2>2. /\ g \in Seq(0..(n - 1)) /\ Len(g) = Len(f) + 1 /\ Len(f) \in Nat
        /\ \A i \in 1..Len(f) : g[i] = f[i]
        /\ g[Len(f) + 1] = sl[e]
    BY <2>1, AppendProperties, LenProperties
  <2> HIDE DEF g
  <2>3. \A i \in 1..Len(g) : i \in 1..Len(f) \/ i = Len(f) + 1
    BY <2>2
  <2>4. \A i, j \in 1..Len(g) : g[i] = g[j] => i = j
    BY <2>2, <2>3 DEF Placed
  <2>5. \A i \in 1..Len(g) : \A u \in R \ {e} : sl[u] # g[i]
    BY <2>1, <2>2, <2>3 DEF Placed
  <2>6. ASSUME NEW s \in 0..(n - 1)
        PROVE  (\E i \in 1..Len(g) : g[i] = s) \/ (\E u \in R \ {e} : sl[u] = s)
    <3>1. CASE \E i \in 1..Len(f) : f[i] = s
      BY <2>2, <3>1
    <3>2. CASE sl[e] = s
      BY <2>2, <3>2
    <3>3. CASE \E u \in R \ {e} : sl[u] = s
      BY <3>3
    <3> QED BY <3>1, <3>2, <3>3 DEF Placed
  <2>7. /\ \A u \in R \ {e} : sl[u] \in Static..(n - 1)
        /\ \A u, v \in R \ {e} : u # v /\ sl[u] >= 0 => sl[u] # sl[v]
    BY DEF Placed
  <2>8. Placed(R \ {e}, sl, g, n)
    BY <2>2, <2>4, <2>5, <2>6, <2>7 DEF Placed
  <2> QED BY <1>2, <2>8 DEF g
<1> QED BY <1>1, <1>2

\* The length of a list without its last entry.
LEMMA ShorterByOne ==
    ASSUME NEW L \in Nat, L # 0
    PROVE  (IF 1 <= L - 1 THEN L - 1 - 1 + 1 ELSE 0) = L - 1
OBVIOUS

\* A row takes the slot on top of the free list.
LEMMA PlacedReuse ==
    ASSUME NEW R, NEW sl, NEW f, NEW n \in Nat, Placed(R, sl, f, n), NEW e, e \notin R,
           f # <<>>, NEW tl, \A u \in R : tl[u] = sl[u], tl[e] = f[Len(f)]
    PROVE  Placed(R \cup {e}, tl, SubSeq(f, 1, Len(f) - 1), n) /\ tl[e] \in 0..(n - 1)
<1> DEFINE g == SubSeq(f, 1, Len(f) - 1)
<1>1. f \in Seq(0..(n - 1)) /\ Len(f) \in Nat /\ Len(f) # 0 /\ \A i \in 1..Len(f) : f[i] \in 0..(n - 1)
  BY LenProperties, EmptySeq, ElementOfSeq DEF Placed
<1>2. /\ g \in Seq(0..(n - 1)) /\ Len(g) = Len(f) - 1 /\ \A i \in 1..Len(g) : g[i] = f[i]
  <2>1. \A i \in 1..(Len(f) - 1) : f[i] \in 0..(n - 1)
    BY <1>1
  <2>2. /\ g \in Seq(0..(n - 1))
        /\ Len(g) = IF 1 <= Len(f) - 1 THEN Len(f) - 1 - 1 + 1 ELSE 0
        /\ \A i \in 1..(Len(f) - 1 - 1 + 1) : g[i] = f[1 + i - 1]
    BY <1>1, <2>1, SubSeqProperties
  <2> HIDE DEF g
  <2>3. Len(g) = Len(f) - 1
    <3>1. Len(g) = IF 1 <= Len(f) - 1 THEN Len(f) - 1 - 1 + 1 ELSE 0
      BY <2>2
    <3> QED BY <1>1, <3>1, ShorterByOne
  <2>4. ASSUME NEW i \in 1..Len(g) PROVE g[i] = f[i]
    <3>1. i \in 1..(Len(f) - 1 - 1 + 1) /\ 1 + i - 1 = i
      BY <1>1, <2>3
    <3>2. g[i] = f[1 + i - 1]
      BY <2>2, <3>1
    <3> QED BY <3>1, <3>2
  <2> QED BY <2>2, <2>3, <2>4
<1> HIDE DEF g
<1>3. tl[e] \in 0..(n - 1) /\ Len(f) \in 1..Len(f) /\ \A i \in 1..Len(g) : i \in 1..Len(f) /\ i # Len(f)
  BY <1>1, <1>2
<1>4. \A u \in R \cup {e} : tl[u] \in Static..(n - 1)
  BY <1>3 DEF Placed, Static
<1>5. ASSUME NEW u \in R PROVE tl[u] # tl[e]
  <2>1. sl[u] # f[Len(f)]
    BY <1>3 DEF Placed
  <2> QED BY <2>1
<1>6. ASSUME NEW u \in R \cup {e}, NEW v \in R \cup {e}, u # v, tl[u] >= 0
      PROVE  tl[u] # tl[v]
  <2>1. CASE u = e \/ v = e
    BY <1>5, <1>6, <2>1
  <2>2. CASE u \in R /\ v \in R
    BY <1>6, <2>2 DEF Placed
  <2> QED BY <2>1, <2>2
<1>7. \A i, j \in 1..Len(g) : g[i] = g[j] => i = j
  BY <1>2, <1>3 DEF Placed
<1>8. ASSUME NEW i \in 1..Len(g), NEW u \in R \cup {e} PROVE tl[u] # g[i]
  <2>1. g[i] = f[i] /\ i \in 1..Len(f) /\ i # Len(f)
    BY <1>2, <1>3
  <2>2. CASE u \in R
    BY <2>1, <2>2 DEF Placed
  <2>3. CASE u = e
    BY <1>3, <2>1, <2>3 DEF Placed
  <2> QED BY <2>2, <2>3
<1>9. ASSUME NEW s \in 0..(n - 1)
      PROVE  (\E i \in 1..Len(g) : g[i] = s) \/ (\E u \in R \cup {e} : tl[u] = s)
  <2>1. CASE \E u \in R : sl[u] = s
    BY <2>1
  <2>2. CASE \E i \in 1..Len(f) : f[i] = s
    <3>1. PICK i \in 1..Len(f) : f[i] = s
      BY <2>2
    <3>2. CASE i = Len(f)
      BY <3>1, <3>2
    <3>3. CASE i # Len(f)
      <4>1. i \in 1..Len(g)
        BY <1>1, <1>2, <3>3
      <4> QED BY <1>2, <3>1, <4>1
    <3> QED BY <3>2, <3>3
  <2> QED BY <2>1, <2>2 DEF Placed
<1>10. Placed(R \cup {e}, tl, g, n)
  BY <1>2, <1>4, <1>6, <1>7, <1>8, <1>9 DEF Placed
<1> QED BY <1>3, <1>10 DEF g

\* A row takes a slot nobody has had.
LEMMA PlacedNew ==
    ASSUME NEW R, NEW sl, NEW f, NEW n \in Nat, Placed(R, sl, f, n), NEW e, e \notin R,
           f = <<>>, NEW tl, \A u \in R : tl[u] = sl[u], tl[e] = n
    PROVE  Placed(R \cup {e}, tl, f, n + 1)
<1>1. f \in Seq(0..(n + 1 - 1)) /\ Len(f) = 0
  BY EmptySeq
<1>2. \A s \in 0..(n + 1 - 1) : s \in 0..(n - 1) \/ s = n
  OBVIOUS
<1>3. \A u \in R : tl[u] \in Static..(n - 1) /\ tl[u] # n
  BY DEF Placed, Static
<1>4. /\ \A u \in R \cup {e} : tl[u] \in Static..(n + 1 - 1)
      /\ \A u, v \in R \cup {e} : u # v /\ tl[u] >= 0 => tl[u] # tl[v]
  BY <1>3 DEF Placed, Static
<1>5. \A i \in 1..Len(f) : FALSE
  BY <1>1
<1>6. \A s \in 0..(n + 1 - 1) : \E u \in R \cup {e} : tl[u] = s
  BY <1>2, <1>5 DEF Placed
<1> QED BY <1>1, <1>4, <1>5, <1>6 DEF Placed

\* A row of a permanent layer takes none.
LEMMA PlacedStatic ==
    ASSUME NEW R, NEW sl, NEW f, NEW n \in Nat, Placed(R, sl, f, n), NEW e, e \notin R,
           NEW tl, \A u \in R : tl[u] = sl[u], tl[e] = Static
    PROVE  Placed(R \cup {e}, tl, f, n)
<1>1. \A i \in 1..Len(f) : f[i] # Static
  <2>1. f \in Seq(0..(n - 1))
    BY DEF Placed
  <2>2. \A i \in 1..Len(f) : f[i] \in 0..(n - 1)
    BY <2>1, ElementOfSeq
  <2> QED BY <2>2 DEF Static
<1>2. \A u \in R \cup {e} : tl[u] \in Static..(n - 1)
  BY DEF Placed, Static
<1>3. \A u, v \in R \cup {e} : u # v /\ tl[u] >= 0 => tl[u] # tl[v]
  BY DEF Placed, Static
<1>4. \A i \in 1..Len(f) : \A u \in R \cup {e} : tl[u] # f[i]
  BY <1>1 DEF Placed
<1>5. \A s \in 0..(n - 1) : (\E i \in 1..Len(f) : f[i] = s) \/ (\E u \in R \cup {e} : tl[u] = s)
  BY DEF Placed
<1> QED BY <1>2, <1>3, <1>4, <1>5 DEF Placed

\* q lists the slots of the rows X that have one, each once.
Lists(q, X, sl) ==
    /\ \A i \in 1..Len(q) : \E e \in X : sl[e] >= 0 /\ q[i] = sl[e]
    /\ \A i, j \in 1..Len(q) : q[i] = q[j] => i = j
    /\ \A e \in X : sl[e] >= 0 => \E i \in 1..Len(q) : q[i] = sl[e]

\* Rows X leave at once, and their slots are appended to the free list.
LEMMA PlacedLeaveMany ==
    ASSUME NEW R, NEW sl, NEW f, NEW n \in Nat, Placed(R, sl, f, n), NEW X, X \subseteq R,
           NEW q \in Seq(0..(n - 1)), Lists(q, X, sl)
    PROVE  Placed(R \ X, sl, f \o q, n)
<1> DEFINE S == 0..(n - 1)
           g == f \o q
           L == Len(f)
           m == Len(q)
<1>1. f \in Seq(S) /\ q \in Seq(S) /\ L \in Nat /\ m \in Nat
  BY LenProperties DEF Placed
<1>2. /\ g \in Seq(S) /\ Len(g) = L + m
      /\ \A i \in 1..(L + m) : g[i] = IF i <= L THEN f[i] ELSE q[i - L]
  <2> HIDE DEF S
  <2> QED BY <1>1, ConcatProperties
<1> HIDE DEF S, g, L, m
<1>3. \A i \in 1..L : i \in 1..Len(g) /\ g[i] = f[i]
  BY <1>1, <1>2
<1>4. ASSUME NEW k \in 1..m PROVE L + k \in 1..Len(g) /\ g[L + k] = q[k]
  <2>1. L + k \in 1..(L + m) /\ ~(L + k <= L) /\ (L + k) - L = k
    BY <1>1
  <2>2. g[L + k] = q[(L + k) - L]
    BY <1>2, <2>1
  <2> QED BY <1>2, <2>1, <2>2
<1>5. ASSUME NEW i \in 1..Len(g) PROVE i \in 1..L \/ \E k \in 1..m : i = L + k
  <2>1. CASE i <= L
    BY <1>1, <1>2, <2>1
  <2>2. CASE ~(i <= L)
    <3>1. i - L \in 1..m /\ i = L + (i - L)
      BY <1>1, <1>2, <2>2
    <3> QED BY <3>1
  <2> QED BY <2>1, <2>2
<1>6. /\ \A i, j \in 1..L : f[i] = f[j] => i = j
      /\ \A i \in 1..L : \A e \in R : sl[e] # f[i]
      /\ \A s \in 0..(n - 1) : (\E i \in 1..L : f[i] = s) \/ (\E e \in R : sl[e] = s)
  BY DEF Placed, L
<1>7. /\ \A i \in 1..m : \E e \in X : sl[e] >= 0 /\ q[i] = sl[e]
      /\ \A i, j \in 1..m : q[i] = q[j] => i = j
      /\ \A e \in X : sl[e] >= 0 => \E i \in 1..m : q[i] = sl[e]
  BY DEF Lists, m
<1>8. \A i \in 1..L : \A k \in 1..m : f[i] # q[k]
  BY <1>6, <1>7
<1>9. ASSUME NEW i \in 1..Len(g), NEW j \in 1..Len(g), g[i] = g[j] PROVE i = j
  <2>1. CASE i \in 1..L /\ j \in 1..L
    BY <1>3, <1>6, <1>9, <2>1
  <2>2. ASSUME i \in 1..L, NEW k \in 1..m, j = L + k PROVE FALSE
    <3>1. g[i] = f[i] /\ g[j] = q[k]
      BY <1>3, <1>4, <2>2
    <3> QED BY <1>8, <1>9, <2>2, <3>1
  <2>3. ASSUME j \in 1..L, NEW k \in 1..m, i = L + k PROVE FALSE
    <3>1. g[j] = f[j] /\ g[i] = q[k]
      BY <1>3, <1>4, <2>3
    <3> QED BY <1>8, <1>9, <2>3, <3>1
  <2>4. ASSUME NEW k \in 1..m, i = L + k, NEW l \in 1..m, j = L + l PROVE i = j
    <3>1. g[i] = q[k] /\ g[j] = q[l]
      BY <1>4, <2>4
    <3>2. k = l
      BY <1>7, <1>9, <3>1
    <3> QED BY <2>4, <3>2
  <2> QED BY <1>5, <2>1, <2>2, <2>3, <2>4
<1>10. ASSUME NEW i \in 1..Len(g), NEW u \in R \ X PROVE sl[u] # g[i]
  <2>1. CASE i \in 1..L
    BY <1>3, <1>6, <2>1
  <2>2. ASSUME NEW k \in 1..m, i = L + k PROVE sl[u] # g[i]
    <3>1. PICK e \in X : sl[e] >= 0 /\ q[k] = sl[e]
      BY <1>7
    <3>2. sl[e] # sl[u]
      BY <3>1 DEF Placed
    <3> QED BY <1>4, <2>2, <3>1, <3>2
  <2> QED BY <1>5, <2>1, <2>2
<1>11. ASSUME NEW s \in 0..(n - 1)
       PROVE  (\E i \in 1..Len(g) : g[i] = s) \/ (\E u \in R \ X : sl[u] = s)
  <2>1. CASE \E i \in 1..L : f[i] = s
    BY <1>3, <2>1
  <2>2. ASSUME NEW e \in R, sl[e] = s PROVE (\E i \in 1..Len(g) : g[i] = s) \/ (\E u \in R \ X : sl[u] = s)
    <3>1. CASE e \in X
      <4>1. PICK k \in 1..m : q[k] = sl[e]
        BY SMTT(30), <1>7, <2>2, <3>1
      <4> QED BY <1>4, <2>2, <4>1
    <3> QED BY <2>2, <3>1
  <2> QED BY <1>6, <2>1, <2>2
<1>12. /\ \A u \in R \ X : sl[u] \in Static..(n - 1)
       /\ \A u, v \in R \ X : u # v /\ sl[u] >= 0 => sl[u] # sl[v]
  BY DEF Placed
<1>13. Placed(R \ X, sl, g, n)
  BY <1>2, <1>9, <1>10, <1>11, <1>12 DEF Placed, S
<1> QED BY <1>13 DEF g

\* Every slot is in one place.
LEMMA PlacedOnce ==
    ASSUME NEW R, NEW sl, NEW f, NEW n \in Nat, Placed(R, sl, f, n), NEW s \in 0..(n - 1)
    PROVE  Cardinality({e \in R : sl[e] = s}) + Cardinality({i \in DOMAIN f : f[i] = s}) = 1
<1> DEFINE H == {e \in R : sl[e] = s}
           F == {i \in DOMAIN f : f[i] = s}
<1>1. DOMAIN f = 1..Len(f)
  BY LenProperties DEF Placed
<1>2. CASE \E i \in 1..Len(f) : f[i] = s
  <2>1. PICK i \in 1..Len(f) : f[i] = s
    BY <1>2
  <2>2. F = {i}
    BY <1>1, <2>1 DEF Placed
  <2>3. H = {}
    BY <2>1 DEF Placed
  <2>4. Cardinality(F) = 1 /\ Cardinality(H) = 0
    BY <2>2, <2>3, FS_EmptySet, FS_Singleton
  <2> QED BY <2>4
<1>3. CASE ~(\E i \in 1..Len(f) : f[i] = s)
  <2>1. PICK e \in R : sl[e] = s
    BY <1>3 DEF Placed
  <2>2. s >= 0
    OBVIOUS
  <2>3. F = {}
    BY <1>1, <1>3
  <2>4. H = {e}
    BY <2>1, <2>2 DEF Placed
  <2>5. Cardinality(F) = 0 /\ Cardinality(H) = 1
    BY <2>3, <2>4, FS_EmptySet, FS_Singleton
  <2> QED BY <2>5
<1> QED BY <1>2, <1>3

\* When no slot is free, there are no more of them than rows that have one.
LEMMA PlacedFull ==
    ASSUME NEW R, NEW sl, NEW f, NEW n \in Nat, Placed(R, sl, f, n), f = <<>>,
           NEW Q, IsFiniteSet(Q), \A e \in R : sl[e] >= 0 => e \in Q
    PROVE  n <= Cardinality(Q)
<1> DEFINE own == [s \in 0..(n - 1) |-> CHOOSE e \in R : sl[e] = s]
<1>1. \A s \in 0..(n - 1) : \E e \in R : sl[e] = s
  BY EmptySeq DEF Placed
<1>2. \A s \in 0..(n - 1) : own[s] \in R /\ sl[own[s]] = s
  BY <1>1
<1>3. own \in [0..(n - 1) -> Q]
  BY <1>2
<1>4. own \in Injection(0..(n - 1), Q)
  BY <1>2, <1>3 DEF Injection, IsInjective
<1>5. Cardinality(0..(n - 1)) <= Cardinality(Q)
  BY <1>4, FS_Injection
<1>6. Cardinality(0..(n - 1)) = IF 0 > n - 1 THEN 0 ELSE n - 1 - 0 + 1
  BY FS_Interval
<1>7. Cardinality(Q) \in Nat
  BY FS_CardinalityType
<1> QED BY <1>5, <1>6, <1>7

-----------------------------------------------------------------------------
(* The invariants.                                                         *)

\* An expert was demanded in this round iff its row has the round's epoch, and
\* no row has a later one.
RoundInv ==
    /\ epoch = 0 => routed = {}
    /\ \A e \in Experts : row[e].lastRouted <= epoch
    /\ epoch # 0 => \A e \in Experts : row[e].lastRouted = epoch <=> e \in routed

\* A row that is ABSENT was given up; one that is being loaded or is READY was
\* admitted, unless it was scheduled without being admitted.
Standing(x, L) ==
    /\ x.state = "Absent" => x.admission = "NotAdmitted"
    /\ x.state \in {"Scheduled", "Loading", "Ready"} =>
          x.admission # "NotAdmitted" \/ "restarted" \in L

\* READY is what has landed on every rank.
Landed(x) == x.state = "Ready" => ~x.inFlight /\ \A r \in Ranks : x.shards[r] = "Ready"

\* A resident has a slot, except in a permanent layer: there it is Cached, and
\* pinned or protected unless it has been bared.
Seated(e, x, L) ==
    IsResident(x) =>
        IF e \in Permanent
          THEN /\ x.slot = Static /\ x.admission = "Cached"
               /\ x.pinned \/ x.protected \/ "bared" \in L
          ELSE x.slot >= 0

\* The count is that of the h leases, unless a call has voided them (V), and
\* they are on rows nobody has taken away.
Leased(e, x, h, V) ==
    e \notin V => /\ x.refcount = h
                  /\ h > 0 => x.state \in {"Scheduled", "Loading", "Ready"}

Good(e, x, h, V, L) == Standing(x, L) /\ Landed(x) /\ Seated(e, x, L) /\ Leased(e, x, h, V)

Goods == \A e \in Experts : Good(e, row[e], held[e], voided, lapses)

Residents == {e \in Experts : IsResident(row[e])}
SlotOf    == [e \in Experts |-> row[e].slot]

\* Every slot is a resident's or free, there are K at most, and no pool has more
\* residents than it may, each as long as no lapse has destroyed it.
Slotted ==
    /\ lapses \subseteq {"bared"} => Placed(Residents, SlotOf, free, next)
    /\ "bared" \notin lapses => PoolsWithin
    /\ lapses = {} => next <= K

\* The invariant.
CacheInv == TypeInv /\ RoundInv /\ Goods /\ Slotted

\* What a call has to keep.
Kept == CacheInv'

-----------------------------------------------------------------------------
(* What a call that changes rows only has to show.                         *)

\* A lapse is never made good.
Onward == lapses \subseteq lapses' /\ lapses' \in SUBSET Lapses /\ voided' \in SUBSET Experts

\* All that calls on rows leave alone.
Aside == UNCHANGED <<capacity, layout, epoch, routed, setup>> /\ events' \in Nat /\ Onward

\* Most calls are no lapse, and void no lease.
LEMMA Still ==
    ASSUME TypeInv, UNCHANGED pastVars
    PROVE  Onward /\ lapses' = lapses /\ voided' = voided
BY DEF TypeInv, TypeOK, pastVars, Onward

\* Some may be a lapse,
LEMMA LapseOn ==
    ASSUME TypeInv, NEW n \in Lapses, NEW b \in BOOLEAN, Lapse(n, b), UNCHANGED voided
    PROVE  /\ Onward /\ voided' = voided /\ (b => n \in lapses')
           /\ \A m \in lapses' : m \in lapses \/ m = n
BY DEF TypeInv, TypeOK, Lapse, Onward

\* and some void leases.
LEMMA VoidOn ==
    ASSUME TypeInv, NEW X \in SUBSET Experts, Void(X), UNCHANGED lapses
    PROVE  /\ Onward /\ lapses' = lapses
           /\ \A u \in Experts : u \in voided' <=> u \in voided \/ (u \in X /\ held[u] > 0)
BY DEF TypeInv, TypeOK, Void, Onward

\* A good row is one after more lapses, and with fewer leases to answer for.
LEMMA GoodStays ==
    ASSUME NEW e, NEW x, NEW h, NEW V, NEW W, NEW L, NEW M,
           Good(e, x, h, V, L), L \subseteq M, e \in V => e \in W
    PROVE  Good(e, x, h, W, M)
BY DEF Good, Standing, Seated, Leased

\* The types.
LEMMA TypesKept ==
    ASSUME TypeInv, Aside, next' \in Nat, row' \in [Experts -> Rows(next')],
           free' \in Seq(0..(next' - 1)), held' \in [Experts -> 0..MaxLease],
           \A e \in Experts : row'[e].refcount <= held'[e]
    PROVE  TypeInv'
<1>1. setup' = setup
  BY DEF Aside
<1>2. /\ Experts' = Experts /\ K' = K /\ Layouts' = Layouts /\ MaxLease' = MaxLease /\ Ranks' = Ranks
  BY <1>1, SetupStays
<1>3. Counted'
  BY <1>2 DEF Counted
<1>4. /\ free' \in Seq(0..(next' - 1)) /\ next' \in Nat /\ epoch' \in 0..(EpochMax - 1) /\ events' \in Nat
      /\ capacity' \in [Layouts' -> -1..K'] /\ layout' \in [Experts' -> Layouts']
      /\ held' \in [Experts' -> 0..MaxLease'] /\ routed' \in SUBSET Experts'
      /\ lapses' \in SUBSET Lapses /\ voided' \in SUBSET Experts'
  BY <1>2 DEF Aside, TypeInv, TypeOK, Onward
<1>5. row' \in [Experts' ->
          [known : BOOLEAN, state : States,
           admission : {"NotAdmitted", "Probation", "Cached"},
           refcount : 0..MaxLease', inFlight : BOOLEAN, protected : BOOLEAN,
           pinned : BOOLEAN, slot : NoShards..(next' - 1),
           shards : [Ranks' -> {"Absent", "Loading", "Ready", "Evicting"}],
           useCount : 0..UseMax, lastRouted : 0..(EpochMax - 1)]]
  BY <1>2 DEF Rows
<1>6. TypeOK'
  BY <1>4, <1>5 DEF TypeOK, States, NoShards
<1> QED BY <1>1, <1>3, <1>6 DEF TypeInv

\* The round.
LEMMA RoundKept ==
    ASSUME RoundInv, UNCHANGED <<epoch, routed, setup>>,
           \A e \in Experts : row'[e].lastRouted = row[e].lastRouted
    PROVE  RoundInv'
BY SetupStays DEF RoundInv

\* The rows, one by one.
LEMMA GoodsKept ==
    ASSUME UNCHANGED setup, \A e \in Experts : Good(e, row'[e], held'[e], voided', lapses')
    PROVE  Goods'
BY SetupStays DEF Goods, Good, Standing, Landed, Seated, Leased, IsResident

\* The slots, when every resident stays one and keeps its slot.
LEMMA SlotsStay ==
    ASSUME TypeInv, Placed(Residents, SlotOf, free, next), UNCHANGED <<setup, free, next>>,
           \A e \in Experts : /\ IsResident(row'[e]) <=> IsResident(row[e])
                              /\ IsResident(row[e]) => row'[e].slot = row[e].slot
    PROVE  Placed(Residents', SlotOf', free', next')
<1>1. Residents' = Residents
  BY SetupStays DEF Residents, IsResident
<1>2. \A e \in Residents : SlotOf'[e] = SlotOf[e]
  BY SetupStays DEF Residents, SlotOf
<1>3. Placed(Residents, SlotOf', free, next)
  <2>1. next \in Nat
    BY TypeFacts
  <2> QED BY <1>2, <2>1, PlacedSame
<1> QED BY <1>1, <1>3

\* The pools, when nobody becomes a resident.
LEMMA PoolsKept ==
    ASSUME TypeInv, PoolsWithin, UNCHANGED <<setup, capacity>>,
           \A e \in Experts : IsResident(row'[e]) => IsResident(row[e]) /\ layout'[e] = layout[e]
    PROVE  PoolsWithin'
<1>1. \A l : PoolResidents(l)' \subseteq PoolResidents(l)
  BY SetupStays DEF PoolResidents, SlotResidents, IsResident
<1>2. IsFiniteSet(Experts) /\ \A l : PoolResidents(l) \subseteq Experts
  BY SetupFacts DEF TypeInv, PoolResidents, SlotResidents
<1>3. ASSUME NEW l \in Layouts, capacity[l] # -1 PROVE Cardinality(PoolResidents(l)') <= capacity[l]
  <2>1. IsFiniteSet(PoolResidents(l))
    BY <1>2, FS_Subset
  <2>2. /\ IsFiniteSet(PoolResidents(l)') /\ Cardinality(PoolResidents(l)') <= Cardinality(PoolResidents(l))
    BY <1>1, <2>1, FS_Subset
  <2>3. Cardinality(PoolResidents(l)') \in Nat /\ Cardinality(PoolResidents(l)) \in Nat
    BY <2>1, <2>2, FS_CardinalityType
  <2>4. Cardinality(PoolResidents(l)) <= capacity[l] /\ capacity[l] \in Int
    BY <1>3, TypeFacts, SetupFacts DEF PoolsWithin, TypeInv
  <2> QED BY <2>2, <2>3, <2>4
<1> QED BY <1>3, SetupStays DEF PoolsWithin, PoolResidents

\* The slots, when the resident e is given up and its slot is free.
LEMMA SlotLeft ==
    ASSUME TypeInv, Placed(Residents, SlotOf, free, next), UNCHANGED <<setup, next>>,
           NEW e \in Residents, ~IsResident(row'[e]), free' = Recycled(free, row[e]),
           \A u \in Experts \ {e} : row'[u] = row[u]
    PROVE  Placed(Residents', SlotOf', free', next')
<1>1. Residents' = Residents \ {e}
  BY SetupStays DEF Residents, IsResident
<1>2. \A u \in Residents' : SlotOf'[u] = SlotOf[u]
  BY <1>1, SetupStays DEF Residents, SlotOf
<1>3. Placed(Residents', SlotOf, free', next)
  <2>1. next \in Nat /\ SlotOf[e] = row[e].slot
    BY TypeFacts DEF SlotOf, Residents
  <2>2. Placed(Residents \ {e}, SlotOf, IF SlotOf[e] < 0 THEN free ELSE Append(free, SlotOf[e]), next)
    BY <2>1, PlacedLeave
  <2> QED BY <1>1, <2>1, <2>2 DEF Recycled
<1>4. next \in Nat
  BY TypeFacts
<1> QED BY <1>2, <1>3, <1>4, PlacedSame

\* The slots, the pools and the bound, from what the call does to the slots.
LEMMA SlotsKept ==
    ASSUME TypeInv, Slotted, Onward, UNCHANGED <<setup, capacity, next>>,
           \A e \in Experts : IsResident(row'[e]) => IsResident(row[e]) /\ layout'[e] = layout[e],
           lapses' \subseteq {"bared"} /\ Placed(Residents, SlotOf, free, next)
             => Placed(Residents', SlotOf', free', next')
    PROVE  Slotted'
<1>1. lapses' \subseteq {"bared"} => Placed(Residents', SlotOf', free', next')
  BY DEF Slotted, Onward
<1>2. "bared" \notin lapses' => PoolsWithin'
  BY PoolsKept DEF Slotted, Onward
<1>3. lapses' = {} => next' <= K'
  BY SetupStays DEF Slotted, Onward
<1> QED BY <1>1, <1>2, <1>3 DEF Slotted, Placed, Static

-----------------------------------------------------------------------------
(* Calls on one row.                                                       *)

\* The call makes y the row of e, and may hand back the slot e had.
Makes(e, y) ==
    /\ row' = [row EXCEPT ![e] = y] /\ next' = next /\ Aside
    /\ free' = free \/ free' = Recycled(free, row[e])
    /\ held' \in [Experts -> 0..MaxLease] /\ \A u \in Experts \ {e} : held'[u] = held[u]
    /\ \A u \in Experts \ {e} : u \in voided => u \in voided'

\* What the invariant says of the row e.
LEMMA RowOf ==
    ASSUME TypeInv, NEW e \in Experts
    PROVE  /\ row[e] \in Rows(next) /\ next \in Nat /\ MaxLease \in Nat /\ held[e] \in 0..MaxLease
           /\ row[e].refcount <= held[e]
BY TypeFacts, SetupFacts DEF TypeInv, Counted

\* The free list stays one.
LEMMA RecycledIsList ==
    ASSUME TypeInv, NEW e \in Experts
    PROVE  Recycled(free, row[e]) \in Seq(0..(next - 1))
<1>1. row[e].slot \in NoShards..(next - 1) /\ free \in Seq(0..(next - 1))
  BY RowOf, TypeFacts, RowFields
<1>2. CASE row[e].slot < 0
  BY <1>1, <1>2 DEF Recycled
<1>3. CASE ~(row[e].slot < 0)
  <2>1. row[e].slot \in 0..(next - 1)
    BY <1>1, <1>3, TypeFacts DEF NoShards
  <2> QED BY <1>1, <1>3, <2>1, AppendProperties DEF Recycled
<1> QED BY <1>2, <1>3

\* A call on one row keeps the invariant when the new row is good and its slot
\* stays where it was, or is handed back.
LEMMA MakesKept ==
    ASSUME CacheInv, NEW e \in Experts, NEW y \in Rows(next), Makes(e, y),
           y.refcount <= held'[e], y.lastRouted = row[e].lastRouted,
           Good(e, y, held'[e], voided', lapses'), IsResident(y) => IsResident(row[e]),
           lapses' \subseteq {"bared"} =>
              \/ /\ free' = free /\ (IsResident(y) <=> IsResident(row[e]))
                 /\ IsResident(y) => y.slot = row[e].slot
              \/ free' = Recycled(free, row[e]) /\ IsResident(row[e]) /\ ~IsResident(y)
    PROVE  Kept
<1>1. row \in [Experts -> Rows(next)] /\ next \in Nat
  BY TypeFacts DEF CacheInv
<1>2. row' \in [Experts -> Rows(next')] /\ next' \in Nat
  BY <1>1 DEF Makes
<1>3. row'[e] = y /\ \A u \in Experts \ {e} : row'[u] = row[u]
  BY <1>1 DEF Makes
<1>4. free' \in Seq(0..(next' - 1))
  BY RecycledIsList, TypeFacts DEF Makes, CacheInv
<1>5. \A u \in Experts : row'[u].refcount <= held'[u]
  BY <1>3 DEF Makes, CacheInv, TypeInv, Counted
<1>6. TypeInv'
  BY <1>2, <1>4, <1>5, TypesKept DEF Makes, CacheInv
<1>7. RoundInv'
  BY <1>3, RoundKept DEF Makes, Aside, CacheInv
<1>8. ASSUME NEW u \in Experts PROVE Good(u, row'[u], held'[u], voided', lapses')
  <2>1. CASE u = e
    BY <1>3, <2>1
  <2>2. CASE u # e
    <3>1. Good(u, row[u], held[u], voided, lapses) /\ row'[u] = row[u] /\ held'[u] = held[u]
      BY <1>3, <2>2 DEF Makes, CacheInv, Goods
    <3>2. lapses \subseteq lapses' /\ (u \in voided => u \in voided')
      BY <2>2 DEF Makes, Aside, Onward
    <3> QED BY <3>1, <3>2, GoodStays
  <2> QED BY <2>1, <2>2
<1>9. Goods'
  BY <1>8, GoodsKept DEF Makes, Aside
<1>10. ASSUME lapses' \subseteq {"bared"}, Placed(Residents, SlotOf, free, next)
       PROVE  Placed(Residents', SlotOf', free', next')
  <2>1. CASE /\ free' = free /\ (IsResident(y) <=> IsResident(row[e]))
             /\ IsResident(y) => y.slot = row[e].slot
    BY <1>3, <1>10, <2>1, SlotsStay DEF Makes, Aside, CacheInv
  <2>2. CASE free' = Recycled(free, row[e]) /\ IsResident(row[e]) /\ ~IsResident(y)
    <3>1. e \in Residents
      BY <2>2 DEF Residents
    <3> QED BY <1>3, <1>10, <2>2, <3>1, SlotLeft DEF Makes, Aside, CacheInv
  <2> QED BY <1>10, <2>1, <2>2
<1>11. Slotted'
  BY <1>3, <1>10, SlotsKept DEF Makes, Aside, CacheInv
<1> QED BY <1>6, <1>7, <1>9, <1>11 DEF Kept, CacheInv

\* A call that leaves the leases and the free list alone.
LEMMA Frame ==
    ASSUME CacheInv, UNCHANGED <<next, events, held, poolVars, roundVars, setup>>, Onward
    PROVE  /\ Aside /\ held' \in [Experts -> 0..MaxLease] /\ held' = held /\ next' = next
BY TypeFacts DEF CacheInv, Aside, poolVars, roundVars

\* mark_evicting: the row keeps its slot until mark_absent.
LEMMA MarkEvictingKeeps ==
    ASSUME CacheInv, NEW e \in Experts, MarkEvicting(e), UNCHANGED setup
    PROVE  Kept
<1> DEFINE x == row[e]
           y == [x EXCEPT !.state = "Evicting", !.shards = AllShards("Evicting")]
<1>1. x \in Rows(next) /\ next \in Nat /\ x.refcount <= held[e]
  BY RowOf DEF CacheInv
<1>2. /\ row' = [row EXCEPT ![e] = y] /\ free' = free
      /\ UNCHANGED <<next, events, held, poolVars, roundVars, pastVars, setup>>
      /\ CanEvict(x) /\ May("mark_evicting")
  BY DEF MarkEvicting
<1> HIDE DEF x
<1>3. y \in Rows(next) /\ y.lastRouted = x.lastRouted /\ y.state = "Evicting" /\ y.admission = x.admission
      /\ y.refcount = x.refcount /\ y.slot = x.slot /\ y.pinned = x.pinned /\ y.protected = x.protected
  BY <1>1 DEF Rows, States, AllShards
<1> HIDE DEF y
<1>4. Makes(e, y) /\ held' = held /\ voided' = voided /\ lapses' = lapses
  BY <1>2, Still, Frame DEF Makes, CacheInv
<1>5. Good(e, y, held'[e], voided', lapses') /\ (IsResident(y) <=> IsResident(x)) /\ y.slot = x.slot
  <2>1. Good(e, x, held[e], voided, lapses)
    BY DEF CacheInv, Goods, x
  <2> QED BY <1>1, <1>2, <1>3, <1>4, <2>1 DEF Good, Standing, Landed, Seated, Leased, IsResident, CanEvict
<1> QED BY <1>1, <1>2, <1>3, <1>4, <1>5, MakesKept DEF x

\* end_startup_protection: nobody in a permanent layer is on probation.
LEMMA EndStartupProtectionKeeps ==
    ASSUME CacheInv, NEW e \in Experts, EndStartupProtection(e), UNCHANGED setup
    PROVE  Kept
<1> DEFINE x == row[e]
           y == [x EXCEPT !.admission = "Cached", !.protected = FALSE]
<1>1. x \in Rows(next) /\ next \in Nat /\ x.refcount <= held[e]
  BY RowOf DEF CacheInv
<1>2. /\ row' = [row EXCEPT ![e] = y] /\ free' = free
      /\ UNCHANGED <<next, events, held, poolVars, roundVars, pastVars, setup>>
      /\ IsResident(x) /\ x.admission = "Probation"
  BY DEF EndStartupProtection
<1> HIDE DEF x
<1>3. y \in Rows(next) /\ y.lastRouted = x.lastRouted /\ y.state = x.state /\ y.admission = "Cached" /\ y.inFlight = x.inFlight
      /\ y.refcount = x.refcount /\ y.slot = x.slot /\ y.pinned = x.pinned /\ y.shards = x.shards
  BY <1>1 DEF Rows, States
<1> HIDE DEF y
<1>4. Makes(e, y) /\ held' = held /\ voided' = voided /\ lapses' = lapses
  BY <1>2, Still, Frame DEF Makes, CacheInv
<1>5. Good(e, y, held'[e], voided', lapses') /\ (IsResident(y) <=> IsResident(x)) /\ y.slot = x.slot
  <2>1. Good(e, x, held[e], voided, lapses)
    BY DEF CacheInv, Goods, x
  <2> QED BY <1>1, <1>2, <1>3, <1>4, <2>1 DEF Good, Standing, Landed, Seated, Leased, IsResident
<1> QED BY <1>1, <1>2, <1>3, <1>4, <1>5, MakesKept DEF x

\* set_pinned: who lifts the pin of an expert nothing protects has bared it.
LEMMA SetPinnedKeeps ==
    ASSUME CacheInv, NEW e \in Experts, NEW b \in BOOLEAN, SetPinned(e, b), UNCHANGED setup
    PROVE  Kept
<1> DEFINE x == row[e]
           y == [x EXCEPT !.pinned = b]
<1>1. x \in Rows(next) /\ next \in Nat /\ x.refcount <= held[e]
  BY RowOf DEF CacheInv
<1>2. /\ row' = [row EXCEPT ![e] = y] /\ free' = free
      /\ UNCHANGED <<next, events, held, poolVars, roundVars, voided, setup>>
      /\ Lapse("bared", e \in Permanent /\ ~b /\ ~x.protected)
  BY DEF SetPinned
<1> HIDE DEF x
<1>3. y \in Rows(next) /\ y.lastRouted = x.lastRouted /\ y.state = x.state /\ y.admission = x.admission /\ y.inFlight = x.inFlight
      /\ y.refcount = x.refcount /\ y.slot = x.slot /\ y.pinned = b /\ y.protected = x.protected /\ y.shards = x.shards
  BY <1>1 DEF Rows, States
<1> HIDE DEF y
<1>4. Makes(e, y) /\ held' = held /\ voided' = voided /\ lapses \subseteq lapses'
      /\ (e \in Permanent /\ ~b /\ ~x.protected => "bared" \in lapses')
  <2>1. (e \in Permanent /\ ~b /\ ~x.protected) \in BOOLEAN /\ "bared" \in Lapses
    BY DEF Lapses
  <2>2. /\ Onward /\ voided' = voided /\ (e \in Permanent /\ ~b /\ ~x.protected => "bared" \in lapses')
    BY <1>2, <2>1, LapseOn DEF CacheInv
  <2> QED BY <1>2, <2>2, Frame DEF Makes, Onward
<1>5. Good(e, y, held'[e], voided', lapses') /\ (IsResident(y) <=> IsResident(x)) /\ y.slot = x.slot
  <2>1. Good(e, x, held[e], voided, lapses)
    BY DEF CacheInv, Goods, x
  <2> QED BY <1>1, <1>2, <1>3, <1>4, <2>1 DEF Good, Standing, Landed, Seated, Leased, IsResident
<1> QED BY <1>1, <1>2, <1>3, <1>4, <1>5, MakesKept DEF x

\* set_protected: and so has who lifts the protection of one that is not pinned.
LEMMA SetProtectedKeeps ==
    ASSUME CacheInv, NEW e \in Experts, NEW b \in BOOLEAN, SetProtected(e, b), UNCHANGED setup
    PROVE  Kept
<1> DEFINE x == row[e]
           y == [x EXCEPT !.protected = b]
<1>1. x \in Rows(next) /\ next \in Nat /\ x.refcount <= held[e]
  BY RowOf DEF CacheInv
<1>2. /\ row' = [row EXCEPT ![e] = y] /\ free' = free
      /\ UNCHANGED <<next, events, held, poolVars, roundVars, voided, setup>>
      /\ Lapse("bared", e \in Permanent /\ ~b /\ ~x.pinned)
  BY DEF SetProtected
<1> HIDE DEF x
<1>3. y \in Rows(next) /\ y.lastRouted = x.lastRouted /\ y.state = x.state /\ y.admission = x.admission /\ y.inFlight = x.inFlight
      /\ y.refcount = x.refcount /\ y.slot = x.slot /\ y.protected = b /\ y.pinned = x.pinned /\ y.shards = x.shards
  BY <1>1 DEF Rows, States
<1> HIDE DEF y
<1>4. Makes(e, y) /\ held' = held /\ voided' = voided /\ lapses \subseteq lapses'
      /\ (e \in Permanent /\ ~b /\ ~x.pinned => "bared" \in lapses')
  <2>1. (e \in Permanent /\ ~b /\ ~x.pinned) \in BOOLEAN /\ "bared" \in Lapses
    BY DEF Lapses
  <2>2. /\ Onward /\ voided' = voided /\ (e \in Permanent /\ ~b /\ ~x.pinned => "bared" \in lapses')
    BY <1>2, <2>1, LapseOn DEF CacheInv
  <2> QED BY <1>2, <2>2, Frame DEF Makes, Onward
<1>5. Good(e, y, held'[e], voided', lapses') /\ (IsResident(y) <=> IsResident(x)) /\ y.slot = x.slot
  <2>1. Good(e, x, held[e], voided, lapses)
    BY DEF CacheInv, Goods, x
  <2> QED BY <1>1, <1>2, <1>3, <1>4, <2>1 DEF Good, Standing, Landed, Seated, Leased, IsResident
<1> QED BY <1>1, <1>2, <1>3, <1>4, <1>5, MakesKept DEF x

\* touch: the same for a row on probation.
LEMMA TouchKeeps ==
    ASSUME CacheInv, NEW e \in Experts, Touch(e), UNCHANGED setup
    PROVE  Kept
<1> DEFINE x == row[e]
           y == [x EXCEPT !.admission = "Cached"]
<1>1. x \in Rows(next) /\ next \in Nat /\ x.refcount <= held[e]
  BY RowOf DEF CacheInv
<1>2. /\ row' = [row EXCEPT ![e] = y] /\ free' = free
      /\ UNCHANGED <<next, events, held, poolVars, roundVars, pastVars, setup>>
      /\ x.admission = "Probation"
  BY DEF Touch
<1> HIDE DEF x
<1>3. y \in Rows(next) /\ y.lastRouted = x.lastRouted /\ y.state = x.state /\ y.admission = "Cached" /\ y.inFlight = x.inFlight
      /\ y.refcount = x.refcount /\ y.slot = x.slot /\ y.pinned = x.pinned /\ y.protected = x.protected
      /\ y.shards = x.shards
  BY <1>1 DEF Rows, States
<1> HIDE DEF y
<1>4. Makes(e, y) /\ held' = held /\ voided' = voided /\ lapses' = lapses
  BY <1>2, Still, Frame DEF Makes, CacheInv
<1>5. Good(e, y, held'[e], voided', lapses') /\ (IsResident(y) <=> IsResident(x)) /\ y.slot = x.slot
  <2>1. Good(e, x, held[e], voided, lapses)
    BY DEF CacheInv, Goods, x
  <2> QED BY <1>1, <1>2, <1>3, <1>4, <2>1 DEF Good, Standing, Landed, Seated, Leased, IsResident
<1> QED BY <1>1, <1>2, <1>3, <1>4, <1>5, MakesKept DEF x

\* mark_scheduled: a row that was given up is now scheduled without a slot.
LEMMA MarkScheduledKeeps ==
    ASSUME CacheInv, NEW e \in Experts, MarkScheduled(e), UNCHANGED setup
    PROVE  Kept
<1> DEFINE x == row[e]
           y == RestartedRow(x)
<1>1. x \in Rows(next) /\ next \in Nat /\ x.refcount <= held[e] /\ MaxLease \in Nat /\ held[e] \in 0..MaxLease
  BY RowOf DEF CacheInv
<1>2. /\ row' = [row EXCEPT ![e] = y] /\ free' = free
      /\ UNCHANGED <<next, events, held, poolVars, roundVars, voided, setup>>
      /\ x.state \in {"Absent", "Evicting"} /\ Lapse("restarted", x.admission = "NotAdmitted")
  BY DEF MarkScheduled
<1> HIDE DEF x
<1>3. y \in Rows(next) /\ y.lastRouted = x.lastRouted /\ y.state = "Scheduled" /\ y.admission = x.admission
      /\ y.slot = x.slot /\ y.pinned = x.pinned /\ y.protected = x.protected
      /\ y.refcount = IF x.state = "Evicting" THEN 0 ELSE x.refcount
  <2>1. 0 \in 0..MaxLease /\ FALSE \in BOOLEAN /\ "Scheduled" \in States
    BY <1>1 DEF States
  <2>2. CASE x.state = "Evicting"
    <3>1. y = [x EXCEPT !.state = "Scheduled", !.inFlight = FALSE, !.refcount = 0]
      BY <2>2 DEF RestartedRow
    <3> HIDE DEF y
    <3>2. y \in Rows(next)
      BY <1>1, <2>1, <3>1 DEF Rows
    <3> QED BY <1>1, <2>2, <3>1, <3>2 DEF Rows
  <2>3. CASE x.state # "Evicting"
    <3>1. y = [x EXCEPT !.state = "Scheduled"]
      BY <2>3 DEF RestartedRow
    <3> HIDE DEF y
    <3>2. y \in Rows(next)
      BY <1>1, <2>1, <3>1 DEF Rows
    <3> QED BY <1>1, <2>3, <3>1, <3>2 DEF Rows
  <2> QED BY <2>2, <2>3
<1> HIDE DEF y
<1>4. Makes(e, y) /\ held' = held /\ voided' = voided /\ lapses \subseteq lapses'
      /\ (x.admission = "NotAdmitted" => "restarted" \in lapses')
  <2>1. (x.admission = "NotAdmitted") \in BOOLEAN /\ "restarted" \in Lapses
    BY DEF Lapses
  <2>2. /\ Onward /\ voided' = voided /\ (x.admission = "NotAdmitted" => "restarted" \in lapses')
    BY <1>2, <2>1, LapseOn DEF CacheInv
  <2> QED BY <1>2, <2>2, Frame DEF Makes, Onward
<1>5. Good(e, y, held'[e], voided', lapses') /\ (IsResident(y) <=> IsResident(x)) /\ y.slot = x.slot
      /\ y.refcount <= held[e]
  <2>1. Good(e, x, held[e], voided, lapses)
    BY DEF CacheInv, Goods, x
  <2> QED BY <1>1, <1>2, <1>3, <1>4, <2>1 DEF Good, Standing, Landed, Seated, Leased, IsResident
<1> QED BY <1>1, <1>2, <1>3, <1>4, <1>5, MakesKept DEF x

\* mark_loading.
LEMMA MarkLoadingKeeps ==
    ASSUME CacheInv, NEW e \in Experts, MarkLoading(e), UNCHANGED setup
    PROVE  Kept
<1> DEFINE x == row[e]
           y == [x EXCEPT !.state = "Loading", !.inFlight = TRUE, !.shards = AllShards("Loading")]
<1>1. x \in Rows(next) /\ next \in Nat /\ x.refcount <= held[e]
  BY RowOf DEF CacheInv
<1>2. /\ row' = [row EXCEPT ![e] = y] /\ free' = free
      /\ UNCHANGED <<next, events, held, poolVars, roundVars, pastVars, setup>>
      /\ x.state = "Scheduled"
  BY DEF MarkLoading
<1> HIDE DEF x
<1>3. y \in Rows(next) /\ y.lastRouted = x.lastRouted /\ y.state = "Loading" /\ y.admission = x.admission
      /\ y.refcount = x.refcount /\ y.slot = x.slot /\ y.pinned = x.pinned /\ y.protected = x.protected
  BY <1>1 DEF Rows, States, AllShards
<1> HIDE DEF y
<1>4. Makes(e, y) /\ held' = held /\ voided' = voided /\ lapses' = lapses
  BY <1>2, Still, Frame DEF Makes, CacheInv
<1>5. Good(e, y, held'[e], voided', lapses') /\ (IsResident(y) <=> IsResident(x)) /\ y.slot = x.slot
  <2>1. Good(e, x, held[e], voided, lapses)
    BY DEF CacheInv, Goods, x
  <2> QED BY <1>1, <1>2, <1>3, <1>4, <2>1 DEF Good, Standing, Landed, Seated, Leased, IsResident
<1> QED BY <1>1, <1>2, <1>3, <1>4, <1>5, MakesKept DEF x

\* cancel_loading: the leases are void, and the slot is free again.
LEMMA CancelLoadingKeeps ==
    ASSUME CacheInv, NEW e \in Experts, CancelLoading(e), UNCHANGED setup
    PROVE  Kept
<1> DEFINE x == row[e]
           y == ReleasedRow(x)
<1>1. x \in Rows(next) /\ next \in Nat /\ x.refcount <= held[e] /\ MaxLease \in Nat /\ held[e] \in 0..MaxLease
  BY RowOf DEF CacheInv
<1>2. /\ row' = [row EXCEPT ![e] = y] /\ free' = Recycled(free, row[e])
      /\ UNCHANGED <<next, events, held, poolVars, roundVars, lapses, setup>>
      /\ x.state \in {"Scheduled", "Loading"} /\ Void({e})
  BY DEF CancelLoading
<1> HIDE DEF x
<1>3. y \in Rows(next) /\ y.lastRouted = x.lastRouted /\ y.state = "Absent" /\ y.admission = "NotAdmitted" /\ y.refcount = 0
  BY <1>1, ReleasedIsRow
<1> HIDE DEF y
<1>4. /\ Makes(e, y) /\ held' = held /\ lapses' = lapses
      /\ e \notin voided' => held[e] = 0
  <2>1. /\ Onward /\ lapses' = lapses
        /\ \A u \in Experts : u \in voided' <=> u \in voided \/ (u \in {e} /\ held[u] > 0)
    BY <1>2, VoidOn DEF CacheInv
  <2>2. ~(held[e] > 0) => held[e] = 0
    BY <1>1
  <2> QED BY <1>2, <2>1, <2>2, Frame DEF Makes
<1>5. /\ Good(e, y, held'[e], voided', lapses') /\ ~IsResident(y)
      /\ lapses' \subseteq {"bared"} => IsResident(x)
  <2>1. Good(e, x, held[e], voided, lapses)
    BY DEF CacheInv, Goods, x
  <2> QED BY <1>1, <1>2, <1>3, <1>4, <2>1 DEF Good, Standing, Landed, Seated, Leased, IsResident
<1> QED BY <1>1, <1>2, <1>3, <1>4, <1>5, MakesKept DEF x

\* evict: the gate opens on rows without a lease only.
LEMMA EvictKeeps ==
    ASSUME CacheInv, NEW e \in Experts, Evict(e), UNCHANGED setup
    PROVE  Kept
<1> DEFINE x == row[e]
           y == EvictedRow(x)
<1>1. x \in Rows(next) /\ next \in Nat /\ x.refcount <= held[e]
  BY RowOf DEF CacheInv
<1>2. /\ row' = [row EXCEPT ![e] = y] /\ free' = Recycled(free, row[e])
      /\ UNCHANGED <<next, events, held, poolVars, roundVars, pastVars, setup>>
      /\ CanEvict(x)
  BY DEF Evict
<1> HIDE DEF x
<1>3. y \in Rows(next) /\ y.lastRouted = x.lastRouted /\ y.state = "Absent" /\ y.admission = "NotAdmitted"
      /\ y.refcount = x.refcount
  BY <1>1, EvictedIsRow
<1> HIDE DEF y
<1>4. Makes(e, y) /\ held' = held /\ voided' = voided /\ lapses' = lapses
  BY <1>2, Still, Frame DEF Makes, CacheInv
<1>5. /\ Good(e, y, held'[e], voided', lapses') /\ ~IsResident(y)
      /\ lapses' \subseteq {"bared"} => IsResident(x)
  <2>1. Good(e, x, held[e], voided, lapses)
    BY DEF CacheInv, Goods, x
  <2> QED BY <1>1, <1>2, <1>3, <1>4, <2>1 DEF Good, Standing, Landed, Seated, Leased, IsResident, CanEvict
<1> QED BY <1>1, <1>2, <1>3, <1>4, <1>5, MakesKept DEF x

\* mark_ready of an expired stage: its slot was given up before.
LEMMA MarkReadyKeeps ==
    ASSUME CacheInv, NEW e \in Experts, MarkReady(e), UNCHANGED setup
    PROVE  Kept
<1> DEFINE x == row[e]
           y == ReleasedRow(x)
<1>1. x \in Rows(next) /\ next \in Nat /\ x.refcount <= held[e] /\ MaxLease \in Nat /\ held[e] \in 0..MaxLease
  BY RowOf DEF CacheInv
<1>2. /\ row' = [row EXCEPT ![e] = y] /\ free' = free
      /\ UNCHANGED <<next, events, held, poolVars, roundVars, voided, setup>>
      /\ Lapse("dropped", x.admission # "NotAdmitted")
      /\ x.state = "Evicting"
  BY DEF MarkReady
<1> HIDE DEF x
<1>3. y \in Rows(next) /\ y.lastRouted = x.lastRouted /\ y.state = "Absent" /\ y.admission = "NotAdmitted" /\ y.refcount = 0 /\ y.slot = x.slot
  BY <1>1, ReleasedIsRow
<1> HIDE DEF y
<1>4. Makes(e, y) /\ held' = held /\ voided' = voided /\ lapses \subseteq lapses'
      /\ (x.admission # "NotAdmitted" => "dropped" \in lapses')
  <2>1. (x.admission # "NotAdmitted") \in BOOLEAN /\ "dropped" \in Lapses
    BY DEF Lapses
  <2>2. /\ Onward /\ voided' = voided /\ (x.admission # "NotAdmitted" => "dropped" \in lapses')
    BY <1>2, <2>1, LapseOn DEF CacheInv
  <2> QED BY <1>2, <2>2, Frame DEF Makes, Onward
<1>5. /\ Good(e, y, held'[e], voided', lapses') /\ ~IsResident(y)
      /\ lapses' \subseteq {"bared"} => ~IsResident(x)
  <2>1. Good(e, x, held[e], voided, lapses)
    BY DEF CacheInv, Goods, x
  <2> QED BY <1>1, <1>2, <1>3, <1>4, <2>1 DEF Good, Standing, Landed, Seated, Leased, IsResident
<1> QED BY <1>1, <1>2, <1>3, <1>4, <1>5, MakesKept DEF x

\* mark_shard_ready: the last shard makes the row READY.
LEMMA MarkShardReadyKeeps ==
    ASSUME CacheInv, NEW e \in Experts, NEW r \in Ranks, MarkShardReady(e, r), UNCHANGED setup
    PROVE  Kept
<1> DEFINE x == row[e]
           y == ShardLanded(x, r)
<1>1. x \in Rows(next) /\ next \in Nat /\ x.refcount <= held[e]
  BY RowOf DEF CacheInv
<1>2. /\ row' = [row EXCEPT ![e] = y] /\ free' = free
      /\ UNCHANGED <<next, events, held, poolVars, roundVars, pastVars, setup>>
      /\ x.state = "Loading"
  BY DEF MarkShardReady
<1> HIDE DEF x
<1>3. y \in Rows(next) /\ y.lastRouted = x.lastRouted /\ y.admission = x.admission /\ y.refcount = x.refcount
      /\ y.slot = x.slot /\ y.pinned = x.pinned /\ y.protected = x.protected
      /\ \/ y.state = x.state
         \/ y.state = "Ready" /\ y.inFlight = FALSE /\ \A q \in Ranks : y.shards[q] = "Ready"
  BY <1>1, LandedIsRow
<1> HIDE DEF y
<1>4. Makes(e, y) /\ held' = held /\ voided' = voided /\ lapses' = lapses
  BY <1>2, Still, Frame DEF Makes, CacheInv
<1>5. Good(e, y, held'[e], voided', lapses') /\ (IsResident(y) <=> IsResident(x)) /\ y.slot = x.slot
  <2>1. Good(e, x, held[e], voided, lapses)
    BY DEF CacheInv, Goods, x
  <2> QED BY <1>1, <1>2, <1>3, <1>4, <2>1 DEF Good, Standing, Landed, Seated, Leased, IsResident
<1> QED BY <1>1, <1>2, <1>3, <1>4, <1>5, MakesKept DEF x

\* mark_absent: the slot is handed back if the row was EVICTING, again if its
\* stage had expired.
LEMMA MarkAbsentKeeps ==
    ASSUME CacheInv, NEW e \in Experts, MarkAbsent(e), UNCHANGED setup
    PROVE  Kept
<1> DEFINE x == row[e]
           y == ReleasedRow(x)
<1>1. x \in Rows(next) /\ next \in Nat /\ MaxLease \in Nat /\ held[e] \in 0..MaxLease
  BY RowOf DEF CacheInv
<1>2. /\ row' = [row EXCEPT ![e] = y] /\ x.state \in {"Evicting", "Absent"}
      /\ free' = IF x.state = "Evicting" THEN Recycled(free, row[e]) ELSE free
      /\ UNCHANGED <<next, events, held, poolVars, roundVars, voided, setup>>
      /\ Lapse("finished", x.state = "Evicting" /\ x.admission = "NotAdmitted")
  BY DEF MarkAbsent
<1> HIDE DEF x
<1>3. y \in Rows(next) /\ y.lastRouted = x.lastRouted /\ y.state = "Absent"
      /\ y.admission = "NotAdmitted" /\ y.refcount = 0 /\ y.slot = x.slot
  BY <1>1, ReleasedIsRow
<1> HIDE DEF y
<1>4. Makes(e, y) /\ held' = held /\ voided' = voided /\ lapses \subseteq lapses'
      /\ (x.state = "Evicting" /\ x.admission = "NotAdmitted" => "finished" \in lapses')
  <2>1. (x.state = "Evicting" /\ x.admission = "NotAdmitted") \in BOOLEAN /\ "finished" \in Lapses
    BY DEF Lapses
  <2>2. /\ Onward /\ voided' = voided /\ (x.state = "Evicting" /\ x.admission = "NotAdmitted" => "finished" \in lapses')
    BY <1>2, <2>1, LapseOn DEF CacheInv
  <2> QED BY <1>2, <2>2, Frame DEF Makes, Onward
<1>5. /\ Good(e, y, held'[e], voided', lapses') /\ ~IsResident(y)
      /\ lapses' \subseteq {"bared"} => (x.state = "Evicting" <=> IsResident(x))
  <2>1. Good(e, x, held[e], voided, lapses)
    BY DEF CacheInv, Goods, x
  <2> QED BY <1>1, <1>2, <1>3, <1>4, <2>1 DEF Good, Standing, Landed, Seated, Leased, IsResident
<1>6. y.refcount <= held'[e]
  BY <1>1, <1>3, <1>4
<1> QED BY <1>2, <1>3, <1>4, <1>5, <1>6, MakesKept DEF x

\* A row bound to the forward that waits for it.
LEMMA BoundKeeps ==
    ASSUME CacheInv, NEW e \in Experts, row[e].state = "Scheduled",
           row' = [row EXCEPT ![e] = BoundRow(@)],
           UNCHANGED <<free, next, events, held, poolVars, roundVars, pastVars, setup>>
    PROVE  Kept
<1> DEFINE x == row[e]
           y == BoundRow(x)
<1>1. x \in Rows(next) /\ next \in Nat /\ x.refcount <= held[e]
  BY RowOf DEF CacheInv
<1>2. row' = [row EXCEPT ![e] = y] /\ x.state = "Scheduled"
  OBVIOUS
<1> HIDE DEF x
<1>3. y \in Rows(next) /\ y.lastRouted = x.lastRouted /\ y.state = "Loading" /\ y.admission = x.admission
      /\ y.refcount = x.refcount /\ y.slot = x.slot /\ y.pinned = x.pinned /\ y.protected = x.protected
  BY <1>1 DEF Rows, States, BoundRow
<1> HIDE DEF y
<1>4. Makes(e, y) /\ held' = held /\ voided' = voided /\ lapses' = lapses
  BY <1>2, Still, Frame DEF Makes, CacheInv
<1>5. Good(e, y, held'[e], voided', lapses') /\ (IsResident(y) <=> IsResident(x)) /\ y.slot = x.slot
  <2>1. Good(e, x, held[e], voided, lapses)
    BY DEF CacheInv, Goods, x
  <2> QED BY <1>1, <1>2, <1>3, <1>4, <2>1 DEF Good, Standing, Landed, Seated, Leased, IsResident
<1> QED BY <1>1, <1>2, <1>3, <1>4, <1>5, MakesKept DEF x

-----------------------------------------------------------------------------
(* Leases.                                                                 *)

\* acquire and acquire_pending: one more lease, on a row nobody may take away.
LEMMA AcquireKeeps ==
    ASSUME CacheInv, NEW e \in Experts, Acquire(e) \/ AcquirePending(e), UNCHANGED setup
    PROVE  Kept
<1> DEFINE x == row[e]
           y == [x EXCEPT !.refcount = @ + 1]
<1>1. x \in Rows(next) /\ next \in Nat /\ x.refcount <= held[e] /\ held[e] \in 0..MaxLease /\ MaxLease \in Nat
      /\ held \in [Experts -> 0..MaxLease] /\ events \in Nat
  BY RowOf, TypeFacts DEF CacheInv
<1>2. /\ row' = [row EXCEPT ![e] = y] /\ free' = free /\ held' = [held EXCEPT ![e] = @ + 1]
      /\ held[e] < MaxLease /\ x.state \notin {"Absent", "Evicting"}
      /\ UNCHANGED <<next, events, poolVars, roundVars, pastVars, setup>>
  BY DEF Acquire, AcquirePending
<1> HIDE DEF x
<1>3. x.refcount \in 0..MaxLease /\ x.refcount + 1 \in 0..MaxLease
  <2>1. x.refcount \in 0..MaxLease
    BY <1>1, RowFields
  <2> QED BY <1>1, <1>2, <2>1
<1>4. y \in Rows(next) /\ y.lastRouted = x.lastRouted /\ y.state = x.state /\ y.admission = x.admission
      /\ y.refcount = x.refcount + 1 /\ y.slot = x.slot /\ y.pinned = x.pinned /\ y.protected = x.protected
      /\ y.inFlight = x.inFlight /\ y.shards = x.shards
  BY <1>1, <1>3 DEF Rows
<1> HIDE DEF y
<1>5. held' \in [Experts -> 0..MaxLease] /\ held'[e] = held[e] + 1 /\ \A u \in Experts \ {e} : held'[u] = held[u]
  BY <1>1, <1>2
<1>6. Makes(e, y) /\ voided' = voided /\ lapses' = lapses
  BY <1>1, <1>2, <1>5, Still DEF Makes, Aside, poolVars, roundVars, CacheInv
<1>7. Good(e, y, held'[e], voided', lapses') /\ (IsResident(y) <=> IsResident(x)) /\ y.slot = x.slot
  <2>1. Good(e, x, held[e], voided, lapses)
    BY DEF CacheInv, Goods, x
  <2>2. x.state \in {"Scheduled", "Loading", "Ready"}
    BY <1>1, <1>2, RowFields DEF States
  <2> QED BY <1>1, <1>2, <1>4, <1>5, <1>6, <2>1, <2>2 DEF Good, Standing, Landed, Seated, Leased, IsResident
<1>8. y.refcount <= held'[e]
  BY <1>1, <1>3, <1>4, <1>5
<1> QED BY <1>2, <1>4, <1>6, <1>7, <1>8, MakesKept DEF x

\* release: one less.
LEMMA ReleaseKeeps ==
    ASSUME CacheInv, NEW e \in Experts, Release(e), UNCHANGED setup
    PROVE  Kept
<1> DEFINE x == row[e]
           c == IF x.refcount > 0 THEN x.refcount - 1 ELSE 0
           y == [x EXCEPT !.refcount = c]
<1>1. x \in Rows(next) /\ next \in Nat /\ x.refcount <= held[e] /\ held[e] \in 0..MaxLease /\ MaxLease \in Nat
      /\ held \in [Experts -> 0..MaxLease] /\ events \in Nat
  BY RowOf, TypeFacts DEF CacheInv
<1>2. /\ row' = [row EXCEPT ![e] = y] /\ free' = free /\ held' = [held EXCEPT ![e] = @ - 1]
      /\ held[e] > 0 /\ voided' = IF held[e] = 1 THEN voided \ {e} ELSE voided
      /\ UNCHANGED <<next, events, poolVars, roundVars, lapses, setup>>
  BY DEF Release
<1>3. x.refcount \in 0..MaxLease /\ c \in 0..MaxLease /\ c <= held[e] - 1
  <2>1. x.refcount \in 0..MaxLease
    BY <1>1, RowFields
  <2> QED BY <1>1, <1>2, <2>1
<1>4. x.refcount = held[e] => c = held[e] - 1
  BY <1>1, <1>2
<1> HIDE DEF x, c
<1>5. y \in Rows(next) /\ y.lastRouted = x.lastRouted /\ y.state = x.state /\ y.admission = x.admission
      /\ y.refcount = c /\ y.slot = x.slot /\ y.pinned = x.pinned /\ y.protected = x.protected
      /\ y.inFlight = x.inFlight /\ y.shards = x.shards
  BY <1>1, <1>3 DEF Rows
<1> HIDE DEF y
<1>6. held' \in [Experts -> 0..MaxLease] /\ held'[e] = held[e] - 1 /\ \A u \in Experts \ {e} : held'[u] = held[u]
  BY <1>1, <1>2
<1>7. Makes(e, y) /\ lapses' = lapses /\ (e \notin voided' => e \notin voided \/ held'[e] = 0)
  <2>1. Onward
    BY <1>2 DEF CacheInv, TypeInv, TypeOK, Onward
  <2>2. /\ \A u \in Experts \ {e} : u \in voided => u \in voided'
        /\ e \notin voided' => e \notin voided \/ held[e] = 1
    BY <1>2
  <2> QED BY <1>1, <1>2, <1>6, <2>1, <2>2 DEF Makes, Aside, poolVars, roundVars
<1>8. Good(e, y, held'[e], voided', lapses') /\ (IsResident(y) <=> IsResident(x)) /\ y.slot = x.slot
  <2>1. Good(e, x, held[e], voided, lapses)
    BY DEF CacheInv, Goods, x
  <2>2. held'[e] = 0 => c = 0
    BY <1>1, <1>3, <1>6
  <2> QED BY <1>1, <1>2, <1>3, <1>4, <1>5, <1>6, <1>7, <2>1, <2>2 DEF Good, Standing, Landed, Seated, Leased, IsResident
<1>9. y.refcount <= held'[e]
  BY <1>3, <1>5, <1>6
<1> QED BY <1>2, <1>5, <1>7, <1>8, <1>9, MakesKept DEF x

-----------------------------------------------------------------------------
(* Use counts and rounds.                                                  *)

\* Two rows that differ in their history only: when they were used and demanded.
Alike(x, y) ==
    /\ y.state = x.state /\ y.admission = x.admission /\ y.refcount = x.refcount
    /\ y.inFlight = x.inFlight /\ y.protected = x.protected /\ y.pinned = x.pinned
    /\ y.slot = x.slot /\ y.shards = x.shards

\* A row whose count is halved.
LEMMA HalvedIsRow ==
    ASSUME NEW n \in Nat, NEW x \in Rows(n), UseMax \in Nat
    PROVE  LET y == [x EXCEPT !.useCount = @ \div 2] IN
           y \in Rows(n) /\ Alike(x, y) /\ y.lastRouted = x.lastRouted
<1>1. x.useCount \in 0..UseMax
  BY RowFields
<1> DEFINE h == x.useCount \div 2
<1>2. h \in 0..UseMax
  BY <1>1
<1> HIDE DEF h
<1>3. [x EXCEPT !.useCount = h] \in Rows(n) /\ Alike(x, [x EXCEPT !.useCount = h])
      /\ [x EXCEPT !.useCount = h].lastRouted = x.lastRouted
  BY <1>2 DEF Rows, Alike
<1> QED BY <1>3 DEF h

\* record_lfu_locked_ on a row that is alike: no row changes in what matters to
\* slots and leases, except that one use may end a probation.
LEMMA LfuRows ==
    ASSUME CacheInv, NEW e \in Experts, NEW x \in Rows(next), Alike(row[e], x), RecordLfu(e, x)
    PROVE  /\ row' \in [Experts -> Rows(next)] /\ events' \in Nat
           /\ row'[e].lastRouted = x.lastRouted
           /\ \A u \in Experts :
                 /\ u # e => row'[u].lastRouted = row[u].lastRouted
                 /\ row'[u].refcount = row[u].refcount
                 /\ IsResident(row'[u]) <=> IsResident(row[u])
                 /\ row'[u].slot = row[u].slot
                 /\ \A h, V, L : Good(u, row[u], h, V, L) => Good(u, row'[u], h, V, L)
<1> DEFINE z == UsedRow(e, x)
           used == [row EXCEPT ![e] = z]
           aged == AgingInterval > 0 /\ events + 1 >= AgingInterval
<1>1. /\ row \in [Experts -> Rows(next)] /\ next \in Nat /\ events \in Nat
      /\ UseMax \in Nat /\ AgingInterval \in Nat
  BY TypeFacts, SetupFacts DEF CacheInv, TypeInv
<1>2. /\ z \in Rows(next)
      /\ z.state = x.state /\ z.inFlight = x.inFlight /\ z.shards = x.shards
      /\ z.refcount = x.refcount /\ z.slot = x.slot /\ z.lastRouted = x.lastRouted
      /\ z.pinned = x.pinned
      /\ z.admission = x.admission \/ (x.admission = "Probation" /\ z.admission = "Cached")
      /\ z.protected = x.protected \/ (x.admission = "Probation" /\ e \notin Permanent)
  BY <1>1, UsedIsRow
<1>3. /\ row' = IF aged THEN [u \in Experts |-> [used[u] EXCEPT !.useCount = @ \div 2]] ELSE used
      /\ events' = IF aged \/ AgingInterval = 0 THEN 0 ELSE events + 1
  BY DEF RecordLfu
<1> HIDE DEF z, aged
<1>4. used \in [Experts -> Rows(next)] /\ used[e] = z /\ \A u \in Experts \ {e} : used[u] = row[u]
  BY <1>1, <1>2
<1> HIDE DEF used
<1>5. /\ row' \in [Experts -> Rows(next)]
      /\ \A u \in Experts : Alike(used[u], row'[u]) /\ row'[u].lastRouted = used[u].lastRouted
  <2>1. CASE aged
    <3>1. row' = [u \in Experts |-> [used[u] EXCEPT !.useCount = @ \div 2]]
      BY <1>3, <2>1
    <3>2. ASSUME NEW u \in Experts
          PROVE  row'[u] \in Rows(next) /\ Alike(used[u], row'[u]) /\ row'[u].lastRouted = used[u].lastRouted
      <4>1. used[u] \in Rows(next) /\ row'[u] = [used[u] EXCEPT !.useCount = @ \div 2]
        BY <1>4, <3>1
      <4> QED BY <1>1, <4>1, HalvedIsRow
    <3> QED BY <3>1, <3>2
  <2>2. CASE ~aged
    BY <1>3, <1>4, <2>2 DEF Alike
  <2> QED BY <2>1, <2>2
<1>6. events' \in Nat
  BY <1>1, <1>3
<1>7. ASSUME NEW u \in Experts
      PROVE  /\ row'[u].refcount = row[u].refcount
             /\ IsResident(row'[u]) <=> IsResident(row[u])
             /\ row'[u].slot = row[u].slot
             /\ \A h, V, L : Good(u, row[u], h, V, L) => Good(u, row'[u], h, V, L)
  <2>1. CASE u # e
    <3>1. Alike(row[u], row'[u])
      BY <1>4, <1>5, <2>1
    <3> QED BY <3>1 DEF Alike, Good, Standing, Landed, Seated, Leased, IsResident
  <2>2. CASE u = e
    <3>1. Alike(z, row'[e])
      BY <1>4, <1>5
    <3>2. Alike(row[e], x)
      OBVIOUS
    <3>3. /\ row'[e].state = row[e].state /\ row'[e].inFlight = row[e].inFlight /\ row'[e].shards = row[e].shards
          /\ row'[e].refcount = row[e].refcount /\ row'[e].slot = row[e].slot
          /\ row'[e].pinned = row[e].pinned
          /\ row'[e].admission = row[e].admission \/ (row[e].admission = "Probation" /\ row'[e].admission = "Cached")
          /\ row'[e].protected = row[e].protected \/ (row[e].admission = "Probation" /\ e \notin Permanent)
      BY <1>2, <3>1, <3>2 DEF Alike
    <3> QED BY <2>2, <3>3 DEF Good, Standing, Landed, Seated, Leased, IsResident
  <2> QED BY <2>1, <2>2
<1>8. \A u \in Experts : u # e => row'[u].lastRouted = row[u].lastRouted
  BY <1>4, <1>5
<1>9. row'[e].lastRouted = x.lastRouted
  BY <1>2, <1>4, <1>5
<1> QED BY <1>5, <1>6, <1>7, <1>8, <1>9

\* What follows for the slots and the leases.
LEMMA LfuKeeps ==
    ASSUME CacheInv, UNCHANGED <<free, next, held, poolVars, pastVars, setup>>,
           \A u \in Experts :
              /\ IsResident(row'[u]) <=> IsResident(row[u])
              /\ row'[u].slot = row[u].slot
              /\ \A h, V, L : Good(u, row[u], h, V, L) => Good(u, row'[u], h, V, L)
    PROVE  Goods' /\ Slotted'
<1>1. Onward /\ voided' = voided /\ lapses' = lapses
  BY Still DEF CacheInv
<1>2. Goods'
  BY <1>1, GoodsKept DEF CacheInv, Goods
<1>3. Placed(Residents, SlotOf, free, next) => Placed(Residents', SlotOf', free', next')
  BY SlotsStay DEF CacheInv
<1>4. Slotted'
  BY <1>1, <1>3, SlotsKept DEF CacheInv, poolVars
<1> QED BY <1>2, <1>4

\* record_use.
LEMMA RecordUseKeeps ==
    ASSUME CacheInv, NEW e \in Experts, RecordUse(e), UNCHANGED setup
    PROVE  Kept
<1>1. row[e] \in Rows(next) /\ Alike(row[e], row[e]) /\ next \in Nat
  BY RowOf DEF Alike, CacheInv
<1>2. RecordLfu(e, row[e]) /\ UNCHANGED <<free, next, held, poolVars, roundVars, pastVars, setup>>
  BY DEF RecordUse
<1>3. /\ row' \in [Experts -> Rows(next)] /\ events' \in Nat
      /\ row'[e].lastRouted = row[e].lastRouted
      /\ \A u \in Experts :
            /\ u # e => row'[u].lastRouted = row[u].lastRouted
            /\ row'[u].refcount = row[u].refcount
            /\ IsResident(row'[u]) <=> IsResident(row[u])
            /\ row'[u].slot = row[u].slot
            /\ \A h, V, L : Good(u, row[u], h, V, L) => Good(u, row'[u], h, V, L)
  BY <1>1, <1>2, LfuRows
<1>4. TypeInv'
  <2>1. \A u \in Experts : row'[u].refcount <= held'[u]
    BY <1>2, <1>3 DEF CacheInv, TypeInv, Counted
  <2>2. held' \in [Experts -> 0..MaxLease] /\ free' \in Seq(0..(next' - 1)) /\ next' \in Nat
    BY <1>2, TypeFacts DEF CacheInv
  <2> QED BY <1>2, <1>3, <2>1, <2>2, TypesKept, Still DEF Aside, poolVars, roundVars, CacheInv
<1>5. RoundInv'
  BY <1>2, <1>3, RoundKept DEF CacheInv, roundVars
<1>6. Goods' /\ Slotted'
  BY <1>2, <1>3, LfuKeeps
<1> QED BY <1>4, <1>5, <1>6 DEF Kept, CacheInv

\* record_router_demand: the row is one of this round from now on.
LEMMA RecordRouterDemandKeeps ==
    ASSUME CacheInv, NEW e \in Experts, RecordRouterDemand(e), UNCHANGED setup
    PROVE  Kept
<1> DEFINE x == [row[e] EXCEPT !.known = TRUE, !.lastRouted = epoch]
<1>1. row[e] \in Rows(next) /\ next \in Nat /\ epoch \in 0..(EpochMax - 1)
  BY RowOf, TypeFacts DEF CacheInv
<1>2. x \in Rows(next) /\ Alike(row[e], x) /\ x.lastRouted = epoch
  BY <1>1 DEF Rows, Alike
<1>3. RecordLfu(e, x) /\ UNCHANGED <<free, next, epoch, held, poolVars, pastVars, setup>>
      /\ routed' = IF epoch = 0 THEN routed ELSE routed \cup {e}
  BY DEF RecordRouterDemand
<1> HIDE DEF x
<1>4. /\ row' \in [Experts -> Rows(next)] /\ events' \in Nat
      /\ row'[e].lastRouted = x.lastRouted
      /\ \A u \in Experts :
            /\ u # e => row'[u].lastRouted = row[u].lastRouted
            /\ row'[u].refcount = row[u].refcount
            /\ IsResident(row'[u]) <=> IsResident(row[u])
            /\ row'[u].slot = row[u].slot
            /\ \A h, V, L : Good(u, row[u], h, V, L) => Good(u, row'[u], h, V, L)
  BY <1>2, <1>3, LfuRows
<1>5. TypeInv'
  <2>1. \A u \in Experts : row'[u].refcount <= held'[u]
    BY <1>3, <1>4 DEF CacheInv, TypeInv, Counted
  <2>2. held' \in [Experts -> 0..MaxLease] /\ free' \in Seq(0..(next' - 1)) /\ next' \in Nat
    BY <1>3, TypeFacts DEF CacheInv
  <2>3. /\ Experts' = Experts /\ K' = K /\ Layouts' = Layouts /\ MaxLease' = MaxLease /\ Ranks' = Ranks
    BY SetupStays
  <2>4. TypeOK'
    BY <1>3, <1>4, <2>2, <2>3 DEF CacheInv, TypeInv, TypeOK, Rows, poolVars, pastVars, States, NoShards
  <2> QED BY <2>1, <2>3, <2>4 DEF TypeInv, Counted, CacheInv
<1>6. RoundInv'
  <2>1. \A u \in Experts : row'[u].lastRouted = IF u = e THEN epoch ELSE row[u].lastRouted
    BY <1>2, <1>4
  <2>2. Experts' = Experts /\ epoch' = epoch
    BY <1>3, SetupStays
  <2> QED BY <1>1, <1>3, <2>1, <2>2 DEF RoundInv, CacheInv
<1>7. Goods' /\ Slotted'
  BY <1>3, <1>4, LfuKeeps
<1> QED BY <1>5, <1>6, <1>7 DEF Kept, CacheInv

\* begin_router_round: nobody was demanded in the new round, and the epochs that
\* rows remember are of earlier ones, or forgotten when the counter wraps.
LEMMA BeginRouterRoundKeeps ==
    ASSUME CacheInv, BeginRouterRound, UNCHANGED setup
    PROVE  Kept
<1>1. /\ row \in [Experts -> Rows(next)] /\ next \in Nat /\ epoch \in 0..(EpochMax - 1)
      /\ EpochMax \in Nat /\ EpochMax > 1 /\ held \in [Experts -> 0..MaxLease]
  BY TypeFacts, SetupFacts DEF CacheInv, TypeInv
<1>2. routed' = {} /\ UNCHANGED <<free, next, events, held, poolVars, pastVars, setup>>
  BY DEF BeginRouterRound
<1>3. /\ row' \in [Experts -> Rows(next)] /\ epoch' \in 1..(EpochMax - 1)
      /\ \A u \in Experts : Alike(row[u], row'[u]) /\ row'[u].lastRouted < epoch'
  <2>1. CASE (epoch + 1) % EpochMax = 0
    <3>1. epoch' = 1 /\ row' = [e \in Experts |-> [row[e] EXCEPT !.lastRouted = 0]]
      BY <2>1 DEF BeginRouterRound
    <3>2. ASSUME NEW u \in Experts
          PROVE  row'[u] \in Rows(next) /\ Alike(row[u], row'[u]) /\ row'[u].lastRouted = 0
      <4>1. row[u] \in Rows(next) /\ row'[u] = [row[u] EXCEPT !.lastRouted = 0] /\ 0 \in 0..(EpochMax - 1)
        BY <1>1, <3>1
      <4> QED BY <4>1 DEF Rows, Alike
    <3>3. row' \in [Experts -> Rows(next)]
      BY <3>1, <3>2
    <3>4. epoch' \in 1..(EpochMax - 1) /\ 0 < epoch'
      BY <1>1, <3>1
    <3> QED BY <3>2, <3>3, <3>4
  <2>2. CASE (epoch + 1) % EpochMax # 0
    <3>1. epoch' = epoch + 1 /\ row' = row
      BY <2>2 DEF BeginRouterRound
    <3>2. EpochMax % EpochMax = 0
      BY <1>1
    <3>3. epoch + 1 # EpochMax
      BY <2>2, <3>2
    <3>4. \A u \in Experts : row[u].lastRouted <= epoch /\ row[u].lastRouted \in 0..(EpochMax - 1)
      BY <1>1, RowFields DEF CacheInv, RoundInv
    <3> QED BY <1>1, <3>1, <3>3, <3>4 DEF Alike
  <2> QED BY <2>1, <2>2
<1>4. /\ Experts' = Experts /\ K' = K /\ Layouts' = Layouts /\ MaxLease' = MaxLease /\ Ranks' = Ranks
  BY SetupStays
<1>5. TypeInv'
  <2>1. epoch' \in 0..(EpochMax - 1)
    BY <1>1, <1>3
  <2>2. TypeOK'
    BY <1>2, <1>3, <1>4, <2>1 DEF CacheInv, TypeInv, TypeOK, Rows, poolVars, pastVars, States, NoShards
  <2>3. \A u \in Experts : row'[u].refcount <= held'[u]
    BY <1>2, <1>3 DEF CacheInv, TypeInv, Counted, Alike
  <2> QED BY <1>4, <2>2, <2>3 DEF TypeInv, Counted, CacheInv
<1>6. RoundInv'
  <2>1. \A u \in Experts : row'[u].lastRouted \in Int
    BY <1>1, <1>3, RowFields
  <2> QED BY <1>2, <1>3, <1>4, <2>1 DEF RoundInv
<1>7. Goods' /\ Slotted'
  BY <1>2, <1>3, LfuKeeps DEF Alike, Good, Standing, Landed, Seated, Leased, IsResident
<1> QED BY <1>5, <1>6, <1>7 DEF Kept, CacheInv

-----------------------------------------------------------------------------
(* Pools.                                                                  *)

\* register_pool: not below the residents the layout has.
LEMMA RegisterPoolKeeps ==
    ASSUME CacheInv, NEW l \in Layouts, NEW c \in 0..K, RegisterPool(l, c), UNCHANGED setup
    PROVE  Kept
<1>1. /\ Cardinality(PoolResidents(l)) <= c /\ capacity' = [capacity EXCEPT ![l] = c]
      /\ UNCHANGED <<row, free, next, events, layout, held, epoch, routed, lapses, voided, setup>>
  BY DEF RegisterPool, roundVars, pastVars
<1>2. /\ Experts' = Experts /\ K' = K /\ Layouts' = Layouts /\ MaxLease' = MaxLease /\ Ranks' = Ranks
      /\ Permanent' = Permanent /\ K \in Nat
  BY SetupStays, SetupFacts DEF CacheInv, TypeInv
<1>3. capacity \in [Layouts -> -1..K] /\ capacity' \in [Layouts -> -1..K]
  <2>1. capacity \in [Layouts -> -1..K] /\ c \in -1..K
    BY <1>2, TypeFacts DEF CacheInv
  <2> QED BY <1>1, <2>1
<1>4. TypeInv'
  BY <1>1, <1>2, <1>3 DEF CacheInv, TypeInv, TypeOK, Counted
<1>5. RoundInv'
  BY <1>1, <1>2 DEF RoundInv, CacheInv
<1>6. Goods' /\ Slotted'
  <2>1. Goods'
    BY <1>1, GoodsKept DEF CacheInv, Goods
  <2>2. \A m : PoolResidents(m)' = PoolResidents(m)
    BY <1>1, <1>2 DEF PoolResidents, SlotResidents, IsResident
  <2>3. "bared" \notin lapses' => PoolsWithin'
    BY <1>1, <1>2, <1>3, <2>2 DEF PoolsWithin, CacheInv, Slotted
  <2>4. Residents' = Residents /\ SlotOf' = SlotOf
    BY <1>1, <1>2 DEF Residents, SlotOf, IsResident
  <2> QED BY <1>1, <1>2, <2>1, <2>3, <2>4 DEF Slotted, CacheInv, Placed, Static
<1> QED BY <1>4, <1>5, <1>6 DEF Kept, CacheInv

\* assign_layout: of an expert that is not resident.
LEMMA AssignLayoutKeeps ==
    ASSUME CacheInv, NEW e \in Experts, NEW l \in Layouts, AssignLayout(e, l), UNCHANGED setup
    PROVE  Kept
<1>1. /\ ~IsResident(row[e]) /\ layout' = [layout EXCEPT ![e] = l]
      /\ UNCHANGED <<row, free, next, events, capacity, held, epoch, routed, lapses, voided, setup>>
  BY DEF AssignLayout, roundVars, pastVars
<1>2. /\ Experts' = Experts /\ K' = K /\ Layouts' = Layouts /\ MaxLease' = MaxLease /\ Ranks' = Ranks
  BY SetupStays
<1>3. layout \in [Experts -> Layouts] /\ layout' \in [Experts -> Layouts]
  BY <1>1, TypeFacts DEF CacheInv
<1>4. TypeInv'
  BY <1>1, <1>2, <1>3 DEF CacheInv, TypeInv, TypeOK, Counted
<1>5. RoundInv'
  BY <1>1, <1>2 DEF RoundInv, CacheInv
<1>6. Goods' /\ Slotted'
  <2>1. Goods'
    BY <1>1, GoodsKept DEF CacheInv, Goods
  <2>2. \A u \in Experts : IsResident(row[u]) => layout'[u] = layout[u]
    BY <1>1, <1>3
  <2>3. Onward
    BY <1>1, Still DEF CacheInv, pastVars
  <2>4. Placed(Residents, SlotOf, free, next) => Placed(Residents', SlotOf', free', next')
    BY <1>1, SlotsStay DEF CacheInv
  <2> QED BY <1>1, <2>1, <2>2, <2>3, <2>4, SlotsKept DEF CacheInv
<1> QED BY <1>4, <1>5, <1>6 DEF Kept, CacheInv

-----------------------------------------------------------------------------
(* Admission.                                                              *)

\* The row of an expert that was admitted,
LEMMA AdmittedFields ==
    ASSUME NEW e, NEW s, NEW st
    PROVE  /\ AdmittedRow(e, s, st).slot = s /\ AdmittedRow(e, s, st).refcount = 0
           /\ AdmittedRow(e, s, st).lastRouted = row[e].lastRouted
BY DEF AdmittedRow, FreshRow

\* and that it is as it should be.
LEMMA AdmittedIsGood ==
    ASSUME NEW e, NEW s, NEW st \in {"Scheduled", "Loading"},
           (e \in Permanent /\ s = Static) \/ (e \notin Permanent /\ s >= 0)
    PROVE  /\ IsResident(AdmittedRow(e, s, st))
           /\ \A h, V, L : (e \notin V => h = 0) => Good(e, AdmittedRow(e, s, st), h, V, L)
<1> DEFINE p == row[e].pinned \/ e \in Permanent
           ad == IF e \in Permanent THEN "Cached" ELSE "Probation"
           u == row[e].useCount
           l == row[e].lastRouted
           y == AdmittedRow(e, s, st)
<1>1. e \in Permanent => p
  OBVIOUS
<1>2. y = [FreshRow EXCEPT !.known = TRUE, !.state = st, !.slot = s, !.useCount = u, !.lastRouted = l,
                           !.protected = TRUE, !.pinned = p, !.admission = ad]
  BY DEF AdmittedRow
<1>3. ad = "Cached" \/ (ad = "Probation" /\ e \notin Permanent)
  OBVIOUS
<1> HIDE DEF p, ad, u, l, y
<1>4. y.state = st /\ y.slot = s /\ y.refcount = 0 /\ y.admission = ad
  BY <1>2 DEF FreshRow
<1>5. y.protected /\ (e \in Permanent => y.pinned)
  <2>1. y.protected = TRUE /\ y.pinned = p
    BY <1>2 DEF FreshRow
  <2> QED BY <1>1, <2>1
<1>6. /\ IsResident(y) /\ Landed(y) /\ \A L : Standing(y, L)
      /\ \A h, V : (e \notin V => h = 0) => Leased(e, y, h, V)
  BY <1>3, <1>4 DEF IsResident, Standing, Landed, Leased
<1>7. \A L : Seated(e, y, L)
  BY <1>3, <1>4, <1>5 DEF Seated
<1> QED BY <1>6, <1>7 DEF Good, y

\* The free list an admission finds once its victims vs are gone.
Freed(vs) == IF vs = {} THEN free ELSE Recycled(free, row[CHOOSE v \in vs : TRUE])

\* Whom an admission of e evicts: nobody, or one row the gate lets go.
Gives(e, vs) ==
    \/ vs = {} /\ ~Full(e)
    \/ \E v \in Experts : /\ vs = {v} /\ Full(e) /\ v \in Victims(layout[e])

\* A victim is a resident of the layout whose eviction is allowed.
LEMMA VictimFacts ==
    ASSUME NEW l, NEW v \in Victims(l)
    PROVE  /\ v \in Experts /\ layout[v] = l /\ IsResident(row[v]) /\ CanEvict(row[v])
           /\ ~RoundProtected(row[v]) /\ row[v].admission # "Probation"
BY DEF Victims

\* The list that a victim leaves.
LEMMA FreedFacts ==
    ASSUME TypeInv, NEW e, NEW vs, Gives(e, vs)
    PROVE  /\ Freed(vs) \in Seq(0..(next - 1))
           /\ \A v : vs = {v} => v \in Experts /\ Freed(vs) = Recycled(free, row[v])
<1>1. CASE vs = {}
  BY <1>1, TypeFacts DEF Freed
<1>2. ASSUME NEW v \in Experts, vs = {v} PROVE Freed(vs) = Recycled(free, row[v])
  <2>1. (CHOOSE u \in vs : TRUE) = v
    BY <1>2
  <2> QED BY <1>2, <2>1 DEF Freed
<1>3. \A v : vs = {v} => v \in Experts
  BY DEF Gives
<1>4. CASE vs # {}
  <2>1. PICK v \in Experts : vs = {v}
    BY <1>4 DEF Gives
  <2> QED BY <1>2, <1>3, <2>1, RecycledIsList
<1> QED BY <1>1, <1>2, <1>3, <1>4

\* e is admitted in state st to the slot s, the rows vs are evicted for it.
Takes(e, st, vs, s) ==
    /\ Gives(e, vs) /\ ~IsResident(row[e])
    /\ row' = [x \in Experts |-> IF x = e THEN AdmittedRow(e, s, st)
                                 ELSE IF x \in vs THEN EvictedRow(row[x]) ELSE row[x]]
    /\ UNCHANGED <<events, held, poolVars, roundVars, lapses>> /\ Void({e})
    /\ \/ e \in Permanent /\ s = Static /\ free' = Freed(vs) /\ next' = next
       \/ /\ e \notin Permanent /\ Freed(vs) # <<>> /\ s = Freed(vs)[Len(Freed(vs))]
          /\ free' = SubSeq(Freed(vs), 1, Len(Freed(vs)) - 1) /\ next' = next
       \/ e \notin Permanent /\ Freed(vs) = <<>> /\ s = next /\ free' = Freed(vs) /\ next' = next + 1

\* An admission in its parts.
LEMMA AdmitParts ==
    ASSUME TypeInv, NEW e \in Experts, NEW st, AdmitThen(e, st)
    PROVE  \E vs, s : Takes(e, st, vs, s)
<1>1. PICK vs : Gives(e, vs) /\ AdmitEvicting(e, vs, st)
  <2>1. CASE Full(e)
    <3>1. PICK v \in Victims(layout[e]) : AdmitEvicting(e, {v}, st)
      BY <2>1 DEF AdmitThen
    <3> QED BY <2>1, <3>1, VictimFacts DEF Gives
  <2>2. CASE ~Full(e)
    BY <2>2 DEF AdmitThen, Gives
  <2> QED BY <2>1, <2>2
<1> DEFINE f == Freed(vs)
           reuse == e \notin Permanent /\ f # <<>>
           s == IF e \in Permanent THEN Static ELSE IF reuse THEN f[Len(f)] ELSE next
<1>2. /\ row' = [x \in Experts |-> IF x = e THEN AdmittedRow(e, s, st)
                                   ELSE IF x \in vs THEN EvictedRow(row[x]) ELSE row[x]]
      /\ free' = (IF reuse THEN SubSeq(f, 1, Len(f) - 1) ELSE f)
      /\ next' = (IF reuse \/ e \in Permanent THEN next ELSE next + 1)
      /\ UNCHANGED <<events, held, poolVars, roundVars, lapses>> /\ Void({e})
  BY <1>1 DEF AdmitEvicting, Freed
<1>3. ~IsResident(row[e])
  BY DEF AdmitThen
<1> HIDE DEF f
<1> SUFFICES \/ e \in Permanent /\ s = Static /\ free' = f /\ next' = next
             \/ /\ e \notin Permanent /\ f # <<>> /\ s = f[Len(f)]
                /\ free' = SubSeq(f, 1, Len(f) - 1) /\ next' = next
             \/ e \notin Permanent /\ f = <<>> /\ s = next /\ free' = f /\ next' = next + 1
  BY <1>1, <1>2, <1>3 DEF f, Takes
<1>4. CASE e \in Permanent
  BY <1>2, <1>4
<1>5. CASE e \notin Permanent /\ f # <<>>
  BY <1>2, <1>5
<1>6. CASE e \notin Permanent /\ f = <<>>
  BY <1>2, <1>6
<1> QED BY <1>4, <1>5, <1>6

\* The rows after an admission: those of e and of its victims are new.
LEMMA TakesRows ==
    ASSUME CacheInv, NEW e \in Experts, NEW st \in {"Scheduled", "Loading"}, NEW vs, NEW s, Takes(e, st, vs, s)
    PROVE  /\ next' \in {next, next + 1} /\ s \in Static..(next' - 1) /\ e \notin vs
           /\ free' \in Seq(0..(next' - 1))
           /\ row' \in [Experts -> Rows(next')]
           /\ row'[e] = AdmittedRow(e, s, st)
           /\ \A v \in Experts : v \in vs => row'[v] = EvictedRow(row[v])
           /\ \A u \in Experts : u # e /\ u \notin vs => row'[u] = row[u]
<1> DEFINE f == Freed(vs)
           S == 0..(next - 1)
<1>1. /\ next \in Nat /\ row \in [Experts -> Rows(next)] /\ setup \in Setups
  BY TypeFacts DEF CacheInv, TypeInv
<1>2. f \in Seq(S) /\ e \notin vs
  BY FreedFacts, VictimFacts DEF Takes, Gives, CacheInv
<1>3. /\ next' \in {next, next + 1} /\ s \in Static..(next' - 1) /\ free' \in Seq(0..(next' - 1))
  <2>1. CASE e \in Permanent
    <3>1. s = Static /\ free' = f /\ next' = next
      BY <2>1 DEF Takes
    <3> QED BY <1>1, <1>2, <3>1 DEF Static
  <2>2. CASE e \notin Permanent /\ f # <<>>
    <3>1. s = f[Len(f)] /\ free' = SubSeq(f, 1, Len(f) - 1) /\ next' = next
      BY <2>2 DEF Takes
    <3> HIDE DEF f, S
    <3>2. Len(f) \in Nat /\ Len(f) # 0 /\ \A i \in 1..Len(f) : f[i] \in S
      BY <1>2, <2>2, LenProperties, EmptySeq, ElementOfSeq
    <3>3. f[Len(f)] \in S
      BY <3>2
    <3>4. \A i \in 1..(Len(f) - 1) : f[i] \in S
      BY <3>2
    <3>5. SubSeq(f, 1, Len(f) - 1) \in Seq(S)
      BY <3>2, <3>4, SubSeqProperties
    <3> QED BY <1>1, <3>1, <3>3, <3>5 DEF Static, S
  <2>3. CASE e \notin Permanent /\ f = <<>>
    <3>1. s = next /\ free' = <<>> /\ next' = next + 1
      BY <2>3 DEF Takes
    <3> QED BY <1>1, <3>1, EmptySeq DEF Static
  <2> QED BY <2>1, <2>2, <2>3
<1>4. next' \in Nat /\ \A u \in Experts : row[u] \in Rows(next')
  <2>1. \A u \in Experts : row[u] \in Rows(next) /\ row[u] \in Rows(next + 1)
    BY <1>1, RowsGrow
  <2> QED BY <1>1, <1>3, <2>1
<1>5. row' = [x \in Experts |-> IF x = e THEN AdmittedRow(e, s, st)
                                 ELSE IF x \in vs THEN EvictedRow(row[x]) ELSE row[x]]
  BY DEF Takes
<1>6. AdmittedRow(e, s, st) \in Rows(next') /\ \A u \in Experts : EvictedRow(row[u]) \in Rows(next')
  BY <1>1, <1>3, <1>4, AdmittedIsRow, EvictedIsRow DEF States
<1> QED BY <1>2, <1>3, <1>4, <1>5, <1>6

\* The types and the round after an admission.
LEMMA TakesTypes ==
    ASSUME CacheInv, NEW e \in Experts, NEW st \in {"Scheduled", "Loading"}, NEW vs, NEW s, Takes(e, st, vs, s),
           UNCHANGED setup
    PROVE  TypeInv' /\ RoundInv' /\ Onward
<1>1. /\ next' \in {next, next + 1} /\ s \in Static..(next' - 1)
      /\ free' \in Seq(0..(next' - 1))
      /\ row' \in [Experts -> Rows(next')]
      /\ row'[e] = AdmittedRow(e, s, st)
      /\ \A v \in Experts : v \in vs => row'[v] = EvictedRow(row[v])
      /\ \A u \in Experts : u # e /\ u \notin vs => row'[u] = row[u]
  BY TakesRows
<1>2. /\ next \in Nat /\ next' \in Nat /\ setup \in Setups /\ held \in [Experts -> 0..MaxLease]
      /\ row \in [Experts -> Rows(next)] /\ events \in Nat
  BY <1>1, TypeFacts DEF CacheInv, TypeInv
<1>3. UNCHANGED <<events, held, capacity, layout, epoch, routed>>
  BY DEF Takes, poolVars, roundVars
<1>4. row'[e].refcount = 0 /\ row'[e].lastRouted = row[e].lastRouted
  <2>1. AdmittedRow(e, s, st).refcount = 0 /\ AdmittedRow(e, s, st).lastRouted = row[e].lastRouted
    BY AdmittedFields
  <2>2. row'[e] = AdmittedRow(e, s, st)
    BY <1>1
  <2> QED BY <2>1, <2>2
<1>5. \A v \in Experts : v \in vs => row'[v].refcount = row[v].refcount /\ row'[v].lastRouted = row[v].lastRouted
  BY <1>1, <1>2, EvictedIsRow
<1>6. ASSUME NEW u \in Experts PROVE row'[u].refcount <= held'[u] /\ row'[u].lastRouted = row[u].lastRouted
  <2>1. row[u].refcount <= held[u] /\ held[u] \in Nat
    BY <1>2, RowOf DEF CacheInv
  <2>2. CASE u = e
    BY <1>3, <1>4, <2>1, <2>2
  <2>3. CASE u \in vs
    BY <1>3, <1>5, <2>1, <2>3
  <2>4. CASE u # e /\ u \notin vs
    BY <1>1, <1>3, <2>1, <2>4
  <2> QED BY <2>2, <2>3, <2>4
<1>7. Onward
  BY VoidOn DEF Takes, CacheInv
<1>8. TypeInv'
  BY <1>1, <1>2, <1>3, <1>6, <1>7, TypesKept DEF CacheInv, Aside
<1>9. RoundInv'
  BY <1>3, <1>6, RoundKept DEF CacheInv
<1> QED BY <1>7, <1>8, <1>9

\* A row the gate lets go is a resident, is of a permanent layer only if it was
\* bared, and has no lease that is not void.
LEMMA GateFacts ==
    ASSUME CacheInv, NEW v \in Experts, CanEvict(row[v])
    PROVE  /\ IsResident(row[v]) \/ "restarted" \in lapses
           /\ IsResident(row[v]) => IF v \in Permanent THEN row[v].slot = Static /\ "bared" \in lapses
                                                      ELSE row[v].slot >= 0
           /\ v \notin voided => held[v] = 0
<1>1. Good(v, row[v], held[v], voided, lapses)
  BY DEF CacheInv, Goods
<1> QED BY <1>1 DEF Good, Standing, Seated, Leased, CanEvict, IsResident

\* An admission makes good rows.
LEMMA TakesGoods ==
    ASSUME CacheInv, NEW e \in Experts, NEW st \in {"Scheduled", "Loading"}, NEW vs, NEW s, Takes(e, st, vs, s),
           UNCHANGED setup
    PROVE  /\ Goods' /\ IsResident(row'[e]) /\ row'[e].slot = s
           /\ \A v \in Experts : v \in vs => ~IsResident(row'[v])
<1>1. /\ next' \in {next, next + 1} /\ s \in Static..(next' - 1)
      /\ row'[e] = AdmittedRow(e, s, st)
      /\ \A v \in Experts : v \in vs => row'[v] = EvictedRow(row[v])
      /\ \A u \in Experts : u # e /\ u \notin vs => row'[u] = row[u]
  BY TakesRows DEF CacheInv
<1>2. /\ next \in Nat /\ next' \in Nat /\ setup \in Setups /\ held \in [Experts -> 0..MaxLease]
      /\ row \in [Experts -> Rows(next)] /\ MaxLease \in Nat
  <2>1. TypeInv
    BY DEF CacheInv
  <2>2. setup \in Setups
    BY <2>1 DEF TypeInv
  <2>3. /\ next \in Nat /\ held \in [Experts -> 0..MaxLease] /\ row \in [Experts -> Rows(next)]
        /\ MaxLease \in Nat
    BY <2>1, <2>2, TypeFacts, SetupFacts
  <2> QED BY <1>1, <2>2, <2>3
<1>3. /\ held' = held /\ lapses' = lapses
      /\ \A u \in Experts : u \in voided' <=> u \in voided \/ (u \in {e} /\ held[u] > 0)
  BY VoidOn DEF Takes, CacheInv
<1>4. row'[e].slot = s
  BY <1>1, AdmittedFields
<1>5. (e \in Permanent /\ s = Static) \/ (e \notin Permanent /\ s >= 0)
  <2>1. CASE e \in Permanent
    BY <2>1 DEF Takes
  <2>2. CASE e \notin Permanent /\ Freed(vs) = <<>>
    BY <1>2, <2>2 DEF Takes
  <2>3. CASE e \notin Permanent /\ Freed(vs) # <<>>
    <3> DEFINE S == 0..(next - 1)
               f == Freed(vs)
    <3>1. f \in Seq(S) /\ s = f[Len(f)] /\ f # <<>>
      BY <2>3, FreedFacts DEF Takes, CacheInv
    <3>2. s \in S
      <4> HIDE DEF S, f
      <4>1. Len(f) \in Nat /\ Len(f) # 0 /\ \A i \in 1..Len(f) : f[i] \in S
        BY <3>1, LenProperties, EmptySeq, ElementOfSeq
      <4> QED BY <3>1, <4>1
    <3> QED BY <2>3, <3>2
  <2> QED BY <2>1, <2>2, <2>3
<1>6. e \notin voided' => held'[e] = 0
  <2>1. held[e] \in Nat
    BY <1>2
  <2> QED BY <1>3, <2>1
<1>7. Good(e, row'[e], held'[e], voided', lapses') /\ IsResident(row'[e])
  BY <1>1, <1>5, <1>6, AdmittedIsGood
<1>8. ASSUME NEW v \in Experts, v \in vs PROVE Good(v, row'[v], held'[v], voided', lapses') /\ ~IsResident(row'[v])
  <2>1. CanEvict(row[v])
    BY <1>8, VictimFacts DEF Takes, Gives
  <2>2. (v \notin voided => held[v] = 0) /\ row[v].refcount = 0
    BY <2>1, GateFacts DEF CanEvict
  <2>3. row'[v].state = "Absent" /\ row'[v].admission = "NotAdmitted" /\ row'[v].refcount = row[v].refcount
    BY <1>1, <1>2, <1>8, EvictedIsRow
  <2> QED BY <1>3, <2>2, <2>3 DEF Good, Standing, Landed, Seated, Leased, IsResident
<1>9. ASSUME NEW u \in Experts PROVE Good(u, row'[u], held'[u], voided', lapses')
  <2>1. CASE u # e /\ u \notin vs
    <3>1. Good(u, row[u], held[u], voided, lapses) /\ row'[u] = row[u] /\ held'[u] = held[u]
      BY <1>1, <1>3, <2>1 DEF CacheInv, Goods
    <3> QED BY <1>3, <3>1, GoodStays
  <2> QED BY <1>7, <1>8, <2>1
<1> QED BY <1>4, <1>7, <1>8, <1>9, GoodsKept

\* The pools after an admission: one more resident where there was room, or one
\* for another.
LEMMA TakesPools ==
    ASSUME CacheInv, NEW e \in Experts, NEW st \in {"Scheduled", "Loading"}, NEW vs, NEW s, Takes(e, st, vs, s),
           UNCHANGED setup, "bared" \notin lapses
    PROVE  PoolsWithin'
<1>1. /\ \A u \in Experts : u # e /\ u \notin vs => row'[u] = row[u]
      /\ e \notin vs
  BY TakesRows DEF CacheInv
<1>2. /\ IsResident(row'[e]) /\ ~IsResident(row[e])
      /\ \A v \in Experts : v \in vs => ~IsResident(row'[v])
  BY TakesGoods DEF Takes
<1>3. /\ UNCHANGED <<capacity, layout>> /\ Experts' = Experts /\ Layouts' = Layouts /\ Permanent' = Permanent
  BY SetupStays DEF Takes, poolVars
<1>4. IsFiniteSet(Experts) /\ capacity \in [Layouts -> -1..K] /\ K \in Nat /\ layout \in [Experts -> Layouts]
  BY SetupFacts, TypeFacts DEF CacheInv, TypeInv
<1> SUFFICES ASSUME NEW l \in Layouts, capacity[l] # -1
             PROVE  Cardinality(PoolResidents(l)') <= capacity[l]
  BY <1>3 DEF PoolsWithin, PoolResidents, SlotResidents, IsResident
<1> DEFINE P == PoolResidents(l)
           Q == PoolResidents(l)'
<1>5. P = {u \in Experts : u \notin Permanent /\ IsResident(row[u]) /\ layout[u] = l}
  BY DEF PoolResidents, SlotResidents
<1>6. Q = {u \in Experts : u \notin Permanent /\ IsResident(row'[u]) /\ layout[u] = l}
  BY <1>3 DEF PoolResidents, SlotResidents, IsResident
<1>7. IsFiniteSet(P) /\ Cardinality(P) \in Nat /\ Cardinality(P) <= capacity[l] /\ capacity[l] \in Int
  BY <1>4, <1>5, FS_Subset, FS_CardinalityType DEF CacheInv, Slotted, PoolsWithin
<1> HIDE DEF P, Q
<1>8. CASE vs = {} /\ ~Full(e)
  <2>1. CASE e \in Permanent \/ layout[e] # l
    <3>1. Q = P
      BY <1>1, <1>2, <1>5, <1>6, <1>8, <2>1
    <3> QED BY <1>7, <3>1 DEF Q
  <2>2. CASE e \notin Permanent /\ layout[e] = l
    <3>1. Q = P \cup {e} /\ e \notin P
      BY <1>1, <1>2, <1>5, <1>6, <1>8, <2>2
    <3>2. Cardinality(Q) = Cardinality(P) + 1
      BY <1>7, <3>1, FS_AddElement
    <3>3. PoolCapacity(l) = capacity[l]
      BY DEF PoolCapacity
    <3>4. Cardinality(P) < capacity[l]
      BY <1>7, <1>8, <2>2, <3>3 DEF Full, P
    <3> QED BY <1>7, <3>2, <3>4 DEF Q
  <2> QED BY <2>1, <2>2
<1>9. ASSUME NEW v \in Experts, vs = {v}, Full(e), v \in Victims(layout[e])
      PROVE  Cardinality(Q) <= capacity[l]
  <2>1. IsResident(row[v]) /\ v \notin Permanent /\ layout[v] = layout[e] /\ v # e /\ e \notin Permanent
    <3>1. /\ IsResident(row[v]) /\ CanEvict(row[v]) /\ layout[v] = layout[e]
          /\ e \notin Permanent
      BY <1>9, VictimFacts DEF Full
    <3>2. v \notin Permanent
      BY <3>1, GateFacts
    <3> QED BY <1>2, <3>1, <3>2
  <2>2. CASE layout[e] # l
    <3>1. Q = P
      BY <1>1, <1>2, <1>5, <1>6, <1>9, <2>1, <2>2
    <3> QED BY <1>7, <3>1
  <2>3. CASE layout[e] = l
    <3>1. v \in P /\ e \notin P
      BY <1>2, <1>5, <2>1, <2>3
    <3>2. Q = (P \ {v}) \cup {e}
      BY <1>1, <1>2, <1>5, <1>6, <1>9, <2>1, <2>3
    <3>3. IsFiniteSet(P \ {v}) /\ Cardinality(P \ {v}) = Cardinality(P) - 1
      BY <1>7, <3>1, FS_RemoveElement
    <3>4. Cardinality(Q) = Cardinality(P \ {v}) + 1
      BY <3>1, <3>2, <3>3, FS_AddElement
    <3> QED BY <1>7, <3>3, <3>4
  <2> QED BY <2>2, <2>3
<1> QED BY <1>8, <1>9 DEF Takes, Gives, Q

\* The slots after an admission.
LEMMA TakesSlots ==
    ASSUME CacheInv, NEW e \in Experts, NEW st \in {"Scheduled", "Loading"}, NEW vs, NEW s, Takes(e, st, vs, s),
           UNCHANGED setup
    PROVE  Slotted'
<1> DEFINE f == Freed(vs)
           R == Residents \ vs
<1>1. /\ \A u \in Experts : u # e /\ u \notin vs => row'[u] = row[u]
      /\ e \notin vs
  BY TakesRows DEF CacheInv
<1>2. /\ IsResident(row'[e]) /\ ~IsResident(row[e]) /\ row'[e].slot = s
      /\ \A v \in Experts : v \in vs => ~IsResident(row'[v])
  BY TakesGoods DEF Takes
<1>3. Experts' = Experts /\ Permanent' = Permanent /\ K' = K
  BY SetupStays
<1>4. next \in Nat /\ K \in Nat /\ IsFiniteSet(Experts) /\ lapses' = lapses
  BY TypeFacts, SetupFacts DEF CacheInv, TypeInv, Takes
<1>5. Residents' = R \cup {e} /\ e \notin R
  BY <1>1, <1>2, <1>3 DEF Residents, IsResident
<1>6. SlotOf'[e] = s /\ \A u \in R : SlotOf'[u] = SlotOf[u]
  BY <1>1, <1>2, <1>3 DEF SlotOf, Residents
<1>7. ASSUME lapses \subseteq {"bared"}
      PROVE  /\ Placed(R, SlotOf, f, next)
             /\ f = <<>> /\ lapses = {} => vs = {} /\ f = free /\ ~Full(e)
  <2>1. Placed(Residents, SlotOf, free, next)
    BY <1>7 DEF CacheInv, Slotted
  <2>2. CASE vs = {} /\ ~Full(e)
    BY <2>1, <2>2 DEF Freed
  <2>3. ASSUME NEW v \in Experts, vs = {v}, Full(e), v \in Victims(layout[e])
        PROVE  Placed(R, SlotOf, f, next) /\ (lapses = {} => f # <<>>)
    <3>1. v \in Residents /\ SlotOf[v] = row[v].slot
      BY <2>3, VictimFacts DEF Residents, SlotOf
    <3>2. f = Recycled(free, row[v])
      BY <2>3, FreedFacts DEF Takes, CacheInv
    <3>3. Placed(Residents \ {v}, SlotOf, IF SlotOf[v] < 0 THEN free ELSE Append(free, SlotOf[v]), next)
      BY <1>4, <2>1, <3>1, PlacedLeave
    <3>4. row[v].slot \in NoShards..(next - 1) /\ free \in Seq(0..(next - 1))
      BY <2>3, RowOf, RowFields, TypeFacts DEF CacheInv
    <3>5. ASSUME lapses = {} PROVE f # <<>>
      <4>1. row[v].slot >= 0
        BY <2>3, <3>5, VictimFacts, GateFacts
      <4>2. f = Append(free, row[v].slot)
        BY <3>2, <3>4, <4>1 DEF Recycled
      <4>3. row[v].slot \in 0..(next - 1)
        BY <1>4, <3>4, <4>1 DEF NoShards
      <4>4. Len(f) = Len(free) + 1 /\ Len(free) \in Nat
        BY <3>4, <4>2, <4>3, AppendProperties, LenProperties
      <4>5. Len(f) # 0
        BY <4>4
      <4> QED BY <4>5, EmptySeq
    <3> QED BY <2>3, <3>1, <3>2, <3>3, <3>5 DEF Recycled
  <2> QED BY <2>2, <2>3 DEF Takes, Gives, Freed
<1> HIDE DEF f, R
<1>8. ASSUME lapses \subseteq {"bared"} PROVE Placed(Residents', SlotOf', free', next')
  <2>1. CASE e \in Permanent
    <3>1. s = Static /\ free' = f /\ next' = next
      BY <2>1 DEF Takes, f
    <3>2. Placed(R \cup {e}, SlotOf', f, next)
      BY <1>4, <1>5, <1>6, <1>7, <1>8, <3>1, PlacedStatic
    <3> QED BY <1>5, <3>1, <3>2
  <2>2. CASE e \notin Permanent /\ f # <<>>
    <3>1. s = f[Len(f)] /\ free' = SubSeq(f, 1, Len(f) - 1) /\ next' = next
      BY <2>2 DEF Takes, f
    <3>2. Placed(R \cup {e}, SlotOf', SubSeq(f, 1, Len(f) - 1), next)
      BY <1>4, <1>5, <1>6, <1>7, <1>8, <2>2, <3>1, PlacedReuse
    <3> QED BY <1>5, <3>1, <3>2
  <2>3. CASE e \notin Permanent /\ f = <<>>
    <3>1. s = next /\ free' = f /\ next' = next + 1
      BY <2>3 DEF Takes, f
    <3>2. Placed(R \cup {e}, SlotOf', f, next + 1)
      BY <1>4, <1>5, <1>6, <1>7, <1>8, <2>3, <3>1, PlacedNew
    <3> QED BY <1>5, <3>1, <3>2
  <2> QED BY <2>1, <2>2, <2>3
<1>9. ASSUME lapses = {} PROVE next' <= K
  <2>1. next <= K /\ Placed(Residents, SlotOf, free, next)
    BY <1>9 DEF CacheInv, Slotted
  <2>2. CASE next' = next
    BY <2>1, <2>2
  <2>3. CASE next' # next
    <3>1. f = <<>> /\ next' = next + 1 /\ e \notin Permanent
      BY <2>3 DEF Takes, f
    <3>2. free = <<>> /\ ~Full(e)
      BY <1>7, <1>9, <3>1
    <3>3. SlotResidents \subseteq Experts /\ IsFiniteSet(SlotResidents) /\ Cardinality(SlotResidents) \in Nat
      BY <1>4, FS_Subset, FS_CardinalityType DEF SlotResidents
    <3>4. \A u \in Residents : SlotOf[u] >= 0 => u \in SlotResidents
      <4> SUFFICES ASSUME NEW u \in Residents, SlotOf[u] >= 0 PROVE u \in SlotResidents
        OBVIOUS
      <4>1. u \in Experts /\ IsResident(row[u]) /\ row[u].slot >= 0 /\ Seated(u, row[u], lapses)
        BY DEF Residents, SlotOf, CacheInv, Goods, Good
      <4>2. u \notin Permanent
        BY <4>1 DEF Seated, Static
      <4> QED BY <4>1, <4>2 DEF SlotResidents
    <3>5. next <= Cardinality(SlotResidents)
      BY <1>4, <2>1, <3>2, <3>3, <3>4, PlacedFull
    <3>6. Cardinality(SlotResidents) < K
      BY <1>4, <3>1, <3>2, <3>3 DEF Full
    <3> QED BY <1>4, <3>1, <3>3, <3>5, <3>6
  <2> QED BY <2>2, <2>3
<1>10. "bared" \notin lapses => PoolsWithin'
  BY TakesPools
<1> QED BY <1>3, <1>4, <1>8, <1>9, <1>10 DEF Slotted, Placed, Static

\* admit, and the first half of bind_forward.
LEMMA AdmitKeeps ==
    ASSUME CacheInv, NEW e \in Experts, NEW st \in {"Scheduled", "Loading"}, AdmitThen(e, st), UNCHANGED setup
    PROVE  Kept
<1>1. PICK vs, s : Takes(e, st, vs, s)
  BY AdmitParts DEF CacheInv
<1> QED BY <1>1, TakesTypes, TakesGoods, TakesSlots DEF Kept, CacheInv

-----------------------------------------------------------------------------
(* Stages that expire.                                                     *)

\* expire_stages: the rows are given up and their slots are free, each once.
LEMMA ExpireStagesKeeps ==
    ASSUME CacheInv, NEW X \in SUBSET Experts, ExpireStages(X), UNCHANGED setup
    PROVE  Kept
<1> DEFINE Y == {e \in X : row[e].slot >= 0}
           m == Cardinality(Y)
<1>1. /\ row \in [Experts -> Rows(next)] /\ next \in Nat /\ free \in Seq(0..(next - 1))
      /\ held \in [Experts -> 0..MaxLease] /\ IsFiniteSet(Experts) /\ events \in Nat
  BY SMTT(30), TypeFacts, SetupFacts DEF CacheInv, TypeInv
<1>2. IsFiniteSet(Y) /\ m \in Nat
  BY <1>1, FS_Subset, FS_CardinalityType
<1>3. PICK order \in Surjection(1..m, Y) : free' = free \o [i \in 1..m |-> row[order[i]].slot]
  BY DEF ExpireStages
<1>4. /\ \A e \in X : /\ row[e].state \in {"Scheduled", "Loading", "Ready"}
                      /\ row[e].protected /\ ~row[e].pinned
      /\ row' = [e \in Experts |->
                   IF e \notin X THEN row[e]
                   ELSE [row[e] EXCEPT !.state = "Evicting", !.inFlight = TRUE, !.admission = "NotAdmitted"]]
      /\ UNCHANGED <<next, events, held, poolVars, roundVars, lapses, setup>> /\ Void(X)
  BY DEF ExpireStages
<1>5. order \in [1..m -> Y] /\ \A e \in Y : \E i \in 1..m : order[i] = e
  BY <1>3 DEF Surjection
<1>6. \A i, j \in 1..m : order[i] = order[j] => i = j
  <2>1. IsFiniteSet(1..m) /\ Cardinality(1..m) = m
    <3> HIDE DEF Y, m
    <3>1. 1 \in Int /\ m \in Int
      BY <1>2
    <3>2. IsFiniteSet(1..m) /\ Cardinality(1..m) = IF 1 > m THEN 0 ELSE m - 1 + 1
      BY ONLY <3>1, FS_Interval
    <3> QED BY <1>2, <3>2
  <2> HIDE DEF Y, m
  <2>2. order \in Injection(1..m, Y)
    BY <1>2, <1>3, <2>1, FS_SurjSameCardinalityImpliesInj DEF m
  <2> QED BY <2>2 DEF Injection, IsInjective
<1> HIDE DEF Y, m
<1>7. ASSUME NEW e \in X
      PROVE  /\ row'[e] \in Rows(next) /\ row'[e].state = "Evicting" /\ row'[e].admission = "NotAdmitted"
             /\ row'[e].refcount = row[e].refcount /\ row'[e].lastRouted = row[e].lastRouted
             /\ row'[e].slot = row[e].slot
  <2>1. row[e] \in Rows(next)
        /\ row'[e] = [row[e] EXCEPT !.state = "Evicting", !.inFlight = TRUE, !.admission = "NotAdmitted"]
    BY <1>1, <1>4
  <2> DEFINE x == row[e]
  <2> HIDE DEF x
  <2>2. [x EXCEPT !.state = "Evicting", !.inFlight = TRUE, !.admission = "NotAdmitted"] \in Rows(next)
    BY <2>1 DEF Rows, States, x
  <2> QED BY <2>1, <2>2 DEF Rows, x
<1>8. \A u \in Experts \ X : row'[u] = row[u]
  BY <1>4
<1>9. row' \in [Experts -> Rows(next)]
  BY <1>1, <1>4, <1>7, <1>8
<1> DEFINE q == [i \in 1..m |-> row[order[i]].slot]
<1>10. /\ q \in Seq(0..(next - 1)) /\ Len(q) = m /\ (\A i \in 1..m : q[i] = row[order[i]].slot)
       /\ free' = free \o q /\ free' \in Seq(0..(next - 1))
  <2> DEFINE S == 0..(next - 1)
  <2>1. \A i \in 1..m : row[order[i]].slot \in S
    <3> SUFFICES ASSUME NEW i \in 1..m PROVE row[order[i]].slot \in S
      OBVIOUS
    <3>1. order[i] \in Experts /\ row[order[i]].slot >= 0
      BY <1>5 DEF Y
    <3>2. row[order[i]].slot \in NoShards..(next - 1)
      BY <1>1, <3>1, RowFields
    <3> QED BY <1>1, <3>1, <3>2 DEF NoShards
  <2>2. q \in Seq(S)
    BY <1>2, <2>1, IsASeq
  <2>3. Len(q) = m
    BY <1>2, <2>2, LenProperties
  <2>4. \A i \in 1..m : q[i] = row[order[i]].slot
    OBVIOUS
  <2>5. free \in Seq(S) /\ free' = free \o q
    BY <1>1, <1>3
  <2> HIDE DEF S, q
  <2>6. free \o q \in Seq(S)
    BY <2>2, <2>5, ConcatProperties
  <2> QED BY <2>2, <2>3, <2>4, <2>5, <2>6 DEF S
<1> HIDE DEF q
<1> DEFINE void == \A u \in Experts : u \in voided' <=> u \in voided \/ (u \in X /\ held[u] > 0)
<1>11. Onward /\ lapses' = lapses /\ void
  BY <1>4, VoidOn DEF CacheInv
<1>12. TypeInv'
  <2>1. \A u \in Experts : row'[u].refcount <= held'[u]
    BY <1>4, <1>7, <1>8 DEF CacheInv, TypeInv, Counted
  <2> QED BY <1>1, <1>4, <1>9, <1>10, <1>11, <2>1, TypesKept DEF CacheInv, Aside, poolVars, roundVars
<1>13. RoundInv'
  BY <1>4, <1>7, <1>8, RoundKept DEF CacheInv, roundVars
<1>14. Goods' /\ Slotted'
  <2>1. \A u \in Experts : Good(u, row[u], held[u], voided, lapses)
    BY DEF CacheInv, Goods
  <2>2. ASSUME NEW u \in X
        PROVE  /\ Good(u, row'[u], held'[u], voided', lapses') /\ ~IsResident(row'[u])
               /\ IsResident(row[u]) \/ "restarted" \in lapses
    <3>1. Good(u, row[u], held[u], voided, lapses) /\ held'[u] = held[u] /\ held[u] \in Nat
      <4>1. held'[u] = held[u] /\ MaxLease \in Nat /\ held[u] \in 0..MaxLease
        BY <1>1, <1>4, SetupFacts DEF CacheInv, TypeInv
      <4> QED BY <2>1, <4>1
    <3>2. u \notin voided' => u \notin voided /\ held[u] = 0
      <4>1. u \in voided' <=> u \in voided \/ held[u] > 0
        BY <1>11
      <4> QED BY <3>1, <4>1
    <3>3. ~IsResident(row'[u]) /\ (IsResident(row[u]) \/ "restarted" \in lapses)
      BY <1>4, <1>7, <3>1 DEF Good, Standing, IsResident
    <3>4. Standing(row'[u], lapses') /\ Landed(row'[u]) /\ Seated(u, row'[u], lapses')
      BY <1>7, <3>3 DEF Standing, Landed, Seated
    <3>5. Leased(u, row'[u], held'[u], voided')
      <4>1. u \notin voided' => row'[u].refcount = 0 /\ held'[u] = 0
        BY <1>7, <3>1, <3>2 DEF Good, Leased
      <4> QED BY <4>1 DEF Leased
    <3> QED BY <3>3, <3>4, <3>5 DEF Good
  <2>3. Goods'
    <3>1. ASSUME NEW u \in Experts \ X PROVE Good(u, row'[u], held'[u], voided', lapses')
      BY <1>4, <1>8, <1>11, <2>1, GoodStays
    <3> QED BY <1>4, <2>2, <3>1, GoodsKept
  <2>4. Experts' = Experts /\ K' = K
    BY SetupStays
  <2>5. ASSUME lapses' \subseteq {"bared"}, Placed(Residents, SlotOf, free, next)
        PROVE  Placed(Residents', SlotOf', free', next')
    <3>1. Residents' = Residents \ X /\ X \subseteq Residents
      BY <1>8, <1>11, <2>2, <2>4, <2>5 DEF Residents, IsResident
    <3>2. Placed(Residents \ X, SlotOf, free', next)
      <4>1. Placed(Residents, SlotOf, free, next)
        BY <2>5
      <4>2. \A i \in 1..m : order[i] \in X /\ SlotOf[order[i]] >= 0 /\ q[i] = SlotOf[order[i]]
        BY <1>5, <1>10 DEF Y, SlotOf
      <4>3. \A i, j \in 1..m : SlotOf[order[i]] = SlotOf[order[j]] => order[i] = order[j]
        BY <3>1, <4>1, <4>2 DEF Placed
      <4>4. \A e \in X : SlotOf[e] >= 0 => \E i \in 1..m : order[i] = e
        BY <1>5 DEF Y, SlotOf
      <4>5. Lists(q, X, SlotOf)
        <5>1. \A i \in 1..m : \E e \in X : SlotOf[e] >= 0 /\ q[i] = SlotOf[e]
          BY <4>2
        <5>2. \A i, j \in 1..m : q[i] = q[j] => i = j
          BY <1>6, <4>2, <4>3
        <5>3. \A e \in X : SlotOf[e] >= 0 => \E i \in 1..m : q[i] = SlotOf[e]
          BY <4>2, <4>4
        <5>4. Len(q) = m
          BY <1>10
        <5> QED BY <5>1, <5>2, <5>3, <5>4 DEF Lists
      <4> QED BY <1>1, <1>10, <3>1, <4>1, <4>5, PlacedLeaveMany
    <3>3. \A u \in Residents \ X : SlotOf'[u] = SlotOf[u]
      BY <1>8, <2>4 DEF Residents, SlotOf
    <3>4. Placed(Residents', SlotOf', free', next')
      <4>1. Placed(Residents \ X, SlotOf', free', next)
        BY <1>1, <3>2, <3>3, PlacedSame
      <4> QED BY <1>4, <3>1, <4>1
    <3> QED BY <3>4
  <2>6. \A u \in Experts : IsResident(row'[u]) => IsResident(row[u]) /\ layout'[u] = layout[u]
    BY <1>4, <1>8, <2>2 DEF poolVars
  <2>7. Slotted'
    BY <1>4, <1>11, <2>5, <2>6, SlotsKept DEF CacheInv, poolVars
  <2> QED BY <2>3, <2>7
<1> QED BY <1>12, <1>13, <1>14 DEF Kept, CacheInv

-----------------------------------------------------------------------------
(* The invariants hold.                                                    *)

\* Every call keeps them.
LEMMA NextKeeps ==
    ASSUME CacheInv, Next
    PROVE  Kept
<1>1. UNCHANGED setup
  BY DEF Next
<1>2. ASSUME NEW e \in Experts, Admit(e) PROVE Kept
  BY <1>1, <1>2, AdmitKeeps DEF Admit
<1>3. ASSUME NEW e \in Experts, EndStartupProtection(e) PROVE Kept
  BY <1>1, <1>3, EndStartupProtectionKeeps
<1>4. ASSUME NEW e \in Experts, MarkScheduled(e) PROVE Kept
  BY <1>1, <1>4, MarkScheduledKeeps
<1>5. ASSUME NEW e \in Experts, MarkLoading(e) PROVE Kept
  BY <1>1, <1>5, MarkLoadingKeeps
<1>6. ASSUME NEW e \in Experts, CancelLoading(e) PROVE Kept
  BY <1>1, <1>6, CancelLoadingKeeps
<1>7. ASSUME NEW e \in Experts, Evict(e) PROVE Kept
  BY <1>1, <1>7, EvictKeeps
<1>8. ASSUME NEW e \in Experts, MarkEvicting(e) PROVE Kept
  BY <1>1, <1>8, MarkEvictingKeeps
<1>9. ASSUME NEW e \in Experts, MarkAbsent(e) PROVE Kept
  BY <1>1, <1>9, MarkAbsentKeeps
<1>10. ASSUME NEW e \in Experts, Acquire(e) \/ AcquirePending(e) PROVE Kept
  BY <1>1, <1>10, AcquireKeeps
<1>11. ASSUME NEW e \in Experts, Release(e) PROVE Kept
  BY <1>1, <1>11, ReleaseKeeps
<1>12. ASSUME NEW e \in Experts, RecordUse(e) PROVE Kept
  BY <1>1, <1>12, RecordUseKeeps
<1>13. ASSUME NEW e \in Experts, RecordRouterDemand(e) PROVE Kept
  BY <1>1, <1>13, RecordRouterDemandKeeps
<1>14. ASSUME NEW e \in Experts, MarkReady(e) PROVE Kept
  BY <1>1, <1>14, MarkReadyKeeps
<1>15. ASSUME NEW e \in Experts, BindForward(e) PROVE Kept
  <2>1. CASE AdmitThen(e, "Loading")
    BY <1>1, <2>1, AdmitKeeps
  <2>2. CASE /\ row[e].state = "Scheduled" /\ row' = [row EXCEPT ![e] = BoundRow(@)]
             /\ UNCHANGED <<free, next, events, held, poolVars, roundVars, pastVars>>
    BY <1>1, <2>2, BoundKeeps
  <2> QED BY <1>15, <2>1, <2>2 DEF BindForward
<1>16. ASSUME NEW e \in Experts, Touch(e) PROVE Kept
  BY <1>1, <1>16, TouchKeeps
<1>17. ASSUME NEW e \in Experts, NEW r \in Ranks, MarkShardReady(e, r) PROVE Kept
  BY <1>1, <1>17, MarkShardReadyKeeps
<1>18. ASSUME NEW e \in Experts, NEW b \in BOOLEAN, SetPinned(e, b) PROVE Kept
  BY <1>1, <1>18, SetPinnedKeeps
<1>19. ASSUME NEW e \in Experts, NEW b \in BOOLEAN, SetProtected(e, b) PROVE Kept
  BY <1>1, <1>19, SetProtectedKeeps
<1>20. ASSUME NEW e \in Experts, NEW l \in Layouts, AssignLayout(e, l) PROVE Kept
  BY <1>1, <1>20, AssignLayoutKeeps
<1>21. ASSUME BeginRouterRound PROVE Kept
  BY <1>1, <1>21, BeginRouterRoundKeeps
<1>22. ASSUME NEW l \in Layouts, NEW c \in 0..K, RegisterPool(l, c) PROVE Kept
  BY <1>1, <1>22, RegisterPoolKeeps
<1>23. ASSUME NEW s \in SUBSET Experts, ExpireStages(s) PROVE Kept
  BY <1>1, <1>23, ExpireStagesKeeps
<1> QED BY <1>2, <1>3, <1>4, <1>5, <1>6, <1>7, <1>8, <1>9, <1>10, <1>11, <1>12, <1>13, <1>14,
           <1>15, <1>16, <1>17, <1>18, <1>19, <1>20, <1>21, <1>22, <1>23 DEF Next

\* They hold of an empty cache.
LEMMA InitHolds ==
    ASSUME Init
    PROVE  CacheInv
<1>1. /\ setup \in Setups /\ row = [e \in Experts |-> FreshRow] /\ free = <<>> /\ next = 0 /\ epoch = 0
      /\ events = 0 /\ capacity = [l \in Layouts |-> -1] /\ layout = [e \in Experts |-> 0]
      /\ held = [e \in Experts |-> 0] /\ routed = {} /\ lapses = {} /\ voided = {}
  BY DEF Init
<1>2. /\ IsFiniteSet(Experts) /\ 0 \in Layouts /\ K \in Nat /\ MaxLease \in Nat /\ UseMax \in Nat
      /\ EpochMax \in Nat /\ EpochMax > 1
  BY <1>1, SetupFacts
<1>3. /\ FreshRow \in Rows(0) /\ FreshRow.refcount = 0 /\ FreshRow.lastRouted = 0
      /\ FreshRow.state = "Absent" /\ FreshRow.admission = "NotAdmitted"
  <2>1. 0 \in 0..MaxLease /\ NoShards \in NoShards..(0 - 1) /\ 0 \in 0..UseMax /\ 0 \in 0..(EpochMax - 1)
    BY <1>2 DEF NoShards
  <2> QED BY <2>1 DEF FreshRow, Rows, States
<1> HIDE DEF FreshRow
<1>4. \A e \in Experts : row[e] = FreshRow /\ held[e] = 0
  BY <1>1
<1>5. free \in Seq(0..(next - 1)) /\ Len(free) = 0
  BY <1>1, EmptySeq
<1>6. TypeOK
  <2>1. row \in [Experts -> Rows(next)]
    BY <1>1, <1>3
  <2>2. epoch \in 0..(EpochMax - 1) /\ events \in Nat /\ capacity \in [Layouts -> -1..K]
        /\ layout \in [Experts -> Layouts] /\ held \in [Experts -> 0..MaxLease] /\ routed \in SUBSET Experts
        /\ next \in Nat /\ lapses \in SUBSET Lapses /\ voided \in SUBSET Experts
    BY <1>1, <1>2
  <2> QED BY <1>5, <2>1, <2>2 DEF TypeOK, Rows
<1>7. TypeInv /\ RoundInv
  BY <1>1, <1>3, <1>4, <1>6 DEF TypeInv, Counted, RoundInv
<1>8. Goods
  BY <1>3, <1>4 DEF Goods, Good, Standing, Landed, Seated, Leased, IsResident
<1>9. Residents = {} /\ \A l : PoolResidents(l) = {}
  BY <1>3, <1>4 DEF Residents, PoolResidents, SlotResidents, IsResident
<1>10. Placed(Residents, SlotOf, free, next)
  BY <1>1, <1>5, <1>9 DEF Placed
<1>11. PoolsWithin
  BY <1>1, <1>9 DEF PoolsWithin
<1>12. Slotted
  BY <1>1, <1>2, <1>10, <1>11 DEF Slotted
<1> QED BY <1>7, <1>8, <1>12 DEF CacheInv

\* Stuttering keeps them too.
LEMMA StutterKeeps ==
    ASSUME CacheInv, UNCHANGED vars
    PROVE  Kept
<1>1. UNCHANGED <<row, free, next, epoch, events, capacity, layout, held, routed, pastVars, setup>>
  BY DEF vars, pastVars
<1>2. Onward /\ lapses' = lapses /\ voided' = voided
  BY <1>1, Still DEF CacheInv
<1>3. TypeInv'
  BY <1>1, <1>2, TypeFacts, TypesKept DEF CacheInv, Aside, TypeInv, Counted
<1>4. RoundInv'
  BY <1>1, RoundKept DEF CacheInv
<1>5. Goods'
  BY <1>1, <1>2, GoodsKept DEF CacheInv, Goods
<1>6. Slotted'
  BY <1>1, <1>2, SlotsKept, SlotsStay DEF CacheInv
<1> QED BY <1>3, <1>4, <1>5, <1>6 DEF Kept, CacheInv

\* The invariant of any client.
LEMMA CacheInvariance == Spec => []CacheInv
<1>1. Init => CacheInv
  BY InitHolds
<1>2. CacheInv /\ [Next]_vars => CacheInv'
  BY NextKeeps, StutterKeeps DEF Kept
<1> QED BY <1>1, <1>2, PTL DEF Spec

\* RoundProtects, of begin_router_round, record_router_demand and the wrap of
\* router_epoch_: the round protects exactly the experts that were demanded in
\* it, whatever calls the client makes.
THEOREM RoundsProtect == Spec => []RoundProtects
<1>1. CacheInv => RoundProtects
  BY DEF CacheInv, RoundInv, RoundProtects, RoundProtected
<1> QED BY <1>1, CacheInvariance, PTL

\* SlotsInv, of the slots that admit hands out and cancel_loading, mark_absent,
\* evict, evict_one_locked_ and expire_stages hand back, whatever calls the
\* client makes: each is a resident's or in the free list once, there are
\* expert_gpu_slots at most, and no pool is over its capacity, each as long as
\* no lapse of the kind that destroys it was made.
THEOREM SlotsAreKept == Spec => []SlotsInv
<1>1. CacheInv => SlotsInv
  <2> SUFFICES ASSUME CacheInv PROVE SlotsInv
    OBVIOUS
  <2>1. /\ TypeOK /\ next \in Nat
        /\ "bared" \notin lapses => PoolsWithin
        /\ lapses = {} => next <= K
    BY TypeFacts DEF CacheInv, TypeInv, Slotted
  <2>2. ASSUME lapses \subseteq {"bared"}, NEW s \in 0..(next - 1)
        PROVE  Cardinality(Holders(s)) + Cardinality({i \in DOMAIN free : free[i] = s}) = 1
    <3>1. Placed(Residents, SlotOf, free, next)
      BY <2>2 DEF CacheInv, Slotted
    <3>2. Holders(s) = {e \in Residents : SlotOf[e] = s}
      BY DEF Holders, Residents, SlotOf
    <3> QED BY <2>1, <3>1, <3>2, PlacedOnce
  <2> QED BY <2>1, <2>2 DEF SlotsInv, SlotsInOnePlace, SlotsInPool
<1> QED BY <1>1, CacheInvariance, PTL

\* LeaseHolds, of acquire, acquire_pending, release and the calls that take an
\* expert away: a leased expert stays resident, and its reference count is the
\* number of its leases, until cancel_loading or expire_stages voids them,
\* whatever calls the client makes.
THEOREM LeasesHold == Spec => []LeaseHolds
<1>1. CacheInv => LeaseHolds
  BY DEF CacheInv, Goods, Good, Standing, Leased, LeaseHolds, IsResident
<1> QED BY <1>1, CacheInvariance, PTL

\* HitIsResident, of lookup: what is READY is on all ranks with no copy in
\* flight, and resident, unless mark_scheduled has restarted what was not,
\* whatever calls the client makes.
THEOREM HitsAreResident == Spec => []HitIsResident
<1>1. CacheInv => HitIsResident
  BY DEF CacheInv, Goods, Good, Standing, Landed, HitIsResident, IsResident
<1> QED BY <1>1, CacheInvariance, PTL

-----------------------------------------------------------------------------
(* What an admission spares.                                               *)

\* Somebody becomes a resident and somebody ceases to be one.
Displaces(e, v) == /\ ~IsResident(row[e]) /\ IsResident(row'[e])
                   /\ IsResident(row[v]) /\ ~IsResident(row'[v])

\* Only admissions do both: the other calls change one row, or nobody becomes a
\* resident.
LEMMA OnlyAdmissions ==
    ASSUME CacheInv, Next, NEW e \in Experts, NEW v \in Experts, Displaces(e, v)
    PROVE  \E st \in {"Scheduled", "Loading"}, x \in Experts : AdmitThen(x, st)
<1>1. row \in [Experts -> Rows(next)] /\ CacheInv /\ TypeInv /\ UNCHANGED setup
  BY TypeFacts DEF CacheInv, Next
<1>2. ASSUME NEW x \in Experts, \A u \in Experts \ {x} : row'[u] = row[u] PROVE FALSE
  BY <1>2 DEF Displaces
<1>3. ASSUME \A u \in Experts : IsResident(row'[u]) => IsResident(row[u]) PROVE FALSE
  BY <1>3 DEF Displaces
<1>4. ASSUME NEW x \in Experts,
             \/ EndStartupProtection(x) \/ MarkScheduled(x) \/ MarkLoading(x) \/ CancelLoading(x)
             \/ Evict(x) \/ MarkEvicting(x) \/ MarkAbsent(x) \/ Acquire(x) \/ AcquirePending(x)
             \/ Release(x) \/ MarkReady(x) \/ Touch(x)
      PROVE  FALSE
  <2>1. \A u \in Experts \ {x} : row'[u] = row[u]
    BY <1>1, <1>4 DEF EndStartupProtection, MarkScheduled, MarkLoading, CancelLoading, Evict, MarkEvicting,
                      MarkAbsent, Acquire, AcquirePending, Release, MarkReady, Touch
  <2> QED BY <1>2, <2>1
<1>5. ASSUME NEW x \in Experts, NEW b, (\E r \in Ranks : MarkShardReady(x, r)) \/ SetPinned(x, b) \/ SetProtected(x, b)
      PROVE  FALSE
  <2>1. \A u \in Experts \ {x} : row'[u] = row[u]
    BY <1>1, <1>5 DEF MarkShardReady, SetPinned, SetProtected
  <2> QED BY <1>2, <2>1
<1>6. ASSUME NEW x \in Experts, RecordUse(x) PROVE FALSE
  <2>1. row[x] \in Rows(next) /\ Alike(row[x], row[x]) /\ RecordLfu(x, row[x])
    BY <1>1, <1>6 DEF Alike, RecordUse
  <2>2. \A u \in Experts : IsResident(row'[u]) <=> IsResident(row[u])
    BY <1>1, <2>1, LfuRows
  <2> QED BY <1>3, <2>2
<1>7. ASSUME NEW x \in Experts, RecordRouterDemand(x) PROVE FALSE
  <2> DEFINE y == [row[x] EXCEPT !.known = TRUE, !.lastRouted = epoch]
  <2>1. row[x] \in Rows(next) /\ epoch \in 0..(EpochMax - 1) /\ RecordLfu(x, y)
    BY <1>1, <1>7, TypeFacts DEF RecordRouterDemand
  <2>2. y \in Rows(next) /\ Alike(row[x], y)
    BY <2>1 DEF Alike, Rows
  <2> HIDE DEF y
  <2>3. \A u \in Experts : IsResident(row'[u]) <=> IsResident(row[u])
    BY <1>1, <2>1, <2>2, LfuRows
  <2> QED BY <1>3, <2>3
<1>8. ASSUME BeginRouterRound PROVE FALSE
  <2>1. ASSUME NEW u \in Experts PROVE row'[u].state = row[u].state /\ row'[u].admission = row[u].admission
    <3>1. row[u] \in Rows(next) /\ (row'[u] = row[u] \/ row'[u] = [row[u] EXCEPT !.lastRouted = 0])
      BY <1>1, <1>8 DEF BeginRouterRound
    <3> QED BY <3>1 DEF Rows
  <2> QED BY <1>3, <2>1 DEF IsResident
<1>9. ASSUME NEW s \in SUBSET Experts, ExpireStages(s) PROVE FALSE
  <2>1. ASSUME NEW u \in Experts PROVE IsResident(row'[u]) => IsResident(row[u])
    <3>1. row[u] \in Rows(next)
          /\ (row'[u] = row[u] \/ row'[u] = [row[u] EXCEPT !.state = "Evicting", !.inFlight = TRUE,
                                                           !.admission = "NotAdmitted"])
      BY <1>1, <1>9 DEF ExpireStages
    <3> QED BY <3>1 DEF Rows, IsResident
  <2> QED BY <1>3, <2>1
<1>10. ASSUME row' = row PROVE FALSE
  BY <1>3, <1>10
<1>11. ASSUME NEW l, NEW c, RegisterPool(l, c) PROVE FALSE
  BY <1>10, <1>11 DEF RegisterPool
<1>12. ASSUME NEW x, NEW l, AssignLayout(x, l) PROVE FALSE
  BY <1>10, <1>12 DEF AssignLayout
<1>13. ASSUME NEW x \in Experts, BindForward(x) PROVE AdmitThen(x, "Loading")
  <2>1. CASE row' = [row EXCEPT ![x] = BoundRow(@)]
    BY <1>1, <1>2, <2>1
  <2> QED BY <1>13, <2>1 DEF BindForward
<1> QED BY <1>4, <1>5, <1>6, <1>7, <1>8, <1>9, <1>11, <1>12, <1>13 DEF Next, Admit

\* AdmissionSpares, of admit and evict_one_locked_, whatever calls the client
\* makes: an admission takes the slot of nobody that is leased (unless the leases
\* were voided), pinned, on probation, demanded, or of a permanent layer (unless
\* it was bared).
THEOREM AdmissionsSpare == Spec => AdmissionSpares
<1> DEFINE Spared(e, v) ==
             /\ held[v] = 0 \/ v \in voided
             /\ v \notin routed
             /\ ~row[v].pinned /\ row[v].admission = "Cached"
             /\ IF v \in Permanent THEN "bared" \in lapses ELSE row'[e].slot = row[v].slot
<1>1. ASSUME CacheInv, Next, NEW e \in Experts, NEW v \in Experts, Displaces(e, v)
      PROVE  Spared(e, v)
  <2>1. PICK st \in {"Scheduled", "Loading"}, x \in Experts : AdmitThen(x, st)
    BY <1>1, OnlyAdmissions
  <2>2. PICK vs, s : Takes(x, st, vs, s)
    BY <1>1, <2>1, AdmitParts DEF CacheInv
  <2>3. /\ \A u \in Experts : u # x /\ u \notin vs => row'[u] = row[u]
        /\ \A u \in Experts : u \in vs => ~IsResident(row'[u])
        /\ IsResident(row'[x]) /\ row'[x].slot = s
    <3>1. UNCHANGED setup
      BY <1>1 DEF Next
    <3> QED BY <1>1, <2>2, <3>1, TakesRows, TakesGoods DEF CacheInv
  <2>4. e = x /\ v \in vs
    BY <1>1, <2>3 DEF Displaces
  <2>5. vs = {v} /\ Full(e) /\ v \in Victims(layout[e])
    BY <2>2, <2>4 DEF Takes, Gives
  <2>6. CanEvict(row[v]) /\ ~RoundProtected(row[v]) /\ row[v].admission # "Probation" /\ IsResident(row[v])
    BY <2>5, VictimFacts
  <2>7. /\ v \notin voided => held[v] = 0
        /\ IF v \in Permanent THEN "bared" \in lapses ELSE row[v].slot >= 0
    BY <1>1, <2>6, GateFacts
  <2>8. v \notin routed
    BY <1>1, <2>6 DEF CacheInv, RoundInv, RoundProtected
  <2>9. row[v] \in Rows(next) /\ next \in Nat /\ free \in Seq(0..(next - 1))
    BY <1>1, RowOf, TypeFacts DEF CacheInv
  <2>10. ~row[v].pinned /\ row[v].admission = "Cached"
    BY <2>6, <2>9, RowFields DEF CanEvict, IsResident
  <2>11. ASSUME v \notin Permanent PROVE row'[e].slot = row[v].slot
    <3>1. Freed(vs) = Append(free, row[v].slot)
      <4>1. Gives(x, vs) /\ TypeInv
        BY <1>1, <2>2 DEF Takes, CacheInv
      <4>2. Freed(vs) = Recycled(free, row[v])
        BY <2>5, <4>1, FreedFacts
      <4>3. row[v].slot \in NoShards..(next - 1)
        BY <2>9, RowFields
      <4>4. ~(row[v].slot < 0)
        BY <2>7, <2>11, <4>3, <2>9 DEF NoShards
      <4> QED BY <4>2, <4>4 DEF Recycled
    <3> DEFINE f == Append(free, row[v].slot)
    <3>2. Len(f) = Len(free) + 1 /\ f[Len(free) + 1] = row[v].slot /\ Len(free) \in Nat
      <4>1. row[v].slot \in 0..(next - 1)
        BY <2>7, <2>9, <2>11, RowFields DEF NoShards
      <4> QED BY <2>9, <4>1, AppendProperties, LenProperties
    <3>3. f # <<>>
      <4> HIDE DEF f
      <4>1. Len(f) # 0
        BY <3>2
      <4> QED BY <4>1, EmptySeq
    <3>4. e \notin Permanent
      BY <2>5 DEF Full
    <3>5. s = f[Len(f)]
      BY <2>2, <2>4, <3>1, <3>3, <3>4 DEF Takes
    <3> QED BY <2>3, <2>4, <3>2, <3>5
  <2> QED BY <2>7, <2>8, <2>10, <2>11
<1>2. ASSUME CacheInv, UNCHANGED vars, NEW e \in Experts, NEW v \in Experts PROVE ~Displaces(e, v)
  BY <1>2 DEF vars, Displaces
<1>3. CacheInv /\ [Next]_vars =>
        [\A e, v \in Experts :
            /\ ~IsResident(row[e]) /\ IsResident(row'[e])
            /\ IsResident(row[v]) /\ ~IsResident(row'[v])
            => /\ held[v] = 0 \/ v \in voided
               /\ v \notin routed
               /\ ~row[v].pinned /\ row[v].admission = "Cached"
               /\ IF v \in Permanent THEN "bared" \in lapses
                  ELSE row'[e].slot = row[v].slot]_vars
  BY <1>1, <1>2 DEF Displaces
<1> QED BY <1>3, CacheInvariance, PTL DEF Spec, AdmissionSpares

-----------------------------------------------------------------------------
(***************************************************************************)
(* Proof that the index of a full-weight checkpoint always names a         *)
(* complete set of shards (IndexWhole of FullCheckpoint), for any number   *)
(* of processes that save, any number of layers, and every fault; a loss   *)
(* of power may have torn a shard, and takes none away.                    *)
(*                                                                         *)
(* IndexWhole alone is not inductive.  What makes it hold is who may touch *)
(* a generation: a save that has not published yet owns its generation     *)
(* (Owned: it is neither the index nor what some save is going to remove), *)
(* and a save that has published removes a generation that the index has   *)
(* left for good (Superseding).  Written says how far a save has come.     *)
(***************************************************************************)

Unpublished(s) == saver[s].at \in {"write", "rename", "index", "publish", "undo"}

SaverAt  == {"idle", "write", "rename", "index", "publish", "undo", "clean"}
SaverRec == [at : SaverAt, gen : 0 .. MaxSaves, prev : 0 .. MaxSaves, layer : LayerSet]
ShardStates   == {"none", "temp", "whole", "torn"}

\* The part of the types that the argument needs.
SaveTypes ==
    /\ index \in 0 .. MaxSaves /\ saves \in 0 .. MaxSaves
    /\ shard \in [Gens -> [LayerSet -> ShardStates]]
    /\ saver \in [Savers -> SaverRec]

\* Generations are given out in order.
Numbered ==
    /\ index <= saves
    /\ \A s \in Savers : saver[s].gen <= saves /\ saver[s].prev <= saves
    /\ \A s \in Savers : Unpublished(s) => saver[s].gen # 0

\* No two saves have the same generation before they publish it.
Distinct == \A s, t \in Savers : s # t /\ Unpublished(s) /\ Unpublished(t) => saver[s].gen # saver[t].gen

\* Nobody else knows the generation of a save that has not published.
Owned == \A s \in Savers : Unpublished(s) =>
            /\ saver[s].gen # index
            /\ \A t \in Savers : saver[t].prev # saver[s].gen

\* What a save removes is no longer the index.
Superseding == \A s \in Savers : At(s, "clean") => saver[s].prev # index

\* The shards a save has written so far are complete.
Written == \A s \in Savers, l \in LayerSet :
            \/ saver[s].at \in {"write", "rename"} /\ l < saver[s].layer
            \/ saver[s].at \in {"index", "publish"}
            => shard[saver[s].gen][l] = "whole"

\* The inductive invariant.
CheckpointInv == SaveTypes /\ Numbered /\ Distinct /\ Owned /\ Superseding /\ Written /\ IndexWhole

-----------------------------------------------------------------------------

\* What one assignment to a shard does.
LEMMA PutShard ==
    ASSUME SaveTypes, NEW g \in 0 .. MaxSaves, NEW l \in LayerSet, NEW w \in ShardStates, Put(g, l, w)
    PROVE  /\ shard' \in [Gens -> [LayerSet -> ShardStates]]
           /\ \A h \in Gens, m \in LayerSet : shard'[h][m] = IF h = g /\ m = l THEN w ELSE shard[h][m]
  BY BoundsAssumption DEF SaveTypes, Put, Gens

\* What one assignment to a saver does: the record of s is replaced.
LEMMA Replace ==
    ASSUME SaveTypes, NEW s \in Savers, NEW r \in SaverRec, saver' = [saver EXCEPT ![s] = r]
    PROVE  /\ saver' \in [Savers -> SaverRec]
           /\ saver'[s] = r
           /\ \A t \in Savers : t # s => saver'[t] = saver[t]
  BY DEF SaveTypes

\* What the rename of a shard does to the save's record.
LEMMA RenameView ==
    ASSUME SaveTypes, NEW s \in Savers, RenameShard(s)
    PROVE  /\ saver' \in [Savers -> SaverRec] /\ \A t \in Savers : t # s => saver'[t] = saver[t]
           /\ saver[s].at = "rename" /\ saver'[s].gen = saver[s].gen /\ saver'[s].prev = saver[s].prev
           /\ index' = index /\ saves' = saves
           /\ \/ saver[s].layer < Layers /\ saver'[s].at = "write" /\ saver'[s].layer = saver[s].layer + 1
              \/ saver[s].layer = Layers /\ saver'[s].at = "index"
  <1> USE LayersAssumption, BoundsAssumption
  <1>1. saver[s] \in SaverRec /\ saver[s].layer \in LayerSet
    BY DEF SaveTypes, SaverRec
  <1>2. CASE saver[s].layer < Layers
    <2> DEFINE r == [at |-> "write", gen |-> saver[s].gen, prev |-> saver[s].prev, layer |-> saver[s].layer + 1]
    <2>1. saver' = [saver EXCEPT ![s] = r]
      BY <1>2 DEF RenameShard, MoreLayers, GoesOn
    <2>2. saver[s].layer + 1 \in LayerSet
      BY <1>1, <1>2 DEF LayerSet
    <2>3. r \in SaverRec
      BY <1>1, <2>2 DEF SaverRec, SaverAt
    <2> QED BY <1>2, <2>1, <2>3, Replace DEF RenameShard, At
  <1>3. CASE ~(saver[s].layer < Layers)
    <2> DEFINE r == [saver[s] EXCEPT !.at = "index"]
    <2>1. saver' = [saver EXCEPT ![s] = r]
      BY <1>3 DEF RenameShard, MoreLayers, Goes
    <2>2. r \in SaverRec /\ r.gen = saver[s].gen /\ r.prev = saver[s].prev /\ r.at = "index"
      BY <1>1 DEF SaverRec, SaverAt
    <2>3. saver[s].layer = Layers
      BY <1>1, <1>3 DEF LayerSet
    <2> QED BY <2>1, <2>2, <2>3, Replace DEF RenameShard, At
  <1> QED BY <1>2, <1>3

\* The step of one save: its new record, and what has become of the files,
\* whatever the action (save_full_weight_checkpoint).
LEMMA SaverView ==
    ASSUME SaveTypes, NEW s \in Savers, SaverStep(s)
    PROVE  /\ saver' \in [Savers -> SaverRec]
           /\ \A t \in Savers : t # s => saver'[t] = saver[t]
           /\ shard' \in [Gens -> [LayerSet -> ShardStates]]
           /\ index' \in 0 .. MaxSaves /\ saves' \in 0 .. MaxSaves
  <1> USE LayersAssumption, BoundsAssumption
  <1> DEFINE rec == saver[s]
  <1>0. rec \in SaverRec /\ rec.gen \in 0 .. MaxSaves /\ rec.prev \in 0 .. MaxSaves /\ rec.layer \in LayerSet
    BY DEF SaveTypes, SaverRec
  <1>t. {"none", "temp", "whole", "torn"} = ShardStates /\ 1 \in LayerSet
    BY DEF ShardStates, LayerSet
  <1>1. CASE SaveBegin(s)
    <2>1. [at |-> "write", gen |-> saves + 1, prev |-> index, layer |-> 1] \in SaverRec
      BY <1>1, <1>t DEF SaveBegin, SaverRec, SaverAt, SaveTypes
    <2> QED BY <1>1, <2>1, Replace DEF SaveBegin, files, SaveTypes
  <1>2. CASE WriteShard(s)
    BY <1>0, <1>2, <1>t, PutShard DEF WriteShard, Goes, SaveTypes, SaverRec, SaverAt, ShardStates
  <1>3. CASE RenameShard(s)
    <2>2. shard' \in [Gens -> [LayerSet -> ShardStates]]
      BY <1>0, <1>3, <1>t, PutShard DEF RenameShard
    <2> QED BY <1>3, <2>2, RenameView DEF RenameShard, SaveTypes
  <1>4. CASE WriteIndex(s)
    BY <1>4 DEF WriteIndex, Goes, SaveTypes, SaverRec, SaverAt
  <1>5. CASE PublishIndex(s)
    BY <1>5, <1>t DEF PublishIndex, GoesOn, SaveTypes, SaverRec, SaverAt
  <1>6. CASE SaveFails(s)
    <2>1. shard' \in [Gens -> [LayerSet -> ShardStates]]
      BY <1>0, <1>6, <1>t, PutShard DEF SaveFails, SaveTypes
    <2> QED BY <1>6, <2>1 DEF SaveFails, Goes, SaveTypes, SaverRec, SaverAt
  <1>7. CASE Undo(s)
    <2>1. shard' \in [Gens -> [LayerSet -> ShardStates]]
      BY <1>0, <1>7, <1>t, PutShard DEF Undo, SaveTypes, UndoShards
    <2>2. Idle \in SaverRec
      BY <1>t DEF Idle, SaverRec, SaverAt
    <2> QED BY <1>7, <2>1, <2>2 DEF Undo, SaveTypes
  <1>8. CASE RemoveOld(s)
    <2>1. shard' \in [Gens -> [LayerSet -> ShardStates]]
      BY <1>0, <1>8, <1>t, PutShard DEF RemoveOld, Superseded
    <2> QED BY <1>8, <2>1 DEF RemoveOld, SaveTypes
  <1>9. CASE SaveReturns(s) \/ Crash(s)
    <2>2. Idle \in SaverRec
      BY <1>t DEF Idle, SaverRec, SaverAt
    <2> QED BY <1>9, <2>2 DEF SaveReturns, Crash, files, SaveTypes
  <1> QED BY <1>1, <1>2, <1>3, <1>4, <1>5, <1>6, <1>7, <1>8, <1>9 DEF SaverStep

\* A save's steps keep the invariant (save_full_weight_checkpoint).
LEMMA SaverKeeps ==
    ASSUME CheckpointInv, NEW s \in Savers, SaverStep(s)
    PROVE  CheckpointInv'
<1> USE LayersAssumption, BoundsAssumption
<1> DEFINE rec == saver[s]
           new == saver'[s]
<1>0. rec \in SaverRec /\ rec.gen \in 0 .. MaxSaves /\ rec.prev \in 0 .. MaxSaves /\ rec.layer \in LayerSet
  BY DEF CheckpointInv, SaveTypes, SaverRec
<1>a. /\ SaveTypes' /\ saver' \in [Savers -> SaverRec]
      /\ \A t \in Savers : t # s => saver'[t] = saver[t]
  BY SaverView DEF CheckpointInv, SaveTypes
<1>b. SaveTypes /\ {"none", "temp", "whole", "torn"} = ShardStates
  BY DEF ShardStates, CheckpointInv
<1>c. \A t \in Savers : Unpublished(t) => saver[t].gen \in Gens /\ saver[t].layer \in LayerSet
  BY DEF CheckpointInv, SaveTypes, SaverRec, Numbered, Gens
<1>e. \A t \in Savers : saver[t].gen \in Nat /\ saver[t].prev \in Nat
  BY DEF CheckpointInv, SaveTypes, SaverRec
\* The other saves' shards stay complete, if what the step changes is not theirs.
<1>d. ASSUME \A t \in Savers : t # s /\ Unpublished(t) =>
                \A l \in LayerSet : shard'[saver[t].gen][l] = shard[saver[t].gen][l],
             NEW t \in Savers, NEW l \in LayerSet, t # s,
             \/ saver'[t].at \in {"write", "rename"} /\ l < saver'[t].layer
             \/ saver'[t].at \in {"index", "publish"}
      PROVE  shard'[saver'[t].gen][l] = "whole"
  BY <1>a, <1>d DEF CheckpointInv, Written, Unpublished
<1>1. CASE SaveBegin(s)
  <2>1. /\ rec.at = "idle" /\ new.at = "write" /\ new.layer = 1
        /\ new.gen = saves + 1 /\ new.prev = index
        /\ saves' = saves + 1 /\ index' = index
        /\ saves \in Nat /\ index \in Nat
    BY <1>1 DEF SaveBegin, At, files, CheckpointInv, SaveTypes, SaverRec
  <2>2. /\ shard' = shard
    BY <1>1 DEF SaveBegin, files
  <2>3. Numbered'
    BY <1>0, <1>a, <1>e, <2>1 DEF CheckpointInv, SaveTypes, Numbered, Unpublished
  <2>4. Distinct'
    BY <1>0, <1>a, <2>1 DEF CheckpointInv, SaveTypes, Numbered, Distinct, Unpublished
  <2>5. Owned'
    <3>1. \A t \in Savers : t # s /\ Unpublished(t) =>
              saver[t].gen # index' /\ saver[t].gen # new.prev /\ \A q \in Savers : saver[q].prev # saver[t].gen
      BY <1>0, <1>e, <2>1 DEF CheckpointInv, Numbered, Distinct, Owned, Unpublished
    <3>2. Unpublished(s)' => new.gen # index' /\ new.gen # new.prev /\ \A q \in Savers : saver[q].prev # new.gen
      BY <1>0, <1>e, <2>1 DEF CheckpointInv, Numbered, Owned, Unpublished
    <3> QED BY <1>a, <3>1, <3>2 DEF Owned, Unpublished
  <2>6. Superseding'
    BY <1>0, <1>a, <2>1 DEF CheckpointInv, Superseding, Owned, Unpublished, At
  <2>7. Written'
    <3>1. \A t \in Savers : t # s /\ Unpublished(t) =>
              \A l \in LayerSet : shard'[saver[t].gen][l] = shard[saver[t].gen][l]
      BY <1>0, <1>c, <2>1, <2>2 DEF CheckpointInv, Distinct, Owned, Unpublished
    <3>2. \A l \in LayerSet : \/ new.at \in {"write", "rename"} /\ l < new.layer
                              \/ new.at \in {"index", "publish"}
                              => shard'[new.gen][l] = "whole"
      BY <1>0, <1>c, <2>1, <2>2 DEF CheckpointInv, Unpublished, LayerSet
    <3> QED BY <1>d, <3>1, <3>2 DEF Written
  <2>8. IndexWhole'
    BY <1>0, <1>b, <2>1, <2>2 DEF CheckpointInv, SaveTypes, Owned, Superseding, Written, IndexWhole, Unpublished, At, Gens
  <2> QED BY <1>a, <2>3, <2>4, <2>5, <2>6, <2>7, <2>8 DEF CheckpointInv
<1>2. CASE WriteShard(s)
  <2>1. /\ rec.at = "write" /\ new.at = "rename" /\ new.layer = rec.layer
        /\ new.gen = rec.gen /\ new.prev = rec.prev
        /\ index' = index /\ saves' = saves
    BY <1>2 DEF WriteShard, At, Goes, CheckpointInv, SaveTypes, SaverRec
  <2>2. /\ \A h \in Gens, m \in LayerSet :
              shard'[h][m] = IF h = rec.gen /\ m = rec.layer THEN "temp" ELSE shard[h][m]
    BY <1>0, <1>2, <1>b, PutShard DEF WriteShard
  <2>3. Numbered'
    BY <1>0, <1>a, <1>e, <2>1 DEF CheckpointInv, SaveTypes, Numbered, Unpublished
  <2>4. Distinct'
    BY <1>0, <1>a, <2>1 DEF CheckpointInv, SaveTypes, Numbered, Distinct, Unpublished
  <2>5. Owned'
    <3>1. \A t \in Savers : t # s /\ Unpublished(t) =>
              saver[t].gen # index' /\ saver[t].gen # new.prev /\ \A q \in Savers : saver[q].prev # saver[t].gen
      BY <1>0, <1>e, <2>1 DEF CheckpointInv, Numbered, Distinct, Owned, Unpublished
    <3>2. Unpublished(s)' => new.gen # index' /\ new.gen # new.prev /\ \A q \in Savers : saver[q].prev # new.gen
      BY <1>0, <1>e, <2>1 DEF CheckpointInv, Numbered, Owned, Unpublished
    <3> QED BY <1>a, <3>1, <3>2 DEF Owned, Unpublished
  <2>6. Superseding'
    BY <1>0, <1>a, <2>1 DEF CheckpointInv, Superseding, Owned, Unpublished, At
  <2>7. Written'
    <3>1. \A t \in Savers : t # s /\ Unpublished(t) =>
              \A l \in LayerSet : shard'[saver[t].gen][l] = shard[saver[t].gen][l]
      BY <1>0, <1>c, <2>1, <2>2 DEF CheckpointInv, Distinct, Owned, Unpublished
    <3>2. \A l \in LayerSet : \/ new.at \in {"write", "rename"} /\ l < new.layer
                              \/ new.at \in {"index", "publish"}
                              => shard'[new.gen][l] = "whole"
      BY <1>0, <1>c, <2>1, <2>2 DEF CheckpointInv, Written, Unpublished, LayerSet
    <3> QED BY <1>d, <3>1, <3>2 DEF Written
  <2>8. IndexWhole'
    BY <1>0, <1>b, <2>1, <2>2 DEF CheckpointInv, SaveTypes, Owned, Superseding, Written, IndexWhole, Unpublished, At, Gens
  <2> QED BY <1>a, <2>3, <2>4, <2>5, <2>6, <2>7, <2>8 DEF CheckpointInv
<1>3. CASE RenameShard(s)
  <2>1. /\ rec.at = "rename"
        /\ new.gen = rec.gen /\ new.prev = rec.prev
        /\ index' = index /\ saves' = saves
        /\ \/ rec.layer < Layers /\ new.at = "write" /\ new.layer = rec.layer + 1
           \/ rec.layer = Layers /\ new.at = "index"
    BY <1>0, <1>3, <1>b, RenameView
  <2>2. /\ \A h \in Gens, m \in LayerSet :
              shard'[h][m] = IF h = rec.gen /\ m = rec.layer THEN "whole" ELSE shard[h][m]
    BY <1>0, <1>3, <1>b, PutShard DEF RenameShard
  <2>3. Numbered'
    BY <1>0, <1>a, <1>e, <2>1 DEF CheckpointInv, SaveTypes, Numbered, Unpublished
  <2>4. Distinct'
    BY <1>0, <1>a, <2>1 DEF CheckpointInv, SaveTypes, Numbered, Distinct, Unpublished
  <2>5. Owned'
    <3>1. \A t \in Savers : t # s /\ Unpublished(t) =>
              saver[t].gen # index' /\ saver[t].gen # new.prev /\ \A q \in Savers : saver[q].prev # saver[t].gen
      BY <1>0, <1>e, <2>1 DEF CheckpointInv, Numbered, Distinct, Owned, Unpublished
    <3>2. Unpublished(s)' => new.gen # index' /\ new.gen # new.prev /\ \A q \in Savers : saver[q].prev # new.gen
      BY <1>0, <1>e, <2>1 DEF CheckpointInv, Numbered, Owned, Unpublished
    <3> QED BY <1>a, <3>1, <3>2 DEF Owned, Unpublished
  <2>6. Superseding'
    BY <1>0, <1>a, <2>1 DEF CheckpointInv, Superseding, Owned, Unpublished, At
  <2>7. Written'
    <3>1. \A t \in Savers : t # s /\ Unpublished(t) =>
              \A l \in LayerSet : shard'[saver[t].gen][l] = shard[saver[t].gen][l]
      BY <1>0, <1>c, <2>1, <2>2 DEF CheckpointInv, Distinct, Owned, Unpublished
    <3>2. \A l \in LayerSet : \/ new.at \in {"write", "rename"} /\ l < new.layer
                              \/ new.at \in {"index", "publish"}
                              => shard'[new.gen][l] = "whole"
      BY <1>0, <1>c, <2>1, <2>2 DEF CheckpointInv, Written, Unpublished, LayerSet
    <3> QED BY <1>d, <3>1, <3>2 DEF Written
  <2>8. IndexWhole'
    BY <1>0, <1>b, <2>1, <2>2 DEF CheckpointInv, SaveTypes, Owned, Superseding, Written, IndexWhole, Unpublished, At, Gens
  <2> QED BY <1>a, <2>3, <2>4, <2>5, <2>6, <2>7, <2>8 DEF CheckpointInv
<1>4. CASE WriteIndex(s)
  <2>1. /\ rec.at = "index" /\ new.at = "publish"
        /\ new.gen = rec.gen /\ new.prev = rec.prev
        /\ index' = index /\ saves' = saves
    BY <1>4 DEF WriteIndex, At, Goes, CheckpointInv, SaveTypes, SaverRec
  <2>2. /\ shard' = shard
    BY <1>4 DEF WriteIndex
  <2>3. Numbered'
    BY <1>0, <1>a, <1>e, <2>1 DEF CheckpointInv, SaveTypes, Numbered, Unpublished
  <2>4. Distinct'
    BY <1>0, <1>a, <2>1 DEF CheckpointInv, SaveTypes, Numbered, Distinct, Unpublished
  <2>5. Owned'
    <3>1. \A t \in Savers : t # s /\ Unpublished(t) =>
              saver[t].gen # index' /\ saver[t].gen # new.prev /\ \A q \in Savers : saver[q].prev # saver[t].gen
      BY <1>0, <1>e, <2>1 DEF CheckpointInv, Numbered, Distinct, Owned, Unpublished
    <3>2. Unpublished(s)' => new.gen # index' /\ new.gen # new.prev /\ \A q \in Savers : saver[q].prev # new.gen
      BY <1>0, <1>e, <2>1 DEF CheckpointInv, Numbered, Owned, Unpublished
    <3> QED BY <1>a, <3>1, <3>2 DEF Owned, Unpublished
  <2>6. Superseding'
    BY <1>0, <1>a, <2>1 DEF CheckpointInv, Superseding, Owned, Unpublished, At
  <2>7. Written'
    <3>1. \A t \in Savers : t # s /\ Unpublished(t) =>
              \A l \in LayerSet : shard'[saver[t].gen][l] = shard[saver[t].gen][l]
      BY <1>0, <1>c, <2>1, <2>2 DEF CheckpointInv, Distinct, Owned, Unpublished
    <3>2. \A l \in LayerSet : \/ new.at \in {"write", "rename"} /\ l < new.layer
                              \/ new.at \in {"index", "publish"}
                              => shard'[new.gen][l] = "whole"
      BY <1>0, <1>c, <2>1, <2>2 DEF CheckpointInv, Written, Unpublished, LayerSet
    <3> QED BY <1>d, <3>1, <3>2 DEF Written
  <2>8. IndexWhole'
    BY <1>0, <1>b, <2>1, <2>2 DEF CheckpointInv, SaveTypes, Owned, Superseding, Written, IndexWhole, Unpublished, At, Gens
  <2> QED BY <1>a, <2>3, <2>4, <2>5, <2>6, <2>7, <2>8 DEF CheckpointInv
<1>5. CASE PublishIndex(s)
  <2>1. /\ rec.at = "publish" /\ new.at = "clean"
        /\ new.gen = rec.gen /\ new.prev = rec.prev
        /\ index' = rec.gen /\ saves' = saves
    BY <1>5 DEF PublishIndex, GoesOn, At, CheckpointInv, SaveTypes, SaverRec
  <2>2. /\ shard' = shard
    BY <1>5 DEF PublishIndex
  <2>3. Numbered'
    BY <1>0, <1>a, <1>e, <2>1 DEF CheckpointInv, SaveTypes, Numbered, Unpublished
  <2>4. Distinct'
    BY <1>0, <1>a, <2>1 DEF CheckpointInv, SaveTypes, Numbered, Distinct, Unpublished
  <2>5. Owned'
    <3>1. \A t \in Savers : t # s /\ Unpublished(t) =>
              saver[t].gen # index' /\ saver[t].gen # new.prev /\ \A q \in Savers : saver[q].prev # saver[t].gen
      BY <1>0, <1>e, <2>1 DEF CheckpointInv, Numbered, Distinct, Owned, Unpublished
    <3>2. Unpublished(s)' => new.gen # index' /\ new.gen # new.prev /\ \A q \in Savers : saver[q].prev # new.gen
      BY <1>0, <1>e, <2>1 DEF CheckpointInv, Numbered, Owned, Unpublished
    <3> QED BY <1>a, <3>1, <3>2 DEF Owned, Unpublished
  <2>6. Superseding'
    BY <1>0, <1>a, <2>1 DEF CheckpointInv, Superseding, Owned, Unpublished, At
  <2>7. Written'
    <3>1. \A t \in Savers : t # s /\ Unpublished(t) =>
              \A l \in LayerSet : shard'[saver[t].gen][l] = shard[saver[t].gen][l]
      BY <1>0, <1>c, <2>1, <2>2 DEF CheckpointInv, Distinct, Owned, Unpublished
    <3>2. \A l \in LayerSet : \/ new.at \in {"write", "rename"} /\ l < new.layer
                              \/ new.at \in {"index", "publish"}
                              => shard'[new.gen][l] = "whole"
      BY <1>0, <1>c, <2>1, <2>2 DEF CheckpointInv, Unpublished, LayerSet
    <3> QED BY <1>d, <3>1, <3>2 DEF Written
  <2>8. IndexWhole'
    BY <1>0, <1>b, <2>1, <2>2 DEF CheckpointInv, SaveTypes, Owned, Superseding, Written, IndexWhole, Unpublished, At, Gens
  <2> QED BY <1>a, <2>3, <2>4, <2>5, <2>6, <2>7, <2>8 DEF CheckpointInv
<1>6. CASE SaveFails(s)
  <2>1. /\ Unpublished(s) /\ new.at = "undo"
        /\ new.gen = rec.gen /\ new.prev = rec.prev
        /\ index' = index /\ saves' = saves
    BY <1>6 DEF SaveFails, Unpublished, Goes, CheckpointInv, SaveTypes, SaverRec
  <2>2. /\ \A h \in Gens, m \in LayerSet : h # rec.gen => shard'[h][m] = shard[h][m]
    BY <1>0, <1>6, <1>b, PutShard DEF SaveFails
  <2>3. Numbered'
    BY <1>0, <1>a, <1>e, <2>1 DEF CheckpointInv, SaveTypes, Numbered, Unpublished
  <2>4. Distinct'
    BY <1>0, <1>a, <2>1 DEF CheckpointInv, SaveTypes, Numbered, Distinct, Unpublished
  <2>5. Owned'
    <3>1. \A t \in Savers : t # s /\ Unpublished(t) =>
              saver[t].gen # index' /\ saver[t].gen # new.prev /\ \A q \in Savers : saver[q].prev # saver[t].gen
      BY <1>0, <1>e, <2>1 DEF CheckpointInv, Numbered, Distinct, Owned, Unpublished
    <3>2. Unpublished(s)' => new.gen # index' /\ new.gen # new.prev /\ \A q \in Savers : saver[q].prev # new.gen
      BY <1>0, <1>e, <2>1 DEF CheckpointInv, Numbered, Owned, Unpublished
    <3> QED BY <1>a, <3>1, <3>2 DEF Owned, Unpublished
  <2>6. Superseding'
    BY <1>0, <1>a, <2>1 DEF CheckpointInv, Superseding, Owned, Unpublished, At
  <2>7. Written'
    <3>1. \A t \in Savers : t # s /\ Unpublished(t) =>
              \A l \in LayerSet : shard'[saver[t].gen][l] = shard[saver[t].gen][l]
      BY <1>0, <1>c, <2>1, <2>2 DEF CheckpointInv, Distinct, Owned, Unpublished
    <3>2. \A l \in LayerSet : \/ new.at \in {"write", "rename"} /\ l < new.layer
                              \/ new.at \in {"index", "publish"}
                              => shard'[new.gen][l] = "whole"
      BY <1>0, <1>c, <2>1, <2>2 DEF CheckpointInv, Unpublished, LayerSet
    <3> QED BY <1>d, <3>1, <3>2 DEF Written
  <2>8. IndexWhole'
    BY <1>0, <1>b, <2>1, <2>2 DEF CheckpointInv, SaveTypes, Owned, Superseding, Written, IndexWhole, Unpublished, At, Gens
  <2> QED BY <1>a, <2>3, <2>4, <2>5, <2>6, <2>7, <2>8 DEF CheckpointInv
<1>7. CASE Undo(s)
  <2>1. /\ rec.at = "undo"
        /\ \/ new.at = "undo" /\ new.gen = rec.gen /\ new.prev = rec.prev
           \/ new.at = "idle" /\ new.gen = 0 /\ new.prev = 0
        /\ index' = index /\ saves' = saves
    BY <1>7 DEF Undo, Idle, At, CheckpointInv, SaveTypes, SaverRec
  <2>2. /\ \A h \in Gens, m \in LayerSet : h # rec.gen => shard'[h][m] = shard[h][m]
    BY <1>0, <1>7, <1>b, PutShard DEF Undo, UndoShards
  <2>3. Numbered'
    BY <1>0, <1>a, <1>e, <2>1 DEF CheckpointInv, SaveTypes, Numbered, Unpublished
  <2>4. Distinct'
    BY <1>0, <1>a, <2>1 DEF CheckpointInv, SaveTypes, Numbered, Distinct, Unpublished
  <2>5. Owned'
    <3>1. \A t \in Savers : t # s /\ Unpublished(t) =>
              saver[t].gen # index' /\ saver[t].gen # new.prev /\ \A q \in Savers : saver[q].prev # saver[t].gen
      BY <1>0, <1>e, <2>1 DEF CheckpointInv, Numbered, Distinct, Owned, Unpublished
    <3>2. Unpublished(s)' => new.gen # index' /\ new.gen # new.prev /\ \A q \in Savers : saver[q].prev # new.gen
      BY <1>0, <1>e, <2>1 DEF CheckpointInv, Numbered, Owned, Unpublished
    <3> QED BY <1>a, <3>1, <3>2 DEF Owned, Unpublished
  <2>6. Superseding'
    BY <1>0, <1>a, <2>1 DEF CheckpointInv, Superseding, Owned, Unpublished, At
  <2>7. Written'
    <3>1. \A t \in Savers : t # s /\ Unpublished(t) =>
              \A l \in LayerSet : shard'[saver[t].gen][l] = shard[saver[t].gen][l]
      BY <1>0, <1>c, <2>1, <2>2 DEF CheckpointInv, Distinct, Owned, Unpublished
    <3>2. \A l \in LayerSet : \/ new.at \in {"write", "rename"} /\ l < new.layer
                              \/ new.at \in {"index", "publish"}
                              => shard'[new.gen][l] = "whole"
      BY <1>0, <1>c, <2>1, <2>2 DEF CheckpointInv, Unpublished, LayerSet
    <3> QED BY <1>d, <3>1, <3>2 DEF Written
  <2>8. IndexWhole'
    BY <1>0, <1>b, <2>1, <2>2 DEF CheckpointInv, SaveTypes, Owned, Superseding, Written, IndexWhole, Unpublished, At, Gens
  <2> QED BY <1>a, <2>3, <2>4, <2>5, <2>6, <2>7, <2>8 DEF CheckpointInv
<1>8. CASE RemoveOld(s)
  <2>1. /\ rec.at = "clean" /\ new.at = "clean"
        /\ new.gen = rec.gen /\ new.prev = rec.prev
        /\ index' = index /\ saves' = saves
    BY <1>8 DEF RemoveOld, RemovesNow, At, CheckpointInv, SaveTypes, SaverRec
  <2>2. /\ \A h \in Gens, m \in LayerSet : h # rec.prev => shard'[h][m] = shard[h][m]
    BY <1>0, <1>8, <1>b, PutShard DEF RemoveOld, Superseded
  <2>3. Numbered'
    BY <1>0, <1>a, <1>e, <2>1 DEF CheckpointInv, SaveTypes, Numbered, Unpublished
  <2>4. Distinct'
    BY <1>0, <1>a, <2>1 DEF CheckpointInv, SaveTypes, Numbered, Distinct, Unpublished
  <2>5. Owned'
    <3>1. \A t \in Savers : t # s /\ Unpublished(t) =>
              saver[t].gen # index' /\ saver[t].gen # new.prev /\ \A q \in Savers : saver[q].prev # saver[t].gen
      BY <1>0, <1>e, <2>1 DEF CheckpointInv, Numbered, Distinct, Owned, Unpublished
    <3>2. Unpublished(s)' => new.gen # index' /\ new.gen # new.prev /\ \A q \in Savers : saver[q].prev # new.gen
      BY <1>0, <1>e, <2>1 DEF CheckpointInv, Numbered, Owned, Unpublished
    <3> QED BY <1>a, <3>1, <3>2 DEF Owned, Unpublished
  <2>6. Superseding'
    BY <1>0, <1>a, <2>1 DEF CheckpointInv, Superseding, Owned, Unpublished, At
  <2>7. Written'
    <3>1. \A t \in Savers : t # s /\ Unpublished(t) =>
              \A l \in LayerSet : shard'[saver[t].gen][l] = shard[saver[t].gen][l]
      BY <1>0, <1>c, <2>1, <2>2 DEF CheckpointInv, Distinct, Owned, Unpublished
    <3>2. \A l \in LayerSet : \/ new.at \in {"write", "rename"} /\ l < new.layer
                              \/ new.at \in {"index", "publish"}
                              => shard'[new.gen][l] = "whole"
      BY <1>0, <1>c, <2>1, <2>2 DEF CheckpointInv, Unpublished, LayerSet
    <3> QED BY <1>d, <3>1, <3>2 DEF Written
  <2>8. IndexWhole'
    BY <1>0, <1>b, <2>1, <2>2 DEF CheckpointInv, SaveTypes, Owned, Superseding, Written, IndexWhole, Unpublished, At, Gens
  <2> QED BY <1>a, <2>3, <2>4, <2>5, <2>6, <2>7, <2>8 DEF CheckpointInv
<1>9. CASE SaveReturns(s) \/ Crash(s)
  <2>1. /\ new.at = "idle" /\ new.gen = 0 /\ new.prev = 0
        /\ index' = index /\ saves' = saves
    BY <1>9 DEF SaveReturns, Crash, Idle, files, CheckpointInv, SaveTypes, SaverRec
  <2>2. /\ shard' = shard
    BY <1>9 DEF SaveReturns, Crash, files
  <2>3. Numbered'
    BY <1>0, <1>a, <1>e, <2>1 DEF CheckpointInv, SaveTypes, Numbered, Unpublished
  <2>4. Distinct'
    BY <1>0, <1>a, <2>1 DEF CheckpointInv, SaveTypes, Numbered, Distinct, Unpublished
  <2>5. Owned'
    <3>1. \A t \in Savers : t # s /\ Unpublished(t) =>
              saver[t].gen # index' /\ saver[t].gen # new.prev /\ \A q \in Savers : saver[q].prev # saver[t].gen
      BY <1>0, <1>e, <2>1 DEF CheckpointInv, Numbered, Distinct, Owned, Unpublished
    <3>2. Unpublished(s)' => new.gen # index' /\ new.gen # new.prev /\ \A q \in Savers : saver[q].prev # new.gen
      BY <1>0, <1>e, <2>1 DEF CheckpointInv, Numbered, Owned, Unpublished
    <3> QED BY <1>a, <3>1, <3>2 DEF Owned, Unpublished
  <2>6. Superseding'
    BY <1>0, <1>a, <2>1 DEF CheckpointInv, Superseding, Owned, Unpublished, At
  <2>7. Written'
    <3>1. \A t \in Savers : t # s /\ Unpublished(t) =>
              \A l \in LayerSet : shard'[saver[t].gen][l] = shard[saver[t].gen][l]
      BY <1>0, <1>c, <2>1, <2>2 DEF CheckpointInv, Distinct, Owned, Unpublished
    <3>2. \A l \in LayerSet : \/ new.at \in {"write", "rename"} /\ l < new.layer
                              \/ new.at \in {"index", "publish"}
                              => shard'[new.gen][l] = "whole"
      BY <1>0, <1>c, <2>1, <2>2 DEF CheckpointInv, Unpublished, LayerSet
    <3> QED BY <1>d, <3>1, <3>2 DEF Written
  <2>8. IndexWhole'
    BY <1>0, <1>b, <2>1, <2>2 DEF CheckpointInv, SaveTypes, Owned, Superseding, Written, IndexWhole, Unpublished, At, Gens
  <2> QED BY <1>a, <2>3, <2>4, <2>5, <2>6, <2>7, <2>8 DEF CheckpointInv
<1> QED BY <1>1, <1>2, <1>3, <1>4, <1>5, <1>6, <1>7, <1>8, <1>9 DEF SaverStep

\* A loss of power ends every save, and only tears shards that are complete.
LEMMA PowerLossKeeps == ASSUME CheckpointInv, PowerLoss PROVE CheckpointInv'
<1> USE LayersAssumption, BoundsAssumption DEF LayerSet, Gens
<1>1. /\ "power" \in Faults /\ UNCHANGED <<index, saves>> /\ saver' = [s \in Savers |-> Idle]
      /\ shard' = [g \in Gens |-> [l \in LayerSet |->
                    IF shard[g][l] = "whole" /\ <<g, l>> \notin durable THEN "torn" ELSE shard[g][l]]]
  BY DEF PowerLoss
<1>2. SaveTypes'
  BY <1>1 DEF CheckpointInv, SaveTypes, SaverRec, SaverAt, ShardStates, Idle
<1>3. Numbered' /\ Distinct' /\ Owned' /\ Superseding' /\ Written'
  BY <1>1 DEF CheckpointInv, SaveTypes, ShardStates, Numbered, Distinct, Owned, Superseding, Written, Unpublished, At, Idle
<1>4. IndexWhole'
  BY <1>1 DEF CheckpointInv, SaveTypes, IndexWhole
<1> QED BY <1>2, <1>3, <1>4 DEF CheckpointInv

\* Every step of every process preserves the invariant.
LEMMA CheckpointIsInductive == CheckpointSpec => []CheckpointInv
<1>1. CheckpointInit => CheckpointInv
  BY LayersAssumption, BoundsAssumption DEF CheckpointInit, CheckpointInv, SaveTypes, SaverRec, SaverAt, ShardStates, Numbered,
     Distinct, Owned, Superseding, Written, IndexWhole, Unpublished, At, Idle, LayerSet, Gens
<1>2. CheckpointInv /\ [CheckpointNext]_checkpointVars => CheckpointInv'
  <2> SUFFICES ASSUME CheckpointInv, [CheckpointNext]_checkpointVars PROVE CheckpointInv'
      OBVIOUS
  <2>1. CASE \E s \in Savers : SaverStep(s)
    BY <2>1, SaverKeeps
  <2>2. CASE LoaderStep \/ UNCHANGED checkpointVars
    <3>1. UNCHANGED <<index, shard, saves, saver>>
      BY <2>2 DEF LoaderStep, LoadBegin, Inspect, CopyLayer, CopyFails, Loaded, LoadInterrupted, Forward, OptimizerStep,
                  checkpointVars, files
    <3> QED BY <3>1 DEF CheckpointInv, SaveTypes, Numbered, Distinct, Owned, Superseding, Written, IndexWhole,
                        Unpublished, At
  <2>3. CASE Writeback
    <3>1. UNCHANGED <<index, shard, saves, saver>>
      BY <2>3 DEF Writeback
    <3> QED BY <3>1 DEF CheckpointInv, SaveTypes, Numbered, Distinct, Owned, Superseding, Written, IndexWhole,
                        Unpublished, At
  <2>4. CASE PowerLoss
    BY <2>4, PowerLossKeeps
  <2> QED BY <2>1, <2>2, <2>3, <2>4 DEF CheckpointNext
<1> QED BY <1>1, <1>2, PTL DEF CheckpointSpec

\* The shards that the index names are all there at all times, and complete
\* unless the machine may lose power (save_full_weight_checkpoint).
THEOREM CheckpointIsWhole == CheckpointSpec => []IndexWhole
<1>1. CheckpointInv => IndexWhole
  BY DEF CheckpointInv
<1> QED BY <1>1, CheckpointIsInductive, PTL

-----------------------------------------------------------------------------
(* The loading process.  What it has copied so far is of one generation,   *)
(* and between loads the flags tell what the parameters are.               *)

Uniform == \A l, m \in LayerSet : params[l] = params[m]
LoadInv ==
    /\ loader.at \in {"idle", "inspect", "copy", "loaded"}
    /\ loader.layer \in LayerSet /\ dirty \in BOOLEAN /\ failed \in BOOLEAN /\ cut \in BOOLEAN
    /\ DOMAIN params = LayerSet
    /\ loader.at \in {"idle", "inspect"} /\ ~failed /\ ~cut => Uniform /\ (dirty \/ backend = params)
    /\ loader.at = "copy" => /\ \A l \in LayerSet : l < loader.layer => params[l] = <<loader.gen, 0>>
    /\ loader.at = "loaded" => \A l \in LayerSet : params[l] = <<loader.gen, 0>>

\* A forward pass that is not refused computes with parameters of one
\* generation and step, under every fault, loss of power included, except after
\* a load that a KeyboardInterrupt has cut short while it copied, until one is
\* completed (_load_full_weight_checkpoint_rank0 and _refresh_backend_weights).
THEOREM ForwardsAreWhole == CheckpointSpec => []ForwardWhole
<1> USE LayersAssumption DEF LayerSet
<1>0. /\ Idle.at = "idle" /\ Idle.layer \in LayerSet
      /\ ~(Idle.at \in {"copy", "loaded"})
  BY DEF Idle
<1>1. CheckpointInit => LoadInv
  <2> SUFFICES ASSUME CheckpointInit PROVE LoadInv
      OBVIOUS
  <2>1. loader = Idle /\ dirty = FALSE /\ failed = FALSE /\ cut = FALSE /\ backend = params /\ DOMAIN params = LayerSet
    BY DEF CheckpointInit
  <2>2. Uniform
    BY DEF CheckpointInit, Uniform
  <2> QED BY <1>0, <2>1, <2>2 DEF LoadInv
<1>2. LoadInv /\ [CheckpointNext]_checkpointVars => LoadInv'
  <2> SUFFICES ASSUME LoadInv, [CheckpointNext]_checkpointVars PROVE LoadInv'
      OBVIOUS
  <2>1. CASE (\E s \in Savers : SaverStep(s)) \/ Writeback \/ UNCHANGED checkpointVars
    <3>1. UNCHANGED reader
      BY <2>1 DEF SaverStep, SaveBegin, WriteShard, RenameShard, WriteIndex, PublishIndex, SaveFails, Undo,
                  RemoveOld, SaveReturns, Crash, Writeback, checkpointVars
    <3> QED BY <3>1 DEF reader, LoadInv, Uniform
  <2>2. CASE PowerLoss
    <3>1. /\ loader' = Idle /\ dirty' = FALSE /\ failed' = FALSE /\ cut' = FALSE /\ backend' = params'
          /\ DOMAIN params' = LayerSet
      BY <2>2 DEF PowerLoss
    <3>2. Uniform'
      BY <2>2 DEF PowerLoss, Uniform
    <3> QED BY <1>0, <3>1, <3>2 DEF LoadInv
  <2>3. CASE LoadBegin
    BY <2>3 DEF LoadBegin, LoadInv, Uniform, LoadAt
  <2>4. CASE Inspect
    <3>1. UNCHANGED <<params, backend, dirty, failed, cut>> /\ loader.at = "inspect"
      BY <2>4 DEF Inspect, LoadAt
    <3>2. \/ loader'.at \in {"idle", "inspect"} /\ loader'.layer \in LayerSet
          \/ loader'.at = "copy" /\ loader'.layer = 1
      <4>1. CASE loader' = Idle
        BY <1>0, <4>1
      <4>2. CASE Readable /\ loader.layer < Layers
        <5>1. loader' = [loader EXCEPT !.layer = loader.layer + 1]
          BY <2>4, <4>2 DEF Inspect, NextLayer
        <5> QED BY <3>1, <4>2, <5>1 DEF LoadInv
      <4>3. CASE Readable /\ ~(loader.layer < Layers)
        <5>1. loader' = [loader EXCEPT !.at = "copy", !.layer = 1]
          BY <2>4, <4>3 DEF Inspect, NextLayer
        <5> QED BY <5>1 DEF LoadInv
      <4> QED BY <2>4, <4>1, <4>2, <4>3 DEF Inspect, Readable
    <3> QED BY <3>1, <3>2 DEF LoadInv, Uniform
  <2>5. CASE CopyLayer
    <3>1. loader.at = "copy" /\ UNCHANGED <<backend, dirty, failed, cut>>
      BY <2>5 DEF CopyLayer, LoadAt
    <3>2. \A l \in LayerSet : params'[l] = IF l = loader.layer THEN <<loader.gen, 0>> ELSE params[l]
      BY <2>5 DEF CopyLayer, LoadInv
    <3>3. DOMAIN params' = LayerSet
      BY <2>5 DEF CopyLayer, LoadInv
    <3>4. CASE loader.layer < Layers
      <4>1. loader' = [loader EXCEPT !.layer = loader.layer + 1]
        BY <2>5, <3>4 DEF CopyLayer, NextLayer
      <4>2. loader'.at = loader.at /\ loader'.gen = loader.gen /\ loader'.layer = loader.layer + 1
        BY <4>1 DEF LoadInv
      <4> QED BY <3>1, <3>2, <3>3, <3>4, <4>2 DEF LoadInv
    <3>5. CASE ~(loader.layer < Layers)
      <4>1. loader' = [loader EXCEPT !.at = "loaded", !.layer = 1]
        BY <2>5, <3>5 DEF CopyLayer, NextLayer
      <4>2. loader'.at = "loaded" /\ loader'.gen = loader.gen /\ loader'.layer = 1
        BY <4>1 DEF LoadInv
      <4>3. \A l \in LayerSet : l < loader.layer \/ l = loader.layer
        BY <3>5 DEF LoadInv
      <4> QED BY <3>1, <3>2, <3>3, <4>2, <4>3 DEF LoadInv
    <3> QED BY <3>4, <3>5
  <2>6. CASE CopyFails
    BY <2>6 DEF CopyFails, HalfCopied, FailedSet, LoadInv, Idle
  <2>7. CASE Loaded
    <3>1. /\ loader' = Idle /\ dirty' = TRUE /\ failed' = FALSE /\ cut' = FALSE /\ params' = params
          /\ \A l \in LayerSet : params[l] = <<loader.gen, 0>>
      BY <2>7 DEF Loaded, DirtySet, LoadInv, LoadAt
    <3> QED BY <1>0, <3>1 DEF LoadInv, Uniform
  <2>8. CASE Forward
    BY <2>8 DEF Forward, Computes, LoadInv, Uniform, LoadAt
  <2>9. CASE OptimizerStep
    BY <2>9 DEF OptimizerStep, LoadInv, Uniform, LoadAt
  <2>10. CASE LoadInterrupted
    <3>1. loader' = Idle /\ UNCHANGED backend
      BY <2>10 DEF LoadInterrupted
    <3>2. CASE LoadAt("inspect")
      <4>1. UNCHANGED <<params, dirty, failed, cut>>
        BY <2>10, <3>2 DEF LoadInterrupted, LoadAt
      <4> QED BY <1>0, <3>1, <3>2, <4>1 DEF LoadInv, Uniform, LoadAt
    <3>3. CASE ~LoadAt("inspect")
      <4>1. cut' = TRUE /\ dirty' \in BOOLEAN /\ failed' \in BOOLEAN /\ DOMAIN params' = LayerSet
        <5>1. cut' = TRUE /\ DOMAIN params' = LayerSet
          BY <2>10, <3>3 DEF LoadInterrupted, HalfCopied, LoadInv
        <5>2. dirty' \in {dirty, TRUE} /\ failed' \in {failed, TRUE, FALSE}
          BY <2>10, <3>3 DEF LoadInterrupted
        <5> QED BY <5>1, <5>2, Zenon DEF LoadInv
      <4> QED BY <1>0, <3>1, <4>1 DEF LoadInv
    <3> QED BY <3>2, <3>3
  <2> QED BY <2>1, <2>2, <2>3, <2>4, <2>5, <2>6, <2>7, <2>8, <2>9, <2>10 DEF CheckpointNext, LoaderStep
<1>3. LoadInv => ForwardWhole
  BY DEF LoadInv, ForwardWhole, Computes, Uniform, LoadAt
<1> QED BY <1>1, <1>2, <1>3, PTL DEF CheckpointSpec

-----------------------------------------------------------------------------
(* The rest of the types.                                                  *)

LoaderRec == [at : {"idle", "inspect", "copy", "loaded"}, gen : 0 .. MaxSaves, prev : {0}, layer : LayerSet]

\* The variables keep their types: every file that is written has the
\* generation of a save that was begun, and every layer is one of the model's
\* (save_full_weight_checkpoint and _load_full_weight_checkpoint_rank0).
THEOREM CheckpointTypes == CheckpointSpec => []CheckpointTypeOK
<1> USE LayersAssumption, BoundsAssumption DEF LayerSet, Gens
<1>0. Idle \in LoaderRec
  BY DEF Idle, LoaderRec
<1>1. CheckpointInit => CheckpointTypeOK
  <2> SUFFICES ASSUME CheckpointInit PROVE CheckpointTypeOK
      OBVIOUS
  <2>1. shard \in [Gens -> [LayerSet -> {"none", "temp", "whole", "torn"}]]
    BY DEF CheckpointInit
  <2>2. saver \in [Savers -> [at : {"idle", "write", "rename", "index", "publish", "undo", "clean"},
                             gen : 0 .. MaxSaves, prev : 0 .. MaxSaves, layer : LayerSet]]
    BY DEF CheckpointInit, Idle
  <2>3. /\ index \in 0 .. MaxSaves /\ saves \in 0 .. MaxSaves /\ dirty \in BOOLEAN /\ failed \in BOOLEAN /\ cut \in BOOLEAN
        /\ index_temps \subseteq Gens /\ durable \subseteq Gens \X LayerSet
    <3>1. index \in 0 .. MaxSaves /\ saves \in 0 .. MaxSaves
      BY DEF CheckpointInit
    <3>2. dirty \in BOOLEAN /\ failed \in BOOLEAN /\ cut \in BOOLEAN
      BY Zenon DEF CheckpointInit
    <3>3. index_temps = {} /\ durable = {}
      BY DEF CheckpointInit
    <3> QED BY <3>1, <3>2, <3>3
  <2>4. loader \in LoaderRec
    BY <1>0 DEF CheckpointInit
  <2> QED BY <2>1, <2>2, <2>3, <2>4 DEF CheckpointTypeOK, LoaderRec
<1>2. CheckpointInv /\ CheckpointTypeOK /\ CheckpointInv' /\ [CheckpointNext]_checkpointVars => CheckpointTypeOK'
  <2> SUFFICES ASSUME CheckpointInv, CheckpointTypeOK, CheckpointInv', [CheckpointNext]_checkpointVars PROVE CheckpointTypeOK'
      OBVIOUS
  <2>0. /\ index' \in 0 .. MaxSaves /\ saves' \in 0 .. MaxSaves
        /\ shard' \in [Gens -> [LayerSet -> {"none", "temp", "whole", "torn"}]]
        /\ saver' \in [Savers -> [at : {"idle", "write", "rename", "index", "publish", "undo", "clean"},
                             gen : 0 .. MaxSaves, prev : 0 .. MaxSaves, layer : LayerSet]]
    BY DEF CheckpointInv, SaveTypes, ShardStates, SaverRec, SaverAt
  <2>1. index_temps' \subseteq Gens /\ durable' \subseteq Gens \X LayerSet
    <3>1. CASE \E s \in Savers : SaverStep(s)
      <4> PICK s \in Savers : SaverStep(s)
        BY <3>1
      <4>1. durable' = durable
        BY DEF SaverStep, SaveBegin, WriteShard, RenameShard, WriteIndex, PublishIndex, SaveFails, Undo,
               RemoveOld, SaveReturns, Crash, files
      <4>2. \/ index_temps' \subseteq index_temps
            \/ At(s, "index") /\ index_temps' = index_temps \cup {saver[s].gen}
        BY DEF SaverStep, SaveBegin, WriteShard, RenameShard, WriteIndex, PublishIndex, SaveFails, Undo,
               RemoveOld, SaveReturns, Crash, files
      <4>3. At(s, "index") => saver[s].gen \in Gens
        BY DEF CheckpointInv, Numbered, Unpublished, At, SaveTypes, SaverRec
      <4> QED BY <4>1, <4>2, <4>3 DEF CheckpointTypeOK
    <3>2. CASE Writeback
      BY <3>2 DEF Writeback, CheckpointTypeOK
    <3>3. CASE PowerLoss \/ LoaderStep \/ UNCHANGED checkpointVars
      <4>1. UNCHANGED <<index_temps, durable>>
        BY <3>3 DEF PowerLoss, LoaderStep, LoadBegin, Inspect, CopyLayer, CopyFails, Loaded, LoadInterrupted, Forward, OptimizerStep,
                    files, checkpointVars
      <4> QED BY <4>1 DEF CheckpointTypeOK
    <3> QED BY <3>1, <3>2, <3>3 DEF CheckpointNext
  <2>2. dirty' \in BOOLEAN /\ failed' \in BOOLEAN /\ cut' \in BOOLEAN
    <3>1. dirty' \in {dirty, TRUE, FALSE} /\ failed' \in {failed, TRUE, FALSE} /\ cut' \in {cut, TRUE, FALSE}
      BY DEF CheckpointNext, SaverStep, SaveBegin, WriteShard, RenameShard, WriteIndex, PublishIndex, SaveFails, Undo,
             RemoveOld, SaveReturns, Crash, Writeback, PowerLoss, LoaderStep, LoadBegin, Inspect, CopyLayer, CopyFails,
             Loaded, LoadInterrupted, Forward, OptimizerStep, FailedSet, DirtySet, reader, checkpointVars
    <3> QED BY <3>1 DEF CheckpointTypeOK
  <2>3. loader' \in LoaderRec
    <3>1. loader \in LoaderRec
      BY DEF CheckpointTypeOK, LoaderRec
    <3>2. ASSUME NEW then \in {"copy", "loaded"}, NextLayer(then) PROVE loader' \in LoaderRec
      <4>1. CASE loader.layer < Layers
        <5>1. loader' = [loader EXCEPT !.layer = loader.layer + 1] /\ loader.layer + 1 \in LayerSet
          BY <3>1, <3>2, <4>1 DEF NextLayer, LoaderRec
        <5> QED BY <3>1, <5>1 DEF LoaderRec
      <4>2. CASE ~(loader.layer < Layers)
        <5>1. loader' = [loader EXCEPT !.at = then, !.layer = 1]
          BY <3>2, <4>2 DEF NextLayer
        <5>2. loader' = [at |-> then, gen |-> loader.gen, prev |-> loader.prev, layer |-> 1]
          BY <3>1, <5>1 DEF LoaderRec
        <5>3. loader.gen \in 0 .. MaxSaves /\ loader.prev \in {0} /\ 1 \in LayerSet
          BY <3>1 DEF LoaderRec
        <5>4. then \in {"idle", "inspect", "copy", "loaded"}
          BY <3>2
        <5> QED BY <5>2, <5>3, <5>4 DEF LoaderRec
      <4> QED BY <4>1, <4>2
    <3>3. loader' \in {loader, Idle} \/ NextLayer("copy") \/ NextLayer("loaded") \/ LoadBegin
      BY DEF CheckpointNext, SaverStep, SaveBegin, WriteShard, RenameShard, WriteIndex, PublishIndex, SaveFails, Undo,
             RemoveOld, SaveReturns, Crash, Writeback, PowerLoss, LoaderStep, Inspect, CopyLayer, CopyFails,
             Loaded, LoadInterrupted, Forward, OptimizerStep, reader, checkpointVars
    <3>4. LoadBegin => loader' \in LoaderRec
      BY DEF LoadBegin, CheckpointTypeOK, LoaderRec
    <3> QED BY <1>0, <3>1, <3>2, <3>3, <3>4
  <2> QED BY <2>0, <2>1, <2>2, <2>3 DEF CheckpointTypeOK, LoaderRec
<1> QED BY <1>1, <1>2, CheckpointIsInductive, PTL DEF CheckpointSpec
===============================================================================
