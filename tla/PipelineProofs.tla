--------------------------- MODULE PipelineProofs ---------------------------
(***************************************************************************)
(* Proofs about the forward pipeline.  An invariant says where everybody   *)
(* is with respect to the operation the stream does next, or the one the   *)
(* host is about to do when the stream is done:                            *)
(*                                                                         *)
(*   - each operation follows the one before it in the order of one layer  *)
(*     after the other, up to the host's (StreamInv, GraphInv);            *)
(*   - the tasks in the queue are those of the layer and the deferred one  *)
(*     of the layer before, without a gap, up to the last one that was     *)
(*     submitted (QueueFits);                                              *)
(*   - so the input slots of these tasks are theirs (InputFits), and what  *)
(*     is in the output slots depends on the last task that was run        *)
(*     (OutputFits).                                                       *)
(*                                                                         *)
(* This is PipelineInv.  It holds until a buffer is lost that a callback   *)
(* looks up; what holds of the buffers beyond that is PoolsInv.            *)
(***************************************************************************)
EXTENDS ForwardPipeline, SequenceTheorems, TLAPS

-----------------------------------------------------------------------------
(* Types.                                                                  *)

Whats == {"in", "now", "later", "sync", "out", "pinned", "wait", "stuck"}
OpType == [what : Whats, buf : Buffers, pass : Passes, layer : LayerSet, allow : {0, 1},
           incremental : BOOLEAN, size : BatchSizes]
HostType == [at : {"idle", "prepare", "now", "later", "sync", "callback", "out"},
             pass : 0 .. MaxPasses, layer : LayerSet, size : BatchSizes \cup {0},
             buf : 0 .. MaxBuffers, evicting : 0 .. MaxBuffers, capturing : BOOLEAN]

SetupFacts ==
    /\ setup \in Setups
    /\ Path \in Paths /\ Layers \in Nat \ {0} /\ MaxPasses \in Nat
    /\ Deferring \subseteq 0 .. Layers - 2

HostTyped ==
    /\ host \in HostType
    /\ host.at = "idle" => host = Idle
    /\ host.at # "idle" => host.size \in BatchSizes /\ host.pass \in Passes
    /\ host.at \notin {"idle", "prepare"} \/ host.layer > 0 => host.buf \in Buffers
    /\ host.pass <= passes
    /\ host.at = "callback" => Path = "pinned"
    /\ host.at \in {"now", "later", "sync"} => Path # "pinned"
    /\ host.at = "later" => host.layer \in Deferring
    /\ host.capturing => Path \in {"stream", "pinned"}
    /\ host.evicting # 0 => host.at \in {"prepare", "sync", "out"} /\ ~host.capturing

PoolTyped ==
    /\ temp_buffers \in Seq(BatchSizes \X Buffers)
    /\ capture_buffers \in [BatchSizes -> Buffers \cup {0}]
    /\ capture_bs \subseteq BatchSizes
    /\ allocs \in 0 .. MaxBuffers /\ lost \in BOOLEAN

FlagTyped ==
    /\ pending_deferred \in [LayerSet -> BOOLEAN]
    /\ \A l \in LayerSet : pending_deferred[l] => l \in Deferring
    /\ deferrals \subseteq (1 .. passes) \X Deferring

MemTyped ==
    /\ input \in [Buffers -> [Slots -> Token]]
    /\ output \in [Buffers -> [Slots -> SUBSET ({"now", "later"} \X Token)]]

\* A deferred task is of a layer that has one.
Laters(g) == \A i \in DOMAIN g : g[i].what = "later" => g[i].layer \in Deferring

WorkTyped ==
    /\ queue \in Seq(TaskType)
    /\ stream \in Seq(OpType) /\ \A i \in DOMAIN stream : stream[i].pass <= passes
    /\ graphs \in [BatchSizes -> Seq(OpType)] /\ \A b \in BatchSizes : Laters(graphs[b])
    /\ error \in BOOLEAN /\ passes \in 0 .. MaxPasses /\ spoiled \subseteq Passes

Typed == SetupFacts /\ HostTyped /\ PoolTyped /\ FlagTyped /\ MemTyped /\ WorkTyped

-----------------------------------------------------------------------------
(* The buffers.                                                            *)

\* The buffer of a size.
Has(b, u) ==
    \/ capture_buffers[b] = u /\ u # 0
    \/ capture_buffers[b] = 0 /\ \E i \in DOMAIN temp_buffers : temp_buffers[i] = <<b, u>>
Found(u) == \E b \in BatchSizes : Has(b, u)

\* A size is at most once among the temporary ones.
Distinct == \A i, j \in DOMAIN temp_buffers : temp_buffers[i][1] = temp_buffers[j][1] => i = j

\* Whoever has a pointer or will look the buffer up again finds it.
HostHolds ==
    /\ host.buf # 0 => /\ Has(host.size, host.buf)
                       /\ host.capturing => capture_buffers[host.size] = host.buf
    /\ host.evicting # 0 => host.buf = 0 /\ Has(host.size, host.evicting)
Looks(op) == op.what \in {"now", "later", "pinned"}
Elems(s)    == {s[i] : i \in DOMAIN s}
StreamHolds == \A op \in Elems(stream) : Looks(op) => Has(op.size, op.buf)
QueueHolds  == \A t \in Elems(queue) : Found(t.buf)
GraphsHold  == \A b \in BatchSizes : \A op \in Elems(graphs[b]) :
                   op.size = b /\ op.buf = capture_buffers[b]
HoldInv == HostHolds /\ StreamHolds /\ QueueHolds /\ GraphsHold

-----------------------------------------------------------------------------
(* The order of operations.                                                *)

\* What the host does next, as an operation.
IdleOp == [what |-> "idle", buf |-> 0, pass |-> 0, layer |-> 0, allow |-> 0,
           incremental |-> FALSE, size |-> 0]
HostOp == [what |-> IF host.at = "prepare" THEN "in" ELSE
                    IF host.at = "callback" THEN "pinned" ELSE host.at,
           buf |-> host.buf, pass |-> host.pass, layer |-> host.layer, allow |-> 0,
           incremental |-> FALSE, size |-> host.size]
HostCur == IF host.capturing THEN IdleOp ELSE HostOp
Cur     == IF stream = <<>> THEN HostCur ELSE Head(stream)

\* Which operation comes after which.
Step(l) == {<<"in", "now">>, <<"in", "pinned">>, <<"later", "sync">>, <<"sync", "out">>,
            <<"pinned", "out">>, <<"wait", "out">>,
            <<"now", IF l \in Deferring THEN "later" ELSE "sync">>}
Follows(a, b) ==
    \/ /\ a.pass = b.pass /\ a.buf = b.buf /\ a.layer = b.layer
       /\ <<a.what, b.what>> \in Step(a.layer)
    \/ /\ a.what = "out" /\ b.what = "in"
       /\ a.pass = b.pass /\ a.buf = b.buf /\ b.layer = a.layer + 1
    \/ /\ a.what = "out" /\ a.layer = Layers - 1
       /\ b.what = "idle" \/ (b.what = "in" /\ b.layer = 0 /\ b.pass > a.pass)
Chained(s, e) ==
    /\ \A i \in 1 .. Len(s) - 1 : Follows(s[i], s[i + 1])
    /\ s # <<>> => Follows(s[Len(s)], e)

\* The operations of a path.
PathWhats == IF Path = "stream" THEN {"in", "now", "later", "sync", "out"} ELSE
             IF Path = "pinned" THEN {"in", "pinned", "wait", "out"} ELSE
             IF Path = "filled" THEN {"in", "later", "out"} ELSE {"in", "out"}

\* What an operation says of the layer's deferred experts.
OpFits(op) ==
    /\ op.what \in PathWhats
    /\ op.what = "now" => (op.incremental <=> op.layer - 1 \in Deferring)
    /\ op.what = "later" => op.layer \in Deferring /\ ~op.incremental
    /\ op.what = "sync" => op.allow = IF op.layer \in Deferring THEN 1 ELSE 0

\* The deferred tasks that were submitted before an operation.  None is skipped
\* on the stream's way.
Submitted(op)  == op.what \in {"wait", "sync", "out"}
Passed(k, op)  == k < op.layer \/ (k = op.layer /\ Submitted(op))
Defers(p, l)   == <<p, l>> \in deferrals
AllDefer(op)   == Path = "stream" => \A k \in Deferring : Passed(k, op) => Defers(op.pass, k)
OpDefers(op) ==
    /\ AllDefer(op)
    /\ op.what = "later" => Defers(op.pass, op.layer)
    /\ op.what = "wait" => op.allow = IF Defers(op.pass, op.layer) THEN 1 ELSE 0

StreamInv ==
    /\ Chained(stream, HostCur)
    /\ \A op \in Elems(stream) : OpFits(op) /\ OpDefers(op)

\* A graph has all the operations of a pass, or those the host has captured.
GraphDefers(b, k) == \E i \in DOMAIN graphs[b] : graphs[b][i].what = "later" /\ graphs[b][i].layer = k
Capturing(b) == host.capturing /\ host.size = b
GraphFits(b) ==
    /\ \A i, j \in DOMAIN graphs[b] : graphs[b][i].pass = graphs[b][j].pass
    /\ \A op \in Elems(graphs[b]) : OpFits(op) /\ op.what # "wait"
    /\ Chained(graphs[b], IF Capturing(b) THEN HostOp ELSE IdleOp)
    /\ graphs[b] # <<>> => graphs[b][1].what = "in" /\ graphs[b][1].layer = 0
    /\ Capturing(b) /\ graphs[b] = <<>> => host.at = "prepare" /\ host.layer = 0
    /\ Capturing(b) => \A i \in DOMAIN graphs[b] : graphs[b][i].pass = host.pass
    /\ Path = "stream" => \A k \in Deferring :
        IF Capturing(b) THEN Passed(k, HostOp) => GraphDefers(b, k)
        ELSE graphs[b] # <<>> => GraphDefers(b, k)
GraphInv == \A b \in BatchSizes : GraphFits(b)

-----------------------------------------------------------------------------
(* The flags, as far as they are looked at: by the host, or on the pinned  *)
(* path by the callbacks of the stream.                                    *)

Front == IF Path = "pinned" THEN Cur ELSE HostOp
FlagFits(x) ==
    x.what # "idle" =>
        /\ \A k \in LayerSet : Defers(x.pass, k) => Passed(k, x)
        /\ \A q \in 1 .. passes, k \in LayerSet : Path = "pinned" /\ Defers(q, k) => q <= x.pass
        /\ Path # "pinned" \/ x.pass \notin spoiled =>
            \A k \in LayerSet :
                k = x.layer - 1 \/ (k = x.layer /\ (Submitted(x) \/ x.what = "later"))
                    => (pending_deferred[k] <=> Defers(x.pass, k))
FlagInv ==
    /\ \A x \in {Front} : FlagFits(x)
    /\ host.at # "idle" => AllDefer(HostOp)

-----------------------------------------------------------------------------
(* The queue, and the memory.                                              *)

\* The tasks of a pass in the order in which they run.
Key(t) == 2 * t.layer + (IF t.kind = "now" THEN 0 ELSE 1)

\* The last one that was submitted before an operation, and the first one that
\* may still be in the queue.
Top(c) == IF c.what \in {"in", "now", "pinned"} THEN 2 * c.layer - 1 ELSE
          IF Submitted(c) /\ Defers(c.pass, c.layer) THEN 2 * c.layer + 1 ELSE 2 * c.layer
Low(c) == IF c.what = "out" THEN 2 * c.layer + 1 ELSE 2 * c.layer - 1

TaskFits(t) ==
    /\ t.into = IF t.kind = "now" THEN SlotOf(t.layer) ELSE NextSlot(t.layer)
    /\ t.kind = "later" => ~t.incremental
    /\ t.kind = "now" /\ t.pass \notin spoiled => (t.incremental <=> Defers(t.pass, t.layer - 1))
    /\ input[t.buf][SlotOf(t.layer)] = <<t.pass, t.layer>>

InOrder(s, c, top, low) ==
    \A i \in DOMAIN s :
        /\ s[i].pass = c.pass /\ s[i].buf = c.buf
        /\ Key(s[i]) = top - (Len(s) - i) /\ Key(s[i]) >= low
QueueFits(c) ==
    /\ c.what = "idle" => queue = <<>>
    /\ InOrder(queue, c, Top(c), Low(c))
    /\ \A t \in Elems(queue) : TaskFits(t)

InputFits(c) ==
    c.what \in {"now", "later", "pinned"} => input[c.buf][SlotOf(c.layer)] = <<c.pass, c.layer>>

\* What the last task that was run has left.
Late(p, l) == IF Defers(p, l) THEN {<<"later", <<p, l>>>>} ELSE {}
Done(c) == Top(c) - Len(queue)
OutputFits(c) ==
    c.what # "idle" /\ c.pass \notin spoiled =>
        LET out == output[c.buf] p == c.pass l == c.layer IN
        /\ Done(c) >= 2 * l => out[SlotOf(l)] = {<<"now", <<p, l>>>>} \cup Late(p, l - 1)
        /\ Done(c) = 2 * l - 1 /\ Defers(p, l - 1) => out[SlotOf(l)] = Late(p, l - 1)
        /\ Done(c) = 2 * l + 1 /\ Defers(p, l) => out[NextSlot(l)] = Late(p, l)

WorkFits(c) == QueueFits(c) /\ InputFits(c) /\ OutputFits(c)
WorkInv == \A c \in {Cur} : WorkFits(c)

-----------------------------------------------------------------------------
(* Looking up a buffer.                                                    *)

\* A sequence without one of its elements.
IsWithout(r, s, i) == r = SubSeq(s, 1, i - 1) \o SubSeq(s, i + 1, Len(s))

\* A sequence without one of its elements.
LEMMA WithoutOne ==
    ASSUME NEW S, NEW s \in Seq(S), NEW i \in 1 .. Len(s), NEW r, IsWithout(r, s, i)
    PROVE  /\ r \in Seq(S) /\ Len(r) = Len(s) - 1
           /\ \A j \in 1 .. Len(s) - 1 : r[j] = IF j < i THEN s[j] ELSE s[j + 1]
<1>1. Len(s) \in Nat /\ \A j \in 1 .. Len(s) : s[j] \in S
  BY LenProperties, ElementOfSeq
<1> DEFINE a == SubSeq(s, 1, i - 1)
           b == SubSeq(s, i + 1, Len(s))
<1>2. a \in Seq(S) /\ Len(a) = i - 1 /\ \A j \in 1 .. i - 1 : a[j] = s[j]
  <2>1. \A j \in 1 .. i - 1 : s[j] \in S
    BY <1>1
  <2> QED BY <2>1, SubSeqProperties
<1>3. b \in Seq(S) /\ Len(b) = Len(s) - i /\ \A j \in 1 .. Len(s) - i : b[j] = s[j + i]
  <2>1. \A j \in i + 1 .. Len(s) : s[j] \in S
    BY <1>1
  <2>2. /\ b \in Seq(S)
        /\ Len(b) = IF i + 1 <= Len(s) THEN Len(s) - (i + 1) + 1 ELSE 0
        /\ \A j \in 1 .. Len(s) - (i + 1) + 1 : b[j] = s[(i + 1) + j - 1]
    BY <1>1, <2>1, SubSeqProperties
  <2> HIDE DEF b
  <2>3. Len(b) = Len(s) - i
    BY <1>1, <2>2
  <2>4. ASSUME NEW j \in 1 .. Len(s) - i PROVE b[j] = s[j + i]
    <3>1. j \in 1 .. Len(s) - (i + 1) + 1 /\ (i + 1) + j - 1 = j + i
      BY <1>1
    <3> QED BY <2>2, <3>1
  <2> QED BY <2>2, <2>3, <2>4
<1> HIDE DEF a, b
<1>4. /\ a \o b \in Seq(S) /\ Len(a \o b) = Len(a) + Len(b)
      /\ \A j \in 1 .. Len(a) + Len(b) : (a \o b)[j] = IF j <= Len(a) THEN a[j] ELSE b[j - Len(a)]
  BY <1>2, <1>3, ConcatProperties
<1>5. r = a \o b
  BY DEF a, b, IsWithout
<1>6. ASSUME NEW j \in 1 .. Len(s) - 1 PROVE r[j] = IF j < i THEN s[j] ELSE s[j + 1]
  <2>1. j \in 1 .. Len(a) + Len(b)
    BY <1>1, <1>2, <1>3
  <2>2. r[j] = IF j <= i - 1 THEN a[j] ELSE b[j - (i - 1)]
    BY <1>2, <1>4, <1>5, <2>1
  <2>3. CASE j < i
    <3>1. j <= i - 1 /\ j \in 1 .. i - 1
      BY <1>1, <2>3
    <3> QED BY <1>2, <2>2, <2>3, <3>1
  <2>4. CASE ~ (j < i)
    <3>1. j - (i - 1) \in 1 .. Len(s) - i /\ j - (i - 1) + i = j + 1 /\ ~ (j <= i - 1)
      BY <1>1, <2>4
    <3> QED BY <1>3, <2>2, <2>4, <3>1
  <2> QED BY <2>3, <2>4
<1>7. Len(a) + Len(b) = Len(s) - 1
  BY <1>1, <1>2, <1>3
<1> QED BY <1>4, <1>5, <1>6, <1>7

\* What the dictionaries are.
Pooled == PoolTyped /\ Distinct

\* What a lookup does: the size has its buffer from then on and, if a graph
\* may refer to it, for good; another size loses its one only when everything
\* in flight is over.
Looked(b, u) ==
    /\ u \in Buffers
    /\ Pooled'
    /\ Has(b, u)'
    /\ \A v \in Buffers : Has(b, v) => v = u
    /\ \A c \in BatchSizes, v \in Buffers : Has(c, v) => Has(c, v)' \/ Drained
    /\ host.capturing => capture_buffers'[b] = u
    /\ \A c \in BatchSizes : capture_buffers[c] # 0 => capture_buffers'[c] = capture_buffers[c]

\* Buffers are numbered from one, and the bounds are natural numbers.
LEMMA BufferType == Buffers \subseteq Nat \ {0} /\ MaxBuffers \in Nat /\ MaxTemp \in Nat
BY BoundAssumption DEF Buffers

\* A size that has a buffer.
LEMMA LookedHit ==
    ASSUME Pooled, NEW b \in BatchSizes, NEW u \in Buffers, Hit(b, u)
    PROVE  Looked(b, u)
<1>0. Len(temp_buffers) \in Nat /\ DOMAIN temp_buffers = 1 .. Len(temp_buffers)
      /\ \A j \in 1 .. Len(temp_buffers) :
            /\ temp_buffers[j] \in BatchSizes \X Buffers
            /\ temp_buffers[j] = <<temp_buffers[j][1], temp_buffers[j][2]>>
  <2>1. Len(temp_buffers) \in Nat /\ DOMAIN temp_buffers = 1 .. Len(temp_buffers)
    BY LenProperties DEF Pooled, PoolTyped
  <2>2. \A j \in 1 .. Len(temp_buffers) : temp_buffers[j] \in BatchSizes \X Buffers
    BY ElementOfSeq DEF Pooled, PoolTyped
  <2> QED BY <2>1, <2>2
<1>1. CASE capture_buffers[b] = u /\ u # 0 /\ UNCHANGED pools
  BY <1>1 DEF pools, Looked, Pooled, PoolTyped, Has, Distinct
<1>2. ASSUME NEW i \in TempOf(b), capture_buffers[b] = 0, temp_buffers[i][2] = u,
             temp_buffers' = IF ToCapture(b) THEN Without(i) ELSE Append(Without(i), <<b, u>>),
             capture_buffers' = IF ToCapture(b) THEN [capture_buffers EXCEPT ![b] = u]
                                ELSE capture_buffers,
             UNCHANGED <<capture_bs, allocs, lost>>
      PROVE  Looked(b, u)
  <2>1. i \in 1 .. Len(temp_buffers) /\ temp_buffers[i] = <<b, u>>
    BY <1>0, <1>2 DEF TempOf
  <2>2. PICK r : r = Without(i)
    OBVIOUS
  <2>3. PICK n : n = Len(temp_buffers)
    OBVIOUS
  <2>4. /\ r \in Seq(BatchSizes \X Buffers) /\ Len(r) = n - 1
        /\ \A j \in 1 .. n - 1 : r[j] = IF j < i THEN temp_buffers[j] ELSE temp_buffers[j + 1]
    <3>1. IsWithout(r, temp_buffers, i)
      BY <2>2 DEF Without, IsWithout
    <3>2. temp_buffers \in Seq(BatchSizes \X Buffers)
      BY DEF Pooled, PoolTyped
    <3> HIDE DEF Pooled
    <3> QED BY <2>1, <2>3, <3>1, <3>2, WithoutOne
  <2>5. n \in Nat \ {0} /\ i \in 1 .. n
    BY <1>0, <2>1, <2>3
  <2>6. \A v \in Buffers : Has(b, v) => v = u
    BY SMTT(30), <1>0, <1>2, <2>1, BufferType DEF Has, Pooled, PoolTyped, Distinct
  <2>7. \A j, k \in 1 .. n - 1 : r[j][1] = r[k][1] => j = k
    <3> SUFFICES ASSUME NEW j \in 1 .. n - 1, NEW k \in 1 .. n - 1, r[j][1] = r[k][1] PROVE j = k
      OBVIOUS
    <3>1. PICK p \in 1 .. n : r[j] = temp_buffers[p] /\ p = IF j < i THEN j ELSE j + 1
      BY <2>4, <2>5
    <3>2. PICK q \in 1 .. n : r[k] = temp_buffers[q] /\ q = IF k < i THEN k ELSE k + 1
      BY <2>4, <2>5
    <3>3. p = q
      BY ZenonT(40), <1>0, <2>3, <3>1, <3>2 DEF Pooled, PoolTyped, Distinct
    <3> QED BY <2>5, <3>1, <3>2, <3>3
  <2>8. \A j \in 1 .. n - 1 : r[j][1] # b
    <3> SUFFICES ASSUME NEW j \in 1 .. n - 1 PROVE r[j][1] # b
      OBVIOUS
    <3>1. PICK p \in 1 .. n : r[j] = temp_buffers[p] /\ p # i
      BY SMTT(30), <2>4, <2>5
    <3>2. temp_buffers[p][1] # temp_buffers[i][1]
      BY <1>0, <2>1, <2>3, <3>1 DEF Pooled, PoolTyped, Distinct
    <3> QED BY <2>1, <3>1, <3>2
  <2>9. \A j \in 1 .. n : j # i => \E k \in 1 .. n - 1 : r[k] = temp_buffers[j]
    <3> SUFFICES ASSUME NEW j \in 1 .. n, j # i
                 PROVE  \E k \in 1 .. n - 1 : r[k] = temp_buffers[j]
      OBVIOUS
    <3>1. CASE j < i
      BY <2>4, <2>5, <3>1
    <3>2. CASE j > i
      <4>1. j - 1 \in 1 .. n - 1 /\ ~ (j - 1 < i) /\ j - 1 + 1 = j
        BY <2>5, <3>2
      <4> QED BY <2>4, <4>1
    <3> QED BY <2>5, <3>1, <3>2
  <2>10. CASE ToCapture(b)
    <3>1. temp_buffers' = r /\ capture_buffers' = [capture_buffers EXCEPT ![b] = u]
      BY <1>2, <2>2, <2>10
    <3>2. DOMAIN r = 1 .. n - 1
      BY <2>4, LenProperties
    <3>3. Pooled'
      BY <1>2, <2>4, <2>7, <3>1, <3>2 DEF Pooled, PoolTyped, Distinct
    <3>4. Has(b, u)' /\ capture_buffers'[b] = u
      BY <3>1, BufferType DEF Has, Pooled, PoolTyped
    <3>5. ASSUME NEW c \in BatchSizes, NEW v \in Buffers, Has(c, v) PROVE Has(c, v)'
      <4>1. CASE c = b
        BY <2>6, <3>4, <3>5, <4>1
      <4>2. CASE c # b
        <5>1. capture_buffers'[c] = capture_buffers[c]
          BY <3>1, <4>2 DEF Pooled, PoolTyped
        <5>2. ASSUME NEW j \in 1 .. n, temp_buffers[j] = <<c, v>> PROVE \E k \in 1 .. n - 1 : r[k] = <<c, v>>
          BY <2>1, <2>9, <4>2, <5>2
        <5> QED BY <1>0, <2>3, <3>1, <3>2, <3>5, <5>1, <5>2 DEF Has
      <4> QED BY <4>1, <4>2
    <3>6. \A c \in BatchSizes : capture_buffers[c] # 0 => capture_buffers'[c] = capture_buffers[c]
      BY <1>2, <3>1 DEF Pooled, PoolTyped
    <3> QED BY <2>6, <3>3, <3>4, <3>5, <3>6 DEF Looked
  <2>11. CASE ~ToCapture(b)
    <3>1. temp_buffers' = Append(r, <<b, u>>) /\ capture_buffers' = capture_buffers
      BY <1>2, <2>2, <2>11
    <3>2. PICK s : s = Append(r, <<b, u>>)
      OBVIOUS
    <3>3. /\ s \in Seq(BatchSizes \X Buffers) /\ Len(s) = n
          /\ \A j \in 1 .. n - 1 : s[j] = r[j]
          /\ s[n] = <<b, u>>
      <4>1. <<b, u>> \in BatchSizes \X Buffers
        OBVIOUS
      <4>2. n - 1 + 1 = n
        BY <2>5
      <4> QED BY <2>4, <3>2, <4>1, <4>2, AppendProperties
    <3>4. DOMAIN s = 1 .. n
      BY <3>3, LenProperties
    <3>5. \A j, k \in 1 .. n : s[j][1] = s[k][1] => j = k
      <4>1. \A j \in 1 .. n : j = n \/ j \in 1 .. n - 1
        BY <2>5
      <4>2. \A j \in 1 .. n - 1 : s[j][1] # s[n][1]
        BY <2>8, <3>3
      <4>3. \A j, k \in 1 .. n - 1 : s[j][1] = s[k][1] => j = k
        BY <2>7, <3>3
      <4> QED BY <4>1, <4>2, <4>3
    <3>9. temp_buffers' = s
      BY <3>1, <3>2
    <3>6. Pooled'
      BY ZenonT(40), <1>2, <3>1, <3>9, <3>3, <3>4, <3>5 DEF Pooled, PoolTyped, Distinct
    <3>7. Has(b, u)'
      BY SMTT(30), <1>2, <2>5, <3>1, <3>9, <3>3, <3>4 DEF Has
    <3>8. ASSUME NEW c \in BatchSizes, NEW v \in Buffers, Has(c, v) PROVE Has(c, v)'
      <4>1. CASE c = b
        BY <2>6, <3>7, <3>8, <4>1
      <4>2. CASE c # b
        <5>1. ASSUME NEW j \in 1 .. n, temp_buffers[j] = <<c, v>> PROVE \E k \in 1 .. n : s[k] = <<c, v>>
          <6>1. PICK k \in 1 .. n - 1 : r[k] = <<c, v>>
            BY <2>1, <2>9, <4>2, <5>1
          <6>2. k \in 1 .. n
            BY <2>5
          <6> QED BY <3>3, <6>1, <6>2
        <5> QED BY <1>0, <2>3, <3>1, <3>9, <3>4, <3>8, <5>1 DEF Has
      <4> QED BY <4>1, <4>2
    <3> QED BY <2>6, <2>11, <3>1, <3>6, <3>7, <3>8 DEF Looked, ToCapture
  <2> QED BY <2>10, <2>11
<1> QED BY <1>1, <1>2 DEF Hit

\* A buffer appended for a size that has none.
IsLonger(s, b, u) == s = Append(temp_buffers, <<b, u>>)

\* A new buffer is appended to the temporary ones: they stay distinct.
LEMMA Appended ==
    ASSUME Pooled, NEW b \in BatchSizes, NEW u \in Buffers, capture_buffers[b] = 0, TempOf(b) = {},
           NEW s, IsLonger(s, b, u)
    PROVE  /\ s \in Seq(BatchSizes \X Buffers) /\ Len(s) = Len(temp_buffers) + 1
           /\ \A j \in 1 .. Len(temp_buffers) : s[j] = temp_buffers[j]
           /\ s[Len(s)] = <<b, u>>
           /\ \A j, k \in 1 .. Len(s) : s[j][1] = s[k][1] => j = k
<1>1. Len(temp_buffers) \in Nat /\ DOMAIN temp_buffers = 1 .. Len(temp_buffers)
  BY LenProperties DEF Pooled, PoolTyped
<1>2. <<b, u>> \in BatchSizes \X Buffers
  OBVIOUS
<1>3. /\ s \in Seq(BatchSizes \X Buffers) /\ Len(s) = Len(temp_buffers) + 1
      /\ \A j \in 1 .. Len(temp_buffers) : s[j] = temp_buffers[j]
      /\ s[Len(temp_buffers) + 1] = <<b, u>>
  BY <1>2, AppendProperties DEF Pooled, PoolTyped, IsLonger
<1>4. \A j \in 1 .. Len(temp_buffers) : temp_buffers[j][1] # b
  BY <1>1 DEF TempOf
<1>5. \A j, k \in 1 .. Len(temp_buffers) : temp_buffers[j][1] = temp_buffers[k][1] => j = k
  BY <1>1 DEF Pooled, PoolTyped, Distinct
<1>6. \A j, k \in 1 .. Len(s) : s[j][1] = s[k][1] => j = k
  BY <1>1, <1>3, <1>4, <1>5
<1> QED BY <1>1, <1>3, <1>6

\* A size that has none.
LEMMA LookedNew ==
    ASSUME Pooled, NEW b \in BatchSizes, NEW u \in Buffers, Allocate(b, u)
    PROVE  Looked(b, u)
<1>1. capture_buffers[b] = 0 /\ TempOf(b) = {} /\ allocs' \in 0 .. MaxBuffers
      /\ capture_bs' = capture_bs /\ lost' = lost
  BY BufferType DEF Allocate, Buffers
<1>2. PICK s : s = Append(temp_buffers, <<b, u>>)
  OBVIOUS
<1>3. /\ s \in Seq(BatchSizes \X Buffers) /\ Len(s) = Len(temp_buffers) + 1
      /\ \A j \in 1 .. Len(temp_buffers) : s[j] = temp_buffers[j]
      /\ s[Len(s)] = <<b, u>>
      /\ \A j, k \in 1 .. Len(s) : s[j][1] = s[k][1] => j = k
  <2>1. IsLonger(s, b, u)
    BY <1>2 DEF IsLonger
  <2> QED BY <1>1, <2>1, Appended
<1>4. Len(temp_buffers) \in Nat /\ DOMAIN temp_buffers = 1 .. Len(temp_buffers) /\ DOMAIN s = 1 .. Len(s)
  BY <1>3, LenProperties DEF Pooled, PoolTyped
<1>5. \A v \in Buffers : ~Has(b, v)
  BY <1>1, <1>4, BufferType DEF Has, TempOf
<1>6. CASE ToCapture(b) /\ capture_buffers' = [capture_buffers EXCEPT ![b] = u] /\ temp_buffers' = temp_buffers
  <2>1. Pooled'
    BY <1>1, <1>6 DEF Pooled, PoolTyped, Distinct
  <2>2. Has(b, u)' /\ capture_buffers'[b] = u
    BY <1>6, BufferType DEF Has, Pooled, PoolTyped
  <2>3. \A c \in BatchSizes : c # b => capture_buffers'[c] = capture_buffers[c]
    BY <1>6 DEF Pooled, PoolTyped
  <2>4. ASSUME NEW c \in BatchSizes, NEW v \in Buffers, Has(c, v) PROVE Has(c, v)'
    BY <1>5, <1>6, <2>3, <2>4 DEF Has
  <2> QED BY <1>1, <1>5, <2>1, <2>2, <2>3, <2>4 DEF Looked
<1>7. ASSUME ~ToCapture(b), capture_buffers' = capture_buffers, temp_buffers' = s
      PROVE  Looked(b, u)
  <2>1. Pooled'
    BY <1>1, <1>3, <1>4, <1>7 DEF Pooled, PoolTyped, Distinct
  <2>2. Has(b, u)'
    BY <1>1, <1>3, <1>4, <1>7 DEF Has
  <2>3. ASSUME NEW c \in BatchSizes, NEW v \in Buffers, Has(c, v) PROVE Has(c, v)'
    <3>1. ASSUME NEW i \in DOMAIN temp_buffers, temp_buffers[i] = <<c, v>>
          PROVE  \E j \in DOMAIN s : s[j] = <<c, v>>
      BY <1>3, <1>4, <3>1
    <3> QED BY <1>7, <2>3, <3>1 DEF Has
  <2> QED BY <1>5, <1>7, <2>1, <2>2, <2>3 DEF Looked, ToCapture
<1> QED BY <1>2, <1>6, <1>7 DEF Allocate

\* Either way.
LEMMA LookedUp ==
    ASSUME Pooled, NEW b \in BatchSizes, NEW u \in Buffers, GetBuffer(b, u)
    PROVE  Looked(b, u)
BY LookedHit, LookedNew DEF GetBuffer

\* A size has one buffer.
LEMMA HasOne ==
    ASSUME Pooled, NEW b \in BatchSizes, NEW u \in Buffers, NEW v \in Buffers, Has(b, u), Has(b, v)
    PROVE  u = v
<1>1. CASE capture_buffers[b] # 0
  BY <1>1 DEF Has
<1>2. ASSUME NEW i \in DOMAIN temp_buffers, NEW j \in DOMAIN temp_buffers,
             temp_buffers[i] = <<b, u>>, temp_buffers[j] = <<b, v>>
      PROVE  u = v
  <2>1. i = j
    BY <1>2 DEF Pooled, Distinct
  <2> QED BY <1>2, <2>1
<1> QED BY <1>1, <1>2, BufferType DEF Has

\* The oldest of the temporary buffers goes: the others stay.
LEMMA Evicted ==
    ASSUME Pooled, temp_buffers' = Without(1), UNCHANGED <<capture_buffers, capture_bs, allocs>>,
           lost' \in BOOLEAN
    PROVE  /\ Pooled'
           /\ \A i \in DOMAIN temp_buffers : i # 1 =>
                \E j \in DOMAIN temp_buffers' : temp_buffers'[j] = temp_buffers[i]
<1>1. PICK s \in Seq(BatchSizes \X Buffers) : s = temp_buffers
  BY DEF Pooled, PoolTyped
<1>2. PICK r : r = SubSeq(s, 1, 0) \o SubSeq(s, 2, Len(s))
  OBVIOUS
<1>3. temp_buffers' = r
  BY <1>1, <1>2 DEF Without
<1>4. CASE s = <<>>
  <2>1. Len(s) = 0
    BY <1>4, EmptySeq
  <2>2. SubSeq(s, 1, 0) = <<>> /\ SubSeq(s, 2, Len(s)) = <<>>
    BY <2>1, SubSeqEmpty
  <2>3. r = <<>>
    BY <1>2, <2>2, EmptySeq, ConcatEmptySeq
  <2>4. temp_buffers' = temp_buffers
    BY <1>1, <1>3, <1>4, <2>3
  <2>5. DOMAIN temp_buffers = {}
    BY <1>1, <1>4
  <2> QED BY <2>4, <2>5 DEF Pooled, PoolTyped, Distinct
<1>5. CASE s # <<>>
  <2>1. PICK n \in Nat \ {0} : n = Len(s)
    BY <1>5, EmptySeq
  <2>2. 1 \in 1 .. Len(s) /\ IsWithout(r, s, 1)
    BY <1>2, <2>1 DEF IsWithout
  <2>3. r \in Seq(BatchSizes \X Buffers) /\ Len(r) = n - 1 /\ \A j \in 1 .. n - 1 : r[j] = s[j + 1]
    <3>1. /\ r \in Seq(BatchSizes \X Buffers) /\ Len(r) = n - 1
          /\ \A j \in 1 .. n - 1 : r[j] = IF j < 1 THEN s[j] ELSE s[j + 1]
      BY <2>1, <2>2, WithoutOne
    <3> QED BY <2>1, <3>1
  <2>4. DOMAIN r = 1 .. n - 1 /\ DOMAIN s = 1 .. n
    BY <2>1, <2>3, LenProperties
  <2>5. \A j, k \in 1 .. n - 1 : r[j][1] = r[k][1] => j = k
    <3> SUFFICES ASSUME NEW j \in 1 .. n - 1, NEW k \in 1 .. n - 1, r[j][1] = r[k][1] PROVE j = k
      OBVIOUS
    <3>1. j + 1 \in 1 .. n /\ k + 1 \in 1 .. n /\ s[j + 1][1] = s[k + 1][1]
      BY <2>1, <2>3
    <3>2. j + 1 = k + 1
      BY <1>1, <2>4, <3>1 DEF Pooled, Distinct
    <3> QED BY <3>2
  <2>6. Pooled'
    BY <1>3, <2>3, <2>4, <2>5 DEF Pooled, PoolTyped, Distinct
  <2>7. ASSUME NEW i \in 1 .. n, i # 1 PROVE \E j \in 1 .. n - 1 : r[j] = s[i]
    <3>1. i - 1 \in 1 .. n - 1 /\ (i - 1) + 1 = i
      BY <2>1, <2>7
    <3> QED BY <2>3, <3>1
  <2> QED BY <1>1, <1>3, <2>4, <2>6, <2>7
<1> QED BY <1>4, <1>5

\* The host drops a buffer to make room, and not the one it has just inserted.
LEMMA LookedEvict ==
    ASSUME Pooled, NEW b \in BatchSizes, b = host.size, NEW u \in Buffers, Has(b, u),
           ~host.capturing, DropOldest, lost' = (lost \/ temp_buffers[1][1] = host.size), ~lost',
           UNCHANGED <<capture_buffers, capture_bs, allocs>>
    PROVE  Looked(b, u)
<1>1. Drained /\ temp_buffers' = Without(1) /\ temp_buffers[1][1] # b
  BY DEF DropOldest
<1>2. /\ Pooled'
      /\ \A i \in DOMAIN temp_buffers : i # 1 =>
           \E j \in DOMAIN temp_buffers' : temp_buffers'[j] = temp_buffers[i]
  BY <1>1, Evicted
<1>3. Has(b, u)'
  <2>1. ASSUME NEW i \in DOMAIN temp_buffers, temp_buffers[i] = <<b, u>>
        PROVE  \E j \in DOMAIN temp_buffers' : temp_buffers'[j] = <<b, u>>
    <3>1. i # 1
      BY <1>1, <2>1
    <3> QED BY <1>2, <2>1, <3>1
  <2> QED BY <2>1 DEF Has
<1>4. \A v \in Buffers : Has(b, v) => v = u
  BY HasOne
<1> QED BY <1>1, <1>2, <1>3, <1>4 DEF Looked

-----------------------------------------------------------------------------
(* Types.                                                                  *)

\* What a run never changes.
LEMMA SetupSame ==
    ASSUME setup' = setup
    PROVE  /\ Layers' = Layers /\ Deferring' = Deferring /\ Path' = Path /\ MaxPasses' = MaxPasses
           /\ LayerSet' = LayerSet /\ Passes' = Passes /\ Token' = Token
           /\ TaskType' = TaskType /\ OpType' = OpType /\ HostType' = HostType
           /\ PathWhats' = PathWhats
BY DEF Layers, Deferring, Path, MaxPasses, LayerSet, Passes, Token, TaskType, OpType, HostType,
       PathWhats

\* The setup holds for the whole run.
LEMMA SetupStays == ASSUME Next PROVE setup' = setup
BY DEF Next

\* What a setup says of layers and deferred experts.
LEMMA SetupsGood ==
    ASSUME setup \in Setups
    PROVE  SetupFacts /\ LayerSet = 0 .. Layers - 1 /\ 0 \in LayerSet /\ Deferring \subseteq LayerSet
<1>1. setup \in [path : Paths, layers : Nat \ {0}, deferring : SUBSET Nat,
                 clears : BOOLEAN, captures : BOOLEAN, failing : BOOLEAN, passes : Nat]
      /\ setup.deferring \subseteq 0 .. setup.layers - 2
  BY SetupAssumption
<1> QED BY <1>1 DEF SetupFacts, Path, Layers, MaxPasses, Deferring, LayerSet

\* The facts about the constants of a run, from the types.
LEMMA Facts ==
    ASSUME Typed
    PROVE  /\ SetupFacts /\ LayerSet = 0 .. Layers - 1 /\ 0 \in LayerSet
           /\ Deferring \subseteq LayerSet /\ Layers \in Nat \ {0} /\ MaxPasses \in Nat
           /\ Passes = 1 .. MaxPasses /\ passes \in 0 .. MaxPasses
BY SetupsGood DEF Typed, SetupFacts, WorkTyped, Passes

\* A layer and the next one have different slots, and the slot of a deferred
\* result is the next layer's.
LEMMA SlotFacts ==
    ASSUME NEW l \in Int
    PROVE  /\ SlotOf(l) \in Slots /\ NextSlot(l) \in Slots
           /\ NextSlot(l) = SlotOf(l + 1) /\ NextSlot(l) # SlotOf(l)
           /\ NextSlot(l - 1) = SlotOf(l) /\ SlotOf(l - 1) # SlotOf(l)
BY DEF SlotOf, NextSlot, Slots, BufferDepth

\* The host's part of a step.
LEMMA HostFields ==
    ASSUME Typed
    PROVE  /\ host = [at |-> host.at, pass |-> host.pass, layer |-> host.layer, size |-> host.size,
                      buf |-> host.buf, evicting |-> host.evicting, capturing |-> host.capturing]
           /\ host.at \in {"idle", "prepare", "now", "later", "sync", "callback", "out"}
           /\ host.pass \in 0 .. MaxPasses /\ host.layer \in LayerSet
           /\ host.size \in BatchSizes \cup {0} /\ host.buf \in 0 .. MaxBuffers
           /\ host.evicting \in 0 .. MaxBuffers /\ host.capturing \in BOOLEAN
BY DEF Typed, HostTyped, HostType

\* The host is typed when it has left a pass.
LEMMA IdleTyped ==
    ASSUME Typed, Next, host' = Idle
    PROVE  HostTyped'
<1>1. 0 \in LayerSet' /\ LayerSet' = LayerSet /\ MaxPasses' = MaxPasses /\ MaxPasses \in Nat /\ passes' \in Nat
  <2>1. passes \in Nat
    BY SMTT(30), Facts
  <2>2. passes' = passes \/ passes' = passes + 1
    BY ZenonT(40) DEF Next, HostStep, StreamStep, PinnedRaises, RunTask, Replay, Begin, SetCaptureBatchSizes,
           ClearBufferCache, MakeRoom, Prepare, SubmitNow, SubmitLater, SkipLater, SyncForward, Raises,
           LaunchPinned, CopyOutput
  <2> QED BY <2>1, <2>2, Facts, SetupStays, SetupSame
<1> QED BY <1>1, BufferType DEF HostTyped, HostType, Idle

\* The host stays typed.
LEMMA HostTypedStays ==
    ASSUME Typed, Next
    PROVE  HostTyped'
<1> USE SetupStays, SetupSame, HostFields, Facts
<1>1. ASSUME UNCHANGED <<host, passes>> PROVE HostTyped'
  BY SMTT(30), <1>1 DEF Typed, HostTyped
<1>2. CASE StreamStep \/ PinnedRaises \/ RunTask \/ ClearBufferCache \/ SkipLater
  BY <1>1, <1>2 DEF StreamStep, PinnedRaises, RunTask, ClearBufferCache, Raise, SkipLater, Goes, At,
    Typed, HostTyped, HostType
<1>3. ASSUME NEW b \in BatchSizes, Replay(b) PROVE HostTyped'
  BY <1>3 DEF Replay, Typed, HostTyped, HostType
<1>4. ASSUME NEW b \in BatchSizes, NEW c \in BOOLEAN, Begin(b, c) PROVE HostTyped'
  <2>1. host' = [at |-> "prepare", pass |-> passes + 1, layer |-> 0, size |-> b, buf |-> 0,
                 evicting |-> 0, capturing |-> c]
    BY <1>4 DEF Begin, Idle
  <2>2. passes' = passes + 1 /\ passes < MaxPasses /\ (c => Path \in {"stream", "pinned"})
    BY <1>4 DEF Begin
  <2>3. host'.pass \in Passes /\ host'.pass <= passes' /\ 0 \in 0 .. MaxBuffers
    BY <2>1, <2>2, BufferType
  <2>4. host' \in HostType
    BY <2>1, <2>3 DEF HostType
  <2> QED BY <2>1, <2>2, <2>3, <2>4, BufferType DEF HostTyped
<1>5. ASSUME NEW bs \in SUBSET BatchSizes, SetCaptureBatchSizes(bs) PROVE HostTyped'
  BY <1>1, <1>5 DEF SetCaptureBatchSizes
<1>6. CASE Prepare
  <2>1. PICK u \in Buffers :
          host' = [host EXCEPT !.at = IF Path = "pinned" THEN "callback" ELSE "now", !.buf = u,
                               !.evicting = 0]
    BY <1>6 DEF Prepare
  <2>2. passes' = passes /\ host.at = "prepare"
    BY <1>6 DEF Prepare, At
  <2>3. u \in 0 .. MaxBuffers /\ 0 \in 0 .. MaxBuffers
    BY BufferType DEF Buffers
  <2>4. CASE Path = "pinned"
    BY <2>1, <2>2, <2>3, <2>4 DEF Typed, HostTyped, HostType
  <2>5. CASE Path # "pinned"
    BY <2>1, <2>2, <2>3, <2>5 DEF Typed, HostTyped, HostType
  <2> QED BY <2>4, <2>5
<1>7. CASE SubmitNow
  BY <1>7 DEF SubmitNow, At, Typed, HostTyped, HostType
<1>8. CASE SubmitLater
  BY <1>8 DEF SubmitLater, Goes, At, Typed, HostTyped, HostType
<1>9. CASE SyncForward
  <2>1. PICK u \in Buffers : host' = [host EXCEPT !.at = "out", !.buf = u, !.evicting = 0]
    BY <1>9 DEF SyncForward
  <2>2. passes' = passes /\ host.at = "sync" /\ u \in 0 .. MaxBuffers /\ 0 \in 0 .. MaxBuffers
    BY <1>9, BufferType DEF SyncForward, At, Buffers
  <2> QED BY <2>1, <2>2 DEF Typed, HostTyped, HostType
<1>10. CASE Raises
  BY <1>10, IdleTyped DEF Raises, Raise
<1>11. CASE LaunchPinned
  BY <1>11 DEF LaunchPinned, Goes, At, Typed, HostTyped, HostType
<1>12. CASE CopyOutput
  <2>1. CASE host.layer + 1 \notin LayerSet
    BY <1>12, <2>1, IdleTyped DEF CopyOutput
  <2>2. CASE host.layer + 1 \in LayerSet
    <3>1. /\ host' = [host EXCEPT !.at = "prepare", !.layer = @ + 1, !.evicting = 0]
          /\ passes' = passes /\ host.at = "out"
      BY <1>12, <2>2 DEF CopyOutput, At
    <3>2. 0 \in 0 .. MaxBuffers
      BY BufferType
    <3> QED BY <2>2, <3>1, <3>2 DEF Typed, HostTyped, HostType
  <2> QED BY <2>1, <2>2
<1>13. CASE MakeRoom
  <2>1. PICK u \in Buffers : host' = [host EXCEPT !.evicting = u]
    BY <1>13 DEF MakeRoom
  <2>2. /\ passes' = passes /\ host.at \in {"prepare", "sync", "out"} /\ ~host.capturing
        /\ u \in 0 .. MaxBuffers
    BY <1>13, BufferType DEF MakeRoom, Overflows, ToCapture, Buffers
  <2> QED BY <2>1, <2>2 DEF Typed, HostTyped, HostType
<1> QED BY <1>2, <1>3, <1>4, <1>5, <1>6, <1>7, <1>8, <1>9, <1>10, <1>11, <1>12, <1>13 DEF Next, HostStep

\* A pass that has begun is over some batch.
LEMMA HostSize ==
    ASSUME Typed, host.at # "idle"
    PROVE  host.size \in BatchSizes /\ host.pass \in Passes
BY DEF Typed, HostTyped

\* The first operation of the stream, and the rest.
LEMMA OpAt ==
    ASSUME Typed, stream # <<>>
    PROVE  /\ Head(stream) \in OpType /\ Head(stream) = stream[1]
           /\ Tail(stream) \in Seq(OpType) /\ Len(Tail(stream)) = Len(stream) - 1
           /\ Len(stream) \in Nat \ {0} /\ DOMAIN stream = 1 .. Len(stream)
           /\ DOMAIN Tail(stream) = 1 .. Len(stream) - 1
           /\ \A i \in 1 .. Len(stream) - 1 : Tail(stream)[i] = stream[i + 1]
           /\ Head(stream).pass <= passes
<1>1. stream \in Seq(OpType)
  BY DEF Typed, WorkTyped
<1>2. /\ Head(stream) \in OpType
      /\ Tail(stream) \in Seq(OpType) /\ Len(Tail(stream)) = Len(stream) - 1
      /\ \A i \in 1 .. Len(Tail(stream)) : Tail(stream)[i] = stream[i + 1]
  BY <1>1, HeadTailProperties
<1>3. Len(stream) \in Nat \ {0} /\ DOMAIN stream = 1 .. Len(stream)
  BY <1>1, LenProperties, EmptySeq
<1>4. DOMAIN Tail(stream) = 1 .. Len(stream) - 1
  BY <1>2, LenProperties
<1>5. Head(stream) = stream[1]
  BY <1>1
<1>6. stream[1].pass <= passes
  BY <1>3 DEF Typed, WorkTyped
<1> QED BY <1>2, <1>3, <1>4, <1>5, <1>6

\* The pools stay typed and their temporary buffers distinct.
LEMMA PooledStays ==
    ASSUME Typed, Distinct, Next
    PROVE  Pooled'
<1>0. Pooled
  BY DEF Typed, Pooled
<1>1. ASSUME UNCHANGED <<temp_buffers, capture_buffers, capture_bs, allocs>>, lost' \in BOOLEAN
      PROVE  Pooled'
  BY <1>0, <1>1 DEF Pooled, PoolTyped, Distinct
<1>11. CASE UNCHANGED pools
  BY <1>0, <1>1, <1>11 DEF pools, Pooled, PoolTyped
<1>2. ASSUME NEW b \in BatchSizes, NEW u \in Buffers, GetBuffer(b, u) PROVE Pooled'
  BY <1>0, <1>2, LookedUp DEF Looked
<1>3. ASSUME NEW b \in BatchSizes, NEW u \in Buffers, Allocate(b, u) PROVE Pooled'
  BY <1>0, <1>3, LookedNew DEF Looked
<1>4. CASE MakeRoom
  <2>1. PICK b \in BatchSizes : b = host.size
    BY <1>4, HostSize DEF MakeRoom
  <2> QED BY <1>3, <1>4, <2>1 DEF MakeRoom
<1>5. CASE Prepare \/ SyncForward \/ CopyOutput
  <2>1. PICK b \in BatchSizes : b = host.size
    BY <1>5, HostSize DEF Prepare, SyncForward, CopyOutput, At
  <2>2. PICK u \in Buffers : HostBuffer(u)
    BY <1>5 DEF Prepare, SyncForward, CopyOutput
  <2>3. CASE GetBuffer(b, u)
    BY <1>2, <2>3
  <2>4. CASE DropOldest /\ lost' = (lost \/ temp_buffers[1][1] = host.size)
             /\ UNCHANGED <<capture_buffers, capture_bs, allocs>>
    <3>1. temp_buffers' = Without(1) /\ lost' \in BOOLEAN
      BY <1>0, <2>4 DEF DropOldest, Pooled, PoolTyped
    <3> QED BY <1>0, <2>4, <3>1, Evicted
  <2> QED BY <2>1, <2>2, <2>3, <2>4 DEF HostBuffer
<1>6. CASE StreamStep
  <2>2. PICK op : op = Head(stream)
    OBVIOUS
  <2>3. op.size \in BatchSizes
    BY <1>6, <2>2, OpAt DEF StreamStep, OpType
  <2>4. PICK b \in BatchSizes : b = op.size
    BY <2>3
  <2>5. UNCHANGED pools \/ (\E u \in Buffers : GetBuffer(b, u)) \/ (\E u \in Buffers : Allocate(b, u))
    BY <1>6, <2>2, <2>4 DEF StreamStep
  <2> QED BY <1>2, <1>3, <1>11, <2>5
<1>7. CASE PinnedRaises
  <2>2. PICK op : op = Head(stream)
    OBVIOUS
  <2>3. op.size \in BatchSizes
    BY <1>7, <2>2, OpAt DEF PinnedRaises, OpType
  <2>4. PICK b \in BatchSizes : b = op.size
    BY <2>3
  <2>5. UNCHANGED pools \/ \E u \in Buffers : GetBuffer(b, u)
    BY SMTT(30), <1>7, <2>2, <2>4 DEF PinnedRaises
  <2> QED BY <1>2, <1>11, <2>5
<1>8. CASE SubmitNow \/ SubmitLater \/ SkipLater \/ Raises \/ LaunchPinned \/ RunTask
           \/ \E b \in BatchSizes : Replay(b) \/ \E c \in BOOLEAN : Begin(b, c)
  BY ZenonT(40), <1>11, <1>8 DEF SubmitNow, SubmitLater, SkipLater, Raises, LaunchPinned, RunTask, Replay, Begin
<1>9. CASE \E bs \in SUBSET BatchSizes : SetCaptureBatchSizes(bs)
  BY <1>0, <1>9 DEF SetCaptureBatchSizes, Pooled, PoolTyped, Distinct
<1>10. CASE ClearBufferCache
  <2>1. /\ UNCHANGED <<capture_buffers, capture_bs, allocs>> /\ lost' \in BOOLEAN
        /\ temp_buffers' = temp_buffers \/ temp_buffers' = <<>>
    BY <1>0, <1>10 DEF ClearBufferCache, ClearTemp, Pooled, PoolTyped
  <2>2. CASE temp_buffers' = <<>>
    <3>1. temp_buffers' \in Seq(BatchSizes \X Buffers) /\ DOMAIN temp_buffers' = {}
      BY <2>2, EmptySeq
    <3> QED BY <1>0, <2>1, <3>1 DEF Pooled, PoolTyped, Distinct
  <2> QED BY <1>1, <2>1, <2>2
<1> QED BY <1>4, <1>5, <1>6, <1>7, <1>8, <1>9, <1>10 DEF Next, HostStep

\* The flags'.
LEMMA FlagTypedStays ==
    ASSUME Typed, Next
    PROVE  FlagTyped'
<1> USE SetupStays, SetupSame, Facts
<1>0. FlagTyped
  BY DEF Typed
<1>1. ASSUME UNCHANGED <<pending_deferred, deferrals>>, passes' \in {passes, passes + 1} PROVE FlagTyped'
  <2>1. 1 .. passes \subseteq 1 .. passes'
    BY <1>1
  <2> QED BY <1>0, <1>1, <2>1 DEF FlagTyped
<1>2. ASSUME NEW l \in LayerSet, NEW f \in BOOLEAN, f => l \in Deferring, passes' = passes,
             pending_deferred' = [pending_deferred EXCEPT ![l] = f],
             \/ deferrals' = deferrals
             \/ f /\ \E p \in 1 .. passes : deferrals' = deferrals \cup {<<p, l>>}
      PROVE  FlagTyped'
  <2>1. pending_deferred' \in [LayerSet -> BOOLEAN]
    BY <1>0, <1>2 DEF FlagTyped
  <2>2. \A k \in LayerSet : pending_deferred'[k] => k \in Deferring
    BY <1>0, <1>2 DEF FlagTyped
  <2>3. deferrals' \subseteq (1 .. passes) \X Deferring
    BY <1>0, <1>2 DEF FlagTyped
  <2> QED BY <1>2, <2>1, <2>2, <2>3 DEF FlagTyped
<1>3. CASE MakeRoom \/ Prepare \/ SkipLater \/ SyncForward \/ Raises \/ LaunchPinned \/ CopyOutput
  BY <1>1, <1>3 DEF MakeRoom, Prepare, SkipLater, SyncForward, Raises, LaunchPinned, CopyOutput, hist
<1>4. CASE PinnedRaises \/ RunTask \/ ClearBufferCache
           \/ (\E bs \in SUBSET BatchSizes : SetCaptureBatchSizes(bs))
           \/ (\E b \in BatchSizes : \E c \in BOOLEAN : Begin(b, c))
  BY <1>1, <1>4 DEF PinnedRaises, RunTask, ClearBufferCache, SetCaptureBatchSizes, Begin, hist
<1>5. CASE SubmitNow
  <2>1. /\ pending_deferred' = [pending_deferred EXCEPT ![host.layer] = FALSE]
        /\ passes' = passes /\ deferrals' = deferrals
    BY <1>5 DEF SubmitNow, hist
  <2> QED BY <1>2, <2>1, HostFields
<1>6. CASE SubmitLater
  <2>1. /\ pending_deferred' = [pending_deferred EXCEPT ![host.layer] = TRUE]
        /\ passes' = passes /\ deferrals' = deferrals \cup {<<host.pass, host.layer>>}
        /\ host.at = "later"
    BY <1>6 DEF SubmitLater, FlagDeferred, At
  <2>2. host.layer \in Deferring /\ host.pass \in 1 .. passes
    BY <2>1, HostSize DEF Typed, HostTyped
  <2> QED BY <1>2, <2>1, <2>2, HostFields
<1>7. CASE StreamStep
  <2>1. CASE UNCHANGED <<pending_deferred, deferrals>>
    BY <1>1, <1>7, <2>1 DEF StreamStep
  <2>2. PICK op : op = Head(stream)
    OBVIOUS
  <2>3. op \in OpType /\ op.layer \in LayerSet /\ op.pass \in Passes /\ op.pass <= passes
    BY <1>7, <2>2, OpAt DEF StreamStep, OpType
  <2>4. ASSUME NEW later \in BOOLEAN, later => op.layer \in Deferring,
               pending_deferred' = [pending_deferred EXCEPT ![op.layer] = later],
               deferrals' = IF later THEN deferrals \cup {<<op.pass, op.layer>>} ELSE deferrals
        PROVE FlagTyped'
    <3>1. op.pass \in 1 .. passes
      BY <2>3
    <3>2. passes' = passes
      BY <1>7 DEF StreamStep
    <3> QED BY <1>2, <2>3, <2>4, <3>1, <3>2
  <2>5. ASSUME ~UNCHANGED <<pending_deferred, deferrals>>
        PROVE  \E later \in BOOLEAN :
                 /\ later => op.layer \in Deferring
                 /\ pending_deferred' = [pending_deferred EXCEPT ![op.layer] = later]
                 /\ deferrals' = IF later THEN deferrals \cup {<<op.pass, op.layer>>} ELSE deferrals
    BY <1>7, <2>2, <2>5 DEF StreamStep
  <2> QED BY <2>1, <2>4, <2>5
<1>8. ASSUME NEW b \in BatchSizes, Replay(b) PROVE FlagTyped'
  <2>1. passes' = passes + 1 /\ pending_deferred' = pending_deferred
    BY <1>8 DEF Replay
  <2>2. PICK g : g = graphs[b]
    OBVIOUS
  <2>3. PICK again : again = [i \in DOMAIN g |-> [g[i] EXCEPT !.pass = passes + 1]]
    OBVIOUS
  <2>4. deferrals' = deferrals \cup
          {<<passes + 1, again[i].layer>> : i \in {j \in DOMAIN again : again[j].what = "later"}}
    BY <1>8, <2>2, <2>3 DEF Replay
  <2>5. g \in Seq(OpType) /\ \A i \in DOMAIN g : g[i] \in OpType /\ (g[i].what = "later" => g[i].layer \in Deferring)
    <3>1. g \in Seq(OpType)
      BY <2>2 DEF Typed, WorkTyped
    <3>2. \A i \in DOMAIN g : g[i] \in OpType
      BY <3>1, LenProperties, ElementOfSeq
    <3> QED BY <2>2, <3>1, <3>2 DEF Typed, WorkTyped, Laters
  <2>6. \A i \in DOMAIN g : again[i].what = g[i].what /\ again[i].layer = g[i].layer
    BY <2>3, <2>5 DEF OpType
  <2>7. \A i \in DOMAIN again : again[i].what = "later" => again[i].layer \in Deferring
    BY <2>3, <2>5, <2>6
  <2>8. passes + 1 \in 1 .. passes + 1 /\ 1 .. passes \subseteq 1 .. passes + 1
    OBVIOUS
  <2>9. deferrals' \subseteq (1 .. passes + 1) \X Deferring
    BY <1>0, <2>4, <2>7, <2>8 DEF FlagTyped
  <2> QED BY <1>0, <2>1, <2>9 DEF FlagTyped
<1> QED BY <1>3, <1>4, <1>5, <1>6, <1>7, <1>8 DEF Next, HostStep

-----------------------------------------------------------------------------
(* The host's steps.                                                       *)

PipelineInv ==
    /\ Typed /\ Distinct /\ HoldInv
    /\ StreamInv /\ GraphInv /\ FlagInv /\ WorkInv

\* The host's buffer is the one it has, or it looks it up.
HostHas(u) ==
    \/ UNCHANGED pools /\ host.buf = u
    \/ \E b \in BatchSizes : b = host.size /\ Looked(b, u)

\* The host enqueues the operation that is its turn and goes on to the next.
HostMove(o) ==
    /\ host.at # "idle" /\ o \in OpType
    /\ o.what = HostOp.what /\ o.pass = host.pass /\ o.layer = host.layer /\ o.size = host.size
    /\ o.buf = host.buf \/ (host.at = "prepare" /\ host.layer = 0)
    /\ OpFits(o) /\ o.what # "wait"
    /\ IF host.capturing
       THEN /\ graphs' = [graphs EXCEPT ![host.size] = Append(graphs[host.size], o)]
            /\ stream' = stream
       ELSE stream' = Append(stream, o) /\ graphs' = graphs
    /\ Follows(o, HostOp')
    /\ \/ host' = Idle /\ o.what = "out" /\ o.layer = Layers - 1
       \/ /\ host'.capturing = host.capturing /\ host'.size = host.size /\ host'.pass = host.pass
          /\ host'.buf = o.buf /\ host'.at # "idle" /\ host'.evicting = 0
    /\ HostHas(o.buf)
    /\ pending_deferred' =
            IF o.what = "now" THEN [pending_deferred EXCEPT ![o.layer] = FALSE] ELSE
            IF o.what = "later" THEN [pending_deferred EXCEPT ![o.layer] = TRUE] ELSE pending_deferred
    /\ deferrals' = IF o.what = "later" THEN deferrals \cup {<<o.pass, o.layer>>} ELSE deferrals
    /\ UNCHANGED <<queue, input, output, passes, error, spoiled>>

\* One operation goes to the stream, or to the graph of the size.
LEMMA EnqueueOne ==
    ASSUME Typed, host.size \in BatchSizes, NEW o \in OpType, Enqueue(<<o>>)
    PROVE  IF host.capturing
           THEN /\ graphs' = [graphs EXCEPT ![host.size] = Append(graphs[host.size], o)]
                /\ stream' = stream
           ELSE stream' = Append(stream, o) /\ graphs' = graphs
<1>1. \A s \in Seq(OpType) : s \o <<o>> = Append(s, o)
  BY AppendIsConcat
<1>2. stream \in Seq(OpType) /\ graphs[host.size] \in Seq(OpType)
  BY DEF Typed, WorkTyped
<1>3. stream \o <<o>> = Append(stream, o) /\ graphs[host.size] \o <<o>> = Append(graphs[host.size], o)
  BY <1>1, <1>2
<1> QED BY <1>3 DEF Enqueue

\* The buffer that a lookup finds is the host's.
LEMMA HostLooks ==
    ASSUME PipelineInv, ~lost', host.at # "idle", NEW u \in Buffers, HostBuffer(u)
    PROVE  /\ \A b \in BatchSizes : b = host.size => Looked(b, u)
           /\ host.buf = u \/ (host.at = "prepare" /\ host.layer = 0)
           /\ HostHas(u)
<1>1. PICK b \in BatchSizes : b = host.size
  BY HostSize DEF PipelineInv
<1>2. Looked(b, u)
  <2>1. Pooled
    BY DEF PipelineInv, Typed, Pooled
  <2>2. CASE GetBuffer(b, u)
    BY <2>1, <2>2, LookedUp
  <2>3. CASE /\ host.evicting = u /\ DropOldest
             /\ lost' = (lost \/ temp_buffers[1][1] = host.size)
             /\ UNCHANGED <<capture_buffers, capture_bs, allocs>>
    <3>1. Has(b, u) /\ ~host.capturing
      BY <1>1, <2>3, BufferType DEF PipelineInv, HoldInv, HostHolds, Typed, HostTyped
    <3> QED BY <1>1, <2>1, <2>3, <3>1, LookedEvict
  <2> QED BY <1>1, <2>2, <2>3 DEF HostBuffer
<1>3. ASSUME ~ (host.at = "prepare" /\ host.layer = 0) PROVE host.buf = u
  <2>1. host.buf \in Buffers /\ host.buf # 0
    BY SMTT(30), <1>3, HostFields, Facts, BufferType DEF PipelineInv, Typed, HostTyped
  <2> QED BY <1>1, <1>2, <2>1 DEF Looked, PipelineInv, HoldInv, HostHolds
<1> QED BY <1>1, <1>2, <1>3 DEF HostHas

\* Only the first layer of a pass has to make room.
LEMMA NotEvicting ==
    ASSUME PipelineInv, ~ (host.at = "prepare" /\ host.layer = 0)
    PROVE  host.evicting = 0
<1>1. CASE host.at = "idle"
  BY <1>1 DEF PipelineInv, Typed, HostTyped, Idle
<1>2. CASE host.at # "idle"
  <2>1. host.buf # 0
    BY <1>2, HostFields, Facts, BufferType DEF PipelineInv, Typed, HostTyped
  <2> QED BY <2>1 DEF PipelineInv, HoldInv, HostHolds
<1> QED BY <1>1, <1>2

\* _prepare_forward_cpu_buffers enqueues the copy of the input.
LEMMA PrepareMoves ==
    ASSUME PipelineInv, Next, ~lost', Prepare
    PROVE  \E o : HostMove(o)
<1> USE DEF PipelineInv
<1>1. PICK u \in Buffers :
        /\ HostBuffer(u)
        /\ host' = [host EXCEPT !.at = IF Path = "pinned" THEN "callback" ELSE "now", !.buf = u,
                                 !.evicting = 0]
        /\ Enqueue(<<CopyIn(u, host.pass, host.layer)>>)
        /\ UNCHANGED <<error, hist>>
  BY DEF Prepare
<1>2. host.at = "prepare" /\ UNCHANGED <<queue, input, output, passes, pending_deferred>>
  BY DEF Prepare, At, memory
<1>3. PICK o : o = CopyIn(u, host.pass, host.layer)
  OBVIOUS
<1>4. o = [what |-> "in", buf |-> u, pass |-> host.pass, layer |-> host.layer, allow |-> 0,
           incremental |-> FALSE, size |-> host.size]
  BY <1>3 DEF CopyIn, Op
<1>5. o \in OpType /\ host.size \in BatchSizes
  BY <1>2, <1>4, HostSize, HostFields DEF OpType, Whats
<1>6. IF host.capturing
      THEN /\ graphs' = [graphs EXCEPT ![host.size] = Append(graphs[host.size], o)]
           /\ stream' = stream
      ELSE stream' = Append(stream, o) /\ graphs' = graphs
  BY <1>1, <1>3, <1>5, EnqueueOne
<1>7. HostHas(o.buf) /\ (o.buf = host.buf \/ (host.at = "prepare" /\ host.layer = 0))
  BY <1>1, <1>2, <1>4, HostLooks
<1>8. /\ host'.at \in {"now", "callback"} /\ host'.buf = u /\ host'.capturing = host.capturing
      /\ host'.size = host.size /\ host'.pass = host.pass /\ host'.layer = host.layer
      /\ host'.evicting = 0
  BY <1>1, HostFields
<1>9. Follows(o, HostOp')
  <2>1. HostOp'.what \in {"now", "pinned"} /\ HostOp'.buf = u /\ HostOp'.pass = host.pass /\ HostOp'.layer = host.layer
    BY <1>8 DEF HostOp
  <2> QED BY <1>4, <2>1 DEF Follows, Step
<1>10. OpFits(o)
  BY <1>4 DEF OpFits, PathWhats
<1> QED BY <1>1, <1>2, <1>4, <1>5, <1>6, <1>7, <1>8, <1>9, <1>10 DEF HostMove, HostOp, hist

\* submit_forward enqueues the callback of the immediate task.
LEMMA SubmitNowMoves ==
    ASSUME PipelineInv, Next, ~lost', SubmitNow, Path = "stream"
    PROVE  \E o : HostMove(o)
<1> USE DEF PipelineInv
<1>1. PICK t : t = Immediate(host.buf, host.pass, host.layer)
  OBVIOUS
<1>2. /\ host.at = "now" /\ Enqueue(<<Callback(t)>>)
      /\ host' = [host EXCEPT !.at = IF host.layer \in Deferring THEN "later" ELSE "sync"]
      /\ UNCHANGED <<queue, input, output, passes, error, deferrals, spoiled, pools>>
      /\ pending_deferred' = [pending_deferred EXCEPT ![host.layer] = FALSE]
  BY <1>1 DEF SubmitNow, At, memory, hist
<1>3. PICK o : o = Callback(t)
  OBVIOUS
<1>4. o = [what |-> "now", buf |-> host.buf, pass |-> host.pass, layer |-> host.layer, allow |-> 0,
           incremental |-> t.incremental, size |-> host.size]
  BY <1>1, <1>3 DEF Callback, Op, Immediate
<1>5. t.incremental = (host.layer - 1 \in LayerSet /\ pending_deferred[host.layer - 1])
  BY <1>1 DEF Immediate
<1>6. t.incremental <=> host.layer - 1 \in Deferring
  <2>1. FlagFits(HostOp) /\ AllDefer(HostOp)
    BY <1>2 DEF FlagInv, Front
  <2>2. HostOp.what = "now" /\ HostOp.layer = host.layer /\ HostOp.pass = host.pass
    BY <1>2 DEF HostOp
  <2>3. \A k \in LayerSet : k = host.layer - 1 => (pending_deferred[k] <=> Defers(host.pass, k))
    BY <2>1, <2>2 DEF FlagFits
  <2>4. \A k \in Deferring : k < host.layer => Defers(host.pass, k)
    BY <2>1, <2>2 DEF AllDefer, Passed
  <2>5. \A k : Defers(host.pass, k) => k \in Deferring
    BY DEF Defers, Typed, FlagTyped
  <2>6. host.layer \in Nat
    BY HostFields, Facts
  <2>7. host.layer - 1 < host.layer
    BY <2>6
  <2> QED BY <1>5, <2>3, <2>4, <2>5, <2>7, Facts
<1>7. o \in OpType /\ host.size \in BatchSizes
  <2>1. host.buf \in Buffers
    BY <1>2 DEF Typed, HostTyped
  <2>2. t.incremental \in BOOLEAN
    BY <1>5
  <2> QED BY <1>2, <1>4, <2>1, <2>2, HostSize, HostFields DEF OpType, Whats
<1>8. IF host.capturing
      THEN /\ graphs' = [graphs EXCEPT ![host.size] = Append(graphs[host.size], o)]
           /\ stream' = stream
      ELSE stream' = Append(stream, o) /\ graphs' = graphs
  BY <1>2, <1>3, <1>7, EnqueueOne
<1>9. /\ host'.at = (IF host.layer \in Deferring THEN "later" ELSE "sync") /\ host'.buf = host.buf
      /\ host'.capturing = host.capturing /\ host'.evicting = 0
      /\ host'.size = host.size /\ host'.pass = host.pass /\ host'.layer = host.layer
  BY <1>2, HostFields, NotEvicting
<1>10. Follows(o, HostOp')
  <2>1. /\ HostOp'.what = IF host.layer \in Deferring THEN "later" ELSE "sync"
        /\ HostOp'.buf = host.buf /\ HostOp'.pass = host.pass /\ HostOp'.layer = host.layer
    BY <1>9 DEF HostOp
  <2> QED BY <1>4, <2>1 DEF Follows, Step
<1>11. OpFits(o)
  BY <1>4, <1>6 DEF OpFits, PathWhats
<1>12. HostHas(o.buf) /\ host.at # "idle" /\ o.what = HostOp.what /\ host'.at # "idle"
  BY <1>2, <1>4, <1>9 DEF HostHas, HostOp
<1> QED BY <1>2, <1>4, <1>7, <1>8, <1>9, <1>10, <1>11, <1>12 DEF HostMove

\* The callback of the deferred task is enqueued.
LEMMA SubmitLaterMoves ==
    ASSUME PipelineInv, Next, ~lost', SubmitLater, Path \in {"stream", "filled"}
    PROVE  \E o : HostMove(o)
<1> USE DEF PipelineInv
<1>1. PICK t : t = Deferred(host.buf, host.pass, host.layer)
  OBVIOUS
<1>2. /\ host.at = "later" /\ Enqueue(<<Callback(t)>>)
      /\ host' = [host EXCEPT !.at = "sync"]
      /\ deferrals' = deferrals \cup {<<host.pass, host.layer>>}
      /\ UNCHANGED <<queue, input, output, passes, error, spoiled, pools>>
      /\ pending_deferred' = [pending_deferred EXCEPT ![host.layer] = TRUE]
  BY <1>1 DEF SubmitLater, FlagDeferred, At, memory, hist, Goes
<1>3. PICK o : o = Callback(t)
  OBVIOUS
<1>4. o = [what |-> "later", buf |-> host.buf, pass |-> host.pass, layer |-> host.layer, allow |-> 0,
           incremental |-> FALSE, size |-> host.size]
  BY <1>1, <1>3 DEF Callback, Op, Deferred
<1>5. o \in OpType /\ host.size \in BatchSizes
  <2>1. host.buf \in Buffers
    BY <1>2 DEF Typed, HostTyped
  <2> QED BY <1>2, <1>4, <2>1, HostSize, HostFields DEF OpType, Whats
<1>6. IF host.capturing
      THEN /\ graphs' = [graphs EXCEPT ![host.size] = Append(graphs[host.size], o)]
           /\ stream' = stream
      ELSE stream' = Append(stream, o) /\ graphs' = graphs
  BY <1>2, <1>3, <1>5, EnqueueOne
<1>7. /\ host'.at = "sync" /\ host'.buf = host.buf /\ host'.capturing = host.capturing
      /\ host'.size = host.size /\ host'.pass = host.pass /\ host'.layer = host.layer
      /\ host'.evicting = 0
  BY <1>2, HostFields, NotEvicting
<1>8. Follows(o, HostOp')
  <2>1. /\ HostOp'.what = "sync"
        /\ HostOp'.buf = host.buf /\ HostOp'.pass = host.pass /\ HostOp'.layer = host.layer
    BY <1>7 DEF HostOp
  <2> QED BY <1>4, <2>1 DEF Follows, Step
<1>9. OpFits(o)
  <2>1. host.layer \in Deferring
    BY <1>2 DEF Typed, HostTyped
  <2> QED BY <1>4, <2>1 DEF OpFits, PathWhats
<1> QED BY <1>2, <1>4, <1>5, <1>6, <1>7, <1>8, <1>9 DEF HostMove, HostOp, HostHas

\* How many tasks sync_forward leaves pending.
LEMMA SyncAllows ==
    ASSUME PipelineInv, host.at = "sync"
    PROVE  AllowPending(pending_deferred[host.layer]) = IF Defers(host.pass, host.layer) THEN 1 ELSE 0
<1> USE DEF PipelineInv
<1>1. Path # "pinned"
  BY DEF Typed, HostTyped
<1>2. FlagFits(HostOp)
  BY <1>1 DEF FlagInv, Front
<1>3. HostOp.what = "sync" /\ HostOp.layer = host.layer /\ HostOp.pass = host.pass
  BY DEF HostOp
<1>4. pending_deferred[host.layer] <=> Defers(host.pass, host.layer)
  BY <1>1, <1>2, <1>3, HostFields DEF FlagFits, Submitted
<1> QED BY <1>4 DEF AllowPending

\* sync_forward enqueues the callback that waits.
LEMMA SyncMoves ==
    ASSUME PipelineInv, Next, ~lost', SyncForward, Path = "stream"
    PROVE  \E o : HostMove(o)
<1> USE DEF PipelineInv
<1>1. PICK n : n = AllowPending(pending_deferred[host.layer])
  OBVIOUS
<1>2. PICK u \in Buffers :
        /\ HostBuffer(u)
        /\ host' = [host EXCEPT !.at = "out", !.buf = u, !.evicting = 0]
        /\ Enqueue(<<Sync(u, host.pass, host.layer, n)>>)
  BY <1>1 DEF SyncForward
<1>3. host.at = "sync"
      /\ UNCHANGED <<queue, input, output, passes, error, deferrals, spoiled, pending_deferred>>
  BY DEF SyncForward, At, memory, hist
<1>4. host.buf = u /\ HostHas(u)
  BY <1>2, <1>3, HostLooks
<1>5. PICK o : o = Sync(u, host.pass, host.layer, n)
  OBVIOUS
<1>6. o = [what |-> "sync", buf |-> u, pass |-> host.pass, layer |-> host.layer, allow |-> n,
           incremental |-> FALSE, size |-> host.size]
  BY <1>5 DEF Sync, Op
<1>7. n = IF Defers(host.pass, host.layer) THEN 1 ELSE 0
  BY <1>1, <1>3, SyncAllows
<1>8. Defers(host.pass, host.layer) <=> host.layer \in Deferring
  <2>1. AllDefer(HostOp)
    BY <1>3 DEF FlagInv
  <2>2. HostOp.what = "sync" /\ HostOp.layer = host.layer /\ HostOp.pass = host.pass
    BY <1>3 DEF HostOp
  <2>3. host.layer \in Deferring => Defers(host.pass, host.layer)
    BY <2>1, <2>2 DEF AllDefer, Passed, Submitted
  <2> QED BY <2>3 DEF Defers, Typed, FlagTyped
<1>9. o \in OpType /\ host.size \in BatchSizes
  BY <1>3, <1>6, <1>7, HostSize, HostFields DEF OpType, Whats
<1>10. IF host.capturing
      THEN /\ graphs' = [graphs EXCEPT ![host.size] = Append(graphs[host.size], o)]
           /\ stream' = stream
      ELSE stream' = Append(stream, o) /\ graphs' = graphs
  BY <1>2, <1>5, <1>9, EnqueueOne
<1>11. /\ host'.at = "out" /\ host'.buf = u /\ host'.capturing = host.capturing
      /\ host'.size = host.size /\ host'.pass = host.pass /\ host'.layer = host.layer
      /\ host'.evicting = 0
  BY <1>2, HostFields
<1>12. Follows(o, HostOp')
  <2>1. /\ HostOp'.what = "out"
        /\ HostOp'.buf = u /\ HostOp'.pass = host.pass /\ HostOp'.layer = host.layer
    BY <1>11 DEF HostOp
  <2> QED BY <1>6, <2>1 DEF Follows, Step
<1>13. OpFits(o)
  BY <1>6, <1>7, <1>8 DEF OpFits, PathWhats
<1> QED BY <1>3, <1>4, <1>6, <1>9, <1>10, <1>11, <1>12, <1>13 DEF HostMove, HostOp

\* The callback of the whole layer is enqueued.
LEMMA LaunchMoves ==
    ASSUME PipelineInv, Next, ~lost', LaunchPinned
    PROVE  \E o : HostMove(o)
<1> USE DEF PipelineInv
<1>1. PICK o : o = WholeLayer(host.buf, host.pass, host.layer)
  OBVIOUS
<1>2. /\ host.at = "callback" /\ Enqueue(<<o>>)
      /\ host' = [host EXCEPT !.at = "out"]
      /\ UNCHANGED <<queue, input, output, passes, error, deferrals, spoiled, pools, pending_deferred>>
  BY <1>1 DEF LaunchPinned, At, memory, hist, Goes
<1>3. o = [what |-> "pinned", buf |-> host.buf, pass |-> host.pass, layer |-> host.layer, allow |-> 0,
           incremental |-> FALSE, size |-> host.size]
  BY <1>1 DEF WholeLayer, Op
<1>4. o \in OpType /\ host.size \in BatchSizes
  <2>1. host.buf \in Buffers
    BY <1>2 DEF Typed, HostTyped
  <2> QED BY <1>2, <1>3, <2>1, HostSize, HostFields DEF OpType, Whats
<1>5. IF host.capturing
      THEN /\ graphs' = [graphs EXCEPT ![host.size] = Append(graphs[host.size], o)]
           /\ stream' = stream
      ELSE stream' = Append(stream, o) /\ graphs' = graphs
  BY <1>2, <1>4, EnqueueOne
<1>6. /\ host'.at = "out" /\ host'.buf = host.buf /\ host'.capturing = host.capturing
      /\ host'.size = host.size /\ host'.pass = host.pass /\ host'.layer = host.layer
      /\ host'.evicting = 0
  BY <1>2, HostFields, NotEvicting
<1>7. Follows(o, HostOp')
  <2>1. /\ HostOp'.what = "out"
        /\ HostOp'.buf = host.buf /\ HostOp'.pass = host.pass /\ HostOp'.layer = host.layer
    BY <1>6 DEF HostOp
  <2> QED BY <1>3, <2>1 DEF Follows, Step
<1>8. OpFits(o)
  <2>1. Path = "pinned"
    BY <1>2 DEF Typed, HostTyped
  <2> QED BY <1>3, <2>1 DEF OpFits, PathWhats
<1> QED BY <1>2, <1>3, <1>4, <1>5, <1>6, <1>7, <1>8 DEF HostMove, HostOp, HostHas

\* copy_forward_output_to_device enqueues the copy back.
LEMMA CopyOutputMoves ==
    ASSUME PipelineInv, Next, ~lost', CopyOutput
    PROVE  \E o : HostMove(o)
<1> USE DEF PipelineInv
<1>1. PICK u \in Buffers :
        /\ HostBuffer(u)
        /\ Enqueue(<<CopyOut(u, host.pass, host.layer)>>)
        /\ host' = IF host.layer + 1 \in LayerSet
                   THEN [host EXCEPT !.at = "prepare", !.layer = @ + 1, !.evicting = 0]
                   ELSE Idle
  BY DEF CopyOutput
<1>2. host.at = "out"
      /\ UNCHANGED <<queue, input, output, passes, error, deferrals, spoiled, pending_deferred>>
  BY DEF CopyOutput, At, memory, hist
<1>3. host.buf = u /\ HostHas(u)
  BY <1>1, <1>2, HostLooks
<1>4. PICK o : o = CopyOut(u, host.pass, host.layer)
  OBVIOUS
<1>5. o = [what |-> "out", buf |-> u, pass |-> host.pass, layer |-> host.layer, allow |-> 0,
           incremental |-> FALSE, size |-> host.size]
  BY <1>4 DEF CopyOut, Op
<1>6. o \in OpType /\ host.size \in BatchSizes
  BY <1>2, <1>5, HostSize, HostFields DEF OpType, Whats
<1>7. IF host.capturing
      THEN /\ graphs' = [graphs EXCEPT ![host.size] = Append(graphs[host.size], o)]
           /\ stream' = stream
      ELSE stream' = Append(stream, o) /\ graphs' = graphs
  BY <1>1, <1>4, <1>6, EnqueueOne
<1>8. OpFits(o)
  BY <1>5 DEF OpFits, PathWhats
<1>9. CASE host.layer + 1 \in LayerSet
  <2>1. /\ host'.at = "prepare" /\ host'.buf = u /\ host'.capturing = host.capturing
        /\ host'.size = host.size /\ host'.pass = host.pass /\ host'.layer = host.layer + 1
        /\ host'.evicting = 0
    BY <1>1, <1>3, <1>9, HostFields
  <2>2. /\ HostOp'.what = "in"
        /\ HostOp'.buf = u /\ HostOp'.pass = host.pass /\ HostOp'.layer = host.layer + 1
    BY <2>1 DEF HostOp
  <2>3. Follows(o, HostOp')
    BY <1>5, <2>2 DEF Follows
  <2> QED BY <1>2, <1>3, <1>5, <1>6, <1>7, <1>8, <2>1, <2>3 DEF HostMove, HostOp
<1>10. CASE host.layer + 1 \notin LayerSet
  <2>1. host' = Idle /\ host.layer = Layers - 1
    <3>1. host.layer \in 0 .. Layers - 1 /\ host.layer + 1 \notin 0 .. Layers - 1
      BY <1>10, HostFields, Facts
    <3>2. Layers \in Nat
      BY Facts
    <3>3. host.layer = Layers - 1
      BY <3>1, <3>2
    <3> QED BY <1>1, <1>10, <3>3
  <2>2. HostOp'.what = "idle"
    BY <2>1 DEF HostOp, Idle
  <2>3. Follows(o, HostOp')
    BY <1>5, <2>1, <2>2 DEF Follows
  <2> QED BY <1>2, <1>3, <1>5, <1>6, <1>7, <1>8, <2>1, <2>3 DEF HostMove, HostOp
<1> QED BY <1>9, <1>10

\* The host submits or waits itself.  The stream is done by then.
HostDirect ==
    /\ stream = <<>> /\ ~host.capturing /\ Path \in {"npu", "bypass", "filled"}
    /\ HostHas(host.buf)
    /\ UNCHANGED <<stream, graphs, input, output, passes, error, spoiled>>
    /\ \/ /\ host.at = "now"
          /\ host' = [host EXCEPT !.at = IF host.layer \in Deferring THEN "later" ELSE "sync"]
          /\ queue' = Append(queue, Immediate(host.buf, host.pass, host.layer))
          /\ pending_deferred' = [pending_deferred EXCEPT ![host.layer] = FALSE]
          /\ deferrals' = deferrals
       \/ /\ host.at = "later" /\ host' = [host EXCEPT !.at = "sync"]
          /\ \/ /\ queue' = Append(queue, Deferred(host.buf, host.pass, host.layer))
                /\ pending_deferred' = [pending_deferred EXCEPT ![host.layer] = TRUE]
                /\ deferrals' = deferrals \cup {<<host.pass, host.layer>>}
             \/ UNCHANGED <<queue, pending_deferred, deferrals>>
       \/ /\ host.at = "sync" /\ host' = [host EXCEPT !.at = "out"]
          /\ Len(queue) <= IF Defers(host.pass, host.layer) THEN 1 ELSE 0
          /\ UNCHANGED <<queue, pending_deferred, deferrals>>

\* The host gives up, after everything in flight.
HostGivesUp ==
    /\ host.at # "idle" /\ ~host.capturing /\ stream = <<>> /\ queue = <<>>
    /\ host' = Idle /\ error' = FALSE /\ spoiled' = spoiled \cup {host.pass}
    /\ UNCHANGED <<pools, stream, queue, graphs, input, output, passes, pending_deferred, deferrals>>

\* The host has inserted a buffer that is one too many, and rests.
HostRests ==
    /\ host.at # "idle" /\ host.buf = 0 /\ ~host.capturing
    /\ \E u \in Buffers :
        /\ host' = [host EXCEPT !.evicting = u]
        /\ \E b \in BatchSizes : b = host.size /\ Looked(b, u)
    /\ UNCHANGED <<stream, queue, graphs, input, output, passes, error, spoiled,
                   pending_deferred, deferrals>>

\* The host's next operation follows the last one in the stream.
LEMMA LastFollows ==
    ASSUME PipelineInv, stream # <<>>
    PROVE  \E op \in OpType : OpFits(op) /\ Follows(op, HostCur)
<1>1. Len(stream) \in DOMAIN stream /\ stream[Len(stream)] \in OpType
  <2>1. stream \in Seq(OpType)
    BY DEF PipelineInv, Typed, WorkTyped
  <2>2. Len(stream) \in 1 .. Len(stream) /\ DOMAIN stream = 1 .. Len(stream)
    BY <2>1, LenProperties, EmptySeq
  <2> QED BY <2>1, <2>2, ElementOfSeq
<1> QED BY <1>1 DEF PipelineInv, StreamInv, Chained, Elems

\* Where only copies are in the stream, and where the host is behind a submission.
LEMMA StreamIsDone ==
    ASSUME PipelineInv, ~host.capturing,
           \/ Path \in {"npu", "bypass"} /\ host.at \in {"later", "sync"}
           \/ Path = "filled" /\ host.at = "later"
    PROVE  stream = <<>>
<1> SUFFICES ASSUME stream # <<>> PROVE FALSE
  OBVIOUS
<1>1. PICK op \in OpType : OpFits(op) /\ Follows(op, HostCur)
  BY LastFollows
<1>2. HostCur.what = host.at
  BY DEF HostCur, HostOp
<1>3. op.what \in {"in", "later", "out"} /\ (Path # "filled" => op.what # "later")
  BY <1>1 DEF OpFits, PathWhats
<1> QED BY <1>1, <1>2, <1>3 DEF Follows, Step

\* The immediate task is submitted by the host.
LEMMA NowDirect ==
    ASSUME PipelineInv, SubmitNow, Path # "stream"
    PROVE  HostDirect
<1> USE DEF PipelineInv
<1>1. host.at = "now" /\ Path \in {"npu", "bypass", "filled"} /\ ~host.capturing
  BY HostFields DEF SubmitNow, At, Typed, HostTyped, SetupFacts, Paths
<1> QED BY <1>1 DEF SubmitNow, HostDirect, HostHas, CopiedIn, DeviceDone, memory, hist

\* The deferred task is submitted by the host.
LEMMA LaterDirect ==
    ASSUME PipelineInv, SubmitLater, Path \notin {"stream", "filled"}
    PROVE  HostDirect
<1> USE DEF PipelineInv
<1>1. host.at = "later" /\ Path \in {"npu", "bypass"} /\ ~host.capturing
  BY HostFields DEF SubmitLater, At, Typed, HostTyped, SetupFacts, Paths
<1> QED BY <1>1 DEF SubmitLater, HostDirect, HostHas, CopiedIn, DeviceDone, FlagDeferred, Goes, memory

\* No deferred task is submitted.
LEMMA SkipDirect ==
    ASSUME PipelineInv, SkipLater
    PROVE  HostDirect
<1> USE DEF PipelineInv
<1>1. host.at = "later" /\ Path = "filled" /\ ~host.capturing
  BY HostFields DEF SkipLater, At, Typed, HostTyped
<1>2. stream = <<>>
  BY <1>1, StreamIsDone
<1> QED BY <1>1, <1>2 DEF SkipLater, HostDirect, HostHas, Goes, memory, hist

\* The host waits for the layer itself.
LEMMA SyncDirect ==
    ASSUME PipelineInv, ~lost', SyncForward, Path # "stream"
    PROVE  HostDirect
<1> USE DEF PipelineInv
<1>1. host.at = "sync" /\ Path \in {"npu", "bypass", "filled"} /\ ~host.capturing
  BY HostFields DEF SyncForward, At, Typed, HostTyped, SetupFacts, Paths
<1>2. PICK u \in Buffers :
        /\ HostBuffer(u)
        /\ host' = [host EXCEPT !.at = "out", !.buf = u, !.evicting = 0]
        /\ Path \in {"npu", "filled"} => DeviceDone
        /\ Len(queue) <= AllowPending(pending_deferred[host.layer])
        /\ UNCHANGED <<stream, graphs>>
  BY DEF SyncForward
<1>3. host.buf = u /\ HostHas(u)
  BY <1>1, <1>2, HostLooks
<1>4. host' = [host EXCEPT !.at = "out"]
  <2>1. host.evicting = 0
    BY <1>1, NotEvicting
  <2> QED BY <1>2, <1>3, <2>1, HostFields
<1>5. stream = <<>>
  BY <1>1, <1>2, StreamIsDone DEF DeviceDone
<1>6. Len(queue) <= IF Defers(host.pass, host.layer) THEN 1 ELSE 0
  BY <1>1, <1>2, SyncAllows
<1>7. UNCHANGED <<pending_deferred, queue, input, output, passes, error, deferrals, spoiled>>
  BY DEF SyncForward, memory, hist
<1> QED BY <1>1, <1>2, <1>3, <1>4, <1>5, <1>6, <1>7 DEF HostDirect

\* A pending exception ends the pass when everything in flight is over.
LEMMA RaisesGivesUp ==
    ASSUME PipelineInv, Raises
    PROVE  HostGivesUp
<1> USE DEF PipelineInv
<1>1. host.at # "idle" /\ ~host.capturing
  BY NotEvicting DEF Raises, At
<1>2. host.at \in {"now", "later", "sync"} => Path \in {"stream", "npu", "bypass", "filled"}
  BY DEF Typed, HostTyped, SetupFacts, Paths
<1>3. queue = <<>>
  BY DEF Raises, Drained
<1>4. stream = <<>>
  BY <1>1, <1>2, StreamIsDone DEF Raises, Drained, DeviceDone, CopiedIn, At
<1> QED BY <1>1, <1>3, <1>4 DEF Raises, Raise, HostGivesUp, memory

\* A lookup that inserts a buffer has found none.
LEMMA MakesRoom ==
    ASSUME PipelineInv, MakeRoom
    PROVE  HostRests
<1> USE DEF PipelineInv
<1>1. PICK b \in BatchSizes : b = host.size
  BY HostSize DEF MakeRoom
<1>2. PICK u \in Buffers : Allocate(b, u) /\ host' = [host EXCEPT !.evicting = u]
  BY <1>1 DEF MakeRoom
<1>3. Looked(b, u)
  BY <1>2, LookedNew DEF Typed, Pooled
<1>4. host.buf = 0
  <2>1. ~Has(b, host.buf)
    BY <1>2 DEF Allocate, Has, TempOf
  <2> QED BY <1>1, <2>1 DEF HoldInv, HostHolds
<1>5. ~host.capturing /\ host.at # "idle"
  BY DEF MakeRoom, Overflows, ToCapture
<1> QED BY <1>1, <1>2, <1>3, <1>4, <1>5 DEF HostRests, MakeRoom, memory, hist

\* One of the four.
LEMMA HostSteps ==
    ASSUME PipelineInv, Next, ~lost', HostStep
    PROVE  (\E o : HostMove(o)) \/ HostDirect \/ HostGivesUp \/ HostRests
BY PrepareMoves, SubmitNowMoves, SubmitLaterMoves, SyncMoves, LaunchMoves, CopyOutputMoves,
   NowDirect, LaterDirect, SkipDirect, SyncDirect, RaisesGivesUp, MakesRoom DEF HostStep

-----------------------------------------------------------------------------
(* The types of the work, and of the memory.                               *)

\* The tasks of a layer are typed.
LEMMA TasksTyped ==
    ASSUME Typed, NEW u \in Buffers, NEW p \in Passes, NEW l \in LayerSet
    PROVE  Immediate(u, p, l) \in TaskType /\ Deferred(u, p, l) \in TaskType
<1>1. l \in Int
  BY Facts
<1> QED BY <1>1, SlotFacts DEF Immediate, Deferred, TaskType

\* The task that a callback carries is typed.
LEMMA TaskOfTyped ==
    ASSUME Typed, NEW op \in OpType, op.what \in {"now", "later"}
    PROVE  TaskOf(op) \in TaskType
<1>1. op.layer \in Int /\ op.layer \in LayerSet /\ op.buf \in Buffers /\ op.pass \in Passes /\ op.incremental \in BOOLEAN
  BY Facts DEF OpType
<1> QED BY <1>1, SlotFacts DEF TaskOf, TaskType

\* The first task of the queue, and the rest.
LEMMA TaskAt ==
    ASSUME Typed, queue # <<>>
    PROVE  /\ Head(queue) \in TaskType /\ Head(queue) = queue[1]
           /\ Tail(queue) \in Seq(TaskType) /\ Len(Tail(queue)) = Len(queue) - 1
           /\ Len(queue) \in Nat \ {0} /\ DOMAIN queue = 1 .. Len(queue)
           /\ DOMAIN Tail(queue) = 1 .. Len(queue) - 1
           /\ \A i \in 1 .. Len(queue) - 1 : Tail(queue)[i] = queue[i + 1]
<1>1. queue \in Seq(TaskType)
  BY DEF Typed, WorkTyped
<1>2. /\ Head(queue) \in TaskType
      /\ Tail(queue) \in Seq(TaskType) /\ Len(Tail(queue)) = Len(queue) - 1
      /\ \A i \in 1 .. Len(Tail(queue)) : Tail(queue)[i] = queue[i + 1]
  BY <1>1, HeadTailProperties
<1>3. Len(queue) \in Nat \ {0} /\ DOMAIN queue = 1 .. Len(queue)
  BY <1>1, LenProperties, EmptySeq
<1>4. DOMAIN Tail(queue) = 1 .. Len(queue) - 1
  BY <1>2, LenProperties
<1>5. Head(queue) = queue[1]
  BY <1>1
<1> QED BY <1>2, <1>3, <1>4, <1>5

\* The tasks of run_pinned_forward_sync.
LEMMA PinnedTasks ==
    ASSUME Typed, NEW u \in Buffers, NEW p \in Passes, NEW l \in LayerSet, NEW later \in BOOLEAN,
           queue' = queue \o <<Immediate(u, p, l)>> \o
                      (IF later THEN <<Deferred(u, p, l)>> ELSE <<>>)
    PROVE  IF later THEN queue' = Append(Append(queue, Immediate(u, p, l)), Deferred(u, p, l))
                    ELSE queue' = Append(queue, Immediate(u, p, l))
<1>1. PICK a \in TaskType : a = Immediate(u, p, l)
  BY TasksTyped
<1>2. PICK b \in TaskType : b = Deferred(u, p, l)
  BY TasksTyped
<1>3. PICK q \in Seq(TaskType) : q = Append(queue, a)
  BY AppendProperties DEF Typed, WorkTyped
<1>4. queue \o <<a>> = q
  BY <1>3, AppendIsConcat DEF Typed, WorkTyped
<1>5. q \o <<b>> = Append(q, b) /\ q \o <<>> = q
  BY AppendIsConcat, ConcatEmptySeq
<1> QED BY <1>1, <1>2, <1>3, <1>4, <1>5

\* An operation of the host's goes to the stream or to the graph being captured.
HostGrows(o) ==
    /\ host.at # "idle" /\ o \in OpType /\ o.pass = host.pass
    /\ o.what = "later" => o.layer \in Deferring
    /\ \/ graphs' = [graphs EXCEPT ![host.size] = Append(graphs[host.size], o)] /\ stream' = stream
       \/ stream' = Append(stream, o) /\ graphs' = graphs

\* The operations that the host enqueues are typed.
LEMMA GrowsBy ==
    ASSUME Typed, host.at # "idle", NEW u \in Buffers, NEW what \in Whats, NEW n \in {0, 1},
           NEW f \in BOOLEAN, what = "later" => host.layer \in Deferring,
           Enqueue(<<Op(what, u, host.pass, host.layer, n, f)>>)
    PROVE  \E o : HostGrows(o)
<1>1. PICK o : o = Op(what, u, host.pass, host.layer, n, f)
  OBVIOUS
<1>2. o = [what |-> what, buf |-> u, pass |-> host.pass, layer |-> host.layer, allow |-> n,
           incremental |-> f, size |-> host.size]
  BY <1>1 DEF Op
<1>3. o \in OpType /\ host.size \in BatchSizes
  BY <1>2, HostSize, HostFields DEF OpType
<1>4. IF host.capturing
      THEN /\ graphs' = [graphs EXCEPT ![host.size] = Append(graphs[host.size], o)]
           /\ stream' = stream
      ELSE stream' = Append(stream, o) /\ graphs' = graphs
  BY <1>1, <1>3, EnqueueOne
<1>5. o.pass = host.pass /\ o.what = what /\ o.layer = host.layer
  BY <1>2
<1> QED BY <1>3, <1>4, <1>5 DEF HostGrows

\* What a step of the host does to what is in flight, whatever buffers there are.
LEMMA HostTypes ==
    ASSUME Typed, Next, HostStep
    PROVE  /\ UNCHANGED <<input, output, passes>>
           /\ error' \in BOOLEAN /\ spoiled' \subseteq Passes /\ queue' \in Seq(TaskType)
           /\ UNCHANGED <<stream, graphs>> \/ \E o : HostGrows(o)
<1>1. /\ error \in BOOLEAN /\ spoiled \subseteq Passes /\ queue \in Seq(TaskType)
      /\ pending_deferred \in [LayerSet -> BOOLEAN]
      /\ \A s \in TaskType : Append(queue, s) \in Seq(TaskType)
  <2>1. queue \in Seq(TaskType)
    BY DEF Typed, WorkTyped
  <2> QED BY <2>1, AppendProperties DEF Typed, WorkTyped, FlagTyped
<1>2. CASE MakeRoom \/ SkipLater
  BY <1>1, <1>2 DEF MakeRoom, SkipLater, memory, hist
<1>3. CASE Raises
  <2>1. host.at # "idle"
    BY <1>3 DEF Raises, At, Typed, HostTyped, Idle
  <2> QED BY <1>1, <1>3, <2>1, HostSize DEF Raises, Raise, memory
<1>4. CASE Prepare
  <2>1. PICK u \in Buffers : Enqueue(<<Op("in", u, host.pass, host.layer, 0, FALSE)>>)
    BY <1>4 DEF Prepare, CopyIn
  <2>2. host.at # "idle"
    BY <1>4 DEF Prepare, At
  <2>3. \E o : HostGrows(o)
    BY <2>1, <2>2, GrowsBy DEF Whats
  <2> QED BY <1>1, <1>4, <2>3 DEF Prepare, memory, hist
<1>5. CASE SubmitNow
  <2>1. host.at = "now" /\ host.buf \in Buffers /\ host.pass \in Passes /\ host.layer \in LayerSet
    BY <1>5, HostSize, HostFields DEF SubmitNow, At, Typed, HostTyped
  <2>2. PICK s \in TaskType : s = Immediate(host.buf, host.pass, host.layer)
    BY <2>1, TasksTyped
  <2>3. /\ s.kind = "now" /\ s.buf = host.buf /\ s.pass = host.pass /\ s.layer = host.layer
        /\ s.incremental \in BOOLEAN
    BY <2>2 DEF Immediate, TaskType
  <2>4. CASE Path = "stream"
    <3>1. Enqueue(<<Op("now", host.buf, host.pass, host.layer, 0, s.incremental)>>)
      BY <1>5, <2>2, <2>3, <2>4 DEF SubmitNow, Callback
    <3>2. \E o : HostGrows(o)
      BY <2>1, <2>3, <3>1, GrowsBy DEF Whats
    <3> QED BY <1>1, <1>5, <2>4, <3>2 DEF SubmitNow, memory, hist
  <2>5. CASE Path # "stream"
    BY <1>1, <1>5, <2>2, <2>5 DEF SubmitNow, memory, hist
  <2> QED BY <2>4, <2>5
<1>6. CASE SubmitLater
  <2>1. host.at = "later" /\ host.buf \in Buffers /\ host.pass \in Passes /\ host.layer \in LayerSet
        /\ host.layer \in Deferring
    BY <1>6, HostSize, HostFields DEF SubmitLater, At, Typed, HostTyped
  <2>2. PICK s \in TaskType : s = Deferred(host.buf, host.pass, host.layer)
    BY <2>1, TasksTyped
  <2>3. /\ s.kind = "later" /\ s.buf = host.buf /\ s.pass = host.pass /\ s.layer = host.layer
        /\ s.incremental = FALSE
    BY <2>2 DEF Deferred
  <2>4. CASE Path \in {"stream", "filled"}
    <3>1. Enqueue(<<Op("later", host.buf, host.pass, host.layer, 0, FALSE)>>)
      BY <1>6, <2>2, <2>3, <2>4 DEF SubmitLater, Callback
    <3>2. \E o : HostGrows(o)
      BY <2>1, <3>1, GrowsBy DEF Whats
    <3> QED BY <1>1, <1>6, <2>4, <3>2 DEF SubmitLater, memory
  <2>5. CASE Path \notin {"stream", "filled"}
    BY <1>1, <1>6, <2>2, <2>5 DEF SubmitLater, memory
  <2> QED BY <2>4, <2>5
<1>7. CASE SyncForward
  <2>1. host.at # "idle"
    BY <1>7 DEF SyncForward, At
  <2>2. PICK n \in {0, 1} : n = AllowPending(pending_deferred[host.layer])
    BY <1>1, HostFields DEF AllowPending
  <2>3. CASE Path = "stream"
    <3>1. PICK u \in Buffers : Enqueue(<<Op("sync", u, host.pass, host.layer, n, FALSE)>>)
      BY <1>7, <2>2, <2>3 DEF SyncForward, Sync
    <3>2. \E o : HostGrows(o)
      BY <2>1, <3>1, GrowsBy DEF Whats
    <3> QED BY <1>1, <1>7, <3>2 DEF SyncForward, memory, hist
  <2>4. CASE Path # "stream"
    BY <1>1, <1>7, <2>4 DEF SyncForward, memory, hist
  <2> QED BY <2>3, <2>4
<1>8. CASE LaunchPinned
  <2>1. host.at = "callback" /\ host.buf \in Buffers
    BY <1>8 DEF LaunchPinned, At, Typed, HostTyped
  <2>2. Enqueue(<<Op("pinned", host.buf, host.pass, host.layer, 0, FALSE)>>)
    BY <1>8 DEF LaunchPinned, WholeLayer
  <2>3. \E o : HostGrows(o)
    BY <2>1, <2>2, GrowsBy DEF Whats
  <2> QED BY <1>1, <1>8, <2>3 DEF LaunchPinned, memory, hist
<1>9. CASE CopyOutput
  <2>1. PICK u \in Buffers : Enqueue(<<Op("out", u, host.pass, host.layer, 0, FALSE)>>)
    BY <1>9 DEF CopyOutput, CopyOut
  <2>2. host.at # "idle"
    BY <1>9 DEF CopyOutput, At
  <2>3. \E o : HostGrows(o)
    BY <2>1, <2>2, GrowsBy DEF Whats
  <2> QED BY <1>1, <1>9, <2>3 DEF CopyOutput, memory, hist
<1> QED BY <1>2, <1>3, <1>4, <1>5, <1>6, <1>7, <1>8, <1>9 DEF HostStep

\* The queue stays typed.
LEMMA QueueTypedStays ==
    ASSUME Typed, Next
    PROVE  queue' \in Seq(TaskType)
<1>1. queue \in Seq(TaskType)
  BY DEF Typed, WorkTyped
<1>2. \A t \in TaskType : Append(queue, t) \in Seq(TaskType)
  BY <1>1, AppendProperties
<1>3. CASE HostStep
  BY <1>3, HostTypes
<1>4. CASE StreamStep
  <2>1. PICK op : op = Head(stream)
    OBVIOUS
  <2>2. op \in OpType /\ op.pass \in Passes /\ op.layer \in LayerSet
    BY <1>4, <2>1, OpAt DEF StreamStep, OpType
  <2>3. CASE op.what \in {"now", "later"}
    <3>1. queue' = Append(queue, TaskOf(op))
      BY <1>4, <2>1, <2>3 DEF StreamStep
    <3> QED BY <1>2, <2>2, <2>3, <3>1, TaskOfTyped
  <2>4. CASE op.what = "pinned"
    <3>1. PICK p \in Passes, l \in LayerSet : p = op.pass /\ l = op.layer
      BY <2>2
    <3>2. ASSUME NEW u \in Buffers, NEW later \in BOOLEAN,
                 queue' = queue \o <<Immediate(u, p, l)>> \o
                           (IF later THEN <<Deferred(u, p, l)>> ELSE <<>>)
          PROVE  queue' \in Seq(TaskType)
      <4>1. PICK a \in TaskType : a = Immediate(u, p, l)
        BY TasksTyped
      <4>2. PICK b \in TaskType : b = Deferred(u, p, l)
        BY TasksTyped
      <4>3. queue' = Append(Append(queue, a), b) \/ queue' = Append(queue, a)
        BY SMTT(30), <3>2, <4>1, <4>2, PinnedTasks
      <4>4. Append(Append(queue, a), b) \in Seq(TaskType)
        BY <1>2, AppendProperties
      <4> QED BY <1>2, <4>3, <4>4
    <3>3. queue' = queue \/ \E u \in Buffers, later \in BOOLEAN :
            queue' = queue \o <<Immediate(u, p, l)>> \o
                      (IF later THEN <<Deferred(u, p, l)>> ELSE <<>>)
      BY <1>4, <2>1, <2>4, <3>1 DEF StreamStep
    <3> QED BY <1>1, <3>2, <3>3
  <2>5. CASE op.what \notin {"now", "later", "pinned"}
    BY <1>1, <1>4, <2>1, <2>5 DEF StreamStep
  <2> QED BY <2>3, <2>4, <2>5
<1>5. CASE RunTask
  BY SMTT(30), <1>5, TaskAt DEF RunTask
<1>6. CASE PinnedRaises \/ ClearBufferCache \/ (\E bs \in SUBSET BatchSizes : SetCaptureBatchSizes(bs))
           \/ \E b \in BatchSizes : Replay(b) \/ \E c \in BOOLEAN : Begin(b, c)
  BY <1>1, <1>6 DEF PinnedRaises, ClearBufferCache, SetCaptureBatchSizes, Replay, Begin
<1> QED BY <1>3, <1>4, <1>5, <1>6 DEF Next

\* The operations of a graph, launched again.
IsAgain(b, g, again) ==
    /\ g \in Seq(OpType) /\ again \in Seq(OpType)
    /\ g = graphs[b] /\ g # <<>> /\ again # <<>> /\ Len(again) = Len(g)
    /\ again = [i \in DOMAIN g |-> [g[i] EXCEPT !.pass = passes + 1]]
    /\ DOMAIN again = 1 .. Len(g) /\ DOMAIN g = 1 .. Len(g) /\ Len(g) \in Nat \ {0}
    /\ \A i \in 1 .. Len(g) :
         /\ g[i] \in OpType /\ again[i] \in OpType
         /\ again[i] = [g[i] EXCEPT !.pass = passes + 1]
         /\ again[i].what = g[i].what /\ again[i].buf = g[i].buf
         /\ again[i].layer = g[i].layer /\ again[i].allow = g[i].allow
         /\ again[i].incremental = g[i].incremental /\ again[i].size = g[i].size
         /\ again[i].pass = passes + 1
    /\ stream' = stream \o again
    /\ deferrals' = deferrals \cup
         {<<passes + 1, again[i].layer>> : i \in {j \in DOMAIN again : again[j].what = "later"}}

\* A graph is launched again with its own operations.
LEMMA Again ==
    ASSUME Typed, NEW b \in BatchSizes, Replay(b)
    PROVE  \E g, again : IsAgain(b, g, again)
<1>1. PICK g \in Seq(OpType) : g = graphs[b]
  BY DEF Typed, WorkTyped
<1>2. PICK again : again = [i \in DOMAIN g |-> [g[i] EXCEPT !.pass = passes + 1]]
  OBVIOUS
<1>3. g # <<>> /\ passes + 1 \in Passes
  <2>1. g # <<>> /\ passes < MaxPasses
    BY <1>1 DEF Replay
  <2> QED BY <2>1, Facts
<1>4. Len(g) \in Nat \ {0} /\ DOMAIN g = 1 .. Len(g)
  BY <1>3, LenProperties, EmptySeq
<1>5. ASSUME NEW i \in 1 .. Len(g)
      PROVE  /\ g[i] \in OpType /\ again[i] \in OpType
             /\ again[i] = [g[i] EXCEPT !.pass = passes + 1]
             /\ again[i].what = g[i].what /\ again[i].buf = g[i].buf
             /\ again[i].layer = g[i].layer /\ again[i].allow = g[i].allow
             /\ again[i].incremental = g[i].incremental /\ again[i].size = g[i].size
             /\ again[i].pass = passes + 1
  <2>1. g[i] \in OpType
    BY ElementOfSeq
  <2>2. again[i] = [g[i] EXCEPT !.pass = passes + 1]
    BY <1>2, <1>4
  <2> QED BY <1>3, <2>1, <2>2 DEF OpType
<1>6. again \in [1 .. Len(g) -> OpType]
  BY <1>2, <1>4, <1>5
<1>7. again \in Seq(OpType) /\ Len(again) = Len(g) /\ again # <<>>
  <2>1. again \in Seq(OpType)
    BY <1>4, <1>6, SeqDef
  <2>2. DOMAIN again = 1 .. Len(again) /\ Len(again) \in Nat
    BY <2>1, LenProperties
  <2>3. DOMAIN again = 1 .. Len(g)
    BY <1>6
  <2>4. Len(again) = Len(g)
    <3>1. Len(g) \in 1 .. Len(again)
      BY <1>4, <2>2, <2>3
    <3>2. Len(again) \in 1 .. Len(g)
      BY <2>2, <2>3, <3>1
    <3> QED BY <3>1, <3>2
  <2> QED BY <1>4, <2>1, <2>4, EmptySeq
<1>8. stream' = stream \o again /\ deferrals' = deferrals \cup
        {<<passes + 1, again[i].layer>> : i \in {j \in DOMAIN again : again[j].what = "later"}}
  BY <1>1, <1>2 DEF Replay
<1>9. IsAgain(b, g, again)
  <2>1. DOMAIN again = 1 .. Len(g)
    BY <1>6
  <2> QED BY <1>1, <1>2, <1>3, <1>4, <1>5, <1>7, <1>8, <2>1 DEF IsAgain
<1> QED BY <1>9

\* The stream and the graphs stay typed.
LEMMA StreamTypedStays ==
    ASSUME Typed, Next
    PROVE  /\ stream' \in Seq(OpType) /\ \A i \in DOMAIN stream' : stream'[i].pass <= passes'
           /\ graphs' \in [BatchSizes -> Seq(OpType)] /\ \A b \in BatchSizes : Laters(graphs'[b])
<1>1. stream \in Seq(OpType) /\ graphs \in [BatchSizes -> Seq(OpType)] /\ passes \in Nat
      /\ \A i \in DOMAIN stream : stream[i].pass <= passes
  BY Facts DEF Typed, WorkTyped
<1>9. \A b \in BatchSizes : Laters(graphs[b])
  BY DEF Typed, WorkTyped
<1>2. DOMAIN stream = 1 .. Len(stream) /\ Len(stream) \in Nat /\ \A i \in 1 .. Len(stream) : stream[i] \in OpType
  BY <1>1, LenProperties, ElementOfSeq
<1>3. \A op \in OpType : op.pass \in Nat
  BY Facts DEF OpType
<1>4. ASSUME UNCHANGED <<stream, graphs>>, passes' \in {passes, passes + 1}
      PROVE  /\ stream' \in Seq(OpType) /\ \A i \in DOMAIN stream' : stream'[i].pass <= passes'
             /\ graphs' \in [BatchSizes -> Seq(OpType)] /\ \A b \in BatchSizes : Laters(graphs'[b])
  <2>1. \A i \in DOMAIN stream : stream[i].pass <= passes'
    BY <1>1, <1>2, <1>3, <1>4
  <2> QED BY <1>1, <1>4, <1>9, <2>1
<1>5. ASSUME HostStep
      PROVE  /\ stream' \in Seq(OpType) /\ \A i \in DOMAIN stream' : stream'[i].pass <= passes'
             /\ graphs' \in [BatchSizes -> Seq(OpType)] /\ \A b \in BatchSizes : Laters(graphs'[b])
  <2>1. CASE UNCHANGED <<stream, graphs>>
    BY <1>4, <1>5, <2>1, HostTypes
  <2>2. ASSUME NEW o, HostGrows(o)
        PROVE  /\ stream' \in Seq(OpType) /\ \A i \in DOMAIN stream' : stream'[i].pass <= passes'
               /\ graphs' \in [BatchSizes -> Seq(OpType)] /\ \A b \in BatchSizes : Laters(graphs'[b])
    <3>1. o \in OpType /\ o.pass = host.pass /\ host.size \in BatchSizes /\ passes' = passes /\ host.pass <= passes
      BY <1>5, <2>2, HostSize, HostTypes DEF HostGrows, Typed, HostTyped
    <3>2. CASE graphs' = [graphs EXCEPT ![host.size] = Append(graphs[host.size], o)] /\ stream' = stream
      <4>1. PICK g \in Seq(OpType) : g = graphs[host.size]
        BY <1>1, <3>1
      <4>2. PICK h : h = Append(g, o)
        OBVIOUS
      <4>3. h \in Seq(OpType) /\ Len(h) = Len(g) + 1 /\ (\A i \in 1 .. Len(g) : h[i] = g[i])
            /\ h[Len(g) + 1] = o
        BY <3>1, <4>2, AppendProperties
      <4>4. DOMAIN h = 1 .. Len(g) + 1 /\ DOMAIN g = 1 .. Len(g) /\ Len(g) \in Nat
        BY <4>3, LenProperties
      <4>5. Laters(h)
        <5>1. \A i \in 1 .. Len(g) : g[i].what = "later" => g[i].layer \in Deferring
          BY <1>9, <3>1, <4>1, <4>4 DEF Laters
        <5>2. o.what = "later" => o.layer \in Deferring
          BY <2>2 DEF HostGrows
        <5>3. DOMAIN h = 1 .. Len(g) + 1 /\ \A i \in 1 .. Len(g) + 1 : i \in 1 .. Len(g) \/ i = Len(g) + 1
          BY <4>4
        <5> QED BY <4>3, <5>1, <5>2, <5>3 DEF Laters
      <4>6. graphs' = [graphs EXCEPT ![host.size] = h]
        BY <3>2, <4>1, <4>2
      <4> QED BY ZenonT(40), <1>1, <1>2, <1>9, <3>1, <3>2, <4>3, <4>5, <4>6
    <3>3. CASE stream' = Append(stream, o) /\ graphs' = graphs
      <4>1. stream' = Append(stream, o) /\ graphs' = graphs
        BY <3>3
      <4>2. PICK s : s = Append(stream, o)
        OBVIOUS
      <4>3. s \in Seq(OpType) /\ Len(s) = Len(stream) + 1 /\ (\A i \in 1 .. Len(stream) : s[i] = stream[i])
            /\ s[Len(stream) + 1] = o
        BY <1>1, <3>1, <4>2, AppendProperties
      <4>4. DOMAIN s = 1 .. Len(stream) + 1
        BY <4>3, LenProperties
      <4>5. \A i \in DOMAIN s : s[i].pass <= passes
        BY <1>1, <1>2, <3>1, <4>3, <4>4
      <4> QED BY <1>1, <1>9, <3>1, <4>1, <4>2, <4>3, <4>5
    <3> QED BY <2>2, <3>2, <3>3 DEF HostGrows
  <2> QED BY <1>5, <2>1, <2>2, HostTypes
<1>6. CASE StreamStep \/ PinnedRaises
  <2>1. PICK op : op = Head(stream)
    OBVIOUS
  <2>2. op \in OpType /\ stream # <<>> /\ passes' = passes /\ graphs' = graphs /\ op.pass <= passes
    BY <1>6, <2>1, OpAt DEF StreamStep, PinnedRaises
  <2>3. PICK s \in Seq(OpType) : s = Tail(stream)
    BY <2>2, OpAt
  <2>4. DOMAIN s = 1 .. Len(stream) - 1 /\ Len(s) = Len(stream) - 1
        /\ \A i \in 1 .. Len(stream) - 1 : s[i] = stream[i + 1]
    BY <2>2, <2>3, OpAt
  <2>5. \A i \in DOMAIN s : s[i].pass <= passes
    <3>1. \A i \in 1 .. Len(stream) - 1 : i + 1 \in 1 .. Len(stream)
      BY <1>2
    <3> QED BY <1>1, <1>2, <2>4, <3>1
  <2>6. CASE stream' = Tail(stream)
    BY <1>1, <1>9, <2>2, <2>3, <2>5, <2>6
  <2>7. ASSUME NEW w \in OpType, w.pass = op.pass, stream' = <<w>> \o Tail(stream)
        PROVE  stream' \in Seq(OpType) /\ \A i \in DOMAIN stream' : stream'[i].pass <= passes
    <3>2. w \in OpType /\ w.pass = op.pass
      BY <2>7
    <3>3. <<w>> \in Seq(OpType) /\ Len(<<w>>) = 1 /\ <<w>>[1] = w
      BY <3>2
    <3>4. PICK r : r = <<w>> \o s
      OBVIOUS
    <3>5. r \in Seq(OpType) /\ Len(r) = 1 + Len(s)
          /\ \A i \in 1 .. 1 + Len(s) : r[i] = IF i <= 1 THEN w ELSE s[i - 1]
      BY <3>3, <3>4, ConcatProperties
    <3>6. DOMAIN r = 1 .. 1 + Len(s)
      BY <3>5, LenProperties
    <3>7. ASSUME NEW i \in 1 .. 1 + Len(s) PROVE r[i].pass <= passes
      <4>1. CASE i <= 1
        BY <2>2, <3>2, <3>5, <4>1
      <4>2. CASE ~ (i <= 1)
        <5>1. i - 1 \in DOMAIN s
          BY SMTT(30), <1>2, <2>4, <4>2
        <5> QED BY <2>5, <3>5, <4>2, <5>1
      <4> QED BY <4>1, <4>2
    <3> QED BY <2>3, <2>7, <3>4, <3>5, <3>6, <3>7
  <2>8. \/ stream' = Tail(stream)
        \/ \E n \in {0, 1} : stream' = <<[op EXCEPT !.what = "wait", !.allow = n]>> \o Tail(stream)
        \/ stream' = <<[op EXCEPT !.what = "stuck"]>> \o Tail(stream)
    <3>1. \A f \in BOOLEAN : AllowPending(f) \in {0, 1}
      BY DEF AllowPending
    <3> QED BY <1>6, <2>1, <3>1 DEF StreamStep, PinnedRaises
  <2>9. ASSUME NEW n \in {0, 1}
        PROVE  LET w == [op EXCEPT !.what = "wait", !.allow = n] IN w \in OpType /\ w.pass = op.pass
    BY <2>2 DEF OpType, Whats
  <2>10. LET w == [op EXCEPT !.what = "stuck"] IN w \in OpType /\ w.pass = op.pass
    BY <2>2 DEF OpType, Whats
  <2> QED BY <1>1, <1>9, <2>2, <2>6, <2>7, <2>8, <2>9, <2>10
<1>7. CASE RunTask \/ ClearBufferCache \/ (\E bs \in SUBSET BatchSizes : SetCaptureBatchSizes(bs))
           \/ \E b \in BatchSizes : \E c \in BOOLEAN : Begin(b, c)
  BY <1>4, <1>7 DEF RunTask, ClearBufferCache, SetCaptureBatchSizes, Begin
<1>8. ASSUME NEW b \in BatchSizes, Replay(b)
      PROVE  /\ stream' \in Seq(OpType) /\ \A i \in DOMAIN stream' : stream'[i].pass <= passes'
             /\ graphs' \in [BatchSizes -> Seq(OpType)] /\ \A c \in BatchSizes : Laters(graphs'[c])
  <2>1. passes' = passes + 1 /\ graphs' = graphs
    BY <1>8 DEF Replay
  <2>2. PICK again \in Seq(OpType) :
          /\ Len(again) \in Nat /\ \A i \in 1 .. Len(again) : again[i].pass = passes + 1
          /\ stream' = stream \o again
    <3>1. PICK g, again : IsAgain(b, g, again)
      BY <1>8, Again
    <3>2. /\ again \in Seq(OpType) /\ Len(again) = Len(g) /\ Len(g) \in Nat
          /\ \A i \in 1 .. Len(g) : again[i].pass = passes + 1
          /\ stream' = stream \o again
      BY ONLY <3>1 DEF IsAgain
    <3> QED BY ONLY <3>2
  <2>3. PICK s : s = stream \o again
    OBVIOUS
  <2>4. s \in Seq(OpType) /\ Len(s) = Len(stream) + Len(again)
        /\ \A i \in 1 .. Len(stream) + Len(again) :
             s[i] = IF i <= Len(stream) THEN stream[i] ELSE again[i - Len(stream)]
    BY <1>1, <2>3, ConcatProperties
  <2>5. DOMAIN s = 1 .. Len(stream) + Len(again)
    BY <2>4, LenProperties
  <2>6. ASSUME NEW i \in 1 .. Len(stream) + Len(again) PROVE s[i].pass <= passes + 1
    <3>1. CASE i <= Len(stream)
      <4>1. i \in 1 .. Len(stream)
        BY <1>2, <2>2, <3>1
      <4>2. s[i] = stream[i] /\ stream[i].pass \in Nat /\ stream[i].pass <= passes
        BY <1>1, <1>2, <1>3, <2>4, <3>1, <4>1
      <4> QED BY <1>1, <4>2
    <3>2. CASE ~ (i <= Len(stream))
      <4>1. i - Len(stream) \in 1 .. Len(again)
        BY <1>2, <2>2, <3>2
      <4>2. s[i] = again[i - Len(stream)]
        BY <2>4, <3>2
      <4>3. s[i].pass = passes + 1
        BY <2>2, <4>1, <4>2
      <4> QED BY <1>1, <4>3
    <3> QED BY <3>1, <3>2
  <2> QED BY <1>1, <1>9, <2>1, <2>2, <2>3, <2>4, <2>5, <2>6
<1> QED BY <1>5, <1>6, <1>7, <1>8 DEF Next

\* What is in flight stays typed.
LEMMA WorkTypedStays ==
    ASSUME Typed, Next
    PROVE  WorkTyped'
<1>1. error \in BOOLEAN /\ spoiled \subseteq Passes /\ passes \in 0 .. MaxPasses
  BY DEF Typed, WorkTyped
<1>2. error' \in BOOLEAN /\ passes' \in 0 .. MaxPasses /\ spoiled' \subseteq Passes
  <2>1. CASE HostStep
    BY <1>1, <2>1, HostTypes
  <2>2. CASE StreamStep
    BY <1>1, <2>2 DEF StreamStep
  <2>3. CASE PinnedRaises
    <3>1. Head(stream).pass \in Passes
      BY <2>3, OpAt DEF PinnedRaises, OpType
    <3> QED BY <1>1, <2>3, <3>1 DEF PinnedRaises
  <2>4. CASE RunTask
    <3>1. Head(queue).pass \in Passes
      BY <2>4, TaskAt DEF RunTask, TaskType
    <3> QED BY <1>1, <2>4, <3>1 DEF RunTask
  <2>5. CASE ClearBufferCache \/ (\E bs \in SUBSET BatchSizes : SetCaptureBatchSizes(bs))
    BY <1>1, <2>5 DEF ClearBufferCache, SetCaptureBatchSizes, hist
  <2>6. CASE \E b \in BatchSizes : Replay(b) \/ \E c \in BOOLEAN : Begin(b, c)
    <3>1. passes' = passes + 1 /\ passes < MaxPasses /\ error' = error /\ spoiled' = spoiled
      BY ZenonT(40), <2>6 DEF Replay, Begin, hist
    <3> QED BY <1>1, <3>1, Facts
  <2> QED BY <2>1, <2>2, <2>3, <2>4, <2>5, <2>6 DEF Next
<1> QED BY <1>2, QueueTypedStays, StreamTypedStays, SetupStays, SetupSame DEF WorkTyped, Laters

\* The pinned memory stays typed.
LEMMA MemTypedStays ==
    ASSUME Typed, Next
    PROVE  MemTyped'
<1>1. MemTyped /\ Token' = Token
  BY SetupStays, SetupSame DEF Typed
<1>2. ASSUME UNCHANGED <<input, output>> PROVE MemTyped'
  BY <1>1, <1>2 DEF MemTyped
<1>3. CASE HostStep
  BY <1>2, <1>3, HostTypes
<1>4. CASE StreamStep
  <2>1. PICK op : op = Head(stream)
    OBVIOUS
  <2>2. op \in OpType /\ op.buf \in Buffers /\ SlotOf(op.layer) \in Slots /\ <<op.pass, op.layer>> \in Token
    <3>1. op \in OpType
      BY <1>4, <2>1, OpAt DEF StreamStep
    <3>2. op.layer \in Int
      BY <3>1, Facts DEF OpType
    <3> QED BY <3>1, <3>2, SlotFacts DEF OpType, Token
  <2>3. CASE op.what = "in"
    <3>1. input' = [input EXCEPT ![op.buf][SlotOf(op.layer)] = <<op.pass, op.layer>>] /\ output' = output
      BY <1>4, <2>1, <2>3 DEF StreamStep
    <3> QED BY <1>1, <2>2, <3>1 DEF MemTyped
  <2>4. CASE op.what # "in"
    BY <1>2, <1>4, <2>1, <2>4 DEF StreamStep, memory
  <2> QED BY <2>3, <2>4
<1>5. CASE RunTask
  <2>1. PICK t \in TaskType : t = Head(queue)
    BY <1>5, TaskAt DEF RunTask
  <2>2. t.buf \in Buffers /\ t.into \in Slots /\ Result(t) \in {"now", "later"} \X Token
    <3>1. t.layer \in Int /\ t.kind \in {"now", "later"} /\ t.buf \in Buffers /\ t.into \in Slots
      BY Facts DEF TaskType
    <3>2. input[t.buf][SlotOf(t.layer)] \in Token
      BY <1>1, <3>1, SlotFacts DEF MemTyped
    <3> QED BY <3>1, <3>2 DEF Result
  <2>3. PICK r : r = (IF t.incremental THEN output[t.buf][t.into] ELSE {}) \cup {Result(t)}
    OBVIOUS
  <2>4. r \in SUBSET ({"now", "later"} \X Token)
    BY <1>1, <2>2, <2>3 DEF MemTyped
  <2>5. output' = output \/ output' = [output EXCEPT ![t.buf][t.into] = r]
    BY <1>5, <2>1, <2>3 DEF RunTask
  <2>6. input' = input
    BY <1>5 DEF RunTask
  <2>7. CASE output' = [output EXCEPT ![t.buf][t.into] = r]
    <3>1. output[t.buf] \in [Slots -> SUBSET ({"now", "later"} \X Token)]
      BY <1>1, <2>2 DEF MemTyped
    <3>2. PICK m : m = [output[t.buf] EXCEPT ![t.into] = r]
      OBVIOUS
    <3>3. m \in [Slots -> SUBSET ({"now", "later"} \X Token)]
      BY <2>4, <3>1, <3>2
    <3>4. output' = [output EXCEPT ![t.buf] = m]
      BY SMTT(30), <2>7, <3>2
    <3> QED BY <1>1, <2>2, <2>6, <3>3, <3>4 DEF MemTyped
  <2> QED BY <1>2, <2>5, <2>6, <2>7
<1>6. CASE PinnedRaises \/ ClearBufferCache \/ (\E bs \in SUBSET BatchSizes : SetCaptureBatchSizes(bs))
           \/ \E b \in BatchSizes : Replay(b) \/ \E c \in BOOLEAN : Begin(b, c)
  BY <1>2, <1>6 DEF PinnedRaises, ClearBufferCache, SetCaptureBatchSizes, Replay, Begin, memory
<1> QED BY <1>3, <1>4, <1>5, <1>6 DEF Next

\* Every variable stays typed.
LEMMA TypedStays ==
    ASSUME Typed, Distinct, Next
    PROVE  Typed' /\ Distinct'
<1>1. setup' \in Setups
  BY SetupStays DEF Typed, SetupFacts
<1>2. SetupFacts'
  BY <1>1, SetupStays, SetupSame DEF Typed, SetupFacts
<1> QED BY <1>2, HostTypedStays, PooledStays, FlagTypedStays, MemTypedStays, WorkTypedStays
        DEF Typed, Pooled

-----------------------------------------------------------------------------
(* The elements of sequences.                                              *)

\* The elements of longer and shorter sequences.
LEMMA ElemsAppend ==
    ASSUME NEW S, NEW s \in Seq(S), NEW e \in S
    PROVE  Elems(Append(s, e)) = Elems(s) \cup {e}
<1>1. PICK r : r = Append(s, e)
  OBVIOUS
<1>2. r \in Seq(S) /\ Len(r) = Len(s) + 1 /\ (\A i \in 1 .. Len(s) : r[i] = s[i]) /\ r[Len(s) + 1] = e
  BY <1>1, AppendProperties
<1>3. DOMAIN s = 1 .. Len(s) /\ DOMAIN r = 1 .. Len(s) + 1 /\ Len(s) \in Nat
  BY <1>2, LenProperties
<1>4. DOMAIN r = DOMAIN s \cup {Len(s) + 1}
  BY <1>3
<1> QED BY <1>1, <1>2, <1>3, <1>4 DEF Elems

\* The rest of a sequence has no other elements.
LEMMA ElemsTail ==
    ASSUME NEW S, NEW s \in Seq(S), s # <<>>
    PROVE  Elems(Tail(s)) \subseteq Elems(s) /\ Head(s) \in Elems(s)
<1>1. PICK r : r = Tail(s)
  OBVIOUS
<1>2. r \in Seq(S) /\ Len(r) = Len(s) - 1 /\ \A i \in 1 .. Len(r) : r[i] = s[i + 1]
  BY <1>1, HeadTailProperties
<1>3. DOMAIN s = 1 .. Len(s) /\ DOMAIN r = 1 .. Len(s) - 1 /\ Len(s) \in Nat \ {0}
  BY <1>2, LenProperties, EmptySeq
<1>4. \A i \in DOMAIN r : i + 1 \in DOMAIN s
  BY <1>3
<1>5. Head(s) = s[1] /\ 1 \in DOMAIN s
  BY <1>3
<1> QED BY <1>1, <1>2, <1>3, <1>4, <1>5 DEF Elems

\* Those of two sequences in a row.
LEMMA ElemsConcat ==
    ASSUME NEW S, NEW s \in Seq(S), NEW t \in Seq(S)
    PROVE  Elems(s \o t) = Elems(s) \cup Elems(t)
<1>1. PICK r : r = s \o t
  OBVIOUS
<1>2. /\ r \in Seq(S) /\ Len(r) = Len(s) + Len(t)
      /\ \A i \in 1 .. Len(s) + Len(t) : r[i] = IF i <= Len(s) THEN s[i] ELSE t[i - Len(s)]
  BY <1>1, ConcatProperties
<1>3. /\ DOMAIN s = 1 .. Len(s) /\ DOMAIN t = 1 .. Len(t) /\ DOMAIN r = 1 .. Len(s) + Len(t)
      /\ Len(s) \in Nat /\ Len(t) \in Nat
  BY <1>2, LenProperties
<1>4. \A i \in DOMAIN s : i \in DOMAIN r /\ r[i] = s[i]
  BY <1>2, <1>3
<1>5. ASSUME NEW i \in DOMAIN t PROVE i + Len(s) \in DOMAIN r /\ r[i + Len(s)] = t[i]
  <2>1. i + Len(s) \in 1 .. Len(s) + Len(t) /\ ~ (i + Len(s) <= Len(s)) /\ i + Len(s) - Len(s) = i
    BY <1>3
  <2> QED BY <1>2, <1>3, <2>1
<1>6. ASSUME NEW i \in DOMAIN r PROVE r[i] \in Elems(s) \cup Elems(t)
  <2>1. CASE i <= Len(s)
    <3>1. i \in DOMAIN s /\ r[i] = s[i]
      BY <1>2, <1>3, <2>1
    <3> QED BY <3>1 DEF Elems
  <2>2. CASE ~ (i <= Len(s))
    <3>1. i - Len(s) \in DOMAIN t /\ r[i] = t[i - Len(s)]
      BY <1>2, <1>3, <2>2
    <3> QED BY <3>1 DEF Elems
  <2> QED BY <2>1, <2>2
<1>7. Elems(r) \subseteq Elems(s) \cup Elems(t)
  BY <1>6 DEF Elems
<1>8. Elems(s) \subseteq Elems(r) /\ Elems(t) \subseteq Elems(r)
  BY <1>4, <1>5 DEF Elems
<1> QED BY <1>1, <1>7, <1>8

-----------------------------------------------------------------------------
(* Nobody loses a buffer.                                                  *)

\* Every size keeps its buffer, and those for graphs stay anyway.
Keeps    == \A c \in BatchSizes, v \in Buffers : Has(c, v) => Has(c, v)'
Captured == \A c \in BatchSizes : capture_buffers[c] # 0 => capture_buffers'[c] = capture_buffers[c]

\* While the host makes room, what it does next stays the same.
LEMMA RestsSame ==
    ASSUME PipelineInv, Next, HostRests
    PROVE  /\ HostOp' = HostOp /\ HostCur' = HostCur /\ Cur' = Cur /\ Front' = Front
           /\ host'.at = host.at /\ host'.size = host.size /\ host'.pass = host.pass
           /\ ~host'.capturing
<1>1. /\ host'.at = host.at /\ host'.size = host.size /\ host'.pass = host.pass
      /\ host'.buf = host.buf /\ host'.layer = host.layer
      /\ ~host.capturing /\ ~host'.capturing
  BY HostFields DEF HostRests, PipelineInv
<1>2. HostOp' = HostOp /\ stream' = stream /\ Path' = Path
  BY <1>1, SetupStays, SetupSame DEF HostOp, HostRests
<1>3. HostCur' = HostCur
  BY <1>1, <1>2 DEF HostCur
<1>4. Cur' = Cur
  BY <1>2, <1>3 DEF Cur
<1> QED BY <1>1, <1>2, <1>3, <1>4 DEF Front

\* A step that leaves the dictionaries alone.
LEMMA SamePools ==
    ASSUME UNCHANGED <<temp_buffers, capture_buffers>>
    PROVE  Keeps /\ Captured
BY DEF Keeps, Captured, Has

\* A lookup keeps them, unless nothing is in flight.
LEMMA HostHasKeeps ==
    ASSUME PipelineInv, NEW u \in Buffers, HostHas(u)
    PROVE  /\ Captured /\ (Keeps \/ Drained)
           /\ \E b \in BatchSizes : b = host.size /\ Has(b, u)' /\ (host.capturing => capture_buffers'[b] = u)
<1>1. CASE UNCHANGED pools /\ host.buf = u
  <2>1. host.buf # 0 /\ host.at # "idle" /\ UNCHANGED <<temp_buffers, capture_buffers>>
    BY <1>1, BufferType DEF PipelineInv, Typed, HostTyped, Idle, pools
  <2>2. PICK b \in BatchSizes : b = host.size
    BY <2>1, HostSize DEF PipelineInv
  <2>3. Has(b, u) /\ (host.capturing => capture_buffers[b] = u)
    BY <1>1, <2>1, <2>2 DEF PipelineInv, HoldInv, HostHolds
  <2>4. Has(b, u)'
    BY <2>1, <2>3 DEF Has
  <2> QED BY <1>1, <2>1, <2>2, <2>3, <2>4, SamePools
<1>2. ASSUME NEW b \in BatchSizes, b = host.size, Looked(b, u)
      PROVE  /\ Captured /\ (Keeps \/ Drained)
             /\ Has(b, u)' /\ (host.capturing => capture_buffers'[b] = u)
  BY <1>2 DEF Looked, Keeps, Captured, ToCapture
<1> QED BY <1>1, <1>2 DEF HostHas

\* What is in the stream and in the queue, and stays there.
LEMMA StreamKeeps ==
    ASSUME PipelineInv, Keeps \/ Drained
    PROVE  \A op \in Elems(stream) : op \in OpType /\ (Looks(op) => Has(op.size, op.buf)')
<1> USE DEF PipelineInv
<1>1. stream \in Seq(OpType)
  BY DEF Typed, WorkTyped
<1>2. \A op \in Elems(stream) : op \in OpType
  BY <1>1, LenProperties, ElementOfSeq DEF Elems
<1>3. CASE Keeps
  BY <1>2, <1>3 DEF HoldInv, StreamHolds, Keeps, OpType
<1>4. CASE Drained
  BY <1>4 DEF Drained, DeviceDone, Elems
<1> QED BY <1>2, <1>3, <1>4

\* The queue's tasks keep their buffers.
LEMMA QueueKeeps ==
    ASSUME PipelineInv, Keeps \/ queue = <<>>
    PROVE  \A t \in Elems(queue) : t \in TaskType /\ \E b \in BatchSizes : Has(b, t.buf)'
<1> USE DEF PipelineInv
<1>1. queue \in Seq(TaskType)
  BY DEF Typed, WorkTyped
<1>2. \A t \in Elems(queue) : t \in TaskType
  BY <1>1, LenProperties, ElementOfSeq DEF Elems
<1>3. CASE Keeps
  BY <1>2, <1>3 DEF HoldInv, QueueHolds, Found, Keeps, TaskType
<1>4. CASE queue = <<>>
  BY <1>4 DEF Elems
<1> QED BY <1>2, <1>3, <1>4

\* The graphs' operations keep their buffers.
LEMMA GraphsKeep ==
    ASSUME PipelineInv, Captured
    PROVE  \A b \in BatchSizes : \A op \in Elems(graphs[b]) :
             op \in OpType /\ op.size = b /\ op.buf = capture_buffers[b]
             /\ op.buf = capture_buffers'[b] /\ Has(b, op.buf)
<1> USE DEF PipelineInv
<1> SUFFICES ASSUME NEW b \in BatchSizes, NEW op \in Elems(graphs[b])
             PROVE  op \in OpType /\ op.size = b /\ op.buf = capture_buffers[b]
                    /\ op.buf = capture_buffers'[b] /\ Has(b, op.buf)
  OBVIOUS
<1>1. graphs[b] \in Seq(OpType)
  BY DEF Typed, WorkTyped
<1>2. op \in OpType
  BY <1>1, LenProperties, ElementOfSeq DEF Elems
<1>3. op.size = b /\ op.buf = capture_buffers[b] /\ op.buf # 0
  BY <1>2, BufferType DEF HoldInv, GraphsHold, OpType
<1> QED BY <1>2, <1>3 DEF Captured, Has

\* The operation that the host enqueues.
LEMMA HostMoveHolds ==
    ASSUME PipelineInv, Next, NEW o, HostMove(o)
    PROVE  HoldInv'
<1> USE DEF PipelineInv
<1>1. PICK u \in Buffers : u = o.buf
  BY DEF HostMove, OpType
<1>2. PICK b \in BatchSizes : b = host.size /\ Has(b, u)' /\ (host.capturing => capture_buffers'[b] = u)
  BY <1>1, HostHasKeeps DEF HostMove
<1>3. Captured /\ (Keeps \/ Drained)
  BY <1>1, HostHasKeeps DEF HostMove
<1>4. stream \in Seq(OpType) /\ graphs \in [BatchSizes -> Seq(OpType)] /\ o \in OpType /\ o.size = b /\ queue' = queue
  BY <1>2 DEF Typed, WorkTyped, HostMove
<1>5. HostHolds'
  <2>1. CASE host' = Idle
    BY <2>1 DEF Idle, HostHolds
  <2>2. CASE host' # Idle
    <3>1. /\ host'.capturing = host.capturing /\ host'.size = host.size /\ host'.buf = u
          /\ host'.evicting = 0
      BY <1>1, <2>2 DEF HostMove
    <3> QED BY <1>2, <3>1 DEF HostHolds, Has
  <2> QED BY <2>1, <2>2
<1>6. StreamHolds'
  <2>1. PICK s : s = stream'
    OBVIOUS
  <2>2. Elems(s) \subseteq Elems(stream) \cup {o}
    <3>1. Elems(Append(stream, o)) = Elems(stream) \cup {o}
      BY <1>4, ElemsAppend
    <3>2. s = stream \/ s = Append(stream, o)
      BY <2>1 DEF HostMove
    <3> QED BY <3>1, <3>2
  <2>3. \A op \in Elems(s) : Looks(op) => Has(op.size, op.buf)'
    BY <1>1, <1>2, <1>3, <1>4, <2>2, StreamKeeps
  <2> QED BY <2>1, <2>3, SetupStays, SetupSame DEF StreamHolds, Elems, Looks
<1>7. QueueHolds'
  <2>1. \A t \in Elems(queue) : \E c \in BatchSizes : Has(c, t.buf)'
    BY <1>3, QueueKeeps DEF Drained
  <2> QED BY <1>4, <2>1 DEF QueueHolds, Elems, Found
<1>8. GraphsHold'
  <2>1. \A c \in BatchSizes : \A op \in Elems(graphs[c]) : op.size = c /\ op.buf = capture_buffers'[c]
    BY <1>3, GraphsKeep
  <2>2. CASE host.capturing
    <3>1. PICK g : g = Append(graphs[b], o)
      OBVIOUS
    <3>2. Elems(g) = Elems(graphs[b]) \cup {o}
      BY <1>4, <3>1, ElemsAppend
    <3>3. graphs' = [graphs EXCEPT ![b] = g]
      BY <1>2, <2>2, <3>1 DEF HostMove
    <3>4. \A op \in Elems(g) : op.size = b /\ op.buf = capture_buffers'[b]
      BY <1>1, <1>2, <1>4, <2>1, <2>2, <3>2
    <3>5. \A c \in BatchSizes : graphs'[c] = IF c = b THEN g ELSE graphs[c]
      BY <1>4, <3>3
    <3>6. \A c \in BatchSizes : \A op \in Elems(graphs'[c]) : op.size = c /\ op.buf = capture_buffers'[c]
      BY <2>1, <3>4, <3>5
    <3> QED BY <3>6 DEF GraphsHold, Elems
  <2>3. CASE ~host.capturing
    <3>1. graphs' = graphs
      BY <2>3 DEF HostMove
    <3> QED BY <2>1, <3>1 DEF GraphsHold, Elems
  <2> QED BY <2>2, <2>3
<1> QED BY <1>5, <1>6, <1>7, <1>8 DEF HoldInv

\* The host submits, waits or gives up.
LEMMA HostDirectHolds ==
    ASSUME PipelineInv, Next, HostDirect
    PROVE  HoldInv'
<1> USE DEF PipelineInv
<1>1. host.at \in {"now", "later", "sync"} /\ host.buf \in Buffers
  BY DEF HostDirect, Typed, HostTyped
<1>2. PICK u \in Buffers : u = host.buf
  BY <1>1
<1>3. PICK b \in BatchSizes : b = host.size /\ Has(b, u)'
  BY <1>2, HostHasKeeps DEF HostDirect
<1>4. Captured /\ (Keeps \/ Drained)
  BY <1>2, HostHasKeeps DEF HostDirect
<1>5. HostHolds'
  <2>1. host'.capturing = FALSE /\ host'.size = b /\ host'.buf = u /\ host'.evicting = 0
    BY <1>1, <1>2, <1>3, HostFields, NotEvicting DEF HostDirect
  <2> QED BY <1>3, <2>1 DEF HostHolds, Has
<1>6. StreamHolds'
  BY DEF StreamHolds, HostDirect, Elems
<1>7. QueueHolds'
  <2>1. \A t \in Elems(queue) : \E c \in BatchSizes : Has(c, t.buf)'
    BY <1>4, QueueKeeps DEF Drained
  <2>2. PICK q : q = queue'
    OBVIOUS
  <2>3. \A t \in Elems(q) : t \in Elems(queue) \/ t.buf = u
    <3>1. q = queue \/ \E t \in TaskType : t.buf = u /\ q = Append(queue, t)
      <4>1. PICK p \in Passes, l \in LayerSet : p = host.pass /\ l = host.layer
        BY <1>1, HostSize, HostFields
      <4>2. Immediate(u, p, l) \in TaskType /\ Deferred(u, p, l) \in TaskType
        BY TasksTyped
      <4>3. Immediate(u, p, l).buf = u /\ Deferred(u, p, l).buf = u
        BY DEF Immediate, Deferred
      <4> QED BY <1>2, <2>2, <4>1, <4>2, <4>3 DEF HostDirect
    <3>2. \A t \in TaskType : Elems(Append(queue, t)) = Elems(queue) \cup {t}
      BY ElemsAppend DEF Typed, WorkTyped
    <3> QED BY <3>1, <3>2
  <2>4. \A t \in Elems(q) : \E c \in BatchSizes : Has(c, t.buf)'
    BY <1>3, <2>1, <2>3
  <2> QED BY <2>2, <2>4 DEF QueueHolds, Elems, Found
<1>8. GraphsHold'
  <2>1. \A c \in BatchSizes : \A op \in Elems(graphs[c]) : op.size = c /\ op.buf = capture_buffers'[c]
    BY <1>4, GraphsKeep
  <2> QED BY <2>1 DEF GraphsHold, Elems, HostDirect
<1> QED BY <1>5, <1>6, <1>7, <1>8 DEF HoldInv

\* The host leaves the pass, and nothing is in flight.
LEMMA GivesUpHolds ==
    ASSUME PipelineInv, Next, HostGivesUp
    PROVE  HoldInv'
<1> USE DEF PipelineInv
<1>1. Captured
  BY SamePools DEF HostGivesUp, pools
<1>2. HostHolds' /\ StreamHolds' /\ QueueHolds'
  BY DEF HostGivesUp, HostHolds, StreamHolds, QueueHolds, Elems, Idle
<1>3. GraphsHold'
  <2>1. \A c \in BatchSizes : \A op \in Elems(graphs[c]) : op.size = c /\ op.buf = capture_buffers'[c]
    BY <1>1, GraphsKeep
  <2> QED BY <2>1 DEF GraphsHold, Elems, HostGivesUp
<1> QED BY <1>2, <1>3 DEF HoldInv

\* The host has inserted a buffer.
LEMMA RestsHolds ==
    ASSUME PipelineInv, Next, HostRests
    PROVE  HoldInv'
<1> USE DEF PipelineInv
<1>1. PICK u \in Buffers, b \in BatchSizes :
        host' = [host EXCEPT !.evicting = u] /\ b = host.size /\ Looked(b, u)
  BY DEF HostRests
<1>2. Captured /\ (Keeps \/ Drained) /\ Has(b, u)'
  BY <1>1 DEF Looked, Keeps, Captured
<1>3. HostHolds'
  <2>1. host'.buf = 0 /\ host'.size = b /\ host'.evicting = u
    BY <1>1, HostFields DEF HostRests
  <2> QED BY <1>2, <2>1 DEF HostHolds, Has
<1>4. StreamHolds'
  <2>1. \A x \in Elems(stream) : Looks(x) => Has(x.size, x.buf)'
    BY <1>2, StreamKeeps
  <2> QED BY <2>1, SetupStays, SetupSame DEF HostRests, StreamHolds, Elems, Looks
<1>5. QueueHolds'
  <2>1. \A t \in Elems(queue) : \E c \in BatchSizes : Has(c, t.buf)'
    BY <1>2, QueueKeeps DEF Drained
  <2> QED BY <2>1 DEF HostRests, QueueHolds, Elems, Found
<1>6. GraphsHold'
  <2>1. \A c \in BatchSizes : \A op \in Elems(graphs[c]) : op.size = c /\ op.buf = capture_buffers'[c]
    BY <1>2, GraphsKeep
  <2> QED BY <2>1 DEF GraphsHold, Elems, HostRests
<1> QED BY <1>3, <1>4, <1>5, <1>6 DEF HoldInv

\* A lookup by a callback of the stream keeps everything.
LEMMA StreamLooks ==
    ASSUME PipelineInv, stream # <<>>, NEW b \in BatchSizes, NEW u \in Buffers, GetBuffer(b, u)
    PROVE  Keeps /\ Captured /\ Has(b, u)'
<1>1. Looked(b, u)
  BY LookedUp DEF PipelineInv, Typed, Pooled
<1> QED BY <1>1 DEF Looked, Keeps, Captured, Drained, DeviceDone

\* A callback of the pinned path finds its buffer: it does not hang.
LEMMA NoHang ==
    ASSUME PipelineInv, stream # <<>>, Head(stream).what = "pinned"
    PROVE  ~Overflows(Head(stream).size)
<1> USE DEF PipelineInv
<1>1. PICK op \in OpType : op = Head(stream) /\ op \in Elems(stream)
  BY OpAt DEF Elems
<1>2. Has(op.size, op.buf)
  BY <1>1 DEF HoldInv, StreamHolds, Looks
<1> QED BY <1>1, <1>2 DEF Has, Overflows, TempOf

\* The parts that a step of the stream or of the worker leaves alone.
LEMMA HostKeeps ==
    ASSUME PipelineInv, Keeps, Captured, UNCHANGED <<host, graphs>>
    PROVE  HostHolds' /\ GraphsHold'
<1> USE DEF PipelineInv
<1>1. HostHolds'
  <2>1. CASE host.buf = 0
    <3>1. CASE host.evicting = 0
      BY <2>1, <3>1 DEF HostHolds
    <3>2. CASE host.evicting # 0
      <4>1. PICK b \in BatchSizes, u \in Buffers : b = host.size /\ u = host.evicting
        <5>1. host.evicting \in Buffers /\ host.at # "idle"
          BY <3>2, HostFields, BufferType DEF Buffers, Typed, HostTyped
        <5> QED BY <5>1, HostSize
      <4>2. Has(b, u)'
        BY <3>2, <4>1 DEF HoldInv, HostHolds, Keeps
      <4> QED BY <2>1, <4>1, <4>2 DEF HostHolds, Has
    <3> QED BY <3>1, <3>2
  <2>2. CASE host.buf # 0
    <3>1. PICK b \in BatchSizes, u \in Buffers : b = host.size /\ u = host.buf
      <4>1. host.buf \in Buffers /\ host.at # "idle"
        BY <2>2, HostFields, BufferType DEF Buffers, Typed, HostTyped, Idle
      <4> QED BY <4>1, HostSize
    <3>5. host.evicting = 0
      BY <2>2 DEF HoldInv, HostHolds
    <3>2. Has(b, u) /\ (host.capturing => capture_buffers[b] = u) /\ u # 0
      BY <2>2, <3>1 DEF HoldInv, HostHolds
    <3>3. Has(b, u)' /\ (host.capturing => capture_buffers'[b] = u)
      BY <3>2 DEF Keeps, Captured
    <3> QED BY <3>1, <3>3, <3>5 DEF HostHolds, Has
  <2> QED BY <2>1, <2>2
<1>2. \A c \in BatchSizes : \A op \in Elems(graphs[c]) : op.size = c /\ op.buf = capture_buffers'[c]
  BY GraphsKeep
<1> QED BY <1>1, <1>2 DEF GraphsHold, Elems

\* The stream does its first operation.
LEMMA StreamStepHolds ==
    ASSUME PipelineInv, Next, ~lost', StreamStep \/ PinnedRaises
    PROVE  HoldInv'
<1> USE DEF PipelineInv
<1>1. PICK op : op = Head(stream)
  OBVIOUS
<1>2. stream # <<>> /\ op \in OpType /\ op.size \in BatchSizes /\ UNCHANGED <<host, graphs>>
      /\ stream \in Seq(OpType) /\ queue \in Seq(TaskType)
  BY <1>1, OpAt DEF StreamStep, PinnedRaises, OpType, Typed, WorkTyped
<1>3. PICK b \in BatchSizes : b = op.size
  BY <1>2
<1>4. UNCHANGED pools \/ \E u \in Buffers : GetBuffer(b, u)
  BY <1>1, <1>3, NoHang DEF StreamStep, PinnedRaises
<1>5. Keeps /\ Captured
  BY <1>2, <1>4, StreamLooks, SamePools DEF pools
<1>6. HostHolds' /\ GraphsHold'
  BY <1>2, <1>5, HostKeeps
<1>7. PICK tl \in Seq(OpType) : tl = Tail(stream)
  BY <1>2, OpAt
<1>8. Elems(tl) \subseteq Elems(stream) /\ op \in Elems(stream)
  BY <1>1, <1>2, <1>7, ElemsTail
<1>9. \A x \in Elems(stream) : Looks(x) => Has(x.size, x.buf)'
  BY <1>5, StreamKeeps
<1>10. \A t \in Elems(queue) : \E c \in BatchSizes : Has(c, t.buf)'
  BY <1>5, QueueKeeps
<1>11. ASSUME stream' = tl PROVE StreamHolds'
  BY <1>8, <1>9, <1>11, SetupStays, SetupSame DEF StreamHolds, Elems, Looks
<1>12. ASSUME NEW w \in OpType, w.what = "wait", stream' = <<w>> \o tl PROVE StreamHolds'
  <2>1. PICK s : s = <<w>> \o tl
    OBVIOUS
  <2>2. PICK f \in Seq(OpType) : f = <<w>> /\ Elems(f) = {w}
    <3>1. PICK f : f = <<w>>
      OBVIOUS
    <3>2. f \in Seq(OpType) /\ DOMAIN f = {1} /\ f[1] = w
      BY <3>1
    <3> QED BY <3>1, <3>2 DEF Elems
  <2>3. Elems(s) = {w} \cup Elems(tl)
    <3>1. Elems(f \o tl) = Elems(f) \cup Elems(tl)
      BY ElemsConcat
    <3> QED BY <2>1, <2>2, <3>1
  <2>4. \A x \in Elems(s) : Looks(x) => Has(x.size, x.buf)'
    BY SMTT(30), <1>8, <1>9, <1>12, <2>3 DEF Looks
  <2> QED BY <1>12, <2>1, <2>4, SetupStays, SetupSame DEF StreamHolds, Elems, Looks
<1>13. CASE op.what # "pinned" \/ PinnedRaises
  <2>1. stream' = tl
    BY <1>1, <1>7, <1>13 DEF StreamStep, PinnedRaises
  <2>2. CASE queue' = queue
    BY <1>6, <1>10, <1>11, <2>1, <2>2 DEF QueueHolds, Elems, Found, HoldInv
  <2>3. CASE op.what \in {"now", "later"} /\ ~PinnedRaises
    <3>1. PICK t \in TaskType : t = TaskOf(op)
      BY SMTT(30), <1>2, <2>3, TaskOfTyped
    <3>2. queue' = Append(queue, t) /\ t.buf = op.buf
      BY <1>1, <2>3, <3>1 DEF StreamStep, TaskOf
    <3>3. PICK q : q = queue'
      OBVIOUS
    <3>4. Elems(q) = Elems(queue) \cup {t}
      BY <1>2, <3>2, <3>3, ElemsAppend
    <3>5. Has(b, op.buf)'
      BY <1>3, <1>8, <1>9, <2>3 DEF Looks
    <3>6. \A x \in Elems(q) : \E c \in BatchSizes : Has(c, x.buf)'
      BY <1>10, <3>2, <3>4, <3>5
    <3> QED BY <1>6, <1>11, <2>1, <3>3, <3>6 DEF QueueHolds, Elems, Found, HoldInv
  <2> QED BY <1>1, <1>13, <2>2, <2>3 DEF StreamStep, PinnedRaises
<1>14. CASE op.what = "pinned" /\ ~PinnedRaises
  <2>1. PICK u \in Buffers, later \in BOOLEAN :
          /\ GetBuffer(op.size, u)
          /\ queue' = queue \o <<Immediate(u, op.pass, op.layer)>> \o
                      (IF later THEN <<Deferred(u, op.pass, op.layer)>> ELSE <<>>)
          /\ stream' = <<[op EXCEPT !.what = "wait", !.allow = AllowPending(later)]>> \o Tail(stream)
    BY <1>1, <1>2, <1>14, NoHang DEF StreamStep
  <2>2. Has(b, u)'
    BY <1>2, <1>3, <2>1, StreamLooks
  <2>3. PICK w \in OpType : w = [op EXCEPT !.what = "wait", !.allow = AllowPending(later)]
    BY <1>2 DEF OpType, Whats, AllowPending
  <2>4. StreamHolds'
    BY <1>2, <1>7, <1>12, <2>1, <2>3 DEF OpType
  <2>5. PICK p \in Passes, l \in LayerSet : p = op.pass /\ l = op.layer
    BY <1>2 DEF OpType
  <2>6. PICK a \in TaskType : a = Immediate(u, p, l)
    BY TasksTyped
  <2>7. PICK d \in TaskType : d = Deferred(u, p, l)
    BY TasksTyped
  <2>8. queue' = Append(Append(queue, a), d) \/ queue' = Append(queue, a)
    BY <2>1, <2>5, <2>6, <2>7, PinnedTasks
  <2>9. PICK q : q = queue'
    OBVIOUS
  <2>10. Elems(q) \subseteq Elems(queue) \cup {a, d}
    <3>1. PICK r : r = Append(queue, a)
      OBVIOUS
    <3>2. Elems(r) = Elems(queue) \cup {a} /\ r \in Seq(TaskType)
      BY <1>2, <3>1, ElemsAppend, AppendProperties
    <3>3. Elems(Append(r, d)) = Elems(r) \cup {d}
      BY <3>2, ElemsAppend
    <3> QED BY <2>8, <2>9, <3>1, <3>2, <3>3
  <2>11. a.buf = u /\ d.buf = u
    BY <2>6, <2>7 DEF Immediate, Deferred
  <2>12. \A x \in Elems(q) : \E c \in BatchSizes : Has(c, x.buf)'
    BY <1>10, <2>2, <2>10, <2>11
  <2> QED BY SMTT(30), <1>6, <2>4, <2>9, <2>12 DEF QueueHolds, Elems, Found, HoldInv
<1> QED BY <1>13, <1>14

\* The worker takes a task off the queue.
LEMMA RunTaskHolds ==
    ASSUME PipelineInv, Next, RunTask
    PROVE  HoldInv'
<1> USE DEF PipelineInv
<1>1. Keeps /\ Captured /\ HostHolds' /\ GraphsHold'
  BY SamePools, HostKeeps DEF RunTask, pools
<1>2. StreamHolds'
  <2>1. \A x \in Elems(stream) : Looks(x) => Has(x.size, x.buf)'
    BY <1>1, StreamKeeps
  <2> QED BY <2>1, SetupStays, SetupSame DEF RunTask, StreamHolds, Elems, Looks
<1>3. QueueHolds'
  <2>1. \A t \in Elems(queue) : \E c \in BatchSizes : Has(c, t.buf)'
    BY <1>1, QueueKeeps
  <2>2. PICK q : q = queue'
    OBVIOUS
  <2>3. Elems(q) \subseteq Elems(queue)
    BY <2>2, ElemsTail DEF RunTask, Typed, WorkTyped
  <2> QED BY <2>1, <2>2, <2>3 DEF QueueHolds, Elems, Found
<1> QED BY <1>1, <1>2, <1>3 DEF HoldInv

\* Nothing in the stream looks up a buffer when the cache is cleared.
LEMMA ClearHolds ==
    ASSUME PipelineInv, Next, ~lost', ClearBufferCache
    PROVE  HoldInv'
<1> USE DEF PipelineInv
<1>6. CASE temp_buffers' = temp_buffers
  BY <1>6, SetupStays, SetupSame DEF ClearBufferCache, ClearTemp, HoldInv, HostHolds, StreamHolds,
     QueueHolds, GraphsHold, Has, Found, Elems, Looks
<1>7. SUFFICES ASSUME ClearTemp PROVE HoldInv'
  BY <1>6 DEF ClearBufferCache
<1>1. host = Idle /\ queue = <<>> /\ Clears /\ capture_buffers' = capture_buffers
      /\ UNCHANGED <<host, queue, stream, graphs>>
  BY DEF ClearBufferCache, At, ClearTemp, Typed, HostTyped
<1>2. HostHolds' /\ QueueHolds'
  BY <1>1 DEF HostHolds, QueueHolds, Elems, Idle
<1>3. GraphsHold'
  BY <1>1 DEF HoldInv, GraphsHold, Elems
<1>4. ASSUME NEW op \in Elems(stream) PROVE ~Looks(op)
  <2>1. PICK i \in 1 .. Len(stream) : op = stream[i]
    BY LenProperties DEF Elems, Typed, WorkTyped
  <2>2. CASE op.what = "pinned"
    BY <1>4, <1>7, <2>2 DEF ClearTemp, Elems
  <2>3. CASE op.what \in {"now", "later"} /\ Path = "stream"
    BY <1>4, <2>3 DEF ClearBufferCache, Cuda, DeviceDone, Elems
  <2>4. CASE op.what \in {"now", "later"} /\ Path # "stream"
    <3>1. op.what = "later" /\ Path = "filled"
      BY <2>4 DEF StreamInv, OpFits, PathWhats
    <3>2. HostCur.what = "idle"
      BY <1>1 DEF HostCur, HostOp, Idle
    <3>3. CASE i = Len(stream)
      BY <2>1, <3>1, <3>2, <3>3, EmptySeq DEF StreamInv, Chained, Follows, Step
    <3>4. CASE i # Len(stream)
      <4>1. Len(stream) \in Nat /\ DOMAIN stream = 1 .. Len(stream)
        BY SMTT(30), LenProperties DEF Typed, WorkTyped
      <4>2. i \in 1 .. Len(stream) - 1 /\ i + 1 \in DOMAIN stream
        <5>1. \A n \in Nat : \A j \in 1 .. n : j # n => j \in 1 .. n - 1 /\ j + 1 \in 1 .. n
          OBVIOUS
        <5> QED BY ONLY ZenonT(40), <3>4, <4>1, <5>1, i \in 1 .. Len(stream)
      <4>3. Follows(op, stream[i + 1])
        BY <2>1, <4>2 DEF StreamInv, Chained
      <4>4. stream[i + 1].what \in {"in", "later", "out"}
        BY <3>1, <4>2 DEF StreamInv, OpFits, PathWhats, Elems
      <4> QED BY <3>1, <4>3, <4>4 DEF Follows, Step
    <3> QED BY <3>3, <3>4
  <2> QED BY <2>2, <2>3, <2>4 DEF Looks
<1>5. StreamHolds'
  BY <1>1, <1>4, SetupStays, SetupSame DEF StreamHolds, Elems, Looks
<1> QED BY <1>2, <1>3, <1>5 DEF HoldInv

\* A pass begins, or a graph is launched again.
LEMMA BeginHolds ==
    ASSUME PipelineInv, Next, NEW b \in BatchSizes, NEW c \in BOOLEAN, Begin(b, c)
    PROVE  HoldInv'
<1> USE DEF PipelineInv
<1>1. HostHolds'
  BY DEF Begin, Idle, HostHolds
<1>2. UNCHANGED <<temp_buffers, capture_buffers, stream, queue, graphs>>
  BY DEF Begin, pools
<1> QED BY <1>1, <1>2, SetupStays, SetupSame
        DEF HoldInv, StreamHolds, QueueHolds, GraphsHold, Has, Found, Elems, Looks

\* A graph is replayed.
LEMMA ReplayHolds ==
    ASSUME PipelineInv, Next, NEW b \in BatchSizes, Replay(b)
    PROVE  HoldInv'
<1> USE DEF PipelineInv
<1>1. UNCHANGED <<temp_buffers, capture_buffers, host, queue, graphs>>
  BY DEF Replay, pools
<1>2. HostHolds' /\ QueueHolds' /\ GraphsHold' /\ Keeps /\ Captured
  BY <1>1, SamePools DEF HoldInv, HostHolds, QueueHolds, GraphsHold, Found, Has, Elems
<1>3. PICK g \in Seq(OpType), again \in Seq(OpType) :
        /\ g = graphs[b] /\ DOMAIN again = 1 .. Len(g) /\ DOMAIN g = 1 .. Len(g)
        /\ \A i \in 1 .. Len(g) : again[i].buf = g[i].buf /\ again[i].size = g[i].size
        /\ stream' = stream \o again
  <2>1. PICK g, again : IsAgain(b, g, again)
    BY Again
  <2>2. /\ g \in Seq(OpType) /\ again \in Seq(OpType)
        /\ g = graphs[b] /\ DOMAIN again = 1 .. Len(g) /\ DOMAIN g = 1 .. Len(g)
        /\ \A i \in 1 .. Len(g) : again[i].buf = g[i].buf /\ again[i].size = g[i].size
        /\ stream' = stream \o again
    BY ONLY <2>1 DEF IsAgain
  <2> QED BY ONLY <2>2
<1>4. PICK s : s = stream \o again
  OBVIOUS
<1>5. Elems(s) = Elems(stream) \cup Elems(again)
  BY <1>3, <1>4, ElemsConcat DEF Typed, WorkTyped
<1>6. \A op \in Elems(g) : op.size = b /\ Has(b, op.buf)
  BY <1>2, <1>3, GraphsKeep
<1>7. ASSUME NEW op \in Elems(again) PROVE Has(op.size, op.buf)
  <2>1. PICK i \in 1 .. Len(g) : op = again[i]
    BY <1>3 DEF Elems
  <2>2. g[i] \in Elems(g) /\ op.size = g[i].size /\ op.buf = g[i].buf
    BY <1>3, <2>1 DEF Elems
  <2>3. g[i].size = b /\ Has(b, g[i].buf)
    BY <1>6, <2>2
  <2> QED BY <2>2, <2>3
<1>8. \A op \in Elems(again) : Has(op.size, op.buf)'
  BY <1>1, <1>7 DEF Has
<1>9. \A op \in Elems(s) : Looks(op) => Has(op.size, op.buf)'
  BY <1>2, <1>5, <1>8, StreamKeeps
<1>10. StreamHolds'
  BY <1>3, <1>4, <1>9, SetupStays, SetupSame DEF StreamHolds, Elems, Looks
<1> QED BY <1>2, <1>10 DEF HoldInv

\* Whoever has a pointer keeps the buffer, whatever the step.
LEMMA HoldStays ==
    ASSUME PipelineInv, Next, ~lost'
    PROVE  HoldInv'
<1>1. ASSUME NEW bs \in SUBSET BatchSizes, SetCaptureBatchSizes(bs) PROVE HoldInv'
  BY <1>1, SetupStays, SetupSame DEF SetCaptureBatchSizes, PipelineInv, HoldInv, HostHolds,
     StreamHolds, QueueHolds, GraphsHold, Has, Found, Elems, Looks
<1>2. CASE HostStep
  BY <1>2, HostSteps, HostMoveHolds, HostDirectHolds, GivesUpHolds, RestsHolds
<1> QED BY <1>1, <1>2, StreamStepHolds, RunTaskHolds, ClearHolds, BeginHolds, ReplayHolds DEF Next

-----------------------------------------------------------------------------
(* Operations in a row.                                                    *)

\* One more operation.
LEMMA ChainAppend ==
    ASSUME NEW s \in Seq(OpType), NEW o \in OpType, NEW e, Chained(s, o), Follows(o, e)
    PROVE  Chained(Append(s, o), e)
<1>1. PICK r : r = Append(s, o)
  OBVIOUS
<1>2. r \in Seq(OpType) /\ Len(r) = Len(s) + 1 /\ (\A i \in 1 .. Len(s) : r[i] = s[i]) /\ r[Len(s) + 1] = o
  BY <1>1, AppendProperties
<1>3. Len(s) \in Nat
  BY LenProperties
<1>4. ASSUME NEW i \in 1 .. Len(r) - 1 PROVE Follows(r[i], r[i + 1])
  <2>1. CASE i = Len(s)
    <3>1. s # <<>> /\ i \in 1 .. Len(s)
      BY <1>2, <1>3, <1>4, <2>1, EmptySeq
    <3> QED BY <1>2, <2>1, <3>1 DEF Chained
  <2>2. CASE i # Len(s)
    <3>1. i \in 1 .. Len(s) - 1 /\ i \in 1 .. Len(s) /\ i + 1 \in 1 .. Len(s)
      BY <1>2, <1>3, <1>4, <2>2
    <3> QED BY <1>2, <3>1 DEF Chained
  <2> QED BY <2>1, <2>2
<1> QED BY <1>1, <1>2, <1>4 DEF Chained

\* One after the other.
LEMMA ChainConcat ==
    ASSUME NEW s \in Seq(OpType), NEW t \in Seq(OpType), t # <<>>, NEW e,
           Chained(s, t[1]), Chained(t, e)
    PROVE  Chained(s \o t, e)
<1>1. PICK r : r = s \o t
  OBVIOUS
<1>2. /\ r \in Seq(OpType) /\ Len(r) = Len(s) + Len(t)
      /\ \A i \in 1 .. Len(s) + Len(t) : r[i] = IF i <= Len(s) THEN s[i] ELSE t[i - Len(s)]
  BY <1>1, ConcatProperties
<1>3. Len(s) \in Nat /\ Len(t) \in Nat \ {0}
  BY LenProperties, EmptySeq
<1>4. ASSUME NEW i \in 1 .. Len(r) - 1 PROVE Follows(r[i], r[i + 1])
  <2>0. i \in 1 .. Len(s) + Len(t) /\ i + 1 \in 1 .. Len(s) + Len(t)
    BY <1>2, <1>3, <1>4
  <2>1. CASE i = Len(s)
    <3>1. s # <<>> /\ r[i] = s[Len(s)] /\ i + 1 - Len(s) = 1 /\ r[i + 1] = t[1]
      BY SMTT(30), <1>2, <1>3, <2>0, <2>1, EmptySeq
    <3> QED BY <3>1 DEF Chained
  <2>2. CASE i < Len(s)
    <3>1. i \in 1 .. Len(s) - 1 /\ r[i] = s[i] /\ r[i + 1] = s[i + 1]
      BY <1>2, <1>3, <2>0, <2>2
    <3> QED BY <3>1 DEF Chained
  <2>3. CASE i > Len(s)
    <3>1. i - Len(s) \in 1 .. Len(t) - 1 /\ r[i] = t[i - Len(s)] /\ r[i + 1] = t[(i - Len(s)) + 1]
      <4>1. i + 1 - Len(s) = (i - Len(s)) + 1 /\ ~ (i <= Len(s)) /\ ~ (i + 1 <= Len(s))
        BY <1>3, <2>0, <2>3
      <4>2. i - Len(s) \in 1 .. Len(t) - 1
        BY <1>2, <1>3, <1>4, <2>3
      <4> QED BY <1>2, <2>0, <4>1, <4>2
    <3> QED BY <3>1 DEF Chained
  <2> QED BY <1>3, <2>0, <2>1, <2>2, <2>3
<1>5. r[Len(r)] = t[Len(t)]
  <2>1. Len(r) \in 1 .. Len(s) + Len(t) /\ ~ (Len(r) <= Len(s)) /\ Len(r) - Len(s) = Len(t)
    BY <1>2, <1>3
  <2> QED BY <1>2, <2>1
<1> QED BY <1>1, <1>4, <1>5 DEF Chained

\* Without the first one.
LEMMA ChainTail ==
    ASSUME NEW s \in Seq(OpType), s # <<>>, NEW e, Chained(s, e)
    PROVE  /\ Chained(Tail(s), e)
           /\ IF Tail(s) = <<>> THEN Follows(Head(s), e) ELSE Follows(Head(s), Tail(s)[1])
<1>1. PICK r : r = Tail(s)
  OBVIOUS
<1>2. r \in Seq(OpType) /\ Len(r) = Len(s) - 1 /\ \A i \in 1 .. Len(r) : r[i] = s[i + 1]
  BY <1>1, HeadTailProperties
<1>3. Len(s) \in Nat \ {0} /\ Head(s) = s[1]
  BY LenProperties, EmptySeq
<1>4. ASSUME NEW i \in 1 .. Len(r) - 1 PROVE Follows(r[i], r[i + 1])
  <2>1. i \in 1 .. Len(r) /\ i + 1 \in 1 .. Len(r) /\ i + 1 \in 1 .. Len(s) - 1
    BY <1>2, <1>3
  <2>2. r[i] = s[i + 1] /\ r[i + 1] = s[(i + 1) + 1]
    BY <1>2, <2>1
  <2> QED BY <2>1, <2>2 DEF Chained
<1>5. CASE r = <<>>
  <2>1. Len(s) = 1
    BY <1>2, <1>3, <1>5
  <2> QED BY <1>1, <1>3, <1>4, <1>5, <2>1 DEF Chained
<1>6. CASE r # <<>>
  <2>1. Len(r) \in 1 .. Len(r) /\ 1 \in 1 .. Len(r) /\ Len(r) + 1 = Len(s) /\ 1 \in 1 .. Len(s) - 1
    BY <1>2, <1>3, <1>6, LenProperties, EmptySeq
  <2>2. r[Len(r)] = s[Len(s)] /\ r[1] = s[1 + 1]
    BY <1>2, <2>1
  <2> QED BY <1>1, <1>3, <1>4, <1>6, <2>1, <2>2 DEF Chained
<1> QED BY <1>5, <1>6

\* Another first one.
LEMMA ChainCons ==
    ASSUME NEW w \in OpType, NEW s \in Seq(OpType), NEW e, Chained(s, e),
           IF s = <<>> THEN Follows(w, e) ELSE Follows(w, s[1])
    PROVE  Chained(<<w>> \o s, e)
<1>1. PICK f \in Seq(OpType) : f = <<w>> /\ Len(f) = 1 /\ f[1] = w /\ f # <<>>
  <2>1. PICK f : f = <<w>>
    OBVIOUS
  <2>2. f \in Seq(OpType) /\ Len(f) = 1 /\ f[1] = w
    BY <2>1
  <2>3. f # <<>>
    <3>1. Len(f) # 0
      BY <2>2
    <3> QED BY <2>2, <3>1, EmptySeq
  <2> QED BY <2>1, <2>2, <2>3
<1>2. \A x : Follows(w, x) => Chained(f, x)
  BY <1>1 DEF Chained
<1>3. CASE s = <<>>
  <2>1. f \o s = f
    BY <1>3, ConcatEmptySeq
  <2> QED BY <1>1, <1>2, <1>3, <2>1
<1>4. CASE s # <<>>
  <2>1. Chained(f, s[1])
    BY <1>2, <1>4
  <2>2. Chained(f \o s, e)
    BY <1>4, <2>1, ChainConcat
  <2> QED BY <1>1, <2>2
<1> QED BY <1>3, <1>4

\* Another end.
LEMMA ChainEnd ==
    ASSUME NEW s \in Seq(OpType), NEW e, NEW f, Chained(s, e),
           \A a \in OpType : Follows(a, e) => Follows(a, f)
    PROVE  Chained(s, f)
<1>1. CASE s = <<>>
  BY <1>1 DEF Chained
<1>2. CASE s # <<>>
  <2>1. s[Len(s)] \in OpType
    <3>1. Len(s) \in 1 .. Len(s)
      BY <1>2, LenProperties, EmptySeq
    <3> QED BY <3>1, ElementOfSeq
  <2> QED BY <1>2, <2>1 DEF Chained
<1> QED BY <1>1, <1>2

\* After a pass.
LEMMA FollowsIdle ==
    ASSUME Typed, NEW e, e.what = "idle"
    PROVE  /\ \A a : Follows(a, e) => a.what = "out" /\ a.layer = Layers - 1
           /\ \A a : a.what = "out" /\ a.layer = Layers - 1 => Follows(a, e)
BY DEF Follows, Step

\* What follows depends on these fields.
LEMMA FollowsSame ==
    ASSUME NEW e, NEW f, e.what = f.what, e.pass = f.pass, e.layer = f.layer,
           e.buf = f.buf \/ (e.what = "in" /\ e.layer = 0), Typed
    PROVE  \A a \in OpType : Follows(a, e) => Follows(a, f)
<1> SUFFICES ASSUME NEW a \in OpType, Follows(a, e) PROVE Follows(a, f)
  OBVIOUS
<1>1. a.layer \in Nat
  BY Facts DEF OpType
<1>2. CASE e.buf = f.buf
  BY <1>2 DEF Follows
<1>3. CASE e.what = "in" /\ e.layer = 0
  BY <1>1, <1>3 DEF Follows, Step
<1> QED BY <1>2, <1>3

\* In the next state.
LEMMA ChainNow ==
    ASSUME setup' = setup, NEW s, NEW e, s = stream', e = HostCur', Chained(s, e)
    PROVE  Chained(stream, HostCur)'
BY SetupSame DEF Chained, Follows, Step

-----------------------------------------------------------------------------
(* The order of operations stays.                                          *)

\* What fits goes on to fit.
LEMMA OpFitsStays ==
    ASSUME setup' = setup, NEW op, OpFits(op)
    PROVE  OpFits(op)'
BY SetupSame DEF OpFits

\* What an operation relies on stays deferred.
LEMMA OpDefersStays ==
    ASSUME setup' = setup, NEW op, OpDefers(op), deferrals \subseteq deferrals',
           op.what = "wait" => (Defers(op.pass, op.layer)' => Defers(op.pass, op.layer))
    PROVE  OpDefers(op)'
BY SetupSame DEF OpDefers, AllDefer, Defers, Passed, Submitted

\* The operations of the stream, if nothing else is deferred than what it
\* may be.
LEMMA StreamOpsStay ==
    ASSUME PipelineInv, setup' = setup, deferrals \subseteq deferrals', Path = "pinned" => deferrals' = deferrals
    PROVE  \A op \in Elems(stream) : OpFits(op)' /\ OpDefers(op)'
<1> SUFFICES ASSUME NEW op \in Elems(stream) PROVE OpFits(op)' /\ OpDefers(op)'
  OBVIOUS
<1>1. OpFits(op) /\ OpDefers(op)
  BY DEF PipelineInv, StreamInv
<1>2. op.what = "wait" => Path = "pinned"
  BY <1>1 DEF OpFits, PathWhats
<1>3. op.what = "wait" => (Defers(op.pass, op.layer)' => Defers(op.pass, op.layer))
  BY <1>2 DEF Defers
<1> QED BY <1>1, <1>3, OpFitsStays, OpDefersStays

\* The host's next operation, as one of the stream's.
LEMMA HostMoveDefers ==
    ASSUME PipelineInv, Next, NEW o, HostMove(o)
    PROVE  OpFits(o)' /\ OpDefers(o)' /\ deferrals \subseteq deferrals'
           /\ (Path = "pinned" => deferrals' = deferrals)
<1>1. OpFits(o) /\ o.what # "wait" /\ deferrals \subseteq deferrals'
  BY DEF HostMove
<1>2. AllDefer(HostOp) /\ o.what = HostOp.what /\ o.pass = HostOp.pass /\ o.layer = HostOp.layer
  BY DEF PipelineInv, FlagInv, HostMove, HostOp
<1>3. AllDefer(o)
  BY <1>2 DEF AllDefer, Passed, Submitted
<1>4. AllDefer(o)'
  BY <1>1, <1>3, SetupStays, SetupSame DEF AllDefer, Defers, Passed, Submitted
<1>5. o.what = "later" => Defers(o.pass, o.layer)'
  BY DEF HostMove, Defers
<1>6. OpFits(o)'
  BY <1>1, SetupStays, OpFitsStays
<1>7. Path = "pinned" => deferrals' = deferrals
  BY <1>1 DEF HostMove, OpFits, PathWhats
<1> QED BY <1>1, <1>4, <1>5, <1>6, <1>7 DEF OpDefers

\* The stream stays in order when the host enqueues an operation.
LEMMA HostMoveChains ==
    ASSUME PipelineInv, Next, NEW o, HostMove(o)
    PROVE  StreamInv'
<1> USE DEF PipelineInv
<1>1. stream \in Seq(OpType) /\ o \in OpType /\ Chained(stream, HostCur)
  BY DEF HostMove, Typed, WorkTyped, StreamInv
<1>2. /\ OpFits(o)' /\ OpDefers(o)'
      /\ \A op \in Elems(stream) : OpFits(op)' /\ OpDefers(op)'
  BY HostMoveDefers, StreamOpsStay, SetupStays
<1>3. CASE host.capturing
  <2>1. stream' = stream
    BY <1>3 DEF HostMove
  <2>2. HostCur.what = "idle" /\ HostCur'.what = "idle"
    <3>1. host' = Idle \/ host'.capturing
      BY <1>3 DEF HostMove
    <3>2. host' = Idle => HostCur'.what = "idle"
      BY DEF HostCur, HostOp, IdleOp, Idle
    <3>3. host'.capturing => HostCur'.what = "idle"
      BY DEF HostCur, IdleOp
    <3>4. HostCur.what = "idle"
      BY <1>3 DEF HostCur, IdleOp
    <3> QED BY <3>1, <3>2, <3>3, <3>4
  <2>3. PICK e : e = HostCur'
    OBVIOUS
  <2>4. Chained(stream, e)
    BY <1>1, <2>2, <2>3, FollowsIdle, ChainEnd
  <2>5. Chained(stream, HostCur)'
    BY <2>1, <2>3, <2>4, SetupStays, ChainNow
  <2> QED BY <1>2, <2>1, <2>5 DEF StreamInv, Elems
<1>4. CASE ~host.capturing
  <2>1. stream' = Append(stream, o)
    BY <1>4 DEF HostMove
  <2>2. HostCur = HostOp /\ HostCur' = HostOp'
    <3>1. ~host'.capturing
      BY <1>4 DEF HostMove, Idle
    <3> QED BY <1>4, <3>1 DEF HostCur
  <2>3. PICK h : h = HostOp
    OBVIOUS
  <2>4. h.what = o.what /\ h.pass = o.pass /\ h.layer = o.layer
        /\ (h.buf = o.buf \/ (h.what = "in" /\ h.layer = 0))
    BY <2>3 DEF HostMove, HostOp
  <2>5. Chained(stream, o)
    <3>1. \A a \in OpType : Follows(a, h) => Follows(a, o)
      BY <2>4, FollowsSame
    <3> QED BY <1>1, <2>2, <2>3, <3>1, ChainEnd
  <2>6. PICK e : e = HostCur'
    OBVIOUS
  <2>7. PICK s : s = Append(stream, o)
    OBVIOUS
  <2>8. Chained(s, e)
    BY <1>1, <2>2, <2>5, <2>6, <2>7, ChainAppend DEF HostMove
  <2>9. Chained(stream, HostCur)'
    BY <2>1, <2>6, <2>7, <2>8, SetupStays, ChainNow
  <2>10. Elems(s) = Elems(stream) \cup {o}
    BY <1>1, <2>7, ElemsAppend
  <2>11. \A op \in Elems(s) : OpFits(op)' /\ OpDefers(op)'
    BY <1>2, <2>10
  <2> QED BY <2>1, <2>7, <2>9, <2>11 DEF StreamInv, Elems
<1> QED BY <1>3, <1>4

\* A step after which nothing is in the stream.
LEMMA EmptyChains ==
    ASSUME stream' = <<>>
    PROVE  StreamInv'
BY DEF StreamInv, Chained, Elems

\* A step that has to do with neither the stream nor what the host does next.
LEMMA ChainsStay ==
    ASSUME PipelineInv, setup' = setup, HostCur' = HostCur, UNCHANGED <<stream, deferrals>>
    PROVE  StreamInv'
<1> USE DEF PipelineInv
<1>1. \A op \in Elems(stream) : OpFits(op)' /\ OpDefers(op)'
  BY StreamOpsStay
<1>2. Chained(stream, HostCur)'
  <2>1. PICK e : e = HostCur
    OBVIOUS
  <2>2. HostCur' = e
    BY <2>1
  <2>3. Chained(stream, e)
    BY <2>1 DEF StreamInv
  <2> QED BY <2>2, <2>3, ChainNow
<1> QED BY <1>1, <1>2 DEF StreamInv, Elems

\* The host begins a pass: the operations before it are of earlier passes.
LEMMA BeginChains ==
    ASSUME PipelineInv, Next, NEW b \in BatchSizes, NEW c \in BOOLEAN, Begin(b, c)
    PROVE  StreamInv'
<1> USE DEF PipelineInv
<1>1. host = Idle /\ UNCHANGED <<stream, deferrals>> /\ stream \in Seq(OpType)
      /\ host' = [at |-> "prepare", pass |-> passes + 1, layer |-> 0, size |-> b, buf |-> 0,
                 evicting |-> 0, capturing |-> c]
  BY DEF Begin, At, hist, Idle, Typed, HostTyped, WorkTyped
<1>2. \A op \in Elems(stream) : OpFits(op)' /\ OpDefers(op)'
  BY <1>1, StreamOpsStay, SetupStays
<1>3. PICK e : e = HostCur'
  OBVIOUS
<1>4. HostCur.what = "idle" /\ (e.what = "idle" \/ (e.what = "in" /\ e.layer = 0 /\ e.pass = passes + 1))
  BY <1>1, <1>3 DEF HostCur, HostOp, IdleOp, Idle
<1>5. Chained(stream, e)
  <2>1. CASE e.what = "idle"
    BY <1>1, <1>4, <2>1, FollowsIdle, ChainEnd DEF StreamInv
  <2>2. CASE e.what # "idle"
    <3>1. CASE stream = <<>>
      BY <3>1 DEF Chained
    <3>2. CASE stream # <<>>
      <4>1. PICK n \in 1 .. Len(stream) : n = Len(stream)
        BY <1>1, <3>2, LenProperties, EmptySeq
      <4>2. stream[n] \in OpType /\ stream[n].pass <= passes /\ passes \in Nat
        BY <1>1, LenProperties, ElementOfSeq, Facts DEF Typed, WorkTyped
      <4>3. Follows(stream[n], HostCur)
        BY <3>2, <4>1 DEF StreamInv, Chained
      <4>4. stream[n].what = "out" /\ stream[n].layer = Layers - 1
        BY <1>4, <4>3, FollowsIdle
      <4>5. e.pass > stream[n].pass
        BY <1>4, <2>2, <4>2, Facts DEF OpType
      <4>6. Follows(stream[n], e)
        BY <1>4, <2>2, <4>4, <4>5 DEF Follows
      <4> QED BY <4>1, <4>6 DEF StreamInv, Chained
    <3> QED BY <3>1, <3>2
  <2> QED BY <2>1, <2>2
<1>6. Chained(stream, HostCur)'
  BY <1>1, <1>3, <1>5, SetupStays, ChainNow
<1> QED BY <1>1, <1>2, <1>6 DEF StreamInv, Elems

\* What the stream does next when an operation is done.
LEMMA StreamNexts ==
    ASSUME PipelineInv, Next, StreamStep \/ PinnedRaises
    PROVE  StreamInv'
<1> USE DEF PipelineInv
<1>1. PICK op : op = Head(stream)
  BY SMTT(30)
<1>2. stream # <<>> /\ op \in OpType /\ host' = host /\ stream \in Seq(OpType)
  BY <1>1, OpAt DEF StreamStep, PinnedRaises, Typed, WorkTyped
<1>3. PICK tl \in Seq(OpType) : tl = Tail(stream)
  BY <1>2, OpAt
<1>4. Elems(tl) \subseteq Elems(stream) /\ op \in Elems(stream)
  BY <1>1, <1>2, <1>3, ElemsTail
<1>5. PICK e : e = HostCur
  OBVIOUS
<1>6. HostCur' = e
  BY <1>2, <1>5 DEF HostCur, HostOp
<1>7. Chained(stream, e)
  BY <1>5 DEF StreamInv
<1>8. /\ Chained(tl, e)
      /\ IF tl = <<>> THEN Follows(op, e) ELSE Follows(op, tl[1])
  BY <1>1, <1>2, <1>3, <1>7, ChainTail
<1>9. \A a \in Elems(stream) : OpFits(a)'
  BY OpFitsStays, SetupStays DEF StreamInv
<1>10. ASSUME NEW a \in Elems(tl) PROVE a.what # "wait"
  <2>1. PICK i \in 1 .. Len(stream) - 1 : a = stream[i + 1]
    BY <1>1, <1>2, <1>3, <1>10, OpAt DEF Elems
  <2>2. Follows(stream[i], a)
    BY <2>1 DEF StreamInv, Chained
  <2> QED BY <2>2 DEF Follows, Step
<1>11. CASE stream' = tl /\ deferrals' = deferrals
  <2>1. \A a \in Elems(stream) : OpFits(a)' /\ OpDefers(a)'
    BY <1>11, StreamOpsStay, SetupStays
  <2>2. Chained(stream, HostCur)'
    BY <1>6, <1>8, <1>11, SetupStays, ChainNow
  <2> QED BY <1>4, <1>11, <2>1, <2>2 DEF StreamInv, Elems
<1>12. CASE op.what = "pinned" /\ ~PinnedRaises
  <2>1. PICK later \in BOOLEAN :
          /\ deferrals' = IF later THEN deferrals \cup {<<op.pass, op.layer>>} ELSE deferrals
          /\ stream' = <<[op EXCEPT !.what = "wait", !.allow = AllowPending(later)]>> \o Tail(stream)
    BY <1>1, <1>2, <1>12, NoHang DEF StreamStep
  <2>2. PICK w \in OpType : w = [op EXCEPT !.what = "wait", !.allow = AllowPending(later)]
    BY <1>2 DEF OpType, Whats, AllowPending
  <2>3. w.what = "wait" /\ w.allow = AllowPending(later) /\ w.pass = op.pass /\ w.layer = op.layer
        /\ w.buf = op.buf
    BY <1>2, <2>2 DEF OpType
  <2>4. \A x : Follows(op, x) => Follows(w, x)
    BY <1>12, <2>3 DEF Follows, Step
  <2>5. PICK s : s = <<w>> \o tl
    OBVIOUS
  <2>6. Chained(s, e)
    <3>1. IF tl = <<>> THEN Follows(w, e) ELSE Follows(w, tl[1])
      BY <1>8, <2>4
    <3> QED BY <1>8, <2>5, <3>1, ChainCons
  <2>7. stream' = s
    BY <1>3, <2>1, <2>2, <2>5
  <2>8. Chained(stream, HostCur)'
    BY <1>6, <2>6, <2>7, SetupStays, ChainNow
  <2>9. Elems(s) = {w} \cup Elems(tl)
    <3>1. PICK f : f = <<w>>
      OBVIOUS
    <3>2. f \in Seq(OpType) /\ DOMAIN f = {1} /\ f[1] = w
      BY <3>1
    <3>3. Elems(f) = {w}
      BY <3>2 DEF Elems
    <3>4. Elems(f \o tl) = Elems(f) \cup Elems(tl)
      BY <3>2, ElemsConcat
    <3> QED BY <2>5, <3>1, <3>3, <3>4
  <2>10. Path = "pinned"
    BY <1>4, <1>12 DEF StreamInv, OpFits, PathWhats
  <2>11. OpFits(w)' /\ OpDefers(w)'
    <3>1. OpFits(w)
      BY <2>3, <2>10 DEF OpFits, PathWhats
    <3>2. w.allow = IF Defers(w.pass, w.layer)' THEN 1 ELSE 0
      <4>1. CASE later
        BY <2>1, <2>3, <4>1 DEF AllowPending, Defers
      <4>2. CASE ~later
        <5>1. ~Defers(op.pass, op.layer)
          <6>1. FlagFits(op)
            BY <1>1, <1>2, <2>10 DEF FlagInv, Front, Cur
          <6>2. op.layer \in LayerSet
            BY <1>2 DEF OpType
          <6>3. ~Passed(op.layer, op)
            BY <1>12, <6>2, Facts DEF Passed, Submitted
          <6> QED BY <1>12, <6>1, <6>2, <6>3 DEF FlagFits
        <5> QED BY <2>1, <2>3, <4>2, <5>1 DEF AllowPending, Defers
      <4> QED BY <4>1, <4>2
    <3>3. Path' = "pinned"
      BY <2>10, SetupStays, SetupSame
    <3> QED BY <2>3, <3>1, <3>2, <3>3, OpFitsStays, SetupStays DEF OpDefers, AllDefer, Defers
  <2>12. \A a \in Elems(tl) : OpFits(a)' /\ OpDefers(a)'
    <3>1. \A a \in Elems(tl) : OpFits(a) /\ OpDefers(a) /\ a.what # "wait"
      BY <1>4, <1>10 DEF StreamInv
    <3>2. deferrals \subseteq deferrals'
      BY <2>1
    <3> QED BY <3>1, <3>2, OpFitsStays, OpDefersStays, SetupStays
  <2>13. \A a \in Elems(s) : OpFits(a)' /\ OpDefers(a)'
    BY <2>9, <2>11, <2>12
  <2> QED BY <2>7, <2>8, <2>13 DEF StreamInv, Elems
<1> QED BY <1>1, <1>3, <1>11, <1>12 DEF StreamStep, PinnedRaises

\* A graph is a whole pass: it comes after everything else, and after it the
\* host is still idle.
LEMMA ReplayChains ==
    ASSUME PipelineInv, Next, NEW b \in BatchSizes, Replay(b)
    PROVE  StreamInv'
<1> USE DEF PipelineInv
<1>1. PICK g, again : IsAgain(b, g, again)
  BY Again
<1>2. /\ g \in Seq(OpType) /\ again \in Seq(OpType) /\ g = graphs[b] /\ again # <<>> /\ g # <<>>
      /\ DOMAIN again = 1 .. Len(g) /\ DOMAIN g = 1 .. Len(g) /\ Len(again) = Len(g) /\ Len(g) \in Nat \ {0}
      /\ stream' = stream \o again
      /\ deferrals' = deferrals \cup
         {<<passes + 1, again[i].layer>> : i \in {j \in DOMAIN again : again[j].what = "later"}}
  BY <1>1 DEF IsAgain
<1>3. \A i \in 1 .. Len(g) :
         /\ g[i] \in OpType /\ again[i] \in OpType
         /\ again[i].what = g[i].what /\ again[i].buf = g[i].buf
         /\ again[i].layer = g[i].layer /\ again[i].allow = g[i].allow
         /\ again[i].incremental = g[i].incremental
         /\ again[i].pass = passes + 1
  BY <1>1 DEF IsAgain
<1>4. host = Idle /\ host' = host /\ stream \in Seq(OpType)
  BY DEF Replay, At, Typed, HostTyped, WorkTyped
<1>5. GraphFits(b) /\ ~Capturing(b)
  BY <1>4 DEF GraphInv, Capturing, Idle
<1>6. /\ \A i, j \in DOMAIN g : g[i].pass = g[j].pass
      /\ \A op \in Elems(g) : OpFits(op) /\ op.what # "wait"
      /\ Chained(g, IdleOp) /\ g[1].what = "in" /\ g[1].layer = 0
      /\ Path = "stream" => \A k \in Deferring : GraphDefers(b, k)
  BY <1>2, <1>5 DEF GraphFits
<1>7. PICK e : e = HostCur
  OBVIOUS
<1>8. e.what = "idle" /\ HostCur' = e
  BY <1>4, <1>7 DEF HostCur, HostOp, Idle
<1>9. Chained(again, e)
  <2>1. ASSUME NEW i \in 1 .. Len(again) - 1 PROVE Follows(again[i], again[i + 1])
    <3>1. i \in 1 .. Len(g) /\ i + 1 \in 1 .. Len(g)
      BY <1>2
    <3>2. Follows(g[i], g[i + 1])
      BY <1>2, <1>6, <2>1 DEF Chained
    <3>3. g[i].pass = g[i + 1].pass
      BY <1>2, <1>6, <3>1
    <3>4. g[i + 1].what # "idle" /\ g[i].pass \in Nat
      <4>1. \A x \in OpType : x.what # "idle" /\ x.pass \in Nat
        BY Facts DEF OpType, Whats
      <4> QED BY <1>3, <3>1, <4>1
    <3> QED BY SMTT(30), <1>3, <3>1, <3>2, <3>3, <3>4 DEF Follows
  <2>2. Follows(again[Len(again)], e)
    <3>1. Len(g) \in 1 .. Len(g)
      BY <1>2
    <3>2. Follows(g[Len(g)], IdleOp)
      BY <1>2, <1>6 DEF Chained
    <3>3. g[Len(g)].what = "out" /\ g[Len(g)].layer = Layers - 1
      BY <3>2, FollowsIdle DEF IdleOp
    <3> QED BY SMTT(30), <1>2, <1>3, <1>8, <3>1, <3>3, FollowsIdle
  <2> QED BY <2>1, <2>2 DEF Chained
<1>10. Chained(stream, again[1])
  <2>1. 1 \in 1 .. Len(g) /\ again[1].what = "in" /\ again[1].layer = 0 /\ again[1].pass = passes + 1
    BY <1>2, <1>3, <1>6
  <2>2. CASE stream = <<>>
    BY <2>2 DEF Chained
  <2>3. CASE stream # <<>>
    <3>1. PICK n \in 1 .. Len(stream) : n = Len(stream)
      BY <1>4, <2>3, LenProperties, EmptySeq
    <3>2. stream[n] \in OpType /\ stream[n].pass <= passes /\ passes \in Nat
      BY <1>4, LenProperties, ElementOfSeq, Facts DEF Typed, WorkTyped
    <3>3. Follows(stream[n], e)
      BY <1>7, <2>3, <3>1 DEF StreamInv, Chained
    <3>4. stream[n].what = "out" /\ stream[n].layer = Layers - 1
      BY <1>8, <3>3, FollowsIdle
    <3>5. again[1].pass > stream[n].pass
      BY <2>1, <3>2, Facts DEF OpType
    <3>6. Follows(stream[n], again[1])
      BY <2>1, <3>4, <3>5 DEF Follows
    <3> QED BY <3>1, <3>6 DEF StreamInv, Chained
  <2> QED BY <2>2, <2>3
<1>11. PICK s : s = stream \o again
  OBVIOUS
<1>12. Chained(s, e)
  BY <1>2, <1>4, <1>9, <1>10, <1>11, ChainConcat
<1>13. Chained(stream, HostCur)'
  BY <1>2, <1>8, <1>11, <1>12, SetupStays, ChainNow
<1>14. Elems(s) = Elems(stream) \cup Elems(again)
  BY <1>2, <1>4, <1>11, ElemsConcat
<1>15. Path = "pinned" => deferrals' = deferrals
  <2>1. ASSUME NEW j \in DOMAIN again, Path = "pinned" PROVE again[j].what # "later"
    <3>1. g[j] \in Elems(g) /\ again[j].what = g[j].what
      BY <1>2, <1>3 DEF Elems
    <3> QED BY <1>6, <2>1, <3>1 DEF OpFits, PathWhats
  <2> QED BY <1>2, <2>1
<1>16. \A op \in Elems(stream) : OpFits(op)' /\ OpDefers(op)'
  BY <1>2, <1>15, StreamOpsStay, SetupStays
<1>17. ASSUME NEW op \in Elems(again) PROVE OpFits(op)' /\ OpDefers(op)'
  <2>1. PICK i \in 1 .. Len(g) : op = again[i]
    BY <1>2 DEF Elems
  <2>2. OpFits(g[i]) /\ g[i].what # "wait"
    BY <1>2, <1>6 DEF Elems
  <2>3. OpFits(op) /\ op.what # "wait" /\ op.pass = passes + 1
    BY <1>3, <2>1, <2>2 DEF OpFits
  <2>4. OpFits(op)'
    BY <2>3, OpFitsStays, SetupStays
  <2>5. op.what = "later" => Defers(op.pass, op.layer)'
    BY <1>2, <2>1, <2>3 DEF Defers
  <2>6. \A k \in Deferring : Path = "stream" => Defers(op.pass, k)'
    <3> SUFFICES ASSUME NEW k \in Deferring, Path = "stream" PROVE Defers(op.pass, k)'
      OBVIOUS
    <3>1. PICK j \in DOMAIN g : g[j].what = "later" /\ g[j].layer = k
      BY <1>2, <1>6 DEF GraphDefers
    <3>2. j \in DOMAIN again /\ again[j].what = "later" /\ again[j].layer = k
      BY <1>2, <1>3, <3>1
    <3> QED BY <1>2, <2>3, <3>2 DEF Defers
  <2>7. AllDefer(op)'
    BY <2>6, SetupStays, SetupSame DEF AllDefer, Defers
  <2> QED BY <2>3, <2>4, <2>5, <2>7 DEF OpDefers
<1>18. \A op \in Elems(s) : OpFits(op)' /\ OpDefers(op)'
  BY <1>14, <1>16, <1>17
<1> QED BY <1>2, <1>11, <1>13, <1>18 DEF StreamInv, Elems

\* The stream stays in order, whatever the step.
LEMMA StreamStays ==
    ASSUME PipelineInv, Next, ~lost'
    PROVE  StreamInv'
<1>1. ASSUME NEW bs \in SUBSET BatchSizes, SetCaptureBatchSizes(bs) PROVE StreamInv'
  BY <1>1, SetupStays, ChainsStay DEF SetCaptureBatchSizes, hist, HostCur, HostOp
<1>2. CASE RunTask \/ ClearBufferCache
  BY <1>2, SetupStays, ChainsStay DEF RunTask, ClearBufferCache, hist, HostCur, HostOp
<1>3. CASE HostStep
  <2>1. CASE HostDirect \/ HostGivesUp
    BY <2>1, EmptyChains DEF HostDirect, HostGivesUp
  <2>2. CASE HostRests
    BY <2>2, SetupStays, RestsSame, ChainsStay DEF HostRests
  <2> QED BY <1>3, <2>1, <2>2, HostSteps, HostMoveChains
<1> QED BY <1>1, <1>2, <1>3, StreamNexts, BeginChains, ReplayChains DEF Next

-----------------------------------------------------------------------------
(* The graphs.                                                             *)

\* A step that changes neither the graphs nor which of them is being captured.
LEMMA GraphStays ==
    ASSUME PipelineInv, Next, NEW b \in BatchSizes, graphs'[b] = graphs[b], ~Capturing(b), ~Capturing(b)'
    PROVE  GraphFits(b)'
<1> USE DEF PipelineInv
<1>1. GraphFits(b)
  BY DEF GraphInv
<1>2. PICK g : g = graphs[b] /\ g = graphs'[b]
  OBVIOUS
<1>3. \A op \in Elems(g) : OpFits(op)' /\ op.what # "wait"
  BY <1>1, <1>2, OpFitsStays, SetupStays DEF GraphFits
<1>4. Chained(g, IdleOp)
  BY <1>1, <1>2 DEF GraphFits
<1>5. Chained(g, IdleOp)'
  BY ZenonT(40), <1>4, SetupStays, SetupSame DEF Chained, Follows, Step, IdleOp
<1>6. \A i, j \in DOMAIN g : g[i].pass = g[j].pass
  BY <1>1, <1>2 DEF GraphFits
<1>7. g # <<>> => g[1].what = "in" /\ g[1].layer = 0
  BY <1>1, <1>2 DEF GraphFits
<1>8. Path' = "stream" => \A k \in Deferring' : g # <<>> => GraphDefers(b, k)'
  BY <1>1, <1>2, SetupStays, SetupSame DEF GraphFits, GraphDefers
<1> QED BY <1>2, <1>3, <1>5, <1>6, <1>7, <1>8 DEF GraphFits, Elems, Chained

\* The host captures one more operation.
LEMMA GraphGrows ==
    ASSUME PipelineInv, Next, NEW o, HostMove(o), host.capturing, NEW b \in BatchSizes, b = host.size
    PROVE  GraphFits(b)'
<1> USE DEF PipelineInv
<1>1. PICK g \in Seq(OpType) : g = graphs[b]
  BY DEF Typed, WorkTyped
<1>2. GraphFits(b) /\ Capturing(b) /\ o \in OpType /\ OpFits(o) /\ o.what # "wait"
  BY DEF GraphInv, Capturing, HostMove
<1>3. PICK r : r = Append(g, o)
  OBVIOUS
<1>4. graphs'[b] = r
  BY <1>1, <1>3 DEF HostMove, Typed, WorkTyped
<1>5. r \in Seq(OpType) /\ Len(r) = Len(g) + 1 /\ (\A i \in 1 .. Len(g) : r[i] = g[i]) /\ r[Len(g) + 1] = o
  BY <1>3, <1>2, AppendProperties
<1>6. /\ DOMAIN g = 1 .. Len(g) /\ Len(g) \in Nat /\ DOMAIN r = 1 .. Len(g) + 1
      /\ Len(g) + 1 \in DOMAIN r /\ \A i \in DOMAIN g : i \in DOMAIN r
  BY <1>5, LenProperties
<1>7. \A i \in DOMAIN g : g[i].pass = host.pass
  BY <1>1, <1>2 DEF GraphFits
<1>8. \A i \in DOMAIN r : r[i].pass = host.pass
  <2>1. o.pass = host.pass
    BY DEF HostMove
  <2>2. \A i \in DOMAIN r : i \in DOMAIN g \/ i = Len(g) + 1
    BY <1>6
  <2> QED BY <1>5, <1>6, <1>7, <2>1, <2>2
<1>9. \A op \in Elems(r) : OpFits(op)' /\ op.what # "wait"
  <2>1. Elems(r) = Elems(g) \cup {o}
    BY <1>2, <1>3, ElemsAppend
  <2> QED BY <1>1, <1>2, <2>1, OpFitsStays, SetupStays DEF GraphFits
<1>10. PICK h : h = HostOp
  OBVIOUS
<1>11. h.what = o.what /\ h.pass = o.pass /\ h.layer = o.layer
       /\ (h.buf = o.buf \/ (h.what = "in" /\ h.layer = 0))
  BY <1>10 DEF HostMove, HostOp
<1>12. Chained(g, o)
  <2>1. \A a \in OpType : Follows(a, h) => Follows(a, o)
    BY <1>11, FollowsSame
  <2> QED BY <1>1, <1>2, <1>10, <2>1, ChainEnd DEF GraphFits
<1>13. PICK e : e = HostOp'
  OBVIOUS
<1>14. Chained(r, e)
  BY <1>2, <1>3, <1>12, <1>13, ChainAppend DEF HostMove
<1>15. r[1].what = "in" /\ r[1].layer = 0 /\ r # <<>>
  <2>1. CASE g = <<>>
    <3>1. Len(g) = 0 /\ host.at = "prepare" /\ host.layer = 0
      BY <1>1, <1>2, <2>1, EmptySeq DEF GraphFits
    <3>2. o.what = "in" /\ o.layer = 0
      BY <3>1 DEF HostMove, HostOp
    <3>3. r[1] = o /\ Len(r) = 1
      BY <1>5, <3>1
    <3> QED BY <1>5, <3>2, <3>3, EmptySeq
  <2>2. CASE g # <<>>
    <3>1. 1 \in 1 .. Len(g) /\ Len(r) # 0
      BY <1>5, <1>6, <2>2, EmptySeq
    <3> QED BY <1>1, <1>2, <1>5, <2>2, <3>1, EmptySeq DEF GraphFits
  <2> QED BY <2>1, <2>2
<1>16. ASSUME NEW k \in Deferring, Path = "stream", GraphDefers(b, k) \/ (o.what = "later" /\ o.layer = k)
       PROVE  GraphDefers(b, k)'
  <2>1. \E i \in DOMAIN r : r[i].what = "later" /\ r[i].layer = k
    BY <1>1, <1>5, <1>6, <1>16 DEF GraphDefers
  <2> QED BY <1>4, <2>1 DEF GraphDefers
<1>17. ASSUME NEW k \in Deferring, Path = "stream", Passed(k, o) \/ (o.what = "later" /\ o.layer = k)
       PROVE  GraphDefers(b, k)'
  <2>1. Passed(k, o) => Passed(k, HostOp)
    BY <1>10, <1>11 DEF Passed, Submitted
  <2> QED BY <1>2, <1>16, <1>17, <2>1 DEF GraphFits
<1>18. Deferring' = Deferring /\ Path' = Path /\ Follows(o, e) /\ o.layer \in LayerSet
  BY <1>2, <1>13, SetupStays, SetupSame DEF HostMove, OpType
<1>19. CASE host' = Idle
  <2>1. ~Capturing(b)' /\ o.what = "out" /\ o.layer = Layers - 1
    <3>1. ~host'.capturing /\ host'.at = "idle"
      BY <1>19 DEF Idle
    <3> QED BY <3>1 DEF Capturing, HostMove
  <2>2. e.what = "idle"
    BY <1>13, <1>19 DEF HostOp, Idle
  <2>3. Chained(r, IdleOp)
    BY <1>5, <1>14, <2>2, FollowsIdle, ChainEnd DEF IdleOp
  <2>4. Chained(r, IdleOp)'
    BY <2>3, SetupStays, SetupSame DEF Chained, Follows, Step, IdleOp
  <2>5. \A k \in Deferring : Path = "stream" => GraphDefers(b, k)'
    <3>1. \A k \in Deferring : k < o.layer
      BY <2>1, Facts DEF SetupFacts
    <3> QED BY <1>17, <3>1 DEF Passed
  <2> QED BY <1>4, <1>6, <1>8, <1>9, <1>15, <1>18, <2>1, <2>4, <2>5 DEF GraphFits, Elems, Chained
<1>20. CASE host' # Idle
  <2>1. Capturing(b)' /\ host'.pass = host.pass
    BY <1>20 DEF HostMove, Capturing
  <2>2. Chained(graphs[b], HostOp)'
    <3>1. Chained(r, e)'
      BY <1>14, SetupStays, SetupSame DEF Chained, Follows, Step
    <3> QED BY <1>4, <1>13, <3>1 DEF Chained, Follows, Step
  <2>3. ASSUME NEW k \in Deferring, Path = "stream", Passed(k, HostOp)' PROVE GraphDefers(b, k)'
    <3>1. k < e.layer \/ (k = e.layer /\ e.what \in {"wait", "sync", "out"})
      BY <1>13, <2>3 DEF Passed, Submitted
    <3>2. k \in Nat /\ o.layer \in Nat /\ e.what # "idle"
      <4>1. host'.at # "idle"
        BY <1>20 DEF HostMove
      <4>2. e.what # "idle"
        BY <1>13, <4>1 DEF HostOp
      <4>3. \A l \in LayerSet : l \in Nat
        BY Facts
      <4> QED BY <1>18, <4>2, <4>3, Facts
    <3>3. Passed(k, o) \/ (o.what = "later" /\ o.layer = k)
      <4>1. k < o.layer \/ (k = o.layer /\ o.what \in {"later", "wait", "sync", "out"})
        <5>1. o.what \in {"in", "now", "later", "sync", "out"}
          BY <1>2, <2>3 DEF OpFits, PathWhats
        <5>2. CASE e.layer = o.layer /\ <<o.what, e.what>> \in Step(o.layer)
          BY <3>1, <3>2, <5>1, <5>2 DEF Step
        <5>3. CASE o.what = "out" /\ e.layer = o.layer + 1 /\ e.what = "in"
          BY <3>1, <3>2, <5>3
        <5>4. CASE e.what = "in" /\ e.layer = 0
          BY <3>1, <3>2, <5>4
        <5> QED BY <1>18, <3>2, <5>2, <5>3, <5>4 DEF Follows
      <4> QED BY <1>2, <4>1 DEF Passed, Submitted
    <3> QED BY <1>17, <2>3, <3>3
  <2> QED BY <1>4, <1>6, <1>8, <1>9, <1>15, <1>18, <2>1, <2>2, <2>3 DEF GraphFits, Elems
<1> QED BY <1>19, <1>20

\* The graphs stay as they are to be, whatever the step.
LEMMA GraphsStay ==
    ASSUME PipelineInv, Next, ~lost'
    PROVE  GraphInv'
<1> USE DEF PipelineInv
<1> SUFFICES ASSUME NEW b \in BatchSizes PROVE GraphFits(b)'
  BY DEF GraphInv
<1>1. ASSUME UNCHANGED <<graphs, host>> PROVE GraphFits(b)'
  <2>1. CASE ~Capturing(b)
    BY <1>1, <2>1, GraphStays DEF Capturing
  <2>2. CASE Capturing(b)
    <3>1. Capturing(b)' /\ HostOp' = HostOp
      BY <1>1, <2>2 DEF Capturing, HostOp
    <3>2. GraphFits(b)
      BY DEF GraphInv
    <3>3. \A op \in Elems(graphs[b]) : OpFits(op)' /\ op.what # "wait"
      BY <3>2, OpFitsStays, SetupStays DEF GraphFits
    <3>4. PICK h : h = HostOp
      OBVIOUS
    <3>5. Chained(graphs[b], h)
      BY <2>2, <3>2, <3>4 DEF GraphFits
    <3>6. PICK g : g = graphs[b]
      OBVIOUS
    <3>10. Chained(g, h)'
      BY ZenonT(40), <3>5, <3>6, SetupStays, SetupSame DEF Chained, Follows, Step
    <3>11. g = graphs'[b] /\ h = HostOp'
      BY <1>1, <3>1, <3>4, <3>6
    <3>7. Chained(graphs[b], HostOp)'
      BY <3>10, <3>11 DEF Chained, Follows, Step
    <3>8. Path' = Path /\ Deferring' = Deferring
      BY SetupStays, SetupSame
    <3>9. \A k \in Deferring : (GraphDefers(b, k)' <=> GraphDefers(b, k)) /\ (Passed(k, HostOp)' <=> Passed(k, HostOp))
      BY <1>1, <3>1 DEF GraphDefers, Passed, Submitted
    <3> QED BY <1>1, <2>2, <3>1, <3>2, <3>3, <3>7, <3>8, <3>9 DEF GraphFits, Elems
  <2> QED BY <2>1, <2>2
<1>2. CASE HostStep
  <2>1. CASE HostDirect \/ HostGivesUp
    <3>1. ~host.capturing /\ ~host'.capturing /\ UNCHANGED graphs
      BY <2>1, HostFields DEF HostDirect, HostGivesUp, Idle
    <3> QED BY <3>1, GraphStays DEF Capturing
  <2>3. CASE HostRests
    <3>1. ~host.capturing /\ ~host'.capturing /\ UNCHANGED graphs
      BY <2>3, RestsSame DEF HostRests
    <3> QED BY <3>1, GraphStays DEF Capturing
  <2>2. ASSUME NEW o, HostMove(o) PROVE GraphFits(b)'
    <3>1. CASE ~host.capturing
      <4>1. ~host'.capturing /\ UNCHANGED graphs
        BY <2>2, <3>1 DEF HostMove, Idle
      <4> QED BY <3>1, <4>1, GraphStays DEF Capturing
    <3>2. CASE host.capturing /\ b = host.size
      BY <2>2, <3>2, GraphGrows
    <3>3. CASE host.capturing /\ b # host.size
      <4>1. ~Capturing(b) /\ ~Capturing(b)'
        <5>1. host' = Idle \/ host'.size = host.size
          BY <2>2 DEF HostMove
        <5>2. host' = Idle => ~host'.capturing
          BY DEF Idle
        <5> QED BY <3>3, <5>1, <5>2 DEF Capturing
      <4>2. graphs'[b] = graphs[b]
        BY <2>2, <3>3 DEF HostMove, Typed, WorkTyped
      <4> QED BY <4>1, <4>2, GraphStays
    <3> QED BY <3>1, <3>2, <3>3
  <2> QED BY <1>2, <2>1, <2>2, <2>3, HostSteps
<1>3. ASSUME NEW a \in BatchSizes, NEW c \in BOOLEAN, Begin(a, c) PROVE GraphFits(b)'
  <2>1. ~Capturing(b) /\ UNCHANGED graphs
    BY <1>3 DEF Begin, At, Typed, HostTyped, Idle, Capturing
  <2>2. CASE ~Capturing(b)'
    BY <2>1, <2>2, GraphStays
  <2>3. CASE Capturing(b)'
    <3>1. graphs'[b] = <<>> /\ host'.at = "prepare" /\ host'.layer = 0
      BY <1>3, <2>3 DEF Begin, Capturing, Idle
    <3>2. \A k \in Deferring' : ~Passed(k, HostOp)'
      BY SMTT(30), <3>1, Facts, SetupStays, SetupSame DEF Passed, Submitted, HostOp, SetupFacts
    <3> QED BY <2>3, <3>1, <3>2 DEF GraphFits, Elems, Chained
  <2> QED BY <2>2, <2>3
<1>4. CASE StreamStep \/ PinnedRaises \/ RunTask \/ ClearBufferCache
           \/ \E bs \in SUBSET BatchSizes : SetCaptureBatchSizes(bs)
  BY <1>1, <1>4 DEF StreamStep, PinnedRaises, RunTask, ClearBufferCache, SetCaptureBatchSizes
<1>5. ASSUME NEW a \in BatchSizes, Replay(a) PROVE GraphFits(b)'
  BY <1>1, <1>5 DEF Replay
<1> QED BY <1>2, <1>3, <1>4, <1>5 DEF Next

-----------------------------------------------------------------------------
(* The operation whose turn it is.                                         *)

\* The first one of a sequence that grows at its end.
LEMMA HeadStays ==
    ASSUME NEW S, NEW s \in Seq(S), s # <<>>, NEW t \in Seq(S)
    PROVE  /\ s \o t # <<>> /\ Head(s \o t) = Head(s)
           /\ \A e \in S : Append(s, e) # <<>> /\ Head(Append(s, e)) = Head(s)
<1>1. Len(s) \in Nat \ {0} /\ Len(t) \in Nat /\ Head(s) = s[1] /\ 1 \in 1 .. Len(s)
  BY LenProperties, EmptySeq
<1>2. PICK r : r = s \o t
  OBVIOUS
<1>3. r \in Seq(S) /\ Len(r) = Len(s) + Len(t) /\ r[1] = s[1]
  <2>1. /\ r \in Seq(S) /\ Len(r) = Len(s) + Len(t)
        /\ \A i \in 1 .. Len(s) + Len(t) : r[i] = IF i <= Len(s) THEN s[i] ELSE t[i - Len(s)]
    BY <1>2, ConcatProperties
  <2>2. 1 \in 1 .. Len(s) + Len(t) /\ 1 <= Len(s)
    BY <1>1
  <2> QED BY <2>1, <2>2
<1>4. r # <<>> /\ Head(r) = r[1]
  BY <1>1, <1>3, EmptySeq
<1>5. ASSUME NEW e \in S PROVE Append(s, e) # <<>> /\ Head(Append(s, e)) = Head(s)
  <2>1. PICK a : a = Append(s, e)
    OBVIOUS
  <2>2. a \in Seq(S) /\ Len(a) = Len(s) + 1 /\ a[1] = s[1]
    BY <1>1, <2>1, AppendProperties
  <2> QED BY <1>1, <2>1, <2>2, EmptySeq
<1> QED BY <1>1, <1>2, <1>3, <1>4, <1>5

\* The first one of a sequence of one.
LEMMA HeadNew ==
    ASSUME NEW S, NEW e \in S
    PROVE  Append(<<>>, e) # <<>> /\ Head(Append(<<>>, e)) = e
<1>1. PICK a : a = Append(<<>>, e)
  OBVIOUS
<1>2. a \in Seq(S) /\ Len(a) = 1 /\ a[1] = e
  BY <1>1, AppendProperties, EmptySeq
<1> QED BY <1>1, <1>2, EmptySeq

\* The turn when the host enqueues its operation.
LEMMA HostMoveTurn ==
    ASSUME PipelineInv, Next, NEW o, HostMove(o)
    PROVE  \/ stream # <<>> /\ Cur' = Cur
           \/ stream = <<>> /\ ~host.capturing /\ Cur = HostOp /\ Cur' = o
           \/ stream = <<>> /\ host.capturing /\ Cur.what = "idle" /\ Cur'.what = "idle"
<1>1. stream \in Seq(OpType) /\ o \in OpType /\ (stream' = stream \/ stream' = Append(stream, o))
  BY DEF PipelineInv, Typed, WorkTyped, HostMove
<1>2. CASE stream # <<>>
  <2>1. stream' # <<>> /\ Head(stream') = Head(stream)
    BY <1>1, <1>2, HeadStays
  <2> QED BY <1>2, <2>1 DEF Cur
<1>3. CASE stream = <<>> /\ ~host.capturing
  <2>1. stream' = Append(<<>>, o)
    BY <1>3 DEF HostMove
  <2>2. stream' # <<>> /\ Head(stream') = o
    BY <1>1, <2>1, HeadNew
  <2> QED BY <1>3, <2>2 DEF Cur, HostCur
<1>4. CASE stream = <<>> /\ host.capturing
  <2>1. stream' = <<>>
    BY <1>4 DEF HostMove
  <2>2. host' = Idle \/ host'.capturing
    BY <1>4 DEF HostMove
  <2>3. host' = Idle => HostCur'.what = "idle"
    BY DEF HostCur, HostOp, IdleOp, Idle
  <2>4. host'.capturing => HostCur'.what = "idle"
    BY DEF HostCur, IdleOp
  <2> QED BY <1>4, <2>1, <2>2, <2>3, <2>4 DEF Cur, HostCur, IdleOp
<1> QED BY <1>2, <1>3, <1>4

\* The turn when the stream is done with an operation.
LEMMA StreamTurn ==
    ASSUME PipelineInv, stream # <<>>, stream' = Tail(stream), host' = host
    PROVE  Follows(Cur, Cur') /\ Cur = Head(stream)
<1> USE DEF PipelineInv
<1>1. stream \in Seq(OpType)
  BY DEF Typed, WorkTyped
<1>2. PICK tl \in Seq(OpType) : tl = Tail(stream)
  BY OpAt
<1>3. PICK e : e = HostCur
  OBVIOUS
<1>4. IF tl = <<>> THEN Follows(Head(stream), e) ELSE Follows(Head(stream), tl[1])
  BY <1>1, <1>2, <1>3, ChainTail DEF StreamInv
<1>5. Cur' = IF tl = <<>> THEN e ELSE tl[1]
  <2>1. HostCur' = e
    BY <1>3 DEF HostCur, HostOp
  <2>2. tl # <<>> => Head(tl) = tl[1]
    OBVIOUS
  <2> QED BY <1>2, <2>1, <2>2 DEF Cur
<1>6. PICK c : c = Cur'
  OBVIOUS
<1>7. Follows(Head(stream), c)
  BY <1>4, <1>5, <1>6
<1> QED BY <1>6, <1>7 DEF Cur

\* The turn when a pass begins.
LEMMA FirstTurn ==
    ASSUME PipelineInv, Next, NEW b \in BatchSizes,
           Replay(b) \/ \E c \in BOOLEAN : Begin(b, c)
    PROVE  \/ stream # <<>> /\ Cur' = Cur
           \/ stream = <<>> /\ Cur.what = "idle" /\ Cur'.what = "idle"
           \/ stream = <<>> /\ Cur.what = "idle"
              /\ Cur'.what = "in" /\ Cur'.layer = 0 /\ Cur'.pass = passes + 1
<1> USE DEF PipelineInv
<1>1. host = Idle /\ stream \in Seq(OpType)
  BY DEF Replay, Begin, At, Typed, HostTyped, WorkTyped
<1>2. HostCur.what = "idle"
  BY <1>1 DEF HostCur, HostOp, Idle
<1>3. CASE \E c \in BOOLEAN : Begin(b, c)
  <2>1. PICK c \in BOOLEAN : Begin(b, c)
    BY <1>3
  <2>2. stream' = stream /\ host' = [at |-> "prepare", pass |-> passes + 1, layer |-> 0, size |-> b,
                                     buf |-> 0, evicting |-> 0, capturing |-> c]
    BY <2>1 DEF Begin, Idle
  <2>3. IF c THEN HostCur'.what = "idle"
        ELSE HostCur'.what = "in" /\ HostCur'.layer = 0 /\ HostCur'.pass = passes + 1
    BY <2>2 DEF HostCur, HostOp, IdleOp
  <2> QED BY <1>2, <2>2, <2>3 DEF Cur
<1>4. CASE Replay(b)
  <2>1. PICK g, again : IsAgain(b, g, again)
    BY <1>4, Again
  <2>2. /\ again \in Seq(OpType) /\ again # <<>> /\ g = graphs[b] /\ g # <<>> /\ Len(g) \in Nat \ {0}
        /\ stream' = stream \o again
        /\ again[1].what = g[1].what /\ again[1].layer = g[1].layer /\ again[1].pass = passes + 1
    <3>1. \A n \in Nat \ {0} : 1 \in 1 .. n
      OBVIOUS
    <3> QED BY <2>1, <3>1 DEF IsAgain
  <2>3. g[1].what = "in" /\ g[1].layer = 0
    BY <2>2 DEF GraphInv, GraphFits
  <2>4. CASE stream # <<>>
    <3>1. stream' # <<>> /\ Head(stream') = Head(stream)
      BY <1>1, <2>2, <2>4, HeadStays
    <3> QED BY <2>4, <3>1 DEF Cur
  <2>5. CASE stream = <<>>
    <3>1. stream' = again
      BY <2>2, <2>5, ConcatEmptySeq
    <3>2. Head(again) = again[1]
      BY <2>2
    <3> QED BY <1>2, <2>2, <2>3, <2>5, <3>1, <3>2 DEF Cur
  <2> QED BY <2>4, <2>5
<1> QED BY <1>3, <1>4

\* What the turn is.
LEMMA TurnTyped ==
    ASSUME PipelineInv
    PROVE  /\ Cur.what # "idle" => Cur.layer \in LayerSet /\ Cur.pass \in Passes /\ Cur.pass <= passes
           /\ HostOp.what # "idle" => HostOp.layer \in LayerSet /\ HostOp.pass \in Passes
                                      /\ HostOp.pass <= passes
<1> USE DEF PipelineInv
<1>1. HostOp.what # "idle" => HostOp.layer \in LayerSet /\ HostOp.pass \in Passes /\ HostOp.pass <= passes
  BY HostSize, HostFields DEF HostOp, Typed, HostTyped
<1>2. CASE stream # <<>>
  BY <1>1, <1>2, OpAt DEF Cur, OpType
<1>3. CASE stream = <<>>
  BY <1>1, <1>3 DEF Cur, HostCur, IdleOp
<1> QED BY <1>1, <1>2, <1>3

\* The turn when run_pinned_forward_sync has submitted: the wait is next.
LEMMA PinnedTurn ==
    ASSUME PipelineInv, NEW x, x = Head(stream), stream # <<>>, x.what = "pinned", StreamStep
    PROVE  \E u \in Buffers, later \in BOOLEAN :
             /\ GetBuffer(x.size, u) /\ (later => x.layer \in Deferring)
             /\ IF later
                THEN queue' = Append(Append(queue, Immediate(u, x.pass, x.layer)), Deferred(u, x.pass, x.layer))
                ELSE queue' = Append(queue, Immediate(u, x.pass, x.layer))
             /\ pending_deferred' = [pending_deferred EXCEPT ![x.layer] = later]
             /\ deferrals' = IF later THEN deferrals \cup {<<x.pass, x.layer>>} ELSE deferrals
             /\ Cur'.what = "wait" /\ Cur'.pass = x.pass /\ Cur'.layer = x.layer /\ Cur'.buf = x.buf
             /\ UNCHANGED <<input, output, spoiled, passes>>
<1> USE DEF PipelineInv
<1>1. x \in OpType
  BY OpAt
<1>2. PICK u \in Buffers, later \in BOOLEAN :
        /\ GetBuffer(x.size, u) /\ (later => x.layer \in Deferring)
        /\ queue' = queue \o <<Immediate(u, x.pass, x.layer)>> \o
                      (IF later THEN <<Deferred(u, x.pass, x.layer)>> ELSE <<>>)
        /\ pending_deferred' = [pending_deferred EXCEPT ![x.layer] = later]
        /\ deferrals' = IF later THEN deferrals \cup {<<x.pass, x.layer>>} ELSE deferrals
        /\ stream' = <<[x EXCEPT !.what = "wait", !.allow = AllowPending(later)]>> \o Tail(stream)
        /\ UNCHANGED <<input, output, spoiled, passes>>
  BY NoHang DEF StreamStep, memory
<1>3. PICK w \in OpType : w = [x EXCEPT !.what = "wait", !.allow = AllowPending(later)]
  BY <1>1 DEF OpType, Whats, AllowPending
<1>4. Cur' = w
  <2>1. PICK tl \in Seq(OpType) : tl = Tail(stream)
    BY OpAt
  <2>2. PICK f \in Seq(OpType) : f = <<w>> /\ f # <<>> /\ Head(f) = w
    <3>1. PICK f : f = <<w>>
      OBVIOUS
    <3>2. f \in Seq(OpType) /\ Len(f) = 1 /\ f[1] = w
      BY <3>1, <1>3
    <3>3. Len(f) # 0
      BY <3>2
    <3>4. f # <<>>
      BY <3>3, EmptySeq
    <3>5. Head(f) = f[1]
      OBVIOUS
    <3> QED BY <3>1, <3>2, <3>4, <3>5
  <2>3. f \o tl # <<>> /\ Head(f \o tl) = w
    BY <2>2, HeadStays
  <2> QED BY <1>2, <1>3, <2>1, <2>2, <2>3 DEF Cur
<1>5. w.what = "wait" /\ w.pass = x.pass /\ w.layer = x.layer /\ w.buf = x.buf
  BY <1>1, <1>3 DEF OpType
<1>6. IF later
      THEN queue' = Append(Append(queue, Immediate(u, x.pass, x.layer)), Deferred(u, x.pass, x.layer))
      ELSE queue' = Append(queue, Immediate(u, x.pass, x.layer))
  <2>1. x.pass \in Passes /\ x.layer \in LayerSet
    BY <1>1 DEF OpType
  <2> QED BY <1>2, <2>1, PinnedTasks
<1> QED BY <1>2, <1>4, <1>5, <1>6

-----------------------------------------------------------------------------
(* The flags.                                                              *)

\* A step that leaves them alone, and what is deferred.
LEMMA FlagsSame ==
    ASSUME setup' = setup, NEW x, NEW y, FlagFits(x),
           y.what = "idle" \/ (y.what = x.what /\ y.pass = x.pass /\ y.layer = x.layer),
           UNCHANGED <<pending_deferred, deferrals, passes>>, spoiled \subseteq spoiled'
    PROVE  FlagFits(y)'
<1>1. CASE y.what = "idle"
  BY <1>1 DEF FlagFits
<1>2. CASE y.what # "idle"
  BY <1>2, SetupSame DEF FlagFits, Defers, Passed, Submitted
<1> QED BY <1>1, <1>2

\* Passes begin.
LEMMA FlagsBegin ==
    ASSUME Typed, setup' = setup, NEW x, FlagFits(x), pending_deferred' = pending_deferred,
           x.what # "idle" => x.pass <= passes,
           passes' = passes + 1, spoiled' = spoiled,
           \A p, k : Defers(p, k)' => Defers(p, k) \/ (p = passes + 1 /\ Path # "pinned"),
           \A p, k : Defers(p, k) => Defers(p, k)'
    PROVE  FlagFits(x)'
<1>1. CASE x.what = "idle"
  BY <1>1 DEF FlagFits
<1>2. CASE x.what # "idle"
  <2>1. passes \in Nat /\ \A p, k : Defers(p, k) => p \in 1 .. passes
    BY Facts DEF Typed, FlagTyped, Defers
  <2>2. x.pass # passes + 1
    BY <1>2, <2>1
  <2>3. \A k : Defers(x.pass, k)' <=> Defers(x.pass, k)
    BY <2>2
  <2>4. \A q, k : Path = "pinned" /\ Defers(q, k)' => q \in 1 .. passes /\ Defers(q, k)
    BY <2>1
  <2> QED BY <1>2, <2>3, <2>4, SetupSame DEF FlagFits, Passed, Submitted
<1> QED BY <1>1, <1>2

\* The first operation of a pass.
LEMMA FlagsFirst ==
    ASSUME Typed, setup' = setup, NEW x, x.what = "in", x.layer = 0, x.pass = passes + 1,
           passes' = passes + 1, deferrals' = deferrals
    PROVE  FlagFits(x)'
<1>1. passes \in Nat /\ \A p, k : Defers(p, k)' => p \in 1 .. passes
  BY Facts DEF Typed, FlagTyped, Defers
<1>2. LayerSet' = LayerSet /\ \A k \in LayerSet : k # x.layer - 1 /\ k \in Nat
  BY Facts, SetupSame
<1>3. \A k : ~Defers(x.pass, k)'
  BY <1>1
<1>4. \A q \in 1 .. passes + 1 : q <= x.pass
  BY <1>1
<1> QED BY <1>2, <1>3, <1>4 DEF FlagFits, Submitted

\* One operation after another, when nothing is submitted.
LEMMA FlagsFollow ==
    ASSUME Typed, setup' = setup, NEW x, NEW y, FlagFits(x), x.what # "idle", Follows(x, y),
           x.layer \in LayerSet, x.pass \in Passes, y.what # "idle" => y.layer \in LayerSet /\ y.pass \in Passes,
           Path = "pinned" \/ x.pass = y.pass,
           \/ x.what \in {"in", "wait", "sync", "out"}
           \/ x.what = "pinned" /\ Path = "pinned" /\ x.pass \in spoiled',
           UNCHANGED <<pending_deferred, deferrals, passes>>, spoiled \subseteq spoiled'
    PROVE  FlagFits(y)'
<1>1. CASE y.what = "idle"
  BY <1>1 DEF FlagFits
<1>2. ASSUME y.what # "idle", y.pass = x.pass, y.layer = x.layer, <<x.what, y.what>> \in Step(x.layer)
      PROVE  FlagFits(y)'
  <2>1. \A k \in LayerSet : Passed(k, x) => Passed(k, y)
    BY <1>2 DEF Passed, Submitted, Step
  <2>2. \A k \in LayerSet : k = y.layer - 1 \/ (k = y.layer /\ (Submitted(y) \/ y.what = "later"))
          => k = x.layer - 1 \/ (k = x.layer /\ (Submitted(x) \/ x.what = "later"))
             \/ (Path = "pinned" /\ x.pass \in spoiled')
    BY <1>2 DEF Submitted, Step
  <2> QED BY <1>2, <2>1, <2>2, SetupSame DEF FlagFits, Defers, Passed, Submitted
<1>3. ASSUME x.what = "out", y.what = "in", y.pass = x.pass, y.layer = x.layer + 1
      PROVE  FlagFits(y)'
  <2>1. x.layer \in Int /\ \A k \in LayerSet : k \in Int
    BY Facts
  <2>2. \A k \in LayerSet : Passed(k, x) => Passed(k, y)
    BY <1>3, <2>1 DEF Passed
  <2>3. \A k \in LayerSet : k = y.layer - 1 \/ (k = y.layer /\ (Submitted(y) \/ y.what = "later"))
          => k = x.layer /\ Submitted(x)
    BY <1>3, <2>1 DEF Submitted
  <2> QED BY <1>3, <2>2, <2>3, SetupSame DEF FlagFits, Defers, Passed, Submitted
<1>4. ASSUME y.what = "in", y.layer = 0, y.pass > x.pass, Path = "pinned"
      PROVE  FlagFits(y)'
  <2>1. passes \in Nat /\ \A p, k : Defers(p, k) => p \in 1 .. passes /\ k \in LayerSet
    BY Facts DEF Typed, FlagTyped, Defers
  <2>2. x.pass \in Int /\ y.pass \in Int /\ \A k \in LayerSet : k # y.layer - 1
    BY <1>4, Facts
  <2>3. \A q, k : Defers(q, k) => q <= x.pass
    BY <1>4, <2>1 DEF FlagFits
  <2>4. \A k : ~Defers(y.pass, k)
    BY <1>4, <2>2, <2>3
  <2>5. \A q \in 1 .. passes, k \in LayerSet : Defers(q, k) => q <= y.pass
    BY <1>4, <2>2, <2>3
  <2> QED BY <1>4, <2>2, <2>4, <2>5, SetupSame DEF FlagFits, Defers, Submitted
<1>5. y.pass > x.pass /\ Path # "pinned" => FALSE
  BY Facts
<1> QED BY <1>1, <1>2, <1>3, <1>4, <1>5 DEF Follows

\* A layer's task for now is submitted by the host, and after it the deferred one.
LEMMA FlagsNow ==
    ASSUME Typed, setup' = setup, NEW x, NEW y, FlagFits(x), x.what = "now", Path # "pinned",
           y.what \in {"later", "sync"}, y.pass = x.pass, y.layer = x.layer, x.layer \in LayerSet,
           pending_deferred' = [pending_deferred EXCEPT ![x.layer] = FALSE], deferrals' = deferrals
    PROVE  FlagFits(y)'
<1>1. x.layer \in Int /\ (\A k \in LayerSet : k \in Int) /\ pending_deferred \in [LayerSet -> BOOLEAN]
      /\ x.layer # x.layer - 1
  BY Facts DEF Typed, FlagTyped
<1>2. \A k \in LayerSet : pending_deferred'[k] = IF k = x.layer THEN FALSE ELSE pending_deferred[k]
  BY <1>1
<1>3. ~Defers(x.pass, x.layer)
  BY <1>1 DEF FlagFits, Passed, Submitted
<1>4. \A k \in LayerSet : Defers(x.pass, k) => k < x.layer
  BY <1>1 DEF FlagFits, Passed, Submitted
<1>5. LayerSet' = LayerSet /\ Path' # "pinned" /\ \A k : Defers(y.pass, k)' <=> Defers(x.pass, k)
  BY SetupSame DEF Defers
<1>6. \A k \in LayerSet : Defers(y.pass, k)' => Passed(k, y)'
  BY <1>4, <1>5 DEF Passed
<1>7. \A k \in LayerSet : k = y.layer - 1 \/ k = y.layer => (pending_deferred'[k] <=> Defers(y.pass, k)')
  <2>1. \A k \in LayerSet : k = x.layer - 1 => (pending_deferred[k] <=> Defers(x.pass, k))
    BY DEF FlagFits
  <2> QED BY <1>1, <1>2, <1>3, <1>5, <2>1
<1> QED BY <1>5, <1>6, <1>7 DEF FlagFits

\* The deferred task is submitted by the host, or there is none.
LEMMA FlagsLater ==
    ASSUME Typed, setup' = setup, NEW x, NEW y, FlagFits(x), x.what = "later", Path # "pinned",
           y.what = "sync", y.pass = x.pass, y.layer = x.layer, x.layer \in LayerSet,
           \/ UNCHANGED <<pending_deferred, deferrals>>
           \/ /\ pending_deferred' = [pending_deferred EXCEPT ![x.layer] = TRUE]
              /\ deferrals' = deferrals \cup {<<x.pass, x.layer>>}
    PROVE  FlagFits(y)'
<1>1. x.layer \in Int /\ (\A k \in LayerSet : k \in Int) /\ pending_deferred \in [LayerSet -> BOOLEAN]
      /\ x.layer # x.layer - 1
  BY SMTT(30), Facts DEF Typed, FlagTyped
<1>2. LayerSet' = LayerSet /\ Path' # "pinned"
  BY SetupSame
<1>3. \A k \in LayerSet : Defers(y.pass, k)' => Defers(x.pass, k) \/ k = x.layer
  BY DEF Defers
<1>4. \A k \in LayerSet : Defers(y.pass, k)' => Passed(k, y)'
  BY <1>3 DEF FlagFits, Passed, Submitted
<1>5. \A k \in LayerSet : k = x.layer - 1 \/ k = x.layer => (pending_deferred[k] <=> Defers(x.pass, k))
  BY DEF FlagFits
<1>6. \A k \in LayerSet : k = y.layer - 1 \/ k = y.layer => (pending_deferred'[k] <=> Defers(y.pass, k)')
  <2>1. CASE UNCHANGED <<pending_deferred, deferrals>>
    BY <1>5, <2>1 DEF Defers
  <2>2. CASE /\ pending_deferred' = [pending_deferred EXCEPT ![x.layer] = TRUE]
             /\ deferrals' = deferrals \cup {<<x.pass, x.layer>>}
    <3>1. \A k \in LayerSet : pending_deferred'[k] = IF k = x.layer THEN TRUE ELSE pending_deferred[k]
      BY <1>1, <2>2
    <3>2. \A k : Defers(y.pass, k)' <=> (Defers(x.pass, k) \/ k = x.layer)
      BY <2>2 DEF Defers
    <3> QED BY <1>1, <1>5, <3>1, <3>2
  <2> QED BY <2>1, <2>2
<1> QED BY <1>2, <1>4, <1>6 DEF FlagFits

\* run_pinned_forward_sync submits both.
LEMMA FlagsPinned ==
    ASSUME Typed, setup' = setup, NEW x, NEW y, FlagFits(x), x.what = "pinned", NEW later \in BOOLEAN,
           y.what = "wait", y.pass = x.pass, y.layer = x.layer, x.layer \in LayerSet, x.pass \in Passes,
           pending_deferred' = [pending_deferred EXCEPT ![x.layer] = later],
           deferrals' = IF later THEN deferrals \cup {<<x.pass, x.layer>>} ELSE deferrals,
           UNCHANGED <<passes, spoiled>>
    PROVE  FlagFits(y)'
<1>1. x.layer \in Int /\ (\A k \in LayerSet : k \in Int) /\ pending_deferred \in [LayerSet -> BOOLEAN]
      /\ x.layer # x.layer - 1 /\ x.pass \in Int
  BY Facts DEF Typed, FlagTyped
<1>2. LayerSet' = LayerSet /\ Path' = Path
  BY SetupSame
<1>3. \A p, k : Defers(p, k)' <=> (Defers(p, k) \/ (later /\ p = x.pass /\ k = x.layer))
  BY DEF Defers
<1>4. ~Defers(x.pass, x.layer)
  BY <1>1 DEF FlagFits, Passed, Submitted
<1>5. \A k \in LayerSet : Defers(y.pass, k)' => Passed(k, y)'
  BY <1>3 DEF FlagFits, Passed, Submitted
<1>6. \A q \in 1 .. passes, k \in LayerSet : Path = "pinned" /\ Defers(q, k)' => q <= y.pass
  BY <1>1, <1>3 DEF FlagFits
<1>7. \A k \in LayerSet : pending_deferred'[k] = IF k = x.layer THEN later ELSE pending_deferred[k]
  BY <1>1
<1>8. ASSUME Path # "pinned" \/ y.pass \notin spoiled', NEW k \in LayerSet, k = y.layer - 1 \/ k = y.layer
      PROVE  pending_deferred'[k] <=> Defers(y.pass, k)'
  <2>1. CASE k = x.layer
    BY <1>3, <1>4, <1>7, <2>1
  <2>2. CASE k = x.layer - 1
    <3>1. pending_deferred[k] <=> Defers(x.pass, k)
      BY <1>8, <2>2 DEF FlagFits
    <3> QED BY <1>1, <1>3, <1>7, <2>2, <3>1
  <2> QED BY <1>8, <2>1, <2>2
<1> QED BY <1>2, <1>5, <1>6, <1>8 DEF FlagFits

\* A deferred task before an operation was before the one before it, or was it.
LEMMA PassedNext ==
    ASSUME Typed, Path = "stream", NEW o, NEW e, OpFits(o), Follows(o, e), e.what # "idle",
           o.layer \in LayerSet, NEW k \in Deferring, Passed(k, e)
    PROVE  Passed(k, o) \/ (o.what = "later" /\ o.layer = k)
<1>1. k \in Nat /\ o.layer \in Nat
  <2>1. \A l \in LayerSet : l \in Nat
    BY Facts
  <2> QED BY <2>1, Facts
<1>2. k < e.layer \/ (k = e.layer /\ e.what \in {"wait", "sync", "out"})
  BY DEF Passed, Submitted
<1>3. o.what \in {"in", "now", "later", "sync", "out"}
  BY DEF OpFits, PathWhats
<1>4. CASE e.layer = o.layer /\ <<o.what, e.what>> \in Step(o.layer)
  <2>1. k < o.layer \/ (k = o.layer /\ o.what \in {"later", "wait", "sync", "out"})
    BY <1>1, <1>2, <1>3, <1>4 DEF Step
  <2> QED BY <2>1 DEF Passed, Submitted
<1>5. CASE o.what = "out" /\ e.layer = o.layer + 1 /\ e.what = "in"
  BY <1>1, <1>2, <1>5 DEF Passed, Submitted
<1>6. CASE e.what = "in" /\ e.layer = 0
  BY <1>1, <1>2, <1>6
<1> QED BY <1>4, <1>5, <1>6 DEF Follows

\* Nothing that was to be deferred before the host's place is skipped.
LEMMA HostDefersStay ==
    ASSUME PipelineInv, Next, ~lost'
    PROVE  (host.at # "idle" => AllDefer(HostOp))'
<1> USE DEF PipelineInv
<1>0. Path' = Path /\ Deferring' = Deferring
  BY SetupStays, SetupSame
<1>1. CASE Path # "stream"
  BY <1>0, <1>1 DEF AllDefer
<1>2. ASSUME Path = "stream", UNCHANGED host, deferrals \subseteq deferrals'
      PROVE  (host.at # "idle" => AllDefer(HostOp))'
  <2>1. HostOp' = HostOp
    BY <1>2 DEF HostOp
  <2>2. host.at # "idle" => \A k \in Deferring : Passed(k, HostOp) => Defers(HostOp.pass, k)
    BY <1>2 DEF FlagInv, AllDefer
  <2>3. host.at # "idle" => \A k \in Deferring : Passed(k, HostOp)' => Defers(HostOp.pass, k)'
    BY <1>2, <2>1, <2>2 DEF Passed, Submitted, Defers
  <2> QED BY <1>0, <1>2, <2>3 DEF AllDefer
<1>3. CASE Path = "stream" /\ HostStep
  <2>1. CASE HostDirect
    BY <1>3, <2>1 DEF HostDirect
  <2>2. CASE host' = Idle
    BY <2>2 DEF Idle
  <2>4. CASE HostRests
    <3>1. HostOp' = HostOp /\ host'.at = host.at /\ deferrals' = deferrals
      BY <2>4, RestsSame DEF HostRests
    <3>2. host.at # "idle" => \A k \in Deferring : Passed(k, HostOp) => Defers(HostOp.pass, k)
      BY <1>3 DEF FlagInv, AllDefer
    <3>3. host.at # "idle" => \A k \in Deferring : Passed(k, HostOp)' => Defers(HostOp.pass, k)'
      BY <3>1, <3>2 DEF Passed, Submitted, Defers
    <3> QED BY <1>0, <3>1, <3>3 DEF AllDefer
  <2>3. ASSUME NEW o, HostMove(o), host' # Idle PROVE (host.at # "idle" => AllDefer(HostOp))'
    <3>1. PICK e : e = HostOp'
      OBVIOUS
    <3>2. /\ Follows(o, e) /\ e.what # "idle" /\ OpFits(o) /\ o.layer \in LayerSet
          /\ o.what = HostOp.what /\ o.layer = HostOp.layer /\ o.pass = HostOp.pass /\ e.pass = o.pass
      <4>1. host'.at # "idle" /\ host'.pass = host.pass
        BY <2>3 DEF HostMove
      <4>2. e.what # "idle" /\ e.pass = host.pass
        BY <3>1, <4>1 DEF HostOp
      <4> QED BY <2>3, <3>1, <4>2 DEF HostMove, HostOp, OpType
    <3>3. \A k \in Deferring : Passed(k, e) => Passed(k, o) \/ (o.what = "later" /\ o.layer = k)
      BY <1>3, <3>2, PassedNext
    <3>4. \A k \in Deferring : Passed(k, o) => Defers(o.pass, k)
      BY <1>3, <2>3, <3>2 DEF FlagInv, AllDefer, HostMove, Passed, Submitted
    <3>5. \A k \in Deferring : Passed(k, e) => Defers(e.pass, k)'
      BY <2>3, <3>2, <3>3, <3>4 DEF HostMove, Defers
    <3>6. \A k \in Deferring : Passed(k, HostOp)' => Defers(HostOp.pass, k)'
      BY <3>1, <3>5 DEF Passed, Submitted, Defers
    <3> QED BY <1>0, <3>6 DEF AllDefer
  <2> QED BY <1>3, <2>1, <2>2, <2>3, <2>4, HostSteps DEF HostGivesUp
<1>4. ASSUME NEW b \in BatchSizes, NEW c \in BOOLEAN, Begin(b, c)
      PROVE  (host.at # "idle" => AllDefer(HostOp))'
  <2>1. HostOp'.what = "in" /\ HostOp'.layer = 0
    BY <1>4 DEF Begin, HostOp, Idle
  <2>2. \A k \in Deferring : k \in Nat
    <3>1. \A l \in LayerSet : l \in Nat
      BY Facts
    <3> QED BY <3>1, Facts
  <2>3. \A k \in Deferring : ~Passed(k, HostOp)'
    BY <2>1, <2>2 DEF Passed, Submitted
  <2> QED BY <1>0, <2>3 DEF AllDefer
<1>5. CASE Path = "stream" /\ (StreamStep \/ PinnedRaises \/ RunTask \/ ClearBufferCache
                               \/ (\E bs \in SUBSET BatchSizes : SetCaptureBatchSizes(bs))
                               \/ (\E b \in BatchSizes : Replay(b)))
  <2>1. UNCHANGED host
    BY ZenonT(40), <1>5 DEF StreamStep, PinnedRaises, RunTask, ClearBufferCache, SetCaptureBatchSizes, Replay
  <2>2. deferrals \subseteq deferrals'
    BY ZenonT(40), <1>5 DEF StreamStep, PinnedRaises, RunTask, ClearBufferCache, SetCaptureBatchSizes, Replay, hist
  <2> QED BY SMTT(30), <1>2, <1>5, <2>1, <2>2
<1> QED BY <1>1, <1>3, <1>4, <1>5 DEF Next, SetupFacts, Paths

\* The flags that the host looks at.
LEMMA HostFlagsStay ==
    ASSUME PipelineInv, Next, ~lost', Path # "pinned"
    PROVE  FlagFits(HostOp)'
<1> USE DEF PipelineInv
<1>0. setup' = setup /\ FlagFits(HostOp)
  BY SetupStays DEF FlagInv, Front
<1>1. PICK x : x = HostOp
  OBVIOUS
<1>2. PICK y : y = HostOp'
  OBVIOUS
<1>3. FlagFits(x) /\ (x.what # "idle" => x.layer \in LayerSet /\ x.pass \in Passes)
  BY <1>0, <1>1, TurnTyped
<1>4. SUFFICES FlagFits(y)'
  BY <1>2 DEF FlagFits, Passed, Submitted, Defers
<1>5. ASSUME HostOp' = HostOp, UNCHANGED <<pending_deferred, deferrals, passes>>, spoiled \subseteq spoiled'
      PROVE  FlagFits(y)'
  <2>1. y = x
    BY <1>1, <1>2, <1>5
  <2> QED BY <1>0, <1>3, <1>5, <2>1, FlagsSame
<1>6. CASE host' = Idle
  BY <1>2, <1>6 DEF HostOp, Idle, FlagFits
<1>7. ASSUME HostStep, host' # Idle PROVE FlagFits(y)'
  <2>1. ASSUME NEW o, HostMove(o) PROVE FlagFits(y)'
    <3>1. /\ Follows(o, y) /\ o.what = x.what /\ o.layer = x.layer /\ o.pass = x.pass
          /\ y.pass = x.pass /\ host'.at # "idle" /\ OpFits(o) /\ o \in OpType /\ o.what # "wait"
      <4>1. host'.at # "idle" /\ host'.pass = host.pass
        BY <1>7, <2>1 DEF HostMove
      <4>2. y.pass = host.pass /\ x.pass = host.pass
        BY <1>1, <1>2, <4>1 DEF HostOp
      <4> QED BY <1>1, <1>2, <2>1, <4>1, <4>2 DEF HostMove, HostOp
    <3>2. y.what # "idle" => y.layer \in LayerSet /\ y.pass \in Passes
      <4>1. HostTyped' /\ LayerSet' = LayerSet /\ Passes' = Passes
        BY HostTypedStays, SetupStays, SetupSame
      <4> QED BY <1>2, <3>1, <4>1 DEF HostOp, HostTyped, HostType
    <3>3. FlagFits(o)
      BY <1>3, <3>1 DEF FlagFits, Passed, Submitted
    <3>4. o.what \in {"in", "now", "later", "sync", "out"} /\ o.layer \in LayerSet /\ o.pass \in Passes
      BY <3>1 DEF OpFits, PathWhats, OpType
    <3>5. UNCHANGED <<passes, spoiled>>
      BY <2>1 DEF HostMove
    <3>6. CASE o.what \in {"in", "sync", "out"}
      <4>1. UNCHANGED <<pending_deferred, deferrals>>
        BY <2>1, <3>6 DEF HostMove
      <4> QED BY <1>0, <3>1, <3>2, <3>3, <3>4, <3>5, <3>6, <4>1, FlagsFollow
    <3>7. CASE o.what = "now"
      <4>1. pending_deferred' = [pending_deferred EXCEPT ![o.layer] = FALSE] /\ deferrals' = deferrals
        BY <2>1, <3>7 DEF HostMove
      <4>2. y.what \in {"later", "sync"} /\ y.layer = o.layer
        BY <3>1, <3>7 DEF Follows, Step
      <4> QED BY <1>0, <3>1, <3>3, <3>4, <3>7, <4>1, <4>2, FlagsNow
    <3>8. CASE o.what = "later"
      <4>1. pending_deferred' = [pending_deferred EXCEPT ![o.layer] = TRUE]
            /\ deferrals' = deferrals \cup {<<o.pass, o.layer>>}
        BY <2>1, <3>8 DEF HostMove
      <4>2. y.what = "sync" /\ y.layer = o.layer
        BY <3>1, <3>8 DEF Follows, Step
      <4> QED BY <1>0, <3>1, <3>3, <3>4, <3>8, <4>1, <4>2, FlagsLater
    <3> QED BY <3>4, <3>6, <3>7, <3>8
  <2>2. CASE HostDirect
    <3>1. x.what = host.at /\ x.layer = host.layer /\ x.pass = host.pass /\ x.what \in {"now", "later", "sync"}
          /\ x.layer \in LayerSet /\ x.pass \in Passes
      BY <1>1, <1>3, <2>2 DEF HostOp, HostDirect
    <3>2. y.layer = x.layer /\ y.pass = x.pass /\ y.what = host'.at /\ y.what \in {"later", "sync", "out"}
      <4>1. host'.layer = host.layer /\ host'.pass = host.pass /\ host'.at \in {"later", "sync", "out"}
        BY <2>2, HostFields DEF HostDirect
      <4> QED BY <1>2, <3>1, <4>1 DEF HostOp
    <3>3. UNCHANGED <<passes, spoiled>>
      BY <2>2 DEF HostDirect
    <3>4. CASE host.at = "now"
      <4>1. y.what \in {"later", "sync"}
            /\ pending_deferred' = [pending_deferred EXCEPT ![x.layer] = FALSE] /\ deferrals' = deferrals
        BY <2>2, <3>1, <3>2, <3>4, HostFields DEF HostDirect
      <4> QED BY <1>0, <1>3, <3>1, <3>2, <3>4, <4>1, FlagsNow
    <3>5. CASE host.at = "later"
      <4>1. y.what = "sync"
            /\ \/ UNCHANGED <<pending_deferred, deferrals>>
               \/ /\ pending_deferred' = [pending_deferred EXCEPT ![x.layer] = TRUE]
                  /\ deferrals' = deferrals \cup {<<x.pass, x.layer>>}
        BY <2>2, <3>1, <3>2, <3>5, HostFields DEF HostDirect
      <4> QED BY <1>0, <1>3, <3>1, <3>2, <3>5, <4>1, FlagsLater
    <3>6. CASE host.at = "sync"
      <4>1. host'.at = "out" /\ UNCHANGED <<pending_deferred, deferrals>>
        BY <2>2, <3>6, HostFields DEF HostDirect
      <4>2. x.what = "sync" /\ y.what = "out"
        BY <3>1, <3>2, <3>6, <4>1
      <4>3. FlagFits(y)'
        BY <1>0, <1>3, <3>1, <3>2, <3>3, <4>1, <4>2, SetupSame DEF FlagFits, Passed, Submitted, Defers
      <4> QED BY <4>3
    <3> QED BY <2>2, <3>4, <3>5, <3>6 DEF HostDirect
  <2>3. CASE HostRests
    BY <1>5, <2>3, RestsSame DEF HostRests
  <2> QED BY <1>7, <2>1, <2>2, <2>3, HostSteps DEF HostGivesUp
<1>8. ASSUME NEW b \in BatchSizes, NEW c \in BOOLEAN, Begin(b, c) PROVE FlagFits(y)'
  <2>1. y.what = "in" /\ y.layer = 0 /\ y.pass = passes + 1
    BY <1>2, <1>8 DEF Begin, HostOp, Idle
  <2> QED BY <1>0, <1>8, <2>1, FlagsFirst DEF Begin, hist
<1>9. ASSUME NEW b \in BatchSizes, Replay(b) PROVE FlagFits(y)'
  <2>1. y.what = "idle"
    BY <1>2, <1>9 DEF Replay, At, HostOp
  <2> QED BY <2>1 DEF FlagFits
<1>10. CASE StreamStep
  <2>1. Head(stream).what # "pinned"
    <3>1. stream \in Seq(OpType) /\ stream # <<>>
      BY <1>10 DEF StreamStep, Typed, WorkTyped
    <3>2. Head(stream) \in Elems(stream)
      BY <3>1, ElemsTail
    <3> QED BY <3>2 DEF StreamInv, OpFits, PathWhats
  <2>2. UNCHANGED <<host, pending_deferred, deferrals, passes>> /\ spoiled' = spoiled
    BY <1>10, <2>1 DEF StreamStep
  <2> QED BY <1>5, <2>2 DEF HostOp
<1>11. CASE PinnedRaises \/ RunTask \/ ClearBufferCache
            \/ \E bs \in SUBSET BatchSizes : SetCaptureBatchSizes(bs)
  BY <1>5, <1>11 DEF PinnedRaises, RunTask, ClearBufferCache, SetCaptureBatchSizes, hist, HostOp
<1> QED BY <1>6, <1>7, <1>8, <1>9, <1>10, <1>11 DEF Next

\* The flags that the callbacks of the pinned path look at.
LEMMA PinnedFlagsStay ==
    ASSUME PipelineInv, Next, ~lost', Path = "pinned"
    PROVE  FlagFits(Cur)'
<1> USE DEF PipelineInv
<1>1. PICK x : x = Cur
  OBVIOUS
<1>2. PICK y : y = Cur'
  OBVIOUS
<1>0. setup' = setup /\ FlagFits(x)
  BY <1>1, SetupStays DEF FlagInv, Front
<1>3. x.what # "idle" => x.layer \in LayerSet /\ x.pass \in Passes /\ x.pass <= passes
  BY <1>1, TurnTyped
<1>4. SUFFICES FlagFits(y)'
  BY <1>2 DEF FlagFits, Passed, Submitted, Defers
<1>5. ASSUME Cur' = Cur, UNCHANGED <<pending_deferred, deferrals, passes>>, spoiled \subseteq spoiled'
      PROVE  FlagFits(y)'
  <2>1. y = x
    BY <1>1, <1>2, <1>5
  <2> QED BY <1>0, <1>5, <2>1, FlagsSame
<1>6. CASE HostStep
  <2>1. ASSUME NEW o, HostMove(o) PROVE FlagFits(y)'
    <3>1. o.what \in {"in", "pinned", "out"} /\ UNCHANGED <<passes, spoiled>>
      BY <2>1 DEF HostMove, OpFits, PathWhats
    <3>2. UNCHANGED <<pending_deferred, deferrals>>
      BY <2>1, <3>1 DEF HostMove
    <3>3. y.what = "idle" \/ (y.what = x.what /\ y.pass = x.pass /\ y.layer = x.layer)
      <4>1. o.what = HostOp.what /\ o.pass = HostOp.pass /\ o.layer = HostOp.layer
        BY <2>1 DEF HostMove, HostOp
      <4> QED BY <1>1, <1>2, <2>1, <4>1, HostMoveTurn
    <3> QED BY <1>0, <3>1, <3>2, <3>3, FlagsSame
  <2>2. CASE HostGivesUp
    <3>1. y.what = "idle"
      BY <1>2, <2>2 DEF HostGivesUp, Cur, HostCur, HostOp, Idle
    <3> QED BY <3>1 DEF FlagFits
  <2>3. CASE HostRests
    BY <1>5, <2>3, RestsSame DEF HostRests
  <2> QED BY <1>6, <2>1, <2>2, <2>3, HostSteps DEF HostDirect
<1>7. ASSUME NEW b \in BatchSizes, Replay(b) \/ \E c \in BOOLEAN : Begin(b, c) PROVE FlagFits(y)'
  <2>1. deferrals' = deferrals
    <3>1. CASE Replay(b)
      <4>1. PICK g, again : IsAgain(b, g, again)
        BY <3>1, Again
      <4>2. ASSUME NEW j \in DOMAIN again PROVE again[j].what # "later"
        <5>1. g[j] \in Elems(graphs[b]) /\ again[j].what = g[j].what
          BY <4>1, <4>2 DEF IsAgain, Elems
        <5>2. OpFits(g[j])
          BY <5>1 DEF GraphInv, GraphFits
        <5>3. g[j].what \in {"in", "pinned", "wait", "out"}
          BY <5>2 DEF OpFits, PathWhats
        <5> QED BY <5>1, <5>3
      <4>3. deferrals' = deferrals \cup
                {<<passes + 1, again[i].layer>> : i \in {j \in DOMAIN again : again[j].what = "later"}}
        BY <4>1 DEF IsAgain
      <4> QED BY <4>2, <4>3
    <3> QED BY <1>7, <3>1 DEF Begin, hist
  <2>2. pending_deferred' = pending_deferred /\ passes' = passes + 1 /\ spoiled' = spoiled
    BY ZenonT(40), <1>7 DEF Begin, Replay, hist
  <2>3. FlagFits(x)'
    BY <1>0, <1>3, <2>1, <2>2, FlagsBegin DEF Defers
  <2>4. CASE y = x
    BY <2>3, <2>4
  <2>5. CASE y.what = "idle"
    BY <2>5 DEF FlagFits
  <2>6. CASE y.what = "in" /\ y.layer = 0 /\ y.pass = passes + 1
    BY <1>0, <2>1, <2>2, <2>6, FlagsFirst
  <2> QED BY <1>1, <1>2, <1>7, <2>4, <2>5, <2>6, FirstTurn
<1>8. CASE StreamStep \/ PinnedRaises
  <2>1. x = Head(stream) /\ stream # <<>> /\ x \in OpType /\ host' = host /\ passes' = passes
    BY <1>1, <1>8, OpAt DEF StreamStep, PinnedRaises, Cur
  <2>2. x \in Elems(stream)
    BY <2>1, ElemsTail DEF Typed, WorkTyped
  <2>3. x.what \in {"in", "pinned", "wait", "out"} /\ x.what # "idle"
    BY <2>2 DEF StreamInv, OpFits, PathWhats
  <2>4. CASE x.what = "pinned" /\ ~PinnedRaises
    <3>1. PICK later \in BOOLEAN :
            /\ pending_deferred' = [pending_deferred EXCEPT ![x.layer] = later]
            /\ deferrals' = IF later THEN deferrals \cup {<<x.pass, x.layer>>} ELSE deferrals
            /\ y.what = "wait" /\ y.pass = x.pass /\ y.layer = x.layer
            /\ spoiled' = spoiled
      BY <1>2, <1>8, <2>1, <2>4, PinnedTurn
    <3> QED BY <1>0, <1>3, <2>1, <2>3, <2>4, <3>1, FlagsPinned
  <2>5. CASE x.what # "pinned" \/ PinnedRaises
    <3>1. /\ stream' = Tail(stream) /\ UNCHANGED <<pending_deferred, deferrals>>
          /\ spoiled \subseteq spoiled'
          /\ x.what \in {"in", "wait", "sync", "out"} \/ x.pass \in spoiled'
      BY <1>8, <2>1, <2>3, <2>5 DEF StreamStep, PinnedRaises
    <3>2. Follows(x, y)
      BY <1>1, <1>2, <2>1, <3>1, StreamTurn
    <3>3. y.what # "idle" => y.layer \in LayerSet /\ y.pass \in Passes
      <4>1. CASE y.what = "idle"
        BY <4>1
      <4>2. CASE Tail(stream) # <<>>
        <5>1. y = Head(Tail(stream)) /\ Tail(stream) \in Seq(OpType)
          BY <1>2, <2>1, <3>1, <4>2, OpAt DEF Cur
        <5>2. y \in Elems(Tail(stream))
          BY <4>2, <5>1, ElemsTail
        <5>3. y \in OpType
          BY <5>1, <5>2, LenProperties, ElementOfSeq DEF Elems
        <5> QED BY <5>3 DEF OpType
      <4>3. CASE Tail(stream) = <<>> /\ y.what # "idle"
        <5>1. y = HostOp
          BY <1>2, <2>1, <3>1, <4>3 DEF Cur, HostCur, HostOp, IdleOp
        <5> QED BY <4>3, <5>1, TurnTyped
      <4> QED BY <4>1, <4>2, <4>3
    <3> QED BY SMTT(30), <1>0, <1>3, <2>1, <2>3, <3>1, <3>2, <3>3, FlagsFollow
  <2> QED BY SMTT(30), <2>4, <2>5
<1>9. CASE RunTask \/ ClearBufferCache \/ \E bs \in SUBSET BatchSizes : SetCaptureBatchSizes(bs)
  BY <1>5, <1>9 DEF RunTask, ClearBufferCache, SetCaptureBatchSizes, hist, Cur, HostCur, HostOp
<1> QED BY <1>6, <1>7, <1>8, <1>9 DEF Next

\* The flags are as the host or the callbacks need them, whatever the step.
LEMMA FlagStays ==
    ASSUME PipelineInv, Next, ~lost'
    PROVE  FlagInv'
<1>1. Path' = Path
  BY SetupStays, SetupSame
<1>2. (\A x \in {Front} : FlagFits(x))'
  <2>1. CASE Path = "pinned"
    BY <1>1, <2>1, PinnedFlagsStay DEF Front, FlagFits, Passed, Submitted, Defers
  <2>2. CASE Path # "pinned"
    BY <1>1, <2>2, HostFlagsStay DEF Front, FlagFits, Passed, Submitted, Defers
  <2> QED BY <2>1, <2>2
<1> QED BY <1>2, HostDefersStay DEF FlagInv

-----------------------------------------------------------------------------
(* The queue and the memory.                                               *)

\* Where the operation is whose turn it is.
Placed(c) == c.layer \in LayerSet /\ c.pass \in Passes

\* What a place in the order says of a task.
LEMMA KeyOf ==
    ASSUME Typed, NEW t \in TaskType, NEW l \in LayerSet
    PROVE  /\ Key(t) \in Nat /\ l \in Nat /\ t.layer \in Nat
           /\ Key(t) = 2 * l - 1 => t.kind = "later" /\ t.layer = l - 1
           /\ Key(t) = 2 * l     => t.kind = "now" /\ t.layer = l
           /\ Key(t) = 2 * l + 1 => t.kind = "later" /\ t.layer = l
<1>1. t.layer \in Nat /\ l \in Nat /\ t.kind \in {"now", "later"}
  BY Facts DEF TaskType
<1>2. CASE t.kind = "now"
  <2>1. Key(t) = 2 * t.layer
    BY <1>1, <1>2 DEF Key
  <2> QED BY <1>1, <1>2, <2>1
<1>3. CASE t.kind = "later"
  <2>1. Key(t) = 2 * t.layer + 1
    BY <1>1, <1>3 DEF Key
  <2> QED BY <1>1, <1>3, <2>1
<1> QED BY <1>1, <1>2, <1>3

\* The range of the tasks in the queue.
LEMMA Bounds ==
    ASSUME Typed, NEW c, Placed(c)
    PROVE  /\ c.layer \in Nat /\ Top(c) \in Int /\ Low(c) \in Int
           /\ Top(c) \in {2 * c.layer - 1, 2 * c.layer, 2 * c.layer + 1}
           /\ Low(c) \in {2 * c.layer - 1, 2 * c.layer + 1}
           /\ Top(c) = 2 * c.layer + 1 => Submitted(c) /\ Defers(c.pass, c.layer)
           /\ Len(queue) \in Nat /\ Done(c) = Top(c) - Len(queue)
<1>1. c.layer \in Nat
  BY Facts DEF Placed
<1>2. Len(queue) \in Nat
  BY LenProperties DEF Typed, WorkTyped
<1> QED BY <1>1, <1>2 DEF Top, Low, Done

\* A task in the queue is the layer's own, or a deferred one of the layer
\* before or of the layer.
LEMMA TaskPlace ==
    ASSUME Typed, NEW c, Placed(c), QueueFits(c), NEW i \in DOMAIN queue, NEW t, t = queue[i]
    PROVE  /\ t \in TaskType /\ i \in 1 .. Len(queue) /\ TaskFits(t)
           /\ t.pass = c.pass /\ t.buf = c.buf
           /\ Key(t) = Top(c) - (Len(queue) - i) /\ Key(t) >= Low(c) /\ Key(t) <= Top(c)
           /\ \/ t.kind = "later" /\ t.layer = c.layer - 1 /\ Key(t) = 2 * c.layer - 1
              \/ t.kind = "now" /\ t.layer = c.layer /\ Key(t) = 2 * c.layer
              \/ t.kind = "later" /\ t.layer = c.layer /\ Key(t) = 2 * c.layer + 1
                 /\ Top(c) = 2 * c.layer + 1
<1>1. queue \in Seq(TaskType) /\ DOMAIN queue = 1 .. Len(queue) /\ Len(queue) \in Nat
  BY LenProperties DEF Typed, WorkTyped
<1>2. t \in TaskType
  BY <1>1, ElementOfSeq
<1>3. /\ t.pass = c.pass /\ t.buf = c.buf /\ TaskFits(t)
      /\ Key(t) = Top(c) - (Len(queue) - i) /\ Key(t) >= Low(c)
  BY DEF QueueFits, InOrder, Elems
<1>4. Key(t) \in Nat /\ c.layer \in Nat
  BY <1>2, KeyOf DEF Placed
<1>5. \A n \in Nat : \A top \in Int, k \in Int, j \in 1 .. n : k = top - (n - j) => k <= top
  OBVIOUS
<1>6. Key(t) <= Top(c)
  BY <1>1, <1>3, <1>4, <1>5, Bounds
<1>7. \A l \in Nat : \A k \in Nat, lo \in {2 * l - 1, 2 * l + 1}, top \in {2 * l - 1, 2 * l, 2 * l + 1} :
        k >= lo /\ k <= top =>
            k = 2 * l - 1 \/ k = 2 * l \/ (k = 2 * l + 1 /\ top = 2 * l + 1)
  OBVIOUS
<1>8. Key(t) = 2 * c.layer - 1 \/ Key(t) = 2 * c.layer
      \/ (Key(t) = 2 * c.layer + 1 /\ Top(c) = 2 * c.layer + 1)
  BY ZenonT(40), <1>3, <1>4, <1>6, <1>7, Bounds
<1> QED BY <1>1, <1>2, <1>3, <1>6, <1>8, KeyOf DEF Placed

\* A task keeps its place while its input is left alone and what it adds to
\* does not change.
LEMMA TaskStays ==
    ASSUME setup' = setup, NEW t, TaskFits(t), spoiled \subseteq spoiled',
           t.kind = "now" => (Defers(t.pass, t.layer - 1)' <=> Defers(t.pass, t.layer - 1)),
           input'[t.buf][SlotOf(t.layer)] = input[t.buf][SlotOf(t.layer)]
    PROVE  TaskFits(t)'
<1>1. /\ t.kind = "now" /\ t.pass \notin spoiled' => (t.incremental <=> Defers(t.pass, t.layer - 1)')
      /\ input'[t.buf][SlotOf(t.layer)] = <<t.pass, t.layer>>
  BY DEF TaskFits
<1> QED BY <1>1 DEF TaskFits, SlotOf, NextSlot, BufferDepth, Defers

\* What a deferred task of an earlier layer is asked for.
SameDefers(c) == \A k \in LayerSet : Passed(k, c) => (Defers(c.pass, k)' <=> Defers(c.pass, k))

\* The same place, or the same but for the buffer when no work was done.
LEMMA RangeStays ==
    ASSUME Typed, setup' = setup, NEW c, Placed(c), SameDefers(c)
    PROVE  /\ Top(c)' = Top(c) /\ Low(c)' = Low(c)
           /\ c.layer - 1 \in LayerSet => (Defers(c.pass, c.layer - 1)' <=> Defers(c.pass, c.layer - 1))
           /\ Submitted(c) => (Defers(c.pass, c.layer)' <=> Defers(c.pass, c.layer))
<1>1. Submitted(c) => (Defers(c.pass, c.layer)' <=> Defers(c.pass, c.layer))
  BY DEF SameDefers, Passed, Placed
<1>2. c.layer \in Nat
  BY Facts DEF Placed
<1>3. Top(c)' = Top(c) /\ Low(c)' = Low(c)
  BY <1>1, <1>2 DEF Top, Low, Submitted
<1>4. ASSUME c.layer - 1 \in LayerSet PROVE Passed(c.layer - 1, c)
  BY <1>2 DEF Passed
<1> QED BY <1>1, <1>3, <1>4 DEF SameDefers

\* There is no deferred task before the first layer.
LEMMA NoneBefore ==
    ASSUME Typed, FlagTyped', setup' = setup
    PROVE  /\ \A p, k : Defers(p, k) => k \in Deferring /\ k \in LayerSet
           /\ \A p, k : Defers(p, k)' => k \in Deferring /\ k \in LayerSet
<1>1. Deferring' = Deferring /\ Deferring \subseteq LayerSet
  BY SetupSame, Facts
<1> QED BY <1>1 DEF Typed, FlagTyped, Defers

\* A step that leaves the queue and the memory alone.
LEMMA WorkStays ==
    ASSUME Typed, FlagTyped', setup' = setup, NEW c, WorkFits(c), c.what # "idle" => Placed(c) /\ SameDefers(c),
           UNCHANGED <<queue, input, output>>, spoiled \subseteq spoiled'
    PROVE  WorkFits(c)'
<1>1. CASE c.what = "idle"
  <2>1. queue' = <<>>
    BY <1>1 DEF WorkFits, QueueFits
  <2>2. DOMAIN queue' = {}
    BY <2>1
  <2> QED BY <1>1, <2>1, <2>2 DEF WorkFits, QueueFits, InOrder, Elems, InputFits, OutputFits
<1>2. CASE c.what # "idle"
  <2>1. Placed(c) /\ SameDefers(c) /\ QueueFits(c) /\ InputFits(c) /\ OutputFits(c)
    BY <1>2 DEF WorkFits
  <2>2. Top(c)' = Top(c) /\ Low(c)' = Low(c)
    BY <2>1, RangeStays
  <2>3. Defers(c.pass, c.layer - 1)' <=> Defers(c.pass, c.layer - 1)
    BY <2>1, RangeStays, NoneBefore
  <2>4. QueueFits(c)'
    <3>1. ASSUME NEW i \in DOMAIN queue, NEW t, t = queue[i] PROVE TaskFits(t)'
      <4>1. TaskFits(t) /\ (t.kind = "now" => t.pass = c.pass /\ t.layer = c.layer)
        BY <2>1, <3>1, TaskPlace
      <4> QED BY <2>3, <4>1, TaskStays
    <3>2. \A t \in Elems(queue) : TaskFits(t)'
      BY <3>1 DEF Elems
    <3>3. (\A t \in Elems(queue) : TaskFits(t))'
      BY ZenonT(40), <3>2 DEF TaskFits, Elems, Defers
    <3>4. InOrder(queue, c, Top(c), Low(c))'
      BY <2>1, <2>2 DEF QueueFits, InOrder, Key
    <3> QED BY <1>2, <3>3, <3>4 DEF QueueFits
  <2>5. InputFits(c)'
    BY <2>1 DEF InputFits, SlotOf, BufferDepth
  <2>6. OutputFits(c)'
    <3>1. Done(c)' = Done(c)
      BY <2>2 DEF Done
    <3>2. Late(c.pass, c.layer - 1)' = Late(c.pass, c.layer - 1)
      BY <2>3 DEF Late
    <3>3. ASSUME Done(c) = 2 * c.layer + 1
          PROVE  /\ Defers(c.pass, c.layer)' <=> Defers(c.pass, c.layer)
                 /\ Late(c.pass, c.layer)' = Late(c.pass, c.layer)
      <4>1. \A l \in Nat : \A top \in {2 * l - 1, 2 * l, 2 * l + 1}, n \in Nat :
              top - n = 2 * l + 1 => top = 2 * l + 1
        OBVIOUS
      <4>2. Top(c) = 2 * c.layer + 1
        BY <2>1, <3>3, <4>1, Bounds
      <4>3. Submitted(c)
        BY <2>1, <4>2, Bounds
      <4> QED BY <2>1, <4>3, RangeStays DEF Late
    <3> QED BY <1>2, <2>1, <2>3, <3>1, <3>2, <3>3 DEF OutputFits, SlotOf, NextSlot, BufferDepth
  <2> QED BY <2>4, <2>5, <2>6 DEF WorkFits
<1> QED BY <1>1, <1>2

\* Nothing is in the queue, and nothing was done for the operation yet.
LEMMA FreshWork ==
    ASSUME Typed, FlagTyped', setup' = setup, NEW d, d.what = "idle" \/ (d.what = "in" /\ d.layer = 0),
           queue' = <<>>
    PROVE  WorkFits(d)'
<1>1. QueueFits(d)'
  <2>1. DOMAIN queue' = {}
    OBVIOUS
  <2> QED BY <2>1 DEF QueueFits, InOrder, Elems
<1>2. InputFits(d)'
  BY DEF InputFits
<1>3. CASE d.what = "idle"
  BY <1>1, <1>2, <1>3 DEF WorkFits, OutputFits
<1>4. CASE d.what = "in" /\ d.layer = 0
  <2>1. Done(d)' = 0 - 1
    <3>1. Len(queue') = 0
      OBVIOUS
    <3>2. Top(d)' = 0 - 1
      BY <1>4 DEF Top
    <3> QED BY <3>1, <3>2 DEF Done
  <2>2. ~Defers(d.pass, d.layer - 1)'
    <3>1. d.layer - 1 \notin LayerSet
      BY <1>4, Facts
    <3> QED BY <3>1, NoneBefore
  <2> QED BY <1>1, <1>2, <1>4, <2>1, <2>2 DEF WorkFits, OutputFits
<1> QED BY <1>3, <1>4

\* What is in an output slot is that of the task that was run last.
LEMMA OutputStays ==
    ASSUME Typed, setup' = setup, NEW c, NEW d, Placed(c), OutputFits(c), c.what # "idle",
           d.pass = c.pass, d.buf = c.buf, d.layer = c.layer,
           Defers(c.pass, c.layer - 1)' <=> Defers(c.pass, c.layer - 1),
           Submitted(c) => (Defers(c.pass, c.layer)' <=> Defers(c.pass, c.layer)),
           Done(d)' = Done(c), output' = output, spoiled \subseteq spoiled'
    PROVE  OutputFits(d)'
<1>1. Late(c.pass, c.layer - 1)' = Late(c.pass, c.layer - 1)
  BY DEF Late
<1>2. ASSUME Done(c) = 2 * c.layer + 1
      PROVE  /\ Defers(c.pass, c.layer)' <=> Defers(c.pass, c.layer)
             /\ Late(c.pass, c.layer)' = Late(c.pass, c.layer)
  <2>1. \A l \in Nat : \A top \in {2 * l - 1, 2 * l, 2 * l + 1}, n \in Nat :
          top - n = 2 * l + 1 => top = 2 * l + 1
    OBVIOUS
  <2>2. Top(c) = 2 * c.layer + 1
    BY <1>2, <2>1, Bounds
  <2>3. Submitted(c)
    BY <2>2, Bounds
  <2> QED BY <2>3 DEF Late
<1>3. /\ Done(d)' = Done(c) /\ Late(d.pass, d.layer - 1)' = Late(c.pass, c.layer - 1)
      /\ Defers(d.pass, d.layer - 1)' <=> Defers(c.pass, c.layer - 1)
      /\ Done(c) = 2 * c.layer + 1 => /\ Defers(d.pass, d.layer)' <=> Defers(c.pass, c.layer)
                                      /\ Late(d.pass, d.layer)' = Late(c.pass, c.layer)
  BY <1>1, <1>2
<1> QED BY <1>3 DEF OutputFits, SlotOf, NextSlot, BufferDepth

\* A task more at the end.
LEMMA OrderGrows ==
    ASSUME NEW s \in Seq(TaskType), NEW c, NEW top \in Int, NEW low \in Int, InOrder(s, c, top, low),
           NEW t \in TaskType, t.pass = c.pass, t.buf = c.buf, Key(t) = top + 1, top + 1 >= low
    PROVE  InOrder(Append(s, t), c, top + 1, low)
<1>1. PICK a : a = Append(s, t)
  OBVIOUS
<1>2. /\ Len(a) = Len(s) + 1 /\ DOMAIN a = 1 .. Len(s) + 1 /\ DOMAIN s = 1 .. Len(s)
      /\ Len(s) \in Nat /\ a[Len(s) + 1] = t /\ \A i \in 1 .. Len(s) : a[i] = s[i]
  BY <1>1, AppendProperties, LenProperties
<1>3. ASSUME NEW i \in 1 .. Len(s) + 1
      PROVE  /\ a[i].pass = c.pass /\ a[i].buf = c.buf
             /\ Key(a[i]) = top + 1 - (Len(a) - i) /\ Key(a[i]) >= low
  <2>1. CASE i = Len(s) + 1
    BY <1>2, <2>1
  <2>2. CASE i \in 1 .. Len(s)
    <3>1. /\ s[i].pass = c.pass /\ s[i].buf = c.buf
          /\ Key(s[i]) = top - (Len(s) - i) /\ Key(s[i]) >= low
      BY <1>2, <2>2 DEF InOrder
    <3>2. \A n \in Nat : \A j \in 1 .. n : top - (n - j) = top + 1 - (n + 1 - j)
      OBVIOUS
    <3> QED BY SMTT(30), <1>2, <2>2, <3>1, <3>2
  <2> QED BY <1>2, <1>3, <2>1, <2>2
<1>4. InOrder(a, c, top + 1, low)
  <2>1. \A i \in DOMAIN a :
           /\ a[i].pass = c.pass /\ a[i].buf = c.buf
           /\ Key(a[i]) = top + 1 - (Len(a) - i) /\ Key(a[i]) >= low
    BY <1>2, <1>3
  <2> QED BY ONLY SMTT(30), <2>1 DEF InOrder
<1> QED BY <1>1, <1>4

\* One operation of a layer after another: tasks come to the queue.
LEMMA WorkNext ==
    ASSUME Typed, FlagTyped', setup' = setup, NEW c, NEW d, Placed(c), WorkFits(c),
           c.what # "idle", d.what # "idle",
           d.pass = c.pass, d.buf = c.buf, d.layer = c.layer,
           \A k \in LayerSet : k < c.layer => (Defers(c.pass, k)' <=> Defers(c.pass, k)),
           Submitted(c) => (Defers(c.pass, c.layer)' <=> Defers(c.pass, c.layer)),
           NEW q, q = queue', NEW top, top = Top(d)', NEW low, low = Low(d)', InOrder(q, d, top, low),
           \A t \in Elems(q) : t \in Elems(queue) \/ TaskFits(t)',
           top - Len(q) = Done(c),
           d.what \in {"now", "later", "pinned"} => c.what \in {"now", "later", "pinned"},
           UNCHANGED <<input, output>>, spoiled \subseteq spoiled'
    PROVE  WorkFits(d)'
<1>1. QueueFits(c) /\ InputFits(c) /\ OutputFits(c)
  BY DEF WorkFits
<1>2. Defers(c.pass, c.layer - 1)' <=> Defers(c.pass, c.layer - 1)
  <2>1. c.layer - 1 < c.layer
    BY Facts DEF Placed
  <2> QED BY <2>1, NoneBefore
<1>3. ASSUME NEW t \in Elems(queue) PROVE TaskFits(t)'
  <2>1. PICK i \in DOMAIN queue : t = queue[i]
    BY DEF Elems
  <2>2. TaskFits(t) /\ (t.kind = "now" => t.pass = c.pass /\ t.layer = c.layer)
    BY <1>1, <2>1, TaskPlace
  <2> QED BY <1>2, <2>2, TaskStays
<1>4. QueueFits(d)'
  <2>1. \A t \in Elems(q) : TaskFits(t)'
    BY <1>3
  <2>2. (\A t \in Elems(queue) : TaskFits(t))'
    BY <2>1 DEF TaskFits, Elems, Defers
  <2>3. InOrder(queue, d, Top(d), Low(d))'
    BY DEF InOrder, Key
  <2> QED BY <2>2, <2>3 DEF QueueFits
<1>5. InputFits(d)'
  BY <1>1 DEF InputFits, SlotOf, BufferDepth
<1>6. OutputFits(d)'
  <2>1. Done(d)' = Done(c)
    BY DEF Done
  <2> QED BY <1>1, <1>2, <2>1, OutputStays
<1> QED BY <1>4, <1>5, <1>6 DEF WorkFits

\* The queue in order, as types.
LEMMA QueueOrder ==
    ASSUME Typed, NEW c, WorkFits(c)
    PROVE  /\ queue \in Seq(TaskType) /\ Len(queue) \in Nat
           /\ InOrder(queue, c, Top(c), Low(c))
BY LenProperties DEF Typed, WorkTyped, WorkFits, QueueFits

\* The immediate task is submitted.
LEMMA NowWork ==
    ASSUME Typed, FlagTyped', setup' = setup, NEW c, NEW d, Placed(c), WorkFits(c),
           c.what \in {"now", "pinned"}, d.what \in {"later", "sync", "wait"},
           d.pass = c.pass, d.buf = c.buf, d.layer = c.layer,
           d.what # "later" => ~Defers(c.pass, c.layer)', deferrals' = deferrals,
           NEW t \in TaskType, t.kind = "now", t.pass = c.pass, t.buf = c.buf, t.layer = c.layer,
           t.into = SlotOf(t.layer),
           t.pass \notin spoiled => (t.incremental <=> Defers(t.pass, t.layer - 1)),
           queue' = Append(queue, t), UNCHANGED <<input, output, spoiled>>
    PROVE  WorkFits(d)'
<1>1. c.layer \in Nat /\ Top(c) = 2 * c.layer - 1 /\ Low(c) = 2 * c.layer - 1 /\ Key(t) = 2 * c.layer
  BY SMTT(30), Bounds DEF Top, Low, Key
<1>2. PICK q : q = queue'
  OBVIOUS
<1>3. PICK top : top = Top(d)'
  OBVIOUS
<1>4. PICK low : low = Low(d)'
  OBVIOUS
<1>5. top = 2 * c.layer /\ low = 2 * c.layer - 1
  BY <1>3, <1>4 DEF Top, Low, Submitted, Defers
<1>6. InOrder(q, d, top, low) /\ Len(q) = Len(queue) + 1 /\ Elems(q) = Elems(queue) \cup {t}
  <2>1. \A n \in Nat : 2 * n - 1 \in Int /\ 2 * n = 2 * n - 1 + 1 /\ 2 * n - 1 + 1 >= 2 * n - 1
    OBVIOUS
  <2>2. InOrder(q, c, top, low)
    BY <1>1, <1>2, <1>5, <2>1, QueueOrder, OrderGrows
  <2>3. InOrder(q, d, top, low)
    BY <2>2 DEF InOrder
  <2> QED BY <1>2, <2>3, QueueOrder, ElemsAppend, AppendProperties
<1>7. TaskFits(t)'
  <2>1. input[t.buf][SlotOf(t.layer)] = <<t.pass, t.layer>>
    BY DEF WorkFits, InputFits
  <2>2. /\ t.pass \notin spoiled' => (t.incremental <=> Defers(t.pass, t.layer - 1)')
        /\ input'[t.buf][SlotOf(t.layer)] = <<t.pass, t.layer>>
    BY <2>1 DEF Defers
  <2> QED BY <2>2 DEF TaskFits, SlotOf, NextSlot, BufferDepth, Defers
<1>8. top - Len(q) = Done(c)
  <2>1. \A n, k \in Nat : 2 * n - (k + 1) = 2 * n - 1 - k
    OBVIOUS
  <2> QED BY <1>1, <1>5, <1>6, <2>1, QueueOrder DEF Done
<1>9. \A p, k : Defers(p, k)' <=> Defers(p, k)
  BY DEF Defers
<1> QED BY <1>2, <1>3, <1>4, <1>6, <1>7, <1>8, <1>9, WorkNext

\* The deferred task is submitted.
LEMMA LaterWork ==
    ASSUME Typed, FlagTyped', setup' = setup, NEW c, NEW d, Placed(c), WorkFits(c),
           c.what = "later", d.what = "sync",
           d.pass = c.pass, d.buf = c.buf, d.layer = c.layer,
           Defers(c.pass, c.layer)',
           \A k \in LayerSet : k # c.layer => (Defers(c.pass, k)' <=> Defers(c.pass, k)),
           NEW t \in TaskType, t.kind = "later", t.pass = c.pass, t.buf = c.buf, t.layer = c.layer,
           t.into = NextSlot(t.layer), ~t.incremental,
           queue' = Append(queue, t), UNCHANGED <<input, output, spoiled>>
    PROVE  WorkFits(d)'
<1>1. /\ c.layer \in Nat /\ Top(c) = 2 * c.layer /\ Low(c) = 2 * c.layer - 1
      /\ Key(t) = 2 * c.layer + 1
  BY Bounds DEF Top, Low, Key, Submitted
<1>2. PICK q : q = queue'
  OBVIOUS
<1>3. PICK top : top = Top(d)'
  OBVIOUS
<1>4. PICK low : low = Low(d)'
  OBVIOUS
<1>5. top = 2 * c.layer + 1 /\ low = 2 * c.layer - 1
  BY <1>3, <1>4 DEF Top, Low, Submitted, Defers
<1>6. InOrder(q, d, top, low) /\ Len(q) = Len(queue) + 1 /\ Elems(q) = Elems(queue) \cup {t}
  <2>1. \A n \in Nat : 2 * n - 1 \in Int /\ 2 * n \in Int /\ 2 * n + 1 >= 2 * n - 1
    OBVIOUS
  <2>2. InOrder(q, c, top, low)
    BY <1>1, <1>2, <1>5, <2>1, QueueOrder, OrderGrows
  <2>3. InOrder(q, d, top, low)
    BY <2>2 DEF InOrder
  <2> QED BY <1>2, <2>3, QueueOrder, ElemsAppend, AppendProperties
<1>7. TaskFits(t)'
  <2>1. input[t.buf][SlotOf(t.layer)] = <<t.pass, t.layer>>
    BY DEF WorkFits, InputFits
  <2>2. input'[t.buf][SlotOf(t.layer)] = <<t.pass, t.layer>>
    BY <2>1
  <2> QED BY <2>2 DEF TaskFits, SlotOf, NextSlot, BufferDepth
<1>8. top - Len(q) = Done(c)
  <2>1. \A n, k \in Nat : 2 * n + 1 - (k + 1) = 2 * n - k
    OBVIOUS
  <2> QED BY SMTT(30), <1>1, <1>5, <1>6, <2>1, QueueOrder DEF Done
<1>9. /\ \A k \in LayerSet : k < c.layer => (Defers(c.pass, k)' <=> Defers(c.pass, k))
      /\ ~Submitted(c)
  BY <1>1 DEF Submitted
<1> QED BY <1>2, <1>3, <1>4, <1>6, <1>7, <1>8, <1>9, WorkNext

\* run_pinned_forward_sync submits both.
LEMMA BothWork ==
    ASSUME Typed, FlagTyped', setup' = setup, NEW c, NEW d, Placed(c), WorkFits(c),
           c.what = "pinned", d.what = "wait",
           d.pass = c.pass, d.buf = c.buf, d.layer = c.layer,
           Defers(c.pass, c.layer)',
           \A k \in LayerSet : k # c.layer => (Defers(c.pass, k)' <=> Defers(c.pass, k)),
           NEW s \in TaskType, s.kind = "now", s.pass = c.pass, s.buf = c.buf, s.layer = c.layer,
           s.into = SlotOf(s.layer),
           s.pass \notin spoiled => (s.incremental <=> Defers(s.pass, s.layer - 1)),
           NEW t \in TaskType, t.kind = "later", t.pass = c.pass, t.buf = c.buf, t.layer = c.layer,
           t.into = NextSlot(t.layer), ~t.incremental,
           queue' = Append(Append(queue, s), t), UNCHANGED <<input, output, spoiled>>
    PROVE  WorkFits(d)'
<1>1. /\ c.layer \in Nat /\ Top(c) = 2 * c.layer - 1 /\ Low(c) = 2 * c.layer - 1
      /\ Key(s) = 2 * c.layer /\ Key(t) = 2 * c.layer + 1
  BY Bounds DEF Top, Low, Key, Submitted
<1>2. PICK q : q = queue'
  OBVIOUS
<1>3. PICK top : top = Top(d)'
  OBVIOUS
<1>4. PICK low : low = Low(d)'
  OBVIOUS
<1>5. top = 2 * c.layer + 1 /\ low = 2 * c.layer - 1
  BY <1>3, <1>4 DEF Top, Low, Submitted, Defers
<1>6. /\ InOrder(q, d, top, low) /\ Len(q) = Len(queue) + 2
      /\ Elems(q) = Elems(queue) \cup {s, t}
  <2>1. \A n \in Nat : /\ 2 * n - 1 \in Int /\ 2 * n \in Int /\ 2 * n = 2 * n - 1 + 1
                       /\ 2 * n - 1 + 1 >= 2 * n - 1 /\ 2 * n + 1 >= 2 * n - 1
    OBVIOUS
  <2>2. PICK r : r = Append(queue, s)
    OBVIOUS
  <2>3. r \in Seq(TaskType) /\ Len(r) = Len(queue) + 1 /\ Elems(r) = Elems(queue) \cup {s}
    BY <2>2, QueueOrder, ElemsAppend, AppendProperties
  <2>4. InOrder(r, c, 2 * c.layer, low)
    BY <1>1, <1>5, <2>1, <2>2, QueueOrder, OrderGrows
  <2>5. q = Append(r, t)
    BY <1>2, <2>2
  <2>6. InOrder(q, c, top, low)
    BY <1>1, <1>5, <2>1, <2>3, <2>4, <2>5, OrderGrows
  <2>7. InOrder(q, d, top, low)
    BY <2>6 DEF InOrder
  <2>8. Len(q) = Len(r) + 1 /\ Elems(q) = Elems(r) \cup {t}
    BY <2>3, <2>5, ElemsAppend, AppendProperties
  <2> QED BY <2>3, <2>7, <2>8, QueueOrder
<1>7. ~Submitted(c) /\ \A k \in LayerSet : k < c.layer => (Defers(c.pass, k)' <=> Defers(c.pass, k))
  BY <1>1 DEF Submitted
<1>8. TaskFits(s)' /\ TaskFits(t)'
  <2>1. input[c.buf][SlotOf(c.layer)] = <<c.pass, c.layer>>
    BY DEF WorkFits, InputFits
  <2>2. Defers(c.pass, c.layer - 1)' <=> Defers(c.pass, c.layer - 1)
    <3>1. c.layer - 1 # c.layer
      BY <1>1
    <3> QED BY <3>1, NoneBefore
  <2>3. s.pass \notin spoiled' => (s.incremental <=> Defers(s.pass, s.layer - 1)')
    BY <2>2
  <2>4. /\ input'[s.buf][SlotOf(s.layer)] = <<s.pass, s.layer>>
        /\ input'[t.buf][SlotOf(t.layer)] = <<t.pass, t.layer>>
    BY <2>1
  <2> QED BY <2>3, <2>4 DEF TaskFits, SlotOf, NextSlot, BufferDepth, Defers
<1>9. top - Len(q) = Done(c)
  <2>1. \A n, k \in Nat : 2 * n + 1 - (k + 2) = 2 * n - 1 - k
    OBVIOUS
  <2> QED BY SMTT(30), <1>1, <1>5, <1>6, <2>1, QueueOrder DEF Done
<1> QED BY <1>2, <1>3, <1>4, <1>6, <1>7, <1>8, <1>9, WorkNext

\* The layer's input is copied.
LEMMA InWork ==
    ASSUME Typed, FlagTyped', setup' = setup, NEW c, NEW d, Placed(c), WorkFits(c),
           c.what = "in", d.what \in {"now", "pinned"}, c.buf \in Buffers,
           d.pass = c.pass, d.buf = c.buf, d.layer = c.layer,
           input' = [input EXCEPT ![c.buf][SlotOf(c.layer)] = <<c.pass, c.layer>>],
           UNCHANGED <<queue, output, deferrals, spoiled>>
    PROVE  WorkFits(d)'
<1>1. c.layer \in Nat /\ Top(c) = 2 * c.layer - 1 /\ Low(c) = 2 * c.layer - 1
      /\ Top(d)' = 2 * c.layer - 1 /\ Low(d)' = 2 * c.layer - 1
  BY Bounds DEF Top, Low
<1>2. /\ input \in [Buffers -> [Slots -> Token]] /\ SlotOf(c.layer) \in Slots
      /\ SlotOf(c.layer - 1) # SlotOf(c.layer)
  BY <1>1, SlotFacts DEF Typed, MemTyped
<1>3. /\ input'[c.buf][SlotOf(c.layer)] = <<c.pass, c.layer>>
      /\ \A s \in Slots : s # SlotOf(c.layer) => input'[c.buf][s] = input[c.buf][s]
  BY <1>2
<1>4. \A p, k : Defers(p, k)' <=> Defers(p, k)
  BY DEF Defers
<1>5. ASSUME NEW t \in Elems(queue) PROVE TaskFits(t)'
  <2>1. PICK i \in DOMAIN queue : t = queue[i]
    BY DEF Elems
  <2>2. /\ TaskFits(t) /\ t \in TaskType /\ t.pass = c.pass /\ t.buf = c.buf
        /\ t.kind = "later" /\ t.layer = c.layer - 1
    <3>1. \A n \in Nat : 2 * n > 2 * n - 1 /\ 2 * n + 1 # 2 * n - 1
      OBVIOUS
    <3> QED BY SMTT(30), <1>1, <2>1, <3>1, TaskPlace DEF WorkFits
  <2>3. SlotOf(t.layer) \in Slots /\ SlotOf(t.layer) # SlotOf(c.layer)
    BY <1>1, <1>2, <2>2, SlotFacts
  <2>4. input'[t.buf][SlotOf(t.layer)] = input[t.buf][SlotOf(t.layer)]
    BY <1>3, <2>2, <2>3
  <2> QED BY <2>2, <2>4, TaskStays
<1>6. QueueFits(d)'
  <2>1. (\A t \in Elems(queue) : TaskFits(t))'
    BY <1>5 DEF TaskFits, Elems, Defers
  <2>2. InOrder(queue, d, Top(d), Low(d))'
    BY <1>1 DEF WorkFits, QueueFits, InOrder, Key
  <2> QED BY <2>1, <2>2 DEF QueueFits
<1>7. InputFits(d)'
  BY <1>3 DEF InputFits, SlotOf, BufferDepth
<1>8. OutputFits(d)'
  <2>1. Done(d)' = Done(c)
    BY <1>1 DEF Done
  <2> QED BY <1>4, <2>1, OutputStays DEF WorkFits
<1> QED BY <1>6, <1>7, <1>8 DEF WorkFits

\* There is no deferred expert, and the task is not submitted.
LEMMA SkipWork ==
    ASSUME Typed, FlagTyped', setup' = setup, NEW c, NEW d, Placed(c), WorkFits(c),
           c.what = "later", d.what = "sync",
           d.pass = c.pass, d.buf = c.buf, d.layer = c.layer,
           ~Defers(c.pass, c.layer),
           UNCHANGED <<queue, input, output, deferrals, spoiled>>
    PROVE  WorkFits(d)'
<1>1. /\ c.layer \in Nat /\ Top(c) = 2 * c.layer /\ Low(c) = 2 * c.layer - 1
  BY Bounds DEF Top, Low, Submitted
<1>2. PICK q : q = queue'
  OBVIOUS
<1>3. PICK top : top = Top(d)'
  OBVIOUS
<1>4. PICK low : low = Low(d)'
  OBVIOUS
<1>5. top = Top(c) /\ low = Low(c)
  BY <1>1, <1>3, <1>4 DEF Top, Low, Submitted, Defers
<1>6. InOrder(q, d, top, low) /\ top - Len(q) = Done(c)
  BY <1>2, <1>5, QueueOrder DEF InOrder, Done
<1>7. \A p, k : Defers(p, k)' <=> Defers(p, k)
  BY DEF Defers
<1> QED BY <1>2, <1>3, <1>4, <1>6, <1>7, WorkNext

\* The wait for the layer is over.
LEMMA WaitWork ==
    ASSUME Typed, FlagTyped', setup' = setup, NEW c, NEW d, Placed(c), WorkFits(c),
           c.what \in {"sync", "wait"}, d.what = "out",
           d.pass = c.pass, d.buf = c.buf, d.layer = c.layer,
           Len(queue) <= IF Defers(c.pass, c.layer) THEN 1 ELSE 0,
           UNCHANGED <<queue, input, output, deferrals, spoiled>>
    PROVE  WorkFits(d)'
<1>1. /\ c.layer \in Nat
      /\ Top(c) = IF Defers(c.pass, c.layer) THEN 2 * c.layer + 1 ELSE 2 * c.layer
  BY Bounds DEF Top, Submitted
<1>2. PICK q : q = queue'
  OBVIOUS
<1>3. PICK top : top = Top(d)'
  OBVIOUS
<1>4. PICK low : low = Low(d)'
  OBVIOUS
<1>5. top = Top(c) /\ low = 2 * c.layer + 1
  BY <1>1, <1>3, <1>4 DEF Top, Low, Submitted, Defers
<1>6. InOrder(q, d, top, low) /\ top - Len(q) = Done(c)
  <2>1. ASSUME NEW i \in DOMAIN queue
        PROVE  /\ queue[i].pass = c.pass /\ queue[i].buf = c.buf
               /\ Key(queue[i]) = Top(c) - (Len(queue) - i) /\ Key(queue[i]) >= 2 * c.layer + 1
    <3>1. /\ queue[i].pass = c.pass /\ queue[i].buf = c.buf
          /\ Key(queue[i]) = Top(c) - (Len(queue) - i) /\ i \in 1 .. Len(queue)
      BY TaskPlace DEF WorkFits
    <3>2. Len(queue) \in Nat /\ Len(queue) <= 1 /\ (~Defers(c.pass, c.layer) => Len(queue) = 0)
      BY QueueOrder
    <3>3. Defers(c.pass, c.layer) /\ i = 1 /\ Len(queue) = 1
      <4>1. \A n \in Nat : \A j \in 1 .. n : n <= 1 => n # 0 /\ n = 1 /\ j = 1
        OBVIOUS
      <4> QED BY <3>1, <3>2, <4>1
    <3> QED BY <1>1, <3>1, <3>3
  <2> QED BY <1>2, <1>5, <2>1, QueueOrder DEF InOrder, Done
<1>7. \A p, k : Defers(p, k)' <=> Defers(p, k)
  BY DEF Defers
<1> QED BY <1>2, <1>3, <1>4, <1>6, <1>7, WorkNext

\* The wait or the submission raises: nothing is left in the queue.
LEMMA RaiseWork ==
    ASSUME Typed, FlagTyped', setup' = setup, NEW d, d.what = "out", d.pass \in spoiled', queue' = <<>>
    PROVE  WorkFits(d)'
<1>1. DOMAIN queue' = {}
  OBVIOUS
<1> QED BY <1>1 DEF WorkFits, QueueFits, InOrder, Elems, InputFits, OutputFits

\* The output is copied back, and the next layer's turn comes.
LEMMA OutWork ==
    ASSUME Typed, FlagTyped', setup' = setup, NEW c, NEW d, Placed(c), WorkFits(c),
           c.what = "out", Follows(c, d),
           UNCHANGED <<queue, input, output, deferrals, spoiled>>
    PROVE  WorkFits(d)'
<1>1. /\ c.layer \in Nat /\ Low(c) = 2 * c.layer + 1 /\ Submitted(c)
      /\ Top(c) = IF Defers(c.pass, c.layer) THEN 2 * c.layer + 1 ELSE 2 * c.layer
  BY Bounds DEF Top, Low, Submitted
<1>2. ~Defers(c.pass, c.layer) => queue = <<>> /\ Len(queue) = 0
  <2>1. ASSUME ~Defers(c.pass, c.layer), NEW i \in DOMAIN queue PROVE FALSE
    <3>1. PICK t : t = queue[i]
      OBVIOUS
    <3>2. Key(t) >= 2 * c.layer + 1 /\ Key(t) <= 2 * c.layer /\ t \in TaskType
      BY <1>1, <2>1, <3>1, TaskPlace DEF WorkFits
    <3>3. Key(t) \in Nat
      BY <3>2, KeyOf DEF Placed
    <3>4. \A n, k \in Nat : ~(k >= 2 * n + 1 /\ k <= 2 * n)
      OBVIOUS
    <3> QED BY <1>1, <3>2, <3>3, <3>4
  <2>2. ASSUME ~Defers(c.pass, c.layer) PROVE queue = <<>> /\ Len(queue) = 0
    <3>1. Len(queue) \in Nat /\ DOMAIN queue = 1 .. Len(queue) /\ queue \in Seq(TaskType)
      BY QueueOrder, LenProperties
    <3>2. 1 \notin 1 .. Len(queue)
      BY <2>1, <2>2, <3>1
    <3>3. Len(queue) = 0
      BY <3>1, <3>2
    <3> QED BY <3>1, <3>3, EmptySeq
  <2> QED BY <2>2
<1>3. CASE d.what = "idle" \/ (d.what = "in" /\ d.layer = 0)
  <2>1. c.layer = Layers - 1 => ~Defers(c.pass, c.layer)
    <3>1. \A n \in Nat : n - 1 \notin 0 .. n - 2
      OBVIOUS
    <3>2. Layers - 1 \notin Deferring
      BY <3>1, Facts DEF SetupFacts
    <3> QED BY <3>2, NoneBefore
  <2>2. c.layer = Layers - 1
    BY <1>1, <1>3 DEF Follows, Step
  <2>3. queue' = <<>>
    BY <1>2, <2>1, <2>2
  <2> QED BY <1>3, <2>3, FreshWork
<1>4. CASE d.what = "in" /\ d.pass = c.pass /\ d.buf = c.buf /\ d.layer = c.layer + 1
  <2>1. Top(d)' = 2 * c.layer + 1 /\ Low(d)' = 2 * c.layer + 1
    BY <1>1, <1>4 DEF Top, Low
  <2>2. \A p, k : (Defers(p, k)' <=> Defers(p, k)) /\ Late(p, k)' = Late(p, k)
    BY DEF Defers, Late
  <2>3. ASSUME NEW t \in Elems(queue) PROVE TaskFits(t)'
    <3>1. TaskFits(t)
      BY DEF WorkFits, QueueFits
    <3> QED BY <2>2, <3>1, TaskStays
  <2>4. QueueFits(d)'
    <3>1. (\A t \in Elems(queue) : TaskFits(t))'
      BY <2>3 DEF TaskFits, Elems, Defers
    <3>2. InOrder(queue, d, Top(d), Low(d))'
      <4>1. CASE Defers(c.pass, c.layer)
        BY <1>1, <1>4, <2>1, <4>1 DEF WorkFits, QueueFits, InOrder, Key
      <4>2. CASE ~Defers(c.pass, c.layer)
        <5>1. DOMAIN queue' = {}
          BY <1>2, <4>2
        <5> QED BY <5>1 DEF InOrder
      <4> QED BY <4>1, <4>2
    <3> QED BY <1>4, <3>1, <3>2 DEF QueueFits
  <2>5. InputFits(d)'
    BY <1>4 DEF InputFits
  <2>6. OutputFits(d)'
    <3>1. Done(d)' = (2 * c.layer + 1) - Len(queue) /\ Len(queue) \in Nat
      <4>1. Len(queue) \in Nat
        BY QueueOrder
      <4> QED BY <2>1, <4>1 DEF Done
    <3>2. d.layer - 1 = c.layer /\ d.layer = c.layer + 1
      BY <1>1, <1>4
    <3>3. /\ ~(Done(d)' >= 2 * d.layer)
          /\ Done(d)' # 2 * d.layer + 1
          /\ Done(d)' = 2 * d.layer - 1 => Len(queue) = 0
      BY <1>1, <3>1, <3>2
    <3>4. ASSUME Len(queue) = 0, Defers(c.pass, c.layer), c.pass \notin spoiled
          PROVE  output[c.buf][SlotOf(d.layer)] = Late(c.pass, c.layer)
      <4>1. Done(c) = 2 * c.layer + 1
        BY <1>1, <3>4 DEF Done
      <4>2. output[c.buf][NextSlot(c.layer)] = Late(c.pass, c.layer)
        BY <3>4, <4>1 DEF WorkFits, OutputFits
      <4>3. NextSlot(c.layer) = SlotOf(d.layer)
        BY <1>1, <3>2, SlotFacts
      <4> QED BY <4>2, <4>3
    <3>5. /\ d.pass \notin spoiled' => c.pass \notin spoiled
          /\ Defers(d.pass, d.layer - 1)' <=> Defers(c.pass, c.layer)
          /\ Late(d.pass, d.layer - 1)' = Late(c.pass, c.layer)
          /\ output'[d.buf][SlotOf(d.layer)] = output[c.buf][SlotOf(d.layer)]
      BY <1>4, <2>2, <3>2
    <3> QED BY <3>3, <3>4, <3>5 DEF OutputFits, SlotOf, BufferDepth
  <2> QED BY <2>4, <2>5, <2>6 DEF WorkFits
<1>5. d.what = "idle" \/ (d.what = "in" /\ d.layer = 0)
      \/ (d.what = "in" /\ d.pass = c.pass /\ d.buf = c.buf /\ d.layer = c.layer + 1)
  BY DEF Follows, Step
<1> QED BY <1>3, <1>4, <1>5

\* The worker has run the first task of the queue, or it has failed.
LEMMA RunWork ==
    ASSUME PipelineInv, FlagTyped', setup' = setup, NEW c, Placed(c), WorkFits(c), RunTask
    PROVE  WorkFits(c)'
<1>0. Typed /\ queue # <<>>
  BY DEF PipelineInv, RunTask
<1>1. PICK t : t = Head(queue)
  OBVIOUS
<1>2. /\ queue' = Tail(queue) /\ UNCHANGED <<input, deferrals>>
      /\ \/ /\ output' = [output EXCEPT ![t.buf][t.into] =
                              (IF t.incremental THEN @ ELSE {}) \cup {Result(t)}]
            /\ spoiled' = spoiled
         \/ output' = output /\ spoiled' = spoiled \cup {t.pass}
  BY <1>1 DEF RunTask
<1>3. /\ t = queue[1] /\ Len(queue) \in Nat \ {0} /\ 1 \in DOMAIN queue
      /\ Len(Tail(queue)) = Len(queue) - 1 /\ DOMAIN Tail(queue) = 1 .. Len(queue) - 1
      /\ DOMAIN queue = 1 .. Len(queue)
      /\ \A i \in 1 .. Len(queue) - 1 : Tail(queue)[i] = queue[i + 1]
  BY <1>0, <1>1, TaskAt
<1>4. /\ t \in TaskType /\ TaskFits(t) /\ t.pass = c.pass /\ t.buf = c.buf
      /\ Key(t) = Top(c) - (Len(queue) - 1)
      /\ \/ t.kind = "later" /\ t.layer = c.layer - 1 /\ Key(t) = 2 * c.layer - 1
         \/ t.kind = "now" /\ t.layer = c.layer /\ Key(t) = 2 * c.layer
         \/ t.kind = "later" /\ t.layer = c.layer /\ Key(t) = 2 * c.layer + 1
            /\ Top(c) = 2 * c.layer + 1
  BY <1>0, <1>3, TaskPlace DEF WorkFits
<1>5. /\ c.layer \in Nat /\ Top(c) \in Int /\ Done(c) = Top(c) - Len(queue)
      /\ Top(c) = 2 * c.layer + 1 => Submitted(c) /\ Defers(c.pass, c.layer)
  BY <1>0, Bounds
<1>6. /\ Top(c)' = Top(c) /\ Low(c)' = Low(c)
      /\ \A p, k : (Defers(p, k)' <=> Defers(p, k)) /\ Late(p, k)' = Late(p, k)
  BY <1>2 DEF Top, Low, Submitted, Defers, Late
<1>7. Done(c)' = Key(t) /\ Done(c) = Key(t) - 1
  <2>1. Done(c)' = Top(c) - (Len(queue) - 1)
    BY <1>2, <1>3, <1>6 DEF Done
  <2> QED BY <1>3, <1>4, <1>5, <2>1
<1>8. c.what # "idle"
  BY <1>0 DEF WorkFits, QueueFits
<1>9. QueueFits(c)'
  <2>1. PICK q : q = Tail(queue)
    OBVIOUS
  <2>2. ASSUME NEW s \in Elems(q) PROVE TaskFits(s)'
    <3>1. s \in Elems(queue)
      BY <1>0, <2>1, <2>2, ElemsTail DEF Typed, WorkTyped
    <3>2. TaskFits(s)
      BY <3>1 DEF WorkFits, QueueFits
    <3> QED BY <1>2, <1>6, <3>2, TaskStays
  <2>3. (\A s \in Elems(queue) : TaskFits(s))'
    <3>1. Elems(queue)' = Elems(q)
      BY <1>2, <2>1 DEF Elems
    <3> QED BY <2>2, <3>1 DEF TaskFits, Defers
  <2>4. ASSUME NEW i \in 1 .. Len(queue) - 1
        PROVE  /\ q[i].pass = c.pass /\ q[i].buf = c.buf
               /\ Key(q[i]) = Top(c) - (Len(q) - i) /\ Key(q[i]) >= Low(c)
    <3>1. q[i] = queue[i + 1] /\ i + 1 \in DOMAIN queue /\ Len(q) = Len(queue) - 1
      BY <1>3, <2>1, <2>4
    <3>2. /\ queue[i + 1].pass = c.pass /\ queue[i + 1].buf = c.buf
          /\ Key(queue[i + 1]) = Top(c) - (Len(queue) - (i + 1)) /\ Key(queue[i + 1]) >= Low(c)
      BY <3>1 DEF WorkFits, QueueFits, InOrder
    <3>3. \A n \in Nat : \A j \in 1 .. n - 1 : n - (j + 1) = n - 1 - j
      OBVIOUS
    <3> QED BY <1>3, <3>1, <3>2, <3>3
  <2>5. InOrder(queue, c, Top(c), Low(c))'
    BY <1>2, <1>3, <1>6, <2>1, <2>4 DEF InOrder, Key
  <2> QED BY <1>8, <2>3, <2>5 DEF QueueFits
<1>10. InputFits(c)'
  BY <1>2 DEF WorkFits, InputFits, SlotOf, BufferDepth
<1>11. OutputFits(c)'
  <2>1. CASE c.pass \in spoiled'
    BY <2>1 DEF OutputFits
  <2>2. CASE c.pass \notin spoiled'
    <3>1. /\ c.pass \notin spoiled
          /\ output' = [output EXCEPT ![t.buf][t.into] =
                            (IF t.incremental THEN @ ELSE {}) \cup {Result(t)}]
      BY <1>2, <1>4, <2>2
    <3>2. Result(t) = <<t.kind, <<c.pass, t.layer>>>>
      BY <1>4 DEF Result, TaskFits
    <3>3. output \in [Buffers -> [Slots -> SUBSET ({"now", "later"} \X Token)]]
          /\ t.buf \in Buffers /\ t.into \in Slots
      BY <1>0, <1>4 DEF Typed, MemTyped, TaskType
    <3>4. /\ output'[c.buf][t.into] = (IF t.incremental THEN output[c.buf][t.into] ELSE {}) \cup {Result(t)}
          /\ \A s \in Slots : s # t.into => output'[c.buf][s] = output[c.buf][s]
      BY <1>4, <3>1, <3>3
    <3>5. /\ SlotOf(c.layer) \in Slots /\ NextSlot(c.layer) \in Slots
          /\ NextSlot(c.layer) # SlotOf(c.layer) /\ NextSlot(c.layer - 1) = SlotOf(c.layer)
      <4>1. c.layer \in Int
        BY <1>5
      <4> QED BY <4>1, SlotFacts
    <3>6. /\ Done(c) >= 2 * c.layer =>
                output[c.buf][SlotOf(c.layer)] = {<<"now", <<c.pass, c.layer>>>>} \cup Late(c.pass, c.layer - 1)
          /\ Done(c) = 2 * c.layer - 1 /\ Defers(c.pass, c.layer - 1) =>
                output[c.buf][SlotOf(c.layer)] = Late(c.pass, c.layer - 1)
      BY <1>8, <3>1 DEF WorkFits, OutputFits
    <3>7. /\ Done(c)' >= 2 * c.layer =>
                output'[c.buf][SlotOf(c.layer)] = {<<"now", <<c.pass, c.layer>>>>} \cup Late(c.pass, c.layer - 1)
          /\ Done(c)' = 2 * c.layer - 1 /\ Defers(c.pass, c.layer - 1) =>
                output'[c.buf][SlotOf(c.layer)] = Late(c.pass, c.layer - 1)
          /\ Done(c)' = 2 * c.layer + 1 /\ Defers(c.pass, c.layer) =>
                output'[c.buf][NextSlot(c.layer)] = Late(c.pass, c.layer)
      <4>1. CASE t.kind = "later" /\ t.layer = c.layer - 1 /\ Key(t) = 2 * c.layer - 1
        <5>1. t.into = SlotOf(c.layer) /\ ~t.incremental
          BY <1>4, <3>5, <4>1 DEF TaskFits
        <5>2. output'[c.buf][SlotOf(c.layer)] = {<<"later", <<c.pass, c.layer - 1>>>>}
          BY <3>2, <3>4, <4>1, <5>1
        <5>3. \A n \in Nat : ~(2 * n - 1 >= 2 * n) /\ 2 * n - 1 # 2 * n + 1
          OBVIOUS
        <5> QED BY <1>5, <1>7, <4>1, <5>2, <5>3 DEF Late
      <4>2. CASE t.kind = "now" /\ t.layer = c.layer /\ Key(t) = 2 * c.layer
        <5>1. t.into = SlotOf(c.layer) /\ (t.incremental <=> Defers(c.pass, c.layer - 1))
          BY <1>4, <3>1, <4>2 DEF TaskFits
        <5>2. Done(c) = 2 * c.layer - 1
          BY <1>5, <1>7, <4>2
        <5>3. Defers(c.pass, c.layer - 1) => output[c.buf][SlotOf(c.layer)] = Late(c.pass, c.layer - 1)
          BY <3>6, <5>2
        <5>4. ~Defers(c.pass, c.layer - 1) => Late(c.pass, c.layer - 1) = {}
          BY DEF Late
        <5>5. output'[c.buf][SlotOf(c.layer)] = {<<"now", <<c.pass, c.layer>>>>} \cup Late(c.pass, c.layer - 1)
          BY <3>2, <3>4, <4>2, <5>1, <5>3, <5>4
        <5>6. \A n \in Nat : 2 * n # 2 * n - 1 /\ 2 * n # 2 * n + 1
          OBVIOUS
        <5> QED BY <1>5, <1>7, <4>2, <5>5, <5>6
      <4>3. CASE t.kind = "later" /\ t.layer = c.layer /\ Key(t) = 2 * c.layer + 1
                 /\ Top(c) = 2 * c.layer + 1
        <5>1. t.into = NextSlot(c.layer) /\ ~t.incremental
          BY <1>4, <4>3 DEF TaskFits
        <5>2. Done(c) >= 2 * c.layer
          BY <1>5, <1>7, <4>3
        <5>3. output'[c.buf][NextSlot(c.layer)] = {<<"later", <<c.pass, c.layer>>>>}
          BY <3>2, <3>4, <4>3, <5>1
        <5>4. output'[c.buf][SlotOf(c.layer)] = output[c.buf][SlotOf(c.layer)]
          BY <3>4, <3>5, <5>1
        <5>5. \A n \in Nat : 2 * n + 1 # 2 * n - 1
          OBVIOUS
        <5> QED BY <1>5, <1>7, <3>6, <4>3, <5>2, <5>3, <5>4, <5>5 DEF Late
      <4> QED BY <1>4, <4>1, <4>2, <4>3
    <3> QED BY <1>6, <3>7 DEF OutputFits, SlotOf, NextSlot, BufferDepth
  <2> QED BY <2>1, <2>2
<1> QED BY <1>9, <1>10, <1>11 DEF WorkFits

\* The same of two records of the same operation.
LEMMA WorkSame ==
    ASSUME NEW c, NEW d, c.what = d.what, c.pass = d.pass, c.layer = d.layer, c.buf = d.buf,
           WorkFits(c)'
    PROVE  WorkFits(d)'
<1>1. Top(c)' = Top(d)' /\ Low(c)' = Low(d)' /\ Done(c)' = Done(d)'
  BY DEF Top, Low, Done, Submitted, Defers
<1>2. QueueFits(d)'
  BY <1>1 DEF WorkFits, QueueFits, InOrder
<1>3. InputFits(d)'
  BY DEF WorkFits, InputFits
<1>4. OutputFits(d)'
  BY <1>1 DEF WorkFits, OutputFits, Defers, Late
<1> QED BY <1>2, <1>3, <1>4 DEF WorkFits

\* Before the first layer there is nothing in the queue.
LEMMA FirstEmpty ==
    ASSUME Typed, NEW c, Placed(c), WorkFits(c), c.what = "in", c.layer = 0
    PROVE  queue = <<>>
<1>1. Top(c) = 0 - 1
  BY DEF Top
<1>2. ASSUME NEW i \in DOMAIN queue PROVE FALSE
  <2>1. PICK t : t = queue[i]
    OBVIOUS
  <2>2. t \in TaskType /\ Key(t) <= 0 - 1
    BY <1>1, <2>1, TaskPlace DEF WorkFits
  <2>3. Key(t) \in Nat
    BY <2>2, KeyOf DEF Placed
  <2> QED BY <2>2, <2>3
<1>3. Len(queue) \in Nat /\ DOMAIN queue = 1 .. Len(queue) /\ queue \in Seq(TaskType)
  BY QueueOrder, LenProperties
<1>4. 1 \notin 1 .. Len(queue)
  BY <1>2, <1>3
<1>5. Len(queue) = 0
  BY <1>3, <1>4
<1> QED BY <1>3, <1>5, EmptySeq

\* What every step starts from.
LEMMA WorkNow ==
    ASSUME PipelineInv, Next, ~lost', NEW c, c = Cur
    PROVE  /\ setup' = setup /\ Typed /\ FlagTyped' /\ WorkFits(c)
           /\ c.what # "idle" => Placed(c)
<1>1. FlagTyped'
  BY TypedStays DEF PipelineInv, Typed
<1>2. WorkFits(c)
  BY DEF PipelineInv, WorkInv
<1>3. c.what # "idle" => Placed(c)
  BY TurnTyped DEF Placed
<1> QED BY <1>1, <1>2, <1>3, SetupStays DEF PipelineInv

\* The host enqueues an operation.
LEMMA HostMoveWorks ==
    ASSUME PipelineInv, Next, ~lost', NEW o, HostMove(o),
           NEW c, c = Cur, NEW d, d = Cur'
    PROVE  WorkFits(d)'
<1> USE DEF PipelineInv
<1>1. /\ setup' = setup /\ Typed /\ FlagTyped' /\ WorkFits(c)
      /\ c.what # "idle" => Placed(c)
  BY WorkNow
<1>2. /\ UNCHANGED <<queue, input, output, spoiled>> /\ host.at # "idle"
      /\ o.what = HostOp.what /\ o.pass = HostOp.pass /\ o.layer = HostOp.layer
      /\ o.buf = HostOp.buf \/ (o.what = "in" /\ o.layer = 0)
      /\ deferrals' = IF o.what = "later" THEN deferrals \cup {<<o.pass, o.layer>>} ELSE deferrals
      /\ OpFits(o)
  BY DEF HostMove, HostOp
<1>3. ASSUME o.what = "later", stream = <<>>, c.what # "idle" PROVE c = HostOp
  BY <1>3 DEF Cur, HostCur, IdleOp
<1>4. ASSUME c.what # "idle" PROVE SameDefers(c)
  <2>1. CASE o.what # "later"
    BY <1>2, <2>1 DEF SameDefers, Defers
  <2>2. CASE o.what = "later" /\ stream = <<>>
    <3>1. c.what = "later" /\ c.layer = o.layer /\ c.pass = o.pass
      BY <1>2, <1>3, <1>4, <2>2
    <3>2. \A k \in LayerSet : Passed(k, c) => k < c.layer
      BY <3>1 DEF Passed, Submitted
    <3>3. \A k \in LayerSet : k < c.layer => k # c.layer
      BY <1>1, <1>4, Facts DEF Placed
    <3> QED BY <1>2, <2>2, <3>1, <3>2, <3>3 DEF SameDefers, Defers
  <2>3. CASE o.what = "later" /\ stream # <<>>
    <3>1. Path = "stream"
      <4>1. Path \in {"stream", "filled"}
        BY <1>2, <2>3, Facts DEF OpFits, PathWhats, SetupFacts, Paths
      <4>2. Path # "filled"
        <5>1. host.at = "later"
          BY <1>2, <2>3 DEF HostOp
        <5> QED BY <2>3, <5>1, StreamIsDone DEF Typed, HostTyped
      <4> QED BY <4>1, <4>2
    <3>2. c \in Elems(stream)
      BY <2>3, ElemsTail DEF Cur, Typed, WorkTyped
    <3>3. \A k \in Deferring : Passed(k, c) => Defers(c.pass, k)
      BY <3>1, <3>2 DEF StreamInv, OpDefers, AllDefer
    <3>4. o.layer \in Deferring
      BY <1>2, <2>3 DEF OpFits
    <3> QED BY <1>2, <2>3, <3>3, <3>4 DEF SameDefers, Defers
  <2> QED BY <2>1, <2>2, <2>3
<1>5. WorkFits(c)'
  BY <1>1, <1>2, <1>4, WorkStays
<1>6. CASE stream # <<>> /\ d = c
  BY <1>5, <1>6
<1>7. CASE stream = <<>> /\ ~host.capturing /\ c = HostOp /\ d = o
  <2>1. CASE o.buf = HostOp.buf
    BY <1>2, <1>5, <1>7, <2>1, WorkSame
  <2>2. CASE o.what = "in" /\ o.layer = 0
    <3>1. queue' = <<>>
      BY <1>1, <1>2, <1>7, <2>2, FirstEmpty
    <3> QED BY <1>1, <1>7, <2>2, <3>1, FreshWork
  <2> QED BY <1>2, <2>1, <2>2
<1>8. CASE c.what = "idle" /\ d.what = "idle"
  <2>1. queue' = <<>>
    BY <1>1, <1>2, <1>8 DEF WorkFits, QueueFits
  <2> QED BY <1>1, <1>8, <2>1, FreshWork
<1> QED BY <1>6, <1>7, <1>8, HostMoveTurn

\* The host submits or waits itself.
LEMMA DirectWorks ==
    ASSUME PipelineInv, Next, ~lost', HostDirect,
           NEW c, c = Cur, NEW d, d = Cur'
    PROVE  WorkFits(d)'
<1> USE DEF PipelineInv
<1>1. /\ setup' = setup /\ Typed /\ FlagTyped' /\ WorkFits(c)
      /\ c.what # "idle" => Placed(c)
  BY WorkNow
<1>3. /\ host' = [host EXCEPT !.at = host'.at] /\ host'.capturing = host.capturing
      /\ host.at \in {"now", "later", "sync"} /\ host'.at \in {"later", "sync", "out"}
  BY HostFields DEF HostDirect
<1>2. /\ c = HostOp /\ d = HostOp'
      /\ UNCHANGED <<input, output, spoiled>>
  <2>1. stream = <<>> /\ stream' = <<>> /\ ~host.capturing /\ UNCHANGED <<input, output, spoiled>>
    BY DEF HostDirect
  <2>2. HostCur = HostOp /\ HostCur' = HostOp'
    BY <1>3, <2>1 DEF HostCur
  <2> QED BY <2>1, <2>2 DEF Cur
<1>4. /\ c.what = host.at /\ c.pass = host.pass /\ c.layer = host.layer /\ c.buf = host.buf
      /\ d.what = host'.at /\ d.pass = host.pass /\ d.layer = host.layer /\ d.buf = host.buf
      /\ c.what # "idle" /\ Placed(c)
  <2>1. host'.pass = host.pass /\ host'.layer = host.layer /\ host'.buf = host.buf
    BY <1>3, HostFields
  <2>2. c.what = host.at /\ c.pass = host.pass /\ c.layer = host.layer /\ c.buf = host.buf
    BY <1>2, <1>3 DEF HostOp
  <2>3. d.what = host'.at /\ d.pass = host.pass /\ d.layer = host.layer /\ d.buf = host.buf
    BY <1>2, <1>3, <2>1 DEF HostOp
  <2>4. c.what # "idle"
    BY <1>3, <2>2
  <2> QED BY <1>1, <2>2, <2>3, <2>4
<1>5. FlagFits(c) /\ host.buf \in Buffers
  BY <1>2, <1>3 DEF FlagInv, Front, HostDirect, Typed, HostTyped
<1>6. CASE host.at = "now"
  <2>1. PICK t : t = Immediate(host.buf, host.pass, host.layer)
    OBVIOUS
  <2>2. /\ queue' = Append(queue, t) /\ deferrals' = deferrals
        /\ host'.at = IF host.layer \in Deferring THEN "later" ELSE "sync"
    BY <1>6, <2>1, HostFields DEF HostDirect
  <2>3. t \in TaskType
    BY <1>4, <1>5, <2>1, TasksTyped DEF Placed
  <2>4. /\ t.kind = "now" /\ t.pass = c.pass /\ t.buf = c.buf /\ t.layer = c.layer
        /\ t.into = SlotOf(t.layer)
        /\ t.incremental = (t.layer - 1 \in LayerSet /\ pending_deferred[t.layer - 1])
    BY <1>4, <2>1 DEF Immediate
  <2>5. t.incremental <=> Defers(t.pass, t.layer - 1)
    <3>1. \A k \in LayerSet : k = c.layer - 1 => (pending_deferred[k] <=> Defers(c.pass, k))
      BY <1>4, <1>5 DEF FlagFits, HostDirect
    <3> QED BY <1>1, <2>4, <3>1, NoneBefore
  <2>6. ~Defers(c.pass, c.layer)'
    <3>1. ~Passed(c.layer, c)
      BY <1>4, <1>6, Facts DEF Placed, Passed, Submitted
    <3>2. ~Defers(c.pass, c.layer)
      BY <1>4, <1>5, <3>1 DEF FlagFits, Placed
    <3> QED BY <2>2, <3>2 DEF Defers
  <2>7. c.what \in {"now", "pinned"} /\ d.what \in {"later", "sync", "wait"}
    BY <1>4, <1>6, <2>2
  <2> QED BY <1>1, <1>2, <1>4, <2>2, <2>3, <2>4, <2>5, <2>6, <2>7, NowWork
<1>7. CASE host.at = "later" /\ queue' = Append(queue, Deferred(host.buf, host.pass, host.layer))
           /\ deferrals' = deferrals \cup {<<host.pass, host.layer>>} /\ host'.at = "sync"
  <2>1. PICK t : t = Deferred(host.buf, host.pass, host.layer)
    OBVIOUS
  <2>2. t \in TaskType
    BY <1>4, <1>5, <2>1, TasksTyped DEF Placed
  <2>3. /\ t.kind = "later" /\ t.pass = c.pass /\ t.buf = c.buf /\ t.layer = c.layer
        /\ t.into = NextSlot(t.layer) /\ ~t.incremental
    BY <1>4, <2>1 DEF Deferred
  <2>4. /\ Defers(c.pass, c.layer)'
        /\ \A k \in LayerSet : k # c.layer => (Defers(c.pass, k)' <=> Defers(c.pass, k))
    BY <1>4, <1>7 DEF Defers
  <2> QED BY <1>1, <1>2, <1>4, <1>7, <2>1, <2>2, <2>3, <2>4, LaterWork
<1>8. CASE host.at = "later" /\ UNCHANGED <<queue, deferrals>> /\ host'.at = "sync"
  <2>1. ~Passed(c.layer, c)
    BY <1>4, <1>8, Facts DEF Placed, Passed, Submitted
  <2>2. ~Defers(c.pass, c.layer)
    BY <1>4, <1>5, <2>1 DEF FlagFits, Placed
  <2> QED BY <1>1, <1>2, <1>4, <1>8, <2>2, SkipWork
<1>9. CASE host.at = "sync"
  <2>1. /\ Len(queue) <= IF Defers(c.pass, c.layer) THEN 1 ELSE 0
        /\ UNCHANGED <<queue, deferrals>> /\ host'.at = "out"
    BY <1>4, <1>9, HostFields DEF HostDirect
  <2> QED BY <1>1, <1>2, <1>4, <1>9, <2>1, WaitWork
<1> QED BY <1>3, <1>6, <1>7, <1>8, <1>9, HostFields DEF HostDirect

\* The host gives up the pass.
LEMMA GivesUpWorks ==
    ASSUME PipelineInv, Next, ~lost', HostGivesUp,
           NEW c, c = Cur, NEW d, d = Cur'
    PROVE  WorkFits(d)'
<1>1. /\ setup' = setup /\ Typed /\ FlagTyped'
  BY WorkNow
<1>2. d.what = "idle" /\ queue' = <<>>
  BY DEF HostGivesUp, Cur, HostCur, HostOp, IdleOp, Idle
<1> QED BY <1>1, <1>2, FreshWork

\* A pass begins, or a graph is replayed.
LEMMA BeginWorks ==
    ASSUME PipelineInv, Next, ~lost', NEW b \in BatchSizes,
           Replay(b) \/ \E e \in BOOLEAN : Begin(b, e),
           NEW c, c = Cur, NEW d, d = Cur'
    PROVE  WorkFits(d)'
<1>1. /\ setup' = setup /\ Typed /\ FlagTyped' /\ WorkFits(c)
      /\ c.what # "idle" => Placed(c)
  BY SMTT(30), WorkNow
<1>2. UNCHANGED <<queue, input, output, spoiled>>
  BY DEF Replay, Begin, memory, hist
<1>3. \A p, k : Defers(p, k)' => Defers(p, k) \/ p = passes + 1
  BY ZenonT(40) DEF Replay, Begin, hist, Defers
<1>4. \A p, k : Defers(p, k) => Defers(p, k)'
  BY ZenonT(40) DEF Replay, Begin, hist, Defers
<1>5. c.what # "idle" => c.pass # passes + 1
  <2>1. c.what # "idle" => c.pass <= passes /\ c.pass \in Passes
    BY TurnTyped
  <2>2. passes \in Nat
    BY <1>1, Facts
  <2> QED BY <1>1, <2>1, <2>2, Facts
<1>6. c.what # "idle" => SameDefers(c)
  BY <1>3, <1>4, <1>5 DEF SameDefers
<1>7. WorkFits(c)'
  BY <1>1, <1>2, <1>6, WorkStays
<1>8. c.what = "idle" => queue' = <<>>
  BY <1>1, <1>2 DEF WorkFits, QueueFits
<1>9. CASE c.what = "idle" /\ (d.what = "idle" \/ (d.what = "in" /\ d.layer = 0))
  BY <1>1, <1>8, <1>9, FreshWork
<1> QED BY <1>7, <1>9, FirstTurn

\* A step that has to do with neither operations nor tasks.
LEMMA ApartWorks ==
    ASSUME PipelineInv, Next, ~lost',
           UNCHANGED <<queue, input, output, deferrals, spoiled>>,
           NEW c, c = Cur, NEW d, d = Cur', d = c
    PROVE  WorkFits(d)'
<1>1. /\ setup' = setup /\ Typed /\ FlagTyped' /\ WorkFits(c)
      /\ c.what # "idle" => Placed(c)
  BY WorkNow
<1>3. SameDefers(c)
  BY DEF SameDefers, Defers
<1> QED BY <1>1, <1>3, WorkStays

\* The worker runs its first task.
LEMMA RunWorks ==
    ASSUME PipelineInv, Next, ~lost', RunTask,
           NEW c, c = Cur, NEW d, d = Cur'
    PROVE  WorkFits(d)'
<1>1. /\ setup' = setup /\ Typed /\ FlagTyped' /\ WorkFits(c)
      /\ c.what # "idle" => Placed(c)
  BY WorkNow
<1>2. d = c /\ c.what # "idle"
  <2>1. queue # <<>> /\ UNCHANGED <<host, stream>>
    BY DEF RunTask
  <2> QED BY <1>1, <2>1 DEF Cur, HostCur, HostOp, WorkFits, QueueFits
<1> QED BY <1>1, <1>2, RunWork

\* The stream does its first operation.
LEMMA StreamWorks ==
    ASSUME PipelineInv, Next, ~lost', StreamStep \/ PinnedRaises,
           NEW c, c = Cur, NEW d, d = Cur'
    PROVE  WorkFits(d)'
<1> USE DEF PipelineInv
<1>1. /\ setup' = setup /\ Typed /\ FlagTyped' /\ WorkFits(c)
      /\ c.what # "idle" => Placed(c)
  BY SMTT(30), WorkNow
<1>2. stream # <<>> /\ c = Head(stream) /\ c \in OpType /\ host' = host
  BY OpAt DEF StreamStep, PinnedRaises, Cur
<1>3. OpFits(c) /\ OpDefers(c) /\ (Looks(c) => Has(c.size, c.buf))
  <2>1. c \in Elems(stream)
    BY <1>2, ElemsTail DEF Typed, WorkTyped
  <2> QED BY <2>1 DEF StreamInv, HoldInv, StreamHolds
<1>4. Placed(c) /\ c.layer \in Nat /\ c.buf \in Buffers /\ c.size \in BatchSizes
  BY <1>2, Facts DEF Placed, OpType
<1>5. stream' = Tail(stream) => Follows(c, d)
  BY <1>2, StreamTurn
<1>6. c.what \in {"in", "now", "later", "sync", "out", "pinned", "wait"} /\ c.what # "idle"
  BY <1>3 DEF OpFits, PathWhats
<1>7. \A p, k : Defers(p, k) => k \in Deferring /\ k \in LayerSet
  BY <1>1, NoneBefore
<1>8. CASE c.what = "in"
  <2>1. /\ input' = [input EXCEPT ![c.buf][SlotOf(c.layer)] = <<c.pass, c.layer>>]
        /\ stream' = Tail(stream) /\ UNCHANGED <<queue, output, deferrals, spoiled>>
    BY <1>2, <1>8 DEF StreamStep, PinnedRaises
  <2>2. d.what \in {"now", "pinned"} /\ d.pass = c.pass /\ d.buf = c.buf /\ d.layer = c.layer
    BY <1>5, <1>8, <2>1 DEF Follows, Step
  <2> QED BY <1>1, <1>4, <1>8, <2>1, <2>2, InWork
<1>9. CASE c.what = "now"
  <2>1. PICK t \in TaskType : t = TaskOf(c)
    BY SMTT(30), <1>1, <1>2, <1>9, TaskOfTyped
  <2>2. /\ queue' = Append(queue, t) /\ stream' = Tail(stream)
        /\ UNCHANGED <<input, output, deferrals, spoiled>>
    BY <1>2, <1>9, <2>1 DEF StreamStep, PinnedRaises, memory
  <2>3. /\ d.what = (IF c.layer \in Deferring THEN "later" ELSE "sync")
        /\ d.pass = c.pass /\ d.buf = c.buf /\ d.layer = c.layer
    BY <1>5, <1>9, <2>2 DEF Follows, Step
  <2>4. /\ t.kind = "now" /\ t.pass = c.pass /\ t.buf = c.buf /\ t.layer = c.layer
        /\ t.into = SlotOf(t.layer) /\ t.incremental = c.incremental
    BY <1>9, <2>1 DEF TaskOf
  <2>5. Path = "stream"
    BY <1>3, <1>9 DEF OpFits, PathWhats
  <2>6. t.incremental <=> Defers(t.pass, t.layer - 1)
    <3>1. c.incremental <=> c.layer - 1 \in Deferring
      BY <1>3, <1>9 DEF OpFits
    <3>2. Passed(c.layer - 1, c)
      BY <1>4 DEF Passed
    <3>3. c.layer - 1 \in Deferring => Defers(c.pass, c.layer - 1)
      BY <1>3, <2>5, <3>2 DEF OpDefers, AllDefer
    <3> QED BY <1>7, <2>4, <3>1, <3>3
  <2>7. d.what # "later" => ~Defers(c.pass, c.layer)'
    BY <1>7, <2>2, <2>3 DEF Defers
  <2>8. c.what \in {"now", "pinned"} /\ d.what \in {"later", "sync", "wait"}
    BY <1>9, <2>3
  <2> QED BY <1>1, <1>4, <2>2, <2>3, <2>4, <2>6, <2>7, <2>8, NowWork
<1>10. CASE c.what = "later"
  <2>1. PICK t \in TaskType : t = TaskOf(c)
    BY SMTT(30), <1>1, <1>2, <1>10, TaskOfTyped
  <2>2. /\ queue' = Append(queue, t) /\ stream' = Tail(stream)
        /\ UNCHANGED <<input, output, deferrals, spoiled>>
    BY <1>2, <1>10, <2>1 DEF StreamStep, PinnedRaises, memory
  <2>3. d.what = "sync" /\ d.pass = c.pass /\ d.buf = c.buf /\ d.layer = c.layer
    BY <1>5, <1>10, <2>2 DEF Follows, Step
  <2>4. /\ t.kind = "later" /\ t.pass = c.pass /\ t.buf = c.buf /\ t.layer = c.layer
        /\ t.into = NextSlot(t.layer) /\ t.incremental = c.incremental
    BY <1>10, <2>1 DEF TaskOf
  <2>5. Defers(c.pass, c.layer)' /\ \A k : Defers(c.pass, k)' <=> Defers(c.pass, k)
    BY <1>3, <1>10, <2>2 DEF OpDefers, Defers
  <2>6. ~t.incremental
    BY <1>3, <1>10, <2>4 DEF OpFits
  <2> QED BY <1>1, <1>4, <1>10, <2>2, <2>3, <2>4, <2>5, <2>6, LaterWork
<1>11. CASE c.what \in {"sync", "wait"} /\ ~PinnedRaises
  <2>1. /\ Len(queue) <= c.allow /\ stream' = Tail(stream)
        /\ UNCHANGED <<queue, input, output, deferrals, spoiled>>
    BY <1>2, <1>11 DEF StreamStep, memory
  <2>2. d.what = "out" /\ d.pass = c.pass /\ d.buf = c.buf /\ d.layer = c.layer
    BY <1>5, <1>11, <2>1 DEF Follows, Step
  <2>3. c.allow = IF Defers(c.pass, c.layer) THEN 1 ELSE 0
    <3>1. CASE c.what = "wait"
      BY <1>3, <3>1 DEF OpDefers
    <3>2. CASE c.what = "sync"
      <4>1. Path = "stream" /\ c.allow = IF c.layer \in Deferring THEN 1 ELSE 0
        BY <1>3, <3>2 DEF OpFits, PathWhats
      <4>2. c.layer \in Deferring => Defers(c.pass, c.layer)
        BY <1>3, <3>2, <4>1 DEF OpDefers, AllDefer, Passed, Submitted
      <4> QED BY <1>7, <4>1, <4>2
    <3> QED BY <1>11, <3>1, <3>2
  <2>4. Len(queue) <= IF Defers(c.pass, c.layer) THEN 1 ELSE 0
    BY <2>1, <2>3
  <2> QED BY SMTT(30), <1>1, <1>4, <1>11, <2>1, <2>2, <2>4, WaitWork
<1>12. CASE c.what = "out"
  <2>1. stream' = Tail(stream) /\ UNCHANGED <<queue, input, output, deferrals, spoiled>>
    BY <1>2, <1>12 DEF StreamStep, PinnedRaises, memory
  <2> QED BY SMTT(30), <1>1, <1>4, <1>5, <1>12, <2>1, OutWork
<1>13. CASE PinnedRaises
  <2>1. c.what \in {"pinned", "wait"} /\ queue' = <<>> /\ c.pass \in spoiled' /\ stream' = Tail(stream)
    BY <1>2, <1>13 DEF PinnedRaises
  <2>2. d.what = "out" /\ d.pass = c.pass
    BY <1>5, <2>1 DEF Follows, Step
  <2> QED BY <1>1, <2>1, <2>2, RaiseWork
<1>14. CASE c.what = "pinned" /\ ~PinnedRaises
  <2>1. PICK u \in Buffers, later \in BOOLEAN :
          /\ GetBuffer(c.size, u) /\ (later => c.layer \in Deferring)
          /\ IF later
             THEN queue' = Append(Append(queue, Immediate(u, c.pass, c.layer)), Deferred(u, c.pass, c.layer))
             ELSE queue' = Append(queue, Immediate(u, c.pass, c.layer))
          /\ deferrals' = IF later THEN deferrals \cup {<<c.pass, c.layer>>} ELSE deferrals
          /\ d.what = "wait" /\ d.pass = c.pass /\ d.layer = c.layer /\ d.buf = c.buf
          /\ UNCHANGED <<input, output, spoiled>>
    BY <1>2, <1>14, PinnedTurn
  <2>2. u = c.buf
    <3>1. PICK b \in BatchSizes : b = c.size
      BY <1>4
    <3>2. Looked(b, u)
      BY <1>1, <2>1, <3>1, LookedUp DEF Typed, Pooled
    <3>3. Has(b, c.buf)
      BY <1>3, <1>14, <3>1 DEF Looks
    <3> QED BY <1>4, <3>2, <3>3 DEF Looked
  <2>3. PICK s : s = Immediate(u, c.pass, c.layer)
    OBVIOUS
  <2>4. PICK t : t = Deferred(u, c.pass, c.layer)
    OBVIOUS
  <2>5. s \in TaskType /\ t \in TaskType
    BY <1>1, <1>4, <2>3, <2>4, TasksTyped DEF Placed
  <2>6. /\ s.kind = "now" /\ s.pass = c.pass /\ s.buf = c.buf /\ s.layer = c.layer
        /\ s.into = SlotOf(s.layer)
        /\ s.incremental = (s.layer - 1 \in LayerSet /\ pending_deferred[s.layer - 1])
    BY <2>2, <2>3 DEF Immediate
  <2>7. /\ t.kind = "later" /\ t.pass = c.pass /\ t.buf = c.buf /\ t.layer = c.layer
        /\ t.into = NextSlot(t.layer) /\ ~t.incremental
    BY <2>2, <2>4 DEF Deferred
  <2>8. FlagFits(c)
    <3>1. Path = "pinned"
      BY <1>3, <1>14, <1>1, Facts DEF OpFits, PathWhats, SetupFacts, Paths
    <3> QED BY <3>1 DEF FlagInv, Front
  <2>9. s.pass \notin spoiled => (s.incremental <=> Defers(s.pass, s.layer - 1))
    <3>1. c.pass \notin spoiled =>
            \A k \in LayerSet : k = c.layer - 1 => (pending_deferred[k] <=> Defers(c.pass, k))
      BY <1>6, <2>8 DEF FlagFits
    <3> QED BY <1>7, <2>6, <3>1
  <2>10. ~Defers(c.pass, c.layer)
    <3>1. ~Passed(c.layer, c)
      BY <1>4, <1>14 DEF Passed, Submitted
    <3> QED BY <1>4, <1>6, <2>8, <3>1 DEF FlagFits, Placed
  <2>11. CASE later
    <3>1. queue' = Append(Append(queue, s), t)
      BY <2>1, <2>3, <2>4, <2>11
    <3>2. /\ Defers(c.pass, c.layer)'
          /\ \A k \in LayerSet : k # c.layer => (Defers(c.pass, k)' <=> Defers(c.pass, k))
      BY <2>1, <2>11 DEF Defers
    <3> QED BY <1>1, <1>4, <1>14, <2>1, <2>5, <2>6, <2>7, <2>9, <3>1, <3>2, BothWork
  <2>12. CASE ~later
    <3>1. queue' = Append(queue, s) /\ deferrals' = deferrals
      BY <2>1, <2>3, <2>12
    <3>2. ~Defers(c.pass, c.layer)'
      BY <2>10, <3>1 DEF Defers
    <3>3. c.what \in {"now", "pinned"} /\ d.what \in {"later", "sync", "wait"}
      BY <1>14, <2>1
    <3> QED BY <1>1, <1>4, <2>1, <2>5, <2>6, <2>9, <3>1, <3>2, <3>3, NowWork
  <2> QED BY <2>11, <2>12
<1> QED BY <1>6, <1>8, <1>9, <1>10, <1>11, <1>12, <1>13, <1>14

\* The queue and the memory stay as the invariant says.
LEMMA WorkInvStays ==
    ASSUME PipelineInv, Next, ~lost'
    PROVE  WorkInv'
<1>1. PICK c : c = Cur
  OBVIOUS
<1>2. PICK d : d = Cur'
  OBVIOUS
<1>3. WorkFits(d)'
  <2>1. CASE HostStep /\ ~HostRests
    BY <1>1, <1>2, <2>1, HostSteps, HostMoveWorks, DirectWorks, GivesUpWorks
  <2>2. CASE HostRests
    <3>1. UNCHANGED <<queue, input, output, deferrals, spoiled>>
      BY <2>2 DEF HostRests
    <3>2. d = c
      BY <1>1, <1>2, <2>2, RestsSame
    <3> QED BY <1>1, <1>2, <3>1, <3>2, ApartWorks
  <2>3. CASE StreamStep \/ PinnedRaises
    BY <1>1, <1>2, <2>3, StreamWorks
  <2>4. CASE RunTask
    BY <1>1, <1>2, <2>4, RunWorks
  <2>5. CASE \E b \in BatchSizes : Replay(b) \/ \E e \in BOOLEAN : Begin(b, e)
    BY <1>1, <1>2, <2>5, BeginWorks
  <2>6. CASE ClearBufferCache \/ \E bs \in SUBSET BatchSizes : SetCaptureBatchSizes(bs)
    <3>1. UNCHANGED <<host, stream, queue, input, output, deferrals, spoiled>>
      BY <2>6 DEF ClearBufferCache, SetCaptureBatchSizes, memory, hist
    <3>2. d = c
      BY <1>1, <1>2, <3>1 DEF Cur, HostCur, HostOp
    <3> QED BY <1>1, <1>2, <3>1, <3>2, ApartWorks
  <2> QED BY <2>1, <2>2, <2>3, <2>4, <2>5, <2>6 DEF Next
<1>4. (\A x \in {Cur} : WorkFits(x))'
  <2>1. QueueFits(Cur)' /\ InputFits(Cur)' /\ OutputFits(Cur)'
    BY <1>2, <1>3 DEF WorkFits, QueueFits, InputFits, OutputFits, InOrder, Top, Low, Done, Submitted,
       Late, Defers
  <2> QED BY <2>1 DEF WorkFits
<1> QED BY <1>4 DEF WorkInv

-----------------------------------------------------------------------------
(* The pinned path, also when a buffer was lost: the tasks and the graphs  *)
(* have only buffers that stay.                                            *)

Submits(op) == op.what \in {"now", "later"}
PinnedInv ==
    Path = "pinned" =>
        /\ QueueHolds /\ GraphsHold
        /\ \A op \in Elems(stream) : ~Submits(op)
        /\ \A b \in BatchSizes : \A op \in Elems(graphs[b]) : ~Submits(op)
        /\ host.at = "callback" /\ host.capturing => capture_buffers[host.size] = host.buf

\* A lookup of the host leaves the buffers of what is in flight, and under
\* capture finds one that stays.
LEMMA PinnedLooks ==
    ASSUME Typed, Distinct, host.at # "idle", NEW u \in Buffers, HostBuffer(u)
    PROVE  /\ Captured /\ (Keeps \/ queue = <<>>)
           /\ host.capturing => capture_buffers'[host.size] = u
<1>1. PICK b \in BatchSizes : b = host.size
  BY HostSize
<1>2. CASE GetBuffer(b, u)
  <2>1. Looked(b, u)
    BY <1>2, LookedUp DEF Typed, Pooled
  <2> QED BY <1>1, <2>1 DEF Looked, Keeps, Captured, Drained
<1>3. CASE host.evicting = u /\ DropOldest /\ UNCHANGED capture_buffers
  <2>1. ~host.capturing
    BY <1>3, BufferType DEF Typed, HostTyped
  <2> QED BY <1>3, <2>1 DEF Captured, DropOldest, Drained
<1> QED BY <1>1, <1>2, <1>3 DEF HostBuffer

\* The host waits for everything before it drops a buffer, and
\* clear_buffer_cache for the queue.
LEMMA PinnedKeeps ==
    ASSUME Typed, Distinct, Next
    PROVE  Captured /\ (Keeps \/ queue = <<>>)
<1>1. CASE UNCHANGED <<temp_buffers, capture_buffers>>
  BY <1>1, SamePools
<1>2. ASSUME NEW b \in BatchSizes, NEW u \in Buffers, GetBuffer(b, u) \/ Allocate(b, u)
      PROVE  Captured /\ (Keeps \/ queue = <<>>)
  <2>1. Looked(b, u)
    BY <1>2, LookedUp, LookedNew DEF Typed, Pooled
  <2> QED BY <2>1 DEF Looked, Keeps, Captured, Drained
<1>3. CASE MakeRoom
  <2>1. PICK b \in BatchSizes : b = host.size
    BY <1>3, HostSize DEF MakeRoom
  <2> QED BY <1>2, <1>3, <2>1 DEF MakeRoom
<1>4. CASE Prepare \/ SyncForward \/ CopyOutput
  <2>1. host.at # "idle" /\ \E u \in Buffers : HostBuffer(u)
    BY <1>4 DEF Prepare, SyncForward, CopyOutput, At
  <2> QED BY <2>1, PinnedLooks
<1>5. CASE StreamStep \/ PinnedRaises
  <2>1. PICK b \in BatchSizes : b = Head(stream).size
    BY <1>5, OpAt DEF StreamStep, PinnedRaises, OpType
  <2>2. UNCHANGED pools \/ \E u \in Buffers : GetBuffer(b, u) \/ Allocate(b, u)
    BY <1>5, <2>1 DEF StreamStep, PinnedRaises
  <2> QED BY <1>1, <1>2, <2>2 DEF pools
<1>6. CASE ClearBufferCache
  BY <1>1, <1>6 DEF ClearBufferCache, ClearTemp, Captured
<1>7. CASE SubmitNow \/ SubmitLater \/ SkipLater \/ LaunchPinned \/ Raises \/ RunTask
  BY SMTT(30), <1>1, <1>7 DEF SubmitNow, SubmitLater, SkipLater, LaunchPinned, Raises, RunTask, pools
<1>8. ASSUME NEW b \in BatchSizes, Replay(b) \/ \E c \in BOOLEAN : Begin(b, c)
      PROVE  UNCHANGED <<temp_buffers, capture_buffers>>
  BY <1>8 DEF Replay, Begin, pools
<1>9. ASSUME NEW bs \in SUBSET BatchSizes, SetCaptureBatchSizes(bs)
      PROVE  UNCHANGED <<temp_buffers, capture_buffers>>
  BY <1>9 DEF SetCaptureBatchSizes
<1> QED BY <1>1, <1>3, <1>4, <1>5, <1>6, <1>7, <1>8, <1>9 DEF Next, HostStep

\* What the host enqueues.
PinnedGrows(o) ==
    /\ o \in OpType /\ ~Submits(o) /\ o.size = host.size
    /\ IF host.capturing
       THEN /\ graphs' = [graphs EXCEPT ![host.size] = Append(graphs[host.size], o)]
            /\ stream' = stream /\ o.buf = capture_buffers'[host.size]
       ELSE stream' = Append(stream, o) /\ graphs' = graphs

\* The host's steps on the pinned path.
LEMMA PinnedHost ==
    ASSUME Typed, Distinct, PinnedInv, Next, HostStep, Path = "pinned"
    PROVE  /\ UNCHANGED <<stream, graphs>> \/ \E o : PinnedGrows(o)
           /\ queue' = queue
           /\ host'.at = "callback" /\ host'.capturing => capture_buffers'[host'.size] = host'.buf
<1>1. host.at \notin {"now", "later", "sync"} /\ host.at # "idle"
  <2>1. host.at # "idle"
    BY DEF HostStep, MakeRoom, Prepare, SubmitNow, SubmitLater, SkipLater, SyncForward, Raises,
           LaunchPinned, CopyOutput, At, Typed, HostTyped, Idle
  <2> QED BY <2>1 DEF Typed, HostTyped
<1>2. ASSUME NEW what \in {"in", "pinned", "out"}, NEW u \in Buffers,
             Enqueue(<<Op(what, u, host.pass, host.layer, 0, FALSE)>>),
             host.capturing => capture_buffers'[host.size] = u
      PROVE  \E o : PinnedGrows(o)
  <2>1. PICK o : o = Op(what, u, host.pass, host.layer, 0, FALSE)
    OBVIOUS
  <2>2. o = [what |-> what, buf |-> u, pass |-> host.pass, layer |-> host.layer, allow |-> 0,
             incremental |-> FALSE, size |-> host.size]
    BY <2>1 DEF Op
  <2>3. o \in OpType /\ ~Submits(o) /\ o.size = host.size /\ o.buf = u
    BY <1>1, <2>2, HostSize, HostFields DEF OpType, Whats, Submits
  <2>4. IF host.capturing
        THEN /\ graphs' = [graphs EXCEPT ![host.size] = Append(graphs[host.size], o)]
             /\ stream' = stream
        ELSE stream' = Append(stream, o) /\ graphs' = graphs
    BY <1>1, <1>2, <2>1, <2>3, HostSize, EnqueueOne
  <2> QED BY <1>2, <2>3, <2>4 DEF PinnedGrows
<1>3. CASE Prepare
  <2>1. PICK u \in Buffers :
          /\ HostBuffer(u)
          /\ host' = [host EXCEPT !.at = "callback", !.buf = u, !.evicting = 0]
          /\ Enqueue(<<Op("in", u, host.pass, host.layer, 0, FALSE)>>)
    BY <1>3 DEF Prepare, CopyIn
  <2>2. host.capturing => capture_buffers'[host.size] = u
    BY <1>1, <2>1, PinnedLooks
  <2>3. host'.capturing = host.capturing /\ host'.size = host.size /\ host'.buf = u
    BY <2>1, HostFields
  <2> QED BY <1>2, <1>3, <2>1, <2>2, <2>3 DEF Prepare
<1>4. CASE LaunchPinned
  <2>1. /\ host.at = "callback" /\ host' = [host EXCEPT !.at = "out"]
        /\ Enqueue(<<Op("pinned", host.buf, host.pass, host.layer, 0, FALSE)>>)
        /\ UNCHANGED <<pools, queue>>
    BY <1>4 DEF LaunchPinned, At, Goes, WholeLayer
  <2>2. host.buf \in Buffers /\ host'.at = "out"
    BY <2>1, HostFields DEF Typed, HostTyped
  <2>3. host.capturing => capture_buffers'[host.size] = host.buf
    BY <2>1 DEF PinnedInv, pools
  <2> QED BY <1>2, <2>1, <2>2, <2>3
<1>5. CASE CopyOutput
  <2>1. PICK u \in Buffers :
          /\ HostBuffer(u) /\ Enqueue(<<Op("out", u, host.pass, host.layer, 0, FALSE)>>)
          /\ host' = IF host.layer + 1 \in LayerSet
                     THEN [host EXCEPT !.at = "prepare", !.layer = @ + 1, !.evicting = 0]
                     ELSE Idle
    BY <1>5 DEF CopyOutput, CopyOut
  <2>2. host.capturing => capture_buffers'[host.size] = u
    BY <1>1, <2>1, PinnedLooks
  <2>3. host'.at # "callback"
    BY <2>1, HostFields DEF Idle
  <2> QED BY <1>2, <1>5, <2>1, <2>2, <2>3 DEF CopyOutput
<1>6. CASE MakeRoom
  <2>1. PICK u \in Buffers : host' = [host EXCEPT !.evicting = u]
    BY <1>6 DEF MakeRoom
  <2>2. host'.at = host.at /\ host.at # "callback"
    BY <1>6, <2>1, HostFields DEF MakeRoom
  <2> QED BY <1>6, <2>2 DEF MakeRoom
<1>7. CASE Raises
  BY <1>7 DEF Raises, Raise, Idle
<1> QED BY <1>1, <1>3, <1>4, <1>5, <1>6, <1>7
        DEF HostStep, SubmitNow, SubmitLater, SkipLater, SyncForward, At

\* The stream's steps on the pinned path.
LEMMA PinnedStream ==
    ASSUME Typed, Distinct, PinnedInv, Next, StreamStep \/ PinnedRaises, Path = "pinned"
    PROVE  /\ UNCHANGED <<host, graphs>>
           /\ \A op \in Elems(stream') : ~Submits(op)
           /\ \A t \in Elems(queue') : t \in Elems(queue) \/ \E b \in BatchSizes : Has(b, t.buf)'
<1>1. PICK op \in OpType : op = Head(stream) /\ op \in Elems(stream) /\ stream # <<>>
  <2>1. stream # <<>>
    BY DEF StreamStep, PinnedRaises
  <2>2. Head(stream) \in OpType /\ Head(stream) = stream[1] /\ 1 \in DOMAIN stream
    BY <2>1, OpAt
  <2> QED BY <2>1, <2>2 DEF Elems
<1>2. PICK tl \in Seq(OpType) : tl = Tail(stream) /\ Elems(tl) \subseteq Elems(stream)
  <2>1. stream \in Seq(OpType) /\ Tail(stream) \in Seq(OpType)
    BY <1>1, OpAt DEF Typed, WorkTyped
  <2> QED BY <1>1, <2>1, ElemsTail
<1>3. ~Submits(op) /\ \A x \in Elems(tl) : ~Submits(x)
  BY <1>1, <1>2 DEF PinnedInv
<1>4. PICK s : s = stream'
  OBVIOUS
<1>5. \A x \in Elems(s) : ~Submits(x)
  <2>1. CASE s = tl
    BY <1>3, <2>1
  <2>2. ASSUME NEW w \in OpType, ~Submits(w), s = <<w>> \o tl PROVE \A x \in Elems(s) : ~Submits(x)
    <3>1. PICK f \in Seq(OpType) : f = <<w>> /\ Elems(f) = {w}
      <4>1. PICK f : f = <<w>>
        OBVIOUS
      <4>2. f \in Seq(OpType) /\ DOMAIN f = {1} /\ f[1] = w
        BY <4>1
      <4> QED BY <4>1, <4>2 DEF Elems
    <3>2. Elems(f \o tl) = Elems(f) \cup Elems(tl)
      BY ElemsConcat
    <3> QED BY <1>3, <2>2, <3>1, <3>2
  <2>3. \A later \in BOOLEAN :
          LET w == [op EXCEPT !.what = "wait", !.allow = AllowPending(later)]
          IN  w \in OpType /\ ~Submits(w)
    BY <1>1 DEF OpType, Whats, AllowPending, Submits
  <2>4. LET w == [op EXCEPT !.what = "stuck"] IN w \in OpType /\ ~Submits(w)
    BY <1>1 DEF OpType, Whats, Submits
  <2>5. \/ s = tl
        \/ \E later \in BOOLEAN : s = <<[op EXCEPT !.what = "wait", !.allow = AllowPending(later)]>> \o tl
        \/ s = <<[op EXCEPT !.what = "stuck"]>> \o tl
    BY <1>1, <1>2, <1>4 DEF StreamStep, PinnedRaises
  <2> QED BY <2>1, <2>2, <2>3, <2>4, <2>5
<1>6. \A t \in Elems(queue') : t \in Elems(queue) \/ \E b \in BatchSizes : Has(b, t.buf)'
  <2>1. CASE queue' = queue
    BY <2>1
  <2>2. ASSUME NEW u \in Buffers, NEW later \in BOOLEAN, GetBuffer(op.size, u),
               queue' = queue \o <<Immediate(u, op.pass, op.layer)>> \o
                          (IF later THEN <<Deferred(u, op.pass, op.layer)>> ELSE <<>>)
        PROVE  \A t \in Elems(queue') : t \in Elems(queue) \/ \E b \in BatchSizes : Has(b, t.buf)'
    <3>1. PICK b \in BatchSizes, p \in Passes, l \in LayerSet : b = op.size /\ p = op.pass /\ l = op.layer
      BY <1>1 DEF OpType
    <3>2. Has(b, u)'
      <4>1. Looked(b, u)
        BY <2>2, <3>1, LookedUp DEF Typed, Pooled
      <4> QED BY <4>1 DEF Looked
    <3>3. PICK a \in TaskType : a = Immediate(u, p, l)
      BY TasksTyped
    <3>4. PICK d \in TaskType : d = Deferred(u, p, l)
      BY TasksTyped
    <3>5. queue' = Append(Append(queue, a), d) \/ queue' = Append(queue, a)
      BY <2>2, <3>1, <3>3, <3>4, PinnedTasks
    <3>6. Elems(queue') \subseteq Elems(queue) \cup {a, d}
      <4>1. PICK r : r = Append(queue, a)
        OBVIOUS
      <4>2. Elems(r) = Elems(queue) \cup {a} /\ r \in Seq(TaskType)
        BY <4>1, ElemsAppend, AppendProperties DEF Typed, WorkTyped
      <4>3. Elems(Append(r, d)) = Elems(r) \cup {d}
        BY <4>2, ElemsAppend
      <4> QED BY <3>5, <4>1, <4>2, <4>3
    <3>7. a.buf = u /\ d.buf = u
      BY <3>3, <3>4 DEF Immediate, Deferred
    <3> QED BY <3>2, <3>6, <3>7
  <2> QED BY <1>1, <1>3, <2>1, <2>2 DEF StreamStep, PinnedRaises, Submits
<1> QED BY <1>4, <1>5, <1>6 DEF StreamStep, PinnedRaises

\* The tasks and the graphs keep their buffers, whatever the step.
LEMMA PinnedStays ==
    ASSUME Typed, Distinct, PinnedInv, Next, Path = "pinned"
    PROVE  /\ QueueHolds' /\ GraphsHold'
           /\ \A op \in Elems(stream') : ~Submits(op)
           /\ \A b \in BatchSizes : \A op \in Elems(graphs'[b]) : ~Submits(op)
           /\ host'.at = "callback" /\ host'.capturing => capture_buffers'[host'.size] = host'.buf
<1>1. Captured /\ (Keeps \/ queue = <<>>)
  BY PinnedKeeps
<1>2. /\ queue \in Seq(TaskType) /\ stream \in Seq(OpType) /\ graphs \in [BatchSizes -> Seq(OpType)]
      /\ \A b \in BatchSizes : graphs[b] \in Seq(OpType)
  BY DEF Typed, WorkTyped
<1>3. \A t \in Elems(queue) : \E b \in BatchSizes : Has(b, t.buf)'
  <2>1. ASSUME NEW t \in Elems(queue) PROVE t.buf \in Buffers
    <3>1. t \in TaskType
      BY <1>2, LenProperties, ElementOfSeq DEF Elems
    <3> QED BY <3>1 DEF TaskType
  <2>2. CASE queue = <<>>
    BY <2>2 DEF Elems
  <2>3. CASE Keeps
    BY <2>1, <2>3 DEF PinnedInv, QueueHolds, Found, Keeps
  <2> QED BY <1>1, <2>2, <2>3
<1>4. \A b \in BatchSizes : \A op \in Elems(graphs[b]) :
        op \in OpType /\ op.size = b /\ op.buf = capture_buffers'[b] /\ ~Submits(op)
  <2> SUFFICES ASSUME NEW b \in BatchSizes, NEW op \in Elems(graphs[b])
               PROVE  op \in OpType /\ op.size = b /\ op.buf = capture_buffers'[b] /\ ~Submits(op)
    OBVIOUS
  <2>1. op \in OpType
    BY <1>2, LenProperties, ElementOfSeq DEF Elems
  <2>2. op.size = b /\ op.buf = capture_buffers[b] /\ op.buf # 0 /\ ~Submits(op)
    BY <2>1, BufferType DEF PinnedInv, GraphsHold, OpType
  <2> QED BY <1>1, <2>1, <2>2 DEF Captured
<1>5. ASSUME NEW q, q = queue', \A t \in Elems(q) : t \in Elems(queue) \/ \E b \in BatchSizes : Has(b, t.buf)'
      PROVE  QueueHolds'
  BY <1>3, <1>5 DEF QueueHolds, Elems, Found
<1>6. ASSUME graphs' = graphs
      PROVE  GraphsHold' /\ \A b \in BatchSizes : \A op \in Elems(graphs'[b]) : ~Submits(op)
  BY <1>4, <1>6 DEF GraphsHold, Elems
<1>7. ASSUME host' = host
      PROVE  host'.at = "callback" /\ host'.capturing => capture_buffers'[host'.size] = host'.buf
  <2>1. host.at = "callback" => host.buf \in Buffers /\ host.buf # 0 /\ host.size \in BatchSizes
    BY BufferType DEF Typed, HostTyped
  <2> QED BY <1>1, <1>7, <2>1 DEF PinnedInv, Captured
<1>8. CASE HostStep
  <2>1. QueueHolds'
    BY <1>5, <1>8, PinnedHost
  <2>2. CASE UNCHANGED <<stream, graphs>>
    BY <1>6, <1>8, <2>1, <2>2, PinnedHost DEF PinnedInv
  <2>3. ASSUME NEW o, PinnedGrows(o)
        PROVE  /\ GraphsHold' /\ \A op \in Elems(stream') : ~Submits(op)
               /\ \A b \in BatchSizes : \A op \in Elems(graphs'[b]) : ~Submits(op)
    <3>1. CASE ~host.capturing
      <4>1. Elems(Append(stream, o)) = Elems(stream) \cup {o}
        BY <1>2, <2>3, ElemsAppend DEF PinnedGrows
      <4> QED BY <1>6, <2>3, <3>1, <4>1 DEF PinnedGrows, PinnedInv
    <3>2. CASE host.capturing
      <4>1. PICK b \in BatchSizes : b = host.size
        BY <3>2, HostSize DEF Typed, HostTyped, Idle
      <4>2. PICK g : g = Append(graphs[b], o)
        OBVIOUS
      <4>3. Elems(g) = Elems(graphs[b]) \cup {o}
        BY <1>2, <2>3, <4>2, ElemsAppend DEF PinnedGrows
      <4>4. \A c \in BatchSizes : graphs'[c] = IF c = b THEN g ELSE graphs[c]
        BY <1>2, <2>3, <3>2, <4>1, <4>2 DEF PinnedGrows
      <4>5. \A op \in Elems(g) : op.size = b /\ op.buf = capture_buffers'[b] /\ ~Submits(op)
        BY <1>4, <2>3, <3>2, <4>1, <4>3 DEF PinnedGrows
      <4>6. \A c \in BatchSizes : \A op \in Elems(graphs'[c]) :
              op.size = c /\ op.buf = capture_buffers'[c] /\ ~Submits(op)
        BY <1>4, <4>4, <4>5
      <4> QED BY <2>3, <3>2, <4>6 DEF PinnedGrows, PinnedInv, GraphsHold, Elems
    <3> QED BY <3>1, <3>2
  <2> QED BY <1>8, <2>1, <2>2, <2>3, PinnedHost
<1>9. CASE StreamStep \/ PinnedRaises
  BY <1>5, <1>6, <1>7, <1>9, PinnedStream
<1>10. CASE RunTask
  <2>1. queue' = Tail(queue) /\ queue # <<>> /\ UNCHANGED <<host, stream, graphs>>
    BY <1>10 DEF RunTask
  <2>2. Elems(Tail(queue)) \subseteq Elems(queue)
    BY <1>2, <2>1, ElemsTail
  <2> QED BY <1>5, <1>6, <1>7, <2>1, <2>2 DEF PinnedInv
<1>11. CASE ClearBufferCache \/ \E bs \in SUBSET BatchSizes : SetCaptureBatchSizes(bs)
  <2>1. UNCHANGED <<host, stream, queue, graphs>>
    BY <1>11 DEF ClearBufferCache, SetCaptureBatchSizes
  <2> QED BY <1>5, <1>6, <1>7, <2>1 DEF PinnedInv
<1>12. ASSUME NEW b \in BatchSizes, NEW c \in BOOLEAN, Begin(b, c)
       PROVE  /\ UNCHANGED <<stream, queue, graphs>> /\ host'.at # "callback"
  BY <1>12 DEF Begin, Idle
<1>13. CASE \E b \in BatchSizes, c \in BOOLEAN : Begin(b, c)
  BY <1>5, <1>6, <1>12, <1>13 DEF PinnedInv
<1>14. ASSUME NEW b \in BatchSizes, Replay(b)
       PROVE  /\ UNCHANGED <<host, queue, graphs>>
              /\ \A op \in Elems(stream') : ~Submits(op)
  <2>1. PICK g, again : IsAgain(b, g, again)
    BY <1>14, Again
  <2>2. /\ again \in Seq(OpType) /\ stream' = stream \o again /\ g = graphs[b]
        /\ DOMAIN again = DOMAIN g /\ \A i \in DOMAIN g : again[i].what = g[i].what
    BY <2>1 DEF IsAgain
  <2>3. Elems(stream') = Elems(stream) \cup Elems(again)
    BY <1>2, <2>2, ElemsConcat
  <2>4. ASSUME NEW op \in Elems(again) PROVE ~Submits(op)
    <3>1. PICK i \in DOMAIN g : op = again[i] /\ g[i] \in Elems(graphs[b])
      BY <2>2 DEF Elems
    <3> QED BY <1>4, <2>2, <3>1 DEF Submits
  <2> QED BY <1>14, <2>3, <2>4 DEF Replay, PinnedInv
<1>15. CASE \E b \in BatchSizes : Replay(b)
  BY <1>5, <1>6, <1>7, <1>14, <1>15
<1> QED BY <1>8, <1>9, <1>10, <1>11, <1>13, <1>15 DEF Next

-----------------------------------------------------------------------------
(* What holds of the buffers in every state, also when one was lost.       *)

\* Off the pinned path the host drops another buffer than the one it has
\* inserted: it is the newest one, and there is an older one.
RoomInv ==
    Path # "pinned" /\ MaxTemp # 0 =>
        /\ ~lost
        /\ host.evicting # 0 => /\ Len(temp_buffers) > 1
                                /\ temp_buffers[Len(temp_buffers)][1] = host.size
PoolsInv == Typed /\ Distinct /\ RoomInv /\ PinnedInv

\* What was lost is not found again.
LEMMA LostStays ==
    ASSUME Next, lost \in BOOLEAN, lost
    PROVE  lost'
<1>1. ASSUME NEW b, NEW u, GetBuffer(b, u) \/ Allocate(b, u) PROVE lost' = lost
  BY <1>1 DEF GetBuffer, Hit, Allocate, pools
<1>2. ASSUME NEW u, HostBuffer(u) PROVE lost'
  BY <1>1, <1>2 DEF HostBuffer
<1>3. CASE HostStep
  BY <1>1, <1>2, <1>3 DEF HostStep, MakeRoom, Prepare, SubmitNow, SubmitLater, SkipLater, SyncForward,
                          Raises, LaunchPinned, CopyOutput, pools
<1>4. CASE StreamStep \/ PinnedRaises
  BY <1>1, <1>4 DEF StreamStep, PinnedRaises, pools
<1>5. CASE RunTask \/ ClearBufferCache
  BY <1>5 DEF RunTask, ClearBufferCache, ClearTemp, pools
<1>6. CASE \E b \in BatchSizes : Replay(b) \/ \E c \in BOOLEAN : Begin(b, c)
  BY <1>6 DEF Replay, Begin, pools
<1>7. CASE \E bs \in SUBSET BatchSizes : SetCaptureBatchSizes(bs)
  BY <1>7 DEF SetCaptureBatchSizes
<1> QED BY <1>3, <1>4, <1>5, <1>6, <1>7 DEF Next

\* A lookup of the host's that makes room loses nothing.
LEMMA RoomLooks ==
    ASSUME Typed, Distinct, RoomInv, Path # "pinned", MaxTemp # 0, NEW u \in Buffers, HostBuffer(u)
    PROVE  ~lost'
<1>1. CASE GetBuffer(host.size, u)
  BY <1>1 DEF GetBuffer, Hit, Allocate, pools, RoomInv
<1>2. CASE host.evicting = u /\ lost' = (lost \/ temp_buffers[1][1] = host.size)
  <2>1. /\ Len(temp_buffers) \in Nat /\ DOMAIN temp_buffers = 1 .. Len(temp_buffers)
        /\ Len(temp_buffers) > 1 /\ temp_buffers[Len(temp_buffers)][1] = host.size
    BY <1>2, LenProperties, BufferType DEF RoomInv, Typed, PoolTyped
  <2>2. 1 \in DOMAIN temp_buffers /\ Len(temp_buffers) \in DOMAIN temp_buffers /\ 1 # Len(temp_buffers)
    BY <2>1
  <2>3. temp_buffers[1][1] # host.size
    BY <2>1, <2>2 DEF Distinct
  <2> QED BY <1>2, <2>3 DEF RoomInv
<1> QED BY <1>1, <1>2 DEF HostBuffer

\* Only the pinned path loses buffers, if there is room for one.
LEMMA RoomStays ==
    ASSUME PoolsInv, ~lost => PipelineInv, Next
    PROVE  RoomInv'
<1> USE DEF PoolsInv
<1>1. Path' = Path
  BY SetupStays, SetupSame
<1>2. SUFFICES ASSUME Path # "pinned", MaxTemp # 0
               PROVE  /\ ~lost'
                      /\ host'.evicting # 0 => /\ Len(temp_buffers') > 1
                                               /\ temp_buffers'[Len(temp_buffers')][1] = host'.size
  BY <1>1 DEF RoomInv
<1>3. ~lost /\ PipelineInv
  BY <1>2 DEF RoomInv
<1>4. CASE MakeRoom
  <2>1. PICK u \in Buffers : Allocate(host.size, u) /\ host' = [host EXCEPT !.evicting = u]
    BY <1>4 DEF MakeRoom
  <2>2. PICK e \in BatchSizes \X Buffers : e = <<host.size, u>> /\ e[1] = host.size
    <3>1. host.at # "idle"
      BY <1>4 DEF MakeRoom
    <3>2. host.size \in BatchSizes
      BY <3>1, HostSize
    <3>3. <<host.size, u>> \in BatchSizes \X Buffers
      BY <2>1, <3>2
    <3> QED BY <3>3
  <2>3. temp_buffers' = Append(temp_buffers, e) /\ Len(temp_buffers) >= MaxTemp /\ lost' = lost
    BY <1>4, <2>1, <2>2 DEF MakeRoom, Overflows, Allocate, ToCapture
  <2>4. /\ Len(Append(temp_buffers, e)) = Len(temp_buffers) + 1
        /\ Append(temp_buffers, e)[Len(temp_buffers) + 1] = e
        /\ Len(temp_buffers) \in Nat
    BY AppendProperties, LenProperties DEF Typed, PoolTyped
  <2>5. host'.size = host.size
    BY <2>1, HostFields
  <2> QED BY <1>2, <1>3, <2>2, <2>3, <2>4, <2>5, BufferType
<1>5. CASE Prepare \/ SyncForward \/ CopyOutput
  <2>1. ~lost'
    BY <1>2, <1>5, RoomLooks DEF Prepare, SyncForward, CopyOutput
  <2>2. host'.evicting = 0
    <3>1. CASE Prepare \/ SyncForward
      BY <3>1, HostFields DEF Prepare, SyncForward
    <3>2. CASE CopyOutput
      BY <3>2, HostFields DEF CopyOutput, Idle
    <3> QED BY <1>5, <3>1, <3>2
  <2> QED BY <2>1, <2>2
<1>6. CASE SubmitNow \/ SubmitLater \/ SkipLater \/ LaunchPinned
  <2>1. host.evicting = 0 /\ host'.evicting = host.evicting /\ lost' = lost
    BY <1>6, HostFields DEF SubmitNow, SubmitLater, SkipLater, LaunchPinned, At, Goes, pools, Typed, HostTyped,
                            NotEvicting
  <2> QED BY <1>3, <2>1
<1>7. CASE Raises
  BY <1>3, <1>7 DEF Raises, Raise, Idle, pools
<1>8. CASE StreamStep \/ PinnedRaises
  <2>1. stream # <<>> /\ UNCHANGED host
    BY <1>8 DEF StreamStep, PinnedRaises
  <2>2. Head(stream) \in Elems(stream)
    BY <2>1, OpAt DEF Elems
  <2>3. Head(stream).what \notin {"pinned", "wait"}
    BY <1>2, <1>3, <2>2 DEF PipelineInv, StreamInv, OpFits, PathWhats
  <2>4. UNCHANGED pools
    BY <1>8, <2>3 DEF StreamStep, PinnedRaises
  <2> QED BY <1>2, <1>3, <2>1, <2>4 DEF RoomInv, pools
<1>9. CASE ClearBufferCache
  <2>1. host' = host /\ host.evicting = 0
    BY <1>9 DEF ClearBufferCache, At, Typed, HostTyped, Idle
  <2>2. \A i \in DOMAIN stream : stream[i].what # "pinned"
    BY <1>2, <1>3 DEF PipelineInv, StreamInv, OpFits, PathWhats, Elems
  <2> QED BY <1>3, <1>9, <2>1, <2>2 DEF ClearBufferCache, ClearTemp
<1>10. CASE RunTask
  BY SMTT(30), <1>2, <1>3, <1>10 DEF RunTask, RoomInv, pools
<1>11. ASSUME NEW b \in BatchSizes, Replay(b) \/ \E c \in BOOLEAN : Begin(b, c)
       PROVE  UNCHANGED pools /\ (host' = host \/ host'.evicting = 0)
  BY <1>11 DEF Replay, Begin, Idle
<1>13. CASE \E b \in BatchSizes : Replay(b) \/ \E c \in BOOLEAN : Begin(b, c)
  BY <1>2, <1>3, <1>11, <1>13 DEF RoomInv, pools
<1>12. CASE \E bs \in SUBSET BatchSizes : SetCaptureBatchSizes(bs)
  BY <1>2, <1>3, <1>12 DEF SetCaptureBatchSizes, RoomInv
<1> QED BY <1>4, <1>5, <1>6, <1>7, <1>8, <1>9, <1>10, <1>12, <1>13 DEF Next, HostStep

\* The buffers, whatever the step.
LEMMA PoolsStay ==
    ASSUME PoolsInv, ~lost => PipelineInv, Next
    PROVE  PoolsInv'
<1> USE DEF PoolsInv
<1>1. Path' = Path
  BY SetupStays, SetupSame
<1>2. PinnedInv'
  <2>1. CASE Path # "pinned"
    BY <1>1, <2>1 DEF PinnedInv
  <2>2. CASE Path = "pinned"
    BY <2>2, PinnedStays DEF PinnedInv, Elems, Submits
  <2> QED BY <2>1, <2>2
<1> QED BY <1>2, TypedStays, RoomStays

-----------------------------------------------------------------------------
(* The invariant, and what follows from it.                                *)

\* Nothing has happened yet.
LEMMA PipelineStarts ==
    ASSUME Init
    PROVE  PoolsInv /\ PipelineInv
<1>1. SetupFacts /\ 0 \in LayerSet
  BY SetupsGood DEF Init
<1>2. HostTyped
  <2>1. /\ host = Idle /\ passes = 0 /\ 0 \in 0 .. MaxPasses /\ 0 \in 0 .. MaxBuffers /\ 0 <= passes
    BY <1>1, BufferType DEF Init, SetupFacts
  <2>2. /\ host.at = "idle" /\ host.pass = 0 /\ host.layer = 0 /\ host.buf = 0 /\ ~host.capturing
        /\ host.evicting = 0 /\ ~(0 > 0)
    BY <2>1 DEF Idle
  <2>3. host \in HostType
    BY <1>1, <2>1 DEF Idle, HostType
  <2> QED BY <2>1, <2>2, <2>3 DEF HostTyped
<1>3. PoolTyped /\ Distinct
  <2>1. temp_buffers = <<>> /\ temp_buffers \in Seq(BatchSizes \X Buffers) /\ DOMAIN temp_buffers = {}
    BY EmptySeq DEF Init
  <2>2. capture_buffers \in [BatchSizes -> Buffers \cup {0}] /\ capture_bs \subseteq BatchSizes
        /\ lost \in BOOLEAN
    BY DEF Init
  <2>3. allocs \in 0 .. MaxBuffers
    BY BufferType DEF Init
  <2> QED BY <2>1, <2>2, <2>3 DEF PoolTyped, Distinct
<1>4. FlagTyped
  BY DEF Init, FlagTyped
<1>5. MemTyped
  BY DEF Init, MemTyped, Token
<1>6. WorkTyped
  <2>1. queue = <<>> /\ stream = <<>> /\ graphs = [b \in BatchSizes |-> <<>>] /\ error = FALSE
        /\ passes = 0 /\ spoiled = {} /\ 0 \in 0 .. MaxPasses
    BY <1>1 DEF Init, SetupFacts
  <2>2. \A S : <<>> \in Seq(S)
    BY EmptySeq
  <2>3. DOMAIN stream = {} /\ \A b \in BatchSizes : graphs[b] = <<>> /\ DOMAIN graphs[b] = {}
    BY <2>1
  <2> QED BY <2>1, <2>2, <2>3 DEF WorkTyped, Laters
<1>7. /\ DOMAIN stream = {} /\ DOMAIN queue = {} /\ \A b \in BatchSizes : graphs[b] = <<>>
      /\ stream = <<>> /\ queue = <<>> /\ host = Idle
  BY DEF Init
<1>8. /\ host.buf = 0 /\ host.at = "idle" /\ ~host.capturing /\ host.evicting = 0
      /\ HostOp.what = "idle" /\ HostCur.what = "idle" /\ Cur.what = "idle" /\ Front.what = "idle"
  BY <1>7 DEF Idle, HostOp, HostCur, Cur, Front
<1>9. HoldInv
  BY <1>7, <1>8 DEF HoldInv, HostHolds, StreamHolds, QueueHolds, GraphsHold, Elems
<1>10. StreamInv
  BY <1>7 DEF StreamInv, Chained, Elems
<1>11. GraphInv
  <2>1. ASSUME NEW b \in BatchSizes PROVE GraphFits(b)
    <3>1. graphs[b] = <<>> /\ ~Capturing(b) /\ DOMAIN graphs[b] = {} /\ Len(graphs[b]) = 0
      BY <1>7, <1>8 DEF Capturing
    <3> QED BY <3>1 DEF GraphFits, Chained, Elems
  <2> QED BY <2>1 DEF GraphInv
<1>12. FlagInv
  BY <1>8 DEF FlagInv, FlagFits
<1>13. WorkInv
  <2>1. PICK c : c = Cur
    OBVIOUS
  <2>2. WorkFits(c)
    BY <1>7, <1>8, <2>1 DEF WorkFits, QueueFits, InOrder, InputFits, OutputFits, Elems
  <2> QED BY <2>1, <2>2 DEF WorkInv
<1>14. RoomInv /\ PinnedInv
  BY <1>7, <1>8 DEF Init, RoomInv, PinnedInv, QueueHolds, GraphsHold, Elems
<1> QED BY <1>1, <1>2, <1>3, <1>4, <1>5, <1>6, <1>9, <1>10, <1>11, <1>12, <1>13, <1>14
        DEF PipelineInv, PoolsInv, Typed

\* A step that does nothing changes nothing.
LEMMA PipelineRests ==
    ASSUME PipelineInv, UNCHANGED vars
    PROVE  PipelineInv'
<1>1. UNCHANGED <<setup, temp_buffers, capture_buffers, capture_bs, allocs, lost, pending_deferred, input,
                  output, host, stream, queue, graphs, error, passes, deferrals, spoiled>>
  BY DEF vars, pools, memory, hist
<1>2. /\ Layers' = Layers /\ Deferring' = Deferring /\ Path' = Path /\ MaxPasses' = MaxPasses
      /\ LayerSet' = LayerSet /\ Passes' = Passes /\ Token' = Token
      /\ TaskType' = TaskType /\ OpType' = OpType /\ HostType' = HostType
      /\ PathWhats' = PathWhats
  BY <1>1, SetupSame
<1>3. /\ HostOp' = HostOp /\ HostCur' = HostCur /\ Cur' = Cur
  BY <1>1 DEF HostOp, HostCur, Cur
<1>4. /\ \A p, k : Defers(p, k)' <=> Defers(p, k)
      /\ \A b, u : Has(b, u)' <=> Has(b, u)
  BY <1>1 DEF Defers, Has
<1>5. Typed' /\ Distinct'
  BY <1>1, <1>2 DEF PipelineInv, Typed, Distinct, SetupFacts, HostTyped, PoolTyped, FlagTyped, MemTyped,
                    WorkTyped, Laters
<1>6. HoldInv'
  BY <1>1, <1>2, <1>4 DEF PipelineInv, HoldInv, HostHolds, StreamHolds, QueueHolds, GraphsHold, Elems, Looks,
                          Found, Has
<1>7. StreamInv'
  BY SMTT(30), <1>1, <1>2, <1>3 DEF PipelineInv, StreamInv, Chained, Follows, Step, Elems, OpFits, OpDefers, AllDefer,
                          Defers
<1>8. GraphInv'
  BY <1>1, <1>2, <1>3 DEF PipelineInv, GraphInv, GraphFits, Chained, Follows, Step, Elems, OpFits, GraphDefers,
                          Capturing
<1>9. FlagInv'
  <2>1. Front' = Front
    BY <1>2, <1>3 DEF Front
  <2> QED BY <1>1, <1>2, <1>3, <2>1 DEF PipelineInv, FlagInv, FlagFits, AllDefer, Defers
<1>10. WorkInv'
  <2>1. ASSUME NEW c, WorkFits(c) PROVE WorkFits(c)'
    <3>1. Top(c)' = Top(c) /\ Low(c)' = Low(c) /\ Done(c)' = Done(c)
      BY <1>1 DEF Top, Low, Done, Submitted, Defers
    <3>2. QueueFits(c)'
      BY <1>1, <2>1, <3>1 DEF WorkFits, QueueFits, InOrder, Elems, TaskFits, Key, Defers, SlotOf, NextSlot,
                              BufferDepth
    <3>3. InputFits(c)'
      BY <1>1, <2>1 DEF WorkFits, InputFits, SlotOf, BufferDepth
    <3>4. OutputFits(c)'
      <4>1. \A p, l : Late(p, l)' = Late(p, l)
        BY <1>4 DEF Late
      <4> QED BY <1>1, <1>4, <2>1, <3>1, <4>1 DEF WorkFits, OutputFits, SlotOf, NextSlot, BufferDepth
    <3> QED BY <3>2, <3>3, <3>4 DEF WorkFits
  <2>2. (\A c \in {Cur} : WorkFits(c)) => (\A c \in {Cur'} : WorkFits(c)')
    BY <1>3, <2>1
  <2> QED BY <1>2, <1>3, <2>2 DEF PipelineInv, WorkInv
<1> QED BY <1>5, <1>6, <1>7, <1>8, <1>9, <1>10 DEF PipelineInv

\* Nor to the buffers.
LEMMA PoolsRest ==
    ASSUME PoolsInv, UNCHANGED vars
    PROVE  PoolsInv'
<1>1. UNCHANGED <<setup, temp_buffers, capture_buffers, capture_bs, allocs, lost, pending_deferred, input,
                  output, host, stream, queue, graphs, error, passes, deferrals, spoiled>>
  BY DEF vars, pools, memory, hist
<1>2. /\ Layers' = Layers /\ Deferring' = Deferring /\ Path' = Path /\ MaxPasses' = MaxPasses
      /\ LayerSet' = LayerSet /\ Passes' = Passes /\ Token' = Token
      /\ TaskType' = TaskType /\ OpType' = OpType /\ HostType' = HostType
  BY <1>1, SetupSame
<1>3. Typed' /\ Distinct'
  BY <1>1, <1>2 DEF PoolsInv, Typed, Distinct, SetupFacts, HostTyped, PoolTyped, FlagTyped, MemTyped,
                    WorkTyped, Laters
<1>4. RoomInv'
  BY <1>1, <1>2 DEF PoolsInv, RoomInv
<1>5. PinnedInv'
  BY <1>1, <1>2 DEF PoolsInv, PinnedInv, QueueHolds, GraphsHold, Found, Has, Elems, Submits
<1> QED BY <1>3, <1>4, <1>5 DEF PoolsInv

\* The invariants hold in every state, for any setups, batch sizes and bounds:
\* those of the buffers, and until a buffer is lost those of the operations,
\* the tasks and the memory.
THEOREM PipelineInvariance == Spec => [](PoolsInv /\ (~lost => PipelineInv))
<1> DEFINE Both == PoolsInv /\ (~lost => PipelineInv)
<1>1. Init => Both
  BY PipelineStarts
<1>2. ASSUME Both, [Next]_vars
      PROVE  Both'
  <2>1. CASE Next
    <3>1. PoolsInv'
      BY <1>2, <2>1, PoolsStay
    <3>2. ASSUME ~lost' PROVE PipelineInv'
      <4>1. ~lost
        BY <1>2, <2>1, <3>2, LostStays DEF PoolsInv, Typed, PoolTyped
      <4> QED BY <1>2, <2>1, <3>1, <3>2, <4>1, HoldStays, StreamStays, GraphsStay, FlagStays, WorkInvStays
              DEF PipelineInv, PoolsInv
    <3> QED BY <3>1, <3>2
  <2>2. CASE UNCHANGED vars
    <3>1. PoolsInv' /\ (PipelineInv => PipelineInv')
      BY <1>2, <2>2, PoolsRest, PipelineRests
    <3>2. lost' = lost
      BY <2>2 DEF vars, pools
    <3> QED BY <1>2, <3>1, <3>2
  <2> QED BY <1>2, <2>1, <2>2
<1> QED BY <1>1, <1>2, PTL DEF Spec

\* Pointers into buffers that some batch size has.
LEMMA FoundIsKept ==
    ASSUME Typed, QueueHolds, GraphsHold,
           \A op \in Elems(stream) : op.what \in {"now", "later"} => Found(op.buf)
    PROVE  NoDangling
<1>1. ASSUME NEW u, Found(u) PROVE u \in Kept
  BY <1>1 DEF Found, Has, Kept
<1>2. ASSUME NEW i \in DOMAIN queue PROVE queue[i].buf \in Kept
  BY <1>1 DEF QueueHolds, Elems
<1>3. ASSUME NEW i \in DOMAIN stream, stream[i].what \in {"now", "later"} PROVE stream[i].buf \in Kept
  BY <1>1, <1>3 DEF Elems
<1>4. ASSUME NEW b \in BatchSizes, NEW i \in DOMAIN graphs[b] PROVE graphs[b][i].buf \in Kept
  <2>1. graphs[b][i].buf = capture_buffers[b]
    BY DEF GraphsHold, Elems
  <2> QED BY <2>1 DEF Kept
<1> QED BY <1>2, <1>3, <1>4 DEF NoDangling, Holders

\* BuffersInv, of get_buffer, _evict_oldest_temp_buffer and clear_buffer_cache:
\* slots and flags stay in range, only the pinned path or a maximum of no
\* buffers loses one, and no task, callback or captured graph refers to a buffer
\* that was dropped, whatever the use of the wrappers.
THEOREM BuffersOutliveTheirUses == Spec => []BuffersInv
<1>1. ASSUME PoolsInv, ~lost => PipelineInv PROVE BuffersInv
  <2>1. TypeOK
    <3>1. \A i \in DOMAIN temp_buffers : temp_buffers[i] \in BatchSizes \X Buffers
      BY <1>1, ElementOfSeq, LenProperties DEF PoolsInv, Typed, PoolTyped
    <3>2. \A i \in DOMAIN queue : queue[i] \in TaskType
      BY <1>1, ElementOfSeq, LenProperties DEF PoolsInv, Typed, WorkTyped
    <3> QED BY <1>1, <3>1, <3>2 DEF PoolsInv, Typed, PoolTyped, FlagTyped, MemTyped, WorkTyped, TypeOK
  <2>2. LostOnlyPinned
    BY <1>1 DEF LostOnlyPinned, PoolsInv, RoomInv
  <2>3. CASE ~lost
    <3>1. ASSUME NEW op \in Elems(stream), op.what \in {"now", "later"} PROVE Found(op.buf)
      <4>1. op \in OpType
        BY <1>1, ElementOfSeq, LenProperties DEF PoolsInv, Typed, WorkTyped, Elems
      <4>2. Has(op.size, op.buf)
        BY <1>1, <2>3, <3>1 DEF PipelineInv, HoldInv, StreamHolds, Looks
      <4> QED BY <4>1, <4>2 DEF Found, OpType
    <3> QED BY <1>1, <2>1, <2>2, <2>3, <3>1, FoundIsKept DEF BuffersInv, PipelineInv, HoldInv
  <2>4. CASE lost /\ MaxTemp # 0
    <3>1. Path = "pinned"
      BY <2>2, <2>4 DEF LostOnlyPinned
    <3> QED BY <1>1, <2>1, <2>2, <3>1, FoundIsKept DEF BuffersInv, PoolsInv, PinnedInv, Submits
  <2> QED BY <2>1, <2>2, <2>3, <2>4 DEF BuffersInv
<1> QED BY <1>1, PipelineInvariance, PTL

\* InputsStable, of _prepare_forward_cpu_buffers and the pending deferred task:
\* a task finds the input of its own pass and layer until it is over, unless a
\* buffer was lost that a callback looks up.
THEOREM TasksFindTheirInput == Spec => []InputsStable
<1>1. ASSUME ~lost => PipelineInv PROVE InputsStable
  <2> SUFFICES ASSUME ~lost, NEW i \in DOMAIN queue
               PROVE  input[queue[i].buf][SlotOf(queue[i].layer)] = <<queue[i].pass, queue[i].layer>>
    BY DEF InputsStable
  <2>1. TaskFits(queue[i])
    BY <1>1 DEF PipelineInv, WorkInv, WorkFits, QueueFits, Elems
  <2> QED BY <2>1 DEF TaskFits
<1> QED BY <1>1, PipelineInvariance, PTL

\* OutputComplete, of sync_forward's allowance and the incremental task: when
\* the result is copied back, it is the layer's own and the previous layer's
\* deferred one, of this pass, and nothing else, unless a buffer was lost that a
\* callback looks up.
THEOREM ResultsAreComplete == Spec => []OutputComplete
<1>1. ASSUME ~lost => PipelineInv PROVE OutputComplete
  <2> SUFFICES ASSUME PipelineInv, stream # <<>>, Head(stream).what = "out",
                      Head(stream).pass \notin spoiled
               PROVE  LET op   == Head(stream)
                          p    == op.pass
                          l    == op.layer
                          late == IF <<p, l - 1>> \in deferrals THEN {<<"later", <<p, l - 1>>>>} ELSE {}
                      IN  output[op.buf][SlotOf(l)] = {<<"now", <<p, l>>>>} \cup late
    BY <1>1 DEF OutputComplete
  <2>1. PICK c : c = Head(stream)
    OBVIOUS
  <2>2. c = Cur /\ WorkFits(c) /\ Placed(c) /\ Typed /\ c.what = "out" /\ c.pass \notin spoiled
    <3>1. c = Cur
      BY <2>1 DEF Cur
    <3> QED BY <2>1, <3>1, TurnTyped DEF PipelineInv, WorkInv, Placed
  <2>3. /\ c.layer \in Nat /\ Low(c) = 2 * c.layer + 1
        /\ Top(c) = IF Defers(c.pass, c.layer) THEN 2 * c.layer + 1 ELSE 2 * c.layer
    BY <2>2, Bounds DEF Top, Low, Submitted
  <2>4. /\ Len(queue) \in Nat /\ DOMAIN queue = 1 .. Len(queue)
        /\ Len(queue) # 0 => Key(queue[1]) = Top(c) - (Len(queue) - 1) /\ Key(queue[1]) >= Low(c)
    <3>1. Len(queue) \in Nat /\ DOMAIN queue = 1 .. Len(queue)
      BY <2>2, QueueOrder, LenProperties
    <3>2. Len(queue) # 0 => 1 \in DOMAIN queue
      BY <3>1
    <3> QED BY <2>2, <3>1, <3>2 DEF WorkFits, QueueFits, InOrder
  <2>5. Done(c) >= 2 * c.layer
    BY <2>3, <2>4 DEF Done
  <2>6. output[c.buf][SlotOf(c.layer)] = {<<"now", <<c.pass, c.layer>>>>} \cup Late(c.pass, c.layer - 1)
    BY <2>2, <2>5 DEF WorkFits, OutputFits
  <2> QED BY <2>1, <2>6 DEF Late, Defers
<1> QED BY <1>1, PipelineInvariance, PTL
=============================================================================
