---------------------------- MODULE InferProofs -----------------------------
(***************************************************************************)
(* What the entry points of CPUInfer guarantee for any number of calls,    *)
(* replays and faults: the arguments of a callback have one owner, and a   *)
(* failure surfaces.                                                       *)
(*                                                                         *)
(* The argument is about who owns the arguments of call c.  While its call *)
(* is going on it is the call's guard (Going).  After the launch it is the *)
(* callback, which frees them when it has run, unless c was taken for a    *)
(* captured call; such a callback may be in the stream many times, another *)
(* one is there once and in no graph (Owned).  Where the runtime can tell, *)
(* what was taken for captured is in the graph (Kept).                     *)
(***************************************************************************)
EXTENDS CpuInfer, SequenceTheorems, TLAPS

Held == Range(stream) \cup Range(graph)

\* c is at most once in s.
Once(s, c) == \A i, j \in 1 .. Len(s) : s[i] = c /\ s[j] = c => i = j

\* The call that is about to put its callback or its task somewhere.
Going ==
    pc = "ready" =>
        /\ calls \in Calls /\ calls \notin Held
        /\ args[calls] = IF kind[calls] = "sync_stream" THEN "none" ELSE "live"
        /\ kind[calls] # "submit" /\ ~capturing[calls] => ~captured

\* What is launched or in a graph has its arguments, and one owner of them.
Owned ==
    /\ \A c \in Held : c <= calls /\ args[c] = "live" /\ kind[c] # "submit"
    /\ \A c \in Range(graph) : capturing[c]
    /\ \A c \in Calls : ~capturing[c] => Once(stream, c)

\* Where a capture is seen for what it is, live arguments are those of the
\* call that is going on, of a callback in the stream, or of one in a graph.
Kept ==
    Queries /\ "query" \notin Faults =>
        /\ pc = "ready" /\ capturing[calls] => captured
        /\ \A c \in Calls : args[c] = "live" =>
              \/ pc = "ready" /\ c = calls
              \/ IF capturing[c] THEN c \in Range(graph) ELSE c \in Range(stream)

\* A call that sees no capture has found no failure when it has begun.
Latched ==
    /\ slipped \in {0, 1} /\ (slipped = 1 => first # 0)
    /\ pc = "ready" /\ ~capturing[calls] => slipped = 0

\* Once a drain has waited for the device no callback is left.
Drained ==
    /\ pc = "drain_all" => stream = <<>>
    /\ raised => pc = "idle" /\ stream = <<>> /\ queue = <<>>

\* The inductive invariant.
InferInv == TypeOK /\ setup \in Setups /\ Going /\ Owned /\ Kept /\ Latched /\ Drained

-----------------------------------------------------------------------------
(* Sequences.                                                              *)

\* A callback is added at the end.
LEMMA AppendAdds ==
  ASSUME NEW S, NEW s \in Seq(S), NEW x \in S
  PROVE  /\ Append(s, x) \in Seq(S) /\ Range(Append(s, x)) = Range(s) \cup {x}
         /\ \A c : Once(s, c) /\ (c = x => c \notin Range(s)) => Once(Append(s, x), c)
<1>1. /\ Append(s, x) \in Seq(S) /\ Len(Append(s, x)) = Len(s) + 1 /\ Len(s) \in Nat
      /\ \A i \in 1 .. Len(s) : Append(s, x)[i] = s[i]
      /\ Append(s, x)[Len(s) + 1] = x
  BY AppendProperties, LenProperties
<1>2. Range(s) = {s[i] : i \in 1 .. Len(s)} /\ Range(Append(s, x)) = {Append(s, x)[i] : i \in 1 .. Len(Append(s, x))}
  BY <1>1, RangeEquality
<1>3. Range(Append(s, x)) = Range(s) \cup {x}
  BY <1>1, <1>2
<1>4. ASSUME NEW c, Once(s, c), c = x => c \notin Range(s) PROVE Once(Append(s, x), c)
  BY <1>1, <1>2, <1>4 DEF Once
<1> QED BY <1>1, <1>3, <1>4

\* A replay adds the callbacks of the graph.
LEMMA ConcatAdds ==
  ASSUME NEW S, NEW s \in Seq(S), NEW t \in Seq(S)
  PROVE  /\ s \o t \in Seq(S) /\ Range(s \o t) = Range(s) \cup Range(t)
         /\ \A c : Once(s, c) /\ c \notin Range(t) => Once(s \o t, c)
<1>1. /\ s \o t \in Seq(S) /\ Len(s \o t) = Len(s) + Len(t) /\ Len(s) \in Nat /\ Len(t) \in Nat
      /\ \A i \in 1 .. Len(s) + Len(t) : (s \o t)[i] = IF i <= Len(s) THEN s[i] ELSE t[i - Len(s)]
  BY ConcatProperties, LenProperties
<1>2. Range(s \o t) = Range(s) \cup Range(t)
  BY RangeConcatenation
<1>3. Range(t) = {t[i] : i \in 1 .. Len(t)}
  BY RangeEquality
<1>4. ASSUME NEW c, Once(s, c), c \notin Range(t) PROVE Once(s \o t, c)
  <2>1. \A i \in 1 .. Len(s \o t) : (s \o t)[i] = c => i \in 1 .. Len(s) /\ s[i] = c
    <3> SUFFICES ASSUME NEW i \in 1 .. Len(s \o t), (s \o t)[i] = c PROVE i \in 1 .. Len(s) /\ s[i] = c
      OBVIOUS
    <3>1. CASE i <= Len(s)
      BY <1>1, <3>1
    <3>2. CASE ~(i <= Len(s))
      <4>1. t[i - Len(s)] = c /\ i - Len(s) \in 1 .. Len(t)
        BY <1>1, <3>2
      <4> QED BY <1>3, <1>4, <4>1
    <3> QED BY <3>1, <3>2
  <2> QED BY <1>4, <2>1 DEF Once
<1> QED BY <1>1, <1>2, <1>4

\* A callback that has run leaves the stream.
LEMMA TailDrops ==
  ASSUME NEW S, NEW s \in Seq(S), s # <<>>
  PROVE  /\ Head(s) \in S /\ Tail(s) \in Seq(S)
         /\ Range(s) = Range(Tail(s)) \cup {Head(s)}
         /\ \A c : Once(s, c) => Once(Tail(s), c)
         /\ Once(s, Head(s)) => Head(s) \notin Range(Tail(s))
<1>1. /\ Head(s) \in S /\ Tail(s) \in Seq(S) /\ Len(Tail(s)) = Len(s) - 1
      /\ \A i \in 1 .. Len(Tail(s)) : Tail(s)[i] = s[i + 1]
  BY HeadTailProperties
<1>2. Len(s) \in Nat \ {0} /\ Head(s) = s[1]
  BY EmptySeq
<1>3. Range(s) = {s[i] : i \in 1 .. Len(s)} /\ Range(Tail(s)) = {Tail(s)[i] : i \in 1 .. Len(Tail(s))}
  BY <1>1, RangeEquality
<1>4. Range(s) = Range(Tail(s)) \cup {Head(s)}
  <2>1. ASSUME NEW i \in 1 .. Len(s) PROVE s[i] \in Range(Tail(s)) \cup {Head(s)}
    <3>1. CASE i = 1
      BY <1>2, <3>1
    <3>2. CASE i # 1
      <4>1. i - 1 \in 1 .. Len(Tail(s)) /\ (i - 1) + 1 = i
        BY <1>1, <1>2, <3>2
      <4>2. Tail(s)[i - 1] = s[i]
        BY <1>1, <4>1
      <4> QED BY <1>3, <4>1, <4>2
    <3> QED BY <3>1, <3>2
  <2>2. ASSUME NEW i \in 1 .. Len(Tail(s)) PROVE Tail(s)[i] \in Range(s)
    BY <1>1, <1>2, <1>3
  <2>3. Head(s) \in Range(s)
    BY <1>2, <1>3
  <2> QED BY <1>3, <2>1, <2>2, <2>3
<1>5. ASSUME NEW c, Once(s, c) PROVE Once(Tail(s), c)
  BY <1>1, <1>2, <1>5 DEF Once
<1>6. ASSUME Once(s, Head(s)) PROVE Head(s) \notin Range(Tail(s))
  BY <1>1, <1>2, <1>3, <1>6 DEF Once
<1> QED BY <1>1, <1>4, <1>5, <1>6

-----------------------------------------------------------------------------
(* Steps of the caller.                                                    *)

\* Callbacks are those of calls.
LEMMA HeldCalls ==
  ASSUME TypeOK
  PROVE  Held \subseteq Calls /\ Range(stream) \subseteq Calls /\ Range(graph) \subseteq Calls
BY RangeOfSeq DEF TypeOK, Held

\* What is not in a sequence is in it at most once.
LEMMA NotInOnce ==
  ASSUME NEW s \in Seq(Calls), NEW c, c \notin Range(s)
  PROVE  Once(s, c)
BY RangeEquality DEF Once

\* A call begins, having looked for a capture and a failure.
LEMMA BeginKeeps ==
  ASSUME InferInv, NEW k \in Kinds, NEW capt \in BOOLEAN, NEW n \in {0, 1},
         k = "submit" => ~capt, k # "submit" /\ ~capt => ~captured,
         Queries /\ "query" \notin Faults /\ capt => captured,
         Begin(k, capt, n), UNCHANGED setup, asleep' \in BOOLEAN
  PROVE  InferInv'
<1>1. MaxCalls \in Nat /\ calls \in 0 .. MaxCalls /\ Held \subseteq Calls
  BY CpuInferAssumption, HeldCalls DEF InferInv, TypeOK
<1>2. calls + 1 \in Calls /\ calls + 1 \notin Held
  BY <1>1 DEF Owned, TypeOK, Calls, Held, InferInv, Begin, LooksFirst
<1>3. \A c \in Held : c <= calls + 1
  BY <1>1 DEF Owned, Calls, InferInv, Begin, LooksFirst
<1>4. TypeOK'
  <2>1. pc' \in {"idle", "ready", "drain", "drain_all", "drain_queue"} \cup Syncing /\ calls' \in 0 .. MaxCalls
    BY <1>1, <1>2, <1>3 DEF Syncing, TypeOK, Begin, LooksFirst, InferInv
  <2>2. replays' \in 0 .. MaxReplays' /\ first' \in 0 .. MaxCalls /\ slipped' \in Nat
    BY <1>1, <1>2, <1>3 DEF TypeOK, MaxReplays, Calls, Begin, LooksFirst, InferInv
  <2>3. kind' \in [Calls -> Kinds] /\ capturing' \in [Calls -> BOOLEAN] /\ allow' \in [Calls -> {0, 1}]
    BY <1>1, <1>2, <1>3 DEF TypeOK, Kinds, Begin, LooksFirst, InferInv
  <2>4. args' \in [Calls -> {"none", "live", "freed"}]
    BY <1>1, <1>2, <1>3 DEF TypeOK, Going, Begin, LooksFirst, InferInv
  <2>5. captured' \in BOOLEAN /\ waited' \in BOOLEAN /\ raised' \in BOOLEAN
    BY <1>1, <1>2, <1>3 DEF TypeOK, Begin, LooksFirst, InferInv
  <2>6. graph' \in Seq(Calls) /\ stream' \in Seq(Calls) /\ queue' \in Seq(Calls)
    BY <1>1, <1>2, <1>3 DEF TypeOK, Begin, LooksFirst, InferInv
  <2> QED BY <2>1, <2>2, <2>3, <2>4, <2>5, <2>6 DEF TypeOK
<1>5. Going'
  BY <1>1, <1>2, <1>3 DEF Going, Held, TypeOK, Calls, Begin, LooksFirst, InferInv
<1>6. Owned'
  <2>1. stream' = stream /\ graph' = graph /\ Held' = Held /\ calls' = calls + 1 /\ stream \in Seq(Calls)
    BY <1>1, <1>2, <1>3 DEF TypeOK, Held, Begin, LooksFirst, InferInv
  <2>2. \A c \in Calls : c # calls + 1 => kind'[c] = kind[c] /\ capturing'[c] = capturing[c] /\ args'[c] = args[c]
    BY <1>1, <1>2, <1>3 DEF TypeOK, Held, Begin, LooksFirst, InferInv
  <2>3. \A c \in Held' : c <= calls' /\ args'[c] = "live" /\ kind'[c] # "submit"
    BY <1>1, <1>2, <1>3, <2>1, <2>2 DEF Owned, InferInv, Held
  <2>4. \A c \in Range(graph') : capturing'[c]
    BY <1>1, <1>2, <1>3, <2>1, <2>2 DEF Owned, InferInv, Held
  <2>5. \A c \in Calls : ~capturing'[c] => Once(stream', c)
    BY <1>1, <1>2, <1>3, <2>1, <2>2, NotInOnce DEF Owned, InferInv, Held
  <2> QED BY <2>3, <2>4, <2>5 DEF Owned
<1>7. Kept'
  BY <1>1, <1>2, <1>3 DEF Kept, Held, Queries, Faults, TypeOK, Calls, Begin, LooksFirst, InferInv
<1>8. Latched'
  BY <1>1, <1>2, <1>3 DEF Latched, TypeOK, Begin, LooksFirst, InferInv
<1>9. Drained'
  BY <1>1, <1>2, <1>3 DEF Drained, TypeOK, Begin, LooksFirst, InferInv
<1> QED BY <1>4, <1>5, <1>6, <1>7, <1>8, <1>9 DEF InferInv

\* A task is put in the queue.
LEMMA SubmitKeeps ==
  ASSUME InferInv, Submit, UNCHANGED setup, asleep' \in BOOLEAN
  PROVE  InferInv'
<1>1. MaxCalls \in Nat /\ calls \in 0 .. MaxCalls /\ Held \subseteq Calls
  BY CpuInferAssumption, HeldCalls DEF InferInv, TypeOK
<1>2. calls \in Calls /\ Append(queue, calls) \in Seq(Calls)
  BY AppendAdds DEF TypeOK, Going, InferInv, Submit, Returns, Freed, caller
<1>3. TypeOK'
  <2>1. pc' \in {"idle", "ready", "drain", "drain_all", "drain_queue"} \cup Syncing /\ calls' \in 0 .. MaxCalls
    BY <1>1, <1>2 DEF Syncing, TypeOK, Submit, Returns, Freed, caller, InferInv
  <2>2. replays' \in 0 .. MaxReplays' /\ first' \in 0 .. MaxCalls /\ slipped' \in Nat
    BY <1>1, <1>2 DEF TypeOK, MaxReplays, Calls, Submit, Returns, Freed, caller, InferInv
  <2>3. kind' \in [Calls -> Kinds] /\ capturing' \in [Calls -> BOOLEAN] /\ allow' \in [Calls -> {0, 1}]
    BY <1>1, <1>2 DEF TypeOK, Kinds, Submit, Returns, Freed, caller, InferInv
  <2>4. args' \in [Calls -> {"none", "live", "freed"}]
    BY <1>1, <1>2 DEF TypeOK, Going, Submit, Returns, Freed, caller, InferInv
  <2>5. captured' \in BOOLEAN /\ waited' \in BOOLEAN /\ raised' \in BOOLEAN
    BY <1>1, <1>2 DEF TypeOK, Submit, Returns, Freed, caller, InferInv
  <2>6. graph' \in Seq(Calls) /\ stream' \in Seq(Calls) /\ queue' \in Seq(Calls)
    BY <1>1, <1>2 DEF TypeOK, Submit, Returns, Freed, caller, InferInv
  <2> QED BY <2>1, <2>2, <2>3, <2>4, <2>5, <2>6 DEF TypeOK
<1>4. Going'
  BY <1>1, <1>2 DEF Going, Held, TypeOK, Calls, Submit, Returns, Freed, caller, InferInv
<1>5. Owned'
  BY <1>1, <1>2 DEF Owned, Held, TypeOK, Calls, Submit, Returns, Freed, caller, InferInv
<1>6. Kept'
  BY <1>1, <1>2 DEF Kept, Held, Queries, Faults, TypeOK, Calls, Submit, Returns, Freed, caller, InferInv
<1>7. Latched'
  BY <1>1, <1>2 DEF Latched, TypeOK, Submit, Returns, Freed, caller, InferInv
<1>8. Drained'
  BY <1>1, <1>2 DEF Drained, TypeOK, Submit, Returns, Freed, caller, InferInv
<1> QED BY <1>3, <1>4, <1>5, <1>6, <1>7, <1>8 DEF InferInv

\* A callback is launched, or recorded.
LEMMA LaunchKeeps ==
  ASSUME InferInv, Launch, UNCHANGED setup, asleep' \in BOOLEAN
  PROVE  InferInv'
<1>1. MaxCalls \in Nat /\ calls \in 0 .. MaxCalls /\ Held \subseteq Calls
  BY CpuInferAssumption, HeldCalls DEF InferInv, TypeOK
<1>2. calls \in Calls /\ calls \notin Held
  BY DEF Going, InferInv, Launch, Returns, caller
<1>3. /\ Append(stream, calls) \in Seq(Calls) /\ Append(graph, calls) \in Seq(Calls)
      /\ Range(Append(stream, calls)) = Range(stream) \cup {calls} /\ Range(Append(graph, calls)) = Range(graph) \cup {calls}
  BY <1>2, AppendAdds DEF TypeOK, InferInv, Launch, Returns, caller
<1>4. \A c \in Calls : Once(stream, c) /\ (c = calls => c \notin Range(stream)) => Once(Append(stream, calls), c)
  BY <1>2, AppendAdds DEF TypeOK, InferInv, Launch, Returns, caller
<1>5. ~capturing[calls] => ~captured
  BY DEF Going, InferInv, Launch, Returns, caller
<1>6. TypeOK'
  <2>1. pc' \in {"idle", "ready", "drain", "drain_all", "drain_queue"} \cup Syncing /\ calls' \in 0 .. MaxCalls
    BY <1>1, <1>2, <1>3, <1>4, <1>5 DEF Syncing, TypeOK, Launch, Returns, caller, InferInv
  <2>2. replays' \in 0 .. MaxReplays' /\ first' \in 0 .. MaxCalls /\ slipped' \in Nat
    BY <1>1, <1>2, <1>3, <1>4, <1>5 DEF TypeOK, MaxReplays, Calls, Launch, Returns, caller, InferInv
  <2>3. kind' \in [Calls -> Kinds] /\ capturing' \in [Calls -> BOOLEAN] /\ allow' \in [Calls -> {0, 1}]
    BY <1>1, <1>2, <1>3, <1>4, <1>5 DEF TypeOK, Kinds, Launch, Returns, caller, InferInv
  <2>4. args' \in [Calls -> {"none", "live", "freed"}]
    BY <1>1, <1>2, <1>3, <1>4, <1>5 DEF TypeOK, Going, Launch, Returns, caller, InferInv
  <2>5. captured' \in BOOLEAN /\ waited' \in BOOLEAN /\ raised' \in BOOLEAN
    BY <1>1, <1>2, <1>3, <1>4, <1>5 DEF TypeOK, Launch, Returns, caller, InferInv
  <2>6. graph' \in Seq(Calls) /\ stream' \in Seq(Calls) /\ queue' \in Seq(Calls)
    BY <1>1, <1>2, <1>3, <1>4, <1>5 DEF TypeOK, Launch, Returns, caller, InferInv
  <2> QED BY <2>1, <2>2, <2>3, <2>4, <2>5, <2>6 DEF TypeOK
<1>7. Going'
  BY <1>1, <1>2, <1>3, <1>4, <1>5 DEF Going, Held, TypeOK, Calls, Launch, Returns, caller, InferInv
<1>8. Owned'
  <2>1. calls' = calls /\ kind' = kind /\ capturing' = capturing /\ Held' = Held \cup {calls}
    BY <1>1, <1>2, <1>3, <1>4, <1>5 DEF TypeOK, Held, Launch, Returns, caller, InferInv
  <2>2. \A c \in Calls : args'[c] = IF c = calls THEN "live" ELSE args[c]
    BY <1>1, <1>2, <1>3, <1>4, <1>5 DEF TypeOK, Held, Launch, Returns, caller, InferInv
  <2>3. kind[calls] # "submit" /\ pc = "ready"
    BY <1>1, <1>2, <1>3, <1>4, <1>5 DEF TypeOK, Held, Launch, Returns, caller, InferInv
  <2>4. IF captured THEN stream' = stream /\ graph' = Append(graph, calls) ELSE graph' = graph /\ stream' = Append(stream, calls)
    BY <1>1, <1>2, <1>3, <1>4, <1>5 DEF TypeOK, Held, Launch, Returns, caller, InferInv
  <2>5. \A c \in Held' : c <= calls' /\ args'[c] = "live" /\ kind'[c] # "submit"
    BY <1>1, <1>2, <1>3, <1>4, <1>5, <2>1, <2>2, <2>3, <2>4 DEF Owned, InferInv
  <2>6. \A c \in Range(graph') : capturing'[c]
    BY <1>1, <1>2, <1>3, <1>4, <1>5, <2>1, <2>2, <2>3, <2>4 DEF Owned, InferInv, Held
  <2>7. ASSUME NEW c \in Calls, ~capturing'[c] PROVE Once(stream', c)
    <3>1. Once(stream, c) /\ calls \notin Range(stream)
      BY <1>2, <2>1, <2>7 DEF Owned, InferInv, Held
    <3>2. CASE captured
      BY <2>4, <3>1, <3>2
    <3>3. CASE ~captured
      BY <1>4, <2>4, <3>1, <3>3
    <3> QED BY <3>2, <3>3
  <2> QED BY <2>5, <2>6, <2>7 DEF Owned
<1>9. Kept'
  <2>1. calls' = calls /\ kind' = kind /\ capturing' = capturing /\ Held' = Held \cup {calls}
    BY <1>1, <1>2, <1>3, <1>4, <1>5 DEF TypeOK, Held, Launch, Returns, caller, InferInv
  <2>2. \A c \in Calls : args'[c] = IF c = calls THEN "live" ELSE args[c]
    BY <1>1, <1>2, <1>3, <1>4, <1>5 DEF TypeOK, Held, Launch, Returns, caller, InferInv
  <2>3. kind[calls] # "submit" /\ pc = "ready"
    BY <1>1, <1>2, <1>3, <1>4, <1>5 DEF TypeOK, Held, Launch, Returns, caller, InferInv
  <2>4. IF captured THEN stream' = stream /\ graph' = Append(graph, calls) ELSE graph' = graph /\ stream' = Append(stream, calls)
    BY <1>1, <1>2, <1>3, <1>4, <1>5 DEF TypeOK, Held, Launch, Returns, caller, InferInv
  <2>5. pc' = "idle" /\ setup' = setup
    BY <1>1, <1>2, <1>3, <1>4, <1>5 DEF TypeOK, Kept, Queries, Faults, Launch, Returns, caller, InferInv
  <2> QED BY <1>1, <1>2, <1>3, <1>4, <1>5, <2>1, <2>2, <2>3, <2>4, <2>5 DEF Kept, Queries, Faults, InferInv
<1>10. Latched'
  BY <1>1, <1>2, <1>3, <1>4, <1>5 DEF Latched, TypeOK, Launch, Returns, caller, InferInv
<1>11. Drained'
  BY <1>1, <1>2, <1>3, <1>4, <1>5 DEF Drained, TypeOK, Launch, Returns, caller, InferInv
<1> QED BY <1>6, <1>7, <1>8, <1>9, <1>10, <1>11 DEF InferInv

\* The launch fails, or the record cannot be allocated: the guard frees the arguments.
LEMMA LaunchFailsKeeps ==
  ASSUME InferInv, LaunchFails \/ AllocFails, UNCHANGED setup, asleep' \in BOOLEAN
  PROVE  InferInv'
<1>1. MaxCalls \in Nat /\ calls \in 0 .. MaxCalls /\ Held \subseteq Calls
  BY CpuInferAssumption, HeldCalls DEF InferInv, TypeOK
<1>2. calls \in Calls /\ calls \notin Held
  BY DEF Going, InferInv, LaunchFails, AllocFails, Freed, caller
<1>3. args'[calls] # "live"
  BY <1>2 DEF Going, TypeOK, Kinds, InferInv, LaunchFails, AllocFails, Freed, caller
<1>4. TypeOK'
  <2>1. pc' \in {"idle", "ready", "drain", "drain_all", "drain_queue"} \cup Syncing /\ calls' \in 0 .. MaxCalls
    BY <1>1, <1>2, <1>3 DEF Syncing, TypeOK, LaunchFails, AllocFails, Freed, caller, InferInv
  <2>2. replays' \in 0 .. MaxReplays' /\ first' \in 0 .. MaxCalls /\ slipped' \in Nat
    BY <1>1, <1>2, <1>3 DEF TypeOK, MaxReplays, Calls, LaunchFails, AllocFails, Freed, caller, InferInv
  <2>3. kind' \in [Calls -> Kinds] /\ capturing' \in [Calls -> BOOLEAN] /\ allow' \in [Calls -> {0, 1}]
    BY <1>1, <1>2, <1>3 DEF TypeOK, Kinds, LaunchFails, AllocFails, Freed, caller, InferInv
  <2>4. args' \in [Calls -> {"none", "live", "freed"}]
    BY <1>1, <1>2, <1>3 DEF TypeOK, Going, LaunchFails, AllocFails, Freed, caller, InferInv
  <2>5. captured' \in BOOLEAN /\ waited' \in BOOLEAN /\ raised' \in BOOLEAN
    BY <1>1, <1>2, <1>3 DEF TypeOK, LaunchFails, AllocFails, Freed, caller, InferInv
  <2>6. graph' \in Seq(Calls) /\ stream' \in Seq(Calls) /\ queue' \in Seq(Calls)
    BY <1>1, <1>2, <1>3 DEF TypeOK, LaunchFails, AllocFails, Freed, caller, InferInv
  <2> QED BY <2>1, <2>2, <2>3, <2>4, <2>5, <2>6 DEF TypeOK
<1>5. Going'
  BY <1>1, <1>2, <1>3 DEF Going, Held, TypeOK, Calls, LaunchFails, AllocFails, Freed, caller, InferInv
<1>6. Owned'
  <2>1. calls' = calls /\ kind' = kind /\ capturing' = capturing /\ stream' = stream /\ graph' = graph /\ Held' = Held
    BY <1>1, <1>2, <1>3 DEF TypeOK, Held, LaunchFails, AllocFails, Freed, caller, InferInv
  <2>2. \A c \in Calls : c # calls => args'[c] = args[c]
    BY <1>1, <1>2, <1>3 DEF TypeOK, Held, LaunchFails, AllocFails, Freed, caller, InferInv
  <2>3. pc = "ready"
    BY <1>1, <1>2, <1>3 DEF TypeOK, Held, LaunchFails, AllocFails, Freed, caller, InferInv
  <2>4. \A c \in Held' : c <= calls' /\ args'[c] = "live" /\ kind'[c] # "submit"
    BY <1>1, <1>2, <1>3, <2>1, <2>2, <2>3 DEF Owned, InferInv, Held
  <2>5. \A c \in Range(graph') : capturing'[c]
    BY <1>1, <1>2, <1>3, <2>1, <2>2, <2>3 DEF Owned, InferInv, Held
  <2>6. \A c \in Calls : ~capturing'[c] => Once(stream', c)
    BY <1>1, <1>2, <1>3, <2>1, <2>2, <2>3, NotInOnce DEF Owned, InferInv, Held
  <2> QED BY <2>4, <2>5, <2>6 DEF Owned
<1>7. Kept'
  <2>1. calls' = calls /\ kind' = kind /\ capturing' = capturing /\ stream' = stream /\ graph' = graph /\ Held' = Held
    BY <1>1, <1>2, <1>3 DEF TypeOK, Held, LaunchFails, AllocFails, Freed, caller, InferInv
  <2>2. \A c \in Calls : c # calls => args'[c] = args[c]
    BY <1>1, <1>2, <1>3 DEF TypeOK, Held, LaunchFails, AllocFails, Freed, caller, InferInv
  <2>3. pc = "ready"
    BY <1>1, <1>2, <1>3 DEF TypeOK, Held, LaunchFails, AllocFails, Freed, caller, InferInv
  <2>4. pc' # "ready" /\ setup' = setup
    BY <1>1, <1>2, <1>3 DEF TypeOK, Kept, Queries, Faults, LaunchFails, AllocFails, Freed, caller, InferInv
  <2> QED BY <1>1, <1>2, <1>3, <2>1, <2>2, <2>3, <2>4 DEF Kept, Queries, Faults, InferInv
<1>8. Latched'
  BY <1>1, <1>2, <1>3 DEF Latched, TypeOK, LaunchFails, AllocFails, Freed, caller, InferInv
<1>9. Drained'
  BY <1>1, <1>2, <1>3 DEF Drained, TypeOK, LaunchFails, AllocFails, Freed, caller, InferInv
<1> QED BY <1>4, <1>5, <1>6, <1>7, <1>8, <1>9 DEF InferInv

\* A drain begins, waits for the device and for the queue, and takes the failure.
LEMMA DrainKeeps ==
  ASSUME InferInv, Synchronize \/ DeviceSync \/ QueueSync \/ SyncReturns \/ \E n \in {0, 1} : Sync(n),
         UNCHANGED setup, asleep' \in BOOLEAN
  PROVE  InferInv'
<1>1. MaxCalls \in Nat /\ calls \in 0 .. MaxCalls /\ Held \subseteq Calls
  BY CpuInferAssumption, HeldCalls DEF InferInv, TypeOK
<1>2. replays' = replays /\ first' \in {first, 0} /\ slipped' \in {slipped, 0}
  BY DEF Synchronize, DeviceSync, QueueSync, Sync, SyncReturns, Syncing, caller
<1>3. TypeOK'
  <2>1. pc' \in {"idle", "ready", "drain", "drain_all", "drain_queue"} \cup Syncing /\ calls' \in 0 .. MaxCalls
    BY <1>1, <1>2 DEF Syncing, TypeOK, Synchronize, DeviceSync, QueueSync, Sync, SyncReturns, Syncing, caller, InferInv
  <2>2. replays' \in 0 .. MaxReplays' /\ first' \in 0 .. MaxCalls /\ slipped' \in Nat
    BY <1>1, <1>2 DEF TypeOK, MaxReplays, InferInv
  <2>3. kind' \in [Calls -> Kinds] /\ capturing' \in [Calls -> BOOLEAN] /\ allow' \in [Calls -> {0, 1}]
    BY <1>1, <1>2 DEF TypeOK, Kinds, Synchronize, DeviceSync, QueueSync, Sync, SyncReturns, Syncing, caller, InferInv
  <2>4. args' \in [Calls -> {"none", "live", "freed"}]
    BY <1>1, <1>2 DEF TypeOK, Going, Synchronize, DeviceSync, QueueSync, Sync, SyncReturns, Syncing, caller, InferInv
  <2>5. captured' \in BOOLEAN /\ waited' \in BOOLEAN /\ raised' \in BOOLEAN
    BY <1>1, <1>2 DEF TypeOK, Synchronize, DeviceSync, QueueSync, Sync, SyncReturns, Syncing, caller, InferInv
  <2>6. graph' \in Seq(Calls) /\ stream' \in Seq(Calls) /\ queue' \in Seq(Calls)
    BY <1>1, <1>2 DEF TypeOK, Synchronize, DeviceSync, QueueSync, Sync, SyncReturns, Syncing, caller, InferInv
  <2> QED BY <2>1, <2>2, <2>3, <2>4, <2>5, <2>6 DEF TypeOK
<1>4. Going'
  BY <1>1, <1>2 DEF Going, Held, TypeOK, Calls, Synchronize, DeviceSync, QueueSync, Sync, SyncReturns, Syncing, caller, InferInv
<1>5. Owned'
  BY <1>1, <1>2 DEF Owned, Held, TypeOK, Calls, Synchronize, DeviceSync, QueueSync, Sync, SyncReturns, Syncing, caller, InferInv
<1>6. Kept'
  BY <1>1, <1>2 DEF Kept, Held, Queries, Faults, TypeOK, Calls, Synchronize, DeviceSync, QueueSync, Sync, SyncReturns, Syncing, caller, InferInv
<1>7. Latched'
  BY <1>1, <1>2 DEF Latched, TypeOK, Synchronize, DeviceSync, QueueSync, Sync, SyncReturns, Syncing, caller, InferInv
<1>8. Drained'
  BY <1>1, <1>2 DEF Drained, TypeOK, Synchronize, DeviceSync, QueueSync, Sync, SyncReturns, Syncing, caller, InferInv
<1> QED BY <1>3, <1>4, <1>5, <1>6, <1>7, <1>8 DEF InferInv

-----------------------------------------------------------------------------
(* The graph, the stream and the worker.                                   *)

\* A capture begins or ends between calls.
LEMMA CaptureKeeps ==
  ASSUME InferInv, BeginCapture \/ EndCapture, UNCHANGED setup, asleep' \in BOOLEAN
  PROVE  InferInv'
<1>1. MaxCalls \in Nat /\ calls \in 0 .. MaxCalls /\ Held \subseteq Calls
  BY CpuInferAssumption, HeldCalls DEF InferInv, TypeOK
<1>2. TypeOK'
  <2>1. pc' \in {"idle", "ready", "drain", "drain_all", "drain_queue"} \cup Syncing /\ calls' \in 0 .. MaxCalls
    BY <1>1 DEF Syncing, TypeOK, BeginCapture, EndCapture, caller, InferInv
  <2>2. replays' \in 0 .. MaxReplays' /\ first' \in 0 .. MaxCalls /\ slipped' \in Nat
    BY <1>1 DEF TypeOK, MaxReplays, Calls, BeginCapture, EndCapture, caller, InferInv
  <2>3. kind' \in [Calls -> Kinds] /\ capturing' \in [Calls -> BOOLEAN] /\ allow' \in [Calls -> {0, 1}]
    BY <1>1 DEF TypeOK, Kinds, BeginCapture, EndCapture, caller, InferInv
  <2>4. args' \in [Calls -> {"none", "live", "freed"}]
    BY <1>1 DEF TypeOK, Going, BeginCapture, EndCapture, caller, InferInv
  <2>5. captured' \in BOOLEAN /\ waited' \in BOOLEAN /\ raised' \in BOOLEAN
    BY <1>1 DEF TypeOK, BeginCapture, EndCapture, caller, InferInv
  <2>6. graph' \in Seq(Calls) /\ stream' \in Seq(Calls) /\ queue' \in Seq(Calls)
    BY <1>1 DEF TypeOK, BeginCapture, EndCapture, caller, InferInv
  <2> QED BY <2>1, <2>2, <2>3, <2>4, <2>5, <2>6 DEF TypeOK
<1>3. Going'
  BY <1>1 DEF Going, Held, TypeOK, Calls, BeginCapture, EndCapture, caller, InferInv
<1>4. Owned'
  BY <1>1 DEF Owned, Held, TypeOK, Calls, BeginCapture, EndCapture, caller, InferInv
<1>5. Kept'
  BY <1>1 DEF Kept, Held, Queries, Faults, TypeOK, Calls, BeginCapture, EndCapture, caller, InferInv
<1>6. Latched'
  BY <1>1 DEF Latched, TypeOK, BeginCapture, EndCapture, caller, InferInv
<1>7. Drained'
  BY <1>1 DEF Drained, TypeOK, BeginCapture, EndCapture, caller, InferInv
<1> QED BY <1>2, <1>3, <1>4, <1>5, <1>6, <1>7 DEF InferInv

\* The graph's callbacks are launched once more.
LEMMA ReplayKeeps ==
  ASSUME InferInv, Replay, UNCHANGED setup, asleep' \in BOOLEAN
  PROVE  InferInv'
<1>1. MaxCalls \in Nat /\ calls \in 0 .. MaxCalls /\ Held \subseteq Calls
  BY CpuInferAssumption, HeldCalls DEF InferInv, TypeOK
<1>2. stream \o graph \in Seq(Calls) /\ Range(stream \o graph) = Range(stream) \cup Range(graph)
  BY ConcatAdds DEF TypeOK, InferInv, Replay, caller
<1>3. \A c \in Calls : ~capturing[c] => Once(stream \o graph, c)
  BY ConcatAdds DEF TypeOK, Owned, InferInv, Replay, caller
<1>4. replays' \in 0 .. MaxReplays
  BY CpuInferAssumption DEF TypeOK, MaxReplays, InferInv, Replay, caller
<1>5. TypeOK'
  <2>1. pc' \in {"idle", "ready", "drain", "drain_all", "drain_queue"} \cup Syncing /\ calls' \in 0 .. MaxCalls
    BY <1>1, <1>2, <1>3, <1>4 DEF Syncing, TypeOK, Replay, caller, InferInv
  <2>2. replays' \in 0 .. MaxReplays' /\ first' \in 0 .. MaxCalls /\ slipped' \in Nat
    BY <1>1, <1>2, <1>3, <1>4 DEF TypeOK, MaxReplays, Calls, Replay, caller, InferInv
  <2>3. kind' \in [Calls -> Kinds] /\ capturing' \in [Calls -> BOOLEAN] /\ allow' \in [Calls -> {0, 1}]
    BY <1>1, <1>2, <1>3, <1>4 DEF TypeOK, Kinds, Replay, caller, InferInv
  <2>4. args' \in [Calls -> {"none", "live", "freed"}]
    BY <1>1, <1>2, <1>3, <1>4 DEF TypeOK, Going, Replay, caller, InferInv
  <2>5. captured' \in BOOLEAN /\ waited' \in BOOLEAN /\ raised' \in BOOLEAN
    BY <1>1, <1>2, <1>3, <1>4 DEF TypeOK, Replay, caller, InferInv
  <2>6. graph' \in Seq(Calls) /\ stream' \in Seq(Calls) /\ queue' \in Seq(Calls)
    BY <1>1, <1>2, <1>3, <1>4 DEF TypeOK, Replay, caller, InferInv
  <2> QED BY <2>1, <2>2, <2>3, <2>4, <2>5, <2>6 DEF TypeOK
<1>6. Going'
  BY <1>1, <1>2, <1>3, <1>4 DEF Going, Held, TypeOK, Calls, Replay, caller, InferInv
<1>7. Owned'
  BY <1>1, <1>2, <1>3, <1>4 DEF Owned, Held, TypeOK, Calls, Replay, caller, InferInv
<1>8. Kept'
  BY <1>1, <1>2, <1>3, <1>4 DEF Kept, Held, Queries, Faults, TypeOK, Calls, Replay, caller, InferInv
<1>9. Latched'
  BY <1>1, <1>2, <1>3, <1>4 DEF Latched, TypeOK, Replay, caller, InferInv
<1>10. Drained'
  BY <1>1, <1>2, <1>3, <1>4 DEF Drained, TypeOK, Replay, caller, InferInv
<1> QED BY <1>5, <1>6, <1>7, <1>8, <1>9, <1>10 DEF InferInv

\* A callback queues its task, or records its failure.
LEMMA SubmitCallbackKeeps ==
  ASSUME InferInv, SubmitCallback, UNCHANGED setup, asleep' \in BOOLEAN
  PROVE  InferInv'
<1>1. MaxCalls \in Nat /\ calls \in 0 .. MaxCalls /\ Held \subseteq Calls
  BY CpuInferAssumption, HeldCalls DEF InferInv, TypeOK
<1>2. stream # <<>>
  BY DEF SubmitCallback, AfterCallback, Autofree, Freed, Latch, caller
<1>3. Head(stream) \in Calls /\ Tail(stream) \in Seq(Calls) /\ Range(stream) = Range(Tail(stream)) \cup {Head(stream)}
  BY <1>2, TailDrops DEF TypeOK, InferInv, SubmitCallback, AfterCallback, Autofree, Freed, Latch, caller
<1>4. /\ \A c \in Calls : Once(stream, c) => Once(Tail(stream), c)
      /\ ~capturing[Head(stream)] => Head(stream) \notin Range(Tail(stream)) /\ Head(stream) \notin Range(graph)
  BY <1>2, <1>3, TailDrops DEF TypeOK, Owned, InferInv, SubmitCallback, AfterCallback, Autofree, Freed, Latch, caller
<1>5. args[Head(stream)] = "live" /\ Head(stream) \in Held /\ capturing[Head(stream)] \in BOOLEAN
  BY <1>3 DEF Owned, Held, TypeOK, InferInv, SubmitCallback, AfterCallback, Autofree, Freed, Latch, caller
<1>6. Append(queue, Head(stream)) \in Seq(Calls)
  BY <1>3, AppendAdds DEF TypeOK, InferInv, SubmitCallback, AfterCallback, Autofree, Freed, Latch, caller
<1>7. TypeOK'
  <2>1. pc' \in {"idle", "ready", "drain", "drain_all", "drain_queue"} \cup Syncing /\ calls' \in 0 .. MaxCalls
    BY <1>1, <1>2, <1>3, <1>4, <1>5, <1>6 DEF Syncing, TypeOK, SubmitCallback, AfterCallback, Autofree, Freed, Latch, caller, InferInv
  <2>2. replays' \in 0 .. MaxReplays' /\ first' \in 0 .. MaxCalls /\ slipped' \in Nat
    BY <1>1, <1>2, <1>3, <1>4, <1>5, <1>6 DEF TypeOK, MaxReplays, Calls, SubmitCallback, AfterCallback, Autofree, Freed, Latch, caller, InferInv
  <2>3. kind' \in [Calls -> Kinds] /\ capturing' \in [Calls -> BOOLEAN] /\ allow' \in [Calls -> {0, 1}]
    BY <1>1, <1>2, <1>3, <1>4, <1>5, <1>6 DEF TypeOK, Kinds, SubmitCallback, AfterCallback, Autofree, Freed, Latch, caller, InferInv
  <2>4. args' \in [Calls -> {"none", "live", "freed"}]
    BY <1>1, <1>2, <1>3, <1>4, <1>5, <1>6 DEF TypeOK, Going, SubmitCallback, AfterCallback, Autofree, Freed, Latch, caller, InferInv
  <2>5. captured' \in BOOLEAN /\ waited' \in BOOLEAN /\ raised' \in BOOLEAN
    BY <1>1, <1>2, <1>3, <1>4, <1>5, <1>6 DEF TypeOK, SubmitCallback, AfterCallback, Autofree, Freed, Latch, caller, InferInv
  <2>6. graph' \in Seq(Calls) /\ stream' \in Seq(Calls) /\ queue' \in Seq(Calls)
    BY <1>1, <1>2, <1>3, <1>4, <1>5, <1>6 DEF TypeOK, SubmitCallback, AfterCallback, Autofree, Freed, Latch, caller, InferInv
  <2> QED BY <2>1, <2>2, <2>3, <2>4, <2>5, <2>6 DEF TypeOK
<1>8. Going'
  BY <1>1, <1>2, <1>3, <1>4, <1>5, <1>6 DEF Going, Held, TypeOK, Calls, SubmitCallback, AfterCallback, Autofree, Freed, Latch, caller, InferInv
<1>9. Owned'
  <2>1. calls' = calls /\ kind' = kind /\ capturing' = capturing /\ graph' = graph
    BY <1>1, <1>2, <1>3, <1>4, <1>5, <1>6 DEF TypeOK, Held, SubmitCallback, AfterCallback, Autofree, Freed, Latch, caller, InferInv
  <2>2. \/ stream' = stream /\ args' = args
        \/ /\ stream' = Tail(stream)
           /\ \A c \in Calls : args'[c] = IF c = Head(stream) /\ ~capturing[c] THEN "freed" ELSE args[c]
    BY <1>1, <1>2, <1>3, <1>4, <1>5, <1>6 DEF TypeOK, Held, SubmitCallback, AfterCallback, Autofree, Freed, Latch, caller, InferInv
  <2>3. Held' = Range(stream') \cup Range(graph')
    BY <1>1, <1>2, <1>3, <1>4, <1>5, <1>6 DEF TypeOK, Held, SubmitCallback, AfterCallback, Autofree, Freed, Latch, caller, InferInv
  <2>4. \A c \in Held' : c <= calls' /\ args'[c] = "live" /\ kind'[c] # "submit"
    BY <1>1, <1>2, <1>3, <1>4, <1>5, <1>6, <2>1, <2>2, <2>3 DEF Owned, InferInv, Held
  <2>5. \A c \in Range(graph') : capturing'[c]
    BY <1>1, <1>2, <1>3, <1>4, <1>5, <1>6, <2>1, <2>2, <2>3 DEF Owned, InferInv, Held
  <2>6. \A c \in Calls : ~capturing'[c] => Once(stream', c)
    BY <1>1, <1>2, <1>3, <1>4, <1>5, <1>6, <2>1, <2>2, <2>3, NotInOnce DEF Owned, InferInv, Held
  <2> QED BY <2>4, <2>5, <2>6 DEF Owned
<1>10. Kept'
  BY <1>1, <1>2, <1>3, <1>4, <1>5, <1>6 DEF Kept, Held, Queries, Faults, TypeOK, Calls, SubmitCallback, AfterCallback, Autofree, Freed, Latch, caller, InferInv
<1>11. Latched'
  BY <1>1, <1>2, <1>3, <1>4, <1>5, <1>6 DEF Latched, TypeOK, SubmitCallback, AfterCallback, Autofree, Freed, Latch, caller, InferInv
<1>12. Drained'
  BY <1>1, <1>2, <1>3, <1>4, <1>5, <1>6 DEF Drained, TypeOK, SubmitCallback, AfterCallback, Autofree, Freed, Latch, caller, InferInv
<1> QED BY <1>7, <1>8, <1>9, <1>10, <1>11, <1>12 DEF InferInv

\* A callback has waited for the queue, or has to wait again.
LEMMA SyncCallbackKeeps ==
  ASSUME InferInv, SyncCallback, UNCHANGED setup, asleep' \in BOOLEAN
  PROVE  InferInv'
<1>1. MaxCalls \in Nat /\ calls \in 0 .. MaxCalls /\ Held \subseteq Calls
  BY CpuInferAssumption, HeldCalls DEF InferInv, TypeOK
<1>2. stream # <<>>
  BY DEF SyncCallback, AfterCallback, Autofree, Freed, caller
<1>3. Head(stream) \in Calls /\ Tail(stream) \in Seq(Calls) /\ Range(stream) = Range(Tail(stream)) \cup {Head(stream)}
  BY <1>2, TailDrops DEF TypeOK, InferInv, SyncCallback, AfterCallback, Autofree, Freed, caller
<1>4. /\ \A c \in Calls : Once(stream, c) => Once(Tail(stream), c)
      /\ ~capturing[Head(stream)] => Head(stream) \notin Range(Tail(stream)) /\ Head(stream) \notin Range(graph)
  BY <1>2, <1>3, TailDrops DEF TypeOK, Owned, InferInv, SyncCallback, AfterCallback, Autofree, Freed, caller
<1>5. args[Head(stream)] = "live" /\ Head(stream) \in Held /\ capturing[Head(stream)] \in BOOLEAN
  BY <1>3 DEF Owned, Held, TypeOK, InferInv, SyncCallback, AfterCallback, Autofree, Freed, caller
<1>6. TypeOK'
  <2>1. pc' \in {"idle", "ready", "drain", "drain_all", "drain_queue"} \cup Syncing /\ calls' \in 0 .. MaxCalls
    BY <1>1, <1>2, <1>3, <1>4, <1>5 DEF Syncing, TypeOK, SyncCallback, AfterCallback, Autofree, Freed, caller, InferInv
  <2>2. replays' \in 0 .. MaxReplays' /\ first' \in 0 .. MaxCalls /\ slipped' \in Nat
    BY <1>1, <1>2, <1>3, <1>4, <1>5 DEF TypeOK, MaxReplays, Calls, SyncCallback, AfterCallback, Autofree, Freed, caller, InferInv
  <2>3. kind' \in [Calls -> Kinds] /\ capturing' \in [Calls -> BOOLEAN] /\ allow' \in [Calls -> {0, 1}]
    BY <1>1, <1>2, <1>3, <1>4, <1>5 DEF TypeOK, Kinds, SyncCallback, AfterCallback, Autofree, Freed, caller, InferInv
  <2>4. args' \in [Calls -> {"none", "live", "freed"}]
    BY <1>1, <1>2, <1>3, <1>4, <1>5 DEF TypeOK, Going, SyncCallback, AfterCallback, Autofree, Freed, caller, InferInv
  <2>5. captured' \in BOOLEAN /\ waited' \in BOOLEAN /\ raised' \in BOOLEAN
    BY <1>1, <1>2, <1>3, <1>4, <1>5 DEF TypeOK, SyncCallback, AfterCallback, Autofree, Freed, caller, InferInv
  <2>6. graph' \in Seq(Calls) /\ stream' \in Seq(Calls) /\ queue' \in Seq(Calls)
    BY <1>1, <1>2, <1>3, <1>4, <1>5 DEF TypeOK, SyncCallback, AfterCallback, Autofree, Freed, caller, InferInv
  <2> QED BY <2>1, <2>2, <2>3, <2>4, <2>5, <2>6 DEF TypeOK
<1>7. Going'
  BY <1>1, <1>2, <1>3, <1>4, <1>5 DEF Going, Held, TypeOK, Calls, SyncCallback, AfterCallback, Autofree, Freed, caller, InferInv
<1>8. Owned'
  <2>1. calls' = calls /\ kind' = kind /\ capturing' = capturing /\ graph' = graph
    BY <1>1, <1>2, <1>3, <1>4, <1>5 DEF TypeOK, Held, SyncCallback, AfterCallback, Autofree, Freed, caller, InferInv
  <2>2. \/ stream' = stream /\ args' = args
        \/ /\ stream' = Tail(stream)
           /\ \A c \in Calls : args'[c] = IF c = Head(stream) /\ ~capturing[c] THEN "freed" ELSE args[c]
    BY <1>1, <1>2, <1>3, <1>4, <1>5 DEF TypeOK, Held, SyncCallback, AfterCallback, Autofree, Freed, caller, InferInv
  <2>3. Held' = Range(stream') \cup Range(graph')
    BY <1>1, <1>2, <1>3, <1>4, <1>5 DEF TypeOK, Held, SyncCallback, AfterCallback, Autofree, Freed, caller, InferInv
  <2>4. \A c \in Held' : c <= calls' /\ args'[c] = "live" /\ kind'[c] # "submit"
    BY <1>1, <1>2, <1>3, <1>4, <1>5, <2>1, <2>2, <2>3 DEF Owned, InferInv, Held
  <2>5. \A c \in Range(graph') : capturing'[c]
    BY <1>1, <1>2, <1>3, <1>4, <1>5, <2>1, <2>2, <2>3 DEF Owned, InferInv, Held
  <2>6. \A c \in Calls : ~capturing'[c] => Once(stream', c)
    BY <1>1, <1>2, <1>3, <1>4, <1>5, <2>1, <2>2, <2>3, NotInOnce DEF Owned, InferInv, Held
  <2> QED BY <2>4, <2>5, <2>6 DEF Owned
<1>9. Kept'
  BY <1>1, <1>2, <1>3, <1>4, <1>5 DEF Kept, Held, Queries, Faults, TypeOK, Calls, SyncCallback, AfterCallback, Autofree, Freed, caller, InferInv
<1>10. Latched'
  BY <1>1, <1>2, <1>3, <1>4, <1>5 DEF Latched, TypeOK, SyncCallback, AfterCallback, Autofree, Freed, caller, InferInv
<1>11. Drained'
  BY <1>1, <1>2, <1>3, <1>4, <1>5 DEF Drained, TypeOK, SyncCallback, AfterCallback, Autofree, Freed, caller, InferInv
<1> QED BY <1>6, <1>7, <1>8, <1>9, <1>10, <1>11 DEF InferInv

\* The worker runs a task.
LEMMA RunTaskKeeps ==
  ASSUME InferInv, RunTask, UNCHANGED setup, asleep' \in BOOLEAN
  PROVE  InferInv'
<1>1. MaxCalls \in Nat /\ calls \in 0 .. MaxCalls /\ Held \subseteq Calls
  BY CpuInferAssumption, HeldCalls DEF InferInv, TypeOK
<1>2. Head(queue) \in Calls /\ Tail(queue) \in Seq(Calls)
  BY TailDrops DEF TypeOK, InferInv, RunTask, Latch, caller
<1>3. TypeOK'
  <2>1. pc' \in {"idle", "ready", "drain", "drain_all", "drain_queue"} \cup Syncing /\ calls' \in 0 .. MaxCalls
    BY <1>1, <1>2 DEF Syncing, TypeOK, RunTask, Latch, caller, InferInv
  <2>2. replays' \in 0 .. MaxReplays' /\ first' \in 0 .. MaxCalls /\ slipped' \in Nat
    BY <1>1, <1>2 DEF TypeOK, MaxReplays, Calls, RunTask, Latch, caller, InferInv
  <2>3. kind' \in [Calls -> Kinds] /\ capturing' \in [Calls -> BOOLEAN] /\ allow' \in [Calls -> {0, 1}]
    BY <1>1, <1>2 DEF TypeOK, Kinds, RunTask, Latch, caller, InferInv
  <2>4. args' \in [Calls -> {"none", "live", "freed"}]
    BY <1>1, <1>2 DEF TypeOK, Going, RunTask, Latch, caller, InferInv
  <2>5. captured' \in BOOLEAN /\ waited' \in BOOLEAN /\ raised' \in BOOLEAN
    BY <1>1, <1>2 DEF TypeOK, RunTask, Latch, caller, InferInv
  <2>6. graph' \in Seq(Calls) /\ stream' \in Seq(Calls) /\ queue' \in Seq(Calls)
    BY <1>1, <1>2 DEF TypeOK, RunTask, Latch, caller, InferInv
  <2> QED BY <2>1, <2>2, <2>3, <2>4, <2>5, <2>6 DEF TypeOK
<1>4. Going'
  BY <1>1, <1>2 DEF Going, Held, TypeOK, Calls, RunTask, Latch, caller, InferInv
<1>5. Owned'
  BY <1>1, <1>2 DEF Owned, Held, TypeOK, Calls, RunTask, Latch, caller, InferInv
<1>6. Kept'
  BY <1>1, <1>2 DEF Kept, Held, Queries, Faults, TypeOK, Calls, RunTask, Latch, caller, InferInv
<1>7. Latched'
  BY <1>1, <1>2 DEF Latched, TypeOK, RunTask, Latch, caller, InferInv
<1>8. Drained'
  BY <1>1, <1>2 DEF Drained, TypeOK, RunTask, Latch, caller, InferInv
<1> QED BY <1>3, <1>4, <1>5, <1>6, <1>7, <1>8 DEF InferInv

-----------------------------------------------------------------------------
(* The invariant, and what it says.                                        *)

\* Every step preserves the invariant.
LEMMA InferStep ==
  ASSUME InferInv, [Next]_vars
  PROVE  InferInv'
<1>1. CASE UNCHANGED vars
  BY <1>1 DEF vars, caller, InferInv, TypeOK, Going, Owned, Kept, Latched, Drained, Held, Queries, Faults, MaxReplays
<1>2. CASE Next
  <2>1. UNCHANGED setup /\ asleep' \in BOOLEAN
    <3>1. UNCHANGED setup /\ NotifyOne
      BY <1>2 DEF Next
    <3>2. asleep' \in BOOLEAN
      BY <3>1, Zenon DEF NotifyOne, InferInv, TypeOK
    <3> QED BY <3>1, <3>2
  <2>2. ASSUME CallerStep PROVE InferInv'
    BY <2>1, <2>2, SubmitKeeps, LaunchKeeps, LaunchFailsKeeps, DrainKeeps DEF CallerStep
  <2>3. ASSUME BeginSubmit PROVE InferInv'
    BY <2>1, <2>3, BeginKeeps DEF BeginSubmit, Kinds
  <2>4. ASSUME BeginStreamCall PROVE InferInv'
    <3>1. PICK k \in {"submit_stream", "sync_stream"}, capt \in Captures, n \in {0, 1} : Begin(k, capt, n)
      BY <2>4 DEF BeginStreamCall
    <3>2. captured \in BOOLEAN
      BY DEF InferInv, TypeOK
    <3>3. capt \in BOOLEAN /\ (~capt => ~captured) /\ (Queries /\ "query" \notin Faults /\ capt => captured)
      <4>1. capt \in {captured, TRUE}
        <5>1. CASE ~Queries
          BY <3>1, <5>1 DEF Captures
        <5>2. CASE Queries
          <6>1. PICK hint \in BOOLEAN, ok \in BOOLEAN : capt = CaptureState(hint, ok)
            BY <3>1, <5>2 DEF Captures
          <6> QED BY <6>1 DEF CaptureState
        <5> QED BY <5>1, <5>2
      <4>2. ASSUME Queries, "query" \notin Faults PROVE capt = captured
        <5>1. PICK hint \in BOOLEAN, ok \in {TRUE} : capt = CaptureState(hint, ok)
          BY <3>1, <4>2 DEF Captures
        <5> QED BY <5>1 DEF CaptureState
      <4> QED BY <3>2, <4>1, <4>2
    <3> QED BY <2>1, <3>1, <3>3, BeginKeeps DEF Kinds
  <2>5. ASSUME Client PROVE InferInv'
    BY <2>1, <2>3, <2>4, <2>5, DrainKeeps, CaptureKeeps, ReplayKeeps DEF Client
  <2>6. ASSUME StreamStep \/ RunTask PROVE InferInv'
    BY <2>1, <2>6, SubmitCallbackKeeps, SyncCallbackKeeps, RunTaskKeeps DEF StreamStep
  <2> QED BY <1>2, <2>2, <2>5, <2>6 DEF Next
<1> QED BY <1>1, <1>2

\* It holds before the first call.
LEMMA InferStart ==
  ASSUME Init
  PROVE  InferInv
<1>1. MaxCalls \in Nat /\ MaxReplays \in Nat
  BY CpuInferAssumption DEF Init, MaxReplays
<1>2. /\ <<>> \in Seq(Calls) /\ Len(<<>>) = 0
  BY EmptySeq
<1>3. Range(<<>>) = {}
  <2>1. Range(<<>>) = {<<>>[i] : i \in 1 .. Len(<<>>)}
    BY <1>2, RangeEquality
  <2>2. 1 .. Len(<<>>) = {}
    BY <1>2
  <2> QED BY <2>1, <2>2
<1>4. Held = {} /\ Range(stream) = {} /\ Range(graph) = {}
  BY <1>3 DEF Held, Init
<1>5. TypeOK
  <2>1. kind \in [Calls -> Kinds] /\ args \in [Calls -> {"none", "live", "freed"}] /\ allow \in [Calls -> {0, 1}]
    BY DEF Init, Kinds
  <2>2. capturing \in [Calls -> BOOLEAN]
    BY DEF Init
  <2>3. captured \in BOOLEAN /\ waited \in BOOLEAN /\ raised \in BOOLEAN /\ asleep \in BOOLEAN
    BY Zenon DEF Init
  <2>4. calls \in 0 .. MaxCalls /\ replays \in 0 .. MaxReplays /\ first \in 0 .. MaxCalls /\ slipped \in Nat
    BY <1>1 DEF Init
  <2> QED BY <1>2, <2>1, <2>2, <2>3, <2>4 DEF TypeOK, Init
<1>6. Going /\ Latched /\ Drained /\ setup \in Setups
  BY DEF Init, Going, Latched, Drained
<1>7. Owned
  BY <1>2, <1>4 DEF Init, Owned, Once
<1>8. Kept
  BY DEF Init, Kept
<1> QED BY <1>5, <1>6, <1>7, <1>8 DEF InferInv

\* The inductive invariant holds in every state of CPUInfer.
LEMMA InferIsInductive == Spec => []InferInv
BY InferStart, InferStep, PTL DEF Spec

\* The arguments of a stream callback are never freed twice, nor while the
\* callback or a replay of it is to come, nor left behind where the runtime
\* tells captures: for any number of calls and replays, and whatever fails
\* (submit_with_cuda_stream, sync_with_cuda_stream and their callbacks).
THEOREM ArgumentsHaveOneOwner == Spec => []ArgsInv
<1>1. ASSUME InferInv PROVE ArgsInv
  <2>1. TypeOK /\ RunsLiveArgs
    BY <1>1 DEF InferInv, RunsLiveArgs, Owned, Held
  <2>2. NothingLeaks
    BY <1>1 DEF InferInv, NothingLeaks, Kept
  <2> QED BY <2>1, <2>2 DEF ArgsInv
<1> QED BY <1>1, InferIsInductive, PTL

\* At most one call returns normally between a failure and the call that
\* raises it, and when it is raised after a drain nothing is left running that
\* touches the caller's buffers (rethrow_pending_exception,
\* synchronize_and_rethrow).
THEOREM FailuresSurface == Spec => []FailureSurfaces
<1>1. ASSUME InferInv PROVE FailureSurfaces
  BY <1>1 DEF InferInv, FailureSurfaces, SlipsOnce, RaisedIsDrained, Latched, Drained
<1> QED BY <1>1, InferIsInductive, PTL
=============================================================================
