---------------------------- MODULE EphemeralStore ----------------------------
(***************************************************************************)
(* The consuming half of the ephemeral INT8 weights: a training process    *)
(* opens the ready directory (EphemeralKTWeightStore), loads layer after   *)
(* layer into the CPU backend (wrap_moe_layers_with_kt_wrapper, rank zero) *)
(* and deletes each layer once it has been loaded.  On an exception, at    *)
(* exit and on a signal the store deletes what it lists.                   *)
(*                                                                         *)
(* Several processes may open the same directory, any of them may be       *)
(* killed, and a signal handler runs between any two steps.                *)
(***************************************************************************)
EXTENDS EphemeralStaging

VARIABLES
    cpc,      \* consumer -> where it is
    mem,      \* consumer -> self.manifest: layer -> state, and the sizes
    at,       \* consumer -> the layer and file it is at, and the file cleanup looked for
    closed,   \* consumer -> self._closed
    back,     \* consumer -> where the signal handler returns to
    cut,      \* consumers whose cleanup was left by an exception
    signals,  \* consumer -> how many signals it got
    loaded    \* consumer -> layer -> who made the tree it was loaded from

store == <<mem, closed, loaded>>
flow  == <<back, cut, signals>>
vars  == <<setup, staging, ready, producing, kills, cpc, at, store, flow>>

Nobody  == "nobody"
NoFile  == <<0, 0>>

Init ==
    /\ StagingInit
    /\ cpc = [c \in Consumers |-> "idle"]
    /\ mem = [c \in Consumers |-> NoManifest]
    /\ at = [c \in Consumers |-> [layer |-> 1, part |-> 1, found |-> NoFile]]
    /\ closed = [c \in Consumers |-> FALSE]
    /\ back = [c \in Consumers |-> "none"]
    /\ cut = {} /\ signals = [c \in Consumers |-> 0]
    /\ loaded = [c \in Consumers |-> [l \in LayerSet |-> Nobody]]

-----------------------------------------------------------------------------
At(c, where)   == cpc[c] = where
Goes(c, where) == cpc' = [cpc EXCEPT ![c] = where]
Layer(c)       == at[c].layer
Present        == {f \in Files : ready.files[f] # "none"}
\* An exception reaches the wrapping code, which calls cleanup; that does
\* nothing when the store is closed.
Raises(c) == Goes(c, IF closed[c] THEN "failed" ELSE "cleanup")

\* _validate_manifest_layer: exactly the files of the manifest, in full size.
ValidLayer(m, l) ==
    /\ Exists(ready)
    /\ \A f \in FilesOf(l) : ready.files[f] # "none" /\ ready.files[f] = m.size[f]

\* EphemeralKTWeightStore.open; a refused directory is left as it is.
CanOpen ==
    /\ Exists(ready) /\ ready.manifest # NoManifest
    /\ \A l \in LayerSet : ready.manifest.state[l] = "ready" /\ ValidLayer(ready.manifest, l)
    /\ ready.dirs = LayerSet /\ ready.temps = {}
Open(c) ==
    /\ At(c, "idle") /\ Exists(ready)
    /\ IF CanOpen
       THEN mem' = [mem EXCEPT ![c] = ready.manifest] /\ Goes(c, "load")
       ELSE Goes(c, "failed") /\ UNCHANGED mem
    /\ UNCHANGED <<staging, ready, producing, kills, at, closed, loaded, flow>>

\* wrapper.load_weights: the backend refuses a file that has not the size the
\* layer's shape asks for.
Loadable(l) == Exists(ready) /\ \A f \in FilesOf(l) : ready.files[f] = "full"
Load(c) ==
    /\ At(c, "load")
    /\ IF Loadable(Layer(c))
       THEN loaded' = [loaded EXCEPT ![c][Layer(c)] = ready.by] /\ Goes(c, "consume")
       ELSE Raises(c) /\ UNCHANGED loaded
    /\ UNCHANGED <<staging, ready, producing, kills, mem, at, closed, flow>>

\* consume_layer up to the first write of the manifest.
MayConsume(c) ==
    ~ closed[c] /\ mem[c].state[Layer(c)] = "ready" /\ ValidLayer(mem[c], Layer(c))
Consume(c) ==
    /\ At(c, "consume")
    /\ IF MayConsume(c)
       THEN mem' = [mem EXCEPT ![c].state[Layer(c)] = "consuming"] /\ Goes(c, "temp")
       ELSE Raises(c) /\ UNCHANGED mem
    /\ UNCHANGED <<staging, ready, producing, kills, at, closed, loaded, flow>>

\* _atomic_write_manifest: a temporary file opened with "x", written, and then
\* the rename.  Either of the first two may fail for want of space.
WriteTemp(c) ==
    /\ At(c, "temp")
    /\ \/ /\ Exists(ready) /\ c \notin ready.temps
          /\ ready' = [ready EXCEPT !.temps = @ \cup {c}]
          /\ Goes(c, "replace") \/ Raises(c)
       \/ Raises(c) /\ UNCHANGED ready
    /\ UNCHANGED <<staging, producing, kills, at, store, flow>>
\* Mutant: one layer too many.
LastLayerPast(c) == Layer(c) > Layers
LastLayer(c)     == Layer(c) = Layers
Replace(c) ==
    /\ At(c, "replace")
    /\ IF Exists(ready) /\ c \in ready.temps
       THEN /\ ready' = [ready EXCEPT !.temps = @ \ {c}, !.manifest = mem[c]]
            /\ Goes(c, IF mem[c].state[Layer(c)] = "consuming" THEN "unlink"
                       ELSE IF LastLayer(c) THEN "finish" ELSE "load")
            /\ at' = IF mem[c].state[Layer(c)] = "consuming" \/ LastLayer(c)
                     THEN at ELSE [at EXCEPT ![c].layer = @ + 1, ![c].part = 1]
       ELSE Raises(c) /\ UNCHANGED <<ready, at>>
    /\ UNCHANGED <<staging, producing, kills, store, flow>>

\* consume_layer and finish: a file or directory to be removed that is not there
\* is an error.  Mutant: it is passed over.
TolerateMissing == TRUE
PassOverMissing == FALSE

\* The files of the layer are deleted one by one.
Gone(f) == ~ Exists(ready) \/ ready.files[f] = "none"
Unlink(c) ==
    /\ At(c, "unlink")
    /\ LET f == <<Layer(c), at[c].part>> IN
         IF Gone(f) /\ ~ PassOverMissing
         THEN Raises(c) /\ UNCHANGED <<ready, at>>
         ELSE /\ ready' = IF Gone(f) THEN ready ELSE [ready EXCEPT !.files[f] = "none"]
              /\ at' = [at EXCEPT ![c].part = @ + 1]
              /\ Goes(c, IF at[c].part = Parts THEN "rmdir" ELSE "unlink")
    /\ UNCHANGED <<staging, producing, kills, store, flow>>
\* Its directories go, the layer is consumed, and the manifest written again.
RemoveDirs(c) ==
    /\ At(c, "rmdir")
    /\ IF Exists(ready) /\ (Layer(c) \in ready.dirs \/ PassOverMissing) /\ \A f \in FilesOf(Layer(c)) : Gone(f)
       THEN /\ ready' = [ready EXCEPT !.dirs = @ \ {Layer(c)}]
            /\ mem' = [mem EXCEPT ![c].state[Layer(c)] = "consumed"]
            /\ Goes(c, "temp")
       ELSE Raises(c) /\ UNCHANGED <<ready, mem>>
    /\ UNCHANGED <<staging, producing, kills, at, closed, loaded, flow>>

\* finish: the manifest and the root.
RootEmpty == ready.dirs = {} /\ ready.manifest = NoManifest /\ ready.temps = {}
FinishManifest(c) ==
    /\ At(c, "finish")
    /\ IF (Exists(ready) /\ ready.manifest # NoManifest) \/ PassOverMissing
       THEN /\ ready' = IF Exists(ready) THEN [ready EXCEPT !.manifest = NoManifest] ELSE ready
            /\ Goes(c, "finish_root")
       ELSE Raises(c) /\ UNCHANGED ready
    /\ UNCHANGED <<staging, producing, kills, at, store, flow>>
FinishRoot(c) ==
    /\ At(c, "finish_root")
    /\ IF IF Exists(ready) THEN RootEmpty ELSE PassOverMissing
       THEN /\ ready' = NoTree
            /\ closed' = [closed EXCEPT ![c] = TRUE] /\ Goes(c, "done")
       ELSE Raises(c) /\ UNCHANGED <<ready, closed>>
    /\ UNCHANGED <<staging, producing, kills, at, mem, loaded, flow>>

-----------------------------------------------------------------------------
(* cleanup, called by the wrapping code or by the signal handler.          *)

\* Where cleanup returns to: the interrupted code, or out of the process.
Returns(c) == IF back[c] = "none" THEN "failed" ELSE back[c]

\* A closed store returns at once.
CleanBegin(c) ==
    /\ At(c, "cleanup")
    /\ closed' = [closed EXCEPT ![c] = TRUE]
    /\ Goes(c, IF closed[c] THEN Returns(c) ELSE "clean")
    /\ UNCHANGED <<staging, ready, producing, kills, at, mem, loaded, flow>>

\* The layers it goes through.  Mutant: those that are being consumed are
\* skipped too.
ListedReady(c) == {l \in LayerSet : mem[c].state[l] = "ready"}
Listed(c)      == {l \in LayerSet : mem[c].state[l] # "consumed"}
Remaining(c) == {f \in Present : f[1] \in Listed(c)}
\* A file is looked for and then unlinked: another process may be faster, and
\* the exception ends the cleanup.
CleanLook(c) ==
    /\ At(c, "clean") /\ Exists(ready) /\ Remaining(c) # {}
    /\ at' = [at EXCEPT ![c].found = CHOOSE f \in Remaining(c) : TRUE]
    /\ Goes(c, "clean_file")
    /\ UNCHANGED <<staging, ready, producing, kills, store, flow>>
CleanFile(c) ==
    /\ At(c, "clean_file")
    /\ IF Gone(at[c].found)
       THEN Goes(c, "failed") /\ cut' = cut \cup {c} /\ UNCHANGED ready
       ELSE ready' = [ready EXCEPT !.files[at[c].found] = "none"] /\ Goes(c, "clean") /\ UNCHANGED cut
    /\ at' = [at EXCEPT ![c].found = NoFile]
    /\ UNCHANGED <<staging, producing, kills, store, back, signals>>
\* No listed file is left: the empty directories, the manifest and the own
\* temporary one; then the root, if it is empty.
CleanDirs(c) ==
    /\ At(c, "clean")
    /\ Exists(ready) => Remaining(c) = {}
    /\ ready' = IF Exists(ready)
                THEN [ready EXCEPT !.dirs = @ \ {l \in Listed(c) : FilesOf(l) \cap Present = {}},
                                   !.manifest = NoManifest, !.temps = @ \ {c}]
                ELSE ready
    /\ Goes(c, "clean_root")
    /\ UNCHANGED <<staging, producing, kills, at, store, flow>>
CleanRoot(c) ==
    /\ At(c, "clean_root")
    /\ ready' = IF Exists(ready) /\ RootEmpty THEN NoTree ELSE ready
    /\ Goes(c, Returns(c)) /\ back' = [back EXCEPT ![c] = "none"]
    /\ UNCHANGED <<staging, producing, kills, at, store, cut, signals>>

Running  == {"load", "consume", "temp", "replace", "unlink", "rmdir", "finish", "finish_root"}
Cleaning == {"cleanup", "clean", "clean_file", "clean_root"}

\* SIGINT or SIGTERM.  The handler cleans up and then returns, if the handler
\* before it did so or the signal was ignored, or raises.  In the middle of a
\* cleanup the inner one returns at once, and an exception leaves the outer.
Signal(c) ==
    /\ signals[c] < Signals
    /\ signals' = [signals EXCEPT ![c] = @ + 1]
    /\ \/ /\ cpc[c] \in Running /\ ~ closed[c]
          /\ Goes(c, "cleanup")
          /\ \/ back' = [back EXCEPT ![c] = "failed"]
             \/ back' = [back EXCEPT ![c] = cpc[c]]
          /\ UNCHANGED cut
       \/ /\ cpc[c] \in Cleaning \ {"cleanup"}
          /\ Goes(c, "failed") /\ cut' = cut \cup {c}
          /\ UNCHANGED back
    /\ UNCHANGED <<staging, ready, producing, kills, at, store>>

KillConsumer(c) ==
    /\ kills < Kills /\ cpc[c] \in Running \cup Cleaning
    /\ kills' = kills + 1 /\ Goes(c, "killed")
    /\ UNCHANGED <<staging, ready, producing, at, store, flow>>

UseStore(c) ==
    \/ Open(c) \/ Load(c) \/ Consume(c) \/ WriteTemp(c) \/ Replace(c) \/ Unlink(c)
    \/ RemoveDirs(c) \/ FinishManifest(c) \/ FinishRoot(c)
    \/ CleanBegin(c) \/ CleanLook(c) \/ CleanFile(c) \/ CleanDirs(c) \/ CleanRoot(c)
    \/ Signal(c) \/ KillConsumer(c)

Next ==
    /\ \/ \E p \in Producers : Produce(p) /\ UNCHANGED <<cpc, at, store, flow>>
       \/ \E c \in Consumers : UseStore(c)
    /\ UNCHANGED setup

Spec == Init /\ [][Next]_vars

-----------------------------------------------------------------------------
(* What the store promises.                                                *)

States == {"ready", "consuming", "consumed"}
Trees ==
    [by : Producers, lease : {NoLease} \cup (Producers \X {"main", "child"}),
     files : [Files -> {"none", "part", "full"}], dirs : SUBSET LayerSet,
     manifest : {NoManifest} \cup [state : [LayerSet -> States], size : [Files -> {"part", "full"}],
                                    by : Producers],
     temps : SUBSET Consumers]

\* The values of the variables.
TypeOK ==
    /\ staging \in {NoTree} \cup Trees /\ ready \in {NoTree} \cup Trees
    /\ \A p \in Producers :
         /\ ppc[p] \in Removing \cup {"idle", "mkdir", "lease", "lease_child", "spawn", "wait", "publish",
                                      "scan", "rename", "failed", "done", "killed"}
         /\ child[p].st \in {"none", "run", "exited", "gone"}
         /\ child[p].done \subseteq Files /\ Cardinality(child[p].open) <= 1
    /\ \A c \in Consumers :
         /\ cpc[c] \in Running \cup Cleaning \cup {"idle", "failed", "done", "killed"}
         /\ cpc[c] \in Running => mem[c] # NoManifest
         /\ at[c].layer \in LayerSet /\ at[c].part \in 1 .. Parts + 1
         /\ cpc[c] \in Cleaning \ {"cleanup"} => closed[c]

\* A conversion feeds at most one training run: however many processes open
\* the directory, together or after one that was killed, at most one of them
\* gets through, and it has loaded every layer (consume_layer, finish).
OneProducer == Cardinality(Producers) = 1
FeedsOne ==
    \A c \in Consumers : At(c, "done") =>
        /\ \A l \in LayerSet : loaded[c][l] # Nobody
        /\ OneProducer => \A d \in Consumers \ {c} : ~ At(d, "done")

\* Once a store has been opened and every process has ended by itself, no
\* weights are left in memory, unless a cleanup was left half way: by a second
\* signal, or when two processes meet at a file.
Ended(c) == cpc[c] \in {"failed", "done"}
NothingLeft ==
    ((\A c \in Consumers : Ended(c)) /\ cut = {} /\ Exists(ready)) =>
        \A c \in Consumers : (mem[c] # NoManifest /\ mem[c].by = ready.by) => Present = {}

\* A producer that has ended by itself and has waited for its converter, or
\* started none, leaves no staging tree, unless another one has been at it; but
\* for the empty directory whose first lease could not be written.  When the
\* lease of the converter cannot be written, the producer ends without having
\* waited: the weights the converter goes on writing stay.
StagingCleaned ==
    OneProducer => \A p \in Producers :
        ppc[p] \in {"idle", "failed", "done"} /\ child[p].st \in {"none", "gone"} =>
            \/ ~ Exists(staging)
            \/ ppc[p] = "failed" /\ child[p].st = "none" /\ staging = Empty(p)

\* What lies on disk and what each process knows of it fit together, and a
\* conversion feeds one run (the manifest and the lease).
TreesInv == TypeOK /\ FeedsOne

\* Those who end by themselves leave no weights in memory: neither a consumer
\* of the tree that was published, nor a producer of the one that was not.
LeavesNothing == NothingLeft /\ StagingCleaned
=============================================================================
