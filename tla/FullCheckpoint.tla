---------------------------- MODULE FullCheckpoint ----------------------------
(***************************************************************************)
(* Full-weight checkpoints of fine-tuning (sft/checkpoint.py): a save      *)
(* writes one shard per layer under a new generation's names, publishes    *)
(* them by replacing the index, and removes the shards of the generation   *)
(* it has found there; a load reads the index, inspects all shards and     *)
(* then copies them into the parameters, layer by layer.                   *)
(*                                                                         *)
(* Saves and the loader are different processes on one directory.  A save  *)
(* may fail, and may die anywhere.  A generation's name is never used      *)
(* again (uuid4), so the n-th save has generation n.                       *)
(***************************************************************************)
EXTENDS Integers

CONSTANTS
    Savers,     \* processes that save to the directory
    Layers,     \* how many layers there are
    Faults,     \* what may go wrong, a subset of AllFaults
    MaxSaves,   \* how many saves are begun (bound)
    MaxSteps    \* how many optimizer steps the loading process does (bound)

\* "write": writing a file or renaming it raises.  "remove": os.remove raises.
\* "read": reading a tensor raises.  "crash": a saving process ends, or leaves
\* by KeyboardInterrupt, which is not an Exception.  "interrupt": a load leaves
\* by KeyboardInterrupt, and its process goes on.  "power": the machine goes
\* down, and file data that were not written back are lost.
AllFaults == {"write", "remove", "read", "crash", "interrupt", "power"}

ASSUME LayersAssumption == Layers \in Nat \ {0}
ASSUME FaultsAssumption == Faults \subseteq AllFaults
ASSUME BoundsAssumption == MaxSaves \in Nat /\ MaxSteps \in Nat

LayerSet == 1 .. Layers
Gens     == 1 .. MaxSaves

VARIABLES
    index,        \* the generation the index names, 0 if there is no index
    shard,        \* generation -> layer -> state of the file
    index_temps,  \* generations whose temporary index file is there
    durable,      \* <<generation, layer>> of shards whose data are on disk
    saves,        \* how many saves were begun
    saver,        \* process -> what its save does
    loader,       \* what the loading process does
    params,       \* layer -> <<generation, optimizer steps>> it holds
    backend,      \* layer -> what the CPU backend computes with
    dirty,        \* _base_weights_dirty
    failed,       \* _kt_full_checkpoint_load_failed
    steps,        \* how many optimizer steps there were
    cut           \* history: a load was interrupted that had begun to copy, and
                  \* none has been completed since

files          == <<index, shard, index_temps, durable>>
reader         == <<loader, params, backend, dirty, failed, steps, cut>>
checkpointVars == <<files, saves, saver, reader>>

Idle == [at |-> "idle", gen |-> 0, prev |-> 0, layer |-> 1]

CheckpointInit ==
    /\ index = 0 /\ index_temps = {} /\ durable = {}
    /\ shard = [g \in Gens |-> [l \in LayerSet |-> "none"]]
    /\ saves = 0 /\ saver = [s \in Savers |-> Idle]
    /\ loader = Idle
    /\ params = [l \in LayerSet |-> <<0, 0>>] /\ backend = params
    /\ dirty = FALSE /\ failed = FALSE /\ steps = 0 /\ cut = FALSE

-----------------------------------------------------------------------------
(* save_full_weight_checkpoint.                                            *)

At(s, where)   == saver[s].at = where
Goes(s, where) == saver' = [saver EXCEPT ![s].at = where]
GoesOn(s, where, l) ==
    saver' = [saver EXCEPT ![s] = [at |-> where, gen |-> @.gen, prev |-> @.prev, layer |-> l]]
Put(g, l, state) == shard' = [shard EXCEPT ![g][l] = state]

\* A new generation; what the index names now will be superseded.
SaveBegin(s) ==
    /\ At(s, "idle") /\ saves < MaxSaves
    /\ saves' = saves + 1
    /\ saver' = [saver EXCEPT ![s] = [at |-> "write", gen |-> saves + 1, prev |-> index, layer |-> 1]]
    /\ UNCHANGED <<files, reader>>

\* save_file of one layer, to a temporary name, and the rename.  Mutant: one
\* layer too many.
WriteShard(s) ==
    /\ At(s, "write") /\ Put(saver[s].gen, saver[s].layer, "temp") /\ Goes(s, "rename")
    /\ UNCHANGED <<index, index_temps, durable, saves, reader>>
MoreLayersPast(s) == saver[s].layer <= Layers
MoreLayers(s)     == saver[s].layer < Layers
RenameShard(s) ==
    /\ At(s, "rename") /\ Put(saver[s].gen, saver[s].layer, "whole")
    /\ IF MoreLayers(s)
       THEN GoesOn(s, "write", saver[s].layer + 1)
       ELSE Goes(s, "index")
    /\ UNCHANGED <<index, index_temps, durable, saves, reader>>

\* The index, to a temporary name and fsynced; then the rename publishes it.
WriteIndex(s) ==
    /\ At(s, "index") /\ index_temps' = index_temps \cup {saver[s].gen} /\ Goes(s, "publish")
    /\ UNCHANGED <<index, shard, durable, saves, reader>>
PublishIndex(s) ==
    /\ At(s, "publish") /\ index' = saver[s].gen /\ index_temps' = index_temps \ {saver[s].gen}
    /\ GoesOn(s, "clean", 1)
    /\ UNCHANGED <<shard, durable, saves, reader>>

\* What an exception before that removes: the files of this generation.
UndoShards(g) == {l \in LayerSet : shard[g][l] # "none"}

SaveFails(s) ==
    /\ "write" \in Faults /\ saver[s].at \in {"write", "rename", "index", "publish"}
    /\ Goes(s, "undo")
    /\ \/ UNCHANGED <<shard, index_temps>>
       \* a file that was begun
       \/ At(s, "write") /\ Put(saver[s].gen, saver[s].layer, "temp") /\ UNCHANGED index_temps
       \/ At(s, "index") /\ index_temps' = index_temps \cup {saver[s].gen} /\ UNCHANGED shard
    /\ UNCHANGED <<index, durable, saves, reader>>
Undo(s) ==
    /\ At(s, "undo")
    /\ LET g == saver[s].gen IN
       \/ /\ \/ index_temps' = index_temps \ {g} /\ index_temps' # index_temps /\ UNCHANGED shard
             \/ \E l \in UndoShards(g) : Put(g, l, "none") /\ UNCHANGED index_temps
          /\ UNCHANGED saver
       \/ /\ (UndoShards(g) = {} /\ g \notin index_temps) \/ "remove" \in Faults
          /\ saver' = [saver EXCEPT ![s] = Idle]
          /\ UNCHANGED <<shard, index_temps>>
    /\ UNCHANGED <<index, durable, saves, reader>>

\* The superseded generation's shards are removed.  Mutant: they are removed
\* before the new index is published.
Superseded(s) == {l \in LayerSet : saver[s].prev # 0 /\ shard[saver[s].prev][l] # "none"}
RemovesEarly(s) == saver[s].at \in {"index", "publish", "clean"}
RemovesNow(s)   == At(s, "clean")
RemoveOld(s) ==
    /\ RemovesNow(s)
    /\ \E l \in Superseded(s) : Put(saver[s].prev, l, "none")
    /\ UNCHANGED <<index, index_temps, durable, saves, saver, reader>>
SaveReturns(s) ==
    /\ At(s, "clean")
    /\ Superseded(s) = {} \/ "remove" \in Faults
    /\ saver' = [saver EXCEPT ![s] = Idle]
    /\ UNCHANGED <<files, saves, reader>>

\* The process dies; what it has done so far stays.
Crash(s) ==
    /\ "crash" \in Faults /\ ~At(s, "idle")
    /\ saver' = [saver EXCEPT ![s] = Idle]
    /\ UNCHANGED <<files, saves, reader>>

-----------------------------------------------------------------------------
(* The operating system: data reach the disk at some time; the index was   *)
(* fsynced before it got its name, the shards were not.                    *)

Writeback ==
    /\ "power" \in Faults
    /\ \E g \in Gens, l \in LayerSet :
        /\ shard[g][l] = "whole" /\ <<g, l>> \notin durable
        /\ durable' = durable \cup {<<g, l>>}
    /\ UNCHANGED <<index, shard, index_temps, saves, saver, reader>>

\* Names survive, as file systems keep them in a journal; a file that has lost
\* data is shorter than the index says, as a size is not on disk before the
\* data.  All processes end.
PowerLoss ==
    /\ "power" \in Faults
    /\ shard' = [g \in Gens |-> [l \in LayerSet |->
                    IF shard[g][l] = "whole" /\ <<g, l>> \notin durable THEN "torn" ELSE shard[g][l]]]
    /\ saver' = [s \in Savers |-> Idle] /\ loader' = Idle
    /\ params' = [l \in LayerSet |-> <<0, 0>>] /\ backend' = params'
    /\ dirty' = FALSE /\ failed' = FALSE /\ cut' = FALSE
    /\ UNCHANGED <<index, index_temps, durable, saves, steps>>

-----------------------------------------------------------------------------
(* _load_full_weight_checkpoint_rank0, and the forward pass after it.      *)

LoadAt(where) == loader.at = where
LoadBegin ==
    /\ LoadAt("idle") /\ index # 0
    /\ loader' = [at |-> "inspect", gen |-> index, prev |-> 0, layer |-> 1]
    /\ UNCHANGED <<files, saves, saver, params, backend, dirty, failed, steps, cut>>

\* _inspect_layer_shard: size, keys, metadata, shapes.  A load that is refused
\* here has changed nothing.
NextLayer(then) == loader' = IF loader.layer < Layers THEN [loader EXCEPT !.layer = @ + 1]
                             ELSE [loader EXCEPT !.at = then, !.layer = 1]
Readable == shard[loader.gen][loader.layer] = "whole"
Inspect ==
    /\ LoadAt("inspect")
    /\ IF Readable THEN NextLayer("copy") ELSE loader' = Idle
    /\ UNCHANGED <<files, saves, saver, params, backend, dirty, failed, steps, cut>>

\* A layer is copied, or fails to be, with the layer half overwritten.  The
\* exception sets the flag of every layer, if it is an Exception.
\* Mutant: the failure is not remembered.
FailedForgotten == failed' = failed
FailedSet       == failed' = TRUE
DirtySet        == dirty' = TRUE
CopyLayer ==
    /\ LoadAt("copy") /\ Readable
    /\ params' = [params EXCEPT ![loader.layer] = <<loader.gen, 0>>]
    /\ NextLayer("loaded")
    /\ UNCHANGED <<files, saves, saver, backend, dirty, failed, steps, cut>>
HalfCopied == {params, [params EXCEPT ![loader.layer] = <<-1, 0>>]}
CopyFails ==
    /\ LoadAt("copy")
    /\ ~Readable \/ "read" \in Faults
    /\ params' \in HalfCopied
    /\ FailedSet /\ loader' = Idle
    /\ UNCHANGED <<files, saves, saver, backend, dirty, steps, cut>>
Loaded ==
    /\ LoadAt("loaded")
    /\ DirtySet /\ failed' = FALSE /\ cut' = FALSE /\ loader' = Idle
    /\ UNCHANGED <<files, saves, saver, params, backend, steps>>

\* A KeyboardInterrupt, anywhere in a load: it passes the handler, or comes in
\* it, or between the flags that are set at the end.
LoadInterrupted ==
    /\ "interrupt" \in Faults
    /\ \/ LoadAt("inspect") /\ UNCHANGED <<params, dirty, failed, cut>>
       \/ /\ LoadAt("copy") /\ params' \in HalfCopied /\ failed' \in {failed, TRUE} /\ cut' = TRUE
          /\ UNCHANGED dirty
       \/ /\ LoadAt("loaded") /\ dirty' \in {dirty, TRUE} /\ failed' \in {failed, FALSE} /\ cut' = TRUE
          /\ UNCHANGED params
    /\ loader' = Idle
    /\ UNCHANGED <<files, saves, saver, backend, steps>>

\* _refresh_backend_weights, then the layer computes.
Computes == IF dirty THEN params ELSE backend
Forward ==
    /\ LoadAt("idle") /\ ~failed
    /\ backend' = Computes
    /\ dirty' = FALSE
    /\ UNCHANGED <<files, saves, saver, loader, params, failed, steps, cut>>

\* An optimizer step changes all layers and marks them.
OptimizerStep ==
    /\ LoadAt("idle") /\ steps < MaxSteps
    /\ steps' = steps + 1
    /\ params' = [l \in LayerSet |-> <<params[l][1], steps + 1>>]
    /\ dirty' = TRUE
    /\ UNCHANGED <<files, saves, saver, loader, backend, failed, cut>>

-----------------------------------------------------------------------------
SaverStep(s) == \/ SaveBegin(s) \/ WriteShard(s) \/ RenameShard(s) \/ WriteIndex(s)
                \/ PublishIndex(s) \/ SaveFails(s) \/ Undo(s) \/ RemoveOld(s)
                \/ SaveReturns(s) \/ Crash(s)
LoaderStep == \/ LoadBegin \/ Inspect \/ CopyLayer \/ CopyFails \/ Loaded \/ LoadInterrupted
              \/ Forward \/ OptimizerStep

CheckpointNext == (\E s \in Savers : SaverStep(s)) \/ Writeback \/ PowerLoss \/ LoaderStep
CheckpointSpec == CheckpointInit /\ [][CheckpointNext]_checkpointVars

-----------------------------------------------------------------------------
(* Properties.                                                             *)

\* The variables have the types their comments say.
CheckpointTypeOK ==
    /\ index \in 0 .. MaxSaves
    /\ shard \in [Gens -> [LayerSet -> {"none", "temp", "whole", "torn"}]]
    /\ index_temps \subseteq Gens /\ durable \subseteq Gens \X LayerSet
    /\ saves \in 0 .. MaxSaves
    /\ saver \in [Savers -> [at : {"idle", "write", "rename", "index", "publish", "undo", "clean"},
                             gen : 0 .. MaxSaves, prev : 0 .. MaxSaves, layer : LayerSet]]
    /\ loader \in [at : {"idle", "inspect", "copy", "loaded"},
                   gen : 0 .. MaxSaves, prev : {0}, layer : LayerSet]
    /\ dirty \in BOOLEAN /\ failed \in BOOLEAN /\ cut \in BOOLEAN

\* Whatever fails or dies, and whoever saves at the same time: the shards of
\* the generation that the index names are all there, so that a load finds a
\* checkpoint (save_full_weight_checkpoint "atomically" publishes it).  Only a
\* loss of power can have torn one of them, as their data are not fsynced.
IndexWhole ==
    index # 0 => \A l \in LayerSet :
        shard[index][l] = "whole" \/ ("power" \in Faults /\ shard[index][l] = "torn")

\* A forward pass that is not refused computes with the weights of the
\* parameters, all of one generation and optimizer step: never after a load
\* that has failed half way, also not by way of later loads that fail early
\* (_refresh_backend_weights).  The exception is a load that a KeyboardInterrupt
\* has cut short while it copied: the loader's "except Exception" does not see
\* it, nothing is refused, and only a later load that succeeds makes it good.
ForwardWhole ==
    LoadAt("idle") /\ ~failed /\ ~cut =>
        /\ Computes = params
        /\ \A l, m \in LayerSet : params[l] = params[m]
=============================================================================
