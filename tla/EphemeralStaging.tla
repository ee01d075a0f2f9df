--------------------------- MODULE EphemeralStaging ---------------------------
(***************************************************************************)
(* The producing half of the ephemeral INT8 weights (sft/ephemeral.py and  *)
(* scripts/prepare_ephemeral_int8.py): a producer converts a checkpoint    *)
(* into a staging directory in /dev/shm, by a child process, and publishes *)
(* it by renaming it to the ready directory.  A lease file in the staging  *)
(* directory names the process that is said to be at work, so that a later *)
(* producer can remove what a dead one has left.                           *)
(*                                                                         *)
(* A write may fail, since /dev/shm may be full.  What a failed write of a *)
(* lease or a manifest leaves of its temporary file is not modelled: it is *)
(* removed with the tree.                                                  *)
(*                                                                         *)
(* All producers use one run id, hence the same two paths: every access is *)
(* by name and finds whatever directory has that name at the time.         *)
(***************************************************************************)
EXTENDS Integers, FiniteSets

CONSTANT Setups   \* who uses the directories, and what; one holds for a whole run

VARIABLE setup
Producers == setup.producers  \* runs of the preparing script
Consumers == setup.consumers  \* training processes that open the ready directory
Layers    == setup.layers     \* how many layers of experts
Parts     == setup.parts      \* how many files a layer has
Kills     == setup.kills      \* how many producers and consumers are killed (bound)
Signals   == setup.signals    \* how many signals a training process gets (bound)

ASSUME SetupAssumption == \A s \in Setups :
    /\ IsFiniteSet(s.producers) /\ "nobody" \notin s.producers
    /\ s.layers \in Nat \ {0} /\ s.parts \in Nat \ {0} /\ s.kills \in Nat /\ s.signals \in Nat

LayerSet == 1 .. Layers
Files    == LayerSet \X (1 .. Parts)
FilesOf(l) == {f \in Files : f[1] = l}

VARIABLES
    staging,   \* the tree with the staging name, NoTree if there is none
    ready,     \* the tree with the published name
    ppc,       \* producer -> where it is in main()
    child,     \* producer -> its converter process
    walk,      \* producer -> the entries it has listed and still removes
    kills      \* how many processes were killed

producing == <<ppc, child, walk>>

\* A tree: who made it, the pid in its lease, its files with the part of the
\* data that is there, its layer directories, its manifest, and the temporary
\* manifests of consumers.
NoTree    == [by |-> "nobody"]
NoLease   == <<"none", "none">>
NoManifest == [state |-> "none"]
Empty(p)  == [by |-> p, lease |-> NoLease, files |-> [f \in Files |-> "none"], dirs |-> {},
              manifest |-> NoManifest, temps |-> {}]
Exists(t) == t # NoTree

NoWalk     == {<<0, 0>>}
NotSpawned == [st |-> "none", done |-> {}, open |-> {}]

StagingInit ==
    /\ setup \in Setups
    /\ staging = NoTree /\ ready = NoTree /\ kills = 0
    /\ ppc = [p \in Producers |-> "idle"]
    /\ child = [p \in Producers |-> NotSpawned]
    /\ walk = [p \in Producers |-> NoWalk]

-----------------------------------------------------------------------------
PAt(p, where)   == ppc[p] = where
PGoes(p, where) == ppc' = [ppc EXCEPT ![p] = where]

\* /proc/<pid> exists.  An exited child stays until its parent has waited or
\* is gone, too.
Alive(pid) ==
    LET main == ppc[pid[1]] \notin {"idle", "failed", "done", "killed"} IN
      IF pid[2] = "main" THEN main
      ELSE child[pid[1]].st = "run" \/ (child[pid[1]].st = "exited" /\ main)

\* main() begins: reclaim_stale_ephemeral_int8_staging, which refuses without
\* a lease or when the process of the lease exists.
Start(p) ==
    /\ PAt(p, "idle")
    /\ PGoes(p, IF ~ Exists(staging) THEN "mkdir"
                ELSE IF staging.lease = NoLease \/ Alive(staging.lease) THEN "failed"
                ELSE "reclaim")
    /\ UNCHANGED <<staging, ready, child, walk, kills>>

\* cleanup_ephemeral_int8_staging: a walk that lists the tree and then removes
\* what it has listed.  An entry that has gone meanwhile, and one that has come
\* and keeps the root from being removed, is an exception.  The walk is done by
\* a producer that reclaims, by one that has failed, and once more at exit.
LeaseEntry    == <<0, 1>>
ManifestEntry == <<0, 2>>
Has(t, e) ==
    CASE e = LeaseEntry    -> t.lease # NoLease
      [] e = ManifestEntry -> t.manifest # NoManifest
      [] OTHER             -> t.files[e] # "none"
Entries(t) == {e \in Files \cup {LeaseEntry, ManifestEntry} : Has(t, e)}
\* Mutant: the weight files only.
ListingFiles(t) == Entries(t) \cap Files
Listing(t)      == Entries(t)
Without(t, e) ==
    CASE e = LeaseEntry    -> [t EXCEPT !.lease = NoLease]
      [] e = ManifestEntry -> [t EXCEPT !.manifest = NoManifest]
      [] OTHER             -> [t EXCEPT !.files[e] = "none"]

Removing == {"reclaim", "clean", "exit"}
Removed(p, ok) ==
    /\ walk' = [walk EXCEPT ![p] = NoWalk]
    /\ PGoes(p, CASE PAt(p, "reclaim") -> IF ok THEN "mkdir" ELSE "failed"
                  [] PAt(p, "clean")   -> "exit"
                  [] PAt(p, "exit")    -> "failed")
List(p) ==
    /\ ppc[p] \in Removing /\ walk[p] = NoWalk
    /\ IF Exists(staging)
       THEN walk' = [walk EXCEPT ![p] = Listing(staging)] /\ UNCHANGED ppc
       ELSE Removed(p, FALSE)
    /\ UNCHANGED <<staging, ready, child, kills>>
RemoveEntry(p) ==
    /\ ppc[p] \in Removing /\ walk[p] \notin {NoWalk, {}}
    /\ LET e == CHOOSE x \in walk[p] : TRUE IN
         IF Exists(staging) /\ Has(staging, e)
         THEN /\ staging' = Without(staging, e)
              /\ walk' = [walk EXCEPT ![p] = @ \ {e}] /\ UNCHANGED ppc
         ELSE Removed(p, FALSE) /\ UNCHANGED staging
    /\ UNCHANGED <<ready, child, kills>>
RemoveRoot(p) ==
    /\ ppc[p] \in Removing /\ walk[p] = {}
    /\ IF Exists(staging) /\ Entries(staging) = {}
       THEN staging' = NoTree /\ Removed(p, TRUE)
       ELSE Removed(p, FALSE) /\ UNCHANGED staging
    /\ UNCHANGED <<ready, child, kills>>

MakeStaging(p) ==
    /\ PAt(p, "mkdir")
    /\ IF Exists(staging) \/ Exists(ready)
       THEN PGoes(p, "failed") /\ UNCHANGED staging
       ELSE \/ PGoes(p, "lease") /\ staging' = Empty(p)
            \/ PGoes(p, "failed") /\ UNCHANGED staging
    /\ UNCHANGED <<ready, child, walk, kills>>

\* write_ephemeral_staging_lease, first for the script itself, then for the
\* child that has been started in between.  The file cannot be written when the
\* tree is gone or the file system full: before the script has registered its
\* cleanup, or while its child runs.
WriteLease(p) ==
    /\ ppc[p] \in {"lease", "lease_child"}
    /\ \/ /\ Exists(staging)
          /\ staging' = [staging EXCEPT !.lease = <<p, IF PAt(p, "lease") THEN "main" ELSE "child">>]
          /\ PGoes(p, IF PAt(p, "lease") THEN "spawn" ELSE "wait")
       \/ PGoes(p, IF PAt(p, "lease") THEN "failed" ELSE "clean") /\ UNCHANGED staging
    /\ UNCHANGED <<ready, child, walk, kills>>
Spawn(p) ==
    /\ PAt(p, "spawn")
    /\ \/ PGoes(p, "lease_child") /\ child' = [child EXCEPT ![p].st = "run"]
       \/ PGoes(p, "clean") /\ UNCHANGED child
    /\ UNCHANGED <<staging, ready, walk, kills>>

\* The converter opens its files one after the other, in directories that it
\* makes if they are missing, and writes them; the data reach the file it has
\* opened wherever that is now.
NextFile(p) == CHOOSE f \in Files \ child[p].done : TRUE
ChildOpen(p) ==
    /\ child[p].st = "run" /\ child[p].open = {} /\ child[p].done # Files
    /\ LET t == IF Exists(staging) THEN staging ELSE Empty(p) IN
         /\ staging' = [t EXCEPT !.files[NextFile(p)] = "part", !.dirs = @ \cup {NextFile(p)[1]}]
         /\ child' = [child EXCEPT ![p].open = {<<NextFile(p), t.by>>}]
    /\ UNCHANGED <<ready, ppc, walk, kills>>
Written(t, f, by) ==
    IF Exists(t) /\ t.by = by /\ t.files[f] = "part" THEN [t EXCEPT !.files[f] = "full"] ELSE t
ChildWrite(p) ==
    \E o \in child[p].open :
        /\ child[p].st = "run"
        /\ child' = [child EXCEPT ![p].open = {}, ![p].done = @ \cup {o[1]}]
        /\ IF \E q \in Producers \ {p} : o \in child[q].open
           THEN UNCHANGED <<staging, ready>>
           ELSE staging' = Written(staging, o[1], o[2]) /\ ready' = Written(ready, o[1], o[2])
        /\ UNCHANGED <<ppc, walk, kills>>
\* It exits when it has written all files, or earlier with an error.
ChildExit(p) ==
    /\ child[p].st = "run"
    /\ child' = [child EXCEPT ![p].st = "exited", ![p].open = {}]
    /\ UNCHANGED <<staging, ready, ppc, walk, kills>>

\* child.wait().  A signal that the script got meanwhile and passed on, or an
\* error of the converter, cleans up, also when all files are written.
Wait(p) ==
    /\ PAt(p, "wait") /\ child[p].st = "exited"
    /\ child' = [child EXCEPT ![p].st = "gone"]
    /\ (child[p].done = Files /\ PGoes(p, "publish")) \/ PGoes(p, "clean")
    /\ UNCHANGED <<staging, ready, walk, kills>>

\* publish_ephemeral_int8_weights: the lease goes, the tree is scanned and its
\* manifest written with the sizes found, and the tree gets its final name.
Unlease(p) ==
    /\ PAt(p, "publish")
    /\ IF Exists(staging)
       THEN staging' = [staging EXCEPT !.lease = NoLease] /\ PGoes(p, "scan")
       ELSE PGoes(p, "clean") /\ UNCHANGED staging
    /\ UNCHANGED <<ready, child, walk, kills>>
Scan(p) ==
    /\ PAt(p, "scan")
    /\ \/ /\ Exists(staging) /\ Entries(staging) = Files
          /\ staging' = [staging EXCEPT !.manifest =
                            [state |-> [l \in LayerSet |-> "ready"], size |-> staging.files, by |-> p]]
          /\ PGoes(p, "rename")
       \/ PGoes(p, "clean") /\ UNCHANGED staging
    /\ UNCHANGED <<ready, child, walk, kills>>
Rename(p) ==
    /\ PAt(p, "rename")
    /\ IF Exists(staging) /\ ~ Exists(ready)
       THEN ready' = staging /\ staging' = NoTree /\ PGoes(p, "done")
       ELSE PGoes(p, "clean") /\ UNCHANGED <<staging, ready>>
    /\ UNCHANGED <<child, walk, kills>>

\* The script is killed, or gets a signal before it handles them; its converter
\* runs on.
KillProducer(p) ==
    /\ kills < Kills /\ Alive(<<p, "main">>)
    /\ kills' = kills + 1 /\ PGoes(p, "killed")
    /\ UNCHANGED <<staging, ready, child, walk>>

Produce(p) ==
    \/ Start(p) \/ List(p) \/ RemoveEntry(p) \/ RemoveRoot(p) \/ MakeStaging(p) \/ WriteLease(p)
    \/ Spawn(p) \/ ChildOpen(p) \/ ChildWrite(p) \/ ChildExit(p) \/ Wait(p)
    \/ Unlease(p) \/ Scan(p) \/ Rename(p) \/ KillProducer(p)
=============================================================================
