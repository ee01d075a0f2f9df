-------------------------- MODULE EphemeralProofs ---------------------------
(***************************************************************************)
(* What holds of the ephemeral weights for any number of producers,        *)
(* consumers, layers and files, and wherever processes are killed.         *)
(*                                                                         *)
(* The names of the two directories say little: the tree that a process    *)
(* finds there may be another's.  What can be relied on is that a producer *)
(* whose converter is over makes no tree any more (Barren), so that the    *)
(* tree a consumer has opened, once it is gone, never comes back, and no   *)
(* file of it does (ManifestInv, FileInv).                                 *)
(***************************************************************************)
EXTENDS EphemeralStore, FiniteSetTheorems, TLAPS

-----------------------------------------------------------------------------
(* The inductive invariant.                                                *)

Leases    == {NoLease} \cup (Producers \X {"main", "child"})
Contents  == {"none", "part", "full"}
Manifests == [state : [LayerSet -> States], size : [Files -> {"part", "full"}], by : Producers]
Opened    == Files \X Producers
Names     == Files \cup {LeaseEntry, ManifestEntry}
ProducerPcs == Removing \cup {"idle", "mkdir", "lease", "lease_child", "spawn", "wait", "publish",
                              "scan", "rename", "failed", "done", "killed"}
ConsumerPcs == Running \cup Cleaning \cup {"idle", "failed", "done", "killed"}

TreeType == staging \in {NoTree} \cup Trees /\ ready \in {NoTree} \cup Trees
ProducerType ==
    /\ ppc \in [Producers -> ProducerPcs]
    /\ child \in [Producers -> [st : {"none", "run", "exited", "gone"}, done : SUBSET Files,
                                open : SUBSET Opened]]
    /\ walk \in [Producers -> {NoWalk} \cup SUBSET Names]
    /\ \A p \in Producers : \A o, u \in child[p].open : o = u
ConsumerType ==
    /\ cpc \in [Consumers -> ConsumerPcs]
    /\ mem \in [Consumers -> {NoManifest} \cup Manifests]
    /\ at \in [Consumers -> [layer : LayerSet, part : 1 .. Parts + 1, found : Files \cup {NoFile}]]
    /\ closed \in [Consumers -> BOOLEAN]
    /\ back \in [Consumers -> Running \cup {"none", "failed"}]
    /\ cut \subseteq Consumers
    /\ loaded \in [Consumers -> [LayerSet -> Producers \cup {Nobody}]]

\* A producer whose converter is over is past the making of trees.
Barren(q) == child[q].st = "gone"
ChildInv ==
    \A p \in Producers :
        /\ ppc[p] \in {"idle", "mkdir", "reclaim", "lease", "spawn"} => child[p].st = "none"
        /\ ppc[p] \in {"publish", "scan", "rename", "done"} => Barren(p)
        /\ Barren(p) => ppc[p] \in {"publish", "scan", "rename", "clean", "exit", "failed", "done", "killed"}

\* Who wrote a manifest is barren, and has no tree left under the staging name
\* once the manifest is published.
ManifestInv ==
    /\ Exists(staging) /\ staging.manifest # NoManifest => Barren(staging.manifest.by)
    /\ Exists(ready) /\ ready.manifest # NoManifest =>
          Barren(ready.manifest.by) /\ staging.by # ready.manifest.by
    /\ \A c \in Consumers : mem[c] # NoManifest => Barren(mem[c].by) /\ staging.by # mem[c].by

\* Where a consumer is, or where the signal handler returns to, tells how much
\* it has loaded, what it has written down and which file is next.
LoadedTo(c, n) == \A l \in LayerSet : l <= n => loaded[c][l] # Nobody
Place(c, x) ==
    LET s == mem[c].state[Layer(c)]
        k == at[c].part
    IN  /\ x = "load" => s = "ready" /\ k = 1 /\ LoadedTo(c, Layer(c) - 1)
        /\ x = "consume" => s = "ready" /\ k = 1
        /\ x \in {"temp", "replace"} => s = "consumed" \/ (s = "consuming" /\ k = 1)
        /\ x \in {"unlink", "rmdir"} => s = "consuming"
        /\ x = "unlink" => k <= Parts
        /\ x = "rmdir" => k = Parts + 1
        /\ x \in {"finish", "finish_root"} => s = "consumed" /\ Layer(c) = Layers
        /\ x = "done" => Layer(c) = Layers /\ k = Parts + 1
        /\ x \in (Running \ {"load"}) \cup {"done"} => LoadedTo(c, Layer(c))
PlaceInv == \A c \in Consumers : Place(c, cpc[c]) /\ Place(c, back[c])

\* What it has written down, and what it has not opened.
Recorded(c) ==
    /\ mem[c] = NoManifest => /\ Layer(c) = 1 /\ at[c].part = 1 /\ ~ closed[c]
                              /\ cpc[c] \in {"idle", "failed"} /\ back[c] = "none"
    /\ mem[c] # NoManifest =>
         /\ cpc[c] # "idle"
         /\ \A l \in LayerSet :
              /\ l > Layer(c) => mem[c].state[l] = "ready"
              /\ mem[c].state[l] = "consumed" =>
                    l < Layer(c) \/ (l = Layer(c) /\ at[c].part = Parts + 1)
RecordInv == \A c \in Consumers : Recorded(c)

\* When the store is closed.
Closes(c) ==
    /\ cpc[c] = "cleanup" => ~ closed[c]
    /\ cpc[c] \in Cleaning \ {"cleanup"} => closed[c]
    /\ cpc[c] \in Running => back[c] = "none"
    /\ cpc[c] \in {"failed", "done"} /\ mem[c] # NoManifest /\ c \notin cut => closed[c]
    /\ cpc[c] = "clean_file" => at[c].found \in Files
CloseInv == \A c \in Consumers : Closes(c)

\* The files that a consumer has deleted are gone from the tree it has opened, and
\* all are when its cleanup is over.
Passed(c, f) == f[1] < Layer(c) \/ (f[1] = Layer(c) /\ f[2] < at[c].part)
Cleaned(c)   == closed[c] /\ c \notin cut /\ cpc[c] \notin {"clean", "clean_file", "killed"}
FileInv ==
    \A c \in Consumers : mem[c] # NoManifest /\ ready.by = mem[c].by =>
        /\ \A f \in Files : Passed(c, f) => ready.files[f] = "none"
        /\ Cleaned(c) => Present = {}

\* Nobody else has deleted them, if there is one conversion.
ExclusiveInv ==
    OneProducer => \A c, d \in Consumers, f \in Files : Passed(c, f) /\ Passed(d, f) => c = d

\* A producer that is alone finds what it has left.
SoleInv ==
    OneProducer => \A p \in Producers :
        /\ ppc[p] # "reclaim"
        /\ ppc[p] \in {"idle", "mkdir", "done"} => ~ Exists(staging)
        /\ ppc[p] = "lease" => staging = Empty(p)
        /\ ppc[p] \in {"lease", "spawn", "lease_child", "wait", "publish", "scan", "rename"} => Exists(staging)
        /\ ppc[p] \in {"lease_child", "wait"} => child[p].st \in {"run", "exited"}
        /\ ppc[p] \notin Removing \cup {"killed"} => walk[p] = NoWalk
        \* what it is sure of when its converter is not at work
        /\ child[p].st \in {"none", "gone"} =>
             /\ ppc[p] = "exit" => ~ Exists(staging) /\ walk[p] = NoWalk
             /\ ppc[p] = "failed" =>
                  ~ Exists(staging) \/ (child[p].st = "none" /\ staging = Empty(p))
             /\ ppc[p] = "clean" =>
                  walk[p] = NoWalk \/ (Exists(staging) /\ walk[p] = Entries(staging))

Types  == setup \in Setups /\ TreeType /\ ProducerType /\ ConsumerType
Locals == PlaceInv /\ RecordInv /\ CloseInv
EphemeralInv ==
    Types /\ ChildInv /\ ManifestInv /\ Locals /\ FileInv /\ ExclusiveInv /\ SoleInv

-----------------------------------------------------------------------------
(* Trees, manifests and the setup.                                         *)

\* What is assumed of a setup.
LEMMA SetupFacts ==
    ASSUME setup \in Setups
    PROVE  /\ IsFiniteSet(Producers) /\ "nobody" \notin Producers
           /\ Layers \in Nat \ {0} /\ Parts \in Nat \ {0}
BY SetupAssumption DEF Producers, Layers, Parts

\* It never changes, and nothing that is made of it.
LEMMA SetupStays ==
    ASSUME UNCHANGED setup
    PROVE  /\ Producers' = Producers /\ Consumers' = Consumers /\ Layers' = Layers /\ Parts' = Parts
           /\ LayerSet' = LayerSet /\ Files' = Files /\ Trees' = Trees /\ Manifests' = Manifests
           /\ Opened' = Opened /\ Names' = Names
BY DEF Producers, Consumers, Layers, Parts, LayerSet, Files, Trees, Manifests, Opened, Names

\* A tree exists iff somebody made it.
LEMMA TreeExists ==
    ASSUME setup \in Setups, NEW t \in {NoTree} \cup Trees
    PROVE  /\ NoTree.by = "nobody" /\ (Exists(t) <=> t.by \in Producers)
           /\ Exists(t) => t \in Trees
BY SetupFacts DEF Exists, NoTree, Trees

\* What has the fields of a manifest is one.
LEMMA ManifestExists ==
    ASSUME NEW m \in Manifests
    PROVE  m # NoManifest
<1>1. DOMAIN m = {"state", "size", "by"} /\ DOMAIN NoManifest = {"state"}
  BY DEF Manifests, NoManifest
<1> QED BY <1>1

\* A tree in its fields.
LEMMA TreeFields ==
    ASSUME NEW t
    PROVE  t \in Trees =>
             /\ t.by \in Producers /\ t.lease \in Leases /\ t.files \in [Files -> Contents]
             /\ t.dirs \in SUBSET LayerSet /\ t.manifest \in {NoManifest} \cup Manifests
             /\ t.temps \in SUBSET Consumers
BY DEF Trees, Leases, Contents, Manifests

\* A new tree.
LEMMA EmptyTree ==
    ASSUME NEW p \in Producers
    PROVE  /\ Empty(p) \in Trees /\ Empty(p).by = p /\ Empty(p).manifest = NoManifest
           /\ Empty(p).lease = NoLease /\ \A f \in Files : Empty(p).files[f] = "none"
BY DEF Empty, Trees, NoLease, NoManifest

\* A tree in which one thing has changed.
LEMMA TreeChanges ==
    ASSUME NEW t \in Trees
    PROVE  /\ \A x \in Leases : LET u == [t EXCEPT !.lease = x] IN
                /\ u \in Trees /\ u.by = t.by /\ u.manifest = t.manifest /\ u.files = t.files
                /\ u.lease = x /\ u.dirs = t.dirs /\ u.temps = t.temps
           /\ \A x \in {NoManifest} \cup Manifests : LET u == [t EXCEPT !.manifest = x] IN
                /\ u \in Trees /\ u.by = t.by /\ u.manifest = x /\ u.files = t.files
                /\ u.lease = t.lease /\ u.dirs = t.dirs /\ u.temps = t.temps
           /\ \A f \in Files, x \in Contents : LET u == [t EXCEPT !.files[f] = x] IN
                /\ u \in Trees /\ u.by = t.by /\ u.manifest = t.manifest
                /\ u.lease = t.lease /\ u.dirs = t.dirs /\ u.temps = t.temps
                /\ u.files = [t.files EXCEPT ![f] = x]
           /\ \A x \in SUBSET Consumers : LET u == [t EXCEPT !.temps = x] IN
                /\ u \in Trees /\ u.by = t.by /\ u.manifest = t.manifest /\ u.files = t.files
           /\ \A x \in SUBSET LayerSet : LET u == [t EXCEPT !.dirs = x] IN
                /\ u \in Trees /\ u.by = t.by /\ u.manifest = t.manifest /\ u.files = t.files
BY DEF Trees, Leases, Contents, Manifests

-----------------------------------------------------------------------------
(* What the steps of a producer do to the trees.                           *)

\* The tree t has become u: the same one, in which no file has come back.
Keeps(t, u) ==
    /\ u \in {NoTree} \cup Trees /\ u.by = t.by
    /\ Exists(t) => /\ u.manifest = t.manifest
                    /\ \A f \in Files : t.files[f] = "none" => u.files[f] = "none"
\* A producer makes trees only before its converter is over, writes manifests only
\* after that, publishes a tree or none, and brings no file back.
Conversion(p) ==
    /\ staging' \in {NoTree} \cup Trees
    /\ Exists(staging') => staging'.by = staging.by \/ (staging'.by = p /\ ~ Barren(p))
    /\ Exists(staging') /\ staging'.manifest # NoManifest =>
          \/ Exists(staging) /\ staging'.manifest = staging.manifest
          \/ staging'.manifest.by = p /\ Barren(p)
    /\ \/ Exists(staging) /\ ready' = staging /\ staging' = NoTree
       \/ Keeps(ready, ready')

\* A name of the tree is a file, the lease or the manifest.
LEMMA NamesDiffer ==
    ASSUME setup \in Setups
    PROVE  /\ LeaseEntry # ManifestEntry /\ LeaseEntry \notin Files /\ ManifestEntry \notin Files
           /\ <<0, 0>> \notin Names
BY SetupFacts DEF LeaseEntry, ManifestEntry, Files, LayerSet, Names

\* Removing an entry from a tree.
LEMMA WithoutEntry ==
    ASSUME setup \in Setups, NEW t \in Trees, NEW e \in Names, Has(t, e)
    PROVE  LET u == Without(t, e) IN
           /\ u \in Trees /\ u.by = t.by /\ u.manifest \in {NoManifest, t.manifest}
           /\ Entries(u) = Entries(t) \ {e}
<1> DEFINE u == Without(t, e)
<1>1. NoLease \in Leases /\ "none" \in Contents
  BY DEF Leases, Contents
<1>2. CASE e = LeaseEntry
  <2>1. u = [t EXCEPT !.lease = NoLease]
    BY <1>2, NamesDiffer DEF Without
  <2>2. /\ u \in Trees /\ u.by = t.by /\ u.manifest = t.manifest /\ u.files = t.files
        /\ u.lease = NoLease
    BY <1>1, <2>1, TreeChanges
  <2> HIDE DEF u
  <2>3. \A x \in Names : Has(u, x) <=> Has(t, x) /\ x # e
    BY <1>2, <2>2, NamesDiffer DEF Has, Names
  <2> QED BY <2>2, <2>3 DEF Entries, Names, u
<1>3. CASE e = ManifestEntry
  <2>1. u = [t EXCEPT !.manifest = NoManifest]
    BY <1>3, NamesDiffer DEF Without
  <2>2. /\ u \in Trees /\ u.by = t.by /\ u.lease = t.lease /\ u.files = t.files
        /\ u.manifest = NoManifest
    BY <2>1, TreeChanges
  <2> HIDE DEF u
  <2>3. \A x \in Names : Has(u, x) <=> Has(t, x) /\ x # e
    BY <1>3, <2>2, NamesDiffer DEF Has, Names
  <2> QED BY <2>2, <2>3 DEF Entries, Names, u
<1>4. CASE e \in Files
  <2>1. u = [t EXCEPT !.files[e] = "none"]
    BY <1>4, NamesDiffer DEF Without
  <2>2. /\ u \in Trees /\ u.by = t.by /\ u.lease = t.lease /\ u.manifest = t.manifest
        /\ u.files = [t.files EXCEPT ![e] = "none"]
    BY <1>1, <1>4, <2>1, TreeChanges
  <2> HIDE DEF u
  <2>3. t.files \in [Files -> Contents]
    BY TreeFields
  <2>4. \A x \in Files : Has(u, x) <=> Has(t, x) /\ x # e
    BY <1>4, <2>2, <2>3, NamesDiffer DEF Has
  <2>5. \A x \in {LeaseEntry, ManifestEntry} : Has(u, x) <=> Has(t, x) /\ x # e
    BY <1>4, <2>2, NamesDiffer DEF Has
  <2>6. \A x \in Names : Has(u, x) <=> Has(t, x) /\ x # e
    BY <2>4, <2>5 DEF Names
  <2> QED BY <2>2, <2>6 DEF Entries, Names, u
<1> QED BY <1>2, <1>3, <1>4 DEF Names

\* Writing to an open file.
LEMMA WrittenTree ==
    ASSUME setup \in Setups, NEW t \in {NoTree} \cup Trees, NEW f \in Files, NEW b
    PROVE  LET u == Written(t, f, b) IN
           /\ u \in {NoTree} \cup Trees /\ u.by = t.by
           /\ Exists(t) => Exists(u) /\ u.manifest = t.manifest
           /\ Exists(t) => \A g \in Files : t.files[g] = "none" => u.files[g] = "none"
<1> DEFINE u == Written(t, f, b)
<1>1. CASE Exists(t) /\ t.by = b /\ t.files[f] = "part"
  <2>1. u = [t EXCEPT !.files[f] = "full"] /\ t \in Trees
    BY <1>1, TreeExists DEF Written
  <2>2. u \in Trees /\ u.by = t.by /\ u.manifest = t.manifest /\ u.files = [t.files EXCEPT ![f] = "full"]
    <3>1. "full" \in Contents
      BY DEF Contents
    <3> HIDE DEF u
    <3> QED BY <2>1, <3>1, TreeChanges
  <2> HIDE DEF u
  <2>3. t.files \in [Files -> Contents]
    BY <2>1, TreeFields
  <2>4. \A g \in Files : t.files[g] = "none" => u.files[g] = "none"
    BY <1>1, <2>2, <2>3
  <2>5. Exists(u)
    BY <1>1, <2>2, TreeExists
  <2> QED BY <2>2, <2>4, <2>5 DEF u
<1>2. CASE ~ (Exists(t) /\ t.by = b /\ t.files[f] = "part")
  BY <1>2 DEF Written
<1> QED BY <1>1, <1>2

\* A step that leaves the published tree alone, and in which the staging tree is
\* removed, loses an entry or keeps its manifest.
LEMMA StagingOnly ==
    ASSUME Types, NEW p \in Producers, ready' = ready,
           \/ staging' = staging
           \/ staging' = NoTree
           \/ staging' \in Trees /\ staging'.by = staging.by /\ staging'.manifest \in {NoManifest, staging.manifest}
    PROVE  Conversion(p)
<1>1. setup \in Setups /\ staging \in {NoTree} \cup Trees /\ ready \in {NoTree} \cup Trees
  BY DEF Types, TreeType
<1>2. Keeps(ready, ready')
  BY <1>1 DEF Keeps
<1>3. CASE staging' = staging
  BY <1>1, <1>2, <1>3 DEF Conversion
<1>4. CASE staging' = NoTree
  BY <1>1, <1>2, <1>4 DEF Conversion, Exists
<1>5. CASE /\ staging' \in Trees /\ staging'.by = staging.by
           /\ staging'.manifest \in {NoManifest, staging.manifest}
  <2>1. Exists(staging') <=> Exists(staging)
    BY <1>1, <1>5, TreeExists
  <2> QED BY <1>2, <1>5, <2>1 DEF Conversion
<1> QED BY <1>3, <1>4, <1>5

\* Every step of a producer is of that kind.
LEMMA ProduceConverts ==
    ASSUME Types, ChildInv, NEW p \in Producers, Produce(p)
    PROVE  Conversion(p)
<1>1. /\ setup \in Setups /\ staging \in {NoTree} \cup Trees /\ ready \in {NoTree} \cup Trees
      /\ Exists(staging) => staging \in Trees
  BY TreeExists DEF Types, TreeType
<1>2. ASSUME Start(p) \/ List(p) \/ Spawn(p) \/ ChildExit(p) \/ Wait(p) \/ KillProducer(p)
      PROVE  Conversion(p)
  <2>1. staging' = staging /\ ready' = ready
    BY <1>2 DEF Start, List, Spawn, ChildExit, Wait, KillProducer
  <2> QED BY <2>1, StagingOnly
<1>3. ASSUME RemoveEntry(p) PROVE Conversion(p)
  <2>1. PICK e : e \in walk[p] /\ \/ staging' = staging
                                  \/ Exists(staging) /\ Has(staging, e) /\ staging' = Without(staging, e)
    <3>1. walk[p] # {}
      BY <1>3 DEF RemoveEntry
    <3>2. (CHOOSE x \in walk[p] : TRUE) \in walk[p]
      BY <3>1
    <3> QED BY <1>3, <3>2 DEF RemoveEntry
  <2>2. e \in Names /\ ready' = ready
    BY <1>3, <2>1 DEF RemoveEntry, Types, ProducerType
  <2>3. CASE staging' = staging
    BY <2>2, <2>3, StagingOnly
  <2>4. CASE Exists(staging) /\ Has(staging, e) /\ staging' = Without(staging, e)
    <3>1. staging' \in Trees /\ staging'.by = staging.by /\ staging'.manifest \in {NoManifest, staging.manifest}
      BY <1>1, <2>2, <2>4, WithoutEntry
    <3> QED BY <2>2, <3>1, StagingOnly
  <2> QED BY <2>1, <2>3, <2>4
<1>4. ASSUME RemoveRoot(p) PROVE Conversion(p)
  <2>1. ready' = ready /\ (staging' = staging \/ staging' = NoTree)
    BY <1>4 DEF RemoveRoot
  <2> QED BY <2>1, StagingOnly
<1>5. ASSUME MakeStaging(p) PROVE Conversion(p)
  <2>1. ready' = ready /\ ppc[p] = "mkdir" /\ (staging' = staging \/ staging' = Empty(p))
    BY <1>5 DEF MakeStaging, PAt
  <2>2. CASE staging' = staging
    BY <2>1, <2>2, StagingOnly
  <2>3. CASE staging' = Empty(p)
    <3>1. ~ Barren(p)
      BY <2>1 DEF ChildInv, Barren
    <3>2. staging' \in Trees /\ staging'.by = p /\ staging'.manifest = NoManifest
      BY <2>3, EmptyTree
    <3> QED BY <1>1, <2>1, <3>1, <3>2 DEF Conversion, Keeps
  <2> QED BY <2>1, <2>2, <2>3
<1>6. ASSUME WriteLease(p) PROVE Conversion(p)
  <2>1. /\ ready' = ready
        /\ \/ staging' = staging
           \/ Exists(staging) /\ \E x \in {"main", "child"} : staging' = [staging EXCEPT !.lease = <<p, x>>]
    BY <1>6 DEF WriteLease
  <2>2. CASE staging' = staging
    BY <2>1, <2>2, StagingOnly
  <2>3. ASSUME Exists(staging), NEW x \in {"main", "child"}, staging' = [staging EXCEPT !.lease = <<p, x>>]
        PROVE  Conversion(p)
    <3>1. <<p, x>> \in Leases
      BY DEF Leases
    <3>2. staging' \in Trees /\ staging'.by = staging.by /\ staging'.manifest = staging.manifest
      BY <1>1, <2>3, <3>1, TreeChanges
    <3> QED BY <2>1, <3>2, StagingOnly
  <2> QED BY <2>1, <2>2, <2>3
<1>7. ASSUME ChildOpen(p) PROVE Conversion(p)
  <2> DEFINE t == IF Exists(staging) THEN staging ELSE Empty(p)
             f == NextFile(p)
  <2>1. ready' = ready /\ ~ Barren(p) /\ f \in Files
    <3>1. child[p].done # Files /\ child[p].done \subseteq Files
      BY <1>7 DEF ChildOpen, Types, ProducerType
    <3>2. f \in Files \ child[p].done
      BY <3>1 DEF NextFile
    <3> QED BY <1>7, <3>2 DEF ChildOpen, Barren
  <2>2. t \in Trees /\ (t.by = staging.by \/ t.by = p) /\ ((t.manifest = staging.manifest /\ Exists(staging)) \/ t.manifest = NoManifest)
    BY <1>1, EmptyTree
  <2>3. staging' = [t EXCEPT !.files[f] = "part", !.dirs = @ \cup {f[1]}]
    BY <1>7 DEF ChildOpen
  <2> HIDE DEF t, f
  <2>4. staging' \in Trees /\ staging'.by = t.by /\ staging'.manifest = t.manifest
    <3>1. f[1] \in LayerSet
      BY <2>1 DEF Files
    <3> QED BY <2>1, <2>2, <2>3, <3>1 DEF Trees
  <2> QED BY <1>1, <2>1, <2>2, <2>4 DEF Conversion, Keeps
<1>8. ASSUME ChildWrite(p) PROVE Conversion(p)
  <2>1. PICK o \in child[p].open :
          \/ staging' = staging /\ ready' = ready
          \/ staging' = Written(staging, o[1], o[2]) /\ ready' = Written(ready, o[1], o[2])
    BY <1>8 DEF ChildWrite
  <2>2. o[1] \in Files
    BY <2>1 DEF Types, ProducerType, Opened
  <2>3. CASE staging' = staging /\ ready' = ready
    BY <2>3, StagingOnly
  <2>4. CASE staging' = Written(staging, o[1], o[2]) /\ ready' = Written(ready, o[1], o[2])
    <3>1. /\ staging' \in {NoTree} \cup Trees /\ staging'.by = staging.by
          /\ Exists(staging) => staging'.manifest = staging.manifest
      BY <1>1, <2>2, <2>4, WrittenTree
    <3>2. Keeps(ready, ready')
      BY <1>1, <2>2, <2>4, WrittenTree DEF Keeps
    <3>3. Exists(staging') <=> Exists(staging)
      BY <1>1, <3>1, TreeExists
    <3> QED BY <3>1, <3>2, <3>3 DEF Conversion
  <2> QED BY <2>1, <2>3, <2>4
<1>9. ASSUME Unlease(p) PROVE Conversion(p)
  <2>1. /\ ready' = ready
        /\ \/ staging' = staging
           \/ Exists(staging) /\ staging' = [staging EXCEPT !.lease = NoLease]
    BY <1>9 DEF Unlease
  <2>2. CASE staging' = staging
    BY <2>1, <2>2, StagingOnly
  <2>3. CASE Exists(staging) /\ staging' = [staging EXCEPT !.lease = NoLease]
    <3>1. NoLease \in Leases
      BY DEF Leases
    <3>2. staging' \in Trees /\ staging'.by = staging.by /\ staging'.manifest = staging.manifest
      BY <1>1, <2>3, <3>1, TreeChanges
    <3> QED BY <2>1, <3>2, StagingOnly
  <2> QED BY <2>1, <2>2, <2>3
<1>10. ASSUME Scan(p) PROVE Conversion(p)
  <2> DEFINE m == [state |-> [l \in LayerSet |-> "ready"], size |-> staging.files, by |-> p]
  <2>1. /\ ready' = ready /\ ppc[p] = "scan"
        /\ \/ staging' = staging
           \/ Exists(staging) /\ Entries(staging) = Files /\ staging' = [staging EXCEPT !.manifest = m]
    BY <1>10 DEF Scan, PAt
  <2>2. CASE staging' = staging
    BY <2>1, <2>2, StagingOnly
  <2>3. CASE Exists(staging) /\ Entries(staging) = Files /\ staging' = [staging EXCEPT !.manifest = m]
    <3>1. m \in Manifests
      <4>1. staging.files \in [Files -> Contents] /\ \A f \in Files : staging.files[f] # "none"
        BY <1>1, <2>3, TreeFields, NamesDiffer DEF Entries, Has
      <4>2. staging.files \in [Files -> {"part", "full"}]
        BY <4>1 DEF Contents
      <4> QED BY <4>2 DEF Manifests, States
    <3> HIDE DEF m
    <3>2. staging' \in Trees /\ staging'.by = staging.by /\ staging'.manifest = m
      BY <1>1, <2>3, <3>1, TreeChanges
    <3>3. m.by = p /\ Barren(p)
      BY <2>1 DEF m, ChildInv
    <3> QED BY <1>1, <2>1, <3>2, <3>3 DEF Conversion, Keeps
  <2> QED BY <2>1, <2>2, <2>3
<1>11. ASSUME Rename(p) PROVE Conversion(p)
  <2>1. \/ staging' = staging /\ ready' = ready
        \/ Exists(staging) /\ ready' = staging /\ staging' = NoTree
    BY <1>11 DEF Rename
  <2>2. CASE staging' = staging /\ ready' = ready
    BY <2>2, StagingOnly
  <2>3. CASE Exists(staging) /\ ready' = staging /\ staging' = NoTree
    BY <2>3 DEF Conversion, Exists
  <2> QED BY <2>1, <2>2, <2>3
<1> QED BY <1>2, <1>3, <1>4, <1>5, <1>6, <1>7, <1>8, <1>9, <1>10, <1>11 DEF Produce

\* The life of a producer and of its converter.
LEMMA ProduceChild ==
    ASSUME Types, ChildInv, NEW p \in Producers, Produce(p), UNCHANGED setup
    PROVE  ProducerType' /\ ChildInv' /\ \A q \in Producers : Barren(q) => Barren(q)'
<1> DEFINE Kids == [st : {"none", "run", "exited", "gone"}, done : SUBSET Files, open : SUBSET Opened]
<1>0. /\ setup \in Setups /\ ppc \in [Producers -> ProducerPcs] /\ child \in [Producers -> Kids]
      /\ walk \in [Producers -> {NoWalk} \cup SUBSET Names]
      /\ \A q \in Producers : \A o, u \in child[q].open : o = u
  BY DEF Types, ProducerType
<1>1. /\ Producers' = Producers /\ Files' = Files /\ Opened' = Opened /\ Names' = Names
  BY SetupStays
<1> DEFINE Walks == walk' \in [Producers -> {NoWalk} \cup SUBSET Names]
           Goal  == ProducerType' /\ ChildInv' /\ \A q \in Producers : Barren(q) => Barren(q)'
\* Where the converter is left alone.
<1>2. ASSUME child' = child, Walks, NEW w \in ProducerPcs, ppc' = [ppc EXCEPT ![p] = w],
             \/ w \in {"mkdir", "reclaim", "lease", "spawn"} /\ child[p].st = "none"
             \/ w \in {"publish", "scan", "rename", "done"} /\ Barren(p)
             \/ w \in {"lease_child", "wait"} /\ ~ Barren(p)
             \/ w \in {"clean", "exit", "failed", "killed"}
      PROVE  Goal
  <2>1. ProducerType'
    BY <1>0, <1>1, <1>2 DEF ProducerType
  <2>2. ChildInv'
    BY <1>0, <1>1, <1>2 DEF ChildInv, Barren
  <2> QED BY <1>2, <2>1, <2>2 DEF Barren
<1>3. ASSUME ppc' = ppc, child' = child, Walks PROVE Goal
  <2>1. ProducerType'
    BY <1>0, <1>1, <1>3 DEF ProducerType
  <2>2. ChildInv'
    BY <1>0, <1>1, <1>3 DEF ChildInv, Barren
  <2> QED BY <1>3, <2>1, <2>2 DEF Barren
<1>4. ASSUME Start(p) PROVE Goal
  <2>1. /\ child' = child /\ walk' = walk /\ child[p].st = "none"
        /\ \E w \in {"mkdir", "failed", "reclaim"} : ppc' = [ppc EXCEPT ![p] = w]
    BY <1>4 DEF Start, PAt, PGoes, ChildInv
  <2> QED BY <1>0, <1>2, <2>1 DEF ProducerPcs, Removing
<1>5. ASSUME ppc[p] \in Removing, NEW ok \in BOOLEAN, Removed(p, ok), child' = child PROVE Goal
  <2>1. Walks
    BY <1>0, <1>5 DEF Removed
  <2>2. CASE ppc[p] = "reclaim"
    <3>1. child[p].st = "none" /\ \E w \in {"mkdir", "failed"} : ppc' = [ppc EXCEPT ![p] = w]
      BY <1>5, <2>2 DEF Removed, PAt, PGoes, ChildInv
    <3> QED BY <1>2, <1>5, <2>1, <3>1 DEF ProducerPcs
  <2>3. CASE ppc[p] # "reclaim"
    <3>1. \E w \in {"exit", "failed"} : ppc' = [ppc EXCEPT ![p] = w]
      BY <1>5, <2>3 DEF Removed, PAt, PGoes, Removing
    <3> QED BY <1>2, <1>5, <2>1, <3>1 DEF ProducerPcs, Removing
  <2> QED BY <2>2, <2>3
<1>6. ASSUME List(p) PROVE Goal
  <2>1. CASE Exists(staging)
    <3>1. ppc' = ppc /\ child' = child /\ walk' = [walk EXCEPT ![p] = Entries(staging)]
      BY <1>6, <2>1 DEF List, Listing
    <3>2. Entries(staging) \subseteq Names
      BY DEF Entries, Names
    <3> QED BY <1>0, <1>3, <3>1, <3>2
  <2>2. CASE ~ Exists(staging)
    BY <1>5, <1>6, <2>2 DEF List
  <2> QED BY <2>1, <2>2
<1>7. ASSUME RemoveEntry(p) PROVE Goal
  <2>1. \/ Removed(p, FALSE)
        \/ ppc' = ppc /\ \E e : walk' = [walk EXCEPT ![p] = @ \ {e}]
    BY <1>7 DEF RemoveEntry
  <2>2. ppc[p] \in Removing /\ child' = child /\ walk[p] \in SUBSET Names
    BY <1>0, <1>7 DEF RemoveEntry
  <2>3. CASE Removed(p, FALSE)
    BY <1>5, <2>2, <2>3
  <2>4. ASSUME ppc' = ppc, NEW e, walk' = [walk EXCEPT ![p] = @ \ {e}] PROVE Goal
    <3>1. Walks
      BY <1>0, <2>2, <2>4
    <3> QED BY <1>3, <2>2, <2>4, <3>1
  <2> QED BY <2>1, <2>3, <2>4
<1>8. ASSUME RemoveRoot(p) PROVE Goal
  <2>1. ppc[p] \in Removing /\ child' = child /\ \E ok \in BOOLEAN : Removed(p, ok)
    BY <1>8 DEF RemoveRoot
  <2> QED BY <1>5, <2>1
<1>9. ASSUME MakeStaging(p) PROVE Goal
  <2>1. /\ child' = child /\ walk' = walk /\ child[p].st = "none"
        /\ \E w \in {"lease", "failed"} : ppc' = [ppc EXCEPT ![p] = w]
    BY <1>9 DEF MakeStaging, PAt, PGoes, ChildInv
  <2> QED BY <1>0, <1>2, <2>1 DEF ProducerPcs
<1>10. ASSUME WriteLease(p) PROVE Goal
  <2>1. child' = child /\ walk' = walk
    BY <1>10 DEF WriteLease
  <2>2. CASE ppc[p] = "lease"
    <3>1. child[p].st = "none" /\ \E w \in {"spawn", "failed"} : ppc' = [ppc EXCEPT ![p] = w]
      BY <1>10, <2>2 DEF WriteLease, PAt, PGoes, ChildInv
    <3> QED BY <1>0, <1>2, <2>1, <3>1 DEF ProducerPcs
  <2>3. CASE ppc[p] = "lease_child"
    <3>1. ~ Barren(p) /\ \E w \in {"wait", "clean"} : ppc' = [ppc EXCEPT ![p] = w]
      BY <1>10, <2>3 DEF WriteLease, PAt, PGoes, ChildInv, Barren
    <3> QED BY <1>0, <1>2, <2>1, <3>1 DEF ProducerPcs, Removing
  <2> QED BY <1>10, <2>2, <2>3 DEF WriteLease
<1>11. ASSUME Unlease(p) PROVE Goal
  <2>1. /\ child' = child /\ walk' = walk /\ Barren(p)
        /\ \E w \in {"scan", "clean"} : ppc' = [ppc EXCEPT ![p] = w]
    BY <1>11 DEF Unlease, PAt, PGoes, ChildInv
  <2> QED BY <1>0, <1>2, <2>1 DEF ProducerPcs, Removing
<1>12. ASSUME Scan(p) PROVE Goal
  <2>1. /\ child' = child /\ walk' = walk /\ Barren(p)
        /\ \E w \in {"rename", "clean"} : ppc' = [ppc EXCEPT ![p] = w]
    BY <1>12 DEF Scan, PAt, PGoes, ChildInv
  <2> QED BY <1>0, <1>2, <2>1 DEF ProducerPcs, Removing
<1>13. ASSUME Rename(p) PROVE Goal
  <2>1. /\ child' = child /\ walk' = walk /\ Barren(p)
        /\ \E w \in {"done", "clean"} : ppc' = [ppc EXCEPT ![p] = w]
    BY <1>13 DEF Rename, PAt, PGoes, ChildInv
  <2> QED BY <1>0, <1>2, <2>1 DEF ProducerPcs, Removing
\* Where the converter changes.
<1>14. ASSUME NEW w \in ProducerPcs, NEW k \in Kids, ppc' = [ppc EXCEPT ![p] = w], child' = [child EXCEPT ![p] = k],
              walk' = walk, \A o, u \in k.open : o = u,
              w \in {"idle", "mkdir", "reclaim", "lease", "spawn"} => k.st = "none",
              w \in {"publish", "scan", "rename", "done"} => k.st = "gone",
              k.st = "gone" => w \in {"publish", "scan", "rename", "clean", "exit", "failed", "done", "killed"},
              child[p].st = "gone" => k.st = "gone"
       PROVE  Goal
  <2>1. ProducerType'
    <3>1. child' \in [Producers -> Kids] /\ ppc' \in [Producers -> ProducerPcs]
      BY <1>0, <1>14
    <3>2. \A q \in Producers : \A o, u \in child'[q].open : o = u
      BY <1>0, <1>14
    <3> QED BY <1>0, <1>1, <1>14, <3>1, <3>2 DEF ProducerType
  <2>2. ChildInv'
    BY <1>0, <1>1, <1>14 DEF ChildInv, Barren
  <2>3. \A q \in Producers : Barren(q) => Barren(q)'
    BY <1>0, <1>14 DEF Barren
  <2> QED BY <2>1, <2>2, <2>3
<1>15. ASSUME Spawn(p) PROVE Goal
  <2> DEFINE k == [child[p] EXCEPT !.st = "run"]
  <2>1. /\ ppc[p] = "spawn" /\ walk' = walk
        /\ \/ ppc' = [ppc EXCEPT ![p] = "lease_child"] /\ child' = [child EXCEPT ![p] = k]
           \/ ppc' = [ppc EXCEPT ![p] = "clean"] /\ child' = child
    BY <1>15 DEF Spawn, PAt, PGoes
  <2>2. CASE ppc' = [ppc EXCEPT ![p] = "clean"] /\ child' = child
    BY <1>0, <1>2, <2>1, <2>2 DEF ProducerPcs, Removing
  <2>3. k \in Kids /\ k.st = "run" /\ k.open = child[p].open /\ child[p].st = "none"
    BY <1>0, <2>1 DEF ChildInv
  <2>4. \A o, u \in k.open : o = u
    BY <1>0, <2>3
  <2>5. "lease_child" \in ProducerPcs
    BY DEF ProducerPcs
  <2> HIDE DEF k, Goal, Kids
  <2>6. CASE ppc' = [ppc EXCEPT ![p] = "lease_child"] /\ child' = [child EXCEPT ![p] = k]
    BY <1>14, <2>1, <2>3, <2>4, <2>5, <2>6
  <2> QED BY <2>1, <2>2, <2>6
<1>16. ASSUME ChildOpen(p) PROVE Goal
  <2> DEFINE t == IF Exists(staging) THEN staging ELSE Empty(p)
             o == <<NextFile(p), t.by>>
             k == [child[p] EXCEPT !.open = {o}]
  <2>1. child[p].st = "run" /\ ppc' = ppc /\ walk' = walk /\ child' = [child EXCEPT ![p] = k]
    BY <1>16 DEF ChildOpen
  <2>2. o \in Opened
    <3>1. child[p].done # Files /\ child[p].done \subseteq Files
      BY <1>0, <1>16 DEF ChildOpen
    <3>2. NextFile(p) \in Files
      BY <3>1 DEF NextFile
    <3>3. t.by \in Producers
      BY <1>0, TreeExists, EmptyTree DEF Types, TreeType
    <3> QED BY <3>2, <3>3 DEF Opened
  <2>3. k \in Kids /\ k.st = "run" /\ k.open = {o}
    <3> HIDE DEF o
    <3> QED BY <1>0, <2>1, <2>2
  <2>4. ppc[p] \in ProducerPcs /\ ppc' = [ppc EXCEPT ![p] = ppc[p]]
    BY <1>0, <2>1
  <2>5. ppc[p] \notin {"idle", "mkdir", "reclaim", "lease", "spawn"} /\ ppc[p] \notin {"publish", "scan", "rename", "done"}
    BY <2>1 DEF ChildInv, Barren
  <2> HIDE DEF k, o
  <2> QED BY <1>14, <2>1, <2>3, <2>4, <2>5
<1>17. ASSUME ChildWrite(p) PROVE Goal
  <2>1. PICK o \in child[p].open : /\ child[p].st = "run" /\ ppc' = ppc /\ walk' = walk
                                   /\ child' = [child EXCEPT ![p].open = {}, ![p].done = @ \cup {o[1]}]
    BY <1>17 DEF ChildWrite
  <2> DEFINE k == [child[p] EXCEPT !.open = {}, !.done = @ \cup {o[1]}]
  <2>2. o[1] \in Files
    BY <1>0, <2>1 DEF Opened
  <2>3. k \in Kids /\ k.st = "run" /\ k.open = {}
    <3>1. child[p] \in Kids /\ child[p].done \cup {o[1]} \in SUBSET Files
      BY <1>0, <2>2
    <3> QED BY <2>1, <3>1
  <2>4. child' = [child EXCEPT ![p] = k] /\ ppc[p] \in ProducerPcs /\ ppc' = [ppc EXCEPT ![p] = ppc[p]]
    BY <1>0, <2>1
  <2>5. ppc[p] \notin {"idle", "mkdir", "reclaim", "lease", "spawn"} /\ ppc[p] \notin {"publish", "scan", "rename", "done"}
    BY <2>1 DEF ChildInv, Barren
  <2> HIDE DEF k
  <2> QED BY <1>14, <2>1, <2>3, <2>4, <2>5
<1>18. ASSUME ChildExit(p) PROVE Goal
  <2> DEFINE k == [child[p] EXCEPT !.st = "exited", !.open = {}]
  <2>1. child[p].st = "run" /\ ppc' = ppc /\ walk' = walk /\ child' = [child EXCEPT ![p] = k]
    BY <1>18 DEF ChildExit, PAt
  <2>3. k \in Kids /\ k.st = "exited" /\ k.open = {}
    BY <1>0, <2>1
  <2>4. ppc[p] \in ProducerPcs /\ ppc' = [ppc EXCEPT ![p] = ppc[p]]
    BY <1>0, <2>1
  <2>5. ppc[p] \notin {"idle", "mkdir", "reclaim", "lease", "spawn"} /\ ppc[p] \notin {"publish", "scan", "rename", "done"}
    BY <2>1 DEF ChildInv, Barren
  <2> HIDE DEF k
  <2> QED BY <1>14, <2>1, <2>3, <2>4, <2>5
<1>19. ASSUME Wait(p) PROVE Goal
  <2> DEFINE k == [child[p] EXCEPT !.st = "gone"]
  <2>1. /\ walk' = walk /\ child' = [child EXCEPT ![p] = k]
        /\ \E w \in {"publish", "clean"} : ppc' = [ppc EXCEPT ![p] = w]
    BY <1>19 DEF Wait, PGoes
  <2>2. k \in Kids /\ k.st = "gone" /\ k.open = child[p].open
    BY <1>0
  <2> HIDE DEF k
  <2> QED BY <1>0, <1>14, <2>1, <2>2 DEF ProducerPcs, Removing
<1>20. ASSUME KillProducer(p) PROVE Goal
  <2>1. walk' = walk /\ child' = child /\ ppc' = [ppc EXCEPT ![p] = "killed"]
    BY <1>20 DEF KillProducer, PGoes
  <2> QED BY <1>0, <1>2, <2>1 DEF ProducerPcs
<1> QED BY <1>4, <1>6, <1>7, <1>8, <1>9, <1>10, <1>11, <1>12, <1>13, <1>15, <1>16, <1>17, <1>18, <1>19, <1>20
        DEF Produce

\* What follows for manifests and files: the tree of a manifest that was read is
\* never made again.
LEMMA ConversionKeeps ==
    ASSUME Types, ChildInv, ManifestInv, FileInv, NEW p \in Producers, Conversion(p),
           \A q \in Producers : Barren(q) => Barren(q)',
           UNCHANGED <<setup, cpc, at, store, flow>>
    PROVE  ManifestInv' /\ FileInv'
<1>1. /\ setup \in Setups /\ staging \in {NoTree} \cup Trees /\ ready \in {NoTree} \cup Trees
      /\ mem \in [Consumers -> {NoManifest} \cup Manifests]
  BY DEF Types, TreeType, ConsumerType
<1>2. /\ Producers' = Producers /\ Consumers' = Consumers /\ Files' = Files
      /\ cpc' = cpc /\ at' = at /\ mem' = mem /\ closed' = closed /\ cut' = cut
  BY SetupStays DEF store, flow
<1>3. /\ staging' \in {NoTree} \cup Trees
      /\ \A q \in Producers : child[q].st = "gone" => child'[q].st = "gone"
  BY DEF Conversion, Barren
<1>4. \A q \in Producers : Barren(q) /\ staging.by # q => staging'.by # q
  <2> SUFFICES ASSUME NEW q \in Producers, Barren(q), staging.by # q, staging'.by = q PROVE FALSE
    OBVIOUS
  <2>1. Exists(staging')
    BY <1>1, <1>3, TreeExists
  <2> QED BY <2>1 DEF Conversion
<1>5. \A c \in Consumers : mem[c] # NoManifest => mem[c].by \in Producers
  BY <1>1 DEF Manifests
<1>6. \A c \in Consumers : mem[c] # NoManifest => child'[mem[c].by].st = "gone" /\ staging'.by # mem[c].by
  BY <1>3, <1>4, <1>5 DEF ManifestInv, Barren
<1>7. Exists(staging') /\ staging'.manifest # NoManifest => child'[staging'.manifest.by].st = "gone"
  <2>1. Exists(staging) /\ staging.manifest # NoManifest => staging.manifest.by \in Producers
    BY <1>1, TreeExists, TreeFields DEF Manifests
  <2> QED BY <1>3, <2>1 DEF Conversion, ManifestInv, Barren
<1>8. CASE Exists(staging) /\ ready' = staging /\ staging' = NoTree
  <2>1. staging \in Trees /\ staging.by \in Producers
    BY <1>1, <1>8, TreeExists
  <2>2. staging.manifest # NoManifest => child'[staging.manifest.by].st = "gone" /\ staging'.by # staging.manifest.by
    <3>1. staging.manifest # NoManifest => staging.manifest.by \in Producers /\ Barren(staging.manifest.by)
      BY <1>8, <2>1, TreeFields DEF Manifests, ManifestInv
    <3>2. staging'.by \notin Producers
      BY <1>1, <1>8, TreeExists, SetupFacts
    <3> QED BY <1>3, <3>1, <3>2 DEF Barren
  <2>3. ManifestInv'
    BY <1>2, <1>6, <1>7, <1>8, <2>2 DEF ManifestInv, Barren
  <2>4. \A c \in Consumers : mem[c] # NoManifest => ready'.by # mem[c].by
    BY <1>8 DEF ManifestInv
  <2> QED BY <1>2, <2>3, <2>4 DEF FileInv
<1>9. CASE Keeps(ready, ready')
  <2>1. Exists(ready') <=> Exists(ready)
    BY <1>1, <1>9, TreeExists DEF Keeps
  <2>2. ASSUME Exists(ready), ready'.manifest # NoManifest
        PROVE  child'[ready'.manifest.by].st = "gone" /\ staging'.by # ready'.manifest.by
    <3>1. ready'.manifest = ready.manifest /\ ready.manifest.by \in Producers
      BY <1>1, <1>9, <2>2, TreeExists, TreeFields DEF Keeps, Manifests
    <3> QED BY <1>3, <1>4, <2>2, <3>1 DEF ManifestInv, Barren
  <2>3. ManifestInv'
    BY <1>2, <1>6, <1>7, <2>1, <2>2 DEF ManifestInv, Barren, Exists
  <2>4. ASSUME NEW c \in Consumers, mem[c] # NoManifest, ready'.by = mem[c].by
        PROVE  /\ \A f \in Files : Passed(c, f) => ready'.files[f] = "none"
               /\ Cleaned(c) => \A f \in Files : ready'.files[f] = "none"
    <3>1. ready.by = mem[c].by /\ Exists(ready)
      BY <1>1, <1>5, <1>9, <2>4, TreeExists DEF Keeps
    <3>2. /\ \A f \in Files : Passed(c, f) => ready.files[f] = "none"
          /\ Cleaned(c) => \A f \in Files : ready.files[f] = "none"
      BY <2>4, <3>1 DEF FileInv, Present
    <3> QED BY <1>9, <3>1, <3>2 DEF Keeps
  <2>5. \A c \in Consumers : /\ Cleaned(c)' <=> Cleaned(c)
                             /\ \A f \in Files : Passed(c, f)' <=> Passed(c, f)
    BY <1>2 DEF Cleaned, Passed, Layer
  <2>6. FileInv'
    BY <1>2, <2>4, <2>5 DEF FileInv, Present
  <2> QED BY <2>3, <2>6
<1> QED BY <1>8, <1>9 DEF Conversion

\* The consumers know nothing of it.
LEMMA LocalsStay ==
    ASSUME Types, Locals, ExclusiveInv, UNCHANGED <<setup, cpc, at, store, flow>>
    PROVE  Locals' /\ ExclusiveInv' /\ ConsumerType'
<1>1. /\ Producers' = Producers /\ Consumers' = Consumers /\ Files' = Files /\ LayerSet' = LayerSet
      /\ Layers' = Layers /\ Parts' = Parts /\ Manifests' = Manifests
      /\ cpc' = cpc /\ at' = at /\ mem' = mem /\ closed' = closed /\ cut' = cut /\ back' = back /\ loaded' = loaded
  BY SetupStays DEF store, flow
<1>2. ConsumerType'
  BY <1>1 DEF Types, ConsumerType
<1>3. \A c \in Consumers : \A x : Place(c, x)' <=> Place(c, x)
  BY <1>1 DEF Place, Layer, LoadedTo
<1>4. PlaceInv'
  BY <1>1, <1>3 DEF Locals, PlaceInv
<1>5. RecordInv' /\ CloseInv'
  BY <1>1 DEF Locals, RecordInv, Recorded, CloseInv, Closes, Layer
<1>6. ExclusiveInv'
  BY <1>1 DEF ExclusiveInv, OneProducer, Passed, Layer
<1> QED BY <1>2, <1>4, <1>5, <1>6 DEF Locals

\* One producer is all there are.
LEMMA SoleProducer ==
    ASSUME setup \in Setups, OneProducer, NEW p \in Producers
    PROVE  Producers = {p}
<1>1. IsFiniteSet(Producers) /\ Cardinality(Producers) = 1
  BY SetupFacts DEF OneProducer
<1>2. PICK q : Producers = {q}
  BY <1>1, FS_Singleton
<1> QED BY <1>2

\* A producer that is alone meets its own tree at every step.
LEMMA ProduceSole ==
    ASSUME Types, ChildInv, SoleInv, NEW p \in Producers, Produce(p), UNCHANGED setup
    PROVE  SoleInv'
<1> SUFFICES ASSUME OneProducer PROVE SoleInv'
  BY SetupStays DEF SoleInv, OneProducer
<1>1. Producers = {p} /\ Producers' = {p} /\ Files' = Files
  BY SoleProducer, SetupStays DEF Types
<1>2. /\ setup \in Setups /\ ppc \in [Producers -> ProducerPcs] /\ DOMAIN child = Producers
      /\ walk \in [Producers -> {NoWalk} \cup SUBSET Names] /\ staging \in {NoTree} \cup Trees
  BY DEF Types, ProducerType, TreeType
<1> DEFINE
      w == ppc[p]
      Alone(x, t, k, y) ==
        /\ x # "reclaim"
        /\ x \in {"idle", "mkdir", "done"} => ~ Exists(t)
        /\ x = "lease" => t = Empty(p)
        /\ x \in {"lease", "spawn", "lease_child", "wait", "publish", "scan", "rename"} => Exists(t)
        /\ x \in {"lease_child", "wait"} => k \in {"run", "exited"}
        /\ x \notin {"clean", "exit", "reclaim", "killed"} => y = NoWalk
        /\ k \in {"none", "gone"} =>
             /\ x = "exit" => ~ Exists(t) /\ y = NoWalk
             /\ x = "failed" => ~ Exists(t) \/ (k = "none" /\ t = Empty(p))
             /\ x = "clean" => y = NoWalk \/ (Exists(t) /\ y = Entries(t))
<1>3. Alone(ppc[p], staging, child[p].st, walk[p])
  BY <1>1 DEF SoleInv, Removing
<1>4. SUFFICES Alone(ppc'[p], staging', child'[p].st, walk'[p])
  BY <1>1 DEF SoleInv, Entries, Removing, Empty
<1>5. ~ Exists(NoTree)
  BY DEF Exists
<1>6. CASE Start(p)
  BY <1>1, <1>2, <1>3, <1>6 DEF Start, PAt, PGoes
<1>7. child[p].st \in {"none", "run", "exited", "gone"}
  BY DEF Types, ProducerType
\* While the converter is at work nothing is sure of a cleanup.
<1>8. CASE child[p].st \notin {"none", "gone"} /\ (List(p) \/ RemoveEntry(p) \/ RemoveRoot(p))
  <2>1. child' = child /\ ppc[p] \in {"clean", "exit"}
    BY <1>3, <1>8 DEF List, RemoveEntry, RemoveRoot, Removing
  <2>2. \/ ppc' = ppc
        \/ \E ok \in BOOLEAN : Removed(p, ok)
    BY <1>8 DEF List, RemoveEntry, RemoveRoot
  <2>3. CASE ppc' = ppc
    BY <1>8, <2>1, <2>3
  <2>4. ASSUME NEW ok \in BOOLEAN, Removed(p, ok) PROVE Alone(ppc'[p], staging', child'[p].st, walk'[p])
    <3>1. ppc'[p] \in {"exit", "failed"} /\ walk'[p] = NoWalk
      BY <1>1, <1>2, <2>1, <2>4 DEF Removed, PAt, PGoes
    <3> QED BY <1>8, <2>1, <3>1
  <2> QED BY <2>2, <2>3, <2>4
<1>9. CASE List(p) /\ child[p].st \in {"none", "gone"}
  <2>1. ppc[p] \in {"clean", "exit"} /\ walk[p] = NoWalk /\ staging' = staging /\ child' = child
    BY <1>3, <1>9 DEF List, Removing
  <2>2. CASE Exists(staging)
    BY <1>1, <1>2, <1>3, <1>9, <2>1, <2>2 DEF List, Listing
  <2>3. CASE ~ Exists(staging)
    BY <1>1, <1>2, <1>3, <1>9, <2>1, <2>3 DEF List, Removed, PAt, PGoes
  <2> QED BY <2>2, <2>3
<1>10. CASE RemoveEntry(p) /\ child[p].st \in {"none", "gone"}
  <2> DEFINE e == CHOOSE x \in walk[p] : TRUE
  <2>1. ppc[p] = "clean" /\ Exists(staging) /\ walk[p] = Entries(staging) /\ child' = child
    BY <1>3, <1>10 DEF RemoveEntry, Removing
  <2>2. e \in Entries(staging)
    BY <1>10, <2>1 DEF RemoveEntry
  <2>3. e \in Names /\ Has(staging, e)
    BY <2>2 DEF Entries, Names
  <2>4. staging' = Without(staging, e) /\ walk'[p] = Entries(staging) \ {e} /\ ppc' = ppc
    BY <1>1, <1>2, <1>10, <2>1, <2>3 DEF RemoveEntry
  <2> HIDE DEF e
  <2>5. staging \in Trees
    BY <1>2, <2>1, TreeExists
  <2>6. staging' \in Trees /\ Entries(staging') = Entries(staging) \ {e}
    BY <1>2, <2>3, <2>4, <2>5, WithoutEntry
  <2>7. Exists(staging')
    BY <1>2, <2>6, TreeExists, TreeFields
  <2> QED BY <1>3, <2>1, <2>4, <2>6, <2>7
<1>11. CASE RemoveRoot(p) /\ child[p].st \in {"none", "gone"}
  <2>1. ppc[p] = "clean" /\ Exists(staging) /\ Entries(staging) = {} /\ child' = child
    <3>1. NoWalk # {}
      BY DEF NoWalk
    <3> QED BY <1>3, <1>11, <3>1 DEF RemoveRoot, Removing
  <2>2. staging' = NoTree /\ Removed(p, TRUE)
    BY <1>11, <2>1 DEF RemoveRoot
  <2>3. ppc'[p] = "exit" /\ walk'[p] = NoWalk
    BY <1>1, <1>2, <2>1, <2>2 DEF Removed, PAt, PGoes
  <2> QED BY <1>3, <1>5, <2>1, <2>2, <2>3
<1>12. CASE MakeStaging(p)
  <2>1. Exists(Empty(p))
    BY <1>2, EmptyTree, TreeExists
  <2> QED BY <1>1, <1>2, <1>3, <1>12, <2>1 DEF MakeStaging, PAt, PGoes, ChildInv
<1>13. CASE WriteLease(p)
  <2>1. Exists(staging) /\ staging \in Trees
    BY <1>2, <1>3, <1>13, TreeExists DEF WriteLease
  <2>2. child' = child /\ walk' = walk /\ ppc[p] \in {"lease", "lease_child"}
    BY <1>13 DEF WriteLease
  <2>3. \/ /\ \E x \in {"main", "child"} : staging' = [staging EXCEPT !.lease = <<p, x>>]
           /\ \/ ppc[p] = "lease" /\ ppc'[p] = "spawn"
              \/ ppc[p] = "lease_child" /\ ppc'[p] = "wait"
        \/ /\ staging' = staging
           /\ \/ ppc[p] = "lease" /\ ppc'[p] = "failed"
              \/ ppc[p] = "lease_child" /\ ppc'[p] = "clean"
    BY <1>1, <1>2, <1>13 DEF WriteLease, PAt, PGoes
  <2>4. CASE staging' = staging
    <3>1. ppc[p] = "lease" => child[p].st = "none" /\ staging = Empty(p)
      BY <1>3 DEF ChildInv
    <3> QED BY <1>3, <2>1, <2>2, <2>3, <2>4, <3>1
  <2>5. ASSUME NEW x \in {"main", "child"}, staging' = [staging EXCEPT !.lease = <<p, x>>] PROVE Exists(staging')
    <3>1. <<p, x>> \in Leases
      BY DEF Leases
    <3>2. staging' \in Trees
      BY <2>1, <2>5, <3>1, TreeChanges
    <3> QED BY <1>2, <3>2, TreeExists, TreeFields
  <2> QED BY <1>3, <2>2, <2>3, <2>4, <2>5
<1>14. CASE Spawn(p)
  <2>1. /\ ppc[p] = "spawn" /\ walk' = walk /\ staging' = staging
        /\ \/ ppc'[p] = "lease_child" /\ child'[p].st = "run"
           \/ ppc'[p] = "clean" /\ child' = child
    BY <1>1, <1>2, <1>14 DEF Spawn, PAt, PGoes, Types, ProducerType
  <2> QED BY <1>3, <2>1
<1>15. CASE ChildOpen(p)
  <2>1. child[p].st = "run" /\ ppc' = ppc /\ walk' = walk /\ child'[p].st = "run"
    BY <1>1, <1>2, <1>15 DEF ChildOpen, Types, ProducerType
  <2>2. staging' \in Trees
    <3> DEFINE t == IF Exists(staging) THEN staging ELSE Empty(p)
               f == NextFile(p)
    <3>1. f \in Files
      <4>1. child[p].done # Files /\ child[p].done \subseteq Files
        BY <1>15 DEF ChildOpen, Types, ProducerType
      <4> QED BY <4>1 DEF NextFile
    <3>2. t \in Trees
      BY <1>2, EmptyTree, TreeExists
    <3>3. staging' = [t EXCEPT !.files[f] = "part", !.dirs = @ \cup {f[1]}]
      BY <1>15 DEF ChildOpen
    <3> HIDE DEF t, f
    <3>4. f[1] \in LayerSet
      BY <3>1 DEF Files
    <3> QED BY <3>1, <3>2, <3>3, <3>4 DEF Trees
  <2>3. Exists(staging')
    BY <1>2, <2>2, TreeExists, TreeFields
  <2>4. ppc[p] \in {"lease_child", "wait", "clean", "exit", "failed", "killed"}
    BY <1>2, <1>3, <2>1 DEF ProducerPcs, Removing, ChildInv, Barren
  <2> QED BY <1>3, <2>1, <2>3, <2>4
<1>16. CASE ChildWrite(p)
  <2>1. PICK o \in child[p].open : /\ child[p].st = "run" /\ ppc' = ppc /\ walk' = walk
                                   /\ child' = [child EXCEPT ![p].open = {}, ![p].done = @ \cup {o[1]}]
                                   /\ staging' = staging \/ staging' = Written(staging, o[1], o[2])
    BY <1>16 DEF ChildWrite
  <2>2. o[1] \in Files /\ child'[p].st = "run"
    BY <2>1 DEF Opened, Types, ProducerType
  <2>3. Exists(staging') <=> Exists(staging)
    <3>1. CASE staging' = staging
      BY <3>1
    <3>2. CASE staging' = Written(staging, o[1], o[2])
      <4>1. staging' \in {NoTree} \cup Trees /\ staging'.by = staging.by
        BY <1>2, <2>2, <3>2, WrittenTree
      <4> QED BY <1>2, <4>1, TreeExists
    <3> QED BY <2>1, <3>1, <3>2
  <2>4. ppc[p] \in {"lease_child", "wait", "clean", "exit", "failed", "killed"}
    BY <1>2, <1>3, <2>1 DEF ProducerPcs, Removing, ChildInv, Barren
  <2> QED BY <1>3, <2>1, <2>2, <2>3, <2>4
<1>17. CASE ChildExit(p)
  <2>1. /\ child[p].st = "run" /\ ppc' = ppc /\ walk' = walk /\ staging' = staging
        /\ child'[p].st = "exited"
    BY <1>17 DEF ChildExit, PAt, Types, ProducerType
  <2>2. ppc[p] \in {"lease_child", "wait", "clean", "exit", "failed", "killed"}
    BY <1>2, <1>3, <2>1 DEF ProducerPcs, Removing, ChildInv, Barren
  <2> QED BY <1>3, <2>1, <2>2
<1>18. CASE Wait(p)
  <2>1. /\ ppc[p] = "wait" /\ walk' = walk /\ staging' = staging /\ child'[p].st = "gone"
        /\ ppc'[p] \in {"publish", "clean"}
    BY <1>2, <1>18 DEF Wait, PAt, PGoes, Types, ProducerType
  <2> QED BY <1>3, <2>1
<1>19. CASE Unlease(p)
  <2>1. Exists(staging) /\ staging \in Trees /\ ppc[p] = "publish"
    BY <1>2, <1>3, <1>19, TreeExists DEF Unlease, PAt
  <2>2. staging' = [staging EXCEPT !.lease = NoLease] /\ child' = child /\ walk' = walk /\ ppc'[p] = "scan"
    BY <1>2, <1>19, <2>1 DEF Unlease, PGoes
  <2>3. staging' \in Trees
    <3>1. NoLease \in Leases
      BY DEF Leases
    <3> QED BY <2>1, <2>2, <3>1, TreeChanges
  <2>4. Exists(staging')
    BY <1>2, <2>3, TreeExists, TreeFields
  <2> QED BY <1>3, <2>1, <2>2, <2>4
<1>20. CASE Scan(p)
  <2>1. /\ ppc[p] = "scan" /\ child' = child /\ walk' = walk /\ child[p].st = "gone"
        /\ \/ ppc'[p] = "clean" /\ staging' = staging
           \/ ppc'[p] = "rename"
    BY <1>2, <1>20 DEF Scan, PAt, PGoes, ChildInv, Barren
  <2>2. Exists(staging')
    <3>1. \/ staging' = staging
          \/ Exists(staging) /\ \E m : staging' = [staging EXCEPT !.manifest = m]
      BY <1>20 DEF Scan
    <3>2. CASE staging' = staging
      BY <1>3, <2>1, <3>2
    <3>3. ASSUME Exists(staging), NEW m, staging' = [staging EXCEPT !.manifest = m] PROVE Exists(staging')
      <4>1. staging \in Trees /\ staging.by \in Producers
        BY <1>2, <3>3, TreeExists, TreeFields
      <4>2. staging'.by = staging.by
        BY <3>3, <4>1 DEF Trees
      <4> QED BY <1>2, <4>1, <4>2, SetupFacts DEF Exists, NoTree
    <3> QED BY <3>1, <3>2, <3>3
  <2> QED BY <1>3, <2>1, <2>2
<1>21. CASE Rename(p)
  <2>1. /\ ppc[p] = "rename" /\ child' = child /\ walk' = walk /\ child[p].st = "gone"
        /\ \/ ppc'[p] = "clean" /\ staging' = staging
           \/ ppc'[p] = "done" /\ staging' = NoTree
    BY <1>2, <1>21 DEF Rename, PAt, PGoes, ChildInv, Barren
  <2> QED BY <1>3, <1>5, <2>1
<1>22. CASE KillProducer(p)
  <2>1. ppc'[p] = "killed"
    BY <1>2, <1>22 DEF KillProducer, PGoes
  <2> QED BY <2>1
<1> QED BY <1>7, <1>8, <1>6, <1>9, <1>10, <1>11, <1>12, <1>13, <1>14, <1>15, <1>16, <1>17, <1>18, <1>19,
           <1>20, <1>21, <1>22 DEF Produce

-----------------------------------------------------------------------------
(* What the steps of a consumer do.                                        *)

\* The other consumers keep what they have.
OnlyFor(c) ==
    \A d \in Consumers \ {c} :
        /\ cpc'[d] = cpc[d] /\ mem'[d] = mem[d] /\ at'[d] = at[d] /\ closed'[d] = closed[d]
        /\ back'[d] = back[d] /\ loaded'[d] = loaded[d] /\ (d \in cut' <=> d \in cut)
\* The published tree only loses, and gets no manifest but the consumer's own.
Shrinks(c) ==
    /\ ready' \in {NoTree} \cup Trees
    /\ Exists(ready') =>
         /\ Exists(ready) /\ ready'.by = ready.by
         /\ ready'.manifest \in {NoManifest, ready.manifest, mem[c]}
         /\ \A f \in Files : ready.files[f] = "none" => ready'.files[f] = "none"
\* The consumer reads the manifest of the published tree, or keeps its own.
Reads(c) ==
    \/ mem'[c] = mem[c]
    \/ mem[c] # NoManifest /\ mem'[c] # NoManifest /\ mem'[c].by = mem[c].by
    \/ Exists(ready) /\ ready.manifest # NoManifest /\ mem'[c] = ready.manifest /\ mem[c] = NoManifest
\* It passes a file only by deleting it, and ends a cleanup only when all are gone.
Deletes(c) ==
    /\ \A f \in Files : Passed(c, f)' =>
         \/ Passed(c, f)
         \/ Exists(ready) /\ ready.files[f] # "none" /\ Exists(ready') /\ ready'.files[f] = "none"
    /\ Cleaned(c)' =>
         \/ Cleaned(c)
         \/ /\ mem'[c] = mem[c]
            /\ Exists(ready') /\ ready.by = mem[c].by => \A f \in Files : ready'.files[f] = "none"
Fits(c) == Place(c, cpc[c]) /\ Place(c, back[c]) /\ Recorded(c) /\ Closes(c)
Use(c) ==
    /\ UNCHANGED <<staging, producing>>
    /\ ConsumerType' /\ OnlyFor(c) /\ Fits(c)'
    /\ Shrinks(c) /\ Reads(c) /\ Deletes(c)

\* A consumer that has passed a file has opened a tree.
LEMMA PassedOpened ==
    ASSUME Types, RecordInv, NEW c \in Consumers, NEW f \in Files, Passed(c, f) \/ Cleaned(c)
    PROVE  mem[c] # NoManifest /\ mem[c].by \in Producers
<1>1. f[1] >= 1 /\ f[2] >= 1 /\ f[1] \in Int /\ f[2] \in Int
  BY SetupFacts DEF Files, LayerSet, Types
<1>2. mem[c] # NoManifest
  BY <1>1 DEF RecordInv, Recorded, Passed, Cleaned
<1> QED BY <1>2 DEF Types, ConsumerType, Manifests

\* Such a step keeps the invariant.
LEMMA UseKeeps ==
    ASSUME EphemeralInv, NEW c \in Consumers, Use(c), UNCHANGED setup
    PROVE  EphemeralInv'
<1>1. /\ setup \in Setups /\ staging \in {NoTree} \cup Trees /\ ready \in {NoTree} \cup Trees
      /\ mem \in [Consumers -> {NoManifest} \cup Manifests]
  BY DEF EphemeralInv, Types, TreeType, ConsumerType
<1>2. /\ Producers' = Producers /\ Consumers' = Consumers /\ Files' = Files /\ LayerSet' = LayerSet
      /\ Layers' = Layers /\ Parts' = Parts /\ Trees' = Trees /\ Opened' = Opened /\ Names' = Names
      /\ staging' = staging /\ ppc' = ppc /\ child' = child /\ walk' = walk
  BY SetupStays DEF Use, producing
<1>3. Types'
  BY <1>1, <1>2 DEF EphemeralInv, Types, TreeType, ProducerType, Use, Shrinks
<1>4. ChildInv' /\ SoleInv'
  BY <1>2 DEF EphemeralInv, ChildInv, Barren, SoleInv, OneProducer, Entries, Empty
<1>5. ManifestInv'
  <2>1. /\ Exists(staging) /\ staging.manifest # NoManifest => child[staging.manifest.by].st = "gone"
        /\ Exists(ready) /\ ready.manifest # NoManifest =>
             child[ready.manifest.by].st = "gone" /\ staging.by # ready.manifest.by
        /\ \A d \in Consumers : mem[d] # NoManifest => child[mem[d].by].st = "gone" /\ staging.by # mem[d].by
    BY DEF EphemeralInv, ManifestInv, Barren
  <2>2. Exists(ready') /\ ready'.manifest # NoManifest =>
             child[ready'.manifest.by].st = "gone" /\ staging.by # ready'.manifest.by
    BY <2>1 DEF Use, Shrinks
  <2>3. \A d \in Consumers : mem'[d] # NoManifest => child[mem'[d].by].st = "gone" /\ staging.by # mem'[d].by
    BY <2>1 DEF Use, Reads, OnlyFor
  <2> QED BY <1>2, <2>1, <2>2, <2>3 DEF ManifestInv, Barren
<1>6. Locals'
  <2>1. \A d \in Consumers : Fits(d)
    BY DEF EphemeralInv, Locals, PlaceInv, RecordInv, CloseInv, Fits
  <2>2. ASSUME NEW d \in Consumers \ {c} PROVE Fits(d)'
    <3>1. /\ cpc'[d] = cpc[d] /\ mem'[d] = mem[d] /\ at'[d] = at[d] /\ closed'[d] = closed[d]
          /\ back'[d] = back[d] /\ loaded'[d] = loaded[d] /\ (d \in cut' <=> d \in cut)
      BY DEF Use, OnlyFor
    <3>2. \A x : Place(d, x)' <=> Place(d, x)
      BY <1>2, <3>1 DEF Place, Layer, LoadedTo
    <3>3. Recorded(d)' /\ Closes(d)'
      BY <1>2, <2>1, <3>1 DEF Fits, Recorded, Closes, Layer
    <3> QED BY <2>1, <3>1, <3>2, <3>3 DEF Fits
  <2>3. \A d \in Consumers : Fits(d)'
    BY <2>2 DEF Use
  <2> QED BY <1>2, <2>3 DEF Fits, Locals, PlaceInv, RecordInv, CloseInv
<1>7. \A d \in Consumers \ {c} : /\ \A f \in Files : Passed(d, f)' <=> Passed(d, f)
                                 /\ Cleaned(d)' <=> Cleaned(d)
  BY <1>2 DEF Use, OnlyFor, Passed, Cleaned, Layer
<1>8. \A f \in Files : Exists(ready') /\ ready.files[f] = "none" => ready'.files[f] = "none"
  BY DEF Use, Shrinks
<1>9. FileInv'
  <2>1. SUFFICES ASSUME NEW d \in Consumers, mem'[d] # NoManifest, ready'.by = mem'[d].by, NEW f \in Files,
                        Passed(d, f)' \/ Cleaned(d)'
                 PROVE  ready'.files[f] = "none"
    BY <1>2 DEF FileInv, Present
  <2>2. ready'.by \in Producers
    BY <1>2, <1>3, <2>1 DEF Types, ConsumerType, Manifests
  <2>3. Exists(ready')
    BY <1>1, <2>2, TreeExists, SetupFacts DEF Exists
  <2>4. Exists(ready) /\ ready'.by = ready.by
    BY <2>3 DEF Use, Shrinks
  <2>5. ASSUME Passed(d, f) \/ Cleaned(d) PROVE ready'.files[f] = "none"
    <3>1. mem[d] # NoManifest
      BY <2>5, PassedOpened DEF EphemeralInv, Locals
    <3>2. mem'[d].by = mem[d].by
      BY <3>1 DEF Use, Reads, OnlyFor
    <3>3. ready.files[f] = "none"
      BY <2>1, <2>4, <2>5, <3>1, <3>2 DEF EphemeralInv, FileInv, Present
    <3> QED BY <1>8, <2>3, <3>3
  <2>6. CASE d # c
    BY <1>7, <2>1, <2>5, <2>6
  <2>7. CASE d = c
    <3>1. CASE Passed(d, f)'
      BY <2>5, <2>7, <3>1 DEF Use, Deletes
    <3>2. CASE Cleaned(d)' /\ ~ Cleaned(d)
      <4>1. mem'[c] = mem[c] /\ (Exists(ready') /\ ready.by = mem[c].by => ready'.files[f] = "none")
        BY <2>7, <3>2 DEF Use, Deletes
      <4> QED BY <2>1, <2>3, <2>4, <2>7, <4>1
    <3> QED BY <2>1, <2>5, <3>1, <3>2
  <2> QED BY <2>6, <2>7
<1>10. ExclusiveInv'
  <2>1. SUFFICES ASSUME OneProducer, NEW d \in Consumers, NEW e \in Consumers, d # e, NEW f \in Files,
                        Passed(d, f)', Passed(e, f)'
                 PROVE  FALSE
    BY <1>2 DEF ExclusiveInv, OneProducer
  <2>2. ~ (Passed(d, f) /\ Passed(e, f))
    BY <2>1 DEF EphemeralInv, ExclusiveInv
  <2>3. PICK g \in Consumers : g # c /\ Passed(g, f) /\ ~ Passed(c, f) /\ Passed(c, f)'
    BY <1>7, <2>1, <2>2
  <2>4. Exists(ready) /\ ready.files[f] # "none"
    BY <2>3 DEF Use, Deletes
  <2>5. mem[g] # NoManifest /\ mem[g].by \in Producers /\ ready.by \in Producers
    BY <1>1, <2>3, <2>4, PassedOpened, TreeExists DEF EphemeralInv, Locals
  <2>6. ready.by = mem[g].by
    BY <1>1, <2>1, <2>5, SoleProducer
  <2> QED BY <2>3, <2>4, <2>5, <2>6 DEF EphemeralInv, FileInv
<1> QED BY <1>3, <1>4, <1>5, <1>6, <1>9, <1>10 DEF EphemeralInv

-----------------------------------------------------------------------------
(* The steps of a consumer, one by one.                                    *)

\* Who is where it is, and what it has: the facts every case below uses.
LEMMA ConsumerFacts ==
    ASSUME EphemeralInv, NEW c \in Consumers
    PROVE  /\ setup \in Setups /\ ready \in {NoTree} \cup Trees /\ (Exists(ready) => ready \in Trees)
           /\ ConsumerType /\ Fits(c) /\ Layers \in Nat \ {0} /\ Parts \in Nat \ {0}
           /\ Layer(c) \in LayerSet /\ at[c].part \in 1 .. Parts + 1
           /\ cpc[c] \in Running \cup Cleaning \cup {"done"} => mem[c] # NoManifest
           /\ mem[c] # NoManifest => mem[c] \in Manifests
<1>1. /\ setup \in Setups /\ ready \in {NoTree} \cup Trees /\ ConsumerType
  BY DEF EphemeralInv, Types, TreeType
<1>2. Fits(c)
  BY DEF EphemeralInv, Locals, PlaceInv, RecordInv, CloseInv, Fits
<1>3. cpc[c] \in Running \cup Cleaning \cup {"done"} => mem[c] # NoManifest
  BY <1>2 DEF Fits, Recorded, Running, Cleaning
<1>4. Exists(ready) => ready \in Trees
  BY <1>1, TreeExists
<1>5. Layer(c) \in LayerSet /\ at[c].part \in 1 .. Parts + 1
  BY <1>1 DEF ConsumerType, Layer
<1> QED BY <1>1, <1>2, <1>3, <1>4, <1>5, SetupFacts DEF ConsumerType

\* A step that changes where a consumer is, whether its store is closed, and where
\* the handler returns to.
MovesTo(c, x, k, b, g) ==
    /\ UNCHANGED <<staging, producing, mem, loaded>>
    /\ x \in ConsumerPcs /\ k \in BOOLEAN /\ b \in Running \cup {"none", "failed"} /\ g \in Files \cup {NoFile}
    /\ cpc' = [cpc EXCEPT ![c] = x] /\ closed' = [closed EXCEPT ![c] = k] /\ back' = [back EXCEPT ![c] = b]
    /\ cut' = cut \/ cut' = cut \cup {c}
    /\ at' = [at EXCEPT ![c].found = g]
MayMove(c, x, k, b, g) ==
    /\ mem[c] # NoManifest \/ (x = "failed" /\ k = FALSE /\ b = "none")
    /\ x # "idle" /\ (x = "cleanup" => ~ k) /\ (x \in Cleaning \ {"cleanup"} => k)
    /\ x \in Running => b = "none"
    /\ x \in {"failed", "done"} /\ mem[c] # NoManifest /\ c \notin cut' => k
    /\ x = "clean_file" => g \in Files
\* What the consumer has read, loaded and passed is then the same.
LEMMA Moves ==
    ASSUME EphemeralInv, NEW c \in Consumers, UNCHANGED setup, NEW x, NEW k, NEW b, NEW g,
           MovesTo(c, x, k, b, g), MayMove(c, x, k, b, g), Place(c, x), Place(c, b), Shrinks(c),
           Cleaned(c)' => Cleaned(c) \/ (Exists(ready') /\ ready.by = mem[c].by =>
                                            \A f \in Files : ready'.files[f] = "none")
    PROVE  Use(c)
<1>1. /\ ConsumerType /\ Fits(c)
  BY ConsumerFacts
<1>2. /\ cpc'[c] = x /\ closed'[c] = k /\ back'[c] = b /\ mem' = mem /\ loaded' = loaded
      /\ at'[c].found = g /\ at'[c].layer = at[c].layer /\ at'[c].part = at[c].part
  BY <1>1 DEF ConsumerType, MovesTo
<1>3. /\ Producers' = Producers /\ Consumers' = Consumers /\ Files' = Files /\ LayerSet' = LayerSet
      /\ Layers' = Layers /\ Parts' = Parts /\ Manifests' = Manifests
  BY SetupStays
<1>4. ConsumerType'
  BY <1>1, <1>2, <1>3 DEF ConsumerType, MovesTo
<1>5. OnlyFor(c)
  BY <1>1 DEF OnlyFor, ConsumerType, MovesTo
<1>6. Place(c, x)' /\ Place(c, b)'
  BY <1>2, <1>3 DEF Place, Layer, LoadedTo
<1>7. Recorded(c)' /\ Closes(c)'
  BY <1>1, <1>2, <1>3 DEF Fits, Recorded, Closes, Layer, MayMove
<1>8. Fits(c)'
  BY <1>2, <1>6, <1>7 DEF Fits
<1>9. Reads(c) /\ Deletes(c)
  BY <1>2, <1>3 DEF Reads, Deletes, Passed, Layer
<1> QED BY <1>4, <1>5, <1>8, <1>9 DEF Use, MovesTo

\* The published tree as it was.
LEMMA ReadyStays ==
    ASSUME EphemeralInv, NEW c \in Consumers, ready' = ready
    PROVE  Shrinks(c)
BY ConsumerFacts DEF Shrinks

\* An exception: the consumer cleans up or has done so.
LEMMA RaisingUses ==
    ASSUME EphemeralInv, NEW c \in Consumers, UNCHANGED setup, Shrinks(c),
           cpc[c] \in Running, Raises(c), UNCHANGED <<staging, producing, at, store, flow>>
    PROVE  Use(c)
<1>1. /\ ConsumerType /\ Fits(c) /\ mem[c] # NoManifest
  BY ConsumerFacts
<1> DEFINE x == IF closed[c] THEN "failed" ELSE "cleanup"
<1>2. /\ cpc' = [cpc EXCEPT ![c] = x] /\ closed' = [closed EXCEPT ![c] = closed[c]]
      /\ back' = [back EXCEPT ![c] = "none"] /\ cut' = cut /\ mem' = mem /\ loaded' = loaded
      /\ at' = [at EXCEPT ![c].found = at[c].found] /\ closed[c] \in BOOLEAN
      /\ at[c].found \in Files \cup {NoFile}
  BY <1>1 DEF Raises, Goes, store, flow, ConsumerType, Fits, Closes
<1>3. Place(c, x) /\ Place(c, "none")
  BY DEF Place, Running
<1>4. Cleaned(c)' => Cleaned(c)
  BY <1>1, <1>2 DEF Cleaned, ConsumerType, Running
<1>5. x \in ConsumerPcs /\ x # "idle" /\ x \notin Running /\ x \notin Cleaning \ {"cleanup"}
  BY DEF ConsumerPcs, Cleaning, Running
<1>7. MovesTo(c, x, closed[c], "none", at[c].found)
  BY <1>2, <1>5 DEF MovesTo
<1>8. MayMove(c, x, closed[c], "none", at[c].found)
  BY <1>1, <1>5 DEF MayMove
<1> HIDE DEF x
<1> QED BY <1>3, <1>4, <1>7, <1>8, Moves

\* In most cases the published tree stays as it was.
LEMMA RaiseUses ==
    ASSUME EphemeralInv, NEW c \in Consumers, UNCHANGED setup,
           cpc[c] \in Running, Raises(c), UNCHANGED <<staging, producing, ready, at, store, flow>>
    PROVE  Use(c)
BY ReadyStays, RaisingUses

\* A step of a consumer at work, which reads, loads, writes down or passes something.
Advance(c, x, m, a, v) ==
    /\ UNCHANGED <<staging, producing, closed, flow>>
    /\ x \in Running /\ m \in Manifests
    /\ a \in [layer : LayerSet, part : 1 .. Parts + 1, found : Files \cup {NoFile}]
    /\ v \in [LayerSet -> Producers \cup {Nobody}]
    /\ cpc' = [cpc EXCEPT ![c] = x] /\ mem' = [mem EXCEPT ![c] = m]
    /\ at' = [at EXCEPT ![c] = a] /\ loaded' = [loaded EXCEPT ![c] = v]
LEMMA Advances ==
    ASSUME EphemeralInv, NEW c \in Consumers, UNCHANGED setup, NEW x, NEW m, NEW a, NEW v,
           Advance(c, x, m, a, v), cpc[c] \in Running \cup {"idle"}, Place(c, x)', Recorded(c)',
           Shrinks(c), Reads(c),
           \A f \in Files : Passed(c, f)' =>
               \/ Passed(c, f)
               \/ Exists(ready) /\ ready.files[f] # "none" /\ Exists(ready') /\ ready'.files[f] = "none"
    PROVE  Use(c)
<1>1. ConsumerType /\ Fits(c)
  BY ConsumerFacts
<1>2. /\ cpc'[c] = x /\ mem'[c] = m /\ at'[c] = a /\ loaded'[c] = v
      /\ closed' = closed /\ back' = back /\ cut' = cut
      /\ a \in [layer : LayerSet, part : 1 .. Parts + 1, found : Files \cup {NoFile}]
  BY <1>1 DEF ConsumerType, Advance, flow
<1>3. /\ Producers' = Producers /\ Consumers' = Consumers /\ Files' = Files /\ LayerSet' = LayerSet
      /\ Layers' = Layers /\ Parts' = Parts /\ Manifests' = Manifests
  BY SetupStays
<1>4. ConsumerType'
  <2>1. x \in ConsumerPcs
    BY DEF Advance, ConsumerPcs
  <2>2. cpc' \in [Consumers -> ConsumerPcs] /\ mem' \in [Consumers -> {NoManifest} \cup Manifests]
    BY <1>1, <2>1 DEF ConsumerType, Advance
  <2>3. loaded' \in [Consumers -> [LayerSet -> Producers \cup {Nobody}]]
    BY <1>1 DEF ConsumerType, Advance
  <2>4. at' \in [Consumers -> [layer : LayerSet, part : 1 .. Parts + 1, found : Files \cup {NoFile}]]
    BY <1>1, <1>2 DEF ConsumerType, Advance
  <2> QED BY <1>1, <1>2, <1>3, <2>2, <2>3, <2>4 DEF ConsumerType
<1>5. OnlyFor(c)
  BY <1>1, <1>2 DEF OnlyFor, ConsumerType, Advance
<1>6. back[c] = "none"
  BY <1>1, ConsumerFacts DEF Fits, Closes, Recorded, Running
<1>7. Place(c, back[c])'
  BY <1>2, <1>6 DEF Place, Running
<1>8. Closes(c)'
  BY <1>2, <1>6 DEF Closes, Running, Cleaning, Advance
<1>9. Fits(c)'
  BY <1>2, <1>7, <1>8 DEF Fits
<1>10. Cleaned(c)' => Cleaned(c)
  BY <1>2 DEF Cleaned, Running
<1>11. Deletes(c)
  BY <1>10 DEF Deletes
<1> QED BY <1>4, <1>5, <1>9, <1>11 DEF Use, Advance

\* Opening the directory: nothing has been passed yet.
LEMMA OpenUses ==
    ASSUME EphemeralInv, NEW c \in Consumers, UNCHANGED setup, Open(c)
    PROVE  Use(c)
<1>1. ConsumerType /\ Fits(c) /\ cpc[c] = "idle" /\ ready' = ready
  BY ConsumerFacts DEF Open, At
<1>2. /\ mem[c] = NoManifest /\ Layer(c) = 1 /\ at[c].part = 1 /\ ~ closed[c] /\ back[c] = "none"
  BY <1>1 DEF Fits, Recorded
<1>3. /\ Files' = Files /\ LayerSet' = LayerSet /\ Layers' = Layers /\ Parts' = Parts
  BY SetupStays
<1>4. Shrinks(c)
  BY <1>1, ReadyStays
<1>5. CASE CanOpen
  <2> DEFINE m == ready.manifest
  <2>1. m \in Manifests /\ Exists(ready) /\ \A l \in LayerSet : m.state[l] = "ready"
    BY <1>5, ConsumerFacts, TreeFields DEF CanOpen
  <2>2. mem' = [mem EXCEPT ![c] = m] /\ m # NoManifest
    BY <1>5, <2>1, ManifestExists DEF Open
  <2> HIDE DEF m
  <2>3. Advance(c, "load", m, at[c], loaded[c])
    BY <1>1, <1>5, <2>1, <2>2 DEF Open, Goes, Advance, ConsumerType, Running, Layer
  <2>4. mem'[c] = m /\ at'[c] = at[c] /\ at' = at /\ cpc'[c] = "load" /\ closed' = closed /\ back' = back
    BY <1>1, <1>5, <2>2 DEF Open, Goes, ConsumerType, flow
  <2>5. Layer(c) \in LayerSet /\ \A l \in LayerSet : ~ l <= Layer(c) - 1
    BY <1>2, <1>3, ConsumerFacts DEF LayerSet
  <2>6. Place(c, "load")'
    BY <1>2, <1>3, <2>1, <2>4, <2>5 DEF Place, Layer, LoadedTo, Running
  <2>7. Recorded(c)'
    BY <1>2, <1>3, <2>1, <2>2, <2>4 DEF Recorded, Layer
  <2>8. \A f \in Files : Passed(c, f)' <=> Passed(c, f)
    BY <2>4 DEF Passed, Layer
  <2>9. Reads(c)
    BY <1>2, <2>1, <2>2, <2>4 DEF Reads, m
  <2> QED BY <1>1, <1>4, <2>3, <2>6, <2>7, <2>8, <2>9, Advances
<1>6. CASE ~ CanOpen
  <2>1. MovesTo(c, "failed", FALSE, "none", at[c].found)
    <3>1. closed' = [closed EXCEPT ![c] = FALSE] /\ back' = [back EXCEPT ![c] = "none"] /\ at' = [at EXCEPT ![c].found = at[c].found]
      BY <1>1, <1>2, <1>6 DEF Open, ConsumerType, flow
    <3> QED BY <1>1, <1>6, <3>1 DEF Open, Goes, MovesTo, ConsumerPcs, ConsumerType, flow
  <2>2. MayMove(c, "failed", FALSE, "none", at[c].found)
    BY <1>2 DEF MayMove, Running, Cleaning
  <2>3. Place(c, "failed") /\ Place(c, "none")
    BY DEF Place, Running
  <2>4. Cleaned(c)' => Cleaned(c)
    BY <1>2, <1>6 DEF Open, Cleaned
  <2> QED BY <1>4, <2>1, <2>2, <2>3, <2>4, Moves
<1> QED BY <1>5, <1>6

\* Loading a layer: somebody has made the tree it is loaded from.
LEMMA LoadUses ==
    ASSUME EphemeralInv, NEW c \in Consumers, UNCHANGED setup, Load(c)
    PROVE  Use(c)
<1>1. /\ ConsumerType /\ Fits(c) /\ cpc[c] = "load" /\ ready' = ready
      /\ mem[c] # NoManifest /\ mem[c] \in Manifests
  BY ConsumerFacts DEF Load, At, Running
<1>2. CASE ~ Loadable(Layer(c))
  BY <1>1, <1>2, RaiseUses DEF Load, store, flow, Running
<1>3. CASE Loadable(Layer(c))
  <2> DEFINE v == [loaded[c] EXCEPT ![Layer(c)] = ready.by]
  <2>1. ready.by \in Producers /\ ready.by # Nobody
    BY <1>3, ConsumerFacts, TreeFields, SetupFacts DEF Loadable, Nobody
  <2>2. loaded' = [loaded EXCEPT ![c] = v] /\ mem' = mem /\ at' = at /\ closed' = closed /\ flow' = flow
    BY <1>1, <1>3 DEF Load, ConsumerType
  <2>3. v \in [LayerSet -> Producers \cup {Nobody}]
    BY <1>1, <2>1, ConsumerFacts DEF ConsumerType
  <2>4. Advance(c, "consume", mem[c], at[c], v)
    BY <1>1, <1>3, <2>2, <2>3 DEF Load, Goes, Advance, ConsumerType, Running
  <2>5. loaded'[c] = v /\ cpc'[c] = "consume" /\ back' = back
    BY <1>1, <1>3, <2>2 DEF Load, Goes, ConsumerType, flow
  <2>6. Place(c, "consume")'
    <3>1. /\ Files' = Files /\ LayerSet' = LayerSet /\ Layers' = Layers /\ Parts' = Parts
      BY SetupStays
    <3>2. Place(c, "load")
      BY <1>1 DEF Fits
    <3>3. \A l \in LayerSet : l <= Layer(c) => v[l] # Nobody
      <4>1. \A l \in LayerSet : l \in Int /\ (l <= Layer(c) => l <= Layer(c) - 1 \/ l = Layer(c))
        BY ConsumerFacts DEF LayerSet
      <4> QED BY <1>1, <2>1, <3>2, <4>1, ConsumerFacts DEF Place, LoadedTo, ConsumerType
    <3>4. LoadedTo(c, Layer(c))'
      BY <2>2, <2>5, <3>1, <3>3 DEF LoadedTo, Layer
    <3> QED BY <2>2, <3>1, <3>2, <3>4 DEF Place, Layer, Running
  <2>7. Recorded(c)'
    BY <1>1, <2>2, <2>5, SetupStays DEF Recorded, Layer, Fits
  <2>8. \A f \in Files : Passed(c, f)' <=> Passed(c, f)
    BY <2>2 DEF Passed, Layer
  <2>9. Reads(c) /\ Shrinks(c)
    BY <1>1, <2>2, ReadyStays DEF Reads
  <2> HIDE DEF v
  <2> QED BY <1>1, <2>4, <2>6, <2>7, <2>8, <2>9, Advances DEF Running
<1> QED BY <1>2, <1>3

\* What a manifest is in which one layer has got another state.
LEMMA StateChanges ==
    ASSUME NEW m \in Manifests, NEW l \in LayerSet, NEW s \in States
    PROVE  LET n == [m EXCEPT !.state[l] = s] IN
           /\ n \in Manifests /\ n.by = m.by /\ n.state[l] = s
           /\ \A k \in LayerSet : k # l => n.state[k] = m.state[k]
BY DEF Manifests

\* Writing down that the layer is being consumed.
LEMMA ConsumeUses ==
    ASSUME EphemeralInv, NEW c \in Consumers, UNCHANGED setup, Consume(c)
    PROVE  Use(c)
<1>1. /\ ConsumerType /\ Fits(c) /\ cpc[c] = "consume" /\ ready' = ready
      /\ mem[c] # NoManifest /\ mem[c] \in Manifests
  BY ConsumerFacts DEF Consume, At, Running
<1>2. CASE ~ MayConsume(c)
  BY <1>1, <1>2, RaiseUses DEF Consume, store, flow, Running
<1>3. CASE MayConsume(c)
  <2> DEFINE m == [mem[c] EXCEPT !.state[Layer(c)] = "consuming"]
  <2>1. mem' = [mem EXCEPT ![c] = m] /\ at' = at /\ loaded' = loaded /\ closed' = closed /\ flow' = flow
    BY <1>1, <1>3 DEF Consume, ConsumerType
  <2>2. /\ m \in Manifests /\ m.by = mem[c].by /\ m.state[Layer(c)] = "consuming"
        /\ \A k \in LayerSet : k # Layer(c) => m.state[k] = mem[c].state[k]
    <3>1. "consuming" \in States
      BY DEF States
    <3> QED BY <1>1, <3>1, ConsumerFacts, StateChanges
  <2> HIDE DEF m
  <2>3. Advance(c, "temp", m, at[c], loaded[c])
    BY <1>1, <1>3, <2>1, <2>2 DEF Consume, Goes, Advance, ConsumerType, Running
  <2>4. mem'[c] = m /\ m # NoManifest /\ cpc'[c] = "temp"
    BY <1>1, <1>3, <2>1, <2>2, ManifestExists DEF Consume, Goes, ConsumerType
  <2>5. /\ Files' = Files /\ LayerSet' = LayerSet /\ Layers' = Layers /\ Parts' = Parts
    BY SetupStays
  <2>6. Place(c, "temp")'
    <3>1. Place(c, "consume")
      BY <1>1 DEF Fits
    <3>2. LoadedTo(c, Layer(c))'
      BY <2>1, <2>5, <3>1 DEF Place, LoadedTo, Layer, Running
    <3> QED BY <2>1, <2>2, <2>4, <2>5, <3>1, <3>2 DEF Place, Layer, Running
  <2>7. Recorded(c)'
    <3>1. Layer(c)' = Layer(c) /\ at'[c].part = at[c].part /\ Layer(c) \in LayerSet
      BY <2>1, ConsumerFacts DEF Layer
    <3>2. \A l \in LayerSet : l > Layer(c) => l # Layer(c)
      BY <3>1 DEF LayerSet
    <3> QED BY <1>1, <2>2, <2>4, <2>5, <3>1, <3>2 DEF Recorded, Fits
  <2>8. \A f \in Files : Passed(c, f)' <=> Passed(c, f)
    BY <2>1 DEF Passed, Layer
  <2>9. Reads(c) /\ Shrinks(c)
    BY <1>1, <2>2, <2>4, ReadyStays DEF Reads
  <2> QED BY <1>1, <2>3, <2>6, <2>7, <2>8, <2>9, Advances DEF Running
<1> QED BY <1>2, <1>3

\* Opening the temporary file.
LEMMA TempUses ==
    ASSUME EphemeralInv, NEW c \in Consumers, UNCHANGED setup, WriteTemp(c)
    PROVE  Use(c)
<1>1. /\ ConsumerType /\ Fits(c) /\ cpc[c] = "temp" /\ mem[c] # NoManifest
  BY ConsumerFacts DEF WriteTemp, At, Running
<1>2. Shrinks(c)
  <2>1. CASE ready' = ready
    BY <2>1, ReadyStays
  <2>2. CASE Exists(ready) /\ ready' = [ready EXCEPT !.temps = @ \cup {c}]
    <3>1. ready \in Trees
      BY <2>2, ConsumerFacts
    <3>2. ready.temps \cup {c} \in SUBSET Consumers
      BY <3>1, TreeFields
    <3>3. /\ ready' \in Trees /\ ready'.by = ready.by /\ ready'.manifest = ready.manifest
          /\ ready'.files = ready.files
      BY <2>2, <3>1, <3>2, TreeChanges
    <3> QED BY <2>2, <3>3 DEF Shrinks
  <2> QED BY <2>1, <2>2 DEF WriteTemp
<1>3. CASE Raises(c)
  BY <1>1, <1>3, <1>2, RaisingUses DEF WriteTemp, Running
<1>4. CASE Goes(c, "replace")
  <2>1. back[c] = "none"
    BY <1>1 DEF Fits, Closes, Running
  <2>2. MovesTo(c, "replace", closed[c], "none", at[c].found)
    <3>1. /\ closed' = [closed EXCEPT ![c] = closed[c]] /\ back' = [back EXCEPT ![c] = "none"]
          /\ at' = [at EXCEPT ![c].found = at[c].found]
      BY <1>1, <1>4, <2>1 DEF WriteTemp, ConsumerType, store, flow
    <3> QED BY <1>1, <1>4, <3>1 DEF WriteTemp, Goes, MovesTo, ConsumerPcs, ConsumerType, Running, store, flow
  <2>3. MayMove(c, "replace", closed[c], "none", at[c].found)
    BY <1>1 DEF MayMove, Running, Cleaning
  <2>4. Place(c, "replace") /\ Place(c, "none")
    <3>1. Place(c, "temp")
      BY <1>1 DEF Fits
    <3>2. Place(c, "replace")
      BY <3>1 DEF Place, Running
    <3> QED BY <3>2 DEF Place, Running
  <2>5. Cleaned(c)' => Cleaned(c)
    BY <1>1, <1>4 DEF WriteTemp, Cleaned, store, flow
  <2> QED BY <1>2, <2>2, <2>3, <2>4, <2>5, Moves
<1> QED BY <1>3, <1>4 DEF WriteTemp

\* Renaming it: the layer's files are next, or the next layer, or the end.
LEMMA ReplaceUses ==
    ASSUME EphemeralInv, NEW c \in Consumers, UNCHANGED setup, Replace(c)
    PROVE  Use(c)
<1>1. /\ ConsumerType /\ Fits(c) /\ cpc[c] = "replace" /\ mem[c] # NoManifest /\ mem[c] \in Manifests
      /\ Place(c, "replace")
  BY ConsumerFacts DEF Replace, At, Running, Fits
<1>2. CASE ~ (Exists(ready) /\ c \in ready.temps)
  BY <1>1, <1>2, RaiseUses DEF Replace, store, flow, Running
<1>3. CASE Exists(ready) /\ c \in ready.temps
  <2> DEFINE s == mem[c].state[Layer(c)]
  <2>1. Shrinks(c)
    <3>1. ready \in Trees /\ ready' = [ready EXCEPT !.temps = @ \ {c}, !.manifest = mem[c]]
      BY <1>3, ConsumerFacts DEF Replace
    <3>2. /\ ready' \in Trees /\ ready'.by = ready.by /\ ready'.manifest = mem[c]
          /\ ready'.files = ready.files
      BY <1>1, <3>1 DEF Trees, Manifests
    <3> QED BY <1>3, <3>2 DEF Shrinks
  <2>2. mem' = mem /\ loaded' = loaded /\ closed' = closed /\ flow' = flow /\ UNCHANGED <<staging, producing>>
    BY <1>3 DEF Replace, store
  <2>3. /\ mem' = [mem EXCEPT ![c] = mem[c]] /\ loaded' = [loaded EXCEPT ![c] = loaded[c]]
        /\ loaded[c] \in [LayerSet -> Producers \cup {Nobody}] /\ Reads(c)
    BY <1>1, <2>2 DEF ConsumerType, Reads
  <2>4. /\ Files' = Files /\ LayerSet' = LayerSet /\ Layers' = Layers /\ Parts' = Parts
    BY SetupStays
  <2>5. (s = "consumed" \/ (s = "consuming" /\ at[c].part = 1)) /\ LoadedTo(c, Layer(c))
    BY <1>1 DEF Place, Running
  <2>6. CASE s = "consuming" \/ (s = "consumed" /\ LastLayer(c))
    <3>0. PICK x : x = IF s = "consuming" THEN "unlink" ELSE "finish"
      OBVIOUS
    <3>1. cpc' = [cpc EXCEPT ![c] = x] /\ at' = at /\ at' = [at EXCEPT ![c] = at[c]]
      BY <1>1, <1>3, <2>6, <3>0 DEF Replace, Goes, ConsumerType
    <3>2. x \in {"unlink", "finish"} /\ x \in Running
      BY <3>0 DEF Running
    <3>3. Place(c, x)'
      <4>1. Layer(c)' = Layer(c) /\ mem'[c] = mem[c] /\ at'[c] = at[c] /\ LoadedTo(c, Layer(c))'
        BY <2>2, <2>4, <2>5, <3>1 DEF Layer, LoadedTo
      <4>2. 1 <= Parts
        BY ConsumerFacts
      <4>3. CASE s = "consuming"
        BY <2>4, <2>5, <3>0, <4>1, <4>2, <4>3 DEF Place
      <4>4. CASE s = "consumed" /\ LastLayer(c)
        BY <2>4, <3>0, <4>1, <4>4 DEF Place, LastLayer
      <4> QED BY <2>6, <4>3, <4>4
    <3>4. cpc'[c] = x
      BY <1>1, <3>1 DEF ConsumerType
    <3>5. Recorded(c)'
      BY <1>1, <2>2, <2>4, <3>1, <3>2, <3>4 DEF Recorded, Fits, Layer
    <3>6. \A f \in Files : Passed(c, f)' <=> Passed(c, f)
      BY <3>1 DEF Passed, Layer
    <3>7. Advance(c, x, mem[c], at[c], loaded[c])
      BY <1>1, <2>2, <2>3, <3>1, <3>2 DEF Advance, ConsumerType
    <3> QED BY <1>1, <2>1, <2>3, <3>3, <3>5, <3>6, <3>7, Advances DEF Running
  <2>7. CASE s = "consumed" /\ ~ LastLayer(c)
    <3> DEFINE a == [at[c] EXCEPT !.layer = Layer(c) + 1, !.part = 1]
    <3>1. cpc' = [cpc EXCEPT ![c] = "load"] /\ at' = [at EXCEPT ![c] = a]
      BY <1>1, <1>3, <2>7 DEF Replace, Goes, ConsumerType, Layer
    <3>2. Layer(c) + 1 \in LayerSet /\ 1 \in 1 .. Parts + 1
      BY <2>7, ConsumerFacts DEF LastLayer, LayerSet
    <3>3. a \in [layer : LayerSet, part : 1 .. Parts + 1, found : Files \cup {NoFile}]
      BY <1>1, <3>2 DEF ConsumerType
    <3>4. a.layer = Layer(c) + 1 /\ a.part = 1
      BY <1>1 DEF ConsumerType
    <3> HIDE DEF a
    <3>5. /\ cpc'[c] = "load" /\ mem'[c] = mem[c] /\ at'[c] = a /\ Layer(c)' = Layer(c) + 1
          /\ closed' = closed /\ back' = back
      BY <1>1, <2>2, <3>1, <3>4 DEF ConsumerType, Layer, flow
    <3>6. /\ \A l \in LayerSet : l \in Int /\ (l <= Layer(c) + 1 - 1 => l <= Layer(c))
          /\ Layer(c) \in Int /\ Layer(c) + 1 > Layer(c)
      BY ConsumerFacts DEF LayerSet
    <3>7. mem[c].state[Layer(c) + 1] = "ready"
      BY <1>1, <3>2, <3>6 DEF Fits, Recorded
    <3>8. Place(c, "load")'
      <4>1. \A l \in LayerSet : l <= Layer(c) + 1 - 1 => loaded'[c][l] # Nobody
        BY <2>2, <2>5, <3>6 DEF LoadedTo
      <4>2. LoadedTo(c, Layer(c) - 1)'
        <5>1. Layer(c)' - 1 = Layer(c) + 1 - 1
          BY <3>5, <3>6
        <5>2. \A l \in LayerSet' : l <= Layer(c)' - 1 => loaded'[c][l] # Nobody
          BY <2>4, <4>1, <5>1
        <5> QED BY <5>2 DEF LoadedTo
      <4> QED BY <3>4, <3>5, <3>7, <4>2 DEF Place, Running
    <3>9. Recorded(c)'
      <4>1. \A l \in LayerSet : /\ l > Layer(c) + 1 => l > Layer(c)
                                /\ l <= Layer(c) => l < Layer(c) + 1
        BY <3>6
      <4>2. \A l \in LayerSet : /\ l > Layer(c) + 1 => mem[c].state[l] = "ready"
                                /\ mem[c].state[l] = "consumed" => l < Layer(c) + 1
        BY <1>1, <3>6, <4>1 DEF Fits, Recorded
      <4> QED BY <1>1, <2>4, <3>5, <4>2 DEF Recorded
    <3>10. \A f \in Files : Passed(c, f)' => Passed(c, f)
      <4>1. at[c].part = Parts + 1
        BY <1>1, <2>7, <3>6, ConsumerFacts DEF Fits, Recorded
      <4> SUFFICES ASSUME NEW f \in Files, Passed(c, f)' PROVE Passed(c, f)
        OBVIOUS
      <4>2. f[1] \in LayerSet /\ f[2] \in 1 .. Parts /\ Layer(c) \in Int /\ Parts \in Nat
        BY ConsumerFacts, <3>6 DEF Files
      <4>3. f[1] < Layer(c) + 1 \/ (f[1] = Layer(c) + 1 /\ f[2] < 1)
        BY <3>4, <3>5 DEF Passed
      <4>4. f[1] <= Layer(c) /\ f[2] < Parts + 1
        BY <3>6, <4>2, <4>3
      <4> QED BY <3>6, <4>1, <4>2, <4>4 DEF Passed
    <3>11. Advance(c, "load", mem[c], a, loaded[c])
      BY <1>1, <2>2, <2>3, <3>1, <3>3 DEF Advance, Running
    <3> QED BY <1>1, <2>1, <2>3, <3>8, <3>9, <3>10, <3>11, Advances DEF Running
  <2> QED BY <2>5, <2>6, <2>7
<1> QED BY <1>2, <1>3

\* Deleting a file of the layer: one more is passed, and it was there.
LEMMA UnlinkUses ==
    ASSUME EphemeralInv, NEW c \in Consumers, UNCHANGED setup, Unlink(c)
    PROVE  Use(c)
<1>1. /\ ConsumerType /\ Fits(c) /\ cpc[c] = "unlink" /\ mem[c] # NoManifest /\ mem[c] \in Manifests
      /\ Place(c, "unlink")
  BY ConsumerFacts DEF Unlink, At, Running, Fits
<1> DEFINE g == <<Layer(c), at[c].part>>
<1>2. CASE Gone(g)
  BY <1>1, <1>2, RaiseUses DEF Unlink, PassOverMissing, store, flow, Running
<1>3. CASE ~ Gone(g)
  <2> DEFINE a == [at[c] EXCEPT !.part = at[c].part + 1]
  <2>0. PICK x : x = IF at[c].part = Parts THEN "rmdir" ELSE "unlink"
    OBVIOUS
  <2>1. /\ cpc' = [cpc EXCEPT ![c] = x] /\ at' = [at EXCEPT ![c] = a]
        /\ ready' = [ready EXCEPT !.files[g] = "none"] /\ Exists(ready) /\ ready.files[g] # "none"
    BY <1>1, <1>3, <2>0 DEF Unlink, Goes, ConsumerType, Gone
  <2>2. /\ mem' = mem /\ loaded' = loaded /\ closed' = closed /\ flow' = flow /\ UNCHANGED <<staging, producing>>
    BY DEF Unlink, store
  <2>3. /\ mem' = [mem EXCEPT ![c] = mem[c]] /\ loaded' = [loaded EXCEPT ![c] = loaded[c]]
        /\ loaded[c] \in [LayerSet -> Producers \cup {Nobody}] /\ Reads(c)
    BY <1>1, <2>2 DEF ConsumerType, Reads
  <2>4. /\ Files' = Files /\ LayerSet' = LayerSet /\ Layers' = Layers /\ Parts' = Parts
    BY SetupStays
  <2>5. /\ mem[c].state[Layer(c)] = "consuming" /\ at[c].part <= Parts /\ LoadedTo(c, Layer(c))
    BY <1>1 DEF Place, Running
  <2>6. /\ at[c].part \in 1 .. Parts /\ at[c].part + 1 \in 1 .. Parts + 1 /\ Parts \in Nat
        /\ Layer(c) \in LayerSet /\ \A l \in LayerSet : l \in Int
    BY <2>5, ConsumerFacts DEF LayerSet
  <2>7. g \in Files
    BY <2>6 DEF Files
  <2>8. a \in [layer : LayerSet, part : 1 .. Parts + 1, found : Files \cup {NoFile}]
    BY <1>1, <2>6 DEF ConsumerType
  <2>9. a.layer = Layer(c) /\ a.part = at[c].part + 1
    BY <1>1 DEF ConsumerType, Layer
  <2>10. x \in {"unlink", "rmdir"} /\ (x = "unlink" => at[c].part # Parts) /\ (x = "rmdir" => at[c].part = Parts)
    BY <2>0
  <2> HIDE DEF a
  <2>11. x \in Running
    BY <2>10 DEF Running
  <2>12. /\ cpc'[c] = x /\ mem'[c] = mem[c] /\ at'[c] = a /\ Layer(c)' = Layer(c)
         /\ closed' = closed /\ back' = back
    BY <1>1, <2>1, <2>2, <2>9 DEF ConsumerType, Layer, flow
  <2>13. ready' \in Trees /\ ready'.by = ready.by /\ ready'.manifest = ready.manifest
         /\ ready'.files = [ready.files EXCEPT ![g] = "none"] /\ ready.files \in [Files -> Contents]
    <3>1. ready \in Trees /\ "none" \in Contents
      BY <2>1, ConsumerFacts DEF Contents
    <3> HIDE DEF g
    <3> QED BY <2>1, <2>7, <3>1, TreeChanges, TreeFields
  <2>14. Shrinks(c)
    BY <2>1, <2>13 DEF Shrinks
  <2>15. Place(c, x)'
    <3>1. LoadedTo(c, Layer(c))'
      BY <2>2, <2>4, <2>5, <2>12 DEF LoadedTo
    <3>2. /\ x = "unlink" => at[c].part + 1 <= Parts
          /\ x = "rmdir" => at[c].part + 1 = Parts + 1
      BY <2>6, <2>10
    <3> QED BY <2>4, <2>5, <2>9, <2>10, <2>12, <3>1, <3>2 DEF Place
  <2>16. Recorded(c)'
    <3>1. \A l \in LayerSet : mem[c].state[l] = "consumed" => l < Layer(c)
      BY <1>1, <2>5 DEF Fits, Recorded
    <3> QED BY <1>1, <2>4, <2>10, <2>12, <3>1 DEF Fits, Recorded
  <2>17. ASSUME NEW f \in Files, Passed(c, f)'
         PROVE  \/ Passed(c, f)
                \/ Exists(ready) /\ ready.files[f] # "none" /\ Exists(ready') /\ ready'.files[f] = "none"
    <3>1. CASE f = g
      <4>1. ready.by \in Producers
        BY <2>1, ConsumerFacts, TreeFields
      <4>2. Exists(ready')
        BY <2>13, <4>1, SetupFacts, ConsumerFacts DEF Exists, NoTree
      <4> QED BY <2>1, <2>7, <2>13, <3>1, <4>2
    <3>2. CASE f # g
      <4>1. f[1] \in LayerSet /\ f[2] \in 1 .. Parts /\ f = <<f[1], f[2]>>
        BY DEF Files
      <4>2. f[1] < Layer(c) \/ (f[1] = Layer(c) /\ f[2] < at[c].part + 1)
        BY <2>9, <2>12, <2>17 DEF Passed
      <4>3. ~ (f[1] = Layer(c) /\ f[2] = at[c].part)
        BY <3>2, <4>1
      <4>4. f[2] < at[c].part + 1 => f[2] < at[c].part \/ f[2] = at[c].part
        BY <2>6, <4>1
      <4> QED BY <4>2, <4>3, <4>4 DEF Passed
    <3> QED BY <3>1, <3>2
  <2>18. Advance(c, x, mem[c], a, loaded[c])
    BY <1>1, <2>1, <2>2, <2>3, <2>8, <2>11 DEF Advance
  <2> QED BY <1>1, <2>3, <2>14, <2>15, <2>16, <2>17, <2>18, Advances DEF Running
<1> QED BY <1>2, <1>3

\* Removing the layer's directories: it is consumed, all its files being gone.
LEMMA DirsUses ==
    ASSUME EphemeralInv, NEW c \in Consumers, UNCHANGED setup, RemoveDirs(c)
    PROVE  Use(c)
<1>1. /\ ConsumerType /\ Fits(c) /\ cpc[c] = "rmdir" /\ mem[c] # NoManifest /\ mem[c] \in Manifests
      /\ Place(c, "rmdir")
  BY ConsumerFacts DEF RemoveDirs, At, Running, Fits
<1> DEFINE ok == /\ Exists(ready) /\ (Layer(c) \in ready.dirs \/ PassOverMissing)
                 /\ \A f \in FilesOf(Layer(c)) : Gone(f)
<1>2. CASE ~ ok
  BY <1>1, <1>2, RaiseUses DEF RemoveDirs, store, flow, Running
<1>3. CASE ok
  <2> DEFINE m == [mem[c] EXCEPT !.state[Layer(c)] = "consumed"]
  <2>1. /\ mem' = [mem EXCEPT ![c] = m] /\ at' = at /\ loaded' = loaded /\ closed' = closed /\ flow' = flow
        /\ ready' = [ready EXCEPT !.dirs = @ \ {Layer(c)}]
    BY <1>1, <1>3 DEF RemoveDirs, ConsumerType
  <2>2. /\ m \in Manifests /\ m.by = mem[c].by /\ m.state[Layer(c)] = "consumed"
        /\ \A k \in LayerSet : k # Layer(c) => m.state[k] = mem[c].state[k]
    <3>1. "consumed" \in States
      BY DEF States
    <3> QED BY <1>1, <3>1, ConsumerFacts, StateChanges
  <2> HIDE DEF m
  <2>3. Advance(c, "temp", m, at[c], loaded[c])
    BY <1>1, <1>3, <2>1, <2>2 DEF RemoveDirs, Goes, Advance, ConsumerType, Running
  <2>4. mem'[c] = m /\ m # NoManifest /\ cpc'[c] = "temp"
    BY <1>1, <1>3, <2>1, <2>2, ManifestExists DEF RemoveDirs, Goes, ConsumerType
  <2>5. /\ Files' = Files /\ LayerSet' = LayerSet /\ Layers' = Layers /\ Parts' = Parts
    BY SetupStays
  <2>6. at[c].part = Parts + 1 /\ LoadedTo(c, Layer(c))
    BY <1>1 DEF Place, Running
  <2>7. Place(c, "temp")'
    <3>1. LoadedTo(c, Layer(c))'
      BY <2>1, <2>5, <2>6 DEF LoadedTo, Layer
    <3> QED BY <2>1, <2>2, <2>4, <2>5, <3>1 DEF Place, Layer, Running
  <2>8. Recorded(c)'
    <3>1. Layer(c)' = Layer(c) /\ at'[c].part = at[c].part /\ Layer(c) \in LayerSet
      BY <2>1, ConsumerFacts DEF Layer
    <3>2. \A l \in LayerSet : l > Layer(c) => l # Layer(c)
      BY <3>1 DEF LayerSet
    <3> QED BY <1>1, <2>2, <2>4, <2>5, <2>6, <3>1, <3>2 DEF Recorded, Fits
  <2>9. \A f \in Files : Passed(c, f)' <=> Passed(c, f)
    BY <2>1 DEF Passed, Layer
  <2>10. Shrinks(c)
    <3>1. ready \in Trees /\ ready.dirs \ {Layer(c)} \in SUBSET LayerSet
      BY <1>3, ConsumerFacts, TreeFields
    <3>2. /\ ready' \in Trees /\ ready'.by = ready.by /\ ready'.manifest = ready.manifest
          /\ ready'.files = ready.files
      BY <2>1, <3>1, TreeChanges
    <3> QED BY <1>3, <3>2 DEF Shrinks
  <2>11. Reads(c)
    BY <1>1, <2>2, <2>4 DEF Reads
  <2> QED BY <1>1, <2>3, <2>7, <2>8, <2>9, <2>10, <2>11, Advances DEF Running
<1> QED BY <1>2, <1>3

\* The published tree without its manifest.
LEMMA ManifestGoes ==
    ASSUME EphemeralInv, NEW c \in Consumers,
           ready' = IF Exists(ready) THEN [ready EXCEPT !.manifest = NoManifest] ELSE ready
    PROVE  Shrinks(c)
<1>1. CASE Exists(ready)
  <2>1. ready \in Trees /\ ready' = [ready EXCEPT !.manifest = NoManifest]
    BY <1>1, ConsumerFacts
  <2>2. /\ ready' \in Trees /\ ready'.by = ready.by /\ ready'.manifest = NoManifest /\ ready'.files = ready.files
    BY <2>1 DEF Trees
  <2> QED BY <1>1, <2>2 DEF Shrinks
<1>2. CASE ~ Exists(ready)
  BY <1>2, ReadyStays
<1> QED BY <1>1, <1>2

\* Deleting the manifest.
LEMMA FinishManifestUses ==
    ASSUME EphemeralInv, NEW c \in Consumers, UNCHANGED setup, FinishManifest(c)
    PROVE  Use(c)
<1>1. /\ ConsumerType /\ Fits(c) /\ cpc[c] = "finish" /\ mem[c] # NoManifest
  BY ConsumerFacts DEF FinishManifest, At, Running
<1> DEFINE ok == (Exists(ready) /\ ready.manifest # NoManifest) \/ PassOverMissing
<1>2. CASE ~ ok
  BY <1>1, <1>2, RaiseUses DEF FinishManifest, store, flow, Running
<1>3. CASE ok
  <2>1. back[c] = "none" /\ Place(c, "finish")
    BY <1>1 DEF Fits, Closes, Running
  <2>2. MovesTo(c, "finish_root", closed[c], "none", at[c].found)
    <3>1. /\ closed' = [closed EXCEPT ![c] = closed[c]] /\ back' = [back EXCEPT ![c] = "none"]
          /\ at' = [at EXCEPT ![c].found = at[c].found]
      BY <1>1, <1>3, <2>1 DEF FinishManifest, ConsumerType, store, flow
    <3> QED BY <1>1, <1>3, <3>1 DEF FinishManifest, Goes, MovesTo, ConsumerPcs, ConsumerType, Running, store, flow
  <2>3. MayMove(c, "finish_root", closed[c], "none", at[c].found)
    BY <1>1 DEF MayMove, Running, Cleaning
  <2>4. Place(c, "finish_root") /\ Place(c, "none")
    BY <2>1 DEF Place, Running
  <2>5. Cleaned(c)' => Cleaned(c)
    BY <1>1, <1>3 DEF FinishManifest, Cleaned, store, flow
  <2>6. Shrinks(c)
    BY <1>3, ManifestGoes DEF FinishManifest
  <2> QED BY <2>2, <2>3, <2>4, <2>5, <2>6, Moves
<1> QED BY <1>2, <1>3

\* Removing the root: the store is closed, and the run has loaded every layer.
LEMMA FinishRootUses ==
    ASSUME EphemeralInv, NEW c \in Consumers, UNCHANGED setup, FinishRoot(c)
    PROVE  Use(c)
<1>1. /\ ConsumerType /\ Fits(c) /\ cpc[c] = "finish_root" /\ mem[c] # NoManifest
  BY ConsumerFacts DEF FinishRoot, At, Running
<1> DEFINE ok == IF Exists(ready) THEN RootEmpty ELSE PassOverMissing
<1>2. CASE ~ ok
  BY <1>1, <1>2, RaiseUses DEF FinishRoot, store, flow, Running
<1>3. CASE ok
  <2>1. back[c] = "none" /\ Place(c, "finish_root")
    BY <1>1 DEF Fits, Closes, Running
  <2>2. MovesTo(c, "done", TRUE, "none", at[c].found)
    <3>1. /\ closed' = [closed EXCEPT ![c] = TRUE] /\ back' = [back EXCEPT ![c] = "none"]
          /\ at' = [at EXCEPT ![c].found = at[c].found]
      BY <1>1, <1>3, <2>1 DEF FinishRoot, ConsumerType, flow
    <3> QED BY <1>1, <1>3, <3>1 DEF FinishRoot, Goes, MovesTo, ConsumerPcs, ConsumerType, flow
  <2>3. MayMove(c, "done", TRUE, "none", at[c].found)
    BY <1>1 DEF MayMove, Running, Cleaning
  <2>4. Place(c, "done") /\ Place(c, "none")
    <3>1. mem[c].state[Layer(c)] = "consumed" /\ Layer(c) = Layers /\ LoadedTo(c, Layer(c))
      BY <2>1 DEF Place, Running
    <3>2. at[c].part = Parts + 1
      <4>1. ~ Layer(c) < Layer(c)
        BY ConsumerFacts DEF LayerSet
      <4> QED BY <1>1, <3>1, <4>1, ConsumerFacts DEF Fits, Recorded
    <3> QED BY <3>1, <3>2 DEF Place, Running
  <2>5. ready' = NoTree /\ Shrinks(c) /\ ~ Exists(ready')
    BY <1>3 DEF FinishRoot, Shrinks, Exists
  <2> QED BY <2>2, <2>3, <2>4, <2>5, Moves
<1> QED BY <1>2, <1>3

\* Beginning a cleanup: the store is closed, and its files are still there.
LEMMA BeginUses ==
    ASSUME EphemeralInv, NEW c \in Consumers, UNCHANGED setup, CleanBegin(c)
    PROVE  Use(c)
<1>1. /\ ConsumerType /\ Fits(c) /\ cpc[c] = "cleanup" /\ mem[c] # NoManifest /\ ~ closed[c]
  BY ConsumerFacts DEF CleanBegin, At, Cleaning, Fits, Closes
<1>2. MovesTo(c, "clean", TRUE, back[c], at[c].found)
  <2>1. back' = [back EXCEPT ![c] = back[c]] /\ at' = [at EXCEPT ![c].found = at[c].found]
    BY <1>1 DEF CleanBegin, ConsumerType, flow
  <2> QED BY <1>1, <2>1 DEF CleanBegin, Goes, MovesTo, ConsumerPcs, Cleaning, ConsumerType, flow
<1>3. MayMove(c, "clean", TRUE, back[c], at[c].found)
  BY <1>1 DEF MayMove, Running, Cleaning
<1>4. Place(c, "clean") /\ Place(c, back[c])
  BY <1>1 DEF Fits, Place, Running
<1>5. ~ Cleaned(c)'
  BY <1>1 DEF CleanBegin, Goes, Cleaned, ConsumerType
<1>6. Shrinks(c)
  BY ReadyStays DEF CleanBegin
<1> QED BY <1>2, <1>3, <1>4, <1>5, <1>6, Moves

\* Looking for the next file.
LEMMA LookUses ==
    ASSUME EphemeralInv, NEW c \in Consumers, UNCHANGED setup, CleanLook(c)
    PROVE  Use(c)
<1>1. /\ ConsumerType /\ Fits(c) /\ cpc[c] = "clean" /\ mem[c] # NoManifest /\ closed[c]
  BY ConsumerFacts DEF CleanLook, At, Cleaning, Fits, Closes
<1>2. PICK g \in Files : at' = [at EXCEPT ![c].found = g]
  <2>1. PICK g : g \in Remaining(c) /\ at' = [at EXCEPT ![c].found = g]
    BY DEF CleanLook
  <2> QED BY <2>1 DEF Remaining, Present
<1>3. MovesTo(c, "clean_file", TRUE, back[c], g)
  <2>1. back' = [back EXCEPT ![c] = back[c]] /\ closed' = [closed EXCEPT ![c] = TRUE]
    BY <1>1 DEF CleanLook, ConsumerType, flow, store
  <2> QED BY <1>1, <1>2, <2>1 DEF CleanLook, Goes, MovesTo, ConsumerPcs, Cleaning, ConsumerType, flow, store
<1>4. MayMove(c, "clean_file", TRUE, back[c], g)
  BY <1>1, <1>2 DEF MayMove, Running, Cleaning
<1>5. Place(c, "clean_file") /\ Place(c, back[c])
  BY <1>1 DEF Fits, Place, Running
<1>6. ~ Cleaned(c)'
  BY <1>1 DEF CleanLook, Goes, Cleaned, ConsumerType
<1>7. Shrinks(c)
  BY ReadyStays DEF CleanLook
<1> QED BY <1>3, <1>4, <1>5, <1>6, <1>7, Moves

\* Deleting it, or finding that another process was faster.
LEMMA FileUses ==
    ASSUME EphemeralInv, NEW c \in Consumers, UNCHANGED setup, CleanFile(c)
    PROVE  Use(c)
<1>1. /\ ConsumerType /\ Fits(c) /\ cpc[c] = "clean_file" /\ mem[c] # NoManifest /\ closed[c]
      /\ at[c].found \in Files
  BY ConsumerFacts DEF CleanFile, At, Cleaning, Fits, Closes
<1>2. /\ back' = [back EXCEPT ![c] = back[c]] /\ closed' = [closed EXCEPT ![c] = TRUE]
      /\ at' = [at EXCEPT ![c].found = NoFile] /\ UNCHANGED <<staging, producing, mem, loaded>>
  BY <1>1 DEF CleanFile, ConsumerType, store
<1>3. Place(c, "clean") /\ Place(c, "failed") /\ Place(c, back[c])
  BY <1>1 DEF Fits, Place, Running
<1>4. CASE Gone(at[c].found)
  <2>1. MovesTo(c, "failed", TRUE, back[c], NoFile)
    BY <1>1, <1>2, <1>4 DEF CleanFile, Goes, MovesTo, ConsumerPcs, ConsumerType
  <2>2. MayMove(c, "failed", TRUE, back[c], NoFile)
    BY <1>1 DEF MayMove, Running, Cleaning
  <2>3. ~ Cleaned(c)' /\ Shrinks(c)
    BY <1>1, <1>4, ReadyStays DEF CleanFile, Cleaned
  <2> QED BY <1>3, <2>1, <2>2, <2>3, Moves
<1>5. CASE ~ Gone(at[c].found)
  <2>1. MovesTo(c, "clean", TRUE, back[c], NoFile)
    BY <1>1, <1>2, <1>5 DEF CleanFile, Goes, MovesTo, ConsumerPcs, Cleaning, ConsumerType
  <2>2. MayMove(c, "clean", TRUE, back[c], NoFile)
    BY <1>1 DEF MayMove, Running, Cleaning
  <2>3. ~ Cleaned(c)'
    BY <1>1, <1>5 DEF CleanFile, Goes, Cleaned, ConsumerType
  <2>4. Shrinks(c)
    <3>1. ready \in Trees /\ ready' = [ready EXCEPT !.files[at[c].found] = "none"] /\ "none" \in Contents
      BY <1>5, ConsumerFacts DEF CleanFile, Gone, Contents
    <3>2. /\ ready' \in Trees /\ ready'.by = ready.by /\ ready'.manifest = ready.manifest
          /\ ready'.files = [ready.files EXCEPT ![at[c].found] = "none"] /\ ready.files \in [Files -> Contents]
      BY <1>1, <3>1, TreeChanges, TreeFields
    <3> QED BY <1>5, <3>2 DEF Shrinks, Gone
  <2> QED BY <1>3, <2>1, <2>2, <2>3, <2>4, Moves
<1> QED BY <1>4, <1>5

\* When no listed file is left, none is: those of the other layers have been passed.
LEMMA NoneRemains ==
    ASSUME EphemeralInv, NEW c \in Consumers, mem[c] # NoManifest, Exists(ready), ready.by = mem[c].by,
           Remaining(c) = {}
    PROVE  \A f \in Files : ready.files[f] = "none"
<1> SUFFICES ASSUME NEW f \in Files, ready.files[f] # "none" PROVE FALSE
  OBVIOUS
<1>1. f[1] \in LayerSet /\ f[2] \in 1 .. Parts /\ Parts \in Nat
  BY ConsumerFacts DEF Files
<1>2. mem[c].state[f[1]] = "consumed"
  BY <1>1 DEF Remaining, Present, Listed
<1>3. f[1] < Layer(c) \/ (f[1] = Layer(c) /\ at[c].part = Parts + 1)
  BY <1>1, <1>2, ConsumerFacts DEF Fits, Recorded
<1>4. Passed(c, f)
  BY <1>1, <1>3 DEF Passed
<1> QED BY <1>4 DEF EphemeralInv, FileInv

\* Removing the empty directories and the manifests.
LEMMA CleanDirsUses ==
    ASSUME EphemeralInv, NEW c \in Consumers, UNCHANGED setup, CleanDirs(c)
    PROVE  Use(c)
<1>1. /\ ConsumerType /\ Fits(c) /\ cpc[c] = "clean" /\ mem[c] # NoManifest /\ closed[c]
  BY ConsumerFacts DEF CleanDirs, At, Cleaning, Fits, Closes
<1>2. MovesTo(c, "clean_root", TRUE, back[c], at[c].found)
  <2>1. /\ back' = [back EXCEPT ![c] = back[c]] /\ closed' = [closed EXCEPT ![c] = TRUE]
        /\ at' = [at EXCEPT ![c].found = at[c].found]
    BY <1>1 DEF CleanDirs, ConsumerType, flow, store
  <2> QED BY <1>1, <2>1 DEF CleanDirs, Goes, MovesTo, ConsumerPcs, Cleaning, ConsumerType, flow, store
<1>3. MayMove(c, "clean_root", TRUE, back[c], at[c].found)
  BY <1>1 DEF MayMove, Running, Cleaning
<1>4. Place(c, "clean_root") /\ Place(c, back[c])
  BY <1>1 DEF Fits, Place, Running
<1>5. CASE ~ Exists(ready)
  BY <1>2, <1>3, <1>4, <1>5, ReadyStays, Moves DEF CleanDirs
<1>6. CASE Exists(ready)
  <2> DEFINE D == ready.dirs \ {l \in Listed(c) : FilesOf(l) \cap Present = {}}
             T == ready.temps \ {c}
  <2>1. /\ ready \in Trees /\ D \in SUBSET LayerSet /\ T \in SUBSET Consumers
        /\ ready' = [ready EXCEPT !.dirs = D, !.manifest = NoManifest, !.temps = T]
    BY <1>6, ConsumerFacts, TreeFields DEF CleanDirs
  <2> HIDE DEF D, T
  <2>2. /\ ready' \in Trees /\ ready'.by = ready.by /\ ready'.manifest = NoManifest /\ ready'.files = ready.files
    BY <2>1 DEF Trees
  <2>3. Shrinks(c)
    BY <1>6, <2>2 DEF Shrinks
  <2>4. ready.by = mem[c].by => \A f \in Files : ready'.files[f] = "none"
    BY <1>1, <1>6, <2>2, NoneRemains DEF CleanDirs
  <2> QED BY <1>2, <1>3, <1>4, <2>3, <2>4, Moves
<1> QED BY <1>5, <1>6

\* Removing the root, and returning to the interrupted code or out of the process.
LEMMA CleanRootUses ==
    ASSUME EphemeralInv, NEW c \in Consumers, UNCHANGED setup, CleanRoot(c)
    PROVE  Use(c)
<1>1. /\ ConsumerType /\ Fits(c) /\ cpc[c] = "clean_root" /\ mem[c] # NoManifest /\ closed[c]
  BY ConsumerFacts DEF CleanRoot, At, Cleaning, Fits, Closes
<1>2. /\ Returns(c) \in Running \cup {"failed"} /\ Place(c, Returns(c))
  <2>1. back[c] \in Running \cup {"none", "failed"} /\ Place(c, back[c]) /\ Place(c, "failed")
    BY <1>1 DEF ConsumerType, Fits, Place, Running
  <2> QED BY <2>1 DEF Returns
<1> DEFINE x == Returns(c)
<1>3. x \in ConsumerPcs /\ x # "idle" /\ x \notin Cleaning /\ x # "done"
  BY <1>2 DEF ConsumerPcs, Running, Cleaning
<1>4. MovesTo(c, x, TRUE, "none", at[c].found)
  <2>1. /\ closed' = [closed EXCEPT ![c] = TRUE] /\ at' = [at EXCEPT ![c].found = at[c].found]
        /\ at[c].found \in Files \cup {NoFile}
    BY <1>1 DEF CleanRoot, ConsumerType, store
  <2> HIDE DEF x
  <2>2. cpc' = [cpc EXCEPT ![c] = x]
    BY DEF CleanRoot, Goes, x
  <2> QED BY <1>3, <2>1, <2>2 DEF CleanRoot, MovesTo, store
<1>5. MayMove(c, x, TRUE, "none", at[c].found)
  BY <1>1, <1>3 DEF MayMove, Cleaning
<1>6. Place(c, "none")
  BY DEF Place, Running
<1>7. Cleaned(c)' => Cleaned(c)
  BY <1>1 DEF CleanRoot, Cleaned
<1>8. Shrinks(c)
  <2>1. ready' = NoTree \/ ready' = ready
    BY DEF CleanRoot
  <2>2. ready' = NoTree => Shrinks(c)
    BY DEF Shrinks, Exists
  <2> QED BY <2>1, <2>2, ReadyStays
<1> HIDE DEF x
<1>9. Place(c, x)
  BY <1>2 DEF x
<1> QED BY <1>4, <1>5, <1>6, <1>7, <1>8, <1>9, Moves

\* A signal, from the work or in the middle of a cleanup.
LEMMA SignalUses ==
    ASSUME EphemeralInv, NEW c \in Consumers, UNCHANGED setup, Signal(c)
    PROVE  Use(c)
<1>1. /\ ConsumerType /\ Fits(c) /\ UNCHANGED <<staging, producing, ready, mem, loaded>>
      /\ closed' = [closed EXCEPT ![c] = closed[c]] /\ at' = [at EXCEPT ![c].found = at[c].found]
      /\ closed[c] \in BOOLEAN /\ at[c].found \in Files \cup {NoFile} /\ closed' = closed
  BY ConsumerFacts DEF Signal, ConsumerType, store
<1>2. Shrinks(c)
  BY <1>1, ReadyStays
<1>3. Place(c, "cleanup") /\ Place(c, "failed")
  BY DEF Place, Running
<1>4. CASE cpc[c] \in Running /\ ~ closed[c] /\ Goes(c, "cleanup") /\ cut' = cut
  <2>1. PICK b \in {"failed", cpc[c]} : back' = [back EXCEPT ![c] = b]
    <3>1. cpc[c] \notin Cleaning
      BY <1>4 DEF Running, Cleaning
    <3> QED BY <1>4, <3>1 DEF Signal
  <2>2. b \in Running \cup {"none", "failed"} /\ Place(c, b)
    BY <1>1, <1>3, <1>4, <2>1 DEF Fits
  <2>3. MovesTo(c, "cleanup", closed[c], b, at[c].found)
    BY <1>1, <1>4, <2>1, <2>2 DEF Goes, MovesTo, ConsumerPcs, Cleaning
  <2>4. MayMove(c, "cleanup", closed[c], b, at[c].found)
    BY <1>1, <1>4, ConsumerFacts DEF MayMove, Running, Cleaning
  <2>5. ~ Cleaned(c)'
    BY <1>1, <1>4 DEF Cleaned
  <2> QED BY <1>2, <1>3, <2>2, <2>3, <2>4, <2>5, Moves
<1>5. CASE cpc[c] \in Cleaning \ {"cleanup"} /\ Goes(c, "failed") /\ cut' = cut \cup {c} /\ back' = back
  <2>1. back' = [back EXCEPT ![c] = back[c]] /\ back[c] \in Running \cup {"none", "failed"} /\ closed[c]
    BY <1>1, <1>5 DEF ConsumerType, Fits, Closes
  <2>2. MovesTo(c, "failed", closed[c], back[c], at[c].found)
    BY <1>1, <1>5, <2>1 DEF Goes, MovesTo, ConsumerPcs
  <2>3. MayMove(c, "failed", closed[c], back[c], at[c].found)
    BY <1>5, <2>1, ConsumerFacts DEF MayMove, Running, Cleaning
  <2>4. ~ Cleaned(c)'
    BY <1>5 DEF Cleaned
  <2>5. Place(c, back[c])
    BY <1>1 DEF Fits
  <2> QED BY <1>2, <1>3, <2>2, <2>3, <2>4, <2>5, Moves
<1> QED BY <1>4, <1>5 DEF Signal

\* A kill.
LEMMA KillUses ==
    ASSUME EphemeralInv, NEW c \in Consumers, UNCHANGED setup, KillConsumer(c)
    PROVE  Use(c)
<1>1. /\ ConsumerType /\ Fits(c) /\ UNCHANGED <<staging, producing, ready, mem, loaded>>
      /\ closed' = [closed EXCEPT ![c] = closed[c]] /\ at' = [at EXCEPT ![c].found = at[c].found]
      /\ back' = [back EXCEPT ![c] = back[c]] /\ cut' = cut
      /\ closed[c] \in BOOLEAN /\ at[c].found \in Files \cup {NoFile}
      /\ back[c] \in Running \cup {"none", "failed"} /\ mem[c] # NoManifest
  BY ConsumerFacts DEF KillConsumer, ConsumerType, store, flow
<1>2. MovesTo(c, "killed", closed[c], back[c], at[c].found)
  BY <1>1 DEF KillConsumer, Goes, MovesTo, ConsumerPcs
<1>3. MayMove(c, "killed", closed[c], back[c], at[c].found)
  BY <1>1 DEF MayMove, Running, Cleaning
<1>4. Place(c, "killed") /\ Place(c, back[c])
  BY <1>1 DEF Fits, Place, Running
<1>5. ~ Cleaned(c)'
  BY <1>1 DEF KillConsumer, Goes, Cleaned, ConsumerType
<1> QED BY <1>1, <1>2, <1>3, <1>4, <1>5, ReadyStays, Moves

-----------------------------------------------------------------------------
(* The invariant, and what it says.                                        *)

\* Every step of a consumer keeps the invariant.
LEMMA UseStoreKeeps ==
    ASSUME EphemeralInv, NEW c \in Consumers, UseStore(c), UNCHANGED setup
    PROVE  EphemeralInv'
<1>1. Use(c)
  BY OpenUses, LoadUses, ConsumeUses, TempUses, ReplaceUses, UnlinkUses, DirsUses, FinishManifestUses,
     FinishRootUses, BeginUses, LookUses, FileUses, CleanDirsUses, CleanRootUses, SignalUses, KillUses
     DEF UseStore
<1> QED BY <1>1, UseKeeps

\* Every step of a producer keeps the invariant.
LEMMA ProduceKeeps ==
    ASSUME EphemeralInv, NEW p \in Producers, Produce(p), UNCHANGED <<setup, cpc, at, store, flow>>
    PROVE  EphemeralInv'
<1>1. Conversion(p)
  BY ProduceConverts DEF EphemeralInv
<1>2. ProducerType' /\ ChildInv' /\ \A q \in Producers : Barren(q) => Barren(q)'
  BY ProduceChild DEF EphemeralInv
<1>3. ManifestInv' /\ FileInv'
  BY <1>1, <1>2, ConversionKeeps DEF EphemeralInv
<1>4. Locals' /\ ExclusiveInv' /\ ConsumerType'
  BY LocalsStay DEF EphemeralInv
<1>5. SoleInv'
  BY ProduceSole DEF EphemeralInv
<1>6. setup' \in Setups /\ TreeType'
  <2>1. Trees' = Trees
    BY SetupStays
  <2> QED BY <1>1, <2>1 DEF EphemeralInv, Types, TreeType, Conversion, Keeps
<1> QED BY <1>2, <1>3, <1>4, <1>5, <1>6 DEF EphemeralInv, Types

\* The invariant holds at first.
LEMMA InitHolds == Init => EphemeralInv
<1> SUFFICES ASSUME Init PROVE EphemeralInv
  OBVIOUS
<1>1. /\ setup \in Setups /\ staging = NoTree /\ ready = NoTree
      /\ ppc = [p \in Producers |-> "idle"] /\ child = [p \in Producers |-> NotSpawned]
      /\ walk = [p \in Producers |-> NoWalk]
  BY DEF Init, StagingInit
<1>2. /\ 1 \in LayerSet /\ 1 \in 1 .. Parts + 1 /\ Producers \cap {"nobody"} = {}
  BY <1>1, SetupFacts DEF LayerSet
<1>3. Types
  <2>1. TreeType
    BY <1>1 DEF TreeType
  <2>2. ProducerType
    BY <1>1 DEF ProducerType, ProducerPcs, NotSpawned
  <2>3. ConsumerType
    BY <1>2 DEF Init, ConsumerType, ConsumerPcs
  <2> QED BY <1>1, <2>1, <2>2, <2>3 DEF Types
<1>4. ChildInv
  BY <1>1 DEF ChildInv, Barren, NotSpawned
<1>5. ManifestInv
  BY <1>1 DEF Init, ManifestInv, Exists
<1>6. \A c \in Consumers : /\ cpc[c] = "idle" /\ mem[c] = NoManifest /\ Layer(c) = 1 /\ at[c].part = 1
                           /\ closed[c] = FALSE /\ back[c] = "none"
  BY DEF Init, Layer
<1>7. Locals
  BY <1>6 DEF Locals, PlaceInv, RecordInv, Recorded, CloseInv, Closes, Place, Running, Cleaning
<1>8. FileInv
  BY <1>6 DEF FileInv
<1>9. ExclusiveInv
  <2>1. \A c \in Consumers, f \in Files : ~ Passed(c, f)
    BY <1>1, <1>3, <1>6, <1>7, PassedOpened DEF Locals
  <2> QED BY <2>1 DEF ExclusiveInv
<1>10. SoleInv
  BY <1>1 DEF SoleInv, Exists
<1> QED BY <1>3, <1>4, <1>5, <1>7, <1>8, <1>9, <1>10 DEF EphemeralInv

\* It is an invariant of the specification.
LEMMA EphemeralInvariance == Spec => []EphemeralInv
<1>1. EphemeralInv /\ [Next]_vars => EphemeralInv'
  <2> SUFFICES ASSUME EphemeralInv, [Next]_vars PROVE EphemeralInv'
    OBVIOUS
  <2>1. ASSUME NEW p \in Producers, Produce(p), UNCHANGED <<cpc, at, store, flow>>, UNCHANGED setup
        PROVE  EphemeralInv'
    BY <2>1, ProduceKeeps
  <2>2. ASSUME NEW c \in Consumers, UseStore(c), UNCHANGED setup PROVE EphemeralInv'
    BY <2>2, UseStoreKeeps
  <2>3. CASE UNCHANGED vars
    <3>1. /\ setup' = setup /\ staging' = staging /\ ready' = ready /\ ppc' = ppc /\ child' = child /\ walk' = walk
          /\ UNCHANGED <<setup, cpc, at, store, flow>>
      BY <2>3 DEF vars, producing
    <3>2. /\ Producers' = Producers /\ Consumers' = Consumers /\ Files' = Files /\ Trees' = Trees
          /\ Opened' = Opened /\ Names' = Names /\ mem' = mem /\ at' = at /\ cpc' = cpc /\ closed' = closed /\ cut' = cut
      BY <3>1, SetupStays DEF store, flow
    <3>3. Locals' /\ ExclusiveInv' /\ ConsumerType'
      BY <3>1, LocalsStay DEF EphemeralInv
    <3>4. Types' /\ ChildInv'
      BY <3>1, <3>2, <3>3 DEF EphemeralInv, Types, TreeType, ProducerType, ChildInv, Barren
    <3>5. ManifestInv' /\ SoleInv'
      BY <3>1, <3>2 DEF EphemeralInv, ManifestInv, Barren, SoleInv, OneProducer, Entries, Empty
    <3>6. FileInv'
      BY <3>1, <3>2 DEF EphemeralInv, FileInv, Present, Passed, Cleaned, Layer
    <3> QED BY <3>3, <3>4, <3>5, <3>6 DEF EphemeralInv
  <2> QED BY <2>1, <2>2, <2>3 DEF Next
<1> QED BY InitHolds, <1>1, PTL DEF Spec

\* TreesInv: what lies on disk and what each process knows of it fit together
\* (EphemeralKTWeightStore), and a conversion feeds at most one training run, which
\* has loaded every layer: whoever gets through has deleted every file itself.
THEOREM ConversionFeedsOne == Spec => []TreesInv
<1>1. EphemeralInv => TypeOK
  <2> SUFFICES ASSUME EphemeralInv PROVE TypeOK
    OBVIOUS
  <2>1. \A p \in Producers : Cardinality(child[p].open) <= 1
    <3> SUFFICES ASSUME NEW p \in Producers PROVE Cardinality(child[p].open) <= 1
      OBVIOUS
    <3>1. CASE child[p].open = {}
      BY <3>1, FS_EmptySet
    <3>2. CASE child[p].open # {}
      <4>1. PICK o : o \in child[p].open
        BY <3>2
      <4>2. child[p].open = {o}
        BY <4>1 DEF EphemeralInv, Types, ProducerType
      <4>3. Cardinality({o}) = 1
        BY FS_Singleton
      <4> QED BY <4>2, <4>3
    <3> QED BY <3>1, <3>2
  <2>2. \A p \in Producers : /\ ppc[p] \in ProducerPcs /\ child[p].st \in {"none", "run", "exited", "gone"}
                             /\ child[p].done \subseteq Files
    BY DEF EphemeralInv, Types, ProducerType
  <2>3. \A c \in Consumers : /\ cpc[c] \in ConsumerPcs /\ at[c].layer \in LayerSet /\ at[c].part \in 1 .. Parts + 1
                             /\ cpc[c] \in Running => mem[c] # NoManifest
                             /\ cpc[c] \in Cleaning \ {"cleanup"} => closed[c]
    BY ConsumerFacts DEF EphemeralInv, Types, ConsumerType, Fits, Closes
  <2> QED BY <2>1, <2>2, <2>3 DEF TypeOK, EphemeralInv, Types, TreeType, ProducerPcs, ConsumerPcs
<1>2. EphemeralInv => FeedsOne
  <2> SUFFICES ASSUME EphemeralInv, NEW c \in Consumers, cpc[c] = "done"
               PROVE  /\ \A l \in LayerSet : loaded[c][l] # Nobody
                      /\ OneProducer => \A d \in Consumers \ {c} : cpc[d] # "done"
    BY DEF FeedsOne, At
  <2>1. \A d \in Consumers : cpc[d] = "done" =>
          Layer(d) = Layers /\ at[d].part = Parts + 1 /\ LoadedTo(d, Layer(d))
    BY DEF EphemeralInv, Locals, PlaceInv, Place, Running
  <2>2. \A l \in LayerSet : l <= Layers
    BY ConsumerFacts DEF LayerSet
  <2>3. /\ <<1, 1>> \in Files
        /\ 1 < Layers \/ (1 = Layers /\ 1 < Parts + 1)
    BY ConsumerFacts DEF Files, LayerSet
  <2>4. \A d \in Consumers : cpc[d] = "done" => Passed(d, <<1, 1>>)
    BY <2>1, <2>3 DEF Passed
  <2>5. OneProducer => \A d \in Consumers \ {c} : cpc[d] # "done"
    BY <2>3, <2>4 DEF EphemeralInv, ExclusiveInv
  <2> QED BY <2>1, <2>2, <2>5 DEF LoadedTo
<1> QED BY <1>1, <1>2, EphemeralInvariance, PTL DEF TreesInv

\* LeavesNothing: processes that end by themselves leave no weights in memory, a
\* consumer none of the tree it has opened (cleanup) and a lone producer that has
\* not given its converter up no staging tree (cleanup_ephemeral_int8_staging), but
\* for the empty one whose first lease could not be written.
THEOREM EndedLeaveNothing == Spec => []LeavesNothing
<1>1. EphemeralInv => NothingLeft
  <2> SUFFICES ASSUME EphemeralInv, \A d \in Consumers : Ended(d), cut = {}, Exists(ready),
                      NEW c \in Consumers, mem[c] # NoManifest, mem[c].by = ready.by
               PROVE  Present = {}
    BY DEF NothingLeft
  <2>1. cpc[c] \in {"failed", "done"} /\ closed[c] /\ c \notin cut
    BY DEF Ended, EphemeralInv, Locals, CloseInv, Closes
  <2>2. Cleaned(c)
    BY <2>1 DEF Cleaned
  <2> QED BY <2>2 DEF EphemeralInv, FileInv
<1>2. EphemeralInv => StagingCleaned
  BY DEF EphemeralInv, SoleInv, StagingCleaned
<1> QED BY <1>1, <1>2, EphemeralInvariance, PTL DEF LeavesNothing
=============================================================================
