---------------------------- MODULE PackageCache ----------------------------
(***************************************************************************)
(* How the exact package a user reviewed reaches its host: discovery in    *)
(* .rho/plugins (discovery.rs), the snapshot with its second discovery,    *)
(* the copy in the package cache (plugin_package_cache.rs) and the test of *)
(* prepare_plugin_activation.  The package is read file by file while its  *)
(* author edits it; the copy is written file by file, and the process may  *)
(* die anywhere.                                                           *)
(*                                                                         *)
(* A package is a manifest and a body, each a version; its digest is the   *)
(* pair that was read.  Manifest 0 does not parse.  All directories carry  *)
(* the same plugin id.                                                     *)
(***************************************************************************)
EXTENDS Integers, Sequences, FiniteSets

CONSTANTS
    PackageDirs,       \* 1 .. n, in the order of their names
    Versions,          \* of a manifest, of a body
    MaxPackageEdits,   \* bound: edits of the author
    MaxCacheFaults     \* bound: crashes and failed calls

DigestsPerPlugin == 2  \* stands for 32

VARIABLES
    pkg,        \* the directories of .rho/plugins
    pedits,
    store,      \* the cache of the plugin: digest -> the files under its name
    litter,     \* temporary directories left in the cache
    job,        \* the command that prepares a package
    running,    \* the host that was activated, or NoHost
    cachefaults

cachevars == <<pkg, pedits, store, litter, job, running, cachefaults>>

NoHost == [man |-> 0, digest |-> <<0, 0>>, body |-> 0]
NoFiles == << >>
NoPlugin == [dir |-> 0, man |-> 0, digest |-> <<0, 0>>]
Idle == [step |-> "idle", dir |-> 1, man |-> 0, inv |-> 0, cand |-> NoPlugin, found |-> NoPlugin,
         snap |-> NoPlugin, temp |-> NoFiles, cached |-> <<0, 0>>]

CacheInit ==
    /\ pkg \in [PackageDirs -> [man : Versions \cup {0}, body : {1}]]
    /\ pedits = 0 /\ cachefaults = 0
    /\ store = [d \in {} |-> NoFiles] /\ litter = 0
    /\ job = Idle /\ running = NoHost

\* The author saves one file.
EditPackage ==
    /\ pedits < MaxPackageEdits /\ pedits' = pedits + 1
    /\ \E d \in PackageDirs : \E v \in Versions \cup {0} :
          \/ pkg' = [pkg EXCEPT ![d].man = v]
          \/ v # 0 /\ pkg' = [pkg EXCEPT ![d].body = v]
    /\ UNCHANGED <<store, litter, job, running, cachefaults>>

(***************************************************************************)
(* Reading a package                                                       *)
(***************************************************************************)

Scans == {"discover", "find1", "find2"}
source == <<pkg, pedits>>
apart == UNCHANGED <<pkg, pedits, store, litter, running, cachefaults>>

Abandon == job' = Idle /\ apart

\* What is done with the plugin a scan found: the candidate the user is shown,
\* the exact package before the snapshot, and again after it.
find_exact_discovered_plugin(p) ==
    CASE job.step = "discover" -> job' = [Idle EXCEPT !.step = "reviewed", !.cand = p] /\ apart
      [] job.step = "find1" ->
            IF p.digest # job.cand.digest THEN Abandon
            ELSE job' = [job EXCEPT !.step = "snapshot", !.found = p, !.dir = p.dir, !.man = 0, !.inv = 0] /\ apart
      [] job.step = "find2" ->
            IF p.digest # job.cand.digest \/ p.dir # job.found.dir \/ p.man # job.snap.man THEN Abandon
            ELSE job' = [job EXCEPT !.step = "inspect"] /\ apart

\* discover_one, first half: the manifest is read and parsed; a directory
\* without a valid one is a failure of its own.
ReadManifest ==
    /\ job.step \in Scans \cup {"snapshot"} /\ job.man = 0
    /\ IF pkg[job.dir].man # 0 THEN job' = [job EXCEPT !.man = pkg[job.dir].man] /\ apart
       ELSE IF job.step \in Scans /\ job.dir + 1 \in PackageDirs THEN job' = [job EXCEPT !.dir = @ + 1] /\ apart
       ELSE Abandon

\* collect_package_inventory reads every file again, the manifest among them;
\* the manifest is no longer parsed.
ReadInventory ==
    /\ job.step \in Scans \cup {"snapshot"} /\ job.man # 0 /\ job.inv = 0
    /\ job' = [job EXCEPT !.inv = pkg[job.dir].man + 1]
    /\ apart

\* The digest of what was read.  The first directory with the plugin wins.
FinishRead ==
    /\ job.step \in Scans \cup {"snapshot"} /\ job.inv # 0
    /\ LET p == [dir |-> job.dir, man |-> job.man, digest |-> <<job.inv - 1, pkg[job.dir].body>>]
       IN  IF job.step \in Scans THEN find_exact_discovered_plugin(p)
           ELSE IF p.digest # job.cand.digest THEN Abandon
           ELSE job' = [job EXCEPT !.step = "find2", !.snap = p, !.dir = 1, !.man = 0, !.inv = 0] /\ apart

\* A command discovers the plugin, and prepares what was reviewed.
BeginDiscovery == job = Idle /\ job' = [Idle EXCEPT !.step = "discover"] /\ apart
PrepareExact == job.step = "reviewed" /\ job' = [job EXCEPT !.step = "find1"] /\ apart

(***************************************************************************)
(* The cache                                                               *)
(***************************************************************************)

Whole(d) == store[d] = <<d[1], d[2]>>
CacheFault == cachefaults < MaxCacheFaults /\ cachefaults' = cachefaults + 1

\* inspect_project_cache: an entry that is no digest, or does not hash to its
\* name, makes the whole cache unusable.
inspect_project_cache ==
    /\ litter = 0
    /\ \A d \in DOMAIN store : Whole(d)
    /\ Cardinality(DOMAIN store) <= DigestsPerPlugin

\* A copy that exists is read back; otherwise a temporary directory is made.
StoreSnapshot ==
    /\ job.step = "inspect"
    /\ IF ~inspect_project_cache THEN Abandon
       ELSE IF job.snap.digest \in DOMAIN store THEN job' = [job EXCEPT !.step = "readback"] /\ apart
       ELSE IF Cardinality(DOMAIN store) >= DigestsPerPlugin THEN Abandon
       ELSE job' = [job EXCEPT !.step = "write"] /\ apart

\* write_snapshot, one file at a time; a failed write removes the directory.
WriteCachedFile ==
    /\ job.step = "write" /\ Len(job.temp) < 2
    /\ \/ job' = [job EXCEPT !.temp = Append(@, job.snap.digest[Len(@) + 1])] /\ apart
       \/ CacheFault /\ job' = Idle /\ UNCHANGED <<pkg, pedits, store, litter, running>>

\* The directory is synchronised and renamed to its digest.  A failed
\* synchronisation returns at once and leaves the temporary directory; a failed
\* rename removes it.
Publish ==
    /\ job.step = "write" /\ Len(job.temp) = 2
    /\ \/ /\ store' = [d \in DOMAIN store \cup {job.snap.digest} |-> IF d \in DOMAIN store THEN store[d] ELSE job.temp]
          /\ job' = [job EXCEPT !.step = "readback", !.temp = NoFiles]
          /\ UNCHANGED <<litter, cachefaults>>
       \/ CacheFault /\ litter' = litter + 1 /\ job' = Idle /\ UNCHANGED store
       \/ CacheFault /\ job' = Idle /\ UNCHANGED <<store, litter>>
    /\ UNCHANGED <<pkg, pedits, running>>

\* read_back: the copy must hash to its name; only what was read back is used.
ReadBack ==
    /\ job.step = "readback"
    /\ IF Whole(job.cand.digest) THEN job' = [job EXCEPT !.step = "cached", !.cached = store[job.cand.digest]] /\ apart
       ELSE Abandon

\* load_exact, of a copy that was accepted earlier; the source is not read.
LoadExact ==
    /\ job = Idle
    /\ \E d \in DOMAIN store :
          /\ inspect_project_cache
          /\ job' = [Idle EXCEPT !.step = "cached", !.cached = store[d],
                                 !.cand = [dir |-> 0, man |-> store[d][1], digest |-> d]]
    /\ apart

\* The activation of whatever was prepared.
Activate_Unchecked ==
    /\ job.step = "cached"
    /\ running' = [man |-> job.cand.man, digest |-> job.cand.digest, body |-> job.cached[2]]
    /\ job' = Idle /\ UNCHANGED <<source, store, litter, cachefaults>>

\* prepare_plugin_activation: the manifest that was planned with must be the
\* cached one.
Activate ==
    /\ job.step = "cached"
    /\ IF job.cand.man = job.cached[1] /\ job.cand.digest = job.cached
       THEN /\ running' = [man |-> job.cand.man, digest |-> job.cand.digest, body |-> job.cached[2]]
            /\ job' = Idle /\ UNCHANGED <<source, store, litter, cachefaults>>
       ELSE Abandon

\* The process dies.
CrashPackages ==
    /\ CacheFault
    /\ job # Idle \/ running # NoHost
    /\ litter' = litter + (IF job.step = "write" THEN 1 ELSE 0)
    /\ job' = Idle /\ running' = NoHost
    /\ UNCHANGED <<source, store>>

CacheNext ==
    \/ EditPackage
    \/ BeginDiscovery
    \/ ReadManifest
    \/ ReadInventory
    \/ FinishRead
    \/ PrepareExact
    \/ StoreSnapshot
    \/ WriteCachedFile
    \/ Publish
    \/ ReadBack
    \/ LoadExact
    \/ Activate
    \/ CrashPackages

CacheSpec == CacheInit /\ [][CacheNext]_cachevars

(***************************************************************************)
(* Properties                                                              *)
(***************************************************************************)

\* A host runs one package, whole: the manifest that was reviewed, the body and
\* the digest belong together although manifest and files are read apart; and
\* whatever the crashes, what stands under a digest in the cache hashes to it.
HostsRunReviewedPackages ==
    /\ running # NoHost => running.digest = <<running.man, running.body>>
    /\ \A d \in DOMAIN store : Whole(d)
    /\ Cardinality(DOMAIN store) <= DigestsPerPlugin
=============================================================================
