---------------------------- MODULE PackageCache ----------------------------
(***************************************************************************)
(* The extraction cache: launches that extract a package and run from its  *)
(* tree (crates/onelf-rt/src/cache.rs, ensure_extracted), beside the       *)
(* sweeps that reclaim idle packages and unlinked blobs (auto_gc there,    *)
(* gc_cache and clear_cache in crates/onelf/src/cache.rs).                 *)
(*                                                                         *)
(* A tree is the set of parts it holds: the blobs hardlinked into it out   *)
(* of the content store, and EmptyDir for the directories that hold no     *)
(* file.  Ages are two: a last-used record is fresh until it grows old.    *)
(***************************************************************************)
EXTENDS Naturals, FiniteSets

CONSTANTS
  Runner,     \* launches in cache mode
  Sweeper,    \* sweeps, one after another or at once
  Kinds,      \* "launch" (auto_gc), "gc" or "clear" (the command line)
  Pkg,        \* packages
  Blob,       \* contents, each with its mode, that packages carry
  BlobsOf,    \* the blobs of each package
  EmptyDir,   \* the directories of a package that hold no file
  PkgOf,      \* the package each launch runs
  Legacy,     \* packages an older release left: a tree, no marker, no lock file
  NoOne,
  MaxKills    \* bound: processes killed

ASSUME PackageCacheAssumption ==
  /\ PkgOf \in [Runner -> Pkg]
  /\ BlobsOf \in [Pkg -> (SUBSET Blob) \ {{}}]
  /\ EmptyDir \notin Blob
  /\ Legacy \subseteq Pkg
  /\ Kinds \subseteq {"launch", "gc", "clear"}
  /\ NoOne \notin Pkg \cup Blob \cup Runner
  /\ MaxKills \in Nat

VARIABLES
  run,      \* where each launch is
  blob,     \* the blob an extraction is about to link
  lockFile, \* packages whose in-use lock file exists
  mutex,    \* the launch that holds the extraction lock file at each path
  tree,     \* parts of pkg/<id>, per package
  present,  \* packages whose directory pkg/<id> exists
  ready,    \* packages whose completion marker exists
  scratch,  \* parts of the extraction's temporary tree, per package
  cas,      \* each slot of the content store: "none", "good" or "bad" bytes
  meta,     \* each package's last-used record: "none", "fresh" or "old"
  kind,     \* what each sweep is
  gc,       \* where it is
  todo,     \* the packages it has still to look at
  claim,    \* whether it locked the package it removes
  gcPkg,    \* the package it removes
  gcBlob,   \* the blob it found unlinked
  kills

runVars    == <<run, blob>>
treeVars   == <<lockFile, tree, present, ready, scratch, cas, meta>>
sweepVars  == <<kind, gc, todo, claim, gcPkg, gcBlob>>
cacheVars  == <<runVars, treeVars, mutex, sweepVars, kills>>

RunPhase ==
  {"start", "locked", "waiting", "clearing", "cleared", "filling", "linking",
   "filled", "stored", "marked", "running", "done", "failed", "killed"}

SweepPhase ==
  {"begin", "packages", "picked", "removing", "unlinking", "forgetting", "blobs",
   "collecting", "dropping", "pruning", "done", "killed"}

Parts(p) == BlobsOf[p] \cup {EmptyDir}

-----------------------------------------------------------------------------
(* The locks.  Each lives on its descriptors alone, so holding one is a    *)
(* matter of how far its holder has come.                                  *)

\* The in-use lock, shared, from before the first look at the cache through
\* the exec to the end of the application.
PackageInUseOnceRunning(p) == \* slip: locked after the package was looked for
  \E l \in Runner : PkgOf[l] = p /\ run[l] = "running"
PackageInUse(p) ==
  \E l \in Runner :
    PkgOf[l] = p /\ run[l] \notin {"start", "done", "failed", "killed"}

Extracting(l) ==
  run[l] \in {"clearing", "cleared", "filling", "linking", "filled", "stored", "marked"}

\* The in-use lock, exclusive, while a sweep removes the package.
Claimed(p) == \E g \in Sweeper : claim[g] /\ gcPkg[g] = p

\* The store lock: shared while an extraction fills its tree, exclusive while a
\* sweep collects blobs.
Filling == \E l \in Runner : run[l] \in {"filling", "linking"}
Collecting == \E g \in Sweeper : gc[g] \in {"collecting", "dropping"}

\* is_complete: the marker makes a directory a whole package.
Complete(p) == p \in present /\ p \in ready

\* A blob's link count is above one: some tree holds it.
Linked(b) == \E p \in Pkg : b \in tree[p] \cup scratch[p]

-----------------------------------------------------------------------------
\* Any slot of the store may hold bytes that are not its own.
PCInit ==
  /\ run = [l \in Runner |-> "start"] /\ blob = [l \in Runner |-> NoOne]
  /\ lockFile = {} /\ mutex = [p \in Pkg |-> NoOne]
  /\ present = Legacy /\ ready = {}
  /\ tree = [p \in Pkg |-> IF p \in Legacy THEN {EmptyDir} ELSE {}]
  /\ scratch = [p \in Pkg |-> {}]
  /\ cas \in [Blob -> {"none", "bad"}]
  /\ meta = [p \in Pkg |-> IF p \in Legacy THEN "old" ELSE "none"]
  /\ kind \in [Sweeper -> Kinds]
  /\ gc = [g \in Sweeper |-> "begin"] /\ todo = [g \in Sweeper |-> {}]
  /\ claim = [g \in Sweeper |-> FALSE]
  /\ gcPkg = [g \in Sweeper |-> NoOne] /\ gcBlob = [g \in Sweeper |-> NoOne]
  /\ kills = 0

-----------------------------------------------------------------------------
(* ensure_extracted.                                                       *)

Step(l, from, to) == run[l] = from /\ run' = [run EXCEPT ![l] = to]

\* Taken before the package is looked for, creating the lock file.
LockInUse(l) ==
  LET p == PkgOf[l] IN
  /\ Step(l, "start", "locked")
  /\ ~Claimed(p)
  /\ lockFile' = lockFile \cup {p}
  /\ UNCHANGED <<blob, mutex, tree, present, ready, scratch, cas, meta, sweepVars, kills>>

Touch(p) == meta' = [meta EXCEPT ![p] = "fresh"]

RunCached(l) ==
  LET p == PkgOf[l] IN
  /\ Step(l, "locked", "running")
  /\ Complete(p) /\ Touch(p)
  /\ UNCHANGED <<blob, lockFile, mutex, tree, present, ready, scratch, cas, sweepVars,
                 kills>>

NotCached(l) ==
  /\ Step(l, "locked", "waiting")
  /\ ~Complete(PkgOf[l])
  /\ UNCHANGED <<blob, treeVars, mutex, sweepVars, kills>>

\* Extraction is serialized on a mutex of its own.
LockExtraction(l) ==
  LET p == PkgOf[l] IN
  /\ Step(l, "waiting", "clearing")
  /\ mutex[p] = NoOne
  /\ mutex' = [mutex EXCEPT ![p] = l]
  /\ UNCHANGED <<blob, treeVars, sweepVars, kills>>

UnlockAtExit(l) == UNCHANGED mutex \* slip: held through the exec
Unlock(l) ==
  mutex' = [p \in Pkg |-> IF mutex[p] = l THEN NoOne ELSE mutex[p]]

\* Another launch finished the extraction while this one waited.
RunExtracted(l) ==
  LET p == PkgOf[l] IN
  /\ Step(l, "clearing", "running")
  /\ Complete(p) /\ Touch(p) /\ Unlock(l)
  /\ UNCHANGED <<blob, lockFile, tree, present, ready, scratch, cas, sweepVars, kills>>

\* What an interrupted extraction or an older release left goes first.
ClearStale(l) ==
  LET p == PkgOf[l] IN
  /\ Step(l, "clearing", "cleared")
  /\ ~Complete(p)
  /\ tree' = [tree EXCEPT ![p] = {}]
  /\ present' = present \ {p} /\ ready' = ready \ {p}
  /\ scratch' = [scratch EXCEPT ![p] = {}]
  /\ UNCHANGED <<blob, lockFile, mutex, cas, meta, sweepVars, kills>>

\* extract_to_cas, under the store lock: the directories, then file by file.
BeginFill(l) ==
  /\ Step(l, "cleared", "filling")
  /\ ~Collecting
  /\ scratch' = [scratch EXCEPT ![PkgOf[l]] = {EmptyDir}]
  /\ UNCHANGED <<blob, lockFile, mutex, tree, present, ready, cas, meta, sweepVars, kills>>

\* A slot is used only when its bytes verify, and is written over otherwise.
Store(b) == [cas EXCEPT ![b] = "good"]

StoreBlob(l, b) ==
  /\ Step(l, "filling", "linking")
  /\ b \in BlobsOf[PkgOf[l]] \ scratch[PkgOf[l]]
  /\ blob' = [blob EXCEPT ![l] = b]
  /\ cas' = Store(b)
  /\ UNCHANGED <<lockFile, mutex, tree, present, ready, scratch, meta, sweepVars, kills>>

LinkBlob(l) ==
  /\ Step(l, "linking", "filling")
  /\ cas[blob[l]] # "none"
  /\ scratch' = [scratch EXCEPT ![PkgOf[l]] = @ \cup {blob[l]}]
  /\ blob' = [blob EXCEPT ![l] = NoOne]
  /\ UNCHANGED <<lockFile, mutex, tree, present, ready, cas, meta, sweepVars, kills>>

\* The store lock goes once every file is linked, before the rename.
EndFill(l) ==
  /\ Step(l, "filling", "filled")
  /\ BlobsOf[PkgOf[l]] \subseteq scratch[PkgOf[l]]
  /\ UNCHANGED <<blob, treeVars, mutex, sweepVars, kills>>

RenameTree(l) ==
  LET p == PkgOf[l] IN
  /\ Step(l, "filled", "stored")
  /\ p \notin present /\ scratch[p] # {}
  /\ tree' = [tree EXCEPT ![p] = scratch[p]]
  /\ present' = present \cup {p}
  /\ scratch' = [scratch EXCEPT ![p] = {}]
  /\ UNCHANGED <<blob, lockFile, mutex, ready, cas, meta, sweepVars, kills>>

MarkReady(l) ==
  /\ Step(l, "stored", "marked")
  /\ ready' = ready \cup {PkgOf[l]}
  /\ UNCHANGED <<blob, lockFile, mutex, tree, present, scratch, cas, meta, sweepVars,
                 kills>>

RunFresh(l) ==
  /\ Step(l, "marked", "running")
  /\ Touch(PkgOf[l]) /\ Unlock(l)
  /\ UNCHANGED <<blob, lockFile, tree, present, ready, scratch, cas, sweepVars, kills>>

\* An error removes what this launch was building and lets go of every lock.
Fail(l) ==
  LET p == PkgOf[l] IN
  /\ run[l] \in {"locked", "waiting", "clearing", "cleared", "filling", "linking",
                "filled", "stored"}
  /\ run' = [run EXCEPT ![l] = "failed"]
  /\ blob' = [blob EXCEPT ![l] = NoOne]
  /\ scratch' = IF run[l] \in {"filling", "linking", "filled"}
                THEN [scratch EXCEPT ![p] = {}] ELSE scratch
  /\ tree' = IF run[l] = "stored" THEN [tree EXCEPT ![p] = {}] ELSE tree
  /\ present' = IF run[l] = "stored" THEN present \ {p} ELSE present
  /\ Unlock(l)
  /\ UNCHANGED <<lockFile, ready, cas, meta, sweepVars, kills>>

Exit(l) ==
  /\ Step(l, "running", "done")
  /\ UNCHANGED <<blob, treeVars, mutex, sweepVars, kills>>

\* The records age while nobody touches them.
Age(p) ==
  /\ meta[p] = "fresh"
  /\ meta' = [meta EXCEPT ![p] = "old"]
  /\ UNCHANGED <<runVars, lockFile, mutex, tree, present, ready, scratch, cas, sweepVars,
                 kills>>

-----------------------------------------------------------------------------
(* auto_gc, gc_cache and clear_cache.                                      *)

Sweep(g, from, to) == gc[g] = from /\ gc' = [gc EXCEPT ![g] = to]

\* The packages with a last-used record; `cache clear` takes in every package
\* it finds anything of.
Begin(g) ==
  /\ Sweep(g, "begin", "packages")
  /\ todo' = [todo EXCEPT ![g] =
       {p \in Pkg :
          \/ meta[p] # "none"
          \/ kind[g] = "clear" /\ (p \in present \cup ready \/ scratch[p] # {})}]
  /\ UNCHANGED <<runVars, treeVars, mutex, kind, claim, gcPkg, gcBlob, kills>>

Due(g, p) == kind[g] = "clear" \/ meta[p] = "old"

Pick(g, p) ==
  /\ Sweep(g, "packages", "picked")
  /\ p \in todo[g] /\ Due(g, p)
  /\ todo' = [todo EXCEPT ![g] = @ \ {p}]
  /\ gcPkg' = [gcPkg EXCEPT ![g] = p]
  /\ UNCHANGED <<runVars, treeVars, mutex, kind, claim, gcBlob, kills>>

Pass(g, p) ==
  /\ gc[g] = "packages" /\ p \in todo[g] /\ ~Due(g, p)
  /\ todo' = [todo EXCEPT ![g] = @ \ {p}]
  /\ UNCHANGED <<runVars, treeVars, mutex, kind, gc, claim, gcPkg, gcBlob, kills>>

\* try_remove_locked: a package without a lock file is removed unlocked, one
\* whose lock is held is left alone.
Claim(g) ==
  /\ Sweep(g, "picked", "removing")
  /\ gcPkg[g] \in lockFile => ~PackageInUse(gcPkg[g]) /\ ~Claimed(gcPkg[g])
  /\ claim' = [claim EXCEPT ![g] = gcPkg[g] \in lockFile]
  /\ UNCHANGED <<runVars, treeVars, mutex, kind, todo, gcPkg, gcBlob, kills>>

Skip(g) ==
  /\ Sweep(g, "picked", "packages")
  /\ gcPkg[g] \in lockFile /\ (PackageInUse(gcPkg[g]) \/ Claimed(gcPkg[g]))
  /\ gcPkg' = [gcPkg EXCEPT ![g] = NoOne]
  /\ UNCHANGED <<runVars, treeVars, mutex, kind, todo, claim, gcBlob, kills>>

\* remove_package: the marker before the tree, the tree entry by entry.
MarkerKept(p) == ready \* slip: the marker goes with the records
MarkerRetired(p) == ready \ {p}

RetireMarker(g) ==
  /\ Sweep(g, "removing", "unlinking")
  /\ ready' = MarkerRetired(gcPkg[g])
  /\ UNCHANGED <<runVars, lockFile, mutex, tree, present, scratch, cas, meta, kind, todo,
                 claim, gcPkg, gcBlob, kills>>

RemovePart(g, x) ==
  /\ gc[g] = "unlinking" /\ x \in tree[gcPkg[g]]
  /\ tree' = [tree EXCEPT ![gcPkg[g]] = @ \ {x}]
  /\ UNCHANGED <<runVars, lockFile, mutex, present, ready, scratch, cas, meta, sweepVars,
                 kills>>

RemoveDir(g) ==
  /\ Sweep(g, "unlinking", "forgetting")
  /\ tree[gcPkg[g]] = {}
  /\ present' = present \ {gcPkg[g]}
  /\ UNCHANGED <<runVars, lockFile, mutex, tree, ready, scratch, cas, meta, kind, todo,
                 claim, gcPkg, gcBlob, kills>>

\* The command line removes the scratch too.  A new extraction lock file is
\* nobody's.
Forget(g) ==
  LET p == gcPkg[g] IN
  /\ Sweep(g, "forgetting", "packages")
  /\ scratch' = IF kind[g] = "launch" THEN scratch ELSE [scratch EXCEPT ![p] = {}]
  /\ meta' = [meta EXCEPT ![p] = "none"]
  /\ mutex' = [mutex EXCEPT ![p] = NoOne]
  /\ claim' = [claim EXCEPT ![g] = FALSE]
  /\ gcPkg' = [gcPkg EXCEPT ![g] = NoOne]
  /\ UNCHANGED <<runVars, lockFile, tree, present, ready, cas, kind, todo, gcBlob, kills>>

\* A launch stops after five packages.  Blobs are collected once a package or a
\* view is gone; whether a view is, is left open.
EndPackages(g) ==
  /\ Sweep(g, "packages", "blobs")
  /\ todo[g] = {} \/ kind[g] = "launch"
  /\ UNCHANGED <<runVars, treeVars, mutex, kind, todo, claim, gcPkg, gcBlob, kills>>

AfterBlobs(g) == IF kind[g] = "clear" THEN "pruning" ELSE "done"

\* collect_cas: given up at once while an extraction fills its tree.
UnlockedStore == TRUE \* slip: link counts are trusted without the lock
StoreIdle == ~Filling /\ ~Collecting

LockStore(g) ==
  /\ Sweep(g, "blobs", "collecting")
  /\ StoreIdle
  /\ UNCHANGED <<runVars, treeVars, mutex, kind, todo, claim, gcPkg, gcBlob, kills>>

SkipBlobs(g) ==
  /\ Sweep(g, "blobs", AfterBlobs(g))
  /\ kind[g] = "clear" => ~StoreIdle
  /\ UNCHANGED <<runVars, treeVars, mutex, kind, todo, claim, gcPkg, gcBlob, kills>>

\* The link count is read, then the blob unlinked.
FindUnlinked(g, b) ==
  /\ Sweep(g, "collecting", "dropping")
  /\ cas[b] # "none" /\ ~Linked(b)
  /\ gcBlob' = [gcBlob EXCEPT ![g] = b]
  /\ UNCHANGED <<runVars, treeVars, mutex, kind, todo, claim, gcPkg, kills>>

DropBlob(g) ==
  /\ Sweep(g, "dropping", "collecting")
  /\ cas' = [cas EXCEPT ![gcBlob[g]] = "none"]
  /\ gcBlob' = [gcBlob EXCEPT ![g] = NoOne]
  /\ UNCHANGED <<runVars, lockFile, mutex, tree, present, ready, scratch, meta, kind, todo,
                 claim, gcPkg, kills>>

EndCollecting(g) ==
  /\ Sweep(g, "collecting", AfterBlobs(g))
  /\ \A b \in Blob : cas[b] # "none" => Linked(b)
  /\ UNCHANGED <<runVars, treeVars, mutex, kind, todo, claim, gcPkg, gcBlob, kills>>

\* remove_empty_dirs goes through every directory of the cache.
Prune(g) ==
  /\ Sweep(g, "pruning", "done")
  /\ tree' = [p \in Pkg |-> tree[p] \ {EmptyDir}]
  /\ scratch' = [p \in Pkg |-> scratch[p] \ {EmptyDir}]
  /\ present' = {p \in present : tree[p] \ {EmptyDir} # {}}
  /\ UNCHANGED <<runVars, lockFile, mutex, ready, cas, meta, kind, todo, claim, gcPkg,
                 gcBlob, kills>>

\* The command is run again.
Rerun(g) ==
  /\ Sweep(g, "done", "begin")
  /\ \E p \in Pkg : meta[p] = "old"
  /\ todo' = [todo EXCEPT ![g] = {}]
  /\ UNCHANGED <<runVars, treeVars, mutex, kind, claim, gcPkg, gcBlob, kills>>

-----------------------------------------------------------------------------
(* Killed anywhere: the locks go, what is on disk stays.                   *)

Kill == kills < MaxKills /\ kills' = kills + 1

KillRunner(l) ==
  /\ Kill /\ run[l] \notin {"start", "done", "failed", "killed"}
  /\ run' = [run EXCEPT ![l] = "killed"]
  /\ blob' = [blob EXCEPT ![l] = NoOne]
  /\ Unlock(l)
  /\ UNCHANGED <<treeVars, sweepVars>>

KillSweeper(g) ==
  /\ Kill /\ gc[g] \notin {"begin", "done", "killed"}
  /\ gc' = [gc EXCEPT ![g] = "killed"]
  /\ claim' = [claim EXCEPT ![g] = FALSE]
  /\ gcPkg' = [gcPkg EXCEPT ![g] = NoOne]
  /\ gcBlob' = [gcBlob EXCEPT ![g] = NoOne]
  /\ UNCHANGED <<runVars, treeVars, mutex, kind, todo>>

-----------------------------------------------------------------------------
RunStep(l) ==
  \/ LockInUse(l) \/ RunCached(l) \/ NotCached(l)
  \/ LockExtraction(l) \/ RunExtracted(l) \/ ClearStale(l)
  \/ BeginFill(l) \/ (\E b \in Blob : StoreBlob(l, b)) \/ LinkBlob(l) \/ EndFill(l)
  \/ RenameTree(l) \/ MarkReady(l) \/ RunFresh(l)

SweepStep(g) ==
  \/ Begin(g) \/ (\E p \in Pkg : Pick(g, p) \/ Pass(g, p)) \/ Claim(g) \/ Skip(g)
  \/ RetireMarker(g) \/ (\E x \in Blob \cup {EmptyDir} : RemovePart(g, x))
  \/ RemoveDir(g) \/ Forget(g) \/ EndPackages(g)
  \/ LockStore(g) \/ SkipBlobs(g)
  \/ (\E b \in Blob : FindUnlinked(g, b)) \/ DropBlob(g) \/ EndCollecting(g)
  \/ Prune(g)

PCNext ==
  \/ \E l \in Runner : RunStep(l) \/ Fail(l) \/ Exit(l) \/ KillRunner(l)
  \/ \E g \in Sweeper : SweepStep(g) \/ Rerun(g) \/ KillSweeper(g)
  \/ \E p \in Pkg : Age(p)

PCSpec == PCInit /\ [][PCNext]_cacheVars

(***************************************************************************)
(* Every process keeps running; a blocking flock is granted in the end (a  *)
(* launch waits for one of them at a time, hence one strong fairness for   *)
(* all).  No error has to come, applications may run forever and records   *)
(* need not grow old.                                                      *)
(***************************************************************************)
PCFairness ==
  /\ \A l \in Runner :
       /\ WF_cacheVars(RunStep(l))
       /\ SF_cacheVars(LockInUse(l) \/ LockExtraction(l) \/ BeginFill(l))
  /\ \A g \in Sweeper : WF_cacheVars(SweepStep(g))

PCFairSpec == PCSpec /\ PCFairness

-----------------------------------------------------------------------------
(* Properties.                                                             *)

\* Every variable keeps its type, and an extraction lock is only ever held by a
\* launch that extracts the package it is of.
PCTypeOK ==
  /\ run \in [Runner -> RunPhase]
  /\ blob \in [Runner -> Blob \cup {NoOne}]
  /\ lockFile \subseteq Pkg /\ present \subseteq Pkg /\ ready \subseteq Pkg
  /\ mutex \in [Pkg -> Runner \cup {NoOne}]
  /\ \A p \in Pkg :
       mutex[p] # NoOne => PkgOf[mutex[p]] = p /\ Extracting(mutex[p])
  /\ tree \in [Pkg -> SUBSET (Blob \cup {EmptyDir})]
  /\ scratch \in [Pkg -> SUBSET (Blob \cup {EmptyDir})]
  /\ cas \in [Blob -> {"none", "good", "bad"}]
  /\ meta \in [Pkg -> {"none", "fresh", "old"}]
  /\ kind \in [Sweeper -> Kinds] /\ gc \in [Sweeper -> SweepPhase]
  /\ todo \in [Sweeper -> SUBSET Pkg] /\ claim \in [Sweeper -> BOOLEAN]
  /\ gcPkg \in [Sweeper -> Pkg \cup {NoOne}]
  /\ gcBlob \in [Sweeper -> Blob \cup {NoOne}]
  /\ kills \in 0..MaxKills

\* A running application finds every file of its package in its tree, whatever
\* is swept meanwhile and wherever an extraction or a removal was killed.
\* Packages older releases left are another matter (LegacyRunsWhole).
HoldsFiles(l) ==
  PkgOf[l] \in present /\ BlobsOf[PkgOf[l]] \subseteq tree[PkgOf[l]]
RunsWholeFiles ==
  \A l \in Runner :
    run[l] = "running" /\ PkgOf[l] \notin Legacy => HoldsFiles(l)

\* The marker is never seen without the whole tree it vouches for (the order
\* of remove_package, and of the rename and the marker in ensure_extracted).
MarkedIsWhole ==
  \A p \in Pkg \ Legacy : p \in ready => p \in present /\ BlobsOf[p] \subseteq tree[p]

\* A blob about to be linked into a tree is in its slot and verified, whoever
\* collects or extracts at the same time (the store lock).
LinksVerified == \A l \in Runner : run[l] = "linking" => cas[blob[l]] = "good"

\* "A missing lock file means the package was never run under this protocol,
\* so it is safe to remove" (try_remove_locked): no application loses its files.
LegacyRunsWhole == \A l \in Runner : run[l] = "running" => HoldsFiles(l)

\* "A package still running keeps its tree" (cache_clear), its empty
\* directories with it.
RunningKeepsTree ==
  \A l \in Runner :
    run[l] = "running" => Parts(PkgOf[l]) \subseteq tree[PkgOf[l]]

\* A launch runs or fails in the end: nobody waits on a lock for ever, the
\* applications that keep running least of all.
LaunchReturns ==
  []<>(\A l \in Runner : run[l] \in {"start", "running", "done", "failed", "killed"})
=============================================================================
