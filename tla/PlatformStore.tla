----------------------------- MODULE PlatformStore -----------------------------
(***************************************************************************)
(* One pinned build in the platform store (crates/onelf-rt/src/platform.rs,*)
(* acquire and stage): launches that need it verify the stored file, or    *)
(* stage a copy beside it, verify that and rename it over the name, one    *)
(* acquirer of the label at a time.  The bundler puts builds there without *)
(* the lock (crates/onelf/src/bundle/sysroot.rs, set_build), and           *)
(* `onelf cache` removes them (crates/onelf/src/cache.rs).                 *)
(*                                                                         *)
(* A file is an inode that its writer alone makes; the name, the staging   *)
(* scratches and the label's directory are looked up when they are used.   *)
(***************************************************************************)
EXTENDS FiniteSets, Naturals

CONSTANTS
  Acquirer,  \* launches that need the build
  Builder,   \* bundler runs that need it
  Pid,       \* process ids; two namespaces may give out the same
  Nothing,   \* what a name with no file stands for
  MaxDirs,   \* bound: label directories that are made
  MaxLosses  \* bound: processes killed

ASSUME PlatformAssumption ==
  /\ Acquirer \cap Builder = {}
  /\ Nothing \notin Acquirer \cup Builder
  /\ MaxDirs \in Nat \ {0} /\ MaxLosses \in Nat

Way == {"import", "fetch"}
Inode == (Acquirer \X Way) \cup (Builder \X {"fetch"}) \cup {<<Nothing, "old">>}
NoInode == <<Nothing, "none">>

VARIABLES
  acq,      \* where each acquirer is
  way,      \* where the copy it stages comes from
  pid,
  pinned,   \* the label directory it holds
  handle,   \* the file it was served
  lockUser, \* who holds the label's lock
  lockMade, \* the lock file exists
  dir,      \* the label directory that is there, 0 for none
  dirs,     \* how many were made
  named,    \* what the build's name stands for
  spool,    \* what each staging name stands for
  data,     \* what each file holds
  part,     \* the bundlers' partial downloads
  builder,  \* where each bundler run is
  collector, \* where the collection of idle files is
  losses

acquirerVars == <<acq, way, pid, pinned, handle>>
lockVars     == <<lockUser, lockMade>>
labelVars    == <<dir, dirs>>
bundleVars   == <<part, builder>>
platformVars == <<acquirerVars, lockVars, labelVars, named, spool, data, bundleVars,
                  collector, losses>>

Searching == {"looking", "making", "locking"}
UnderLock == {"rechecking", "pinning", "creating", "filling", "checking", "publishing",
              "comparing"}
AcqPhase  == Searching \cup UnderLock \cup {"served", "failed", "killed"}
BuilderPhase == {"looking", "making", "starting", "loading", "checking", "publishing",
                 "served", "failed", "killed"}

Good(f) == f # NoInode /\ data[f] = "good"
Own(a) == <<a, way[a]>>
Here(a) == pinned[a] = dir

PFInit ==
  /\ acq = [a \in Acquirer |-> "looking"]
  /\ way = [a \in Acquirer |-> "import"]
  /\ pid \in [Acquirer -> Pid]
  /\ pinned = [a \in Acquirer |-> 0]
  /\ handle = [a \in Acquirer |-> NoInode]
  /\ lockUser = Nothing
  /\ \/ dir = 0 /\ named = NoInode /\ lockMade \in BOOLEAN
     \/ dir = 1 /\ named = <<Nothing, "old">> /\ lockMade \in BOOLEAN
  /\ dirs = dir
  /\ spool = [p \in Pid |-> NoInode]
  /\ \E old \in {"good", "bad"} :
       data = [i \in Inode |-> IF i = <<Nothing, "old">> THEN old ELSE "empty"]
  /\ part = {}
  /\ builder = [b \in Builder |-> "looking"]
  /\ collector = "idle"
  /\ losses = 0

-----------------------------------------------------------------------------
(* acquire, before the lock.                                               *)

To(a, phase) == acq' = [acq EXCEPT ![a] = phase]

GiveUpLock(a) == lockUser' = IF lockUser = a THEN Nothing ELSE lockUser

\* own_copy: the stored file is pinned and hashed.
Look(a) ==
  /\ acq[a] = "looking"
  /\ IF Good(named)
       THEN To(a, "served") /\ handle' = [handle EXCEPT ![a] = named]
       ELSE acq' \in {[acq EXCEPT ![a] = p] : p \in {"making", "failed"}} /\ UNCHANGED handle
  /\ UNCHANGED <<way, pid, pinned, lockVars, labelVars, named, spool, data, bundleVars,
                 collector, losses>>

MakeDir ==
  IF dir # 0 THEN UNCHANGED labelVars
             ELSE dirs < MaxDirs /\ dir' = dirs + 1 /\ dirs' = dirs + 1

MakeStoreDirs(a) ==
  /\ acq[a] = "making" /\ MakeDir /\ To(a, "locking")
  /\ UNCHANGED <<way, pid, pinned, handle, lockVars, named, spool, data, bundleVars,
                 collector, losses>>

UnlockedLabel(a) == TRUE \* slip: the pid in a scratch's name is trusted to keep two apart
LabelFree(a) == lockUser = Nothing

LockLabel(a) ==
  /\ acq[a] = "locking" /\ LabelFree(a)
  /\ dir # 0 \/ lockMade
  /\ lockUser' = a /\ lockMade' = TRUE /\ To(a, "rechecking")
  /\ UNCHANGED <<way, pid, pinned, handle, labelVars, named, spool, data, bundleVars,
                 collector, losses>>

\* The store's directory itself was empty, and was removed.
NoStoreToLock(a) ==
  /\ acq[a] = "locking" /\ dir = 0 /\ ~lockMade
  /\ To(a, "failed")
  /\ UNCHANGED <<way, pid, pinned, handle, lockVars, labelVars, named, spool, data,
                 bundleVars, collector, losses>>

-----------------------------------------------------------------------------
(* acquire, under the lock.                                                *)

NoRecheck == FALSE \* slip: the name is not looked at again
FoundAfterWait == Good(named)

\* Nothing is staged under a directory that own_copy cannot walk safely.
Recheck(a) ==
  /\ acq[a] = "rechecking"
  /\ \/ FoundAfterWait /\ To(a, "served") /\ handle' = [handle EXCEPT ![a] = named]
        /\ GiveUpLock(a)
     \/ ~FoundAfterWait /\ To(a, "pinning") /\ UNCHANGED <<handle, lockUser>>
     \/ ~FoundAfterWait /\ To(a, "failed") /\ UNCHANGED handle /\ GiveUpLock(a)
  /\ UNCHANGED <<way, pid, pinned, lockMade, labelVars, named, spool, data, bundleVars,
                 collector, losses>>

\* With no store to import from, a fetch is the first opportunity.
PinLabel(a) ==
  /\ acq[a] = "pinning"
  /\ \/ /\ dir # 0 /\ To(a, "creating") /\ pinned' = [pinned EXCEPT ![a] = dir]
        /\ \E w \in Way : way' = [way EXCEPT ![a] = w]
        /\ UNCHANGED lockUser
     \/ dir = 0 /\ To(a, "failed") /\ GiveUpLock(a) /\ UNCHANGED <<way, pinned>>
  /\ UNCHANGED <<pid, handle, lockMade, labelVars, named, spool, data, bundleVars,
                 collector, losses>>

\* A failed import leaves the fetch, unless it is forbidden; a failed fetch ends it.
NextWay(a) ==
  \/ /\ way[a] = "import" /\ way' = [way EXCEPT ![a] = "fetch"] /\ To(a, "creating")
     /\ UNCHANGED lockUser
  \/ To(a, "failed") /\ GiveUpLock(a) /\ UNCHANGED way

\* stage: an exclusive name; a directory that was removed takes no file.
CreateScratch(a) ==
  /\ acq[a] = "creating" /\ Here(a) /\ spool[pid[a]] = NoInode
  /\ spool' = [spool EXCEPT ![pid[a]] = Own(a)]
  /\ To(a, "filling")
  /\ UNCHANGED <<way, pid, pinned, handle, lockVars, labelVars, named, data, bundleVars,
                 collector, losses>>

\* Left by a process that had this pid.
UnlinkLeftScratch(a) ==
  /\ acq[a] = "creating" /\ Here(a) /\ spool[pid[a]] # NoInode
  /\ spool' = [spool EXCEPT ![pid[a]] = NoInode]
  /\ UNCHANGED <<acquirerVars, lockVars, labelVars, named, data, bundleVars, collector,
                 losses>>

CannotStage(a) ==
  /\ acq[a] = "creating" /\ ~Here(a) /\ NextWay(a)
  /\ UNCHANGED <<pid, pinned, handle, lockMade, labelVars, named, spool, data, bundleVars,
                 collector, losses>>

\* import_copy and fetch: the source may be missing, cut short or another build.
Fill(a) ==
  /\ acq[a] = "filling" /\ To(a, "checking")
  /\ \E d \in {"good", "bad"} : data' = [data EXCEPT ![Own(a)] = d]
  /\ UNCHANGED <<way, pid, pinned, handle, lockVars, labelVars, named, spool, bundleVars,
                 collector, losses>>

\* What stage removes when it fails: the name, whatever it stands for now.
Unstaged(a) == IF Here(a) THEN [spool EXCEPT ![pid[a]] = NoInode] ELSE spool

FillFails(a) ==
  /\ acq[a] = "filling" /\ spool' = Unstaged(a) /\ NextWay(a)
  /\ UNCHANGED <<pid, pinned, handle, lockMade, labelVars, named, data, bundleVars,
                 collector, losses>>

Passes(a) == data[Own(a)] = "good"

CheckDigest(a) ==
  /\ acq[a] = "checking"
  /\ \/ Passes(a) /\ To(a, "publishing") /\ UNCHANGED <<way, lockUser, spool>>
     \/ ~Passes(a) /\ spool' = Unstaged(a) /\ NextWay(a)
  /\ UNCHANGED <<pid, pinned, handle, lockMade, labelVars, named, data, bundleVars,
                 collector, losses>>

\* The rename moves what the scratch's name stands for.
Rename(a) ==
  /\ acq[a] = "publishing" /\ Here(a) /\ spool[pid[a]] # NoInode
  /\ named' = spool[pid[a]] /\ spool' = [spool EXCEPT ![pid[a]] = NoInode]
  /\ To(a, "comparing")
  /\ UNCHANGED <<way, pid, pinned, handle, lockVars, labelVars, data, bundleVars, collector,
                 losses>>

RenameFails(a) ==
  /\ acq[a] = "publishing" /\ spool' = Unstaged(a) /\ NextWay(a)
  /\ UNCHANGED <<pid, pinned, handle, lockMade, labelVars, named, data, bundleVars,
                 collector, losses>>

\* The name must stand for the verified file; another one is removed again.
NamedHere(a) == IF Here(a) THEN named ELSE NoInode

Compare(a) ==
  /\ acq[a] = "comparing"
  /\ \/ /\ NamedHere(a) = Own(a)
        /\ To(a, "served") /\ handle' = [handle EXCEPT ![a] = Own(a)] /\ GiveUpLock(a)
        /\ UNCHANGED <<way, named, spool>>
     \/ /\ NamedHere(a) # Own(a)
        /\ named' = IF Here(a) THEN NoInode ELSE named
        /\ spool' = Unstaged(a)
        /\ NextWay(a) /\ UNCHANGED handle
  /\ UNCHANGED <<pid, pinned, lockMade, labelVars, data, bundleVars, collector, losses>>

-----------------------------------------------------------------------------
(* set_build.                                                              *)

BTo(b, phase) == builder' = [builder EXCEPT ![b] = phase]

BuilderLooks(b) ==
  /\ builder[b] = "looking"
  /\ IF Good(named) THEN BTo(b, "served") ELSE BTo(b, "making") \/ BTo(b, "failed")
  /\ UNCHANGED <<acquirerVars, lockVars, labelVars, named, spool, data, part, collector,
                 losses>>

BuilderMakesDirs(b) ==
  /\ builder[b] = "making" /\ MakeDir /\ BTo(b, "starting")
  /\ UNCHANGED <<acquirerVars, lockVars, named, spool, data, part, collector, losses>>

BuilderStarts(b) ==
  /\ builder[b] = "starting"
  /\ IF dir # 0 THEN BTo(b, "loading") /\ part' = part \cup {b}
                ELSE BTo(b, "failed") /\ UNCHANGED part
  /\ UNCHANGED <<acquirerVars, lockVars, labelVars, named, spool, data, collector, losses>>

BuilderLoads(b) ==
  /\ builder[b] = "loading" /\ BTo(b, "checking")
  /\ \E d \in {"good", "bad"} : data' = [data EXCEPT ![<<b, "fetch">>] = d]
  /\ UNCHANGED <<acquirerVars, lockVars, labelVars, named, spool, part, collector, losses>>

BuilderChecks(b) ==
  /\ builder[b] = "checking"
  /\ IF data[<<b, "fetch">>] = "good"
       THEN BTo(b, "publishing") /\ UNCHANGED part
       ELSE BTo(b, "failed") /\ part' = part \ {b}
  /\ UNCHANGED <<acquirerVars, lockVars, labelVars, named, spool, data, collector, losses>>

BuilderPublishes(b) ==
  /\ builder[b] = "publishing" /\ BTo(b, "served")
  /\ named' = <<b, "fetch">> /\ part' = part \ {b}
  /\ UNCHANGED <<acquirerVars, lockVars, labelVars, spool, data, collector, losses>>

-----------------------------------------------------------------------------
(* gc_cache and clear_cache.                                               *)

\* stored_builds lists the name; staging names and partial downloads are not builds.
ListBuilds ==
  /\ collector = "idle"
  /\ collector' = IF named # NoInode THEN "listed" ELSE "emptying"
  /\ UNCHANGED <<acquirerVars, lockVars, labelVars, named, spool, data, bundleVars, losses>>

\* By name: what is there by now goes, however young.
RemoveBuild ==
  /\ collector = "listed" /\ collector' = "emptying" /\ named' = NoInode
  /\ UNCHANGED <<acquirerVars, lockVars, labelVars, spool, data, bundleVars, losses>>

LabelEmpty == named = NoInode /\ part = {} /\ \A p \in Pid : spool[p] = NoInode

\* The label's directory goes when nothing is in it.
RemoveLabelDir ==
  /\ collector = "emptying" /\ collector' = "over"
  /\ dir' = IF LabelEmpty THEN 0 ELSE dir
  /\ UNCHANGED <<acquirerVars, lockVars, dirs, named, spool, data, bundleVars, losses>>

-----------------------------------------------------------------------------
(* A process may be killed at any point.                                   *)

Loss == losses < MaxLosses /\ losses' = losses + 1

KillAcquirer(a) ==
  /\ Loss /\ acq[a] \notin {"served", "failed", "killed"}
  /\ To(a, "killed") /\ GiveUpLock(a)
  /\ UNCHANGED <<way, pid, pinned, handle, lockMade, labelVars, named, spool, data,
                 bundleVars, collector>>

KillBuilder(b) ==
  /\ Loss /\ builder[b] \notin {"served", "failed", "killed"} /\ BTo(b, "killed")
  /\ UNCHANGED <<acquirerVars, lockVars, labelVars, named, spool, data, part, collector>>

-----------------------------------------------------------------------------
AcquirerStep(a) ==
  \/ Look(a) \/ MakeStoreDirs(a) \/ LockLabel(a) \/ NoStoreToLock(a) \/ Recheck(a)
  \/ PinLabel(a) \/ CreateScratch(a) \/ UnlinkLeftScratch(a) \/ CannotStage(a)
  \/ Fill(a) \/ FillFails(a) \/ CheckDigest(a) \/ Rename(a) \/ RenameFails(a) \/ Compare(a)

BuilderStep(b) ==
  \/ BuilderLooks(b) \/ BuilderMakesDirs(b) \/ BuilderStarts(b) \/ BuilderLoads(b)
  \/ BuilderChecks(b) \/ BuilderPublishes(b)

PFNext ==
  \/ \E a \in Acquirer : AcquirerStep(a) \/ KillAcquirer(a)
  \/ \E b \in Builder : BuilderStep(b) \/ KillBuilder(b)
  \/ ListBuilds \/ RemoveBuild \/ RemoveLabelDir

PFSpec == PFInit /\ [][PFNext]_platformVars

-----------------------------------------------------------------------------
(* Properties.                                                             *)

\* Every variable keeps its type; the lock is held by whom it protects.
PFTypeOK ==
  /\ acq \in [Acquirer -> AcqPhase] /\ way \in [Acquirer -> Way]
  /\ pid \in [Acquirer -> Pid] /\ pinned \in [Acquirer -> 0..MaxDirs]
  /\ handle \in [Acquirer -> Inode \cup {NoInode}]
  /\ lockUser \in Acquirer \cup {Nothing} /\ lockMade \in BOOLEAN
  /\ dir \in 0..MaxDirs /\ dirs \in 0..MaxDirs
  /\ named \in Inode \cup {NoInode} /\ spool \in [Pid -> Inode \cup {NoInode}]
  /\ data \in [Inode -> {"empty", "good", "bad"}]
  /\ part \subseteq Builder /\ builder \in [Builder -> BuilderPhase]
  /\ collector \in {"idle", "listed", "emptying", "over"} /\ losses \in 0..MaxLosses

\* A launch is served the pinned build's bytes and nothing else, and what anybody
\* publishes is that build already when it gets the name (acquire, "trust comes
\* from the digest, never from who wrote the bytes").
HandlesVerified ==
  /\ \A a \in Acquirer : acq[a] = "served" => Good(handle[a])
  /\ named = NoInode \/ named = <<Nothing, "old">> \/ Good(named)

\* The scratch an acquirer is filling or about to publish is still there and its
\* own: the removal of a scratch a dead process left never takes a live one's, and
\* the collector never takes the directory from under it (stage, "the publication
\* lock proves no live acquirer is staging").
StagedIsOwn ==
  \A a \in Acquirer : acq[a] \in {"filling", "checking", "publishing"} =>
    Here(a) /\ spool[pid[a]] = Own(a)

\* Of the launches that wait for each other, one stages and publishes; the others
\* are served its copy, unless the collector or a bundler came in between
\* (acquire, "exactly one stages and publishes").
OneStages ==
  (collector \in {"idle", "listed"} /\ \A b \in Builder : builder[b] # "served") =>
    Cardinality({a \in Acquirer : acq[a] = "served" /\ handle[a] = Own(a)}) <= 1
=============================================================================
