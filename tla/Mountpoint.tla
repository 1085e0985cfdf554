----------------------------- MODULE Mountpoint -----------------------------
(***************************************************************************)
(* One directory name under the private runtime directory: the launches    *)
(* that claim it (crates/onelf-rt/src/paths.rs, claim_in and release), the *)
(* sweeps that reclaim it (sweep_in), and, when it is the mountpoint of a  *)
(* dependency set, the detached servers behind it (sets.rs, mount and      *)
(* serve).                                                                 *)
(*                                                                         *)
(* A private directory is a mountpoint in its launch's own namespace and   *)
(* empty to everybody else; taking it away detaches that mount.  A set's   *)
(* is mounted in the host's namespace, where mounts stack.  Lock files are *)
(* numbered as they are created, because a lock taken on a removed file is *)
(* a lock nobody else will see.  A server is named by the launch that      *)
(* forked it.                                                              *)
(***************************************************************************)
EXTENDS Naturals, SequencesExt

CONSTANTS
  Claimant,   \* the launches that use the name
  Reclaimer,  \* the looks sweeps take at it, one at the directory or the lock file
  Kinds,      \* what the name may be: "private", "set"
  Nobody,
  MaxIno,     \* bound: lock files created
  MaxFaults   \* bound: kills, clean-outs and failing helpers

ASSUME MountpointAssumption ==
  /\ Nobody \notin Claimant
  /\ Kinds \subseteq {"private", "set"}
  /\ MaxIno \in Nat /\ MaxFaults \in Nat

VARIABLES
  kind,     \* which of the two this name is
  step,     \* where each launch is
  ino,      \* the lock file its descriptor is open on
  at,       \* the server whose mount it runs from
  creating, \* launches with a descriptor that holds the creation lock
  lockAt,   \* the lock file at the path, 0 for none
  made,     \* lock files created so far
  lockOld,  \* the file at the path is past the grace period
  dir,      \* the directory exists
  dirOld,   \* it is past the grace period
  here,     \* launches whose directory has stood since they made or found it
  stack,    \* the servers mounted on it in the host's namespace, the top last
  srv,      \* where each server is
  first,    \* the lock file a server opened when it started
  sw,       \* where each sweep is
  swIno,    \* the lock file it opened
  faults

claimantVars == <<step, ino, at, creating>>
lockVars     == <<lockAt, made, lockOld>>
dirVars      == <<dir, dirOld, here>>
srvVars      == <<srv, first>>
reclaimVars  == <<sw, swIno>>
mpVars == <<kind, claimantVars, lockVars, dirVars, stack, srvVars, reclaimVars, faults>>

ClaimantPhase ==
  {"start", "opened", "claimed", "ready", "unserved", "creator", "waiting",
   "running", "leaving", "reopened", "removing", "done", "extracts", "killed"}
ServerPhase ==
  {"none", "born", "loose", "mounted", "polling", "leaving", "unmounted", "gone",
   "killed"}
ReclaimPhase ==
  {"idle", "opened", "holding", "unlocked", "removing", "rmdir", "orphan",
   "unlinking", "over"}

-----------------------------------------------------------------------------
(* The locks, which live on descriptors.                                   *)

\* Some descriptor of the launch's open file holds its claim: its own, or the
\* copy a server has not dropped yet.
HoldsClaim(l) ==
  \/ step[l] \in {"claimed", "ready", "unserved", "creator", "waiting", "running"}
  \/ srv[l] = "born"

ClaimedShared(i) == \E l \in Claimant : HoldsClaim(l) /\ ino[l] = i

\* A launch that removes its directory, a sweep that looks at it.
LockedAlone(i) ==
  \/ \E l \in Claimant : step[l] = "removing" /\ ino[l] = i
  \/ \E g \in Reclaimer : sw[g] \in {"holding", "removing", "unlinking"} /\ swIno[g] = i

Lockable(i) == ~ClaimedShared(i) /\ ~LockedAlone(i)

-----------------------------------------------------------------------------
(* What the host's namespace shows at the path.                            *)

Answers(s) == srv[s] = "polling"
Connected(s) == srv[s] \in {"mounted", "polling"}

\* served: a mount is there and answers.  One that is still starting keeps
\* whoever asks waiting.
IsMountpoint == stack # <<>>
Served == IsMountpoint /\ Answers(Last(stack))
Unserved == IsMountpoint => ~Connected(Last(stack))

\* fuse_unmount names the path: what is on top goes, whoever mounted it.
UnmountPath == stack' = IF IsMountpoint THEN Front(stack) ELSE stack

\* rmdir refuses a directory something is mounted on here.
RemoveDir ==
  IF IsMountpoint
  THEN UNCHANGED dirVars
  ELSE dir' = FALSE /\ dirOld' = FALSE /\ here' = {}

Fault == faults < MaxFaults /\ faults' = faults + 1

\* A lock file an earlier launch left may be there already.
MPInit ==
  /\ kind \in Kinds
  /\ step = [l \in Claimant |-> "start"] /\ ino = [l \in Claimant |-> 0]
  /\ at = [l \in Claimant |-> Nobody] /\ creating = {}
  /\ \/ lockAt = 0 /\ made = 0 /\ lockOld = FALSE
     \/ lockAt = 1 /\ made = 1 /\ lockOld \in BOOLEAN /\ MaxIno > 0
  /\ dir = FALSE /\ dirOld = FALSE /\ here = {}
  /\ stack = <<>>
  /\ srv = [l \in Claimant |-> "none"] /\ first = [l \in Claimant |-> 0]
  /\ sw = [g \in Reclaimer |-> "idle"] /\ swIno = [g \in Reclaimer |-> 0]
  /\ faults = 0

-----------------------------------------------------------------------------
(* claim_in.                                                               *)

Moves(l, from, to) == step[l] = from /\ step' = [step EXCEPT ![l] = to]

OpenLock(l) ==
  /\ Moves(l, "start", "opened")
  /\ \/ /\ lockAt # 0
        /\ ino' = [ino EXCEPT ![l] = lockAt]
        /\ UNCHANGED lockVars
     \/ /\ lockAt = 0 /\ made < MaxIno
        /\ made' = made + 1 /\ lockAt' = made + 1 /\ lockOld' = FALSE
        /\ ino' = [ino EXCEPT ![l] = made + 1]
  /\ UNCHANGED <<kind, at, creating, dirVars, stack, srvVars, reclaimVars, faults>>

\* The file locked is not looked for at the path again.
Claim(l) ==
  /\ Moves(l, "opened", "claimed")
  /\ ~LockedAlone(ino[l])
  /\ UNCHANGED <<kind, ino, at, creating, lockVars, dirVars, stack, srvVars, reclaimVars,
                 faults>>

MakeDir(l) ==
  /\ Moves(l, "claimed", "ready")
  /\ dir' = TRUE /\ dirOld' = (dir /\ dirOld)
  /\ here' = here \cup {l}
  /\ UNCHANGED <<kind, ino, at, creating, lockVars, stack, srvVars, reclaimVars, faults>>

-----------------------------------------------------------------------------
(* A private launch, and Mountpoint::release.                              *)

RunPrivately(l) ==
  /\ kind = "private" /\ Moves(l, "ready", "running")
  /\ UNCHANGED <<kind, ino, at, creating, lockVars, dirVars, stack, srvVars, reclaimVars,
                 faults>>

\* The application and all it started are gone, or the mount could not be made.
DropClaim(l) ==
  /\ kind = "private" /\ step[l] \in {"ready", "running"}
  /\ step' = [step EXCEPT ![l] = "leaving"]
  /\ UNCHANGED <<kind, ino, at, creating, lockVars, dirVars, stack, srvVars, reclaimVars,
                 faults>>

Reopen(l) ==
  /\ step[l] = "leaving"
  /\ step' = [step EXCEPT ![l] = IF lockAt = 0 THEN "done" ELSE "reopened"]
  /\ ino' = [ino EXCEPT ![l] = lockAt]
  /\ UNCHANGED <<kind, at, creating, lockVars, dirVars, stack, srvVars, reclaimVars,
                 faults>>

ReleaseUnasked(l) == TRUE \* slip: the directory goes with its first user
MayRemove(l) == Lockable(ino[l])

LockToRemove(l) ==
  /\ Moves(l, "reopened", "removing") /\ MayRemove(l)
  /\ UNCHANGED <<kind, ino, at, creating, lockVars, dirVars, stack, srvVars, reclaimVars,
                 faults>>

LeaveToOthers(l) ==
  /\ Moves(l, "reopened", "done") /\ ~MayRemove(l)
  /\ UNCHANGED <<kind, ino, at, creating, lockVars, dirVars, stack, srvVars, reclaimVars,
                 faults>>

RemoveOwnDir(l) ==
  /\ Moves(l, "removing", "done") /\ RemoveDir
  /\ UNCHANGED <<kind, ino, at, creating, lockVars, stack, srvVars, reclaimVars, faults>>

-----------------------------------------------------------------------------
(* mount in sets.rs: join what is served, or create it.                    *)

JoinsMounted == IsMountpoint \* slip: a mount is there, answering or not
Joins == Served

Join(l) ==
  /\ kind = "set" /\ step[l] \in {"ready", "creator", "waiting"} /\ Joins
  /\ step' = [step EXCEPT ![l] = "running"]
  /\ at' = [at EXCEPT ![l] = Last(stack)]
  /\ creating' = IF srv[l] = "born" THEN creating ELSE creating \ {l}
  /\ UNCHANGED <<kind, ino, lockVars, dirVars, stack, srvVars, reclaimVars, faults>>

FindUnserved(l) ==
  /\ kind = "set" /\ Moves(l, "ready", "unserved") /\ Unserved
  /\ UNCHANGED <<kind, ino, at, creating, lockVars, dirVars, stack, srvVars, reclaimVars,
                 faults>>

LockCreating(l) ==
  /\ Moves(l, "unserved", "creator") /\ creating = {}
  /\ creating' = {l}
  /\ UNCHANGED <<kind, ino, at, lockVars, dirVars, stack, srvVars, reclaimVars, faults>>

\* The creation lock could not be had: it goes on without.
CreateUnlocked(l) ==
  /\ Fault /\ Moves(l, "unserved", "creator")
  /\ UNCHANGED <<kind, ino, at, creating, lockVars, dirVars, stack, srvVars, reclaimVars>>

ForkServer(l) ==
  /\ Moves(l, "creator", "waiting") /\ Unserved
  /\ srv' = [srv EXCEPT ![l] = "born"]
  /\ UNCHANGED <<kind, ino, at, creating, lockVars, dirVars, stack, first, reclaimVars,
                 faults>>

\* No helper, no fork, the server exited, or nothing appeared within two
\* seconds: the set is extracted instead, and the claim goes.
Extract(l) ==
  /\ kind = "set"
  /\ \/ step[l] = "unserved"
     \/ step[l] = "creator" /\ Unserved
     \/ step[l] = "waiting" /\ (Unserved \/ srv[l] \in {"gone", "killed"})
  /\ step' = [step EXCEPT ![l] = "extracts"]
  /\ creating' = IF srv[l] = "born" THEN creating ELSE creating \ {l}
  /\ UNCHANGED <<kind, ino, at, lockVars, dirVars, stack, srvVars, reclaimVars, faults>>

Exit(l) ==
  /\ kind = "set" /\ Moves(l, "running", "done")
  /\ UNCHANGED <<kind, ino, at, creating, lockVars, dirVars, stack, srvVars, reclaimVars,
                 faults>>

-----------------------------------------------------------------------------
(* serve: the detached server.                                             *)

Goes(s, from, to) == srv[s] = from /\ srv' = [srv EXCEPT ![s] = to]

\* The copies of the claim and of the creation lock it was forked with.
DropInherited(s) ==
  /\ Goes(s, "born", "loose")
  /\ creating' = IF step[s] = "waiting" THEN creating ELSE creating \ {s}
  /\ UNCHANGED <<kind, step, ino, at, lockVars, dirVars, stack, first, reclaimVars, faults>>

\* The helper looks at the mountpoint first: one that is missing or does not
\* answer any more is refused.
Mountable == dir /\ (Served \/ ~IsMountpoint)
Refused == ~dir \/ (IsMountpoint /\ Unserved)

Mount(s) ==
  /\ Goes(s, "loose", "mounted") /\ Mountable
  /\ stack' = Append(stack, s)
  /\ UNCHANGED <<kind, claimantVars, lockVars, dirVars, first, reclaimVars, faults>>

MountFails(s) ==
  /\ Goes(s, "loose", "leaving")
  /\ \/ Mountable /\ Fault
     \/ Refused /\ UNCHANGED faults
  /\ UNCHANGED <<kind, claimantVars, lockVars, dirVars, stack, first, reclaimVars>>

\* Loads the container, opens the lock file while it is certain to exist, and
\* serves.
Serve(s) ==
  /\ Goes(s, "mounted", "polling")
  /\ first' = [first EXCEPT ![s] = lockAt]
  /\ UNCHANGED <<kind, claimantVars, lockVars, dirVars, stack, reclaimVars, faults>>

LoadFails(s) ==
  /\ Fault /\ Goes(s, "mounted", "leaving")
  /\ UNCHANGED <<kind, claimantVars, lockVars, dirVars, stack, first, reclaimVars>>

\* unclaimed: asked of the file at the path, of the first one when that is gone.
NeverUnclaimed(s) == FALSE \* slip: a missing lock file counts as claimed
Unclaimed(s) ==
  LET i == IF lockAt # 0 THEN lockAt ELSE first[s] IN i # 0 => Lockable(i)

StopServing(s) ==
  /\ Goes(s, "polling", "leaving") /\ Unclaimed(s)
  /\ UNCHANGED <<kind, claimantVars, lockVars, dirVars, stack, first, reclaimVars, faults>>

\* The mount went away under it.
ConnectionGone(s) ==
  /\ Goes(s, "polling", "leaving") /\ s \notin Range(stack)
  /\ UNCHANGED <<kind, claimantVars, lockVars, dirVars, stack, first, reclaimVars, faults>>

\* One path for a server that mounted and for one that did not.
TakeDown(s) ==
  /\ Goes(s, "leaving", "unmounted") /\ UnmountPath
  /\ UNCHANGED <<kind, claimantVars, lockVars, dirVars, first, reclaimVars, faults>>

RemoveServedDir(s) ==
  /\ Goes(s, "unmounted", "gone") /\ RemoveDir
  /\ UNCHANGED <<kind, claimantVars, lockVars, stack, first, reclaimVars, faults>>

-----------------------------------------------------------------------------
(* sweep_in: reclaim_mountpoint and reclaim_orphan_lock.                   *)

Sweeps(g, from, to) == sw[g] = from /\ sw' = [sw EXCEPT ![g] = to]

SweepOpens(g) ==
  /\ sw[g] = "idle" /\ dir
  /\ \/ lockAt # 0 /\ sw' = [sw EXCEPT ![g] = "opened"]
     \/ lockAt = 0 /\ dirOld /\ sw' = [sw EXCEPT ![g] = "unlocked"]
  /\ swIno' = [swIno EXCEPT ![g] = lockAt]
  /\ UNCHANGED <<kind, claimantVars, lockVars, dirVars, stack, srvVars, faults>>

SweepMayTake(i) == Lockable(i)

SweepLocks(g) ==
  /\ Sweeps(g, "opened", "holding") /\ SweepMayTake(swIno[g])
  /\ UNCHANGED <<kind, claimantVars, lockVars, dirVars, stack, srvVars, swIno, faults>>

SweepPasses(g) ==
  /\ \/ sw[g] = "opened" /\ ~SweepMayTake(swIno[g])
     \/ sw[g] = "orphan" /\ ~SweepMayTake(swIno[g])
     \/ sw[g] \in {"holding", "unlocked"} /\ Served
  /\ sw' = [sw EXCEPT ![g] = "over"]
  /\ UNCHANGED <<kind, claimantVars, lockVars, dirVars, stack, srvVars, swIno, faults>>

\* A mount whose server is gone is taken off first.
SweepUnmounts(g) ==
  /\ \/ Sweeps(g, "holding", "removing")
     \/ Sweeps(g, "unlocked", "rmdir")
  /\ Unserved /\ UnmountPath
  /\ UNCHANGED <<kind, claimantVars, lockVars, dirVars, srvVars, swIno, faults>>

SweepRemoves(g) ==
  /\ Sweeps(g, "removing", "over") \/ Sweeps(g, "rmdir", "over")
  /\ RemoveDir
  /\ UNCHANGED <<kind, claimantVars, lockVars, stack, srvVars, swIno, faults>>

OrphanOpens(g) ==
  /\ Sweeps(g, "idle", "orphan")
  /\ ~dir /\ lockAt # 0 /\ lockOld
  /\ swIno' = [swIno EXCEPT ![g] = lockAt]
  /\ UNCHANGED <<kind, claimantVars, lockVars, dirVars, stack, srvVars, faults>>

OrphanLocks(g) ==
  /\ Sweeps(g, "orphan", "unlinking") /\ SweepMayTake(swIno[g])
  /\ UNCHANGED <<kind, claimantVars, lockVars, dirVars, stack, srvVars, swIno, faults>>

OrphanUnlinks(g) ==
  /\ Sweeps(g, "unlinking", "over")
  /\ lockAt' = 0 /\ lockOld' = FALSE
  /\ UNCHANGED <<kind, claimantVars, made, dirVars, stack, srvVars, swIno, faults>>

-----------------------------------------------------------------------------
(* Time and faults.                                                        *)

\* The grace period is long: nobody is between two steps of a protocol for an hour.
\* Opening a lock file does not touch its modification time.
AtRest ==
  /\ \A l \in Claimant :
       /\ step[l] \in {"start", "running", "done", "extracts", "killed"}
       /\ srv[l] \in {"none", "polling", "gone", "killed"}
  /\ \A g \in Reclaimer : sw[g] \in {"idle", "over"}

GrowOld ==
  /\ AtRest /\ <<lockOld, dirOld>> # <<lockAt # 0, dir>>
  /\ lockOld' = (lockAt # 0) /\ dirOld' = dir
  /\ UNCHANGED <<kind, claimantVars, lockAt, made, dir, here, stack, srvVars, reclaimVars,
                 faults>>

KillClaimant(l) ==
  /\ Fault /\ step[l] \notin {"start", "done", "extracts", "killed"}
  /\ step' = [step EXCEPT ![l] = "killed"]
  /\ creating' = IF srv[l] = "born" THEN creating ELSE creating \ {l}
  /\ UNCHANGED <<kind, ino, at, lockVars, dirVars, stack, srvVars, reclaimVars>>

\* Its mount stays on the path and answers nobody.
KillServer(s) ==
  /\ Fault /\ srv[s] \in {"born", "loose", "mounted", "polling", "leaving"}
  /\ srv' = [srv EXCEPT ![s] = "killed"]
  /\ creating' = IF step[s] = "waiting" THEN creating ELSE creating \ {s}
  /\ UNCHANGED <<kind, step, ino, at, lockVars, dirVars, stack, first, reclaimVars>>

\* Something else cleans the runtime directory out.
CleanOut ==
  /\ Fault /\ lockAt # 0
  /\ lockAt' = 0 /\ lockOld' = FALSE
  /\ UNCHANGED <<kind, claimantVars, made, dirVars, stack, srvVars, reclaimVars>>

-----------------------------------------------------------------------------
ClaimantStep(l) ==
  \/ OpenLock(l) \/ Claim(l) \/ MakeDir(l) \/ RunPrivately(l)
  \/ Reopen(l) \/ LockToRemove(l) \/ LeaveToOthers(l) \/ RemoveOwnDir(l)
  \/ Join(l) \/ FindUnserved(l) \/ LockCreating(l) \/ ForkServer(l) \/ Extract(l)

ServerStep(s) ==
  \/ DropInherited(s) \/ Mount(s) \/ MountFails(s) \/ Serve(s) \/ LoadFails(s)
  \/ StopServing(s) \/ ConnectionGone(s) \/ TakeDown(s) \/ RemoveServedDir(s)

ReclaimStep(g) ==
  \/ SweepOpens(g) \/ SweepLocks(g) \/ SweepPasses(g) \/ SweepUnmounts(g)
  \/ SweepRemoves(g) \/ OrphanOpens(g) \/ OrphanLocks(g) \/ OrphanUnlinks(g)

MPNext ==
  \/ \E l \in Claimant :
       ClaimantStep(l) \/ DropClaim(l) \/ CreateUnlocked(l) \/ Exit(l) \/ ServerStep(l)
         \/ KillClaimant(l) \/ KillServer(l)
  \/ \E g \in Reclaimer : ReclaimStep(g)
  \/ GrowOld \/ CleanOut

MPSpec == MPInit /\ [][MPNext]_mpVars

(***************************************************************************)
(* Launches, servers and sweeps keep running.  Applications need never     *)
(* exit.  Weak fairness is enough for the locks: each is wanted by         *)
(* finitely many processes once, and so is free in the end.                *)
(***************************************************************************)
MPFairness ==
  /\ \A l \in Claimant :
       /\ WF_mpVars(ClaimantStep(l)) /\ WF_mpVars(ServerStep(l))
  /\ \A g \in Reclaimer : WF_mpVars(ReclaimStep(g))

MPFairSpec == MPSpec /\ MPFairness

-----------------------------------------------------------------------------
(* Properties.                                                             *)

\* Every variable keeps its type, and only a launch that creates, or the server
\* it has just forked, holds the creation lock.
MPTypeOK ==
  /\ kind \in Kinds
  /\ step \in [Claimant -> ClaimantPhase] /\ ino \in [Claimant -> 0..MaxIno]
  /\ at \in [Claimant -> Claimant \cup {Nobody}]
  /\ creating \subseteq Claimant
  /\ \A l \in creating : step[l] \in {"creator", "waiting"} \/ srv[l] = "born"
  /\ lockAt \in 0..MaxIno /\ made \in 0..MaxIno /\ lockOld \in BOOLEAN
  /\ dir \in BOOLEAN /\ dirOld \in BOOLEAN /\ here \subseteq Claimant
  /\ stack \in Seq(Claimant)
  /\ srv \in [Claimant -> ServerPhase] /\ first \in [Claimant -> 0..MaxIno]
  /\ sw \in [Reclaimer -> ReclaimPhase] /\ swIno \in [Reclaimer -> 0..MaxIno]
  /\ faults \in 0..MaxFaults

\* The lock file the first claim was made on is still the one at the path.
OneLockFile == made <= 1 /\ lockAt = made

\* A launch keeps the directory it claimed: no sweep, and no other launch that
\* releases it, takes it away ("it cannot remove the directory out from under
\* us", Mountpoint), as long as nobody unlinks the lock file.
Uses(l) == step[l] \in {"ready", "running"}
ClaimKeepsDir ==
  kind = "private" /\ OneLockFile => \A l \in Claimant : Uses(l) => l \in here

\* A launch that runs from a set's mount is not left by the server behind it: the
\* claim came before the answer, a server that answered asks again, and one whose
\* lock file is cleaned out asks the descriptor it opened (serve, unclaimed).
ServerStays ==
  \A l \in Claimant :
    kind = "set" /\ step[l] = "running" /\ at[l] \in Range(stack)
      /\ made <= 1 /\ first[at[l]] = ino[l]
      => srv[at[l]] \in {"polling", "killed"}

\* A server nobody claims the set of any more leaves in the end, and neither a
\* launch that gave up on it nor a cleaned-out directory keeps it.
SetServerLeaves ==
  \A s \in Claimant :
    <>[](\A l \in Claimant : ~HoldsClaim(l))
      => <>[](srv[s] \in {"none", "gone", "killed"})
=============================================================================
