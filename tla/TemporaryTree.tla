----------------------------- MODULE TemporaryTree -----------------------------
(***************************************************************************)
(* The execution modes a launch tries in turn (crates/onelf-rt/src/main.rs,*)
(* run) and the two that extract the package for this launch alone: the    *)
(* tmpfs mode (ephemeral.rs) and the runtime directory mode (rundir.rs),   *)
(* with their claims (paths.rs) and what their guardian does at the end    *)
(* (guardian.rs, supervise).                                               *)
(*                                                                         *)
(* The other modes are attempts that succeed or fail; the one that mounts  *)
(* sweeps first.  A claim is the lock on a name: how the lock's file comes *)
(* and goes is in Mountpoint.  A directory is named by the package or by   *)
(* the process id of the launch, and a process id is given away again      *)
(* while the guardian of its launch is still there.                        *)
(***************************************************************************)
EXTENDS Naturals, Sequences

CONSTANTS
  Starter,  \* launches of the package
  ProcId,   \* process ids they may get
  Part,     \* what the package extracts to
  Asked,    \* what a launch may be asked for, and what its package says
  MaxEnds   \* bound: processes killed

ASSUME TreeAssumption ==
  /\ "nobody" \notin Starter /\ ProcId \cap {"none", "package"} = {}
  /\ Part # {} /\ "no tree" \notin Part
  /\ Asked \subseteq
       [force : {"none", "memfd", "fuse", "tmpfs", "rundir", "cache", "other"},
        static : BOOLEAN, setuid : BOOLEAN, prefer : BOOLEAN, keep : BOOLEAN]
  /\ MaxEnds \in Nat

VARIABLES
  asked,     \* of each launch
  tried,     \* the mode it is at, in the order they are tried
  turn,      \* how far it is with it
  number,    \* its process id
  unshared,  \* what took it out of the host's namespaces: a mode, or half of entering one
  written,   \* the parts its extraction has written
  copies,    \* which of its processes have a descriptor that holds its claim
  stageHeld, \* it claims its staging tree
  root,      \* what the directory at each name holds
  writer,    \* whose extraction that is
  mountedOn, \* the name its tmpfs is mounted on, while its namespace lasts
  visit,     \* the names its sweep has still to look at
  clearing,  \* the one it is removing
  guard,     \* where its guardian is
  program,   \* where its application is
  ends

chainVars == <<asked, tried, number, unshared>>
claimVars == <<copies, stageHeld>>
placeVars == <<root, writer, mountedOn>>
lookVars  == <<visit, clearing>>
forkVars  == <<guard, program>>
ttVars  == <<chainVars, turn, written, claimVars, placeVars, lookVars, forkVars, ends>>

NoTree == {"no tree"}
NoName == <<"none", "none">>
TreeName == {<<"package", "shared">>} \cup (ProcId \X {"tree", "staging"})

Ends == ends < MaxEnds /\ ends' = ends + 1
Turns(l, from, to) == turn[l] = from /\ turn' = [turn EXCEPT ![l] = to]

TTInit ==
  /\ asked \in [Starter -> Asked]
  /\ tried = [l \in Starter |-> 0] /\ turn = [l \in Starter |-> "idle"]
  /\ number = [l \in Starter |-> "none"] /\ unshared = [l \in Starter |-> {}]
  /\ written = [l \in Starter |-> {}]
  /\ copies = [l \in Starter |-> {}] /\ stageHeld = [l \in Starter |-> FALSE]
  /\ root = [n \in TreeName |-> NoTree] /\ writer = [n \in TreeName |-> "nobody"]
  /\ mountedOn = [l \in Starter |-> NoName]
  /\ visit = [l \in Starter |-> {}] /\ clearing = [l \in Starter |-> NoName]
  /\ guard = [l \in Starter |-> "none"] /\ program = [l \in Starter |-> "none"]
  /\ ends = 0

-----------------------------------------------------------------------------
(* The modes in turn.                                                      *)

Chain == <<"memory", "preferred", "fuse", "tmpfs", "rundir", "cache">>
Mode(l) == Chain[tried[l]]

\* A package that runs setuid programs stays in the namespace it was started in.
MayUnshare(w) == ~w.setuid

Tries(w, m) ==
  CASE m = "memory"    -> w.static /\ (w.force = "memfd" \/ (w.force = "none" /\ ~w.prefer))
    [] m = "preferred" -> w.force = "none" /\ w.prefer
    [] m = "fuse"      -> w.force \in {"none", "fuse"}
    [] m = "tmpfs"     -> w.force \in {"none", "tmpfs"} /\ MayUnshare(w)
    [] m = "rundir"    -> w.force \in {"none", "rundir"}
    [] m = "cache"     -> w.force = "cache" \/ (w.keep /\ w.force \in {"none", "other"})

\* The next mode that may be tried; a forced mode has none after it.
GoOn(l) ==
  LET rest == {m \in DOMAIN Chain : tried[l] < m /\ Tries(asked[l], Chain[m])} IN
  \/ /\ rest = {}
     /\ turn' = [turn EXCEPT ![l] = "failed"] /\ UNCHANGED tried
  \/ \E m \in rest :
       /\ \A k \in rest : m <= k
       /\ tried' = [tried EXCEPT ![l] = m] /\ turn' = [turn EXCEPT ![l] = "trying"]

Begins(l, p) ==
  /\ turn[l] = "idle" /\ GoOn(l)
  /\ \A k \in Starter : turn[k] \notin {"idle", "failed", "over"} => number[k] # p
  /\ number' = [number EXCEPT ![l] = p]
  /\ UNCHANGED <<asked, unshared, written, claimVars, placeVars, lookVars, forkVars, ends>>

OfOther(m) == m \in {"memory", "preferred", "cache"}
AtOther(l) ==
  \/ turn[l] = "trying" /\ OfOther(Mode(l))
  \/ turn[l] = "mounting"

RunsElsewhere(l) ==
  /\ AtOther(l) /\ turn' = [turn EXCEPT ![l] = "over"]
  /\ UNCHANGED <<chainVars, written, claimVars, placeVars, lookVars, forkVars, ends>>

\* fuse_mount_unshare enters its namespace before it opens the device and mounts.
FailsElsewhere(l) ==
  /\ AtOther(l) /\ GoOn(l)
  /\ \/ UNCHANGED unshared
     \/ /\ Mode(l) = "fuse" /\ MayUnshare(asked[l])
        /\ unshared' = [unshared EXCEPT ![l] = @ \cup {"fuse"}]
  /\ UNCHANGED <<asked, number, written, claimVars, placeVars, lookVars, forkVars, ends>>

-----------------------------------------------------------------------------
(* The directories and the locks on their names.                           *)

\* The tmpfs is mounted on the directory all launches of the package share.
Base(l) == IF Mode(l) = "tmpfs" THEN <<"package", "shared">> ELSE <<number[l], "tree">>
Staging(l) == <<number[l], "staging">>

Claims(l, n) == (copies[l] # {} /\ Base(l) = n) \/ (stageHeld[l] /\ Staging(l) = n)
Cleared(n) == \E l \in Starter : clearing[l] = n
MayRemove(n, users) == ~Cleared(n) /\ \A l \in users : ~Claims(l, n)

MakeDirectory(n) ==
  /\ root' = [root EXCEPT ![n] = IF @ = NoTree THEN {} ELSE @]
  /\ UNCHANGED <<writer, mountedOn>>

\* A directory takes the mounts on it along, whatever namespace they are in.
Removed(n) ==
  /\ root' = [root EXCEPT ![n] = NoTree]
  /\ writer' = [writer EXCEPT ![n] = "nobody"]
  /\ mountedOn' = [l \in Starter |-> IF mountedOn[l] = n THEN NoName ELSE mountedOn[l]]

RemovedIfEmpty(n) == IF root[n] = {} THEN Removed(n) ELSE UNCHANGED placeVars

\* remove_dir_all takes the parts one by one, then the directory.
RemovesPart(n) ==
  /\ root[n] # NoTree
  /\ \E p \in root[n] : root' = [root EXCEPT ![n] = @ \ {p}]
  /\ UNCHANGED <<writer, mountedOn>>

-----------------------------------------------------------------------------
(* sweep_in, over the directories, in any order.                           *)

Sweeps(l) ==
  /\ Turns(l, "trying", "sweeping") /\ ~OfOther(Mode(l))
  /\ visit' = [visit EXCEPT ![l] = {n \in TreeName : root[n] # NoTree}]
  /\ UNCHANGED <<chainVars, written, claimVars, placeVars, clearing, forkVars, ends>>

Looks(l, n) ==
  /\ turn[l] = "sweeping" /\ clearing[l] = NoName /\ n \in visit[l]
  /\ visit' = [visit EXCEPT ![l] = @ \ {n}]

SweepTakes(n) == MayRemove(n, Starter)

StartsClearing(l, n) ==
  /\ Looks(l, n) /\ SweepTakes(n) /\ root[n] # NoTree
  /\ clearing' = [clearing EXCEPT ![l] = n]
  /\ UNCHANGED <<chainVars, turn, written, claimVars, placeVars, forkVars, ends>>

PassesBy(l, n) ==
  /\ Looks(l, n) /\ (SweepTakes(n) => root[n] = NoTree)
  /\ UNCHANGED <<chainVars, turn, written, claimVars, placeVars, clearing, forkVars, ends>>

Clears(l) ==
  /\ clearing[l] # NoName
  /\ \/ RemovesPart(clearing[l]) /\ UNCHANGED clearing
     \/ /\ RemovedIfEmpty(clearing[l]) /\ root[clearing[l]] \in {{}, NoTree}
        /\ clearing' = [clearing EXCEPT ![l] = NoName]
  /\ UNCHANGED <<chainVars, turn, written, claimVars, visit, forkVars, ends>>

SweepIsOver(l) ==
  /\ turn[l] = "sweeping" /\ visit[l] = {} /\ clearing[l] = NoName
  /\ turn' = [turn EXCEPT ![l] = IF Mode(l) = "fuse" THEN "mounting" ELSE "claiming"]
  /\ UNCHANGED <<chainVars, written, claimVars, placeVars, lookVars, forkVars, ends>>

-----------------------------------------------------------------------------
(* execute_tmpfs and execute_rundir.                                       *)

\* claim_in: whoever removes the directory is waited for.
ClaimsBase(l) ==
  /\ Turns(l, "claiming", "based") /\ ~Cleared(Base(l))
  /\ copies' = [copies EXCEPT ![l] = {"launch"}]
  /\ MakeDirectory(Base(l))
  /\ UNCHANGED <<chainVars, written, stageHeld, lookVars, forkVars, ends>>

ClaimsStage(l) ==
  /\ Turns(l, "based", "staged") /\ ~Cleared(Staging(l))
  /\ stageHeld' = [stageHeld EXCEPT ![l] = TRUE]
  /\ written' = [written EXCEPT ![l] = {}]
  /\ MakeDirectory(Staging(l))
  /\ UNCHANGED <<chainVars, copies, lookVars, forkVars, ends>>

\* No private directory, or no lock file in it.
BaseRefused(l) ==
  /\ turn[l] = "claiming" /\ GoOn(l)
  /\ UNCHANGED <<asked, number, unshared, written, claimVars, placeVars, lookVars, forkVars,
                 ends>>

StageRefused(l) ==
  /\ Turns(l, "based", "letting go")
  /\ UNCHANGED <<chainVars, written, claimVars, placeVars, lookVars, forkVars, ends>>

\* Not enough memory, or not enough free space.
NoRoom(l) ==
  /\ Turns(l, "staged", "backing out")
  /\ IF Mode(l) = "rundir" THEN RemovedIfEmpty(Staging(l)) ELSE UNCHANGED placeVars
  /\ UNCHANGED <<chainVars, written, claimVars, lookVars, forkVars, ends>>

\* enter_namespace: the child that tries the namespace first cannot have it, or it can
\* and this process then cannot, perhaps after it has left the host's namespaces.
EntersNot(l) ==
  /\ Turns(l, "staged", "backing out") /\ Mode(l) = "tmpfs"
  /\ \/ UNCHANGED unshared
     \/ unshared' = [unshared EXCEPT ![l] = @ \cup {"unmapped"}]
  /\ UNCHANGED <<asked, tried, number, written, claimVars, placeVars, lookVars, forkVars, ends>>

\* From here on a failure ends the launch.
Enters(l) ==
  /\ Turns(l, "staged", "inside") /\ Mode(l) = "tmpfs"
  /\ unshared' = [unshared EXCEPT ![l] = @ \cup {"tmpfs"}]
  /\ UNCHANGED <<asked, tried, number, written, claimVars, placeVars, lookVars, forkVars, ends>>

MountsTmpfs(l) ==
  /\ Turns(l, "inside", "filling")
  /\ mountedOn' = [mountedOn EXCEPT ![l] = Staging(l)]
  /\ UNCHANGED <<chainVars, written, claimVars, root, writer, lookVars, forkVars, ends>>

StillExtracts(l) == turn[l] = "filling" \/ (turn[l] = "staged" /\ Mode(l) = "rundir")

\* extract_matching writes over what is there.
Extracts(l, p) ==
  /\ StillExtracts(l) /\ p \notin written[l]
  /\ turn' = [turn EXCEPT ![l] = "filling"]
  /\ written' = [written EXCEPT ![l] = @ \cup {p}]
  /\ \/ Mode(l) = "tmpfs" /\ UNCHANGED placeVars
     \/ /\ Mode(l) = "rundir"
        /\ root' = [root EXCEPT ![Staging(l)] = @ \cup {p}]
        /\ writer' = [writer EXCEPT ![Staging(l)] = l] /\ UNCHANGED mountedOn
  /\ UNCHANGED <<chainVars, claimVars, lookVars, forkVars, ends>>

ExtractsNot(l) ==
  /\ StillExtracts(l) /\ Mode(l) = "rundir" /\ written[l] # Part
  /\ turn' = [turn EXCEPT ![l] = "undoing"]
  /\ UNCHANGED <<chainVars, written, claimVars, placeVars, lookVars, forkVars, ends>>

MovesMount(l) ==
  /\ Turns(l, "filling", "published") /\ Mode(l) = "tmpfs" /\ written[l] = Part
  /\ mountedOn' = [mountedOn EXCEPT ![l] = Base(l)]
  /\ UNCHANGED <<chainVars, written, claimVars, root, writer, lookVars, forkVars, ends>>

\* rename replaces a directory that is empty, and no other.
ReplacesAny(n) == TRUE \* slip: what is in the way is removed first
Replaces(n) == root[n] \in {{}, NoTree}

Renames(l) ==
  /\ Turns(l, "filling", "published") /\ Mode(l) = "rundir" /\ written[l] = Part
  /\ Replaces(Base(l))
  /\ root' = [root EXCEPT ![Base(l)] = root[Staging(l)], ![Staging(l)] = NoTree]
  /\ writer' = [writer EXCEPT ![Base(l)] = l, ![Staging(l)] = "nobody"]
  /\ UNCHANGED <<chainVars, written, claimVars, mountedOn, lookVars, forkVars, ends>>

RenamesNot(l) ==
  /\ Turns(l, "filling", "undoing") /\ Mode(l) = "rundir" /\ written[l] = Part
  /\ ~Replaces(Base(l))
  /\ UNCHANGED <<chainVars, written, claimVars, placeVars, lookVars, forkVars, ends>>

TakenBackIfEmpty(n) == RemovedIfEmpty(n) \* slip: remove_dir for remove_dir_all
TakenBack(n) == Removed(n)

Undoes(l) ==
  /\ Turns(l, "undoing", "backing out") /\ TakenBack(Staging(l))
  /\ UNCHANGED <<chainVars, written, claimVars, lookVars, forkVars, ends>>

-----------------------------------------------------------------------------
(* Mountpoint::release, in one step: it does nothing between letting go of *)
(* the claim and asking for the lock.                                      *)

ReleasesStage(l) ==
  /\ \/ Turns(l, "published", "ready") \/ Turns(l, "backing out", "letting go")
  /\ stageHeld' = [stageHeld EXCEPT ![l] = FALSE]
  /\ IF MayRemove(Staging(l), Starter \ {l}) THEN RemovedIfEmpty(Staging(l))
     ELSE UNCHANGED placeVars
  /\ UNCHANGED <<chainVars, written, copies, lookVars, forkVars, ends>>

ReleasesBase(l) ==
  /\ turn[l] = "letting go" /\ GoOn(l)
  /\ copies' = [copies EXCEPT ![l] = {}]
  /\ IF MayRemove(Base(l), Starter \ {l}) THEN RemovedIfEmpty(Base(l))
     ELSE UNCHANGED placeVars
  /\ UNCHANGED <<asked, number, unshared, written, stageHeld, lookVars, forkVars, ends>>

\* The kernel takes what the process held.
Gone(l, to) ==
  /\ turn' = [turn EXCEPT ![l] = to]
  /\ stageHeld' = [stageHeld EXCEPT ![l] = FALSE]
  /\ visit' = [visit EXCEPT ![l] = {}] /\ clearing' = [clearing EXCEPT ![l] = NoName]

FailsInside(l) ==
  /\ turn[l] \in {"inside", "filling"} /\ Mode(l) = "tmpfs" /\ Gone(l, "failed")
  /\ copies' = [copies EXCEPT ![l] = {}]
  /\ UNCHANGED <<chainVars, written, placeVars, forkVars, ends>>

-----------------------------------------------------------------------------
(* The guardian, which has the claim, and the application.                 *)

Spawns(l) ==
  /\ Turns(l, "ready", "waiting")
  /\ guard' = [guard EXCEPT ![l] = "starting"]
  /\ copies' = [copies EXCEPT ![l] = {"guardian"}]
  /\ UNCHANGED <<chainVars, written, stageHeld, placeVars, lookVars, program, ends>>

\* fork failed: the claim went with what was to run in the guardian.
SpawnsNot(l) ==
  /\ Turns(l, "ready", "removing")
  /\ copies' = [copies EXCEPT ![l] = {}]
  /\ UNCHANGED <<chainVars, written, stageHeld, placeVars, lookVars, forkVars, ends>>

\* No subreaper, or no second fork.
Unguarded(l) ==
  /\ guard[l] = "starting" /\ guard' = [guard EXCEPT ![l] = "releasing"]
  /\ UNCHANGED <<chainVars, turn, written, claimVars, placeVars, lookVars, program, ends>>

Forks(l) ==
  /\ guard[l] = "starting" /\ guard' = [guard EXCEPT ![l] = "watching"]
  /\ program' = [program EXCEPT ![l] = "running"]
  /\ copies' = [copies EXCEPT ![l] = @ \cup {"application"}]
  /\ UNCHANGED <<chainVars, turn, written, stageHeld, placeVars, lookVars, ends>>

ClosesAll(l) ==
  /\ program[l] \in {"running", "daemon"} /\ "application" \in copies[l]
  /\ copies' = [copies EXCEPT ![l] = @ \ {"application"}]
  /\ UNCHANGED <<chainVars, turn, written, stageHeld, placeVars, lookVars, forkVars, ends>>

Daemonizes(l) ==
  /\ program[l] = "running" /\ program' = [program EXCEPT ![l] = "daemon"]
  /\ UNCHANGED <<chainVars, turn, written, claimVars, placeVars, lookVars, guard, ends>>

Finishes(l) ==
  /\ program[l] \in {"running", "daemon"} /\ program' = [program EXCEPT ![l] = "gone"]
  /\ copies' = [copies EXCEPT ![l] = @ \ {"application"}]
  /\ UNCHANGED <<chainVars, turn, written, stageHeld, placeVars, lookVars, guard, ends>>

\* The guardian has reported, or hung up.
Returns(l) ==
  /\ turn[l] = "waiting" /\ (program[l] \in {"daemon", "gone"} \/ guard[l] \in {"gone", "killed"})
  /\ turn' = [turn EXCEPT ![l] = "over"]
  /\ UNCHANGED <<chainVars, written, claimVars, placeVars, lookVars, forkVars, ends>>

Drains(l) ==
  /\ guard[l] = "watching" /\ program[l] = "gone"
  /\ guard' = [guard EXCEPT ![l] = "releasing"]
  /\ UNCHANGED <<chainVars, turn, written, claimVars, placeVars, lookVars, program, ends>>

\* remove_tree works in the directory it opened, which is the launch's own; one
\* renamed onto it in the meantime is not empty and stays.
OwnTree(l) == Mode(l) = "rundir" /\ writer[Base(l)] = l

RemovesOwn(l) ==
  /\ guard[l] = "releasing" \/ turn[l] = "removing"
  /\ OwnTree(l) /\ RemovesPart(Base(l))
  /\ UNCHANGED <<chainVars, turn, written, claimVars, lookVars, forkVars, ends>>

GuardianLeaves(l) ==
  /\ guard[l] = "releasing" /\ (OwnTree(l) => root[Base(l)] = {})
  /\ guard' = [guard EXCEPT ![l] = "gone"]
  /\ copies' = [copies EXCEPT ![l] = @ \ {"guardian"}]
  /\ IF Mode(l) = "rundir" THEN RemovedIfEmpty(Base(l)) ELSE UNCHANGED placeVars
  /\ UNCHANGED <<chainVars, turn, written, stageHeld, lookVars, program, ends>>

FailsAtFork(l) ==
  /\ turn[l] = "removing" /\ (OwnTree(l) => root[Base(l)] = {}) /\ Gone(l, "failed")
  /\ IF Mode(l) = "rundir" THEN RemovedIfEmpty(Base(l)) ELSE UNCHANGED placeVars
  /\ UNCHANGED <<chainVars, written, copies, forkVars, ends>>

-----------------------------------------------------------------------------
(* Whoever is killed.                                                      *)

KillsLaunch(l) ==
  /\ turn[l] \notin {"idle", "failed", "over"} /\ Gone(l, "over") /\ Ends
  /\ copies' = [copies EXCEPT ![l] = @ \ {"launch"}]
  /\ UNCHANGED <<chainVars, written, placeVars, forkVars>>

KillsGuardian(l) ==
  /\ guard[l] \in {"starting", "watching", "releasing"} /\ Ends
  /\ guard' = [guard EXCEPT ![l] = "killed"]
  /\ copies' = [copies EXCEPT ![l] = @ \ {"guardian"}]
  /\ UNCHANGED <<chainVars, turn, written, stageHeld, placeVars, lookVars, program>>

-----------------------------------------------------------------------------

Launches(l) ==
  \/ \E p \in ProcId : Begins(l, p)
  \/ RunsElsewhere(l) \/ FailsElsewhere(l)
  \/ Sweeps(l) \/ SweepIsOver(l) \/ Clears(l)
  \/ \E n \in TreeName : StartsClearing(l, n) \/ PassesBy(l, n)
  \/ ClaimsBase(l) \/ BaseRefused(l) \/ ClaimsStage(l) \/ StageRefused(l)
  \/ NoRoom(l) \/ EntersNot(l) \/ Enters(l) \/ MountsTmpfs(l) \/ FailsInside(l)
  \/ \E p \in Part : Extracts(l, p)
  \/ ExtractsNot(l) \/ MovesMount(l) \/ Renames(l) \/ RenamesNot(l) \/ Undoes(l)
  \/ ReleasesStage(l) \/ ReleasesBase(l) \/ Returns(l)

Guards(l) ==
  \/ Spawns(l) \/ SpawnsNot(l) \/ Unguarded(l) \/ Forks(l) \/ Drains(l)
  \/ RemovesOwn(l) \/ GuardianLeaves(l) \/ FailsAtFork(l)

Applies(l) == ClosesAll(l) \/ Daemonizes(l) \/ Finishes(l)

TTNext ==
  \E l \in Starter :
    Launches(l) \/ Guards(l) \/ Applies(l) \/ KillsLaunch(l) \/ KillsGuardian(l)

TTSpec == TTInit /\ [][TTNext]_ttVars

-----------------------------------------------------------------------------

Occupied(l) == program[l] \in {"running", "daemon"}

\* While anything a launch started runs and one of its processes has the claim,
\* what it runs from is whole, is what this launch extracted, and is where it was
\* put: no sweep, no other launch of the package and none that was given its
\* process id again takes it away or puts another in its place (rundir.rs and
\* ephemeral.rs: "the application only ever sees the complete view, and the claim
\* lock is the lease the launch's guardian holds against the sweep").
RunsFromOwnTree ==
  \A l \in Starter :
    Occupied(l) /\ copies[l] # {} =>
      \/ Mode(l) = "tmpfs" /\ mountedOn[l] = Base(l) /\ written[l] = Part
      \/ Mode(l) = "rundir" /\ root[Base(l)] = Part /\ writer[Base(l)] = l

\* A launch that goes on to the next mode has let go of both claims, left no part of
\* its extraction behind, and is still in the host's user namespace unless a FUSE mount
\* took it out, or a namespace that could be had when it was tried and not be mapped
\* when it was entered; one whose package runs setuid programs always is
\* (ephemeral.rs: "Unsharing is the point of no return").  One that ended in the
\* runtime directory mode, without being killed, has removed its tree (main.rs: "the
\* last mode that leaves nothing behind").
LeavesNoTrace ==
  \A l \in Starter :
    /\ turn[l] = "trying" =>
         /\ copies[l] = {} /\ ~stageHeld[l] /\ mountedOn[l] = NoName
         /\ writer[Staging(l)] # l
         /\ unshared[l] \subseteq (IF asked[l].setuid THEN {} ELSE {"fuse", "unmapped"})
    /\ guard[l] = "gone" \/ (turn[l] = "failed" /\ tried[l] # 0) =>
         \A n \in {Base(l), Staging(l)} : Mode(l) = "rundir" => writer[n] # l
=============================================================================
