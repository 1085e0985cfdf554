----------------------------- MODULE MCDirectories -----------------------------
(***************************************************************************)
(* The names several launches, servers and sweeps use, where waiting       *)
(* matters: the views, a mountpoint, and the package cache with two        *)
(* launches.  The three share no state, so one of them runs while the      *)
(* others have already ended.                                              *)
(***************************************************************************)
EXTENDS MCViewStore, Mountpoint

CONSTANTS c1, c2, s1, p1, b1, Legacy, EmptyDir, CacheKinds

VARIABLES running,  \* the one of the three that runs
          cachePc, blob, lockFile, mutex, cacheTree, present, ready, scratch, cas, meta,
          cacheKind, cacheGc, cacheTodo, claim, gcPkg, gcBlob, cacheKills

Cache == INSTANCE PackageCache WITH
  Runner <- {c1, c2}, Sweeper <- {s1}, Kinds <- CacheKinds, Pkg <- {p1}, Blob <- {b1},
  BlobsOf <- [p \in {p1} |-> {b1}], PkgOf <- [l \in {c1, c2} |-> p1], NoOne <- Nobody,
  run <- cachePc, tree <- cacheTree, kind <- cacheKind, gc <- cacheGc, todo <- cacheTodo,
  kills <- cacheKills

\* No launch waits for ever on a lock of the cache (ensure_extracted).
LaunchReturns == Cache!LaunchReturns

cacheVars == <<cachePc, blob, lockFile, mutex, cacheTree, present, ready, scratch, cas,
               meta, cacheKind, cacheGc, cacheTodo, claim, gcPkg, gcBlob, cacheKills>>

ViewsEnded ==
  /\ pc = [l \in Launch |-> "done"] /\ gc = [a \in Agent |-> "done"]
  /\ views = {} /\ tree = [v \in View |-> {}] /\ staging = {}
  /\ used = [v \in View |-> "none"] /\ clearing = {}
  /\ gcView = [a \in Agent |-> NoView] /\ todo = [a \in Agent |-> {}]
  /\ torn = {} /\ kills = 0 /\ damages = 0

MountpointEnded ==
  /\ kind = "private" /\ step = [l \in Claimant |-> "done"]
  /\ ino = [l \in Claimant |-> 0] /\ at = [l \in Claimant |-> Nobody] /\ creating = {}
  /\ lockAt = 0 /\ made = 0 /\ lockOld = FALSE
  /\ dir = FALSE /\ dirOld = FALSE /\ here = {} /\ stack = <<>>
  /\ srv = [l \in Claimant |-> "none"] /\ first = [l \in Claimant |-> 0]
  /\ sw = [g \in Reclaimer |-> "over"] /\ swIno = [g \in Reclaimer |-> 0] /\ faults = 0

CacheEnded ==
  /\ cachePc = [l \in {c1, c2} |-> "done"] /\ cacheGc = [g \in {s1} |-> "done"]
  /\ blob = [l \in {c1, c2} |-> Nobody] /\ mutex = [p \in {p1} |-> Nobody]
  /\ lockFile = {} /\ present = {} /\ ready = {}
  /\ cacheTree = [p \in {p1} |-> {}] /\ scratch = [p \in {p1} |-> {}]
  /\ cas = [b \in {b1} |-> "none"] /\ meta = [p \in {p1} |-> "none"]
  /\ cacheKind = [g \in {s1} |-> "gc"] /\ cacheTodo = [g \in {s1} |-> {}]
  /\ claim = [g \in {s1} |-> FALSE]
  /\ gcPkg = [g \in {s1} |-> Nobody] /\ gcBlob = [g \in {s1} |-> Nobody]
  /\ cacheKills = 0

DirectoriesInit ==
  /\ running \in {"views", "mountpoint", "cache"}
  /\ IF running = "views" THEN Init ELSE ViewsEnded
  /\ IF running = "mountpoint" THEN MPInit ELSE MountpointEnded
  /\ IF running = "cache" THEN Cache!PCInit ELSE CacheEnded

\* Bounds, on what need not happen: one trouble with the views, a kill or a
\* damage, and faults of a set's servers and users before the sweep begins.
OneTrouble == kills' + damages' <= 1
EarlyFaults ==
  kind = "set" /\ (\E g \in Reclaimer : sw[g] # "idle") => faults' = faults

DirectoriesNext ==
  \/ /\ running = "views" /\ Next /\ OneTrouble
     /\ UNCHANGED <<running, mpVars, cacheVars>>
  \/ /\ running = "mountpoint" /\ MPNext /\ EarlyFaults
     /\ UNCHANGED <<running, vars, cacheVars>>
  \/ /\ running = "cache" /\ Cache!PCNext
     /\ UNCHANGED <<running, vars, mpVars>>

DirectoriesSpec ==
  /\ DirectoriesInit /\ [][DirectoriesNext]_<<running, vars, mpVars, cacheVars>>
  /\ Fairness /\ MPFairness /\ Cache!PCFairness
=============================================================================
