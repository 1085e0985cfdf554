-------------------------------- MODULE MCStores --------------------------------
(***************************************************************************)
(* The files and mounts that processes replace under each other: those of  *)
(* launches that share a mount, the trees of launches that try one mode    *)
(* after the other, the package cache, the executable itself and the       *)
(* platform store.  The five share no state but the private directory,     *)
(* where each has names of its own, so one of them runs while the others   *)
(* have already ended.                                                     *)
(***************************************************************************)
EXTENDS MCShareMount, TemporaryTree, PackageCache, MCUpdateInstall, PlatformStore

CONSTANTS b1, b2, x1, x2, y1, y2

VARIABLE running  \* the one of the five that runs

\* Two launches of p1 and one of p2.
Runs == [l \in Runner |-> IF l = l3 THEN p2 ELSE p1]

\* The packages share b1.
Carries == [p \in Pkg |-> IF p = p1 THEN {b1} ELSE {b1, b2}]

Plain(f, s, p) ==
  [force |-> f, static |-> p, setuid |-> s, prefer |-> p, keep |-> p]

\* Every mode in turn, no namespace, the runtime directory alone, and a mode the
\* package rules out.
Asks ==
  {Plain("none", FALSE, TRUE), Plain("none", TRUE, FALSE),
   Plain("rundir", FALSE, FALSE), Plain("tmpfs", TRUE, FALSE)}

ShareEnded ==
  /\ pc = [l \in Launch |-> "private"] /\ app = [l \in Launch |-> "none"]
  /\ tries = [l \in Launch |-> 0] /\ ino = [l \in Launch |-> 0]
  /\ recFds = [l \in Launch |-> {}] /\ leaseFds = [l \in Launch |-> {}]
  /\ leaseOn = [l \in Launch |-> Nobody] /\ at = [l \in Launch |-> Nobody]
  /\ recAt = 0 /\ made = 0 /\ names = [i \in Ino |-> Nobody] /\ leaseAt = Nobody
  /\ srv = [l \in Launch |-> "none"] /\ mode = [l \in Launch |-> "host"]
  /\ hostMount = Nobody /\ nsMounts = {} /\ sweep = 0 /\ lost = {} /\ unwritten = {}
  /\ faults = 0

TreesEnded ==
  /\ asked = [l \in Starter |-> Plain("rundir", FALSE, FALSE)]
  /\ tried = [l \in Starter |-> 5] /\ turn = [l \in Starter |-> "over"]
  /\ number = [l \in Starter |-> "none"] /\ unshared = [l \in Starter |-> {}]
  /\ written = [l \in Starter |-> {}]
  /\ copies = [l \in Starter |-> {}] /\ stageHeld = [l \in Starter |-> FALSE]
  /\ root = [n \in TreeName |-> NoTree] /\ writer = [n \in TreeName |-> "nobody"]
  /\ mountedOn = [l \in Starter |-> NoName]
  /\ visit = [l \in Starter |-> {}] /\ clearing = [l \in Starter |-> NoName]
  /\ guard = [l \in Starter |-> "none"] /\ program = [l \in Starter |-> "none"]
  /\ ends = MaxEnds

CacheEnded ==
  /\ run = [l \in Runner |-> "done"] /\ gc = [g \in Sweeper |-> "done"]
  /\ blob = [l \in Runner |-> NoOne] /\ mutex = [p \in Pkg |-> NoOne]
  /\ lockFile = {} /\ present = {} /\ ready = {}
  /\ tree = [p \in Pkg |-> {}] /\ scratch = [p \in Pkg |-> {}]
  /\ cas = [b \in Blob |-> "none"] /\ meta = [p \in Pkg |-> "none"]
  /\ kind = [g \in Sweeper |-> "gc"] /\ todo = [g \in Sweeper |-> {}]
  /\ claim = [g \in Sweeper |-> FALSE]
  /\ gcPkg = [g \in Sweeper |-> NoOne] /\ gcBlob = [g \in Sweeper |-> NoOne]
  /\ kills = 0

UpdateEnded ==
  /\ policy = "signed" /\ served = r1 /\ signature = r1 /\ published = MaxPublish
  /\ bin = "original" /\ saved = NoRelease /\ dirLog = << <<"original", NoRelease>> >>
  /\ file = [f \in File |-> IF f = "original" THEN r1 ELSE NoRelease]
  /\ synced = {"original"} /\ unflushed = {} /\ temps = {}
  /\ up = [u \in Updater |-> "done"] /\ flag = [u \in Updater |-> "check"]
  /\ exe = [u \in Updater |-> "original"] /\ opened = [u \in Updater |-> NoFile]
  /\ own = [u \in Updater |-> r1] /\ remote = [u \in Updater |-> r1]
  /\ keyed = [u \in Updater |-> NoRelease]
  /\ byHand = TRUE /\ mishaps = MaxMishaps

PlatformEnded ==
  /\ acq = [a \in Acquirer |-> "failed"] /\ way = [a \in Acquirer |-> "import"]
  /\ pid = [a \in Acquirer |-> y1] /\ pinned = [a \in Acquirer |-> 0]
  /\ handle = [a \in Acquirer |-> NoInode]
  /\ lockUser = Nothing /\ lockMade = FALSE /\ dir = 0 /\ dirs = 0
  /\ named = NoInode /\ spool = [p \in Pid |-> NoInode]
  /\ data = [i \in Inode |-> "empty"] /\ part = {}
  /\ builder = [b \in Builder |-> "failed"] /\ collector = "over" /\ losses = 0

\* Bound: the launches that leave trees behind are of one package.
OfOnePackage ==
  \A l, k \in Starter : asked[l].static = asked[k].static /\ asked[l].setuid = asked[k].setuid

StoresInit ==
  /\ running \in {"share", "trees", "cache", "update", "platform"}
  /\ IF running = "share" THEN Init ELSE ShareEnded
  /\ IF running = "trees" THEN TTInit /\ OfOnePackage ELSE TreesEnded
  /\ IF running = "cache" THEN PCInit ELSE CacheEnded
  /\ IF running = "update" THEN UInit ELSE UpdateEnded
  /\ IF running = "platform" THEN PFInit ELSE PlatformEnded

\* Bound: record files are locked in vain while only the two launches of one
\* package are there.
FewRetries == pc'[l3] # "start" => \A l \in Launch : tries'[l] = 0

\* Bound: a process id that is free is taken before one nobody has had.
RecycledFirst ==
  \A l \in Starter : number'[l] = y2 /\ number[l] # y2 =>
    \E k \in Starter : number[k] = y1 /\ turn[k] \notin {"idle", "failed", "over"}

\* Bound: one launch at most leaves the host's namespaces and then tries another mode.
OneLeft == Cardinality({l \in Starter : unshared'[l] \cap {"fuse", "unmapped"} # {}}) <= 1

\* Bound: two launches use the cache, of one package or of two.
TwoLaunches == Cardinality({l \in Runner : run'[l] # "start"}) <= 2

\* Bound: nothing is published once somebody has replaced the executable by hand.
OneIntrusion == byHand' => published' = 0

StoresNext ==
  \/ /\ running = "share" /\ Next /\ FewRetries
     /\ UNCHANGED <<running, ttVars, cacheVars, updateVars, platformVars>>
  \/ /\ running = "trees" /\ TTNext /\ RecycledFirst /\ OneLeft
     /\ UNCHANGED <<running, vars, cacheVars, updateVars, platformVars>>
  \/ /\ running = "cache" /\ PCNext /\ TwoLaunches
     /\ UNCHANGED <<running, vars, ttVars, updateVars, platformVars>>
  \/ /\ running = "update" /\ UNext /\ OneIntrusion
     /\ UNCHANGED <<running, vars, ttVars, cacheVars, platformVars>>
  \/ /\ running = "platform" /\ PFNext
     /\ UNCHANGED <<running, vars, ttVars, cacheVars, updateVars>>

StoresSpec ==
  /\ StoresInit
  /\ [][StoresNext]_<<running, vars, ttVars, cacheVars, updateVars, platformVars>>
=============================================================================
