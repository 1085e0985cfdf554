----------------------------- MODULE ShareMount -----------------------------
(***************************************************************************)
(* Concurrent launches of one package running from one FUSE mount          *)
(* (crates/onelf-rt/src/fuse/share.rs).                                    *)
(*                                                                         *)
(* The first launch mounts the package and hands the mount to a server     *)
(* process of its own; later launches run from that mount.  Two files hold *)
(* the protocol together: the record names the server and is locked        *)
(* exclusively by whoever decides about it, the lease is locked shared by  *)
(* every launch that runs from the mount.                                  *)
(*                                                                         *)
(* A server is named by the launch that forked it, and so is the lease     *)
(* file that launch created.  Record files are numbered in the order they  *)
(* were created, because a lock waited for on a removed record is a lock   *)
(* on a file nobody else will open.                                        *)
(***************************************************************************)
EXTENDS Naturals, FiniteSets

CONSTANTS
  Launch,            \* the launches of packages that share one directory name
  Package,           \* the package ids behind that name
  PackageOf,         \* the id each launch runs
  Nobody,            \* no server, no file
  Modes,             \* how a mount can be made: "ns" privately, "host" by helper
  MaxTries,          \* lock_record's attempts, 16 in the code
  MaxIno,            \* bound: record files created
  MaxFaults          \* bound: kills, forced unmounts and records not written

ASSUME ShareMountAssumption ==
  /\ PackageOf \in [Launch -> Package]
  /\ Nobody \notin Launch
  /\ Modes \subseteq {"ns", "host"}
  /\ MaxTries \in Nat \ {0}
  /\ MaxIno \in Nat
  /\ MaxFaults \in Nat

VARIABLES
  pc,        \* where each launching process is
  tries,     \* record files it has locked in vain
  ino,       \* the record file its descriptor is open on
  recFds,    \* who holds a copy of the descriptor it locked the record with
  leaseOn,   \* the server whose lease its lease descriptor is open on
  leaseFds,  \* who holds a copy of that descriptor
  at,        \* the server whose mount it runs from
  app,       \* its application and everything that started
  recAt,     \* the record file at the record's path, 0 for none
  made,      \* record files created so far
  names,     \* the server each record file names
  leaseAt,   \* the lease file at the lease's path
  srv,       \* where each server process is
  mode,      \* how its mount was made
  hostMount, \* the server mounted on the shared path in the host's namespace
  nsMounts,  \* the servers mounted there in their own namespace
  sweep,     \* the record file a sweep holds locked, 0 for none
  lost,      \* history: servers killed or unmounted from outside
  unwritten, \* history: servers whose record was not written
  faults     \* faults so far

launchVars == <<pc, tries, ino, recFds, leaseOn, leaseFds, at, app>>
fileVars   == <<recAt, made, names, leaseAt>>
mountVars  == <<hostMount, nsMounts>>
vars == <<launchVars, fileVars, srv, mode, mountVars, sweep, lost, unwritten,
          faults>>

Ino == 1..MaxIno

\* A launch that has given up on sharing ("private", it mounts for itself or
\* takes the next mode), failed outright or been killed is finished here.
LaunchPhase ==
  {"start", "opened", "locked", "leased", "joining", "entered", "mounted",
   "leaseMade", "served", "running", "private", "failed", "killed"}

ServerPhase ==
  {"none", "born", "starting", "polling", "leaseTaken", "bothTaken",
   "settled", "settledOut", "unsettled", "relocked", "relockedOut",
   "gone", "killed"}

-----------------------------------------------------------------------------
(* What a process can see of the others.                                   *)

\* started_at: the process a record names still runs.
Live(s) == s \in Launch /\ srv[s] \notin {"none", "gone", "killed"}

\* Some process holds the FUSE connection made for s open: the server, until it
\* drops fuse_fd, or the launch before it has forked one.
Connected(s) ==
  \/ srv[s] \in {"born", "starting", "polling", "leaseTaken", "bothTaken"}
  \/ pc[s] \in {"mounted", "leaseMade"}

\* A read of the mount is answered rather than refused or kept waiting.
Answers(s) == srv[s] \in {"starting", "polling", "leaseTaken", "bothTaken"}

\* is_live_mount as the server s sees the shared path.
MountedFor(s) == IF mode[s] = "ns" THEN s \in nsMounts ELSE hostMount # Nobody

\* The connection made for s is still mounted.
Mounted(s) == IF mode[s] = "ns" THEN s \in nsMounts ELSE hostMount = s

\* A launch that will run, or is running, its application out of a mount.
InMount(l) ==
  \/ pc[l] \in {"entered", "served"}
  \/ app[l] \in {"starting", "up"}

\* mount_in_use: some process runs out of the mount s serves.  A launch that
\* has not reached its exec shows nothing of the mount in /proc.  The scan goes
\* by path, so it may also count what a mount of a killed server still runs.
InUseUnscanned(s) == FALSE \* slip: ask the locks only
InUse(s) == MountedFor(s) /\ \E l \in Launch : app[l] = "up" /\ at[l] = s
MaybeInUse(s) == MountedFor(s) /\ \E l \in Launch : app[l] = "up"

\* Server s holds its own exclusive lock on the record, on the lease.
HoldsRecord(s) ==
  srv[s] \in {"bothTaken", "settled", "settledOut", "relocked", "relockedOut"}
HoldsLease(s) == srv[s] \in {"leaseTaken", "bothTaken", "settled", "settledOut"}

\* Nobody holds a lock on record file i; nobody holds s's lease shared.
RecordFreeShared(i) == \* slip: launches lock the record shared
  (\A l \in Launch : ino[l] = i => ~HoldsRecord(l)) /\ sweep # i
RecordFree(i) ==
  /\ \A l \in Launch : ino[l] = i => recFds[l] = {} /\ ~HoldsRecord(l)
  /\ sweep # i
LeaseUnsharedByApps(s) == \* slip: a launch still setting up is not counted
  \A l \in Launch : leaseOn[l] = s => leaseFds[l] \subseteq {"launch"}
LeaseUnshared(s) == \A l \in Launch : leaseOn[l] = s => leaseFds[l] = {}

-----------------------------------------------------------------------------
Init ==
  /\ pc = [l \in Launch |-> "start"]
  /\ tries = [l \in Launch |-> 0]
  /\ ino = [l \in Launch |-> 0]
  /\ recFds = [l \in Launch |-> {}]
  /\ leaseOn = [l \in Launch |-> Nobody]
  /\ leaseFds = [l \in Launch |-> {}]
  /\ at = [l \in Launch |-> Nobody]
  /\ app = [l \in Launch |-> "none"]
  /\ recAt = 0 /\ made = 0
  /\ names = [i \in Ino |-> Nobody]
  /\ leaseAt = Nobody
  /\ srv = [l \in Launch |-> "none"]
  /\ mode = [l \in Launch |-> "host"]
  /\ hostMount = Nobody /\ nsMounts = {}
  /\ sweep = 0
  /\ lost = {} /\ unwritten = {} /\ faults = 0

-----------------------------------------------------------------------------
(* lock_record: open or create the record, wait for its lock, and take     *)
(* another file when the one locked is no longer at the path.              *)

OpenRecord(l) ==
  /\ pc[l] = "start"
  /\ \/ /\ recAt # 0
        /\ ino' = [ino EXCEPT ![l] = recAt]
        /\ UNCHANGED <<recAt, made, names>>
     \/ /\ recAt = 0 /\ made < MaxIno
        /\ made' = made + 1 /\ recAt' = made + 1
        /\ names' = [names EXCEPT ![made + 1] = Nobody]
        /\ ino' = [ino EXCEPT ![l] = made + 1]
  /\ pc' = [pc EXCEPT ![l] = "opened"]
  /\ UNCHANGED <<tries, recFds, leaseOn, leaseFds, at, app, leaseAt, srv, mode,
                 mountVars, sweep, lost, unwritten, faults>>

LockRecord(l) ==
  /\ pc[l] = "opened" /\ RecordFree(ino[l])
  /\ ino[l] = recAt
  /\ recFds' = [recFds EXCEPT ![l] = {"launch"}]
  /\ pc' = [pc EXCEPT ![l] = "locked"]
  /\ UNCHANGED <<tries, ino, leaseOn, leaseFds, at, app, fileVars, srv, mode,
                 mountVars, sweep, lost, unwritten, faults>>

RetriesLeft(l) == tries[l] + 1 < MaxTries

RecordRemoved(l) ==
  /\ pc[l] = "opened" /\ RecordFree(ino[l])
  /\ ino[l] # recAt
  /\ tries' = [tries EXCEPT ![l] = @ + 1]
  /\ pc' = [pc EXCEPT ![l] = IF RetriesLeft(l) THEN "start" ELSE "private"]
  /\ UNCHANGED <<ino, recFds, leaseOn, leaseFds, at, app, fileVars, srv, mode,
                 mountVars, sweep, lost, unwritten, faults>>

-----------------------------------------------------------------------------
(* join: the record names a live server.                                   *)

\* The launch gives up sharing and closes what it holds.
GiveUp(l) ==
  /\ pc' = [pc EXCEPT ![l] = "private"]
  /\ recFds' = [recFds EXCEPT ![l] = @ \ {"launch"}]
  /\ leaseFds' = [leaseFds EXCEPT ![l] = @ \ {"launch"}]

Joinable(l) ==
  LET s == names[ino[l]] IN Live(s) /\ PackageOf[s] = PackageOf[l]

\* Taken while the record is locked, so the server cannot settle on leaving.
TakeLease(l) ==
  /\ pc[l] = "locked" /\ Joinable(l)
  /\ leaseAt # Nobody /\ ~HoldsLease(leaseAt)
  /\ leaseOn' = [leaseOn EXCEPT ![l] = leaseAt]
  /\ leaseFds' = [leaseFds EXCEPT ![l] = {"launch"}]
  /\ at' = [at EXCEPT ![l] = names[ino[l]]]
  /\ pc' = [pc EXCEPT ![l] = "leased"]
  /\ UNCHANGED <<tries, ino, recFds, app, fileVars, srv, mode, mountVars,
                 sweep, lost, unwritten, faults>>

DropRecord(l) ==
  /\ pc[l] = "leased"
  /\ recFds' = [recFds EXCEPT ![l] = @ \ {"launch"}]
  /\ pc' = [pc EXCEPT ![l] = "joining"]
  /\ UNCHANGED <<tries, ino, leaseOn, leaseFds, at, app, fileVars, srv, mode,
                 mountVars, sweep, lost, unwritten, faults>>

\* enter_namespaces asks again whether the server lives; a mount made through
\* the helper is whatever is mounted on the shared path and answers.
Enter(l) ==
  /\ pc[l] = "joining"
  /\ \/ /\ mode[at[l]] = "ns"
        /\ Live(at[l]) /\ at[l] \in nsMounts /\ Answers(at[l])
        /\ UNCHANGED at
     \/ /\ mode[at[l]] = "host"
        /\ hostMount # Nobody /\ Answers(hostMount)
        /\ at' = [at EXCEPT ![l] = hostMount]
  /\ pc' = [pc EXCEPT ![l] = "entered"]
  /\ UNCHANGED <<tries, ino, recFds, leaseOn, leaseFds, app, fileVars, srv,
                 mode, mountVars, sweep, lost, unwritten, faults>>

\* The lease is missing, another id is recorded, the mount cannot be entered,
\* or it shows other host libraries, links or environment than l needs.
Decline(l) ==
  /\ \/ /\ pc[l] = "locked" /\ Live(names[ino[l]])
        /\ ~Joinable(l) \/ leaseAt = Nobody
     \/ pc[l] \in {"joining", "entered"}
  /\ GiveUp(l)
  /\ UNCHANGED <<tries, ino, leaseOn, at, app, fileVars, srv, mode, mountVars,
                 sweep, lost, unwritten, faults>>

-----------------------------------------------------------------------------
(* create: no live server is recorded.                                     *)

Vacant(l) == pc[l] = "locked" /\ ~Live(names[ino[l]])

\* A live mount nobody records is not one to run from or stack on.
DeclineStranger(l) ==
  /\ Vacant(l)
  /\ hostMount # Nobody /\ Answers(hostMount)
  /\ GiveUp(l)
  /\ UNCHANGED <<tries, ino, leaseOn, at, app, fileVars, srv, mode, mountVars,
                 sweep, lost, unwritten, faults>>

\* A mount whose server died is taken down first.
Mount(l, m) ==
  /\ Vacant(l)
  /\ hostMount # Nobody => ~Connected(hostMount)
  /\ hostMount' = IF m = "host" THEN l ELSE Nobody
  /\ nsMounts' = IF m = "ns" THEN nsMounts \cup {l} ELSE nsMounts
  /\ mode' = [mode EXCEPT ![l] = m]
  /\ pc' = [pc EXCEPT ![l] = "mounted"]
  /\ UNCHANGED <<tries, ino, recFds, leaseOn, leaseFds, at, app, fileVars, srv,
                 sweep, lost, unwritten, faults>>

Unmountable(l) ==
  /\ Vacant(l)
  /\ hostMount # Nobody => ~Connected(hostMount)
  /\ hostMount' = Nobody
  /\ GiveUp(l)
  /\ UNCHANGED <<tries, ino, leaseOn, at, app, fileVars, srv, mode, nsMounts,
                 sweep, lost, unwritten, faults>>

\* A fresh file leaves what a killed server ran out of this server's count.
LeaseFileReused(l) == IF leaseAt = Nobody THEN l ELSE leaseAt \* slip: none removed
LeaseFile(l) == l

MakeLease(l) ==
  /\ pc[l] = "mounted"
  /\ leaseAt' = LeaseFile(l)
  /\ leaseOn' = [leaseOn EXCEPT ![l] = LeaseFile(l)]
  /\ leaseFds' = [leaseFds EXCEPT ![l] = {"launch"}]
  /\ pc' = [pc EXCEPT ![l] = "leaseMade"]
  /\ UNCHANGED <<tries, ino, recFds, at, app, recAt, made, names, srv, mode,
                 mountVars, sweep, lost, unwritten, faults>>

LeavesMounted(l) == UNCHANGED mountVars \* slip: the mount stays on the path
CleanUpMountpoint(l) ==
  /\ hostMount' = IF mode[l] = "host" THEN Nobody ELSE hostMount
  /\ nsMounts' = nsMounts \ {l}

\* The lease, a pipe or the fork failed.  A lease file that was made stays.
CreateFails(l) ==
  /\ pc[l] \in {"mounted", "leaseMade"}
  /\ CleanUpMountpoint(l)
  /\ GiveUp(l)
  /\ UNCHANGED <<tries, ino, leaseOn, at, app, fileVars, srv, mode, sweep, lost,
                 unwritten, faults>>

\* The server inherits copies of both descriptors; this process keeps no copy
\* of the connection.
ForkServer(l) ==
  /\ pc[l] = "leaseMade"
  /\ srv' = [srv EXCEPT ![l] = "born"]
  /\ recFds' = [recFds EXCEPT ![l] = @ \cup {"server"}]
  /\ leaseFds' = [leaseFds EXCEPT ![l] = @ \cup {"server"}]
  /\ at' = [at EXCEPT ![l] = l]
  /\ pc' = [pc EXCEPT ![l] = "served"]
  /\ UNCHANGED <<tries, ino, leaseOn, app, fileVars, mode, mountVars, sweep,
                 lost, unwritten, faults>>

-----------------------------------------------------------------------------
(* The guardian and the application.  The guardian and the application     *)
(* hold the lease; the record lock goes with the application alone and     *)
(* closes at its exec.                                                     *)

RecordFdsDropped(fds) == fds \ {"launch"} \* slip: the record is let go before the exec
RecordFdsAfterSpawn(fds) ==
  IF "launch" \in fds THEN (fds \ {"launch"}) \cup {"app"} ELSE fds

Spawn(l) ==
  /\ pc[l] \in {"entered", "served"}
  /\ leaseFds' = [leaseFds EXCEPT ![l] = (@ \ {"launch"}) \cup {"guardian", "app"}]
  /\ recFds' = [recFds EXCEPT ![l] = RecordFdsAfterSpawn(@)]
  /\ app' = [app EXCEPT ![l] = "starting"]
  /\ pc' = [pc EXCEPT ![l] = "running"]
  /\ UNCHANGED <<tries, ino, leaseOn, at, fileVars, srv, mode, mountVars, sweep,
                 lost, unwritten, faults>>

\* The fork failed, or the kernel refused the subreaper attribute.
SpawnFails(l) ==
  /\ pc[l] \in {"entered", "served"}
  /\ leaseFds' = [leaseFds EXCEPT ![l] = @ \ {"launch"}]
  /\ recFds' = [recFds EXCEPT ![l] = @ \ {"launch"}]
  /\ pc' = [pc EXCEPT ![l] = "failed"]
  /\ UNCHANGED <<tries, ino, leaseOn, at, app, fileVars, srv, mode, mountVars,
                 sweep, lost, unwritten, faults>>

Exec(l) ==
  /\ app[l] = "starting"
  /\ app' = [app EXCEPT ![l] = "up"]
  /\ recFds' = [recFds EXCEPT ![l] = @ \ {"app"}]
  /\ UNCHANGED <<pc, tries, ino, leaseOn, leaseFds, at, fileVars, srv, mode,
                 mountVars, sweep, lost, unwritten, faults>>

\* A descendant that closes everything it inherited.
AppCloses(l) ==
  /\ app[l] = "up" /\ "app" \in leaseFds[l]
  /\ leaseFds' = [leaseFds EXCEPT ![l] = @ \ {"app"}]
  /\ UNCHANGED <<pc, tries, ino, recFds, leaseOn, at, app, fileVars, srv, mode,
                 mountVars, sweep, lost, unwritten, faults>>

AppExits(l) ==
  /\ app[l] \in {"starting", "up"}
  /\ app' = [app EXCEPT ![l] = "gone"]
  /\ recFds' = [recFds EXCEPT ![l] = @ \ {"app"}]
  /\ leaseFds' = [leaseFds EXCEPT ![l] = @ \ {"app"}]
  /\ UNCHANGED <<pc, tries, ino, leaseOn, at, fileVars, srv, mode, mountVars,
                 sweep, lost, unwritten, faults>>

\* wait proved the subtree empty: the guardian's claims end with it.
GuardianReleases(l) ==
  /\ app[l] = "gone" /\ "guardian" \in leaseFds[l]
  /\ leaseFds' = [leaseFds EXCEPT ![l] = @ \ {"guardian"}]
  /\ UNCHANGED <<pc, tries, ino, recFds, leaseOn, at, app, fileVars, srv, mode,
                 mountVars, sweep, lost, unwritten, faults>>

-----------------------------------------------------------------------------
(* serve: the server process.                                              *)

\* The server step s changes nothing but the server's own phase.
Goes(s, from, to) ==
  /\ srv[s] = from /\ srv' = [srv EXCEPT ![s] = to]

Quiet == UNCHANGED <<launchVars, fileVars, mode, mountVars, sweep, lost, unwritten,
                     faults>>

\* Something that may go wrong, as often as the bound allows.
Fault == faults < MaxFaults /\ faults' = faults + 1

\* Writes the record, opens descriptors of its own on both files (the launch
\* still holds the record, so those are the files it was handed), and closes
\* the copies it inherited.  A write that fails is ignored: the file keeps what
\* it said or is left with nothing to parse.
WriteRecord(s) ==
  /\ Goes(s, "born", "starting")
  /\ \/ /\ names' = [names EXCEPT ![ino[s]] = s]
        /\ UNCHANGED <<unwritten, faults>>
     \/ /\ Fault
        /\ names' \in {names, [names EXCEPT ![ino[s]] = Nobody]}
        /\ unwritten' = unwritten \cup {s}
  /\ recFds' = [recFds EXCEPT ![s] = @ \ {"server"}]
  /\ leaseFds' = [leaseFds EXCEPT ![s] = @ \ {"server"}]
  /\ UNCHANGED <<pc, tries, ino, leaseOn, at, app, recAt, made, leaseAt, mode,
                 mountVars, sweep, lost>>

\* The launched pipe went with the record lock and hung up with it, or the
\* connection is finished.
StartPolling(s) ==
  /\ Goes(s, "starting", "polling")
  /\ recFds[s] = {} \/ ~Mounted(s)
  /\ Quiet

\* idle: the lease, then the record, then the scan of /proc; what was taken
\* is given back as soon as one of them says no.
ProbeLease(s) ==
  /\ Goes(s, "polling", "leaseTaken")
  /\ MountedFor(s) /\ LeaseUnshared(s)
  /\ Quiet

ProbeRecord(s) ==
  /\ Goes(s, "leaseTaken", "bothTaken")
  /\ RecordFree(ino[s])
  /\ Quiet

RecordAwaited(s) == \* slip: the lease is kept while the record is waited for
  Goes(s, "leaseTaken", "leaseTaken") /\ Quiet

RecordBusy(s) ==
  /\ Goes(s, "leaseTaken", "polling")
  /\ ~RecordFree(ino[s])
  /\ Quiet

StillUsed(s) == Goes(s, "bothTaken", "polling") /\ MaybeInUse(s) /\ Quiet

Settle(s) == Goes(s, "bothTaken", "settled") /\ ~InUse(s) /\ Quiet

\* The mount went away from outside: the server is finished whoever holds the
\* lease, but waits for the record before it cleans up.
MountLost(s) == Goes(s, "polling", "unsettled") /\ ~Mounted(s) /\ Quiet

Relock(s) == Goes(s, "unsettled", "relocked") /\ RecordFree(ino[s]) /\ Quiet

\* fuse_unmount names the path, not the connection.
Unmount(s) ==
  /\ Goes(s, "settled", "settledOut") \/ Goes(s, "relocked", "relockedOut")
  /\ hostMount' = IF mode[s] = "host" THEN Nobody ELSE hostMount
  /\ nsMounts' = nsMounts \ {s}
  /\ UNCHANGED <<launchVars, fileVars, mode, sweep, lost, unwritten, faults>>

\* Only a record that still names this server is removed, and only the files
\* at the paths that are the ones it opened.
RemoveOwnFiles(s) ==
  IF names[ino[s]] = s
  THEN /\ leaseAt' = IF leaseAt = s THEN Nobody ELSE leaseAt
       /\ recAt' = IF recAt = ino[s] THEN 0 ELSE recAt
  ELSE UNCHANGED <<leaseAt, recAt>>

Leave(s) ==
  /\ Goes(s, "settledOut", "gone") \/ Goes(s, "relockedOut", "gone")
  /\ RemoveOwnFiles(s)
  /\ UNCHANGED <<launchVars, made, names, mode, mountVars, sweep,
                 lost, unwritten, faults>>

-----------------------------------------------------------------------------
(* reclaim_stale: a sweep removes the files a killed server left.          *)

StaleUnchecked(i) == TRUE \* slip: an unlocked record is taken for a dead one
Stale(i) == ~Live(names[i])

\* It locks what it opened and goes on only when that is still the file at the
\* path; a lock on any other file is let go of at once.
SweepLocks ==
  /\ sweep = 0 /\ recAt # 0
  /\ RecordFree(recAt) /\ Stale(recAt)
  /\ sweep' = recAt
  /\ UNCHANGED <<launchVars, fileVars, srv, mode, mountVars,
                 lost, unwritten, faults>>

SweepRemoves ==
  /\ sweep # 0
  /\ leaseAt' = Nobody /\ recAt' = 0 /\ sweep' = 0
  /\ UNCHANGED <<launchVars, made, names, srv, mode, mountVars,
                 lost, unwritten, faults>>

-----------------------------------------------------------------------------
(* Faults.                                                                 *)


\* The mount stays on the path, answering nobody.
KillServer(s) ==
  /\ Fault /\ Live(s)
  /\ srv' = [srv EXCEPT ![s] = "killed"]
  /\ lost' = lost \cup {s}
  /\ recFds' = [recFds EXCEPT ![s] = @ \ {"server"}]
  /\ leaseFds' = [leaseFds EXCEPT ![s] = @ \ {"server"}]
  /\ UNCHANGED <<pc, tries, ino, leaseOn, at, app, fileVars, mode, mountVars,
                 sweep, unwritten>>

KillGuardian(l) ==
  /\ Fault /\ "guardian" \in leaseFds[l]
  /\ leaseFds' = [leaseFds EXCEPT ![l] = @ \ {"guardian"}]
  /\ UNCHANGED <<pc, tries, ino, recFds, leaseOn, at, app, fileVars, srv, mode,
                 mountVars, sweep, lost, unwritten>>

KillLaunch(l) ==
  /\ Fault
  /\ pc[l] \in {"opened", "locked", "leased", "joining", "entered", "mounted",
                "leaseMade", "served"}
  /\ pc' = [pc EXCEPT ![l] = "killed"]
  /\ recFds' = [recFds EXCEPT ![l] = @ \ {"launch"}]
  /\ leaseFds' = [leaseFds EXCEPT ![l] = @ \ {"launch"}]
  \* A namespace with no process left takes its mount with it.
  /\ nsMounts' = IF pc[l] \in {"mounted", "leaseMade"} THEN nsMounts \ {l} ELSE nsMounts
  /\ UNCHANGED <<tries, ino, leaseOn, at, app, fileVars, srv, mode, hostMount,
                 sweep, lost, unwritten>>

\* fusermount3 -u -z, run by somebody else.
ForcedUnmount(s) ==
  /\ Fault /\ Mounted(s)
  /\ hostMount' = IF mode[s] = "host" THEN Nobody ELSE hostMount
  /\ nsMounts' = nsMounts \ {s}
  /\ lost' = lost \cup {s}
  /\ UNCHANGED <<launchVars, fileVars, srv, mode, sweep, unwritten>>

-----------------------------------------------------------------------------
LaunchStep(l) ==
  \/ OpenRecord(l) \/ LockRecord(l) \/ RecordRemoved(l)
  \/ TakeLease(l) \/ DropRecord(l) \/ Enter(l) \/ Decline(l)
  \/ DeclineStranger(l) \/ (\E m \in Modes : Mount(l, m)) \/ Unmountable(l)
  \/ MakeLease(l) \/ CreateFails(l) \/ ForkServer(l)
  \/ Spawn(l) \/ SpawnFails(l)

AppStep(l) == Exec(l) \/ AppExits(l) \/ GuardianReleases(l)

ServerStep(s) ==
  \/ WriteRecord(s) \/ StartPolling(s)
  \/ ProbeLease(s) \/ ProbeRecord(s) \/ RecordBusy(s)
  \/ StillUsed(s) \/ Settle(s) \/ MountLost(s) \/ Relock(s)
  \/ Unmount(s) \/ Leave(s)

FaultStep(l) ==
  KillServer(l) \/ KillGuardian(l) \/ KillLaunch(l) \/ ForcedUnmount(l)

Next ==
  \/ \E l \in Launch : LaunchStep(l) \/ AppStep(l) \/ AppCloses(l) \/ ServerStep(l)
                       \/ FaultStep(l)
  \/ SweepLocks \/ SweepRemoves

Spec == Init /\ [][Next]_vars

(***************************************************************************)
(* Every process keeps running.  A blocking flock is granted in the end,   *)
(* because the kernel wakes the processes waiting on it when it is         *)
(* unlocked and a server that polls sleeps between two probes; so the      *)
(* steps that wait for a lock are strongly fair, as one, since a launch    *)
(* waits for one lock at a time.  Applications are free to run forever:    *)
(* only the exec itself is fair.                                           *)
(***************************************************************************)
Fairness ==
  /\ \A l \in Launch :
       /\ WF_vars(LaunchStep(l)) /\ WF_vars(ServerStep(l))
       /\ WF_vars(Exec(l)) /\ WF_vars(GuardianReleases(l))
       /\ SF_vars(LockRecord(l) \/ RecordRemoved(l) \/ TakeLease(l))
  /\ WF_vars(SweepRemoves)

FairSpec == Spec /\ Fairness

-----------------------------------------------------------------------------
(* Properties.                                                             *)

\* Every variable keeps its type, and a launch looks for a record only while it
\* has attempts left (launch in share.rs).
TypeOK ==
  /\ pc \in [Launch -> LaunchPhase]
  /\ tries \in [Launch -> 0..MaxTries]
  /\ \A l \in Launch : pc[l] \in {"start", "opened"} => tries[l] < MaxTries
  /\ ino \in [Launch -> 0..MaxIno]
  /\ recFds \in [Launch -> SUBSET {"launch", "app", "server"}]
  /\ leaseOn \in [Launch -> Launch \cup {Nobody}]
  /\ leaseFds \in [Launch -> SUBSET {"launch", "guardian", "app", "server"}]
  /\ at \in [Launch -> Launch \cup {Nobody}]
  /\ app \in [Launch -> {"none", "starting", "up", "gone"}]
  /\ recAt \in 0..MaxIno /\ made \in 0..MaxIno
  /\ names \in [Ino -> Launch \cup {Nobody}]
  /\ leaseAt \in Launch \cup {Nobody}
  /\ srv \in [Launch -> ServerPhase]
  /\ mode \in [Launch -> {"ns", "host"}]
  /\ hostMount \in Launch \cup {Nobody} /\ nsMounts \subseteq Launch
  /\ sweep \in 0..MaxIno
  /\ lost \subseteq Launch /\ unwritten \subseteq Launch
  /\ faults \in 0..MaxFaults

\* A launch that holds the lease of the mount it runs from never loses that
\* mount: unless the server was killed or the mount forced off, the server
\* still answers and the mount is still there (serve, idle).  A record that was
\* not written undoes this: a sweep takes the file for a dead server's, and the
\* server then leaves by a lock no other launch waits for.
NoPullout ==
  unwritten = {} =>
    \A l \in Launch :
      InMount(l) /\ leaseOn[l] = at[l] /\ at[l] \notin lost
        => Connected(at[l]) /\ Mounted(at[l])

\* The lease a launch holds is the one the server of its mount watches: what
\* share.rs says of every launch running from the mount.
WatchedLease == \A l \in Launch : InMount(l) => leaseOn[l] = at[l]

\* It is, unless the helper made the mount the launch asked for and that mount
\* was lost between the lease and the look at the mountpoint (join), or a server
\* whose record was not written has unmounted it on its way out.
WatchedUnlessLost ==
  unwritten = {} =>
    \A l \in Launch :
      InMount(l) /\ leaseOn[l] # at[l]
        => mode[leaseOn[l]] = "host" /\ leaseOn[l] \in lost

\* No launch starts a second server while one serves (create holds the record
\* until its application execs, and serve until it has cleaned up), as long as
\* every server could write its record.
OneServer ==
  unwritten = {} => \A s, t \in Launch : Live(s) /\ Live(t) => s = t

\* No launch that holds its mount's lease joined before that mount's first launch
\* had put its links in place and let go of the record.
NoHalfMadeMount ==
  \A l \in Launch :
    pc[l] \in {"leased", "joining", "entered"} /\ leaseOn[l] = at[l]
      => /\ app[at[l]] # "starting"
         /\ pc[at[l]] \in {"running", "failed", "killed"}

\* Nobody leaves behind what only it can take away.  A server that left on its own,
\* and whose record was written, leaves no record and no lease of its own for a
\* later launch to find.  And a mount stays on the shared path, where every later
\* launch meets it, only while somebody is there to take it down: the launch that is
\* still setting it up, whatever fails on the way (create, cleanup_mountpoint), or
\* the server it handed the mount to, up to its unmount (serve).  A launch killed
\* before it had a server leaves what the helper mounted, as does a server killed.
LeavesNothing ==
  /\ \A s \in Launch \ unwritten :
       srv[s] = "gone" => leaseAt # s /\ (recAt # 0 => names[recAt] # s)
  /\ \A s \in Launch \ lost :
       Mounted(s) =>
         \/ pc[s] \in {"mounted", "leaseMade"}
         \/ srv[s] \notin {"none", "settledOut", "relockedOut", "gone", "killed"}
         \/ pc[s] = "killed" /\ srv[s] = "none" /\ mode[s] = "host"

\* A record is removed from its path only when the server it names is not, or
\* is no longer, running.
RecordOutlivesServer ==
  [][\A s \in Launch :
       recAt # 0 /\ names[recAt] = s /\ recAt' # recAt => ~Live(s)']_vars

(***************************************************************************)
(* The protocol implements MountLifetime: a mount is up while it is        *)
(* connected and mounted, and a tenant is a launch that runs, or is about  *)
(* to run, from it and holds its lease.  Once a record was not written any *)
(* mount may be taken from its tenants.                                    *)
(***************************************************************************)
Tenants == [s \in Launch |-> {l \in Launch : InMount(l) /\ leaseOn[l] = s /\ at[l] = s}]

Lifetime == INSTANCE MountLifetime WITH
  Place <- Launch, Tenant <- Launch,
  up <- {s \in Launch : Connected(s) /\ Mounted(s)}, tenants <- Tenants,
  broken <- IF unwritten = {} THEN lost ELSE Launch

\* Every behaviour of the protocol is one MountLifetime allows.
ImplementsLifetime == Lifetime!Spec

\* A mount nobody needs any more is taken down: its server exits.
Unneeded(s) == srv[s] # "none" /\ LeaseUnshared(s) /\ ~MaybeInUse(s)
ServerLeaves ==
  \A s \in Launch : <>[]Unneeded(s) => <>[](srv[s] \in {"gone", "killed"})

\* A launch waiting for the record decides in the end, whoever holds it: there are
\* always times again at which every launch that has begun is through.
LaunchDecides ==
  []<>(\A l \in Launch : pc[l] \in {"start", "running", "private", "failed", "killed"})
=============================================================================
