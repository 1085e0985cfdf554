# onelf: a verification project

onelf packs a directory into one executable. At run time the executable serves its payload from
a FUSE mount, from a shared extraction cache, or from a temporary tree, and runs the application
out of it. The hard part of the program is not the packing but what happens between processes at
run time: launches of one package meet on files, locks and mounts, applications daemonize,
processes are killed, sweeps remove what nobody uses, and the executable replaces itself. This
directory models that part in TLA+, checks it with TLC and proves most of its safety with TLAPS.

Paths below are relative to `src/`; `rt` is `crates/onelf-rt/src`, `cli` is `crates/onelf/src`.

## Inventory

### Shared FUSE mount: `rt/fuse/share.rs`, `rt/fuse/mod.rs`
State: a *record* file naming the server, a *lease* file, the mount, the server process, and the
descriptors by which everyone holds `flock`s on the two files. Operations: `launch` locks the
record (`lock_record`) and either joins the live server it names (`join`) or mounts and forks
one (`create`); the server (`serve`) writes the record, answers requests, probes with `idle`
whether anybody needs it and cleans up; `reclaim_stale` sweeps what a killed server left. Hard:
the server may decide to leave while a launch decides to join; a file may be replaced between
open and lock; servers are killed and mounts forced off; a daemon may have closed every
descriptor. Correct when no launch loses a mount whose lease it holds, one server runs at a
time, and an unused server leaves, with its files.

### Private FUSE mount: `rt/fuse/mod.rs`, `rt/fuse/fs.rs`, `rt/links.rs`
State: the claimed directory, the mount and its connection, the server forked for one launch,
its SIGCHLD pipe, the pipes over which the application hands over the links it resolved.
Operations: `execute_private` claims a directory, mounts and forks; `serve_private` forks the
application, answers requests, reaps (`reap_exited` between requests, `reap_all` once the
connection is gone), reports the application's end and serves whatever it left running; then it
takes the mount down. Hard: an exit between two turns of the loop, an attribute the kernel
refuses, a connection lost while the two processes wait for each other. Correct when nobody
loses the mount while running out of it, the caller is freed with the application and the server
goes after the last user.

### Blocks of a server: `rt/fuse/fs.rs`
State: the block cache with its budget and order, the prefetch's store of ready blocks, its
workers, the order to stop. Operations: `handle_read` goes through the blocks a read covers,
takes them from the cache, the prefetch or the payload (`insert_block` evicts); workers take
indexes, wait for room, decompress and store; `clear_if_idle` empties the cache and drops the
prefetch. Hard: reads larger than the budget, a worker and a read at the same block, a drop
while workers wait. Correct when a reply has all its blocks, memory stays bounded and no read or
drop waits for good.

### Lifetime guardian: `rt/guardian.rs`
State: three processes (the invoking *proxy*, the *guardian*, the application), the signal masks
and handlers, the pid the handler aims at, the report pipe, the descendants the guardian adopts.
Operations: fork, mark subreaper, install forwarding, fork the application, reap, detach and
report, release. Hard: signals at any instant of the set-up, double forks, pids reused, a
process killed. Correct when the application gets what was sent to it, no more and no less, the
claims cover the whole subtree and end with it, and the caller ends as the application did
without waiting for daemons.

### Runtime directories and set mounts: `rt/paths.rs`, `rt/sets.rs`
State: a directory, the lock file beside it (`.lock`), who holds it shared, and, for a
dependency set, the mounts stacked on the directory and the detached servers behind them.
Operations: `claim_in`, `release`, `sweep_in` and its sweep of orphaned lock files; for sets
`mount` (join what is served, or create under a second lock) and `serve`. Hard: lock files
removed and made anew, locks converted, directories an older release left without a lock file, a
server asking whether anybody claims it while a launch joins. Correct when a claimed directory
stays, a set's server stays while it is used, and leaves afterwards.

### Package cache: `rt/cache.rs`, `cli/cache.rs`
State: per package a tree, a completion marker, a scratch tree, an in-use lock, an extraction
lock and a last-used record; a content store with one lock of its own. Operations:
`ensure_extracted` and `extract_to_cas` in a launch; `auto_gc` in a launch, `gc_cache` and
`clear_cache` on the command line, all of which end in `collect_cas`. Hard: a launch beside a
sweep, kills in the middle of either, blobs shared by packages, trees of older releases. Correct
when a running application has all its files and only verified bytes are linked.

### Execution views: `rt/links.rs`, `rt/cache.rs`, `rt/main.rs`
State: per view a directory with its content, its configuration record and its ready record,
staging trees beside it, a lease file and a creation mutex. Operations: a launch leases its view
and sweeps (`exec_cache`), then reuses, replaces or stages and publishes it (`ensure_view`);
`collect_views` reclaims what is idle. Hard: two launches that find the same damaged view,
conversions of the lease that are not atomic, kills during a build or a removal, two locks taken
by three kinds of process. Correct when an application runs from a whole view, creators do not
meet, and nothing leased or lately used is removed.

### Self-update: `rt/update/mod.rs`
State: the executable, a rollback copy, staging files, the server's release and its signature.
Operations: `resolve` (what is installed), `check`, `apply`: lock, probe, fetch the signature,
assemble from ranges or fetch whole, verify, compare revisions (`revision_permits`), keep the
old executable, rename, sync. Hard: two updaters, a release republished between any two
requests, power cuts between writes, renames and the directory's sync, people who replace the
file by hand. Correct when what is at the path is one whole verified release, only newer ones
are installed and what was replaced is kept.

### Platform store: `rt/platform.rs`, `cli/bundle/sysroot.rs`, `cli/cache.rs`
State: per label a directory with a lock, the pinned build, staging scratches and a partial
download. Operations: `acquire` (verify, or stage under the lock and publish), the bundler's
`set_build`, which takes no lock, and the removal of the store. Hard: names made from pids that
recur, names looked up again after the file behind them changed, the directory removed under an
acquirer. Correct when what is served was verified and no two acquirers fill one scratch.

### Modes and temporary trees: `rt/main.rs`, `rt/ephemeral.rs`, `rt/rundir.rs`
State: the mode a launch is at, the namespaces it entered on the way, the directories of the
launches and the claims on their names, a staging tree beside each, the tmpfs mount, the
guardian that keeps the claim. Operations: `run` tries the modes in turn; `execute_tmpfs` and
`execute_rundir` sweep, claim, extract into staging, publish and hand over to the guardian,
which removes the tree at the end. Hard: names made from pids that recur while a guardian lives,
a failure at any step of an attempt after which another mode must work, sweeps beside
extractions. Correct when an application runs from the tree its own launch extracted, and a
failed attempt leaves nothing that the next mode, or the disk, is stuck with.

### Not modelled
| part | where | why |
|---|---|---|
| which links a tree is given, encoding of a view's record | `rt/links.rs` | computations over directory listings and bytes, with unit tests; what is done with the results is in `ViewStore` and `PrivateServer` |
| FUSE requests but reads, `verify_entry`, trace and profile | `rt/fuse/fs.rs` | one thread answers from an immutable tree; the verdict is a pure function of the payload |
| planning a delta | `rt/update/delta.rs` | a computation over two manifests; `UpdateInstall` lets it yield whatever the ranges fetched may be put together to |
| which sets a launch selects | `rt/sets.rs` | a computation over the package's table |
| the in-memory mode, parsing of the command line, exec | `rt/main.rs`, `rt/launch.rs` | sequential, in one process; `TemporaryTree` has the order of the modes and takes this mode as an attempt that succeeds or fails |
| environment, portable homes, host providers | `rt/env.rs`, `rt/portable.rs`, `rt/providers.rs` | string and path computation in one process |
| package format, resolver | `crates/onelf-format` | pure functions over bytes |
| packer, bundler, pruning | `crates/onelf`, `onelf-sysroot` | sequential build tools that read one tree and write another |
| payloads | `onelf-payloads` | freestanding start-up code without shared state |

The share of the source that is modelled is small because most of it is of these kinds: the
packer, the bundler and the environment are the bulk of the lines. What is modelled is where
processes meet.

## Modules and code

| module | models |
|---|---|
| `ShareMount` | `launch`, `lock_record`, `join`, `enter_namespaces`, `create`, `serve`, `idle`, `reclaim_stale` |
| `MountLifetime` | what sharing a mount promises (abstract specification) |
| `PrivateServer` | `execute_private`, `serve_private`, `run_loop`, `serve_detached`, `reap_exited`, `reap_all`, the hand-off of links |
| `BlockServer` | `handle_read`, `insert_block`, `Prefetch`, `clear_if_idle` |
| `Guardian` | `fork_guardian`, `supervise`, `fork_foreground`, `foreground_reaped`, `forward_to_foreground`, `proxy` |
| `Mountpoint` | `claim_in`, `release`, `sweep_in`, and `mount` and `serve` of a set |
| `PackageCache` | `ensure_extracted`, `extract_to_cas`, `auto_gc`, `gc_cache`, `clear_cache`, `collect_cas` |
| `ViewStore` | `exec_cache` (lease and sweep), `ensure_view`, `replace_unleased`, `Staging`, `collect_views`, `reclaim_view` |
| `UpdateInstall` | check and apply, the install lock, the gates, staging, rollback copy, renames and syncs |
| `PlatformStore` | `acquire`, `stage`, `set_build`, the removal of the store |
| `TemporaryTree` | the mode order in `run`, `execute_tmpfs`, `execute_rundir`, `extract_matching`, `sweep_in` over all directories, what the guardian's release does |
| `...Proofs` | theorems: one module per component, but `GuardianProofs` for `Guardian` and `TemporaryTree`, and `PrivateServerProofs` for `PrivateServer` and `BlockServer` |
| `MC...` | values for TLC |
| `MCServers`, `MCStores`, `MCDirectories` | several components side by side, see Runs |

Definitions marked `slip:` are plausible mistakes: the operator that follows each is the code's,
and putting the slip in its place must break a property. They take no part in the
specifications.

**ShareMount.** One launch is identified with the server it may fork and the lease file it may
make, so `leaseOn[l] = s` reads "l's lease descriptor is open on the file s's launch made". A
`flock` belongs to an open file description: copies of it in a forked process share it, so
`recFds[l]` and `leaseFds[l]` are the *sets of processes* holding a copy and the lock is gone
when the set is empty. Record files are numbered as created; `recAt` is the one at the path,
`ino[l]` the one l opened. `mode` tells a mount made in a private namespace (found through the
server's pid) from one made through the helper on the shared path, which is found by looking at
the path. A launch that gives up sharing is `private`. Which of several reasons made it decline
(other host libraries, other links, another environment) is left open: `Decline` may be taken
whenever one of them could hold. `MaybeInUse` is wider than `InUse` because the scan of `/proc`
goes by path and may count what a killed server's mount still runs. `unwritten` holds the
servers whose write of the record failed, an error `serve` ignores; it counts as a fault. When
the lease, a pipe or the fork fails after the mount was made, `CleanUpMountpoint` takes it down
again (`cleanup_mountpoint`); a lease file that was made stays, as in the code. `LeavesNothing`
speaks of both ends: of the files of a server that left, and of the mount of a set-up that
failed.

**MountLifetime.** A mount is raised, boarded and left by tenants, falls once it has none, or is
broken from outside. `ShareMount` implements it (checked and proved): a launch that runs out of
the mount it holds the lease of is its tenant. So does `PrivateServer` (proved): the tenants of
its one mount are the application and what it left running, all of that where the server adopts
descendants, and what runs out of the mount where it does not.

**PrivateServer.** The processes an application may start are named beforehand; each has a
parent (`kin`), a reader set says which of them run out of the mount. An orphan goes to the
nearest subreaper, which the kernel may have refused to make the server. `bell` is the byte in
the SIGCHLD pipe, `inbox`/`letter`/`acked` the hand-off: the server's ends, the links in the
pipe, the answer. A connection is lost by an unmount from outside. The caller is modelled to the
point where it would run another way (`elsewhere`).

**BlockServer.** A section under the prefetch's mutex is one step, and so is everything the
server's thread does to the cache between two of them, because nobody else sees the cache.
Blocks have sizes, so that one insertion may evict several: `order` is the cache's queue as the
relation "older than", and what goes is the shortest beginning of it that makes room. Bytes are
counted one by one, as the pairs of a block and a position in it. `bytes` is the store's own
count.
`Exit` is the servers of launches, which end with `process::exit` and run no destructor;
`GoOutOfScope` is a package mounted by hand (`inspect.rs`), which drops it. `insert_block` also
removes an entry its key already has; no caller reaches that.

**Guardian.** A signal is pending or not in each of the three processes; it is blocked until the
process has reached the step that unblocks it. A signal of `Raised` becomes pending for each
member of the process group the three share; one of `Sent` for the one process it was sent to
(`SendTo`), or for each member of the group (`SendToGroup`), and the handlers cannot tell the
two apart: `si_code` is zero in both. `sentTo` is a history variable, the processes a signal was
sent to. `ReceivedAsSent` bounds what the application gets by that: one for each process a
signal was sent to on purpose, and its own of one the terminal raised. That it gets a signal
once, as the file's header says, is not so (finding 9). `aimed` says that `FOREGROUND` holds the
application's pid, `recycled` that the kernel has given the pid away.

**Mountpoint.** One directory name, private or a set's. Lock files are numbered as they are
created, since a lock on an unlinked file keeps nobody away. A set's mounts stack on the
directory in the host's namespace, and `fuse_unmount` takes the top, whoever mounted it.
`Served` asks what is on top whether it answers. The grace period is long compared with any
protocol, so things grow old only while nobody is between two steps. The two safety properties
say what they depend on: `made <= 1` or `OneLockFile`, that the lock file the first claim was
made on is still the one in use. A claim does not look at the path again after it locked, so a
lock file that is swept or cleaned out under it lets a second launch claim a second file.

**PackageCache.** A tree is the set of the parts it holds. Locks are functions of the holders'
phases, except the extraction lock, whose file a sweep may remove while it is held. Record ages
are `fresh` and `old`. Files are hardlinked one by one and removed one by one. A killed process
leaves the disk as it is. `Legacy` packages begin with a tree without marker and lock file, as
an older release left them.

**ViewStore.** A view is a set of three parts: the content, the ready record, and the
configuration record together with the environment input it hashes. Directories are removed one
part at a time in any order, because `remove_dir_all` takes them as the directory lists them.
Locks are functions of the holders' phases. `flock(2)` does not promise that a conversion is
atomic, so `converting`, `relocking` and `regaining` are phases in which the launch holds no
lease. A launch may sweep before it looks for its view, and is then an agent of the collection
as the command line's sweeper is, whose age limit may be zero. The modification time of a lease
file is `fresh` or `old`. `torn` is a history variable: the views whose removal was cut short.
`Damage` stands for the loss or replacement of a record from outside. The removal of empty
directories that ends `cache clear` is in `PackageCache` and not repeated.

**UpdateInstall.** A file is named by whoever brought it, and holds a release, a mix of two
(`Mix`: ranges of one, index of another), nothing yet, or `Torn`. `dirLog` is the directory's
states the disk may have, the last being the present one: a rename adds one, the sync leaves the
last, a power cut picks any, and a file that was not synced comes back torn. Publishing may fall
between any two requests, and leaves a signature of the other release for a while. A delta is
put together from whatever the ranges were when they were fetched. `self_path` is a plain
readlink: where the executable was replaced it names no file, so that an `apply` ends at its
open and a `check` goes on without a package of its own (`misled`). `unflushed` is a history
variable, the updaters whose sync of the staged bytes failed, which is only a warning:
`BinaryWhole` lets their release tear, and no other.

**PlatformStore.** A file is an inode with one writer; names are looked up at each use, as the
code does. `pid` may be the same for two acquirers, in two pid namespaces or because it was
recycled. Label directories are numbered, since removing the store and making it anew leaves
holders of the old one. The second look under the lock has three ends (`own_copy`): the build is
there, it is not, or a directory on the way cannot be walked safely and the launch gives up.

**TemporaryTree.** A claim is the lock on a name: the lock file behind it is the matter of
`Mountpoint`, whose protocol this module takes as a lock that is taken and released in one step.
A directory is named by the package (the tmpfs mode, in which all its launches mount on one
directory, each in its own namespace) or by the launch's pid (the runtime directory mode, and
every staging tree); a pid is given to another launch as soon as its process is gone, while
guardian and application live on. Trees are removed part by part. A mount goes with the
directory it is mounted on, in whatever namespace it is. `copies` is the set of processes with a
descriptor that holds the claim: the launch, then the guardian, then also the application, which
may close it. `tried` and `GoOn` are the chain of modes with what the package and the
environment rule out; the modes that have a module of their own, or none, are attempts that
succeed or fail. An attempt at FUSE sweeps first and may fail after it entered its namespace.
So may `enter_namespace` of the tmpfs mode: a child tries the whole sequence first, but that it
worked there does not oblige it to work in the launch. `unshared` then holds `unmapped`, and the
launch goes on to the next mode from there.

## Runs

Three runs put independent components side by side: a variable `running` names the one that
runs, and the others have already ended, so that the state spaces add up instead of multiplying.
The components share no variable, so no behaviour is lost or added.

| run | instance | shows |
|---|---|---|
| `servers` | shared mount: two launches of one package, one attempt, one fault; guardian: two daemons, one signal sent to a process or to the group, one raised, one death; private mount: two background processes, one trouble; blocks: two workers, a profile over two files, window 2, budget 3 | liveness of all four, safety of the last three |
| `stores` | shared mount: three launches, two packages with one directory name, two record files, two attempts, one fault; temporary trees: two launches, four kinds of request, two pids, two parts, one kill; cache: three launches of which two take part, two packages sharing a blob, one sweep of any kind, one kill, one legacy package; update: two updaters, two releases, one publication, one mishap; platform: two acquirers, one bundler, the pid common to both, two label directories, one loss | safety of the five, and `ImplementsLifetime` |
| `directories` | views: two launches of one view, one sweep with or without an age limit, one kill or one record lost; mountpoint: two claimants, one reclaimer, private or set, two lock files, one fault, in a set before the sweep begins; cache: two launches, one sweep | liveness of all three, safety of the first two |
| `share_stale` | the shared mount of `stores` | `WatchedLease` does not hold (finding 1) |
| `cache_legacy` | a legacy package | `LegacyRunsWhole` does not hold (finding 2) |
| `cache_clear` | a clear beside a launch | `RunningKeepsTree` does not hold (finding 3) |
| `guardian_recycled` | the guardian of `servers` | `NoStrayForward` does not hold (finding 4) |
| `guardian_terminal` | the same | `RaisedArrives` does not hold (finding 5) |
| `view_torn` | two launches of two views, each sweeping, one kill | `ReadyIsWhole` does not hold (finding 6) |
| `update_older` | two updaters, three releases, one publication | `OlderNeverWins` does not hold (finding 7) |
| `private_reaped` | the private mount of `servers`, under fairness | `ReapedToTheEnd` does not hold (finding 8) |
| `guardian_grouped` | one signal, sent on purpose | `ReceivedOnce` does not hold (finding 9) |

The type invariants are proved for every instance and are not checked again by the runs.

**Bounds.** `MaxIno` bounds record files and lock files: two are enough for a process to hold a
file that was replaced. Three launches are enough for a server, a launch joining it and a third
that replaces it or belongs to another package. `MaxTries` is 2 rather than the code's bound, so
that giving up is reached (1 in `servers`, where a retry would only ask for another record file
than the bound allows). The bounds on faults, kills, losses, troubles and mishaps: one of them
at any instant is what the code claims to survive, and the proofs allow any number. The four
kinds of request of `TemporaryTree` are every mode in turn, a package whose setuid programs rule
the namespaces out, the runtime directory alone, and a forced mode that the package rules out.
Two parts let a tree be half written and half removed. Two blobs, one shared, give a blob that
stays linked and one that does not. Two daemons, or background processes, give one left after
the other was reaped, and one that is the other's child. One signal of a kind is enough to see
it arrive twice, since each is sent once. With a window of 2 and blocks of different sizes two
workers overrun it together, and a read can be larger than a budget of 3. Two updaters are
enough for one to install between two steps of the other; a second release is what a
republication brings, and a third (`update_older`) one between two. Two label directories let
the store be removed under an acquirer; a pid common to both acquirers gives their scratches one
name, the worst case. The runs use symmetry only between processes with the same role, and only
for safety. In `directories` one view is enough for everything that two of its launches and a
collector can do to each other; what a launch does to another launch's view as a collector is in
`view_torn`, and in the proofs for any number of views. Nine conditions in the MC modules keep
the state spaces within reach, each on steps that need not happen: `FewRetries` (a launch finds
its record file removed only while the launches of one package are there), `OfOnePackage` (the
launches that leave trees are of one package), `RecycledFirst` (a process id that is free is
taken before one nobody has had), `OneLeft` (one launch at most leaves the host's namespaces and
then tries another mode), `TwoLaunches` (of the three launches of the cache any two take part),
`OneIntrusion` (nothing is published once somebody has replaced the executable by hand),
`OneDaemonIfSent` (no signal is sent where the application has left two daemons behind),
`OneTrouble` (a kill or a lost record, not both) and `EarlyFaults` (a set's server or user is
killed before the sweep begins). The liveness of the cache is checked without legacy packages: a
launch whose scratch tree is removed without a lock (finding 2) goes on by failing, and no error
is assumed to come.

Deadlock is not checked: every one of these systems rightly stops when all launches have ended.

**Fairness.** Processes and threads keep being scheduled, so their steps are weakly fair. Steps
that wait for a lock are strongly fair in `ShareMount` and `PackageCache`, one condition for
each launch because it waits for one lock at a time: `flock` wakes waiters when the lock is
released, and the server, which polls, sleeps seconds between probes and so leaves the lock free
meanwhile. In `ViewStore` and `Mountpoint` they are weakly fair: each process takes each lock
finitely often, so that a lock is free in the end. An application is only obliged to exec, never
to exit; records need never grow old; errors, kills and faults are never obliged to happen, and
neither are reads, or wake-ups without a cause; a sweep of stale files that has begun goes on.
In `Guardian`, a handler runs once its signal is pending and unblocked. Where a process may be
asked again and again, as a server is, liveness has the form `[]<>`: it comes back to where it
can be asked (`ServerAnswers`).

## Findings

1. *Lease of another mount* (`rt/fuse/share.rs` 244-258). For a helper mount, `join` takes the
   lease under the record lock, drops the lock, and then asks only whether the path is a
   mountpoint that answers. If the server was killed or its mount forced off and a third launch
   mounted anew in between, the launch runs from the new mount with the old lease, against line
   20 of the file. `WatchedUnlessLost` (checked and proved) confines this to helper mounts that
   were lost.
2. *Removal without a lock* (`rt/cache.rs` 608-627). A package with no lock file is removed
   unlocked; a launch may lock, extract and run it meanwhile.
3. *Empty directories of running packages* (`cli/cache.rs` 329-339). `cache clear` ends by
   removing every empty directory under the root, those of running packages too.
4. *Forward to a reused pid* (`rt/guardian.rs` 253-292). `wait` reaps before `FOREGROUND` is
   cleared and the signals are not blocked in between.
5. *Ctrl-C during set-up* (`rt/guardian.rs` 476-499). A terminal signal from before the
   application's fork is dropped by both handlers.
6. *Ready and not whole* (`rt/cache.rs` 535). `reclaim_view` removes a published view without
   taking its ready record first. A collector killed inside the removal, or stopped by an error,
   can leave the records beside a tree with files missing; the next launch finds the view ready
   and runs from it. `RunsWholeView` (checked and proved) shows that this is the only way to run
   from less than the whole view. The package cache is not exposed to this: its completion
   marker goes before the tree.
7. *An older release wins* (`rt/update/mod.rs` 785). The install lock is taken on whatever file
   is at the path, and the gate compares with the revision of the package that runs. An updater
   started from the release before opens and locks the file another has just installed, and
   replaces it by a release newer than its own and older than that one, what 678-681 says the
   lock prevents. `OnlyNewer` (proved) is what does hold: an installed release is
   newer than the one the updater was started from.
8. *Waiting for each other* (`rt/fuse/mod.rs` 521). When the connection is lost, `reap_all`
   waits for the application without looking at the hand-off, whose server's ends are still
   open. An application that has sent its links and waits for the acknowledgement waits for the
   server, which waits for it; links.rs 347-348 says that a server gone ends the wait.
9. *A signal to the group arrives twice* (`rt/guardian.rs` 489). The header of the file says
   that what is sent on purpose is forwarded, "so either way the application receives it once".
   A signal sent to the process group is pending at the proxy, the guardian and the application,
   with an `si_code` that reads as sent on purpose: the application gets its own copy and one or
   two that are forwarded, unless they meet while one is still pending. `ReceivedAsSent`
   (checked and proved) is what does hold.

Behaviours met on the way that contradict no statement of the source:

- A server whose record could not be written is taken for a dead one's by a sweep; the next
  launch then mounts anew, and the first server, leaving, unmounts by path and takes that mount
  down. The theorems about one server are therefore stated for `unwritten = {}`.
- A bundler's rename between an acquirer's rename and its look at the inode makes the acquirer
  unlink the bundler's good build, which is then fetched again.
- `Prefetch::take` wakes one worker. If that worker's block was taken meanwhile and the list is
  used up, the wake-up is used up too and another worker waits although there is room. Reads
  never wait for workers, so only prefetching is lost.
- `clear_if_idle` counts insertions only: reads that hit the cache do not keep it from being
  cleared and the prefetch from being dropped.
- `fuse_mount_unshare` enters its namespaces before it opens the device and mounts. A FUSE
  attempt that fails after that leaves the launch in a user namespace for the modes that follow,
  which `ephemeral.rs` 107-112 takes care to avoid for failures of its own. So does
  `enter_namespace` itself when it has unshared and cannot map the ids, although a child could.
  `LeavesNoTrace` allows exactly these two, and only for packages without setuid programs.
- When the fork of the guardian fails in the runtime directory mode, the claim is gone before
  the tree is removed. Nothing runs from it, so a sweep that comes between does the same work.
- A claim does not check that the lock file it locked is still at the path (see `Mountpoint`
  above); the grace period is what keeps this from happening.

## Proofs

The theorems hold for any number of processes, packages, files and faults. They assume the one
named `ASSUME` of their module, which fixes what kind of values the constants are, and nothing
else. Each of the properties is strengthened to an inductive invariant, the conjunction of named
parts; there is one lemma per part that needs an argument, with one step per action.

### `ShareMountProofs`
`TypeCorrect`, `NoServerPullsOut` (`NoPullout`), `ServersAreAlone` (`OneServer`),
`RecordsOutliveServers` (`RecordOutlivesServer`, an action property), `LeaseIsWatched`
(`WatchedUnlessLost`), `MountsAreHandedOver` (`NoHalfMadeMount`), `ServersCleanUp`
(`LeavesNothing`), `LifetimeImplemented`, the refinement of `MountLifetime`, and
`NobodyWaitsInACircle` (`WaitsEnd`).

`IInv` adds, from the locks outwards: `RecordLock` and `LeaseLock` (mutual exclusion of the two
`flock`s, over copies of descriptors), `Phases` (which descriptors each phase implies),
`Numbered` (a new record file is a new inode), `RecordAtPath` (whoever may decide holds the file
*at the path*, and that file names the server), and, as long as every server could write its
record, `OneActive` (one launch between mount and hand-over, or one live server) and `MountMade`
(what an active launch mounted is there). `OneActive` and `RecordAtPath` need each other: a
launch mounts only after it has read, in the file at the path, that no server is live, and the
file stays at the path because only the server it names, or a sweep that found it dead, removes
it. `NoPullout` follows from `LeaseLock` and the scan: a server that settles holds the lease
alone, so no launch is still setting up, and no process runs out of the mount.

`JoinInv` stands on `IInv` and says what a launch that joins may rely on: `LeaseOfRecord` (the
lease it takes is the one the record names), `HandedOver` (it holds the lease of a mount whose
first launch has let go of the record), `FilesGone` and `MountsKept` (the two halves of
`LeavesNothing`), `ServesMounted` (a server has its mount until it unmounts it) and
`ServesJoining` (it goes on serving a launch that joins). The refinement maps each step to a
step of `MountLifetime` or a stutter, and uses `NoPullout` for the one that matters: a mount
falls only when it has no tenant.

`WaitsEnd` is the part of `LaunchDecides` and `ServerLeaves` that is safety, for any number of
launches: `Awaits` says who cannot go on before whom, over the record's lock, the lease's and
the hang-up of the launched pipe. Whoever is waited for over the record is a launch that has
locked it, an application before its exec, or a server that does not wait (`Inherited`,
`Phases`); the launch among them waits at most for a server that has taken the lease, and that
one only tries the record. So chains of waiting have at most two links and never close.

### `PackageCacheProofs`
`TypesHold`, `RunsWhole` (`RunsWholeFiles`), `MarkersVouch` (`MarkedIsWhole`) and
`VerifiedIsLinked` (`LinksVerified`). The invariant: `LockedFiles` (only a legacy package is met
without a lock file), `ClaimsExclude` (nobody runs what a sweep removes under the lock),
`OneExtracts`, `StoreExcluded` (no blob is collected while an extraction fills its tree) and
`Progress` (how much of the package each phase of an extraction has made). `MarkedIsWhole` holds
through a removal because the marker goes first and comes last.

### `ViewStoreProofs`
`TypesHold`, `ViewsOutlastTheirRuns` (`RunsWholeView`), `CreatorsStageAlone` (`StagesAlone`),
and as action properties `LeasedViewsStay` (`LeasedStays`) and `FreshViewsStay` (`FreshStays`):
every safety property of the runs. `NobodyWaitsInACircle` (`NoCircularWait`) adds that whoever a
launch waits for, over the lease or the mutex, waits for nobody: a creator has the shared lease,
so nobody holds it exclusively, and whoever does is removing and waits for nothing. A launch
that reuses a view relies on what its records vouch for, and that on who else may be removing or
publishing, hence `Locks`, `NameKnown` (while one launch has the mutex the name it has cleared
stays clear, and what it has published stays whole), `ValidIsWhole` (a view with both records is
whole, is being removed, or is torn), `ScratchKnown` (a creator's staging tree is the only one
of its view) and `OldWhenReclaimed` (what the idle test found stays so during the removal). The
collector needs both locks, so it meets no creator and no lease.

### `GuardianProofs`
`TypesHold`, `SignalsArriveAsSent` (`ReceivedAsSent`), `LeasesCoverSubtrees`
(`LeaseCoversSubtree`), `ProxiesEndAsTheirApplications` (`EndsAsTheApplication`). `StageKnown`
and `ReportKnown` tie the guardian's phase to the application's and to what is in the pipe;
`SubtreeKnown` says that whoever is alive is the guardian's to wait for; `SignalsKnown` that of
a signal no more is pending and received than was sent, counting one for each process it was
sent to.

About `TemporaryTree`: `TreeTypesHold`, `OwnTreesHold` (`RunsFromOwnTree`) and `NoTraceIsLeft`
(`LeavesNoTrace`). The invariant `TreeInv` says of all launches that those alive have different
pids (`Apart`), that nothing claimed is being cleared (`Excluded`) and that what a launch needs
is in its place (`InPlace`); and of each launch which turn belongs to which mode (`Numbered`),
which process holds the claim when (`Held`, `Followed`), that a mode is left with nothing
mounted, and in the host's namespaces but for the two cases above (`Outside`), and which
directories hold what it wrote (`WrittenBy`, `Fills`). A guardian may share its pid, and so the
name of its directory, with a new launch; what separates them is the claim, which the guardian
keeps until the tree is gone. Because there are many actions and few that touch a directory,
`StepOfPlaces` first sorts the steps by what they do to the directories, and the parts of the
invariant are proved from that.

### `PrivateServerProofs`
About `PrivateServer`: `ServesToTheEnd` (`ServedToTheEnd`), from `Begun` (what each phase of the
launch has started), `Served` (the connection is there while the server may answer), `Forest`
(background processes hang below the application, the server or init, without a cycle),
`Emptied` (a server about to unmount has seen the last of them: all of them if it is a
subreaper, those that run out of the mount otherwise). `LifetimeImplemented` is the refinement
of `MountLifetime`, from `Emptied` where the mount falls; `NoExitIsMissed` (`ExitsAreHeard`)
says that the loop never sleeps with an exit unreaped, the safety under `CallerFreed` and
`ServerTakesDown`.

About `BlockServer`: `ReadsAreWhole` (`RepliesWhole`, inductive by itself: an eviction spares
what the read needs) and `NothingIsKeptTwice` (`NoneKeptTwice`), from `Stopped` (after the order
to stop nothing is stored), `Apart` (each index is taken by one worker) and `HandedOnce` (a
block that is ready, or cached without a read having claimed it, is one its worker is through
with). `MemoryIsBounded` (`MemoryBounded`) is from `Reading` (what a read has left is part of
it), `Cached` (the cache keeps to its budget, or to the blocks of one read: the search through
`order` ends with enough, or with all it may take) and `Ahead` (the count is right, and below
the window by a block for each worker that has looked for room and not stored yet).
`DropWakesEverybody` (`NobodyLeftWaiting`) says that the server, when it waits for its workers,
waits for none that sleeps.

### `MountpointProofs`
`ClaimsKeepDirs` (`ClaimKeepsDir`) and `ServersStay` (`ServerStays`), from `Inos` (descriptors
are open on files that were made), `Excluded` (a claim keeps everybody from locking its file
alone), `Forked` (only a set has servers, forked late), `Joined` (a launch joined a server that
answered) and `NeverUnlocked` (with one lock file no sweep takes the directory for one that has
none).

### `UpdateInstallProofs`
`BinaryStaysWhole` (`BinaryWhole`: whatever state of the directory a power cut leaves, the name
is on a whole release), `ReplacedIsKept` (`NothingLost`), `InstallsOnlyNewer` (`OnlyNewer`) and
`StagingIsRemoved`. The invariant: `Fresh` (nothing leads to a file before its updater renamed
it), `Sources` (what an updater runs and has opened is a release), `HandsOff` (which files
nobody but people bring), `Alone` (one updater at a time past the lock, and the name leads to
the locked file until it renames), `KeptSafe` (the copy of what it replaces), `StagedWhole`
(what it verified is a release its gate permits) and `Beside` (what lies in the directory while
it works).

### `PlatformStoreProofs`
`ServedIsVerified`, `ScratchesAreOwn` (`StagedIsOwn`) and `OnePublishes` (`OneStages`), from
`Guarded` (the lock is held by whom it protects), `Unshown` (nothing leads to a file before it
was verified), `Verified` (what is named, served or about to be published is the pinned build)
and `First` (while only acquirers touch the name, the first to publish is what everybody finds).

### What is only model-checked
Liveness, which is out of the prover's reach: `ServerLeaves`, `LaunchDecides`, `CallerReturns`,
`SentArrives`, `ClaimsReleased`, `CallerFreed`, `ServerTakesDown`, `ServerAnswers`,
`LaunchGetsView`, `SetServerLeaves`, `LaunchReturns`. What they owe to safety is proved where it
says something: that nobody waits in a circle, misses an exit or sleeps through a drop. The nine
violations, which are counterexamples. Every other property of the runs is proved.

## Left to do

The set mounts of `Mountpoint` implement `MountLifetime` only up to faults, which would have to
be told apart by a history variable; that refinement is not stated. Planning a delta and the
verdict on an entry without block hashes are pure and could be checked against a reference over
bounded inputs; so could the selection of sets and the resolver. Turning the observations above
into properties needs a decision on what the code should promise.
