----------------------------- MODULE PrivateServer -----------------------------
(***************************************************************************)
(* The private FUSE mount of one launch (crates/onelf-rt/src/fuse/mod.rs,  *)
(* execute_private and serve_private; run_loop and serve_detached in       *)
(* fuse/fs.rs; the hand-off of links.rs): the launch mounts, forks its     *)
(* server and waits as the proxy; the server forks the application,        *)
(* answers its reads, takes the links it resolved, reaps whatever it       *)
(* leaves behind and takes the mount down after the last of them.          *)
(*                                                                         *)
(* Signals are in Guardian.  What the application may start is named       *)
(* beforehand; which of it runs out of the mount is its own choice.        *)
(***************************************************************************)
EXTENDS Naturals

CONSTANTS
  Background,  \* processes the application, or one of them, may start
  MaxTroubles  \* bound: connections lost and processes killed

ASSUME PrivateAssumption ==
  /\ Background \cap {"main", "server", "init"} = {}
  /\ MaxTroubles \in Nat

VARIABLES
  caller,   \* where the launch is
  claim,    \* the directory it claims: its package's or its own
  door,     \* how the mount was made
  mnt,      \* it is mounted
  conn,     \* the connection to the kernel
  server,   \* where the server is
  adopts,   \* the server is a child subreaper
  bell,     \* a byte is in the pipe its SIGCHLD handler writes
  told,     \* what it reported
  inbox,    \* it has its ends of the hand-off open
  letter,   \* the links are in the pipe
  acked,
  main,     \* where the application is
  bg,       \* where each background process is
  kin,      \* whose child it is
  reader,   \* the background processes that run out of the mount
  troubles

ownMountVars   == <<claim, door, mnt, conn>>
waitVars    == <<adopts, bell, told>>
handVars    == <<inbox, letter, acked>>
treeVars    == <<main, bg, kin, reader>>
privateVars == <<caller, ownMountVars, server, waitVars, handVars, treeVars, troubles>>

CallerPhase ==
  {"starting", "claimed", "helping", "mounted", "ready", "waiting", "returned",
   "elsewhere", "failed"}
PrivatePhase ==
  {"none", "born", "prepared", "loading", "polling", "woken", "finished", "reaping",
   "lastReaping", "waitAll", "emptied", "detached", "leaving", "unmounted", "gone",
   "killed"}
MainPhase == {"none", "resolving", "handing", "live", "zombie", "gone"}

ServerAlive == server \notin {"none", "gone", "killed"}
MainAlive == main \in {"resolving", "handing", "live"}

Trouble == troubles < MaxTroubles /\ troubles' = troubles + 1

PSInit ==
  /\ caller = "starting" /\ claim = "none" /\ door = "none"
  /\ mnt = FALSE /\ conn = "none"
  /\ server = "none" /\ adopts = FALSE /\ bell = FALSE /\ told = "nothing"
  /\ inbox = FALSE /\ letter = FALSE /\ acked = FALSE
  /\ main = "none"
  /\ bg = [b \in Background |-> "none"] /\ kin = [b \in Background |-> "init"]
  /\ reader \in SUBSET Background
  /\ troubles = 0

-----------------------------------------------------------------------------
(* execute_private.                                                        *)

ClaimPackageDir ==
  /\ caller = "starting"
  /\ \/ caller' = "claimed" /\ claim' = "package"
     \/ caller' = "elsewhere" /\ UNCHANGED claim
  /\ UNCHANGED <<door, mnt, conn, server, waitVars, handVars, treeVars, troubles>>

MountUnshared ==
  /\ caller = "claimed" /\ caller' = "mounted"
  /\ door' = "namespace" /\ mnt' = TRUE /\ conn' = "open"
  /\ UNCHANGED <<claim, server, waitVars, handVars, treeVars, troubles>>

\* No namespace, or none wanted: the helper's mount is seen by others, so it goes
\* in a directory of this launch's own.
ClaimLaunchDir ==
  /\ caller = "claimed"
  /\ \/ caller' = "helping" /\ claim' = "launch"
     \/ caller' = "elsewhere" /\ claim' = "none"
  /\ UNCHANGED <<door, mnt, conn, server, waitVars, handVars, treeVars, troubles>>

MountHelped ==
  /\ caller = "helping"
  /\ \/ /\ caller' = "mounted" /\ door' = "helper" /\ mnt' = TRUE /\ conn' = "open"
        /\ UNCHANGED claim
     \/ /\ caller' = "elsewhere" /\ claim' = "none"
        /\ UNCHANGED <<door, mnt, conn>>
  /\ UNCHANGED <<server, waitVars, handVars, treeVars, troubles>>

\* The hand-off's pipes and the wake pipe; without them the mount is taken down.
OpenPipes ==
  /\ caller = "mounted"
  /\ \/ caller' = "ready" /\ inbox' = TRUE /\ UNCHANGED <<claim, mnt, conn>>
     \/ /\ caller' = "elsewhere" /\ claim' = "none" /\ mnt' = FALSE /\ conn' = "closed"
        /\ UNCHANGED inbox
  /\ UNCHANGED <<door, server, waitVars, letter, acked, treeVars, troubles>>

\* The launch drops its copies of the connection and waits as the proxy.
ForkPrivateServer ==
  /\ caller = "ready" /\ caller' = "waiting" /\ server' = "born"
  /\ UNCHANGED <<ownMountVars, waitVars, handVars, treeVars, troubles>>

\* The process exits with what it holds: a helper's mount stays, and answers
\* nobody.
ForkPrivateFails ==
  /\ caller = "ready" /\ caller' = "failed"
  /\ conn' = "closed" /\ claim' = "none" /\ mnt' = (door = "helper") /\ inbox' = FALSE
  /\ UNCHANGED <<door, server, waitVars, letter, acked, treeVars, troubles>>

\* The report arrived, or the pipe hung up without one.
CallerHears ==
  /\ caller = "waiting" /\ (told # "nothing" \/ ~ServerAlive)
  /\ caller' = "returned"
  /\ UNCHANGED <<ownMountVars, server, waitVars, handVars, treeVars, troubles>>

-----------------------------------------------------------------------------
(* serve_private, up to the loop.                                          *)

\* A subreaper where the kernel allows it; the handler that rings the bell.
Prepare ==
  /\ server = "born" /\ server' = "prepared"
  /\ adopts' \in BOOLEAN
  /\ UNCHANGED <<caller, ownMountVars, bell, told, handVars, treeVars, troubles>>

\* The child closes its copies of the connection and of the server's ends.
ForkMain ==
  /\ server = "prepared" /\ server' = "loading" /\ main' = "resolving"
  /\ UNCHANGED <<caller, ownMountVars, waitVars, handVars, bg, kin, reader, troubles>>

ForkMainFails ==
  /\ server = "prepared" /\ server' = "gone"
  /\ told' = "unavailable"
  /\ claim' = "none" /\ mnt' = FALSE /\ inbox' = FALSE
  /\ conn' = IF conn = "lost" THEN "lost" ELSE "closed"
  /\ UNCHANGED <<caller, door, adopts, bell, letter, acked, treeVars, troubles>>

Load ==
  /\ server = "loading" /\ server' = "polling"
  /\ UNCHANGED <<caller, ownMountVars, waitVars, handVars, treeVars, troubles>>

-----------------------------------------------------------------------------
(* run_loop and the reaping between its turns.                             *)

HearBell ==
  /\ server = "polling" /\ bell /\ server' = "woken"
  /\ UNCHANGED <<caller, ownMountVars, waitVars, handVars, treeVars, troubles>>

\* take_links: served and acknowledged, or the sender is gone without a word.
SenderClosed == main \notin {"resolving", "handing"}

TakeLetter ==
  /\ server = "polling" /\ inbox /\ (letter \/ SenderClosed)
  /\ inbox' = FALSE /\ acked' = letter
  /\ UNCHANGED <<caller, ownMountVars, server, waitVars, letter, treeVars, troubles>>

ConnectionEnds ==
  /\ server = "polling" /\ conn = "lost" /\ server' = "finished"
  /\ UNCHANGED <<caller, ownMountVars, waitVars, handVars, treeVars, troubles>>

\* The pipe is emptied before anybody is reaped.
Drain ==
  /\ \/ server = "woken" /\ server' = "reaping"
     \/ server = "finished" /\ server' = "lastReaping"
  /\ bell' = FALSE
  /\ UNCHANGED <<caller, ownMountVars, adopts, told, handVars, treeVars, troubles>>

Reaps == server \in {"reaping", "lastReaping", "waitAll"}

\* foreground_reaped reports at once.
ToldAtTheEnd == told \* slip: the outcome is reported when the server leaves
Told == "ended"

ReapMain ==
  /\ Reaps /\ main = "zombie"
  /\ main' = "gone" /\ told' = Told
  /\ UNCHANGED <<caller, ownMountVars, server, adopts, bell, handVars, bg, kin, reader,
                 troubles>>

ReapBackground(b) ==
  /\ Reaps /\ bg[b] = "zombie"
  /\ bg' = [bg EXCEPT ![b] = "gone"]
  /\ UNCHANGED <<caller, ownMountVars, server, waitVars, handVars, main, kin, reader,
                 troubles>>

OneReaped == TRUE \* slip: one wait for one signal
NoZombie == main # "zombie" /\ \A b \in Background : bg[b] # "zombie"

Childless ==
  /\ main = "gone"
  /\ \A b \in Background : ~(bg[b] \in {"live", "zombie"} /\ kin[b] = "server")

\* wait has nobody that exited: on with serving, or a wait for the rest.
NobodyExited ==
  /\ NoZombie /\ ~Childless
  /\ \/ server = "reaping" /\ server' = "polling"
     \/ server = "lastReaping" /\ server' = "waitAll"
  /\ UNCHANGED <<caller, ownMountVars, waitVars, handVars, treeVars, troubles>>

\* wait proves that the subtree is empty.
SubtreeEmpty ==
  /\ Reaps /\ NoZombie /\ Childless
  /\ server' = IF adopts THEN "leaving" ELSE "detached"
  /\ UNCHANGED <<caller, ownMountVars, waitVars, handVars, treeVars, troubles>>

\* mount_in_use: a live mount, and a process that runs out of it.
Used == mnt /\ \E b \in reader : bg[b] = "live"

\* Not a subreaper: orphans went elsewhere, and /proc is asked (serve_detached).
FindIdle ==
  /\ server = "detached" /\ (~Used \/ conn = "lost")
  /\ server' = "leaving"
  /\ UNCHANGED <<caller, ownMountVars, waitVars, handVars, treeVars, troubles>>

UnmountOwn ==
  /\ server = "leaving" /\ server' = "unmounted"
  /\ mnt' = FALSE /\ conn' = IF conn = "lost" THEN "lost" ELSE "closed"
  /\ UNCHANGED <<caller, claim, door, waitVars, handVars, treeVars, troubles>>

ReleaseDir ==
  /\ server = "unmounted" /\ server' = "gone"
  /\ claim' = "none" /\ inbox' = FALSE
  /\ UNCHANGED <<caller, door, mnt, conn, waitVars, letter, acked, treeVars, troubles>>

-----------------------------------------------------------------------------
(* The application: before its exec it is launch::exec in the forked child. *)

\* Reads of the mount wait for the server's loop, and fail once the connection
\* is gone.  The letter needs somebody to read it.
Answered == server = "polling" \/ conn # "open"
InboxOpen == inbox /\ ServerAlive

ResolveLinks ==
  /\ main = "resolving" /\ Answered
  /\ \/ InboxOpen /\ main' = "handing" /\ letter' = TRUE
     \/ main' = "live" /\ UNCHANGED letter
  /\ UNCHANGED <<caller, ownMountVars, server, waitVars, inbox, acked, bg, kin, reader,
                 troubles>>

\* The byte, or the end of the pipe when the server is gone.
HearAck ==
  /\ main = "handing" /\ (acked \/ ~InboxOpen) /\ main' = "live"
  /\ UNCHANGED <<caller, ownMountVars, server, waitVars, handVars, bg, kin, reader,
                 troubles>>

AdoptedByInit == "init" \* slip: the attribute is set after the fork
Adopter == IF adopts /\ ServerAlive THEN "server" ELSE "init"
Orphaned(p) == [b \in Background |-> IF kin[b] = p THEN Adopter ELSE kin[b]]

MainDies ==
  /\ main' = IF ServerAlive THEN "zombie" ELSE "gone"
  /\ bell' = (bell \/ ServerAlive)
  /\ kin' = Orphaned("main")
  /\ UNCHANGED <<caller, ownMountVars, server, adopts, told, handVars, bg, reader>>

MainExits ==
  /\ main = "live" \/ (main = "resolving" /\ Answered)
  /\ MainDies /\ UNCHANGED troubles

\* What runs out of the mount is started by what does, the application first; a
\* process of the host's that comes back to the package is left out.
StartBackground(b) ==
  /\ bg[b] = "none"
  /\ \/ main = "live" /\ kin' = [kin EXCEPT ![b] = "main"]
     \/ \E p \in Background :
          bg[p] = "live" /\ (b \in reader => p \in reader) /\ kin' = [kin EXCEPT ![b] = p]
  /\ bg' = [bg EXCEPT ![b] = "live"]
  /\ UNCHANGED <<caller, ownMountVars, server, waitVars, handVars, main, reader, troubles>>

\* A child of a process of the application's is that process's to reap.
BackgroundExits(b) ==
  /\ bg[b] = "live"
  /\ LET awaited == kin[b] = "server" /\ ServerAlive IN
     /\ bg' = [bg EXCEPT ![b] = IF awaited THEN "zombie" ELSE "gone"]
     /\ bell' = (bell \/ awaited)
  /\ kin' = Orphaned(b)
  /\ UNCHANGED <<caller, ownMountVars, server, adopts, told, handVars, main, reader,
                 troubles>>

-----------------------------------------------------------------------------
(* Troubles.                                                               *)

\* Unmounted or aborted from outside.
LoseConnection ==
  /\ Trouble /\ conn = "open" /\ ServerAlive
  /\ conn' = "lost" /\ mnt' \in BOOLEAN
  /\ UNCHANGED <<caller, claim, door, server, waitVars, handVars, treeVars>>

KillMain ==
  /\ Trouble /\ MainAlive /\ MainDies

\* The kernel closes the connection; a namespace goes with its last process.
KillPrivateServer ==
  /\ Trouble /\ ServerAlive
  /\ server' = "killed" /\ conn' = "lost" /\ claim' = "none" /\ inbox' = FALSE
  /\ main' = IF main = "zombie" THEN "gone" ELSE main
  /\ bg' = [b \in Background |-> IF bg[b] = "zombie" THEN "gone" ELSE bg[b]]
  /\ kin' = [b \in Background |-> IF kin[b] = "server" THEN "init" ELSE kin[b]]
  /\ UNCHANGED <<caller, door, mnt, waitVars, letter, acked, reader>>

-----------------------------------------------------------------------------
CallerStep ==
  \/ ClaimPackageDir \/ MountUnshared \/ ClaimLaunchDir \/ MountHelped \/ OpenPipes
  \/ ForkPrivateServer \/ ForkPrivateFails \/ CallerHears

PrivateStep ==
  \/ Prepare \/ ForkMain \/ ForkMainFails \/ Load
  \/ HearBell \/ TakeLetter \/ ConnectionEnds \/ Drain \/ ReapMain
  \/ (\E b \in Background : ReapBackground(b))
  \/ NobodyExited \/ SubtreeEmpty \/ FindIdle \/ UnmountOwn \/ ReleaseDir

MainStep == ResolveLinks \/ HearAck

PSNext ==
  \/ CallerStep \/ PrivateStep \/ MainStep \/ MainExits
  \/ (\E b \in Background : StartBackground(b) \/ BackgroundExits(b))
  \/ LoseConnection \/ KillMain \/ KillPrivateServer

PSSpec == PSInit /\ [][PSNext]_privateVars

(***************************************************************************)
(* The launch, the server and the child that resolves the links keep       *)
(* running.  The application and what it starts may run forever.           *)
(***************************************************************************)
PSFairness ==
  WF_privateVars(CallerStep) /\ WF_privateVars(PrivateStep) /\ WF_privateVars(MainStep)

PSFairSpec == PSSpec /\ PSFairness

-----------------------------------------------------------------------------
(* Properties.                                                             *)

\* Every variable keeps its type; a zombie is a child of a living server.
PSTypeOK ==
  /\ caller \in CallerPhase /\ claim \in {"none", "package", "launch"}
  /\ door \in {"none", "namespace", "helper"} /\ mnt \in BOOLEAN
  /\ conn \in {"none", "open", "lost", "closed"}
  /\ server \in PrivatePhase /\ adopts \in BOOLEAN /\ bell \in BOOLEAN
  /\ told \in {"nothing", "ended", "unavailable"}
  /\ inbox \in BOOLEAN /\ letter \in BOOLEAN /\ acked \in BOOLEAN
  /\ main \in MainPhase
  /\ bg \in [Background -> {"none", "live", "zombie", "gone"}]
  /\ kin \in [Background -> Background \cup {"main", "server", "init"}]
  /\ reader \subseteq Background /\ troubles \in 0..MaxTroubles
  /\ \A b \in Background : bg[b] = "zombie" => kin[b] = "server" /\ ServerAlive

\* The server takes a mount that still answers down only when nothing of the
\* launch is left that needs it: nothing at all where it adopts the orphans, and
\* otherwise nothing that runs out of the mount (serve_private, "only when wait
\* proves every descendant gone").
ServedToTheEnd ==
  conn = "closed" =>
    /\ ~MainAlive
    /\ \A b \in Background : bg[b] = "live" => ~adopts /\ b \notin reader

\* Whatever the application left running, the caller returns once it has ended:
\* an exit between two turns of the loop, or while the pipe is emptied, is not
\* missed ("reports the app's status the moment the app has been reaped").
CallerFreed == []<>(main \in {"zombie", "gone"} => caller = "returned")

\* When the last of the launch has ended the server takes everything down and
\* leaves, unless it was killed.
ServerTakesDown ==
  <>[](~MainAlive /\ main # "none" /\ \A b \in Background : bg[b] # "live")
    => <>[](server = "killed" \/ (server = "gone" /\ ~mnt /\ claim = "none"))

\* "The connection is gone, so nothing is left to serve; the subtree is still
\* reaped to the end" (serve_private): once nothing of the launch runs, the wait
\* for it ends.
ReapedToTheEnd ==
  <>[](main # "live" /\ \A b \in Background : bg[b] # "live")
    => <>[](server # "waitAll")
=============================================================================
