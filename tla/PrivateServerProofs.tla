-------------------------- MODULE PrivateServerProofs --------------------------
(***************************************************************************)
(* Theorems about a private mount's server: PrivateServer, for any         *)
(* background processes and any number of troubles, and BlockServer, for   *)
(* any package, profile and number of workers.                             *)
(*                                                                         *)
(* What runs in the background is a forest (Forest): whoever has no living *)
(* parent is below the adopter.  So when wait says that the server has no  *)
(* child left, nothing of the launch runs (Emptied).                       *)
(*                                                                         *)
(* An index into the profile is one worker's (Apart), and a block is ready *)
(* or was read ahead only once its worker is through with it (HandedOnce). *)
(***************************************************************************)
EXTENDS PrivateServer, BlockServer, FiniteSetTheorems, TLAPS

\* How far the launch and the server have come says what has been started.
Begun ==
  /\ server = "none" <=> caller \notin {"waiting", "returned"}
  /\ server \in {"none", "born", "prepared"} => main = "none"
  /\ server \in {"detached", "leaving", "unmounted"} => main = "gone"
  /\ main = "none" => \A b \in Background : bg[b] = "none"

\* The connection is there for as long as the server may answer, and an open one
\* is mounted.
Served ==
  /\ caller \in {"mounted", "ready"} => conn = "open"
  /\ ServerAlive /\ server # "unmounted" => conn \in {"open", "lost"}
  /\ conn = "open" => mnt

\* The background processes that run are a forest: below the application while it
\* lives, below the server if it adopts, below init otherwise.
Live == {b \in Background : bg[b] = "live"}

Forest ==
  /\ \A b \in Live :
       /\ kin[b] \in Live \cup {"main", "server", "init"}
       /\ kin[b] = "main" => MainAlive
       /\ kin[b] = "server" => adopts
       /\ kin[b] = "init" => ~adopts \/ ~ServerAlive
  /\ \A ps \in SUBSET Live : ps # {} => \E b \in ps : kin[b] \notin ps

\* A server that is about to unmount has seen the last of the launch.
Emptied ==
  /\ server \in {"detached", "leaving", "unmounted"} => \A b \in Background : bg[b] # "zombie"
  /\ server = "detached" => ~adopts
  /\ server \in {"leaving", "unmounted"} =>
       /\ adopts => Live = {}
       /\ ~adopts /\ conn # "lost" => Live \cap reader = {}

\* The inductive invariant.
IInv == PSTypeOK /\ Begun /\ Served /\ Forest /\ Emptied /\ ServedToTheEnd

-----------------------------------------------------------------------------
\* Every step keeps the types, and only a living server has zombies to wait for.
LEMMA TypesStep ==
  PSTypeOK /\ Begun /\ Emptied /\ [PSNext]_privateVars => PSTypeOK'
<1> SUFFICES ASSUME PSTypeOK /\ Begun /\ Emptied, [PSNext]_privateVars PROVE PSTypeOK'
  OBVIOUS
<1> USE PrivateAssumption DEF PSTypeOK, CallerPhase, PrivatePhase, MainPhase,
    ServerAlive
<1>1. ASSUME ClaimPackageDir PROVE PSTypeOK'
  BY <1>1 DEF ClaimPackageDir, waitVars, handVars, treeVars
<1>2. ASSUME MountUnshared PROVE PSTypeOK'
  BY <1>2 DEF MountUnshared, waitVars, handVars, treeVars
<1>3. ASSUME ClaimLaunchDir PROVE PSTypeOK'
  BY <1>3 DEF ClaimLaunchDir, waitVars, handVars, treeVars
<1>4. ASSUME MountHelped PROVE PSTypeOK'
  <2>1. mnt' \in BOOLEAN /\ adopts' \in BOOLEAN /\ bell' \in BOOLEAN
    BY <1>4 DEF MountHelped, waitVars, handVars, treeVars
  <2>2. inbox' \in BOOLEAN /\ letter' \in BOOLEAN /\ acked' \in BOOLEAN
    BY <1>4 DEF MountHelped, waitVars, handVars, treeVars
  <2>3. /\ caller' \in CallerPhase /\ claim' \in {"none", "package", "launch"}
        /\ door' \in {"none", "namespace", "helper"}
        /\ conn' \in {"none", "open", "lost", "closed"}
        /\ server' \in PrivatePhase /\ told' \in {"nothing", "ended", "unavailable"}
        /\ main' \in MainPhase
    BY <1>4 DEF MountHelped, waitVars, handVars, treeVars
  <2>4. /\ bg' \in [Background -> {"none", "live", "zombie", "gone"}]
        /\ kin' \in [Background -> Background \cup {"main", "server", "init"}]
        /\ reader' \subseteq Background /\ troubles' \in 0..MaxTroubles
    BY <1>4 DEF MountHelped, waitVars, handVars, treeVars
  <2>5. \A b \in Background : bg'[b] = "zombie" => kin'[b] = "server" /\ ServerAlive'
    BY <1>4 DEF MountHelped, waitVars, handVars, treeVars
  <2> QED
    BY <2>1, <2>2, <2>3, <2>4, <2>5
<1>5. ASSUME OpenPipes PROVE PSTypeOK'
  <2>1. mnt' \in BOOLEAN /\ adopts' \in BOOLEAN /\ bell' \in BOOLEAN
    BY <1>5 DEF OpenPipes, waitVars, treeVars
  <2>2. inbox' \in BOOLEAN /\ letter' \in BOOLEAN /\ acked' \in BOOLEAN
    BY <1>5 DEF OpenPipes, waitVars, treeVars
  <2>3. /\ caller' \in CallerPhase /\ claim' \in {"none", "package", "launch"}
        /\ door' \in {"none", "namespace", "helper"}
        /\ conn' \in {"none", "open", "lost", "closed"}
        /\ server' \in PrivatePhase /\ told' \in {"nothing", "ended", "unavailable"}
        /\ main' \in MainPhase
    BY <1>5 DEF OpenPipes, waitVars, treeVars
  <2>4. /\ bg' \in [Background -> {"none", "live", "zombie", "gone"}]
        /\ kin' \in [Background -> Background \cup {"main", "server", "init"}]
        /\ reader' \subseteq Background /\ troubles' \in 0..MaxTroubles
    BY <1>5 DEF OpenPipes, waitVars, treeVars
  <2>5. \A b \in Background : bg'[b] = "zombie" => kin'[b] = "server" /\ ServerAlive'
    BY <1>5 DEF OpenPipes, waitVars, treeVars
  <2> QED
    BY <2>1, <2>2, <2>3, <2>4, <2>5
<1>6. ASSUME ForkPrivateServer PROVE PSTypeOK'
  BY <1>6 DEF ForkPrivateServer, ownMountVars, waitVars, handVars, treeVars
<1>7. ASSUME ForkPrivateFails PROVE PSTypeOK'
  <2>1. mnt' \in BOOLEAN /\ adopts' \in BOOLEAN /\ bell' \in BOOLEAN
    BY <1>7 DEF ForkPrivateFails, waitVars, treeVars
  <2>2. inbox' \in BOOLEAN /\ letter' \in BOOLEAN /\ acked' \in BOOLEAN
    BY <1>7 DEF ForkPrivateFails, waitVars, treeVars
  <2>3. /\ caller' \in CallerPhase /\ claim' \in {"none", "package", "launch"}
        /\ door' \in {"none", "namespace", "helper"}
        /\ conn' \in {"none", "open", "lost", "closed"}
        /\ server' \in PrivatePhase /\ told' \in {"nothing", "ended", "unavailable"}
        /\ main' \in MainPhase
    BY <1>7 DEF ForkPrivateFails, waitVars, treeVars
  <2>4. /\ bg' \in [Background -> {"none", "live", "zombie", "gone"}]
        /\ kin' \in [Background -> Background \cup {"main", "server", "init"}]
        /\ reader' \subseteq Background /\ troubles' \in 0..MaxTroubles
    BY <1>7 DEF ForkPrivateFails, waitVars, treeVars
  <2>5. \A b \in Background : bg'[b] = "zombie" => kin'[b] = "server" /\ ServerAlive'
    BY <1>7 DEF ForkPrivateFails, waitVars, treeVars
  <2> QED
    BY <2>1, <2>2, <2>3, <2>4, <2>5
<1>8. ASSUME CallerHears PROVE PSTypeOK'
  BY <1>8 DEF CallerHears, ownMountVars, waitVars, handVars, treeVars
<1>9. ASSUME Prepare PROVE PSTypeOK'
  BY <1>9 DEF Prepare, ownMountVars, handVars, treeVars
<1>10. ASSUME ForkMain PROVE PSTypeOK'
  BY <1>10 DEF ForkMain, ownMountVars, waitVars, handVars
<1>11. ASSUME ForkMainFails PROVE PSTypeOK'
  <2>1. mnt' \in BOOLEAN /\ adopts' \in BOOLEAN /\ bell' \in BOOLEAN
    BY <1>11 DEF ForkMainFails, treeVars
  <2>2. inbox' \in BOOLEAN /\ letter' \in BOOLEAN /\ acked' \in BOOLEAN
    BY <1>11 DEF ForkMainFails, treeVars
  <2>3. /\ caller' \in CallerPhase /\ claim' \in {"none", "package", "launch"}
        /\ door' \in {"none", "namespace", "helper"}
        /\ conn' \in {"none", "open", "lost", "closed"}
        /\ server' \in PrivatePhase /\ told' \in {"nothing", "ended", "unavailable"}
        /\ main' \in MainPhase
    BY <1>11 DEF ForkMainFails, treeVars
  <2>4. /\ bg' \in [Background -> {"none", "live", "zombie", "gone"}]
        /\ kin' \in [Background -> Background \cup {"main", "server", "init"}]
        /\ reader' \subseteq Background /\ troubles' \in 0..MaxTroubles
    BY <1>11 DEF ForkMainFails, treeVars
  <2>5. \A b \in Background : bg'[b] = "zombie" => kin'[b] = "server" /\ ServerAlive'
    BY <1>11 DEF ForkMainFails, treeVars, Begun
  <2> QED
    BY <2>1, <2>2, <2>3, <2>4, <2>5
<1>12. ASSUME Load PROVE PSTypeOK'
  BY <1>12 DEF Load, ownMountVars, waitVars, handVars, treeVars
<1>13. ASSUME HearBell PROVE PSTypeOK'
  BY <1>13 DEF HearBell, ownMountVars, waitVars, handVars, treeVars
<1>14. ASSUME TakeLetter PROVE PSTypeOK'
  <2>1. mnt' \in BOOLEAN /\ adopts' \in BOOLEAN /\ bell' \in BOOLEAN
    BY <1>14 DEF TakeLetter, SenderClosed, ownMountVars, waitVars, treeVars
  <2>2. inbox' \in BOOLEAN /\ letter' \in BOOLEAN /\ acked' \in BOOLEAN
    BY <1>14 DEF TakeLetter, SenderClosed, ownMountVars, waitVars, treeVars
  <2>3. /\ caller' \in CallerPhase /\ claim' \in {"none", "package", "launch"}
        /\ door' \in {"none", "namespace", "helper"}
        /\ conn' \in {"none", "open", "lost", "closed"}
        /\ server' \in PrivatePhase /\ told' \in {"nothing", "ended", "unavailable"}
        /\ main' \in MainPhase
    BY <1>14 DEF TakeLetter, SenderClosed, ownMountVars, waitVars, treeVars
  <2>4. /\ bg' \in [Background -> {"none", "live", "zombie", "gone"}]
        /\ kin' \in [Background -> Background \cup {"main", "server", "init"}]
        /\ reader' \subseteq Background /\ troubles' \in 0..MaxTroubles
    BY <1>14 DEF TakeLetter, SenderClosed, ownMountVars, waitVars, treeVars
  <2>5. \A b \in Background : bg'[b] = "zombie" => kin'[b] = "server" /\ ServerAlive'
    BY <1>14 DEF TakeLetter, SenderClosed, ownMountVars, waitVars, treeVars
  <2> QED
    BY <2>1, <2>2, <2>3, <2>4, <2>5
<1>15. ASSUME ConnectionEnds PROVE PSTypeOK'
  BY <1>15 DEF ConnectionEnds, ownMountVars, waitVars, handVars, treeVars
<1>16. ASSUME Drain PROVE PSTypeOK'
  <2>1. mnt' \in BOOLEAN /\ adopts' \in BOOLEAN /\ bell' \in BOOLEAN
    BY <1>16 DEF Drain, ownMountVars, handVars, treeVars
  <2>2. inbox' \in BOOLEAN /\ letter' \in BOOLEAN /\ acked' \in BOOLEAN
    BY <1>16 DEF Drain, ownMountVars, handVars, treeVars
  <2>3. /\ caller' \in CallerPhase /\ claim' \in {"none", "package", "launch"}
        /\ door' \in {"none", "namespace", "helper"}
        /\ conn' \in {"none", "open", "lost", "closed"}
        /\ server' \in PrivatePhase /\ told' \in {"nothing", "ended", "unavailable"}
        /\ main' \in MainPhase
    BY <1>16 DEF Drain, ownMountVars, handVars, treeVars
  <2>4. /\ bg' \in [Background -> {"none", "live", "zombie", "gone"}]
        /\ kin' \in [Background -> Background \cup {"main", "server", "init"}]
        /\ reader' \subseteq Background /\ troubles' \in 0..MaxTroubles
    BY <1>16 DEF Drain, ownMountVars, handVars, treeVars
  <2>5. \A b \in Background : bg'[b] = "zombie" => kin'[b] = "server" /\ ServerAlive'
    BY <1>16 DEF Drain, ownMountVars, handVars, treeVars
  <2> QED
    BY <2>1, <2>2, <2>3, <2>4, <2>5
<1>17. ASSUME ReapMain PROVE PSTypeOK'
  BY <1>17 DEF ReapMain, Reaps, Told, ownMountVars, handVars
<1>18. ASSUME NEW b \in Background, ReapBackground(b) PROVE PSTypeOK'
  BY <1>18 DEF ReapBackground, Reaps, ownMountVars, waitVars, handVars
<1>19. ASSUME NobodyExited PROVE PSTypeOK'
  BY <1>19 DEF NobodyExited, NoZombie, Childless, ownMountVars, waitVars,
    handVars, treeVars
<1>20. ASSUME SubtreeEmpty PROVE PSTypeOK'
  BY <1>20 DEF SubtreeEmpty, Reaps, NoZombie, Childless, ownMountVars,
    waitVars, handVars, treeVars
<1>21. ASSUME FindIdle PROVE PSTypeOK'
  BY <1>21 DEF FindIdle, Used, ownMountVars, waitVars, handVars, treeVars
<1>22. ASSUME UnmountOwn PROVE PSTypeOK'
  <2>1. mnt' \in BOOLEAN /\ adopts' \in BOOLEAN /\ bell' \in BOOLEAN
    BY <1>22 DEF UnmountOwn, waitVars, handVars, treeVars
  <2>2. inbox' \in BOOLEAN /\ letter' \in BOOLEAN /\ acked' \in BOOLEAN
    BY <1>22 DEF UnmountOwn, waitVars, handVars, treeVars
  <2>3. /\ caller' \in CallerPhase /\ claim' \in {"none", "package", "launch"}
        /\ door' \in {"none", "namespace", "helper"}
        /\ conn' \in {"none", "open", "lost", "closed"}
        /\ server' \in PrivatePhase /\ told' \in {"nothing", "ended", "unavailable"}
        /\ main' \in MainPhase
    BY <1>22 DEF UnmountOwn, waitVars, handVars, treeVars
  <2>4. /\ bg' \in [Background -> {"none", "live", "zombie", "gone"}]
        /\ kin' \in [Background -> Background \cup {"main", "server", "init"}]
        /\ reader' \subseteq Background /\ troubles' \in 0..MaxTroubles
    BY <1>22 DEF UnmountOwn, waitVars, handVars, treeVars
  <2>5. \A b \in Background : bg'[b] = "zombie" => kin'[b] = "server" /\ ServerAlive'
    BY <1>22 DEF UnmountOwn, waitVars, handVars, treeVars
  <2> QED
    BY <2>1, <2>2, <2>3, <2>4, <2>5
<1>23. ASSUME ReleaseDir PROVE PSTypeOK'
  <2>1. mnt' \in BOOLEAN /\ adopts' \in BOOLEAN /\ bell' \in BOOLEAN
    BY <1>23 DEF ReleaseDir, waitVars, treeVars
  <2>2. inbox' \in BOOLEAN /\ letter' \in BOOLEAN /\ acked' \in BOOLEAN
    BY <1>23 DEF ReleaseDir, waitVars, treeVars
  <2>3. /\ caller' \in CallerPhase /\ claim' \in {"none", "package", "launch"}
        /\ door' \in {"none", "namespace", "helper"}
        /\ conn' \in {"none", "open", "lost", "closed"}
        /\ server' \in PrivatePhase /\ told' \in {"nothing", "ended", "unavailable"}
        /\ main' \in MainPhase
    BY <1>23 DEF ReleaseDir, waitVars, treeVars
  <2>4. /\ bg' \in [Background -> {"none", "live", "zombie", "gone"}]
        /\ kin' \in [Background -> Background \cup {"main", "server", "init"}]
        /\ reader' \subseteq Background /\ troubles' \in 0..MaxTroubles
    BY <1>23 DEF ReleaseDir, waitVars, treeVars
  <2>5. \A b \in Background : bg'[b] = "zombie" => kin'[b] = "server" /\ ServerAlive'
    BY <1>23 DEF ReleaseDir, waitVars, treeVars, Emptied
  <2> QED
    BY <2>1, <2>2, <2>3, <2>4, <2>5
<1>24. ASSUME ResolveLinks PROVE PSTypeOK'
  <2>1. mnt' \in BOOLEAN /\ adopts' \in BOOLEAN /\ bell' \in BOOLEAN
    BY <1>24 DEF ResolveLinks, Answered, InboxOpen, ownMountVars, waitVars
  <2>2. inbox' \in BOOLEAN /\ letter' \in BOOLEAN /\ acked' \in BOOLEAN
    BY <1>24 DEF ResolveLinks, Answered, InboxOpen, ownMountVars, waitVars
  <2>3. /\ caller' \in CallerPhase /\ claim' \in {"none", "package", "launch"}
        /\ door' \in {"none", "namespace", "helper"}
        /\ conn' \in {"none", "open", "lost", "closed"}
        /\ server' \in PrivatePhase /\ told' \in {"nothing", "ended", "unavailable"}
        /\ main' \in MainPhase
    BY <1>24 DEF ResolveLinks, Answered, InboxOpen, ownMountVars, waitVars
  <2>4. /\ bg' \in [Background -> {"none", "live", "zombie", "gone"}]
        /\ kin' \in [Background -> Background \cup {"main", "server", "init"}]
        /\ reader' \subseteq Background /\ troubles' \in 0..MaxTroubles
    BY <1>24 DEF ResolveLinks, Answered, InboxOpen, ownMountVars, waitVars
  <2>5. \A b \in Background : bg'[b] = "zombie" => kin'[b] = "server" /\ ServerAlive'
    BY <1>24 DEF ResolveLinks, Answered, InboxOpen, ownMountVars, waitVars
  <2> QED
    BY <2>1, <2>2, <2>3, <2>4, <2>5
<1>25. ASSUME HearAck PROVE PSTypeOK'
  BY <1>25 DEF HearAck, InboxOpen, ownMountVars, waitVars, handVars
<1>26. ASSUME MainExits PROVE PSTypeOK'
  BY <1>26 DEF MainExits, Answered, MainDies, Orphaned, Adopter, ownMountVars,
    handVars
<1>27. ASSUME NEW b \in Background, StartBackground(b) PROVE PSTypeOK'
  BY <1>27 DEF StartBackground, ownMountVars, waitVars, handVars
<1>28. ASSUME NEW b \in Background, BackgroundExits(b) PROVE PSTypeOK'
  BY <1>28 DEF BackgroundExits, Orphaned, Adopter, ownMountVars, handVars
<1>29. ASSUME LoseConnection PROVE PSTypeOK'
  BY <1>29 DEF LoseConnection, Trouble, waitVars, handVars, treeVars
<1>30. ASSUME KillMain PROVE PSTypeOK'
  BY <1>30 DEF KillMain, Trouble, MainAlive, MainDies, Orphaned, Adopter,
    ownMountVars, handVars
<1>31. ASSUME KillPrivateServer PROVE PSTypeOK'
  <2>1. mnt' \in BOOLEAN /\ adopts' \in BOOLEAN /\ bell' \in BOOLEAN
    BY <1>31 DEF KillPrivateServer, Trouble, waitVars
  <2>2. inbox' \in BOOLEAN /\ letter' \in BOOLEAN /\ acked' \in BOOLEAN
    BY <1>31 DEF KillPrivateServer, Trouble, waitVars
  <2>3. /\ caller' \in CallerPhase /\ claim' \in {"none", "package", "launch"}
        /\ door' \in {"none", "namespace", "helper"}
        /\ conn' \in {"none", "open", "lost", "closed"}
        /\ server' \in PrivatePhase /\ told' \in {"nothing", "ended", "unavailable"}
        /\ main' \in MainPhase
    BY <1>31 DEF KillPrivateServer, Trouble, waitVars
  <2>4. /\ bg' \in [Background -> {"none", "live", "zombie", "gone"}]
        /\ kin' \in [Background -> Background \cup {"main", "server", "init"}]
        /\ reader' \subseteq Background /\ troubles' \in 0..MaxTroubles
    BY <1>31 DEF KillPrivateServer, Trouble, waitVars
  <2>5. \A b \in Background : bg'[b] = "zombie" => kin'[b] = "server" /\ ServerAlive'
    BY <1>31 DEF KillPrivateServer, Trouble, waitVars
  <2> QED
    BY <2>1, <2>2, <2>3, <2>4, <2>5
<1>32. CASE UNCHANGED privateVars
  BY <1>32 DEF privateVars, ownMountVars, waitVars, handVars, treeVars
<1> QED
  BY <1>1, <1>2, <1>3, <1>4, <1>5, <1>6, <1>7, <1>8, <1>9, <1>10, <1>11, <1>12,
    <1>13, <1>14, <1>15, <1>16, <1>17, <1>18, <1>19, <1>20, <1>21, <1>22,
    <1>23, <1>24, <1>25, <1>26, <1>27, <1>28, <1>29, <1>30, <1>31, <1>32 DEF
    PSNext, CallerStep, PrivateStep, MainStep

\* Nothing is started before the server that is to serve it.
LEMMA BegunStep ==
  PSTypeOK /\ Begun /\ [PSNext]_privateVars => Begun'
<1> SUFFICES ASSUME PSTypeOK /\ Begun, [PSNext]_privateVars PROVE Begun'
  OBVIOUS
<1> USE PrivateAssumption DEF PSTypeOK, CallerPhase, PrivatePhase, MainPhase,
    ServerAlive, Begun, MainAlive
<1>1. ASSUME ClaimPackageDir PROVE Begun'
  BY <1>1 DEF ClaimPackageDir, waitVars, handVars, treeVars
<1>2. ASSUME MountUnshared PROVE Begun'
  BY <1>2 DEF MountUnshared, waitVars, handVars, treeVars
<1>3. ASSUME ClaimLaunchDir PROVE Begun'
  BY <1>3 DEF ClaimLaunchDir, waitVars, handVars, treeVars
<1>4. ASSUME MountHelped PROVE Begun'
  BY <1>4 DEF MountHelped, waitVars, handVars, treeVars
<1>5. ASSUME OpenPipes PROVE Begun'
  BY <1>5 DEF OpenPipes, waitVars, treeVars
<1>6. ASSUME ForkPrivateServer PROVE Begun'
  BY <1>6 DEF ForkPrivateServer, ownMountVars, waitVars, handVars, treeVars
<1>7. ASSUME ForkPrivateFails PROVE Begun'
  BY <1>7 DEF ForkPrivateFails, waitVars, treeVars
<1>8. ASSUME CallerHears PROVE Begun'
  BY <1>8 DEF CallerHears, ownMountVars, waitVars, handVars, treeVars
<1>9. ASSUME Prepare PROVE Begun'
  BY <1>9 DEF Prepare, ownMountVars, handVars, treeVars
<1>10. ASSUME ForkMain PROVE Begun'
  BY <1>10 DEF ForkMain, ownMountVars, waitVars, handVars
<1>11. ASSUME ForkMainFails PROVE Begun'
  BY <1>11 DEF ForkMainFails, treeVars
<1>12. ASSUME Load PROVE Begun'
  BY <1>12 DEF Load, ownMountVars, waitVars, handVars, treeVars
<1>13. ASSUME HearBell PROVE Begun'
  BY <1>13 DEF HearBell, ownMountVars, waitVars, handVars, treeVars
<1>14. ASSUME TakeLetter PROVE Begun'
  BY <1>14 DEF TakeLetter, SenderClosed, ownMountVars, waitVars, treeVars
<1>15. ASSUME ConnectionEnds PROVE Begun'
  BY <1>15 DEF ConnectionEnds, ownMountVars, waitVars, handVars, treeVars
<1>16. ASSUME Drain PROVE Begun'
  BY <1>16 DEF Drain, ownMountVars, handVars, treeVars
<1>17. ASSUME ReapMain PROVE Begun'
  BY <1>17 DEF ReapMain, Reaps, Told, ownMountVars, handVars
<1>18. ASSUME NEW b \in Background, ReapBackground(b) PROVE Begun'
  BY <1>18 DEF ReapBackground, Reaps, ownMountVars, waitVars, handVars
<1>19. ASSUME NobodyExited PROVE Begun'
  BY <1>19 DEF NobodyExited, NoZombie, Childless, ownMountVars, waitVars,
    handVars, treeVars
<1>20. ASSUME SubtreeEmpty PROVE Begun'
  BY <1>20 DEF SubtreeEmpty, Reaps, NoZombie, Childless, ownMountVars,
    waitVars, handVars, treeVars
<1>21. ASSUME FindIdle PROVE Begun'
  BY <1>21 DEF FindIdle, Used, ownMountVars, waitVars, handVars, treeVars
<1>22. ASSUME UnmountOwn PROVE Begun'
  BY <1>22 DEF UnmountOwn, waitVars, handVars, treeVars
<1>23. ASSUME ReleaseDir PROVE Begun'
  BY <1>23 DEF ReleaseDir, waitVars, treeVars
<1>24. ASSUME ResolveLinks PROVE Begun'
  BY <1>24 DEF ResolveLinks, Answered, InboxOpen, ownMountVars, waitVars
<1>25. ASSUME HearAck PROVE Begun'
  BY <1>25 DEF HearAck, InboxOpen, ownMountVars, waitVars, handVars
<1>26. ASSUME MainExits PROVE Begun'
  BY <1>26 DEF MainExits, Answered, MainDies, Orphaned, Adopter, ownMountVars,
    handVars
<1>27. ASSUME NEW b \in Background, StartBackground(b) PROVE Begun'
  BY <1>27 DEF StartBackground, ownMountVars, waitVars, handVars
<1>28. ASSUME NEW b \in Background, BackgroundExits(b) PROVE Begun'
  BY <1>28 DEF BackgroundExits, Orphaned, Adopter, ownMountVars, handVars
<1>29. ASSUME LoseConnection PROVE Begun'
  BY <1>29 DEF LoseConnection, Trouble, waitVars, handVars, treeVars
<1>30. ASSUME KillMain PROVE Begun'
  BY <1>30 DEF KillMain, Trouble, MainDies, Orphaned, Adopter, ownMountVars,
    handVars
<1>31. ASSUME KillPrivateServer PROVE Begun'
  BY <1>31 DEF KillPrivateServer, Trouble, waitVars
<1>32. CASE UNCHANGED privateVars
  BY <1>32 DEF privateVars, ownMountVars, waitVars, handVars, treeVars
<1> QED
  BY <1>1, <1>2, <1>3, <1>4, <1>5, <1>6, <1>7, <1>8, <1>9, <1>10, <1>11, <1>12,
    <1>13, <1>14, <1>15, <1>16, <1>17, <1>18, <1>19, <1>20, <1>21, <1>22,
    <1>23, <1>24, <1>25, <1>26, <1>27, <1>28, <1>29, <1>30, <1>31, <1>32 DEF
    PSNext, CallerStep, PrivateStep, MainStep

\* An open connection is closed by whoever takes the mount down.
LEMMA ServedStep ==
  PSTypeOK /\ Begun /\ Served /\ [PSNext]_privateVars => Served'
<1> SUFFICES ASSUME PSTypeOK /\ Begun /\ Served, [PSNext]_privateVars PROVE Served'
  OBVIOUS
<1> USE PrivateAssumption DEF PSTypeOK, CallerPhase, PrivatePhase, MainPhase,
    ServerAlive, Begun, Served
<1>1. ASSUME ClaimPackageDir PROVE Served'
  BY <1>1 DEF ClaimPackageDir, waitVars, handVars, treeVars
<1>2. ASSUME MountUnshared PROVE Served'
  BY <1>2 DEF MountUnshared, waitVars, handVars, treeVars
<1>3. ASSUME ClaimLaunchDir PROVE Served'
  BY <1>3 DEF ClaimLaunchDir, waitVars, handVars, treeVars
<1>4. ASSUME MountHelped PROVE Served'
  BY <1>4 DEF MountHelped, waitVars, handVars, treeVars
<1>5. ASSUME OpenPipes PROVE Served'
  <2>1. CASE caller' = "ready"
    BY <1>5, <2>1 DEF OpenPipes, waitVars, treeVars
  <2>2. CASE caller' = "elsewhere"
    BY <1>5, <2>2 DEF OpenPipes, waitVars, treeVars
  <2> QED
    BY <1>5, <2>1, <2>2 DEF OpenPipes
<1>6. ASSUME ForkPrivateServer PROVE Served'
  BY <1>6 DEF ForkPrivateServer, ownMountVars, waitVars, handVars, treeVars
<1>7. ASSUME ForkPrivateFails PROVE Served'
  BY <1>7 DEF ForkPrivateFails, waitVars, treeVars
<1>8. ASSUME CallerHears PROVE Served'
  BY <1>8 DEF CallerHears, ownMountVars, waitVars, handVars, treeVars
<1>9. ASSUME Prepare PROVE Served'
  BY <1>9 DEF Prepare, ownMountVars, handVars, treeVars
<1>10. ASSUME ForkMain PROVE Served'
  BY <1>10 DEF ForkMain, ownMountVars, waitVars, handVars
<1>11. ASSUME ForkMainFails PROVE Served'
  BY <1>11 DEF ForkMainFails, treeVars
<1>12. ASSUME Load PROVE Served'
  BY <1>12 DEF Load, ownMountVars, waitVars, handVars, treeVars
<1>13. ASSUME HearBell PROVE Served'
  BY <1>13 DEF HearBell, ownMountVars, waitVars, handVars, treeVars
<1>14. ASSUME TakeLetter PROVE Served'
  BY <1>14 DEF TakeLetter, SenderClosed, ownMountVars, waitVars, treeVars
<1>15. ASSUME ConnectionEnds PROVE Served'
  BY <1>15 DEF ConnectionEnds, ownMountVars, waitVars, handVars, treeVars
<1>16. ASSUME Drain PROVE Served'
  BY <1>16 DEF Drain, ownMountVars, handVars, treeVars
<1>17. ASSUME ReapMain PROVE Served'
  BY <1>17 DEF ReapMain, Reaps, Told, ownMountVars, handVars
<1>18. ASSUME NEW b \in Background, ReapBackground(b) PROVE Served'
  BY <1>18 DEF ReapBackground, Reaps, ownMountVars, waitVars, handVars
<1>19. ASSUME NobodyExited PROVE Served'
  BY <1>19 DEF NobodyExited, NoZombie, Childless, ownMountVars, waitVars,
    handVars, treeVars
<1>20. ASSUME SubtreeEmpty PROVE Served'
  BY <1>20 DEF SubtreeEmpty, Reaps, NoZombie, Childless, ownMountVars,
    waitVars, handVars, treeVars
<1>21. ASSUME FindIdle PROVE Served'
  BY <1>21 DEF FindIdle, Used, ownMountVars, waitVars, handVars, treeVars
<1>22. ASSUME UnmountOwn PROVE Served'
  BY <1>22 DEF UnmountOwn, waitVars, handVars, treeVars
<1>23. ASSUME ReleaseDir PROVE Served'
  BY <1>23 DEF ReleaseDir, waitVars, treeVars
<1>24. ASSUME ResolveLinks PROVE Served'
  BY <1>24 DEF ResolveLinks, Answered, InboxOpen, ownMountVars, waitVars
<1>25. ASSUME HearAck PROVE Served'
  BY <1>25 DEF HearAck, InboxOpen, ownMountVars, waitVars, handVars
<1>26. ASSUME MainExits PROVE Served'
  BY <1>26 DEF MainExits, Answered, MainDies, Orphaned, Adopter, ownMountVars,
    handVars
<1>27. ASSUME NEW b \in Background, StartBackground(b) PROVE Served'
  BY <1>27 DEF StartBackground, ownMountVars, waitVars, handVars
<1>28. ASSUME NEW b \in Background, BackgroundExits(b) PROVE Served'
  BY <1>28 DEF BackgroundExits, Orphaned, Adopter, ownMountVars, handVars
<1>29. ASSUME LoseConnection PROVE Served'
  BY <1>29 DEF LoseConnection, Trouble, waitVars, handVars, treeVars
<1>30. ASSUME KillMain PROVE Served'
  BY <1>30 DEF KillMain, Trouble, MainAlive, MainDies, Orphaned, Adopter,
    ownMountVars, handVars
<1>31. ASSUME KillPrivateServer PROVE Served'
  BY <1>31 DEF KillPrivateServer, Trouble, waitVars
<1>32. CASE UNCHANGED privateVars
  BY <1>32 DEF privateVars, ownMountVars, waitVars, handVars, treeVars
<1> QED
  BY <1>1, <1>2, <1>3, <1>4, <1>5, <1>6, <1>7, <1>8, <1>9, <1>10, <1>11, <1>12,
    <1>13, <1>14, <1>15, <1>16, <1>17, <1>18, <1>19, <1>20, <1>21, <1>22,
    <1>23, <1>24, <1>25, <1>26, <1>27, <1>28, <1>29, <1>30, <1>31, <1>32 DEF
    PSNext, CallerStep, PrivateStep, MainStep

\* A process that ends leaves its children to the adopter.
LEMMA ForestStep ==
  PSTypeOK /\ Begun /\ Forest /\ [PSNext]_privateVars => Forest'
<1> SUFFICES ASSUME PSTypeOK /\ Begun /\ Forest, [PSNext]_privateVars PROVE Forest'
  OBVIOUS
<1> USE PrivateAssumption DEF PSTypeOK, CallerPhase, PrivatePhase, MainPhase,
    ServerAlive, Begun, Forest, Live, MainAlive
<1>1. ASSUME ClaimPackageDir PROVE Forest'
  BY <1>1 DEF ClaimPackageDir, waitVars, handVars, treeVars
<1>2. ASSUME MountUnshared PROVE Forest'
  BY <1>2 DEF MountUnshared, waitVars, handVars, treeVars
<1>3. ASSUME ClaimLaunchDir PROVE Forest'
  BY <1>3 DEF ClaimLaunchDir, waitVars, handVars, treeVars
<1>4. ASSUME MountHelped PROVE Forest'
  BY <1>4 DEF MountHelped, waitVars, handVars, treeVars
<1>5. ASSUME OpenPipes PROVE Forest'
  BY <1>5 DEF OpenPipes, waitVars, treeVars
<1>6. ASSUME ForkPrivateServer PROVE Forest'
  BY <1>6 DEF ForkPrivateServer, ownMountVars, waitVars, handVars, treeVars
<1>7. ASSUME ForkPrivateFails PROVE Forest'
  BY <1>7 DEF ForkPrivateFails, waitVars, treeVars
<1>8. ASSUME CallerHears PROVE Forest'
  BY <1>8 DEF CallerHears, ownMountVars, waitVars, handVars, treeVars
<1>9. ASSUME Prepare PROVE Forest'
  BY <1>9 DEF Prepare, ownMountVars, handVars, treeVars
<1>10. ASSUME ForkMain PROVE Forest'
  BY <1>10 DEF ForkMain, ownMountVars, waitVars, handVars
<1>11. ASSUME ForkMainFails PROVE Forest'
  BY <1>11 DEF ForkMainFails, treeVars
<1>12. ASSUME Load PROVE Forest'
  BY <1>12 DEF Load, ownMountVars, waitVars, handVars, treeVars
<1>13. ASSUME HearBell PROVE Forest'
  BY <1>13 DEF HearBell, ownMountVars, waitVars, handVars, treeVars
<1>14. ASSUME TakeLetter PROVE Forest'
  BY <1>14 DEF TakeLetter, SenderClosed, ownMountVars, waitVars, treeVars
<1>15. ASSUME ConnectionEnds PROVE Forest'
  BY <1>15 DEF ConnectionEnds, ownMountVars, waitVars, handVars, treeVars
<1>16. ASSUME Drain PROVE Forest'
  BY <1>16 DEF Drain, ownMountVars, handVars, treeVars
<1>17. ASSUME ReapMain PROVE Forest'
  BY <1>17 DEF ReapMain, Reaps, Told, ownMountVars, handVars
<1>18. ASSUME NEW b \in Background, ReapBackground(b) PROVE Forest'
  BY <1>18 DEF ReapBackground, Reaps, ownMountVars, waitVars, handVars
<1>19. ASSUME NobodyExited PROVE Forest'
  BY <1>19 DEF NobodyExited, NoZombie, Childless, ownMountVars, waitVars,
    handVars, treeVars
<1>20. ASSUME SubtreeEmpty PROVE Forest'
  BY <1>20 DEF SubtreeEmpty, Reaps, NoZombie, Childless, ownMountVars,
    waitVars, handVars, treeVars
<1>21. ASSUME FindIdle PROVE Forest'
  BY <1>21 DEF FindIdle, Used, ownMountVars, waitVars, handVars, treeVars
<1>22. ASSUME UnmountOwn PROVE Forest'
  BY <1>22 DEF UnmountOwn, waitVars, handVars, treeVars
<1>23. ASSUME ReleaseDir PROVE Forest'
  BY <1>23 DEF ReleaseDir, waitVars, treeVars
<1>24. ASSUME ResolveLinks PROVE Forest'
  BY <1>24 DEF ResolveLinks, Answered, InboxOpen, ownMountVars, waitVars
<1>25. ASSUME HearAck PROVE Forest'
  BY <1>25 DEF HearAck, InboxOpen, ownMountVars, waitVars, handVars
<1>26. ASSUME MainExits PROVE Forest'
  BY <1>26 DEF MainExits, Answered, MainDies, Orphaned, Adopter, ownMountVars,
    handVars
<1>27. ASSUME NEW b \in Background, StartBackground(b) PROVE Forest'
  <2>1. bg[b] = "none" /\ bg' = [bg EXCEPT ![b] = "live"] /\ b \notin Live
        /\ UNCHANGED <<main, adopts, server>>
    BY <1>27 DEF StartBackground, waitVars
  <2>2. PICK p \in Live \cup {"main"} : kin' = [kin EXCEPT ![b] = p] /\ (p = "main" => MainAlive)
    BY <1>27 DEF StartBackground
  <2>3. Live' = Live \cup {b}
    BY <2>1
  <2>4. p # b
    BY <2>1, PrivateAssumption
  <2>5. ASSUME NEW k \in Live'
        PROVE  /\ kin'[k] \in Live' \cup {"main", "server", "init"}
               /\ kin'[k] = "main" => MainAlive'
               /\ kin'[k] = "server" => adopts'
               /\ kin'[k] = "init" => ~adopts' \/ ~ServerAlive'
    BY <2>1, <2>2, <2>3, <2>5
  <2>6. ASSUME NEW ps \in SUBSET Live', ps # {} PROVE \E k \in ps : kin'[k] \notin ps
    <3>1. CASE ps \ {b} = {}
      BY <2>2, <2>4, <2>6, <3>1
    <3>2. CASE ps \ {b} # {}
      <4>1. PICK k \in ps \ {b} : kin[k] \notin ps \ {b}
        BY <2>3, <2>6, <3>2
      <4>2. kin[k] # b /\ kin'[k] = kin[k]
        BY <2>1, <2>2, <2>3, <4>1
      <4> QED
        BY <4>1, <4>2
    <3> QED
      BY <3>1, <3>2
  <2> QED
    BY <2>5, <2>6
<1>28. ASSUME NEW b \in Background, BackgroundExits(b) PROVE Forest'
  BY <1>28 DEF BackgroundExits, Orphaned, Adopter, ownMountVars, handVars
<1>29. ASSUME LoseConnection PROVE Forest'
  BY <1>29 DEF LoseConnection, Trouble, waitVars, handVars, treeVars
<1>30. ASSUME KillMain PROVE Forest'
  BY <1>30 DEF KillMain, Trouble, MainDies, Orphaned, Adopter, ownMountVars,
    handVars
<1>31. ASSUME KillPrivateServer PROVE Forest'
  BY <1>31 DEF KillPrivateServer, Trouble, waitVars
<1>32. CASE UNCHANGED privateVars
  BY <1>32 DEF privateVars, ownMountVars, waitVars, handVars, treeVars
<1> QED
  BY <1>1, <1>2, <1>3, <1>4, <1>5, <1>6, <1>7, <1>8, <1>9, <1>10, <1>11, <1>12,
    <1>13, <1>14, <1>15, <1>16, <1>17, <1>18, <1>19, <1>20, <1>21, <1>22,
    <1>23, <1>24, <1>25, <1>26, <1>27, <1>28, <1>29, <1>30, <1>31, <1>32 DEF
    PSNext, CallerStep, PrivateStep, MainStep

\* Nobody is left to start anything once the last has ended.
LEMMA EmptiedStep ==
  PSTypeOK /\ Begun /\ Served /\ Forest /\ Emptied /\ [PSNext]_privateVars => Emptied'
<1> SUFFICES ASSUME PSTypeOK /\ Begun /\ Served /\ Forest /\ Emptied, [PSNext]_privateVars PROVE Emptied'
  OBVIOUS
<1> USE PrivateAssumption DEF PSTypeOK, CallerPhase, PrivatePhase, MainPhase,
    ServerAlive, Begun, Served, Emptied, Live, MainAlive
<1>1. ASSUME ClaimPackageDir PROVE Emptied'
  BY <1>1 DEF ClaimPackageDir, waitVars, handVars, treeVars
<1>2. ASSUME MountUnshared PROVE Emptied'
  BY <1>2 DEF MountUnshared, waitVars, handVars, treeVars
<1>3. ASSUME ClaimLaunchDir PROVE Emptied'
  BY <1>3 DEF ClaimLaunchDir, waitVars, handVars, treeVars
<1>4. ASSUME MountHelped PROVE Emptied'
  BY <1>4 DEF MountHelped, waitVars, handVars, treeVars
<1>5. ASSUME OpenPipes PROVE Emptied'
  BY <1>5 DEF OpenPipes, waitVars, treeVars
<1>6. ASSUME ForkPrivateServer PROVE Emptied'
  BY <1>6 DEF ForkPrivateServer, ownMountVars, waitVars, handVars, treeVars
<1>7. ASSUME ForkPrivateFails PROVE Emptied'
  BY <1>7 DEF ForkPrivateFails, waitVars, treeVars
<1>8. ASSUME CallerHears PROVE Emptied'
  BY <1>8 DEF CallerHears, ownMountVars, waitVars, handVars, treeVars
<1>9. ASSUME Prepare PROVE Emptied'
  BY <1>9 DEF Prepare, ownMountVars, handVars, treeVars
<1>10. ASSUME ForkMain PROVE Emptied'
  BY <1>10 DEF ForkMain, ownMountVars, waitVars, handVars
<1>11. ASSUME ForkMainFails PROVE Emptied'
  BY <1>11 DEF ForkMainFails, treeVars
<1>12. ASSUME Load PROVE Emptied'
  BY <1>12 DEF Load, ownMountVars, waitVars, handVars, treeVars
<1>13. ASSUME HearBell PROVE Emptied'
  BY <1>13 DEF HearBell, ownMountVars, waitVars, handVars, treeVars
<1>14. ASSUME TakeLetter PROVE Emptied'
  BY <1>14 DEF TakeLetter, SenderClosed, ownMountVars, waitVars, treeVars
<1>15. ASSUME ConnectionEnds PROVE Emptied'
  BY <1>15 DEF ConnectionEnds, ownMountVars, waitVars, handVars, treeVars
<1>16. ASSUME Drain PROVE Emptied'
  BY <1>16 DEF Drain, ownMountVars, handVars, treeVars
<1>17. ASSUME ReapMain PROVE Emptied'
  BY <1>17 DEF ReapMain, Reaps, Told, ownMountVars, handVars
<1>18. ASSUME NEW b \in Background, ReapBackground(b) PROVE Emptied'
  BY <1>18 DEF ReapBackground, Reaps, ownMountVars, waitVars, handVars
<1>19. ASSUME NobodyExited PROVE Emptied'
  BY <1>19 DEF NobodyExited, NoZombie, Childless, ownMountVars, waitVars,
    handVars, treeVars
<1>20. ASSUME SubtreeEmpty PROVE Emptied'
  <2>1. /\ main = "gone" /\ \A b \in Background : bg[b] # "zombie"
        /\ \A b \in Live : kin[b] # "server"
        /\ server' = (IF adopts THEN "leaving" ELSE "detached") /\ ServerAlive
        /\ UNCHANGED <<adopts, bg, reader, conn>>
    BY <1>20 DEF SubtreeEmpty, Reaps, NoZombie, Childless, ownMountVars, waitVars, treeVars
  <2>2. ASSUME adopts PROVE Live = {}
    <3>1. \A b \in Live : kin[b] \in Live
      BY <2>1, <2>2 DEF Forest
    <3> QED
      BY <3>1 DEF Forest
  <2> QED
    BY <2>1, <2>2
<1>21. ASSUME FindIdle PROVE Emptied'
  <2>1. /\ server = "detached" /\ server' = "leaving" /\ ServerAlive
        /\ UNCHANGED <<adopts, bg, reader, conn>>
    BY <1>21 DEF FindIdle, ownMountVars, waitVars, treeVars
  <2>2. conn # "lost" => mnt
    BY <2>1
  <2>3. conn # "lost" => Live \cap reader = {}
    BY <1>21, <2>2 DEF FindIdle, Used
  <2> QED
    BY <2>1, <2>3
<1>22. ASSUME UnmountOwn PROVE Emptied'
  BY <1>22 DEF UnmountOwn, waitVars, handVars, treeVars
<1>23. ASSUME ReleaseDir PROVE Emptied'
  BY <1>23 DEF ReleaseDir, waitVars, treeVars
<1>24. ASSUME ResolveLinks PROVE Emptied'
  BY <1>24 DEF ResolveLinks, Answered, InboxOpen, ownMountVars, waitVars
<1>25. ASSUME HearAck PROVE Emptied'
  BY <1>25 DEF HearAck, InboxOpen, ownMountVars, waitVars, handVars
<1>26. ASSUME MainExits PROVE Emptied'
  BY <1>26 DEF MainExits, Answered, MainDies, Orphaned, Adopter, ownMountVars,
    handVars
<1>27. ASSUME NEW b \in Background, StartBackground(b) PROVE Emptied'
  BY <1>27 DEF StartBackground, ownMountVars, waitVars, handVars
<1>28. ASSUME NEW b \in Background, BackgroundExits(b) PROVE Emptied'
  BY <1>28 DEF BackgroundExits, Forest, ownMountVars, waitVars, handVars, treeVars
<1>29. ASSUME LoseConnection PROVE Emptied'
  BY <1>29 DEF LoseConnection, Trouble, waitVars, handVars, treeVars
<1>30. ASSUME KillMain PROVE Emptied'
  BY <1>30 DEF KillMain, Trouble, MainDies, Orphaned, Adopter, ownMountVars,
    handVars
<1>31. ASSUME KillPrivateServer PROVE Emptied'
  BY <1>31 DEF KillPrivateServer, Trouble, waitVars
<1>32. CASE UNCHANGED privateVars
  BY <1>32 DEF privateVars, ownMountVars, waitVars, handVars, treeVars
<1> QED
  BY <1>1, <1>2, <1>3, <1>4, <1>5, <1>6, <1>7, <1>8, <1>9, <1>10, <1>11, <1>12,
    <1>13, <1>14, <1>15, <1>16, <1>17, <1>18, <1>19, <1>20, <1>21, <1>22,
    <1>23, <1>24, <1>25, <1>26, <1>27, <1>28, <1>29, <1>30, <1>31, <1>32 DEF
    PSNext, CallerStep, PrivateStep, MainStep

\* The server unmounts when it has seen the last of the launch.
LEMMA ServedToTheEndStep ==
  PSTypeOK /\ Begun /\ Served /\ Emptied /\ ServedToTheEnd /\ [PSNext]_privateVars => ServedToTheEnd'
<1> SUFFICES ASSUME PSTypeOK /\ Begun /\ Served /\ Emptied /\ ServedToTheEnd, [PSNext]_privateVars PROVE ServedToTheEnd'
  OBVIOUS
<1> USE PrivateAssumption DEF PSTypeOK, CallerPhase, PrivatePhase, MainPhase,
    ServerAlive, Begun, Served, Emptied, ServedToTheEnd, Live, MainAlive
<1>1. ASSUME ClaimPackageDir PROVE ServedToTheEnd'
  BY <1>1 DEF ClaimPackageDir, waitVars, handVars, treeVars
<1>2. ASSUME MountUnshared PROVE ServedToTheEnd'
  BY <1>2 DEF MountUnshared, waitVars, handVars, treeVars
<1>3. ASSUME ClaimLaunchDir PROVE ServedToTheEnd'
  BY <1>3 DEF ClaimLaunchDir, waitVars, handVars, treeVars
<1>4. ASSUME MountHelped PROVE ServedToTheEnd'
  BY <1>4 DEF MountHelped, waitVars, handVars, treeVars
<1>5. ASSUME OpenPipes PROVE ServedToTheEnd'
  BY <1>5 DEF OpenPipes, waitVars, treeVars
<1>6. ASSUME ForkPrivateServer PROVE ServedToTheEnd'
  BY <1>6 DEF ForkPrivateServer, ownMountVars, waitVars, handVars, treeVars
<1>7. ASSUME ForkPrivateFails PROVE ServedToTheEnd'
  BY <1>7 DEF ForkPrivateFails, waitVars, treeVars
<1>8. ASSUME CallerHears PROVE ServedToTheEnd'
  BY <1>8 DEF CallerHears, ownMountVars, waitVars, handVars, treeVars
<1>9. ASSUME Prepare PROVE ServedToTheEnd'
  BY <1>9 DEF Prepare, ownMountVars, handVars, treeVars
<1>10. ASSUME ForkMain PROVE ServedToTheEnd'
  BY <1>10 DEF ForkMain, ownMountVars, waitVars, handVars
<1>11. ASSUME ForkMainFails PROVE ServedToTheEnd'
  BY <1>11 DEF ForkMainFails, treeVars
<1>12. ASSUME Load PROVE ServedToTheEnd'
  BY <1>12 DEF Load, ownMountVars, waitVars, handVars, treeVars
<1>13. ASSUME HearBell PROVE ServedToTheEnd'
  BY <1>13 DEF HearBell, ownMountVars, waitVars, handVars, treeVars
<1>14. ASSUME TakeLetter PROVE ServedToTheEnd'
  BY <1>14 DEF TakeLetter, SenderClosed, ownMountVars, waitVars, treeVars
<1>15. ASSUME ConnectionEnds PROVE ServedToTheEnd'
  BY <1>15 DEF ConnectionEnds, ownMountVars, waitVars, handVars, treeVars
<1>16. ASSUME Drain PROVE ServedToTheEnd'
  BY <1>16 DEF Drain, ownMountVars, handVars, treeVars
<1>17. ASSUME ReapMain PROVE ServedToTheEnd'
  BY <1>17 DEF ReapMain, Reaps, Told, ownMountVars, handVars
<1>18. ASSUME NEW b \in Background, ReapBackground(b) PROVE ServedToTheEnd'
  BY <1>18 DEF ReapBackground, Reaps, ownMountVars, waitVars, handVars
<1>19. ASSUME NobodyExited PROVE ServedToTheEnd'
  BY <1>19 DEF NobodyExited, NoZombie, Childless, ownMountVars, waitVars,
    handVars, treeVars
<1>20. ASSUME SubtreeEmpty PROVE ServedToTheEnd'
  BY <1>20 DEF SubtreeEmpty, Reaps, NoZombie, Childless, ownMountVars,
    waitVars, handVars, treeVars
<1>21. ASSUME FindIdle PROVE ServedToTheEnd'
  BY <1>21 DEF FindIdle, Used, ownMountVars, waitVars, handVars, treeVars
<1>22. ASSUME UnmountOwn PROVE ServedToTheEnd'
  BY <1>22 DEF UnmountOwn, waitVars, handVars, treeVars
<1>23. ASSUME ReleaseDir PROVE ServedToTheEnd'
  BY <1>23 DEF ReleaseDir, waitVars, treeVars
<1>24. ASSUME ResolveLinks PROVE ServedToTheEnd'
  BY <1>24 DEF ResolveLinks, Answered, InboxOpen, ownMountVars, waitVars
<1>25. ASSUME HearAck PROVE ServedToTheEnd'
  BY <1>25 DEF HearAck, InboxOpen, ownMountVars, waitVars, handVars
<1>26. ASSUME MainExits PROVE ServedToTheEnd'
  BY <1>26 DEF MainExits, Answered, MainDies, Orphaned, Adopter, ownMountVars,
    handVars
<1>27. ASSUME NEW b \in Background, StartBackground(b) PROVE ServedToTheEnd'
  BY <1>27 DEF StartBackground, ownMountVars, waitVars, handVars
<1>28. ASSUME NEW b \in Background, BackgroundExits(b) PROVE ServedToTheEnd'
  BY <1>28 DEF BackgroundExits, Orphaned, Adopter, ownMountVars, handVars
<1>29. ASSUME LoseConnection PROVE ServedToTheEnd'
  BY <1>29 DEF LoseConnection, Trouble, waitVars, handVars, treeVars
<1>30. ASSUME KillMain PROVE ServedToTheEnd'
  BY <1>30 DEF KillMain, Trouble, MainDies, Orphaned, Adopter, ownMountVars,
    handVars
<1>31. ASSUME KillPrivateServer PROVE ServedToTheEnd'
  BY <1>31 DEF KillPrivateServer, Trouble, waitVars
<1>32. CASE UNCHANGED privateVars
  BY <1>32 DEF privateVars, ownMountVars, waitVars, handVars, treeVars
<1> QED
  BY <1>1, <1>2, <1>3, <1>4, <1>5, <1>6, <1>7, <1>8, <1>9, <1>10, <1>11, <1>12,
    <1>13, <1>14, <1>15, <1>16, <1>17, <1>18, <1>19, <1>20, <1>21, <1>22,
    <1>23, <1>24, <1>25, <1>26, <1>27, <1>28, <1>29, <1>30, <1>31, <1>32 DEF
    PSNext, CallerStep, PrivateStep, MainStep

-----------------------------------------------------------------------------
\* The invariant holds when the launch begins.
LEMMA Initially == PSInit => IInv
<1> SUFFICES ASSUME PSInit PROVE IInv
  OBVIOUS
<1> USE PrivateAssumption DEF PSInit
<1>1. PSTypeOK
  <2>1. /\ mnt \in BOOLEAN /\ adopts \in BOOLEAN /\ bell \in BOOLEAN
        /\ inbox \in BOOLEAN /\ letter \in BOOLEAN /\ acked \in BOOLEAN
    OBVIOUS
  <2>2. troubles \in 0..MaxTroubles
    OBVIOUS
  <2>3. bg \in [Background -> {"none", "live", "zombie", "gone"}]
    OBVIOUS
  <2>4. kin \in [Background -> Background \cup {"main", "server", "init"}]
    OBVIOUS
  <2> QED
    BY <2>1, <2>2, <2>3, <2>4 DEF PSTypeOK, CallerPhase, PrivatePhase, MainPhase
<1>2. Begun /\ Served /\ Emptied /\ ServedToTheEnd
  BY DEF Begun, Served, Emptied, ServedToTheEnd, ServerAlive, MainAlive
<1>3. Forest
  BY DEF Forest, Live
<1> QED
  BY <1>1, <1>2, <1>3 DEF IInv

\* It is kept by every step.
LEMMA Inductive == IInv /\ [PSNext]_privateVars => IInv'
<1> QED
  BY TypesStep, BegunStep, ServedStep, ForestStep, EmptiedStep, ServedToTheEndStep
     DEF IInv

\* The invariant of the private mount holds throughout.
LEMMA Invariance == PSSpec => []IInv
<1> QED
  BY Initially, Inductive, PTL DEF PSSpec

-----------------------------------------------------------------------------
\* Every variable keeps its type, and a zombie is a child of a living server.
THEOREM TypesHold == PSSpec => []PSTypeOK
<1>1. IInv => PSTypeOK
  BY DEF IInv
<1> QED
  BY <1>1, Invariance, PTL

\* A mount that still answers is taken down only when nothing needs it: nothing of
\* the launch is left, or, where the server adopts nobody, nothing that runs out of
\* the mount.
THEOREM ServesToTheEnd == PSSpec => []ServedToTheEnd
<1>1. IInv => ServedToTheEnd
  BY DEF IInv
<1> QED
  BY <1>1, Invariance, PTL
-----------------------------------------------------------------------------
(* A private mount is a mount like a shared one: what MountLifetime        *)
(* promises its tenants holds of the application and of what it left       *)
(* running, everything where the server adopts, what runs out of the mount *)
(* where it does not.                                                      *)

Up == IF conn = "open" THEN {"private"} ELSE {}
Broken == IF conn = "lost" THEN {"private"} ELSE {}
Users == {b \in Background : bg[b] = "live" /\ (adopts \/ b \in reader)}
Tenants == IF MainAlive THEN Users \cup {"main"} ELSE Users

Lifetime == INSTANCE MountLifetime WITH
  Place <- {"private"}, Tenant <- Background \cup {"main"},
  up <- Up, broken <- Broken, tenants <- [m \in {"private"} |-> Tenants]

\* Every behaviour of the launch, its server and the application is one that
\* MountLifetime allows.
ImplementsLifetime == Lifetime!Spec

\* There is a connection from the mount on.
Connected ==
  /\ caller \in {"starting", "claimed", "helping"} => conn = "none"
  /\ conn = "none" => server = "none"

\* Every step keeps it.
LEMMA ConnectedStep == IInv /\ Connected /\ [PSNext]_privateVars => Connected'
<1> SUFFICES ASSUME IInv, Connected, [PSNext]_privateVars PROVE Connected'
  OBVIOUS
<1> USE DEF Connected, ownMountVars
<1>a. /\ server = "none" <=> caller \notin {"waiting", "returned"}
      /\ caller \in {"mounted", "ready"} => conn = "open"
  BY DEF IInv, Begun, Served
<1>1. CASE CallerStep
  <2>1. CASE ClaimPackageDir \/ MountUnshared \/ ClaimLaunchDir \/ CallerHears
    BY <1>a, <2>1 DEF ClaimPackageDir, MountUnshared, ClaimLaunchDir, CallerHears
  <2>2. CASE MountHelped \/ ForkPrivateFails
    BY <1>a, <2>2 DEF MountHelped, ForkPrivateFails
  <2>3. CASE OpenPipes \/ ForkPrivateServer
    BY <1>a, <2>3 DEF OpenPipes, ForkPrivateServer
  <2> QED
    BY <1>1, <2>1, <2>2, <2>3 DEF CallerStep
<1>2. ASSUME NEW b \in Background, ReapBackground(b) PROVE Connected'
  BY <1>2 DEF ReapBackground
<1>3. CASE PrivateStep
  <2>1. CASE Prepare \/ ForkMain \/ ForkMainFails \/ Load
    BY <2>1 DEF Prepare, ForkMain, ForkMainFails, Load
  <2>2. CASE HearBell \/ TakeLetter \/ ConnectionEnds \/ Drain \/ ReapMain
    BY <2>2 DEF HearBell, TakeLetter, ConnectionEnds, Drain, ReapMain
  <2>3. CASE NobodyExited \/ SubtreeEmpty \/ FindIdle \/ UnmountOwn \/ ReleaseDir
    BY <2>3 DEF NobodyExited, SubtreeEmpty, FindIdle, UnmountOwn, ReleaseDir, Reaps
  <2> QED
    BY <1>2, <1>3, <2>1, <2>2, <2>3 DEF PrivateStep
<1>4. CASE MainStep \/ MainExits \/ KillMain
  BY <1>4 DEF MainStep, ResolveLinks, HearAck, MainExits, KillMain, MainDies
<1>5. ASSUME NEW b \in Background, StartBackground(b) \/ BackgroundExits(b)
      PROVE  Connected'
  BY <1>5 DEF StartBackground, BackgroundExits
<1>6. CASE LoseConnection \/ KillPrivateServer
  BY <1>6, <1>a DEF LoseConnection, KillPrivateServer, ServerAlive
<1>7. CASE UNCHANGED privateVars
  BY <1>7 DEF privateVars
<1> QED
  BY <1>1, <1>3, <1>4, <1>5, <1>6, <1>7 DEF PSNext

\* A step that changes none of what the promise is about.
LEMMA AbstractStutter ==
  Up' = Up /\ Broken' = Broken /\ Tenants' = Tenants => UNCHANGED Lifetime!lifetimeVars
<1> QED
  BY DEF Lifetime!lifetimeVars

\* The mount is made.
LEMMA AbstractRaise ==
  ASSUME Up = {}, Up' = {"private"}, Broken' = Broken, Tenants' = Tenants
  PROVE  Lifetime!Next
<1>1. Lifetime!Raise("private")
  BY DEF Lifetime!Raise
<1> QED
  BY <1>1 DEF Lifetime!Next

\* The mount is taken down, with no tenant.
LEMMA AbstractFall ==
  ASSUME Up = {"private"}, Up' = {}, Tenants = {}, Broken' = Broken, Tenants' = Tenants
  PROVE  Lifetime!Next
<1>1. Lifetime!Fall("private")
  BY DEF Lifetime!Fall
<1> QED
  BY <1>1 DEF Lifetime!Next

\* The connection is lost from outside, whoever runs out of the mount.
LEMMA AbstractBreak ==
  ASSUME Broken' = {"private"}, Up' = {}, Tenants' = Tenants
  PROVE  Lifetime!Next
<1>1. Up \subseteq {"private"} /\ Broken \subseteq {"private"}
  BY DEF Up, Broken
<1>2. Lifetime!Break({"private"})
  BY <1>1 DEF Lifetime!Break
<1> QED
  BY <1>2 DEF Lifetime!Next

\* The application starts, or one of its processes starts another.
LEMMA AbstractBoard ==
  ASSUME NEW t \in Background \cup {"main"}, conn \in {"open", "lost"},
         Tenants' = Tenants \cup {t}, Up' = Up, Broken' = Broken
  PROVE  Lifetime!Next
<1>1. Lifetime!Board("private", t)
  BY DEF Lifetime!Board, Up, Broken
<1> QED
  BY <1>1 DEF Lifetime!Next

\* A tenant exits, or no longer runs out of the mount.
LEMMA AbstractDepart ==
  ASSUME NEW t \in Tenants, Tenants' = Tenants \ {t}, Up' = Up, Broken' = Broken
  PROVE  Lifetime!Next
<1>1. Lifetime!Depart("private", t)
  BY DEF Lifetime!Depart
<1>2. t \in Background \cup {"main"}
  BY DEF Tenants, Users
<1> QED
  BY <1>1, <1>2 DEF Lifetime!Next

\* Until the server has forked the application nobody is a tenant.
LEMMA NoTenants == IInv /\ main = "none" => Tenants = {}
<1> QED
  BY DEF IInv, Begun, Tenants, Users, MainAlive

\* The launch raises the mount, and takes it down only if it has no server for it.
LEMMA CallerImplements ==
  ASSUME IInv, Connected, CallerStep
  PROVE  [Lifetime!Next]_(Lifetime!lifetimeVars)
<1>a. Tenants' = Tenants
  BY DEF CallerStep, ClaimPackageDir, MountUnshared, ClaimLaunchDir, MountHelped, OpenPipes,
    ForkPrivateServer, ForkPrivateFails, CallerHears, waitVars, treeVars, Tenants, Users,
    MainAlive
<1>1. CASE conn' = conn
  BY <1>1, <1>a, AbstractStutter DEF Up, Broken
<1>2. CASE conn' # conn /\ (MountUnshared \/ MountHelped)
  BY <1>2, <1>a, AbstractRaise DEF MountUnshared, MountHelped, Connected, Up, Broken
<1>3. CASE conn' # conn /\ (OpenPipes \/ ForkPrivateFails)
  <2>1. conn = "open" /\ conn' = "closed" /\ main = "none"
    BY <1>3 DEF OpenPipes, ForkPrivateFails, IInv, Begun, Served
  <2> QED
    BY <1>a, <2>1, NoTenants, AbstractFall DEF Up, Broken
<1> QED
  BY <1>1, <1>2, <1>3 DEF CallerStep, ClaimPackageDir, ClaimLaunchDir, ForkPrivateServer,
    CallerHears, ownMountVars

\* The server's part: its mount falls when it has seen the last tenant.
LEMMA ServerImplements ==
  ASSUME IInv, IInv', PrivateStep
  PROVE  [Lifetime!Next]_(Lifetime!lifetimeVars)
<1>1. CASE Prepare
  <2>1. main = "none" /\ main' = main /\ bg' = bg /\ conn' = conn
    BY <1>1 DEF Prepare, treeVars, ownMountVars, IInv, Begun
  <2>2. Tenants = {} /\ Tenants' = {}
    BY <2>1, NoTenants DEF IInv, Begun, Tenants, Users, MainAlive
  <2> QED
    BY <2>1, <2>2, AbstractStutter DEF Up, Broken
<1>2. CASE ForkMain
  <2>1. conn \in {"open", "lost"} /\ conn' = conn
    BY <1>2 DEF ForkMain, ownMountVars, IInv, Served, ServerAlive
  <2>2. Tenants' = Tenants \cup {"main"}
    BY <1>2 DEF ForkMain, waitVars, Tenants, Users, MainAlive
  <2> QED
    BY <2>1, <2>2, AbstractBoard DEF Up, Broken
<1>3. CASE ForkMainFails \/ UnmountOwn
  <2>1. Tenants' = Tenants
    BY <1>3 DEF ForkMainFails, UnmountOwn, waitVars, treeVars, Tenants, Users, MainAlive
  <2>2. conn \in {"open", "lost"} /\ conn' = IF conn = "lost" THEN "lost" ELSE "closed"
    BY <1>3 DEF ForkMainFails, UnmountOwn, IInv, Served, ServerAlive
  <2>3. CASE conn = "lost"
    BY <2>1, <2>2, <2>3, AbstractStutter DEF Up, Broken
  <2>4. CASE conn = "open"
    <3>1. Tenants' = {}
      BY <2>2, <2>4 DEF IInv, ServedToTheEnd, Tenants, Users
    <3> QED
      BY <2>1, <2>2, <2>4, <3>1, AbstractFall DEF Up, Broken
  <2> QED
    BY <2>2, <2>3, <2>4
<1>4. ASSUME NEW b \in Background, ReapBackground(b)
      PROVE  [Lifetime!Next]_(Lifetime!lifetimeVars)
  <2>1. Users' = Users
    BY <1>4 DEF ReapBackground, waitVars, Users, IInv, PSTypeOK
  <2> QED
    BY <1>4, <2>1, AbstractStutter
       DEF ReapBackground, ownMountVars, Up, Broken, Tenants, MainAlive
<1>5. CASE ReapMain
  BY <1>5, AbstractStutter DEF ReapMain, ownMountVars, Up, Broken, Tenants, Users, MainAlive
<1>6. CASE \/ Load \/ HearBell \/ TakeLetter \/ ConnectionEnds \/ Drain \/ NobodyExited
           \/ SubtreeEmpty \/ FindIdle \/ ReleaseDir
  <2>1. UNCHANGED <<conn, adopts, main, bg, reader>>
    BY <1>6 DEF Load, HearBell, TakeLetter, ConnectionEnds, Drain, NobodyExited,
      SubtreeEmpty, FindIdle, ReleaseDir, ownMountVars, waitVars, treeVars
  <2> QED
    BY <2>1, AbstractStutter DEF Up, Broken, Tenants, Users, MainAlive
<1> QED
  BY <1>1, <1>2, <1>3, <1>4, <1>5, <1>6 DEF PrivateStep

\* What the application does: it leaves when it ends, and what it starts boards
\* where its parent is a tenant already.
LEMMA AppImplements ==
  ASSUME IInv, Connected,
         \/ MainStep \/ MainExits \/ KillMain
         \/ \E b \in Background : StartBackground(b) \/ BackgroundExits(b)
  PROVE  [Lifetime!Next]_(Lifetime!lifetimeVars)
<1>a. conn' = conn /\ Up' = Up /\ Broken' = Broken
  BY DEF MainStep, ResolveLinks, HearAck, MainExits, KillMain, MainDies, StartBackground,
    BackgroundExits, ownMountVars, Up, Broken
<1>1. CASE MainStep
  BY <1>1, <1>a, AbstractStutter
     DEF MainStep, ResolveLinks, HearAck, waitVars, Tenants, Users, MainAlive
<1>2. CASE MainExits \/ KillMain
  <2>1. MainAlive /\ ~MainAlive' /\ Users' = Users
    BY <1>2 DEF MainExits, KillMain, MainDies, MainAlive, Users
  <2>2. "main" \in Tenants /\ Tenants' = Tenants \ {"main"}
    BY <2>1, PrivateAssumption DEF Tenants, Users
  <2> QED
    BY <1>a, <2>2, AbstractDepart
<1>3. ASSUME NEW b \in Background, StartBackground(b)
      PROVE  [Lifetime!Next]_(Lifetime!lifetimeVars)
  <2>1. bg' = [bg EXCEPT ![b] = "live"] /\ UNCHANGED <<adopts, main, reader>>
    BY <1>3 DEF StartBackground, waitVars
  <2>2. CASE adopts \/ b \in reader
    <3>1. Tenants' = Tenants \cup {b}
      BY <2>1, <2>2 DEF Tenants, Users, MainAlive, IInv, PSTypeOK
    <3>2. main # "none"
      BY <1>3 DEF StartBackground, IInv, Begun
    <3>3. conn # "none" /\ conn # "closed"
      <4>1. conn # "none"
        BY <3>2 DEF Connected, IInv, Begun
      <4>2. CASE main = "live"
        BY <4>1, <4>2 DEF IInv, ServedToTheEnd, MainAlive
      <4>3. CASE \E p \in Background : bg[p] = "live" /\ (b \in reader => p \in reader)
        BY <2>2, <4>1, <4>3 DEF IInv, ServedToTheEnd
      <4> QED
        BY <1>3, <4>2, <4>3 DEF StartBackground
    <3>4. conn \in {"open", "lost"}
      BY <3>3 DEF IInv, PSTypeOK
    <3> QED
      BY <1>a, <3>1, <3>4, AbstractBoard
  <2>3. CASE ~adopts /\ b \notin reader
    <3>1. Tenants' = Tenants
      BY <2>1, <2>3 DEF Tenants, Users, MainAlive, IInv, PSTypeOK
    <3> QED
      BY <1>a, <3>1, AbstractStutter
  <2> QED
    BY <2>2, <2>3
<1>4. ASSUME NEW b \in Background, BackgroundExits(b)
      PROVE  [Lifetime!Next]_(Lifetime!lifetimeVars)
  <2>1. /\ bg[b] = "live" /\ UNCHANGED <<adopts, main, reader>>
        /\ \E p \in {"zombie", "gone"} : bg' = [bg EXCEPT ![b] = p]
    BY <1>4 DEF BackgroundExits
  <2>2. Users' = Users \ {b}
    BY <2>1 DEF Users, IInv, PSTypeOK
  <2>3. Tenants' = Tenants \ {b}
    BY <2>1, <2>2, PrivateAssumption DEF Tenants, MainAlive
  <2>4. CASE b \in Tenants
    BY <1>a, <2>3, <2>4, AbstractDepart
  <2>5. CASE b \notin Tenants
    BY <1>a, <2>3, <2>5, AbstractStutter
  <2> QED
    BY <2>4, <2>5
<1> QED
  BY <1>1, <1>2, <1>3, <1>4

\* A step from outside breaks the mount and moves no tenant.
LEMMA TroubleImplements ==
  ASSUME IInv, LoseConnection \/ KillPrivateServer
  PROVE  [Lifetime!Next]_(Lifetime!lifetimeVars)
<1>1. Users' = Users
  BY DEF LoseConnection, KillPrivateServer, waitVars, treeVars, Users, IInv, PSTypeOK
<1>2. MainAlive' = MainAlive
  BY DEF LoseConnection, KillPrivateServer, treeVars, MainAlive
<1>3. conn' = "lost"
  BY DEF LoseConnection, KillPrivateServer
<1> QED
  BY <1>1, <1>2, <1>3, AbstractBreak DEF Tenants, Up, Broken

\* A private mount keeps the promise of MountLifetime: it is there before the
\* application is started, and falls only when nobody of the launch needs it any
\* more or somebody else broke it (execute_private, serve_private).
THEOREM LifetimeImplemented == PSSpec => ImplementsLifetime
<1>1. PSInit => Lifetime!Init /\ Connected
  <2> SUFFICES ASSUME PSInit PROVE Lifetime!Init /\ Connected
    OBVIOUS
  <2>1. Up = {} /\ Broken = {} /\ Tenants = {} /\ Connected
    BY DEF PSInit, Up, Broken, Tenants, Users, MainAlive, Connected
  <2> QED
    BY <2>1 DEF Lifetime!Init
<1>2. IInv /\ IInv' /\ Connected /\ [PSNext]_privateVars =>
        [Lifetime!Next]_(Lifetime!lifetimeVars)
  <2> SUFFICES ASSUME IInv, IInv', Connected, [PSNext]_privateVars
               PROVE  [Lifetime!Next]_(Lifetime!lifetimeVars)
    OBVIOUS
  <2>1. CASE UNCHANGED privateVars
    BY <2>1, AbstractStutter DEF privateVars, ownMountVars, waitVars, treeVars, Up, Broken,
      Tenants, Users, MainAlive
  <2> QED
    BY <2>1, CallerImplements, ServerImplements, AppImplements, TroubleImplements DEF PSNext
<1> QED
  BY <1>1, <1>2, ConnectedStep, Invariance, PTL
     DEF PSSpec, ImplementsLifetime, Lifetime!Spec

-----------------------------------------------------------------------------
\* Whoever exits while the server is between two turns of its loop, or has yet to
\* begin it, has rung the bell: an exit is never slept through, because the pipe is
\* emptied before anybody is reaped (run_loop, reap_exited).
ExitsAreHeard ==
  server \in {"born", "prepared", "loading", "polling"} => bell \/ NoZombie

\* The server never sleeps through an exit (ExitsAreHeard: run_loop and reap_exited).
THEOREM NoExitIsMissed == PSSpec => []ExitsAreHeard
<1>1. PSInit => ExitsAreHeard
  BY DEF PSInit, ExitsAreHeard
<1>2. IInv /\ ExitsAreHeard /\ [PSNext]_privateVars => ExitsAreHeard'
  <2> SUFFICES ASSUME IInv, ExitsAreHeard, [PSNext]_privateVars PROVE ExitsAreHeard'
    OBVIOUS
  <2> USE DEF ExitsAreHeard, NoZombie
  <2>1. CASE CallerStep
    <3>1. UNCHANGED <<bell, main, bg>>
      BY <2>1 DEF CallerStep, ClaimPackageDir, MountUnshared, ClaimLaunchDir, MountHelped,
        OpenPipes, ForkPrivateServer, ForkPrivateFails, CallerHears, waitVars, treeVars
    <3>2. server' = server \/ (server = "none" /\ server' = "born")
      BY <2>1 DEF CallerStep, ClaimPackageDir, MountUnshared, ClaimLaunchDir, MountHelped,
        OpenPipes, ForkPrivateServer, ForkPrivateFails, CallerHears, IInv, Begun
    <3> QED
      BY <3>1, <3>2 DEF IInv, Begun
  <2>2. ASSUME NEW b \in Background, ReapBackground(b) PROVE ExitsAreHeard'
    BY <2>2 DEF ReapBackground, Reaps
  <2>3. CASE Prepare \/ ForkMain \/ ForkMainFails \/ Load
    BY <2>3 DEF Prepare, ForkMain, ForkMainFails, Load, waitVars, treeVars
  <2>4. CASE HearBell \/ TakeLetter \/ ConnectionEnds \/ Drain \/ ReapMain
    BY <2>4 DEF HearBell, TakeLetter, ConnectionEnds, Drain, ReapMain, Reaps, waitVars,
      treeVars
  <2>5. CASE NobodyExited \/ SubtreeEmpty \/ FindIdle \/ UnmountOwn \/ ReleaseDir
    BY <2>5 DEF NobodyExited, SubtreeEmpty, FindIdle, UnmountOwn, ReleaseDir, waitVars,
      treeVars
  <2>6. CASE MainStep
    BY <2>6 DEF MainStep, ResolveLinks, HearAck, waitVars
  <2>7. CASE MainExits \/ KillMain
    BY <2>7 DEF MainExits, KillMain, MainDies, ServerAlive
  <2>8. ASSUME NEW b \in Background, StartBackground(b) PROVE ExitsAreHeard'
    BY <2>8 DEF StartBackground, waitVars, IInv, PSTypeOK
  <2>9. ASSUME NEW b \in Background, BackgroundExits(b) PROVE ExitsAreHeard'
    BY <2>9 DEF BackgroundExits, IInv, PSTypeOK
  <2>10. CASE LoseConnection \/ KillPrivateServer
    BY <2>10 DEF LoseConnection, KillPrivateServer, waitVars, treeVars
  <2>11. CASE UNCHANGED privateVars
    BY <2>11 DEF privateVars, waitVars, treeVars
  <2> QED
    BY <2>1, <2>2, <2>3, <2>4, <2>5, <2>6, <2>7, <2>8, <2>9, <2>10, <2>11
       DEF PSNext, PrivateStep
<1> QED
  BY <1>1, <1>2, Invariance, PTL DEF PSSpec

-----------------------------------------------------------------------------
(* The blocks a server serves, for any package, profile, window, budget    *)
(* and number of workers.                                                  *)

InFlight(w) == wk[w] \in {"checking", "waiting", "loading"}

BSTypeOK ==
  /\ loop \in {"serving", "reading", "stopping", "lastStopping", "joining",
               "lastJoining", "gone"}
  /\ wk \in [Worker -> {"next", "checking", "waiting", "loading", "done"}]
  /\ on \in [Worker -> Nat] /\ next \in Nat \ {0}
  /\ \A w \in Worker : InFlight(w) => on[w] \in DOMAIN Listed
  /\ prefetch \in BOOLEAN /\ stop \in BOOLEAN
  /\ ready \subseteq Wanted

\* The order to stop stands while the server waits for its workers, and without a
\* prefetch nobody works but towards the end.
Stopped ==
  /\ stop => loop \in {"joining", "lastJoining"} /\ ready = {}
  /\ ~prefetch => ready = {} /\ (stop \/ \A w \in Worker : wk[w] = "done")
  /\ loop \in {"joining", "lastJoining"} => stop

\* Each index is taken once.
Apart ==
  /\ \A w \in Worker : InFlight(w) => on[w] < next
  /\ \A v, w \in Worker : InFlight(v) /\ InFlight(w) /\ v # w => on[v] # on[w]

\* A worker has been through with the block.
Handed(b) ==
  \E i \in DOMAIN Listed :
    i < next /\ Listed[i] = b /\ \A w \in Worker : InFlight(w) => on[w] # i

HandedOnce ==
  /\ \A b \in ready : Handed(b)
  /\ prefetch => \A b \in data : b \in Wanted => b \in taken \/ Handed(b)

BSInv == BSTypeOK /\ Stopped /\ Apart /\ HandedOnce /\ NoneKeptTwice

\* Which blocks are dropped from the cache.
LEMMA NeededIsSpared == ASSUME NEW b PROVE Victims(b) \cap needed = {}
BY DEF Victims, Spared

\* The read in progress keeps what it has gone through.
LEMMA RepliesWholeStep == RepliesWhole /\ [BSNext]_blockVars => RepliesWhole'
<1> SUFFICES ASSUME RepliesWhole, [BSNext]_blockVars PROVE RepliesWhole'
  OBVIOUS
<1> USE DEF RepliesWhole, readVars, cacheVars, storeVars, workVars
<1>1. CASE TakeReady \/ LoadItself
  <2>1. data' = (data \ Victims(First)) \cup {First} /\ left' = left \ {First}
        /\ needed' = needed /\ loop = "reading"
    BY <1>1 DEF TakeReady, LoadItself, Insert, Looks
  <2> QED
    BY <2>1, NeededIsSpared
<1>2. CASE PassCached
  BY <1>2 DEF PassCached
<1>3. CASE BeginRead
  BY <1>3 DEF BeginRead
<1>4. CASE LoadFails \/ Reply \/ ClearIdle \/ Exit \/ GoOutOfScope \/ StopStep
  BY <1>4 DEF LoadFails, Reply, ClearIdle, Exit, GoOutOfScope, StopStep, OrderStop,
              WakeWorkers, JoinWorkers
<1>5. CASE \E w \in Worker : WorkStep(w) \/ WakeSpuriously(w)
  BY <1>5 DEF WorkStep, TakeIndex, CheckRoom, Spoiled, StoreBlock, WakeSpuriously
<1>6. CASE UNCHANGED blockVars
  BY <1>6 DEF blockVars
<1> QED
  BY <1>1, <1>2, <1>3, <1>4, <1>5, <1>6 DEF BSNext, ReadStep

\* What a worker's step leaves of BSInv, and what it moves.
LEMMA WorkerKeeps ==
  ASSUME BSInv, NEW w \in Worker, WorkStep(w) \/ WakeSpuriously(w) PROVE BSInv'
<1> USE BlockAssumption DEF readVars, cacheVars, storeVars
<1> DEFINE L == DOMAIN Listed
<1>a. BSTypeOK /\ Stopped /\ Apart /\ HandedOnce /\ NoneKeptTwice
  BY DEF BSInv
<1>b. L \subseteq Nat \ {0}
  OBVIOUS
<1>1. CASE TakeIndex(w)
  <2>1. /\ wk[w] = "next" /\ next' = next + 1
        /\ wk' = [wk EXCEPT ![w] = IF next \in L THEN "checking" ELSE "done"]
        /\ on' = IF next \in L THEN [on EXCEPT ![w] = next] ELSE on
        /\ UNCHANGED <<loop, data, prefetch, ready, bytes, taken, stop>>
    BY <1>1 DEF TakeIndex, Move
  <2>2. BSTypeOK'
    BY <1>a, <2>1 DEF BSTypeOK, InFlight
  <2>3. Stopped'
    BY <1>a, <2>1 DEF BSTypeOK, Stopped
  <2>4. Apart'
    BY <1>a, <2>1 DEF BSTypeOK, InFlight, Apart
  <2>5. ASSUME NEW b, Handed(b) PROVE Handed(b)'
    <3>1. PICK i \in L :
            i < next /\ Listed[i] = b /\ \A v \in Worker : InFlight(v) => on[v] # i
      BY <2>5 DEF Handed
    <3>2. i < next' /\ i # next
      BY <1>a, <1>b, <2>1, <3>1 DEF BSTypeOK
    <3>3. \A v \in Worker :
            InFlight(v)' => on'[v] = next \/ (InFlight(v) /\ on'[v] = on[v])
      BY <1>a, <2>1 DEF BSTypeOK, InFlight
    <3> QED
      BY <3>1, <3>2, <3>3 DEF Handed
  <2>6. HandedOnce' /\ NoneKeptTwice'
    BY <1>a, <2>1, <2>5 DEF HandedOnce, NoneKeptTwice
  <2> QED
    BY <2>2, <2>3, <2>4, <2>6 DEF BSInv
<1>2. CASE CheckRoom(w) \/ Spoiled(w) \/ WakeSpuriously(w)
  <2>1. /\ InFlight(w) /\ UNCHANGED <<loop, data, prefetch, next, ready, taken, stop>>
        /\ \/ \E p \in {"checking", "waiting", "loading"} :
                wk' = [wk EXCEPT ![w] = p] /\ on' = on
           \/ \E p \in {"next", "done"} :
                wk' = [wk EXCEPT ![w] = p] /\ on' = [on EXCEPT ![w] = 0]
    BY <1>2 DEF CheckRoom, Spoiled, WakeSpuriously, AfterWait, Move, GoOn, InFlight
  <2>2. /\ wk \in [Worker -> {"next", "checking", "waiting", "loading", "done"}]
        /\ on \in [Worker -> Nat]
    BY <1>a DEF BSTypeOK
  <2>3. \A v \in Worker : InFlight(v)' => InFlight(v) /\ on'[v] = on[v]
    BY <2>1, <2>2 DEF InFlight
  <2>4. BSTypeOK'
    <3>1. /\ wk' \in [Worker -> {"next", "checking", "waiting", "loading", "done"}]
          /\ on' \in [Worker -> Nat]
      <4>1. CASE on' = on
        BY <2>1, <2>2, <4>1
      <4>2. CASE on' = [on EXCEPT ![w] = 0]
        BY <2>1, <2>2, <4>2
      <4> QED
        BY <2>1, <4>1, <4>2
    <3> QED
      BY <1>a, <2>1, <2>3, <3>1 DEF BSTypeOK
  <2>5. Stopped'
    BY <1>a, <2>1, <2>2 DEF Stopped, InFlight
  <2>6. Apart'
    BY <1>a, <2>1, <2>3 DEF Apart
  <2>7. \A b : Handed(b) => Handed(b)'
    BY <2>1, <2>3 DEF Handed
  <2>8. HandedOnce' /\ NoneKeptTwice'
    BY <1>a, <2>1, <2>7 DEF HandedOnce, NoneKeptTwice
  <2> QED
    BY <2>4, <2>5, <2>6, <2>8 DEF BSInv
<1>3. CASE StoreBlock(w)
  <2>b. PICK b : b = Listed[on[w]]
    OBVIOUS
  <2>1. /\ wk[w] = "loading" /\ UNCHANGED <<loop, data, prefetch, next, taken, stop>>
        /\ \E p \in {"next", "done"} : wk' = [wk EXCEPT ![w] = p]
        /\ on' = [on EXCEPT ![w] = 0]
        /\ ready' = ready \/ (~stop /\ b \notin taken /\ ready' = ready \cup {b})
    BY <1>3, <2>b DEF StoreBlock, GoOn, Move, Drops
  <2>2. /\ wk \in [Worker -> {"next", "checking", "waiting", "loading", "done"}]
        /\ on \in [Worker -> Nat]
    BY <1>a DEF BSTypeOK
  <2>3. InFlight(w) /\ on[w] \in L /\ on[w] < next /\ b \in Wanted
    BY <1>a, <2>b, <2>1 DEF BSTypeOK, Apart, InFlight, Wanted
  <2>4. \A v \in Worker : InFlight(v)' => v # w /\ InFlight(v) /\ on'[v] = on[v]
    BY <2>1, <2>2 DEF InFlight
  <2>5. BSTypeOK'
    <3>1. /\ wk' \in [Worker -> {"next", "checking", "waiting", "loading", "done"}]
          /\ on' \in [Worker -> Nat] /\ ready' \subseteq Wanted
      BY <1>a, <2>1, <2>2, <2>3 DEF BSTypeOK
    <3> QED
      BY <1>a, <2>1, <2>4, <3>1 DEF BSTypeOK
  <2>6. Stopped'
    BY <1>a, <2>1, <2>2 DEF Stopped
  <2>7. Apart'
    BY <1>a, <2>1, <2>4 DEF Apart
  <2>8. \A c : Handed(c) => Handed(c)'
    BY <2>1, <2>4 DEF Handed
  <2>9. Handed(b)'
    <3>1. \A v \in Worker : InFlight(v)' => on'[v] # on[w]
      BY <1>a, <2>3, <2>4 DEF Apart
    <3> QED
      BY <2>b, <2>1, <2>3, <3>1 DEF Handed
  <2>10. HandedOnce'
    BY <1>a, <2>1, <2>8, <2>9 DEF HandedOnce
  <2>11. NoneKeptTwice'
    <3>1. CASE ready' = ready
      BY <1>a, <2>1, <3>1 DEF NoneKeptTwice
    <3>2. CASE ~stop /\ b \notin taken /\ ready' = ready \cup {b}
      <4>1. prefetch
        BY <1>a, <2>1, <3>2 DEF Stopped
      <4>2. ~Handed(b)
        BY <2>b, <2>3 DEF Handed
      <4>3. b \notin data
        BY <1>a, <2>3, <3>2, <4>1, <4>2 DEF HandedOnce
      <4> QED
        BY <1>a, <2>1, <3>2, <4>3 DEF NoneKeptTwice
    <3> QED
      BY <2>1, <3>1, <3>2
  <2> QED
    BY <2>5, <2>6, <2>7, <2>10, <2>11 DEF BSInv
<1> QED
  BY <1>1, <1>2, <1>3 DEF WorkStep

\* A step that takes no index and leaves those in flight where they are.
LEMMA HandedStays ==
  ASSUME NEW b, Handed(b), next' = next, on' = on,
         \A w \in Worker : InFlight(w)' => InFlight(w)
  PROVE  Handed(b)'
<1> QED
  BY DEF Handed

\* What the server's own steps leave of BSInv.
LEMMA ReadKeeps == ASSUME BSInv, BeginRead \/ ReadStep PROVE BSInv'
<1> USE DEF readVars, cacheVars, storeVars, workVars
<1>a. BSTypeOK /\ Stopped /\ Apart /\ HandedOnce /\ NoneKeptTwice
  BY DEF BSInv
<1>1. CASE BeginRead \/ PassCached \/ Reply
  <2>1. /\ loop \in {"serving", "reading"} /\ loop' \in {"serving", "reading"}
        /\ UNCHANGED <<data, prefetch, next, wk, on, ready, taken, stop>>
    BY <1>1 DEF BeginRead, PassCached, Reply
  <2> QED
    BY <1>a, <2>1 DEF BSInv, BSTypeOK, Stopped, Apart, HandedOnce, NoneKeptTwice,
                      InFlight, Handed
<1>2. CASE TakeReady
  <2>1. /\ prefetch /\ First \in ready /\ ready' = ready \ {First}
        /\ data' \subseteq data \cup {First}
        /\ wk' = wk \/ \E w \in Worker : wk[w] = "waiting" /\ wk' = [wk EXCEPT ![w] = "checking"]
        /\ UNCHANGED <<loop, prefetch, next, on, taken, stop>>
    BY <1>2 DEF TakeReady, Insert, Waiting, Move, AfterWait
  <2>2. /\ wk' \in [Worker -> {"next", "checking", "waiting", "loading", "done"}]
        /\ \A w \in Worker : InFlight(w)' <=> InFlight(w)
    BY <1>a, <2>1 DEF BSTypeOK, InFlight
  <2>3. BSTypeOK'
    BY <1>a, <2>1, <2>2 DEF BSTypeOK
  <2>4. Stopped' /\ Apart'
    BY <1>a, <2>1, <2>2 DEF Stopped, Apart
  <2>5. \A b : Handed(b) => Handed(b)'
    BY <2>1, <2>2, HandedStays
  <2>6. HandedOnce' /\ NoneKeptTwice'
    BY <1>a, <2>1, <2>5 DEF HandedOnce, NoneKeptTwice
  <2> QED
    BY <2>3, <2>4, <2>6 DEF BSInv
<1>3. CASE LoadItself \/ LoadFails
  <2>1. /\ loop = "reading" /\ loop' \in {"reading", "serving"}
        /\ First \notin data /\ (prefetch => First \notin ready)
        /\ taken' = taken \cup Claims
        /\ data' \subseteq data \cup {First}
        /\ UNCHANGED <<prefetch, next, wk, on, ready, stop>>
    BY <1>3 DEF LoadItself, LoadFails, Looks, Insert
  <2>2. Claims \subseteq {First} /\ (prefetch /\ First \in Wanted => First \in Claims)
    BY DEF Claims
  <2>3. First \notin ready
    BY <1>a, <2>1 DEF Stopped
  <2>4. BSTypeOK' /\ Stopped' /\ Apart'
    BY <1>a, <2>1 DEF BSTypeOK, Stopped, Apart, InFlight
  <2>5. \A b : Handed(b) => Handed(b)'
    BY <2>1, HandedStays DEF InFlight
  <2>6. HandedOnce' /\ NoneKeptTwice'
    BY <1>a, <2>1, <2>2, <2>3, <2>5 DEF HandedOnce, NoneKeptTwice
  <2> QED
    BY <2>4, <2>6 DEF BSInv
<1> QED
  BY <1>1, <1>2, <1>3 DEF ReadStep

\* Dropping the prefetch, in whichever way, keeps the invariant.
LEMMA StopKeeps ==
  ASSUME BSInv, ClearIdle \/ StopStep \/ Exit \/ GoOutOfScope PROVE BSInv'
<1> USE DEF readVars, cacheVars, storeVars, workVars
<1>a. BSTypeOK /\ Stopped /\ Apart /\ HandedOnce /\ NoneKeptTwice
  BY DEF BSInv
<1>1. CASE ClearIdle \/ GoOutOfScope
  <2>1. /\ loop = "serving" /\ loop' \in {"serving", "stopping", "lastStopping", "gone"}
        /\ data' = {} /\ UNCHANGED <<prefetch, next, wk, on, ready, taken, stop>>
    BY <1>1 DEF ClearIdle, GoOutOfScope, Clear
  <2> QED
    BY <1>a, <2>1 DEF BSInv, BSTypeOK, Stopped, Apart, HandedOnce, NoneKeptTwice,
                      InFlight, Handed
<1>2. CASE OrderStop
  <2>1. /\ loop' \in {"joining", "lastJoining"} /\ stop' = TRUE /\ ready' = {}
        /\ UNCHANGED <<data, prefetch, next, wk, on, taken>>
    BY <1>2 DEF OrderStop
  <2> QED
    BY <1>a, <2>1 DEF BSInv, BSTypeOK, Stopped, Apart, HandedOnce, NoneKeptTwice,
                      InFlight, Handed
<1>3. CASE WakeWorkers
  <2>1. /\ loop \in {"joining", "lastJoining"} /\ prefetch' = FALSE
        /\ wk' = [w \in Worker |-> IF wk[w] = "waiting" THEN "checking" ELSE wk[w]]
        /\ UNCHANGED <<loop, data, next, on, ready, taken, stop>>
    BY <1>3 DEF WakeWorkers, Notified, Waiting, AfterWait
  <2>2. /\ wk' \in [Worker -> {"next", "checking", "waiting", "loading", "done"}]
        /\ \A w \in Worker : InFlight(w)' <=> InFlight(w)
        /\ \A w \in Worker : wk[w] = "done" => wk'[w] = "done"
    BY <1>a, <2>1 DEF BSTypeOK, InFlight
  <2>3. stop /\ ready = {}
    BY <1>a, <2>1 DEF Stopped
  <2>4. BSTypeOK' /\ Stopped' /\ Apart'
    BY <1>a, <2>1, <2>2, <2>3 DEF BSTypeOK, Stopped, Apart
  <2> QED
    BY <1>a, <2>1, <2>3, <2>4 DEF BSInv, HandedOnce, NoneKeptTwice
<1>4. CASE JoinWorkers \/ Exit
  <2>1. /\ loop' \in {"serving", "gone"} /\ prefetch' = FALSE /\ next' = 1
        /\ \A w \in Worker : wk'[w] = "done"
        /\ taken' = {} /\ stop' = FALSE
    BY <1>4 DEF JoinWorkers, Exit
  <2>2. ready' = {} /\ wk' \in [Worker -> {"done", "next", "checking", "waiting", "loading"}]
        /\ on' \in [Worker -> Nat]
    BY <1>a, <1>4 DEF JoinWorkers, Exit, Stopped, BSTypeOK
  <2>3. \A w \in Worker : ~InFlight(w)'
    BY <2>1 DEF InFlight
  <2>4. BSTypeOK'
    <3>1. prefetch' \in BOOLEAN /\ stop' \in BOOLEAN
      BY <2>1
    <3>2. next' \in Nat \ {0}
      BY <2>1
    <3>3. ready' \subseteq Wanted
      BY <2>2
    <3> QED
      BY <2>1, <2>2, <2>3, <3>1, <3>2, <3>3 DEF BSTypeOK
  <2>5. Stopped' /\ Apart' /\ HandedOnce' /\ NoneKeptTwice'
    BY <2>1, <2>2, <2>3 DEF Stopped, Apart, HandedOnce, NoneKeptTwice
  <2> QED
    BY <2>4, <2>5 DEF BSInv
<1> QED
  BY <1>1, <1>2, <1>3, <1>4 DEF StopStep

\* The invariant of the blocks holds when the server begins.
LEMMA BlocksInitially == BSInit => BSInv /\ RepliesWhole
<1> SUFFICES ASSUME BSInit PROVE BSInv /\ RepliesWhole
  OBVIOUS
<1>1. PICK S \in SUBSET Worker :
        /\ wk = [w \in Worker |-> IF w \in S /\ Listed # <<>> THEN "next" ELSE "done"]
        /\ prefetch = (S # {} /\ Listed # <<>>)
  BY DEF BSInit
<1>2. wk \in [Worker -> {"next", "checking", "waiting", "loading", "done"}]
      /\ \A w \in Worker : ~InFlight(w)
  BY <1>1 DEF InFlight
<1>3. ~prefetch => \A w \in Worker : wk[w] = "done"
  <2>1. CASE S = {}
    BY <1>1, <2>1
  <2>2. CASE Listed = <<>>
    BY <1>1, <2>2
  <2> QED
    BY <1>1, <2>1, <2>2
<1>4. prefetch \in BOOLEAN
  BY <1>1
<1>5. BSTypeOK
  <2>1. stop \in BOOLEAN
    BY DEF BSInit
  <2>2. on \in [Worker -> Nat] /\ next \in Nat \ {0}
    BY DEF BSInit
  <2> QED
    BY <1>2, <1>4, <2>1, <2>2 DEF BSInit, BSTypeOK
<1> QED
  BY <1>2, <1>3, <1>5 DEF BSInit, BSInv, Stopped, Apart, HandedOnce, NoneKeptTwice,
                          RepliesWhole

\* Every step keeps it.
LEMMA BlocksInductive == BSInv /\ [BSNext]_blockVars => BSInv'
<1> SUFFICES ASSUME BSInv, [BSNext]_blockVars PROVE BSInv'
  OBVIOUS
<1>1. CASE UNCHANGED blockVars
  BY <1>1 DEF blockVars, readVars, cacheVars, storeVars, workVars, BSInv, BSTypeOK,
              Stopped, Apart, HandedOnce, NoneKeptTwice, InFlight, Handed
<1> QED
  BY <1>1, WorkerKeeps, ReadKeeps, StopKeeps DEF BSNext

\* A read is answered from blocks that are all still cached, whatever the budget.
THEOREM ReadsAreWhole == BSSpec => []RepliesWhole
<1> QED
  BY BlocksInitially, RepliesWholeStep, PTL DEF BSSpec

\* No block is kept for a read that has it, however reads and workers interleave.
THEOREM NothingIsKeptTwice == BSSpec => []NoneKeptTwice
<1>1. BSInv => NoneKeptTwice
  BY DEF BSInv
<1> QED
  BY <1>1, BlocksInitially, BlocksInductive, PTL DEF BSSpec

\* When the server waits for its workers to end, none of them sleeps: whoever was
\* waiting for room was woken, and whoever looks for room later sees the order to
\* stop first (Prefetch, drop).
NobodyLeftWaiting == ~prefetch => Waiting = {}

\* A dropped prefetch leaves no worker waiting for room (NobodyLeftWaiting: the drop
\* of Prefetch).
THEOREM DropWakesEverybody == BSSpec => []NobodyLeftWaiting
<1> USE DEF NobodyLeftWaiting, Waiting
<1>1. BSInit => NobodyLeftWaiting
  BY DEF BSInit
<1>2. BSInv /\ NobodyLeftWaiting /\ [BSNext]_blockVars => NobodyLeftWaiting'
  <2> SUFFICES ASSUME BSInv, NobodyLeftWaiting, [BSNext]_blockVars
               PROVE  NobodyLeftWaiting'
    OBVIOUS
  <2>1. wk \in [Worker -> {"next", "checking", "waiting", "loading", "done"}]
    BY DEF BSInv, BSTypeOK
  <2>2. ASSUME NEW w \in Worker, CheckRoom(w) PROVE NobodyLeftWaiting'
    <3>1. ~prefetch => stop \/ wk[w] = "done"
      BY DEF BSInv, Stopped
    <3>2. ~prefetch => \E p \in {"done", "next", "loading"} : wk' = [wk EXCEPT ![w] = p]
      BY <2>2, <3>1 DEF CheckRoom, GoOn, Move
    <3> QED
      BY <2>1, <2>2, <3>2 DEF CheckRoom
  <2>3. ASSUME NEW w \in Worker,
               TakeIndex(w) \/ Spoiled(w) \/ StoreBlock(w) \/ WakeSpuriously(w)
        PROVE  NobodyLeftWaiting'
    <3>1. /\ prefetch' = prefetch
          /\ \E p \in {"next", "checking", "loading", "done"} : wk' = [wk EXCEPT ![w] = p]
      BY <2>3 DEF TakeIndex, Spoiled, StoreBlock, WakeSpuriously, AfterWait, GoOn, Move
    <3> QED
      BY <2>1, <3>1
  <2>4. CASE TakeReady
    BY <2>4 DEF TakeReady
  <2>5. CASE WakeWorkers
    BY <2>1, <2>5 DEF WakeWorkers, Notified, AfterWait
  <2>6. CASE \/ BeginRead \/ PassCached \/ LoadItself \/ LoadFails \/ Reply \/ ClearIdle
             \/ OrderStop \/ JoinWorkers \/ Exit \/ GoOutOfScope
    BY <2>6 DEF BeginRead, PassCached, LoadItself, LoadFails, Reply, ClearIdle, OrderStop,
      JoinWorkers, Exit, GoOutOfScope, workVars
  <2>7. CASE UNCHANGED blockVars
    BY <2>7 DEF blockVars, workVars
  <2> QED
    BY <2>2, <2>3, <2>4, <2>5, <2>6, <2>7 DEF BSNext, ReadStep, StopStep, WorkStep
<1> QED
  BY <1>1, <1>2, BlocksInitially, BlocksInductive, PTL DEF BSSpec

-----------------------------------------------------------------------------
(* How many bytes some blocks hold, and how room is made for one more.      *)

\* Of some natural numbers one is the least.
LEMMA OneIsLeast ==
  ASSUME NEW T \in SUBSET Nat, T # {} PROVE \E n \in T : \A m \in T : n <= m
<1>1. PICK n \in T : \A m \in T : ~(<<m, n>> \in OpToRel(<, Nat))
  BY NatLessThanWellFounded, WFMin
<1>2. ASSUME NEW m \in T PROVE ~(m < n)
  BY <1>1 DEF OpToRel
<1> QED
  BY <1>2

\* Numbers paired with the members of a finite set, as many as a function says.
LEMMA TallyIsFinite ==
  ASSUME NEW S, IsFiniteSet(S), NEW f \in [S -> Nat]
  PROVE  IsFiniteSet(UNION {{x} \X (1..f[x]) : x \in S})
<1> DEFINE g == [x \in S |-> {x} \X (1..f[x])]
           T == {{x} \X (1..f[x]) : x \in S}
<1>1. g \in Surjection(S, T)
  BY DEF Surjection
<1>2. IsFiniteSet(T)
  <2> HIDE DEF g, T
  <2> QED
    BY <1>1, FS_Surjection
<1>3. \A x \in S : IsFiniteSet({x} \X (1..f[x]))
  <2> TAKE x \in S
  <2>1. 1 \in Int /\ f[x] \in Int
    OBVIOUS
  <2>2. IsFiniteSet({x}) /\ IsFiniteSet(1..f[x])
    <3> HIDE DEF g, T
    <3> QED
      BY <2>1, FS_Singleton, FS_Interval
  <2> QED
    BY <2>2, FS_Product
<1>4. \A t \in T : IsFiniteSet(t)
  BY <1>3
<1> QED
  <2> HIDE DEF T
  <2>1. IsFiniteSet(UNION T)
    BY <1>2, <1>4, FS_UNION
  <2> QED
    BY <2>1 DEF T

\* A package has finitely many blocks.
LEMMA BlocksAreFinite == IsFiniteSet(Block) /\ \A S \in SUBSET Block : IsFiniteSet(S)
<1>1. IsFiniteSet(Block)
  BY TallyIsFinite, BlockAssumption DEF Block
<1> QED
  BY <1>1, FS_Subset

\* The bytes of some blocks are counted one by one.
ByteOf(S) == UNION {{b} \X (1..SizeOf[b]) : b \in S}

\* Blocks have a number of bytes.
LEMMA BytesType ==
  ASSUME NEW S \in SUBSET Block PROVE IsFiniteSet(ByteOf(S)) /\ Bytes(S) \in Nat
<1> DEFINE f == [b \in S |-> SizeOf[b]]
<1>1. IsFiniteSet(S) /\ f \in [S -> Nat]
  BY BlocksAreFinite, BlockAssumption
<1>2. UNION {{b} \X (1..f[b]) : b \in S} = ByteOf(S)
  BY DEF ByteOf
<1>3. IsFiniteSet(ByteOf(S))
  <2> HIDE DEF f
  <2> QED
    BY <1>1, <1>2, TallyIsFinite
<1> QED
  BY <1>3, FS_CardinalityType DEF Bytes, ByteOf

\* A further block adds its size.
LEMMA BytesAdd ==
  ASSUME NEW S \in SUBSET Block, NEW b \in Block \ S
  PROVE  Bytes(S \cup {b}) = Bytes(S) + SizeOf[b]
<1> DEFINE B == {b} \X (1..SizeOf[b])
           n == SizeOf[b]
<1>1. IsFiniteSet({b}) /\ Cardinality({b}) = 1
  BY FS_Singleton
<1>2. SizeOf[b] \in Nat /\ SizeOf[b] > 0
  BY BlockAssumption
<1>3. IsFiniteSet(1..n) /\ Cardinality(1..n) = n
  <2>1. 1 \in Int /\ n \in Int /\ ~(1 > n) /\ n - 1 + 1 = n
    BY <1>2
  <2> HIDE DEF n
  <2> QED
    BY <2>1, FS_Interval
<1>4. IsFiniteSet(B) /\ Cardinality(B) = n
  <2>1. Cardinality({b}) * Cardinality(1..n) = n
    BY <1>1, <1>2, <1>3
  <2> HIDE DEF n
  <2>2. IsFiniteSet({b} \X (1..n)) /\ Cardinality({b} \X (1..n)) = n
    BY <1>1, <1>3, <2>1, FS_Product
  <2> QED
    BY <2>2 DEF n
<1>5. ByteOf(S \cup {b}) = ByteOf(S) \cup B /\ ByteOf(S) \cap B = {}
  BY DEF ByteOf
<1>6. IsFiniteSet(ByteOf(S)) /\ Cardinality(ByteOf(S)) \in Nat
  BY BytesType DEF Bytes, ByteOf
<1>7. Cardinality(ByteOf(S) \cup B) = Cardinality(ByteOf(S)) + SizeOf[b] - Cardinality({})
  <2> HIDE DEF B
  <2> QED
    BY <1>4, <1>5, <1>6, FS_Union
<1> QED
  <2>1. Cardinality({}) = 0
    BY FS_EmptySet
  <2>2. Cardinality(ByteOf(S \cup {b})) = Cardinality(ByteOf(S)) + SizeOf[b]
    <3> HIDE DEF B
    <3>1. Cardinality(ByteOf(S \cup {b})) = Cardinality(ByteOf(S)) + SizeOf[b] - 0
      BY <1>5, <1>7, <2>1
    <3> QED
      BY <1>2, <1>6, <3>1
  <2> QED
    BY <2>2 DEF Bytes, ByteOf

\* A block that goes takes its size away.
LEMMA BytesRemove ==
  ASSUME NEW S \in SUBSET Block, NEW b \in S
  PROVE  Bytes(S \ {b}) = Bytes(S) - SizeOf[b]
<1>1. (S \ {b}) \cup {b} = S /\ S \ {b} \in SUBSET Block /\ b \in Block \ (S \ {b})
  OBVIOUS
<1>2. Bytes(S) = Bytes(S \ {b}) + SizeOf[b]
  BY <1>1, BytesAdd
<1>3. Bytes(S \ {b}) \in Nat /\ SizeOf[b] \in Nat
  BY <1>1, BytesType, BlockAssumption
<1> QED
  BY <1>2, <1>3

\* No blocks have no bytes.
LEMMA NoBytes == Bytes({}) = 0
<1>1. UNION {{b} \X (1..SizeOf[b]) : b \in {}} = {}
  OBVIOUS
<1> QED
  BY <1>1, FS_EmptySet DEF Bytes

\* Some block is the largest, if there is one.
LEMMA LargestBounds ==
  /\ Largest \in Nat
  /\ \A b \in Block : SizeOf[b] \in Nat /\ SizeOf[b] <= Largest
<1> DEFINE Sizes == {0} \cup {SizeOf[b] : b \in Block}
           Bound == {n \in Nat : \A b \in Block : SizeOf[b] <= n}
<1>1. SizeOf \in [Block -> Nat \ {0}]
  BY BlockAssumption
<1>2. Bytes(Block) \in Bound
  <2>1. ASSUME NEW b \in Block PROVE SizeOf[b] <= Bytes(Block)
    <3>1. Bytes(Block \ {b}) = Bytes(Block) - SizeOf[b]
      BY BytesRemove
    <3>2. Bytes(Block \ {b}) \in Nat /\ Bytes(Block) \in Nat
      BY BytesType
    <3> QED
      BY <1>1, <3>1, <3>2
  <2> QED
    BY <2>1, BytesType
<1>3. PICK n \in Bound : \A m \in Bound : n <= m
  <2>1. Bound \subseteq Nat /\ Bound # {}
    BY <1>2
  <2> HIDE DEF Bound
  <2> QED
    BY <2>1, OneIsLeast
<1>4. n \in Nat /\ \A m \in Bound : n <= m
  BY <1>3
<1>5. n \in Sizes
  <2> SUFFICES ASSUME n # 0, \A b \in Block : SizeOf[b] # n PROVE FALSE
    OBVIOUS
  <2>1. n - 1 \in Bound
    BY <1>1, <1>4
  <2> QED
    BY <1>4, <2>1
<1>6. \E m \in Sizes : \A b \in Block : SizeOf[b] <= m
  BY <1>5
<1>7. Largest \in Sizes /\ \A b \in Block : SizeOf[b] <= Largest
  BY <1>6 DEF Largest
<1> QED
  BY <1>1, <1>7

\* A read in progress covers blocks of one entry, and the first that is left of them
\* is one of them.
LEMMA ReadsAreBlocks == \A r \in Reads : r \subseteq Block
BY BlockAssumption DEF Reads, Span, Block

\* A read that has blocks left has a first one left.
LEMMA FirstIsLeft ==
  ASSUME NEW r \in Reads, left \subseteq r, left # {} PROVE First \in left
<1> DEFINE At == {c[2] : c \in left}
<1>1. \A c \in left : c[2] \in Nat
  BY ReadsAreBlocks, BlockAssumption DEF Block
<1>2. PICK n \in At : \A m \in At : n <= m
  <2>1. At \subseteq Nat /\ At # {}
    BY <1>1
  <2> HIDE DEF At
  <2> QED
    BY <2>1, OneIsLeast
<1>3. \E b \in left : \A c \in left : b[2] <= c[2]
  BY <1>2
<1> QED
  BY <1>3 DEF First

\* The search for room ends.
LEMMA RoomIsMade ==
  ASSUME NEW b \in Block, data \subseteq Block, b \notin data
  PROVE  \/ Bytes(data \ Victims(b)) + SizeOf[b] <= Budget
         \/ data \ Victims(b) \subseteq needed
<1> DEFINE Found == {S \in Searched : Enough(b, S)}
<1>1. data \in Found
  BY DEF Searched, Enough
<1>2. Searched \subseteq SUBSET data
  BY DEF Searched
<1>3. FiniteSubsetsOf(data) = SUBSET data
  BY BlocksAreFinite, FS_FiniteSubsetsOfFinite
<1>4. PICK S \in Found : \A T \in Found : ~(<<T, S>> \in StrictSubsetOrdering(data))
  <2>1. Found \subseteq SUBSET data /\ Found # {}
    BY <1>1, <1>2
  <2> HIDE DEF Found
  <2> QED
    BY <2>1, <1>3, FS_StrictSubsetOrderingWellFounded, WFMin
<1>5. \A T \in Searched : Enough(b, T) /\ T \subseteq S => T = S
  BY <1>2, <1>4 DEF StrictSubsetOrdering
<1>6. PICK looked \in Searched : Enough(b, looked) /\ Victims(b) = {c \in looked : ~Spared(c)}
  BY <1>4, <1>5 DEF Victims
<1>7. {c \in data : c \in looked => Spared(c)} = data \ Victims(b)
  BY <1>6
<1>8. CASE looked = data
  BY <1>7, <1>8 DEF Spared
<1>9. CASE looked # data
  BY <1>6, <1>7, <1>9 DEF Enough
<1> QED
  BY <1>8, <1>9

-----------------------------------------------------------------------------
(* What the server holds.                                                  *)

\* The workers that are not about to add a block to what is ready.
Elsewhere == {w \in Worker : wk[w] # "loading"}

Reading == loop = "reading" => needed \in Reads /\ left \subseteq needed

Cached ==
  /\ data \subseteq Block
  /\ Bytes(data) <= Budget \/ \E r \in Reads : data \subseteq r

\* Until the order to stop, the count is right, and each worker that is decompressing
\* may still add one block.
Ahead ==
  ~stop => /\ bytes = Bytes(ready)
           /\ bytes < Window + Cardinality(Elsewhere) * Largest

\* There are finitely many workers, so they can be counted.
LEMMA ElsewhereIsFinite ==
  ASSUME NEW S \in SUBSET Worker
  PROVE  IsFiniteSet(S) /\ Cardinality(S) \in Nat /\ Cardinality(S) <= Cardinality(Worker)
<1>1. IsFiniteSet(Worker)
  BY BlockAssumption
<1>2. IsFiniteSet(S) /\ Cardinality(S) <= Cardinality(Worker)
  BY <1>1, FS_Subset
<1> QED
  BY <1>2, FS_CardinalityType

\* How a multiple grows, which the arithmetic of the workers needs.
LEMMA OneMore ==
  ASSUME NEW k \in Nat, NEW m \in Nat, NEW n \in Nat, m <= n
  PROVE  /\ m * k \in Nat /\ n * k \in Nat /\ m * k <= n * k
         /\ (m + 1) * k = m * k + k
OBVIOUS

\* The profile lists blocks of the package.
LEMMA WantedAreBlocks == Wanted \subseteq Block
BY BlockAssumption DEF Wanted

\* With nothing ready there is always room left below the window.
LEMMA NothingAhead ==
  ASSUME bytes' = 0, ready' = {} PROVE Ahead'
<1>1. Cardinality(Elsewhere)' \in Nat
  BY ElsewhereIsFinite DEF Elsewhere
<1>2. Cardinality(Elsewhere)' * Largest \in Nat
  BY <1>1, LargestBounds, OneMore
<1>3. Window \in Nat /\ Window > 0
  BY BlockAssumption
<1> QED
  BY <1>2, <1>3, NoBytes DEF Ahead

\* Every step keeps what is known of a read.
LEMMA ReadingStep == Reading /\ [BSNext]_blockVars => Reading'
<1> SUFFICES ASSUME Reading, [BSNext]_blockVars PROVE Reading'
  OBVIOUS
<1> USE DEF Reading, readVars
<1>1. CASE BeginRead
  BY <1>1 DEF BeginRead
<1>2. CASE PassCached \/ TakeReady \/ LoadItself
  BY <1>2 DEF PassCached, TakeReady, LoadItself
<1>3. CASE LoadFails \/ Reply \/ ClearIdle \/ Exit \/ GoOutOfScope \/ StopStep
  BY <1>3 DEF LoadFails, Reply, ClearIdle, Exit, GoOutOfScope, StopStep, OrderStop,
              WakeWorkers, JoinWorkers
<1>4. CASE \E w \in Worker : WorkStep(w) \/ WakeSpuriously(w)
  BY <1>4 DEF WorkStep, TakeIndex, CheckRoom, Spoiled, StoreBlock, WakeSpuriously
<1>5. CASE UNCHANGED blockVars
  BY <1>5 DEF blockVars
<1> QED
  BY <1>1, <1>2, <1>3, <1>4, <1>5 DEF BSNext, ReadStep

\* Every step keeps the cache to its budget, or to the blocks of one read.
LEMMA CachedStep == Reading /\ Cached /\ [BSNext]_blockVars => Cached'
<1> SUFFICES ASSUME Reading, Cached, [BSNext]_blockVars PROVE Cached'
  OBVIOUS
<1> USE DEF cacheVars
<1>1. CASE TakeReady \/ LoadItself
  <2>1. /\ Looks /\ data' = (data \ Victims(First)) \cup {First}
    BY <1>1 DEF TakeReady, LoadItself, Insert
  <2>2. PICK b : b = First
    OBVIOUS
  <2>3. needed \in Reads /\ b \in needed /\ b \in Block /\ b \notin data
    BY <2>1, <2>2, FirstIsLeft, ReadsAreBlocks DEF Reading, Looks
  <2>4. PICK kept \in SUBSET data :
          /\ kept = data \ Victims(b)
          /\ Bytes(kept) + SizeOf[b] <= Budget \/ kept \subseteq needed
    BY <2>3, RoomIsMade DEF Cached
  <2>5. data' = kept \cup {b} /\ data' \subseteq Block
    BY <2>1, <2>2, <2>3, <2>4 DEF Cached
  <2>6. Bytes(data') = Bytes(kept) + SizeOf[b]
    BY <2>3, <2>5, BytesAdd DEF Cached
  <2> QED
    BY <2>3, <2>4, <2>5, <2>6 DEF Cached
<1>2. CASE ClearIdle \/ Exit \/ GoOutOfScope
  <2>1. data' = {}
    BY <1>2 DEF ClearIdle, Exit, GoOutOfScope, Clear
  <2>2. 0 <= Budget
    BY BlockAssumption
  <2> QED
    BY <2>1, <2>2, NoBytes DEF Cached
<1>3. CASE BeginRead \/ PassCached \/ LoadFails \/ Reply \/ StopStep
  BY <1>3 DEF BeginRead, PassCached, LoadFails, Reply, StopStep, OrderStop, WakeWorkers,
              JoinWorkers, Cached
<1>4. CASE \E w \in Worker : WorkStep(w) \/ WakeSpuriously(w)
  BY <1>4 DEF WorkStep, TakeIndex, CheckRoom, Spoiled, StoreBlock, WakeSpuriously, Cached
<1>5. CASE UNCHANGED blockVars
  BY <1>5 DEF blockVars, Cached
<1> QED
  BY <1>1, <1>2, <1>3, <1>4, <1>5 DEF BSNext, ReadStep

\* A step that moves no worker to or from its decompression.
LEMMA SameAhead ==
  ASSUME Ahead, Elsewhere' = Elsewhere, UNCHANGED <<ready, bytes, stop>> PROVE Ahead'
<1>1. Cardinality(Elsewhere)' = Cardinality(Elsewhere)
  OBVIOUS
<1> QED
  BY <1>1 DEF Ahead

\* A worker's step keeps the bound on what is ready: it looked for room before.
LEMMA WorkAhead ==
  ASSUME BSInv, Ahead, NEW w \in Worker, WorkStep(w) \/ WakeSpuriously(w) PROVE Ahead'
<1> USE DEF storeVars
<1> DEFINE E == Elsewhere
           n == Cardinality(Elsewhere)
           k == Largest
<1>a. /\ wk \in [Worker -> {"next", "checking", "waiting", "loading", "done"}]
      /\ InFlight(w) => on[w] \in DOMAIN Listed
      /\ ready \subseteq Block
  BY WantedAreBlocks DEF BSInv, BSTypeOK
<1>b. IsFiniteSet(E) /\ n \in Nat /\ k \in Nat /\ n * k \in Nat
  BY ElsewhereIsFinite, LargestBounds, OneMore DEF Elsewhere
<1>1. CASE TakeIndex(w) \/ WakeSpuriously(w)
  <2>1. wk[w] # "loading" /\ UNCHANGED <<ready, bytes, stop>>
        /\ \E p \in {"checking", "done"} : wk' = [wk EXCEPT ![w] = p]
    BY <1>1 DEF TakeIndex, WakeSpuriously, Move, AfterWait
  <2>2. Elsewhere' = Elsewhere
    BY <1>a, <2>1 DEF Elsewhere
  <2> QED
    BY <2>1, <2>2, SameAhead
<1>2. CASE CheckRoom(w)
  <2>1. wk[w] = "checking" /\ UNCHANGED <<ready, bytes, stop>>
    BY <1>2 DEF CheckRoom
  <2>2. CASE \E p \in {"next", "waiting", "done"} : wk' = [wk EXCEPT ![w] = p]
    <3>1. Elsewhere' = Elsewhere
      BY <1>a, <2>1, <2>2 DEF Elsewhere
    <3> QED
      BY <2>1, <3>1, SameAhead
  <2>3. CASE bytes < Window /\ wk' = [wk EXCEPT ![w] = "loading"]
    <3>1. Cardinality(Elsewhere)' * k \in Nat
      BY <1>b, ElsewhereIsFinite, OneMore DEF Elsewhere
    <3>2. bytes = Bytes(ready) => bytes \in Nat
      BY <1>a, BytesType
    <3>3. Window \in Nat
      BY BlockAssumption
    <3> QED
      BY <2>1, <2>3, <3>1, <3>2, <3>3 DEF Ahead
  <2> QED
    BY <1>2, <2>2, <2>3 DEF CheckRoom, GoOn, Move
<1>3. CASE Spoiled(w) \/ StoreBlock(w)
  <2>b. PICK b : b = Listed[on[w]]
    OBVIOUS
  <2>1. /\ wk[w] = "loading" /\ stop' = stop
        /\ \E p \in {"next", "done"} : wk' = [wk EXCEPT ![w] = p]
        /\ \/ UNCHANGED <<ready, bytes>>
           \/ b \notin ready /\ ready' = ready \cup {b} /\ bytes' = bytes + SizeOf[b]
    BY <1>3, <2>b DEF Spoiled, StoreBlock, GoOn, Move, Drops
  <2>2. b \in Block
    BY <1>a, <2>b, <2>1, WantedAreBlocks DEF InFlight, Wanted
  <2>3. Elsewhere' = E \cup {w} /\ w \notin E
    BY <1>a, <2>1 DEF Elsewhere
  <2>4. Cardinality(Elsewhere)' = n + 1
    BY <1>b, <2>3, FS_AddElement
  <2>5. Cardinality(Elsewhere)' * k = n * k + k
    <3> HIDE DEF n, k
    <3> QED
      BY <1>b, <2>4, OneMore
  <2>6. /\ SizeOf[b] \in Nat /\ SizeOf[b] <= k
        /\ Bytes(ready) \in Nat
        /\ b \notin ready => Bytes(ready \cup {b}) = Bytes(ready) + SizeOf[b]
    BY <1>a, <2>2, LargestBounds, BytesType, BytesAdd
  <2>7. Window \in Nat
    BY BlockAssumption
  <2>8. SUFFICES ASSUME ~stop
                 PROVE  /\ bytes' = Bytes(ready')
                        /\ bytes' < Window + Cardinality(Elsewhere)' * Largest
    BY <2>1 DEF Ahead
  <2>9. bytes = Bytes(ready) /\ bytes < Window + n * k
    BY <2>8 DEF Ahead
  <2>10. CASE UNCHANGED <<ready, bytes>>
    <3>1. Window + n * k <= Window + (n * k + k)
      BY <1>b, <2>7
    <3> QED
      BY <1>b, <2>5, <2>6, <2>7, <2>9, <2>10, <3>1
  <2>11. CASE b \notin ready /\ ready' = ready \cup {b} /\ bytes' = bytes + SizeOf[b]
    BY <1>b, <2>5, <2>6, <2>7, <2>9, <2>11
  <2> QED
    BY <2>1, <2>10, <2>11
<1> QED
  BY <1>1, <1>2, <1>3 DEF WorkStep

\* Every step keeps that bound.
LEMMA AheadStep ==
  ASSUME BSInv, Reading, Ahead, [BSNext]_blockVars PROVE Ahead'
<1> USE DEF storeVars, workVars
<1>1. CASE \/ BeginRead \/ PassCached \/ LoadItself \/ LoadFails \/ Reply \/ ClearIdle
           \/ GoOutOfScope \/ UNCHANGED blockVars
  <2>1. UNCHANGED <<wk, ready, bytes, stop>>
    BY <1>1 DEF BeginRead, PassCached, LoadItself, LoadFails, Reply, ClearIdle,
                GoOutOfScope, blockVars
  <2> QED
    BY <2>1, SameAhead DEF Elsewhere
<1>2. CASE TakeReady
  <2>1. /\ Looks /\ First \in ready /\ ready' = ready \ {First}
        /\ bytes' = bytes - SizeOf[First] /\ stop' = stop
        /\ wk' = wk \/ \E w \in Worker : wk[w] = "waiting" /\ wk' = [wk EXCEPT ![w] = "checking"]
    BY <1>2 DEF TakeReady, Waiting, Move, AfterWait
  <2>2. Elsewhere' = Elsewhere
    BY <2>1 DEF Elsewhere, BSInv, BSTypeOK
  <2>3. ready \subseteq Block
    BY WantedAreBlocks DEF BSInv, BSTypeOK
  <2>4. /\ Bytes(ready \ {First}) = Bytes(ready) - SizeOf[First]
        /\ Bytes(ready) \in Nat /\ SizeOf[First] \in Nat
    BY <2>1, <2>3, BytesRemove, BytesType, LargestBounds
  <2>5. Cardinality(Elsewhere) * Largest \in Nat /\ Window \in Nat
    BY ElsewhereIsFinite, LargestBounds, OneMore, BlockAssumption DEF Elsewhere
  <2> QED
    BY <2>1, <2>2, <2>4, <2>5 DEF Ahead
<1>3. CASE OrderStop
  BY <1>3 DEF OrderStop, Ahead
<1>4. CASE WakeWorkers
  <2>1. UNCHANGED <<ready, bytes, stop>>
        /\ wk' = [w \in Worker |-> IF wk[w] = "waiting" THEN "checking" ELSE wk[w]]
    BY <1>4 DEF WakeWorkers, Notified, Waiting, AfterWait
  <2>2. Elsewhere' = Elsewhere
    BY <2>1 DEF Elsewhere
  <2> QED
    BY <2>1, <2>2, SameAhead
<1>5. CASE JoinWorkers \/ Exit
  <2>1. bytes' = 0 /\ ready' = {}
    BY <1>5 DEF JoinWorkers, Exit, BSInv, Stopped
  <2> QED
    BY <2>1, NothingAhead
<1> QED
  BY <1>1, <1>2, <1>3, <1>4, <1>5, WorkAhead DEF BSNext, ReadStep, StopStep

\* The bounds hold when nothing has been read.
LEMMA BoundsInitially == BSInit => Reading /\ Cached /\ Ahead
<1> SUFFICES ASSUME BSInit PROVE Reading /\ Cached /\ Ahead
  OBVIOUS
<1>1. /\ loop = "serving" /\ data = {} /\ ready = {} /\ bytes = 0
  BY DEF BSInit
<1>2. Cardinality(Elsewhere) * Largest \in Nat
  BY ElsewhereIsFinite, LargestBounds, OneMore DEF Elsewhere
<1>3. Window \in Nat /\ Window > 0 /\ Budget \in Nat
  BY BlockAssumption
<1> QED
  BY <1>1, <1>2, <1>3, NoBytes DEF Reading, Cached, Ahead

\* The cache and the prefetch hold no more than they may, for any package, profile,
\* window, budget and number of workers: the count of what is ready is right for as long
\* as it is looked at, and no worker starts on a block once it has reached the window.
THEOREM MemoryIsBounded == BSSpec => []MemoryBounded
<1> DEFINE Inv == BSInv /\ Reading /\ Cached /\ Ahead
<1>1. BSInit => Inv
  BY BlocksInitially, BoundsInitially
<1>2. Inv /\ [BSNext]_blockVars => Inv'
  BY BlocksInductive, ReadingStep, CachedStep, AheadStep
<1>3. Inv => MemoryBounded
  <2> SUFFICES ASSUME Inv PROVE Bytes(ready) < Window + Cardinality(Worker) * Largest
    BY DEF Cached, MemoryBounded
  <2> DEFINE few == Cardinality(Elsewhere)
             all == Cardinality(Worker)
             k == Largest
  <2>1. few \in Nat /\ all \in Nat /\ few <= all /\ k \in Nat
    BY ElsewhereIsFinite, LargestBounds DEF Elsewhere
  <2>2. few * k \in Nat /\ all * k \in Nat /\ few * k <= all * k
    <3> HIDE DEF few, all, k
    <3> QED
      BY <2>1, OneMore
  <2>3. Window \in Nat /\ Window > 0
    BY BlockAssumption
  <2>4. CASE stop
    <3>1. Bytes(ready) = 0
      BY <2>4, NoBytes DEF BSInv, Stopped
    <3> QED
      BY <2>2, <2>3, <3>1
  <2>5. CASE ~stop
    <3>1. Bytes(ready) < Window + few * k
      BY <2>5 DEF Ahead
    <3>2. Bytes(ready) \in Nat
      BY WantedAreBlocks, BytesType DEF BSInv, BSTypeOK
    <3> QED
      BY <2>2, <2>3, <3>1, <3>2
  <2> QED
    BY <2>4, <2>5
<1> QED
  <2> HIDE DEF Inv
  <2> QED
    BY <1>1, <1>2, <1>3, PTL DEF BSSpec
=============================================================================
