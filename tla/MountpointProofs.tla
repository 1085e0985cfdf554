---------------------------- MODULE MountpointProofs ----------------------------
(***************************************************************************)
(* Theorems about Mountpoint, for any launches, sweeps, lock files and     *)
(* faults.                                                                 *)
(*                                                                         *)
(* A claim keeps everybody from locking the claimed file alone (Excluded), *)
(* and as long as there is one lock file (NeverUnlocked) nobody removes    *)
(* the directory, and no server of a set leaves, without that lock.        *)
(***************************************************************************)
EXTENDS Mountpoint, SequenceTheorems, TLAPS

\* The lock files that descriptors are open on have been created.
Inos ==
  /\ lockAt <= made
  /\ \A l \in Claimant :
       step[l] \notin {"start", "leaving", "done", "extracts", "killed"} \/ srv[l] = "born"
         => ino[l] \in 1..made
  /\ \A g \in Reclaimer :
       sw[g] \in {"opened", "holding", "removing", "orphan", "unlinking"} =>
         swIno[g] \in 1..made

\* A claim keeps everybody from locking its file alone.
Excluded == \A l \in Claimant : HoldsClaim(l) => ~LockedAlone(ino[l])

\* Only a set has servers, and a launch forks its own late.
Forked ==
  \A l \in Claimant :
    /\ srv[l] # "none" \/ step[l] \in {"unserved", "creator", "waiting", "extracts"} =>
         kind = "set"
    /\ srv[l] # "none" => step[l] \in {"waiting", "running", "done", "extracts", "killed"}
    /\ step[l] \in {"leaving", "reopened", "removing"} => kind = "private"

\* With one lock file, no sweep takes the directory for one that has none.
NeverUnlocked ==
  kind = "private" /\ OneLockFile =>
    /\ made = 0 => ~dir
    /\ \A g \in Reclaimer : sw[g] \notin {"unlocked", "rmdir"}

\* A launch joined a server that answered.
Joined ==
  \A l \in Claimant :
    kind = "set" /\ step[l] = "running" =>
      /\ at[l] \in Claimant
      /\ srv[at[l]] \in {"polling", "leaving", "unmounted", "gone", "killed"}

\* The inductive invariant.
IInv ==
  /\ MPTypeOK /\ Inos /\ Excluded /\ Forked /\ NeverUnlocked /\ Joined
  /\ ClaimKeepsDir /\ ServerStays

-----------------------------------------------------------------------------
\* The top of a stack is mounted on it, and taking it off leaves the rest.
LEMMA TopIsMounted ==
  ASSUME NEW S, NEW q \in Seq(S), q # <<>>
  PROVE  Last(q) \in S /\ Last(q) \in Range(q)
<1>1. Len(q) \in DOMAIN q
  OBVIOUS
<1> QED
  BY <1>1 DEF Last, Range

\* What is left of the stack below its top was mounted before.
LEMMA RestIsMounted ==
  ASSUME NEW S, NEW q \in Seq(S), q # <<>>
  PROVE  Front(q) \in Seq(S) /\ Range(Front(q)) \subseteq Range(q)
<1>1. Len(q) \in Nat \ {0}
  OBVIOUS
<1>2. /\ Front(q) \in Seq(S) /\ Len(Front(q)) = Len(q) - 1
      /\ \A i \in 1..Len(q) - 1 : Front(q)[i] = q[i]
  <2> DEFINE n == Len(q) - 1
  <2>1. n \in Nat /\ 1 \in Int /\ n <= Len(q) /\ n - 1 + 1 = n
    BY <1>1
  <2> HIDE DEF n
  <2>2. \A i \in 1..n : q[i] \in S
    BY <2>1
  <2>3. /\ SubSeq(q, 1, n) \in Seq(S)
        /\ Len(SubSeq(q, 1, n)) = IF 1 <= n THEN n - 1 + 1 ELSE 0
        /\ \A i \in 1..n - 1 + 1 : SubSeq(q, 1, n)[i] = q[1 + i - 1]
    BY <2>1, <2>2, SubSeqProperties
  <2>4. \A i \in 1..n : 1 + i - 1 = i
    BY <2>1
  <2>5. Len(SubSeq(q, 1, n)) = n /\ \A i \in 1..n : SubSeq(q, 1, n)[i] = q[i]
    BY <2>1, <2>3, <2>4
  <2> QED
    BY <2>3, <2>5 DEF n, Front
<1>3. DOMAIN Front(q) = 1..Len(q) - 1 /\ DOMAIN q = 1..Len(q)
  BY <1>2
<1> QED
  BY <1>1, <1>2, <1>3 DEF Range

\* A mount goes on top of what is mounted already.
LEMMA MountedOnTop ==
  ASSUME NEW S, NEW q \in Seq(S), NEW e \in S
  PROVE  Append(q, e) \in Seq(S) /\ Range(Append(q, e)) = Range(q) \cup {e}
<1>1. /\ Append(q, e) \in Seq(S) /\ Len(Append(q, e)) = Len(q) + 1
      /\ Append(q, e)[Len(q) + 1] = e
      /\ \A i \in 1..Len(q) : Append(q, e)[i] = q[i]
  OBVIOUS
<1>2. DOMAIN Append(q, e) = 1..Len(q) + 1 /\ DOMAIN q = 1..Len(q) /\ Len(q) \in Nat
  BY <1>1
<1> QED
  BY <1>1, <1>2 DEF Range

\* Every step keeps the types, and the creation lock goes with its holders.
LEMMA TypesStep ==
  MPTypeOK /\ Inos /\ Forked /\ [MPNext]_mpVars => MPTypeOK'
<1> SUFFICES ASSUME MPTypeOK /\ Inos /\ Forked, [MPNext]_mpVars PROVE MPTypeOK'
  OBVIOUS
<1> USE MountpointAssumption DEF MPTypeOK, ClaimantPhase, ServerPhase,
    ReclaimPhase, Moves, Goes, Sweeps, Fault, claimantVars, lockVars, dirVars,
    srvVars, reclaimVars
<1>1. ASSUME NEW l \in Claimant, OpenLock(l) PROVE MPTypeOK'
  <2>1. CASE UNCHANGED lockVars /\ lockAt # 0
    <3>1. ino' \in [Claimant -> 0..MaxIno]
      BY <1>1, <2>1 DEF OpenLock
    <3>2. /\ UNCHANGED <<lockAt, made, lockOld, dir, dirOld, here, stack, creating, kind>>
          /\ \A x \in Claimant : x # l => step'[x] = step[x]
      BY <1>1, <2>1 DEF OpenLock
    <3> QED
      BY <1>1, <3>1, <3>2 DEF OpenLock
  <2>2. CASE lockOld' = FALSE /\ lockAt = 0 /\ made < MaxIno
    <3>1. lockOld' \in BOOLEAN
      BY <2>2
    <3>2. made' = made + 1 /\ lockAt' = made + 1 /\ ino' = [ino EXCEPT ![l] = made + 1]
      BY <1>1, <2>2 DEF OpenLock
    <3>4. ino' \in [Claimant -> 0..MaxIno] /\ lockAt' \in 0..MaxIno /\ made' \in 0..MaxIno
      BY <2>2, <3>2
    <3>3. UNCHANGED <<dir, dirOld, here, stack, creating, kind>>
      BY <1>1 DEF OpenLock
    <3> QED
      BY <1>1, <3>1, <3>2, <3>3, <3>4 DEF OpenLock
  <2> QED
    BY <1>1, <2>1, <2>2 DEF OpenLock
<1>2. ASSUME NEW l \in Claimant, Claim(l) PROVE MPTypeOK'
  BY <1>2 DEF Claim, LockedAlone
<1>3. ASSUME NEW l \in Claimant, MakeDir(l) PROVE MPTypeOK'
  BY <1>3 DEF MakeDir
<1>4. ASSUME NEW l \in Claimant, RunPrivately(l) PROVE MPTypeOK'
  BY <1>4 DEF RunPrivately
<1>5. ASSUME NEW l \in Claimant, Reopen(l) PROVE MPTypeOK'
  BY <1>5 DEF Reopen
<1>6. ASSUME NEW l \in Claimant, LockToRemove(l) PROVE MPTypeOK'
  BY <1>6 DEF LockToRemove, MayRemove, Lockable, ClaimedShared, HoldsClaim,
    LockedAlone
<1>7. ASSUME NEW l \in Claimant, LeaveToOthers(l) PROVE MPTypeOK'
  BY <1>7 DEF LeaveToOthers, MayRemove, Lockable, ClaimedShared, HoldsClaim,
    LockedAlone
<1>8. ASSUME NEW l \in Claimant, RemoveOwnDir(l) PROVE MPTypeOK'
  BY <1>8 DEF RemoveOwnDir, RemoveDir, IsMountpoint
<1>9. ASSUME NEW l \in Claimant, Join(l) PROVE MPTypeOK'
  <2>1. Last(stack) \in Claimant
    BY <1>9, TopIsMounted DEF Join, Joins, Served, IsMountpoint
  <2> QED
    BY <1>9, <2>1 DEF Join
<1>10. ASSUME NEW l \in Claimant, FindUnserved(l) PROVE MPTypeOK'
  BY <1>10 DEF FindUnserved, Unserved, IsMountpoint, Connected
<1>11. ASSUME NEW l \in Claimant, LockCreating(l) PROVE MPTypeOK'
  BY <1>11 DEF LockCreating
<1>12. ASSUME NEW l \in Claimant, ForkServer(l) PROVE MPTypeOK'
  BY <1>12 DEF ForkServer, Unserved, IsMountpoint, Connected
<1>13. ASSUME NEW l \in Claimant, Extract(l) PROVE MPTypeOK'
  BY <1>13 DEF Extract, Unserved, IsMountpoint, Connected
<1>14. ASSUME NEW l \in Claimant, DropClaim(l) PROVE MPTypeOK'
  BY <1>14 DEF DropClaim
<1>15. ASSUME NEW l \in Claimant, CreateUnlocked(l) PROVE MPTypeOK'
  BY <1>15 DEF CreateUnlocked
<1>16. ASSUME NEW l \in Claimant, Exit(l) PROVE MPTypeOK'
  BY <1>16 DEF Exit
<1>17. ASSUME NEW l \in Claimant, KillClaimant(l) PROVE MPTypeOK'
  BY <1>17 DEF KillClaimant
<1>18. ASSUME NEW s \in Claimant, DropInherited(s) PROVE MPTypeOK'
  BY <1>18 DEF DropInherited
<1>19. ASSUME NEW s \in Claimant, Mount(s) PROVE MPTypeOK'
  BY <1>19 DEF Mount, Mountable, Served, IsMountpoint, Answers
<1>20. ASSUME NEW s \in Claimant, MountFails(s) PROVE MPTypeOK'
  BY <1>20 DEF MountFails, Mountable, Served, IsMountpoint, Answers, Refused,
    Unserved, Connected
<1>21. ASSUME NEW s \in Claimant, Serve(s) PROVE MPTypeOK'
  BY <1>21 DEF Serve
<1>22. ASSUME NEW s \in Claimant, LoadFails(s) PROVE MPTypeOK'
  BY <1>22 DEF LoadFails
<1>23. ASSUME NEW s \in Claimant, StopServing(s) PROVE MPTypeOK'
  BY <1>23 DEF StopServing, Unclaimed, Lockable, ClaimedShared, HoldsClaim,
    LockedAlone
<1>24. ASSUME NEW s \in Claimant, ConnectionGone(s) PROVE MPTypeOK'
  BY <1>24 DEF ConnectionGone
<1>25. ASSUME NEW s \in Claimant, TakeDown(s) PROVE MPTypeOK'
  <2>1. stack' \in Seq(Claimant)
    BY <1>25, RestIsMounted DEF TakeDown, UnmountPath, IsMountpoint, MPTypeOK
  <2> HIDE DEF UnmountPath
  <2> QED
    BY <1>25, <2>1 DEF TakeDown
<1>26. ASSUME NEW s \in Claimant, RemoveServedDir(s) PROVE MPTypeOK'
  BY <1>26 DEF RemoveServedDir, RemoveDir, IsMountpoint
<1>27. ASSUME NEW s \in Claimant, KillServer(s) PROVE MPTypeOK'
  BY <1>27 DEF KillServer
<1>28. ASSUME NEW g \in Reclaimer, SweepOpens(g) PROVE MPTypeOK'
  BY <1>28 DEF SweepOpens
<1>29. ASSUME NEW g \in Reclaimer, SweepLocks(g) PROVE MPTypeOK'
  BY <1>29 DEF SweepLocks, SweepMayTake, Lockable, ClaimedShared, HoldsClaim,
    LockedAlone
<1>30. ASSUME NEW g \in Reclaimer, SweepPasses(g) PROVE MPTypeOK'
  BY <1>30 DEF SweepPasses, SweepMayTake, Lockable, ClaimedShared, HoldsClaim,
    LockedAlone, Served, IsMountpoint, Answers
<1>31. ASSUME NEW g \in Reclaimer, SweepUnmounts(g) PROVE MPTypeOK'
  <2>1. stack' \in Seq(Claimant)
    BY <1>31, RestIsMounted DEF SweepUnmounts, UnmountPath, IsMountpoint, MPTypeOK
  <2> HIDE DEF UnmountPath
  <2> QED
    BY <1>31, <2>1 DEF SweepUnmounts
<1>32. ASSUME NEW g \in Reclaimer, SweepRemoves(g) PROVE MPTypeOK'
  BY <1>32 DEF SweepRemoves, RemoveDir, IsMountpoint
<1>33. ASSUME NEW g \in Reclaimer, OrphanOpens(g) PROVE MPTypeOK'
  BY <1>33 DEF OrphanOpens
<1>34. ASSUME NEW g \in Reclaimer, OrphanLocks(g) PROVE MPTypeOK'
  BY <1>34 DEF OrphanLocks, SweepMayTake, Lockable, ClaimedShared, HoldsClaim,
    LockedAlone
<1>35. ASSUME NEW g \in Reclaimer, OrphanUnlinks(g) PROVE MPTypeOK'
  <2>0. lockAt' = 0 /\ lockOld' = FALSE
    BY <1>35 DEF OrphanUnlinks
  <2>1. lockAt' \in 0..MaxIno
    BY <2>0
  <2>3. lockOld' \in BOOLEAN
    BY <2>0
  <2>2. UNCHANGED <<dir, dirOld, here, made, stack, creating, kind>>
    BY <1>35 DEF OrphanUnlinks
  <2> QED
    BY <1>35, <2>1, <2>2, <2>3 DEF OrphanUnlinks
<1>36. ASSUME GrowOld PROVE MPTypeOK'
  BY <1>36 DEF GrowOld, AtRest
<1>37. ASSUME CleanOut PROVE MPTypeOK'
  <2>0. lockAt' = 0 /\ lockOld' = FALSE
    BY <1>37 DEF CleanOut
  <2>1. lockAt' \in 0..MaxIno
    BY <2>0
  <2>3. lockOld' \in BOOLEAN
    BY <2>0
  <2>2. UNCHANGED <<dir, dirOld, here, made, stack, creating, kind>>
    BY <1>37 DEF CleanOut
  <2> QED
    BY <1>37, <2>1, <2>2, <2>3 DEF CleanOut
<1>38. CASE UNCHANGED mpVars
  BY <1>38 DEF mpVars
<1> QED
  BY <1>1, <1>2, <1>3, <1>4, <1>5, <1>6, <1>7, <1>8, <1>9, <1>10, <1>11, <1>12,
    <1>13, <1>14, <1>15, <1>16, <1>17, <1>18, <1>19, <1>20, <1>21, <1>22,
    <1>23, <1>24, <1>25, <1>26, <1>27, <1>28, <1>29, <1>30, <1>31, <1>32,
    <1>33, <1>34, <1>35, <1>36, <1>37, <1>38 DEF MPNext, ClaimantStep,
    ServerStep, ReclaimStep

\* A lock file is numbered when it is created.
LEMMA InosStep ==
  MPTypeOK /\ Inos /\ Forked /\ [MPNext]_mpVars => Inos'
<1> SUFFICES ASSUME MPTypeOK /\ Inos /\ Forked, [MPNext]_mpVars PROVE Inos'
  OBVIOUS
<1>a. /\ step \in [Claimant -> ClaimantPhase]
      /\ ino \in [Claimant -> Nat]
      /\ lockAt \in Nat /\ made \in Nat
      /\ srv \in [Claimant -> ServerPhase]
      /\ sw \in [Reclaimer -> ReclaimPhase]
      /\ swIno \in [Reclaimer -> Nat]
  BY MountpointAssumption DEF MPTypeOK
<1> USE <1>a DEF Moves, Goes, Sweeps, Fault, claimantVars, lockVars, dirVars,
    srvVars, reclaimVars, Inos, Forked
<1>1. ASSUME NEW l \in Claimant, OpenLock(l) PROVE Inos'
  BY <1>1 DEF OpenLock
<1>2. ASSUME NEW l \in Claimant, Claim(l) PROVE Inos'
  BY <1>2 DEF Claim, LockedAlone
<1>3. ASSUME NEW l \in Claimant, MakeDir(l) PROVE Inos'
  BY <1>3 DEF MakeDir
<1>4. ASSUME NEW l \in Claimant, RunPrivately(l) PROVE Inos'
  BY <1>4 DEF RunPrivately
<1>5. ASSUME NEW l \in Claimant, Reopen(l) PROVE Inos'
  BY <1>5 DEF Reopen
<1>6. ASSUME NEW l \in Claimant, LockToRemove(l) PROVE Inos'
  BY <1>6 DEF LockToRemove, MayRemove, Lockable, ClaimedShared, HoldsClaim,
    LockedAlone
<1>7. ASSUME NEW l \in Claimant, LeaveToOthers(l) PROVE Inos'
  BY <1>7 DEF LeaveToOthers, MayRemove, Lockable, ClaimedShared, HoldsClaim,
    LockedAlone
<1>8. ASSUME NEW l \in Claimant, RemoveOwnDir(l) PROVE Inos'
  BY <1>8 DEF RemoveOwnDir, RemoveDir, IsMountpoint
<1>9. ASSUME NEW l \in Claimant, Join(l) PROVE Inos'
  BY <1>9 DEF Join, Joins, Served, IsMountpoint, Answers
<1>10. ASSUME NEW l \in Claimant, FindUnserved(l) PROVE Inos'
  BY <1>10 DEF FindUnserved, Unserved, IsMountpoint, Connected
<1>11. ASSUME NEW l \in Claimant, LockCreating(l) PROVE Inos'
  BY <1>11 DEF LockCreating
<1>12. ASSUME NEW l \in Claimant, ForkServer(l) PROVE Inos'
  BY <1>12 DEF ForkServer, Unserved, IsMountpoint, Connected
<1>13. ASSUME NEW l \in Claimant, Extract(l) PROVE Inos'
  BY <1>13 DEF Extract, Unserved, IsMountpoint, Connected
<1>14. ASSUME NEW l \in Claimant, DropClaim(l) PROVE Inos'
  BY <1>14 DEF DropClaim
<1>15. ASSUME NEW l \in Claimant, CreateUnlocked(l) PROVE Inos'
  BY <1>15 DEF CreateUnlocked
<1>16. ASSUME NEW l \in Claimant, Exit(l) PROVE Inos'
  BY <1>16 DEF Exit
<1>17. ASSUME NEW l \in Claimant, KillClaimant(l) PROVE Inos'
  BY <1>17 DEF KillClaimant
<1>18. ASSUME NEW s \in Claimant, DropInherited(s) PROVE Inos'
  BY <1>18 DEF DropInherited
<1>19. ASSUME NEW s \in Claimant, Mount(s) PROVE Inos'
  BY <1>19 DEF Mount, Mountable, Served, IsMountpoint, Answers
<1>20. ASSUME NEW s \in Claimant, MountFails(s) PROVE Inos'
  BY <1>20 DEF MountFails, Mountable, Served, IsMountpoint, Answers, Refused,
    Unserved, Connected
<1>21. ASSUME NEW s \in Claimant, Serve(s) PROVE Inos'
  BY <1>21 DEF Serve
<1>22. ASSUME NEW s \in Claimant, LoadFails(s) PROVE Inos'
  BY <1>22 DEF LoadFails
<1>23. ASSUME NEW s \in Claimant, StopServing(s) PROVE Inos'
  BY <1>23 DEF StopServing, Unclaimed, Lockable, ClaimedShared, HoldsClaim,
    LockedAlone
<1>24. ASSUME NEW s \in Claimant, ConnectionGone(s) PROVE Inos'
  BY <1>24 DEF ConnectionGone
<1>25. ASSUME NEW s \in Claimant, TakeDown(s) PROVE Inos'
  BY <1>25 DEF TakeDown
<1>26. ASSUME NEW s \in Claimant, RemoveServedDir(s) PROVE Inos'
  BY <1>26 DEF RemoveServedDir, RemoveDir, IsMountpoint
<1>27. ASSUME NEW s \in Claimant, KillServer(s) PROVE Inos'
  BY <1>27 DEF KillServer
<1>28. ASSUME NEW g \in Reclaimer, SweepOpens(g) PROVE Inos'
  BY <1>28 DEF SweepOpens
<1>29. ASSUME NEW g \in Reclaimer, SweepLocks(g) PROVE Inos'
  BY <1>29 DEF SweepLocks, SweepMayTake, Lockable, ClaimedShared, HoldsClaim,
    LockedAlone
<1>30. ASSUME NEW g \in Reclaimer, SweepPasses(g) PROVE Inos'
  BY <1>30 DEF SweepPasses, SweepMayTake, Lockable, ClaimedShared, HoldsClaim,
    LockedAlone, Served, IsMountpoint, Answers
<1>31. ASSUME NEW g \in Reclaimer, SweepUnmounts(g) PROVE Inos'
  BY <1>31 DEF SweepUnmounts, Unserved, IsMountpoint, Connected
<1>32. ASSUME NEW g \in Reclaimer, SweepRemoves(g) PROVE Inos'
  BY <1>32 DEF SweepRemoves, RemoveDir, IsMountpoint
<1>33. ASSUME NEW g \in Reclaimer, OrphanOpens(g) PROVE Inos'
  BY <1>33 DEF OrphanOpens
<1>34. ASSUME NEW g \in Reclaimer, OrphanLocks(g) PROVE Inos'
  BY <1>34 DEF OrphanLocks, SweepMayTake, Lockable, ClaimedShared, HoldsClaim,
    LockedAlone
<1>35. ASSUME NEW g \in Reclaimer, OrphanUnlinks(g) PROVE Inos'
  BY <1>35 DEF OrphanUnlinks
<1>36. ASSUME GrowOld PROVE Inos'
  BY <1>36 DEF GrowOld, AtRest
<1>37. ASSUME CleanOut PROVE Inos'
  BY <1>37 DEF CleanOut
<1>38. CASE UNCHANGED mpVars
  BY <1>38 DEF mpVars
<1> QED
  BY <1>1, <1>2, <1>3, <1>4, <1>5, <1>6, <1>7, <1>8, <1>9, <1>10, <1>11, <1>12,
    <1>13, <1>14, <1>15, <1>16, <1>17, <1>18, <1>19, <1>20, <1>21, <1>22,
    <1>23, <1>24, <1>25, <1>26, <1>27, <1>28, <1>29, <1>30, <1>31, <1>32,
    <1>33, <1>34, <1>35, <1>36, <1>37, <1>38 DEF MPNext, ClaimantStep,
    ServerStep, ReclaimStep

\* Nobody claims a file that is locked, nor locks one that is claimed.
LEMMA ExcludedStep ==
  MPTypeOK /\ Inos /\ Forked /\ Excluded /\ [MPNext]_mpVars => Excluded'
<1> SUFFICES ASSUME MPTypeOK /\ Inos /\ Forked /\ Excluded,
                [MPNext]_mpVars
         PROVE  Excluded'
  OBVIOUS
<1>a. /\ step \in [Claimant -> ClaimantPhase]
      /\ ino \in [Claimant -> Nat]
      /\ srv \in [Claimant -> ServerPhase]
      /\ sw \in [Reclaimer -> ReclaimPhase]
      /\ swIno \in [Reclaimer -> Nat]
  BY MountpointAssumption DEF MPTypeOK
<1> USE <1>a DEF Moves, Goes, Sweeps, Fault, claimantVars, lockVars, dirVars,
    srvVars, reclaimVars, Excluded, HoldsClaim, LockedAlone, Forked
<1>1. ASSUME NEW l \in Claimant, OpenLock(l) PROVE Excluded'
  BY <1>1 DEF OpenLock
<1>2. ASSUME NEW l \in Claimant, Claim(l) PROVE Excluded'
  BY <1>2 DEF Claim
<1>3. ASSUME NEW l \in Claimant, MakeDir(l) PROVE Excluded'
  BY <1>3 DEF MakeDir
<1>4. ASSUME NEW l \in Claimant, RunPrivately(l) PROVE Excluded'
  BY <1>4 DEF RunPrivately
<1>5. ASSUME NEW l \in Claimant, Reopen(l) PROVE Excluded'
  BY <1>5 DEF Reopen
<1>6. ASSUME NEW l \in Claimant, LockToRemove(l) PROVE Excluded'
  BY <1>6 DEF LockToRemove, MayRemove, Lockable, ClaimedShared
<1>7. ASSUME NEW l \in Claimant, LeaveToOthers(l) PROVE Excluded'
  BY <1>7 DEF LeaveToOthers, MayRemove, Lockable, ClaimedShared
<1>8. ASSUME NEW l \in Claimant, RemoveOwnDir(l) PROVE Excluded'
  BY <1>8 DEF RemoveOwnDir, RemoveDir, IsMountpoint
<1>9. ASSUME NEW l \in Claimant, Join(l) PROVE Excluded'
  BY <1>9 DEF Join, Joins, Served, IsMountpoint, Answers
<1>10. ASSUME NEW l \in Claimant, FindUnserved(l) PROVE Excluded'
  BY <1>10 DEF FindUnserved, Unserved, IsMountpoint, Connected
<1>11. ASSUME NEW l \in Claimant, LockCreating(l) PROVE Excluded'
  BY <1>11 DEF LockCreating
<1>12. ASSUME NEW l \in Claimant, ForkServer(l) PROVE Excluded'
  BY <1>12 DEF ForkServer, Unserved, IsMountpoint, Connected
<1>13. ASSUME NEW l \in Claimant, Extract(l) PROVE Excluded'
  BY <1>13 DEF Extract, Unserved, IsMountpoint, Connected
<1>14. ASSUME NEW l \in Claimant, DropClaim(l) PROVE Excluded'
  BY <1>14 DEF DropClaim
<1>15. ASSUME NEW l \in Claimant, CreateUnlocked(l) PROVE Excluded'
  BY <1>15 DEF CreateUnlocked
<1>16. ASSUME NEW l \in Claimant, Exit(l) PROVE Excluded'
  BY <1>16 DEF Exit
<1>17. ASSUME NEW l \in Claimant, KillClaimant(l) PROVE Excluded'
  BY <1>17 DEF KillClaimant
<1>18. ASSUME NEW s \in Claimant, DropInherited(s) PROVE Excluded'
  BY <1>18 DEF DropInherited
<1>19. ASSUME NEW s \in Claimant, Mount(s) PROVE Excluded'
  BY <1>19 DEF Mount, Mountable, Served, IsMountpoint, Answers
<1>20. ASSUME NEW s \in Claimant, MountFails(s) PROVE Excluded'
  BY <1>20 DEF MountFails, Mountable, Served, IsMountpoint, Answers, Refused,
    Unserved, Connected
<1>21. ASSUME NEW s \in Claimant, Serve(s) PROVE Excluded'
  BY <1>21 DEF Serve
<1>22. ASSUME NEW s \in Claimant, LoadFails(s) PROVE Excluded'
  BY <1>22 DEF LoadFails
<1>23. ASSUME NEW s \in Claimant, StopServing(s) PROVE Excluded'
  BY <1>23 DEF StopServing, Unclaimed, Lockable, ClaimedShared
<1>24. ASSUME NEW s \in Claimant, ConnectionGone(s) PROVE Excluded'
  BY <1>24 DEF ConnectionGone
<1>25. ASSUME NEW s \in Claimant, TakeDown(s) PROVE Excluded'
  BY <1>25 DEF TakeDown
<1>26. ASSUME NEW s \in Claimant, RemoveServedDir(s) PROVE Excluded'
  BY <1>26 DEF RemoveServedDir, RemoveDir, IsMountpoint
<1>27. ASSUME NEW s \in Claimant, KillServer(s) PROVE Excluded'
  BY <1>27 DEF KillServer
<1>28. ASSUME NEW g \in Reclaimer, SweepOpens(g) PROVE Excluded'
  BY <1>28 DEF SweepOpens
<1>29. ASSUME NEW g \in Reclaimer, SweepLocks(g) PROVE Excluded'
  BY <1>29 DEF SweepLocks, SweepMayTake, Lockable, ClaimedShared
<1>30. ASSUME NEW g \in Reclaimer, SweepPasses(g) PROVE Excluded'
  BY <1>30 DEF SweepPasses, SweepMayTake, Lockable, ClaimedShared, Served,
    IsMountpoint, Answers
<1>31. ASSUME NEW g \in Reclaimer, SweepUnmounts(g) PROVE Excluded'
  BY <1>31 DEF SweepUnmounts, Unserved, IsMountpoint, Connected
<1>32. ASSUME NEW g \in Reclaimer, SweepRemoves(g) PROVE Excluded'
  BY <1>32 DEF SweepRemoves, RemoveDir, IsMountpoint
<1>33. ASSUME NEW g \in Reclaimer, OrphanOpens(g) PROVE Excluded'
  BY <1>33 DEF OrphanOpens
<1>34. ASSUME NEW g \in Reclaimer, OrphanLocks(g) PROVE Excluded'
  BY <1>34 DEF OrphanLocks, SweepMayTake, Lockable, ClaimedShared
<1>35. ASSUME NEW g \in Reclaimer, OrphanUnlinks(g) PROVE Excluded'
  BY <1>35 DEF OrphanUnlinks
<1>36. ASSUME GrowOld PROVE Excluded'
  BY <1>36 DEF GrowOld, AtRest
<1>37. ASSUME CleanOut PROVE Excluded'
  BY <1>37 DEF CleanOut
<1>38. CASE UNCHANGED mpVars
  BY <1>38 DEF mpVars
<1> QED
  BY <1>1, <1>2, <1>3, <1>4, <1>5, <1>6, <1>7, <1>8, <1>9, <1>10, <1>11, <1>12,
    <1>13, <1>14, <1>15, <1>16, <1>17, <1>18, <1>19, <1>20, <1>21, <1>22,
    <1>23, <1>24, <1>25, <1>26, <1>27, <1>28, <1>29, <1>30, <1>31, <1>32,
    <1>33, <1>34, <1>35, <1>36, <1>37, <1>38 DEF MPNext, ClaimantStep,
    ServerStep, ReclaimStep

\* Only a launch that creates a set forks a server.
LEMMA ForkedStep ==
  MPTypeOK /\ Forked /\ [MPNext]_mpVars => Forked'
<1> SUFFICES ASSUME MPTypeOK /\ Forked, [MPNext]_mpVars PROVE Forked'
  OBVIOUS
<1>a. /\ kind \in {"private", "set"}
      /\ step \in [Claimant -> ClaimantPhase]
      /\ srv \in [Claimant -> ServerPhase]
  BY MountpointAssumption DEF MPTypeOK
<1> USE <1>a DEF Moves, Goes, Sweeps, Fault, claimantVars, lockVars, dirVars,
    srvVars, reclaimVars, Forked
<1>1. ASSUME NEW l \in Claimant, OpenLock(l) PROVE Forked'
  BY <1>1 DEF OpenLock
<1>2. ASSUME NEW l \in Claimant, Claim(l) PROVE Forked'
  BY <1>2 DEF Claim, LockedAlone
<1>3. ASSUME NEW l \in Claimant, MakeDir(l) PROVE Forked'
  BY <1>3 DEF MakeDir
<1>4. ASSUME NEW l \in Claimant, RunPrivately(l) PROVE Forked'
  BY <1>4 DEF RunPrivately
<1>5. ASSUME NEW l \in Claimant, Reopen(l) PROVE Forked'
  BY <1>5 DEF Reopen
<1>6. ASSUME NEW l \in Claimant, LockToRemove(l) PROVE Forked'
  BY <1>6 DEF LockToRemove, MayRemove, Lockable, ClaimedShared, HoldsClaim,
    LockedAlone
<1>7. ASSUME NEW l \in Claimant, LeaveToOthers(l) PROVE Forked'
  BY <1>7 DEF LeaveToOthers, MayRemove, Lockable, ClaimedShared, HoldsClaim,
    LockedAlone
<1>8. ASSUME NEW l \in Claimant, RemoveOwnDir(l) PROVE Forked'
  BY <1>8 DEF RemoveOwnDir, RemoveDir, IsMountpoint
<1>9. ASSUME NEW l \in Claimant, Join(l) PROVE Forked'
  BY <1>9 DEF Join, Joins, Served, IsMountpoint, Answers
<1>10. ASSUME NEW l \in Claimant, FindUnserved(l) PROVE Forked'
  BY <1>10 DEF FindUnserved, Unserved, IsMountpoint, Connected
<1>11. ASSUME NEW l \in Claimant, LockCreating(l) PROVE Forked'
  BY <1>11 DEF LockCreating
<1>12. ASSUME NEW l \in Claimant, ForkServer(l) PROVE Forked'
  BY <1>12 DEF ForkServer, Unserved, IsMountpoint, Connected
<1>13. ASSUME NEW l \in Claimant, Extract(l) PROVE Forked'
  BY <1>13 DEF Extract, Unserved, IsMountpoint, Connected
<1>14. ASSUME NEW l \in Claimant, DropClaim(l) PROVE Forked'
  BY <1>14 DEF DropClaim
<1>15. ASSUME NEW l \in Claimant, CreateUnlocked(l) PROVE Forked'
  BY <1>15 DEF CreateUnlocked
<1>16. ASSUME NEW l \in Claimant, Exit(l) PROVE Forked'
  BY <1>16 DEF Exit
<1>17. ASSUME NEW l \in Claimant, KillClaimant(l) PROVE Forked'
  BY <1>17 DEF KillClaimant
<1>18. ASSUME NEW s \in Claimant, DropInherited(s) PROVE Forked'
  BY <1>18 DEF DropInherited
<1>19. ASSUME NEW s \in Claimant, Mount(s) PROVE Forked'
  BY <1>19 DEF Mount, Mountable, Served, IsMountpoint, Answers
<1>20. ASSUME NEW s \in Claimant, MountFails(s) PROVE Forked'
  BY <1>20 DEF MountFails, Mountable, Served, IsMountpoint, Answers, Refused,
    Unserved, Connected
<1>21. ASSUME NEW s \in Claimant, Serve(s) PROVE Forked'
  BY <1>21 DEF Serve
<1>22. ASSUME NEW s \in Claimant, LoadFails(s) PROVE Forked'
  BY <1>22 DEF LoadFails
<1>23. ASSUME NEW s \in Claimant, StopServing(s) PROVE Forked'
  BY <1>23 DEF StopServing, Unclaimed, Lockable, ClaimedShared, HoldsClaim,
    LockedAlone
<1>24. ASSUME NEW s \in Claimant, ConnectionGone(s) PROVE Forked'
  BY <1>24 DEF ConnectionGone
<1>25. ASSUME NEW s \in Claimant, TakeDown(s) PROVE Forked'
  BY <1>25 DEF TakeDown
<1>26. ASSUME NEW s \in Claimant, RemoveServedDir(s) PROVE Forked'
  BY <1>26 DEF RemoveServedDir, RemoveDir, IsMountpoint
<1>27. ASSUME NEW s \in Claimant, KillServer(s) PROVE Forked'
  BY <1>27 DEF KillServer
<1>28. ASSUME NEW g \in Reclaimer, SweepOpens(g) PROVE Forked'
  BY <1>28 DEF SweepOpens
<1>29. ASSUME NEW g \in Reclaimer, SweepLocks(g) PROVE Forked'
  BY <1>29 DEF SweepLocks, SweepMayTake, Lockable, ClaimedShared, HoldsClaim,
    LockedAlone
<1>30. ASSUME NEW g \in Reclaimer, SweepPasses(g) PROVE Forked'
  BY <1>30 DEF SweepPasses, SweepMayTake, Lockable, ClaimedShared, HoldsClaim,
    LockedAlone, Served, IsMountpoint, Answers
<1>31. ASSUME NEW g \in Reclaimer, SweepUnmounts(g) PROVE Forked'
  BY <1>31 DEF SweepUnmounts, Unserved, IsMountpoint, Connected
<1>32. ASSUME NEW g \in Reclaimer, SweepRemoves(g) PROVE Forked'
  BY <1>32 DEF SweepRemoves, RemoveDir, IsMountpoint
<1>33. ASSUME NEW g \in Reclaimer, OrphanOpens(g) PROVE Forked'
  BY <1>33 DEF OrphanOpens
<1>34. ASSUME NEW g \in Reclaimer, OrphanLocks(g) PROVE Forked'
  BY <1>34 DEF OrphanLocks, SweepMayTake, Lockable, ClaimedShared, HoldsClaim,
    LockedAlone
<1>35. ASSUME NEW g \in Reclaimer, OrphanUnlinks(g) PROVE Forked'
  BY <1>35 DEF OrphanUnlinks
<1>36. ASSUME GrowOld PROVE Forked'
  BY <1>36 DEF GrowOld, AtRest
<1>37. ASSUME CleanOut PROVE Forked'
  BY <1>37 DEF CleanOut
<1>38. CASE UNCHANGED mpVars
  BY <1>38 DEF mpVars
<1> QED
  BY <1>1, <1>2, <1>3, <1>4, <1>5, <1>6, <1>7, <1>8, <1>9, <1>10, <1>11, <1>12,
    <1>13, <1>14, <1>15, <1>16, <1>17, <1>18, <1>19, <1>20, <1>21, <1>22,
    <1>23, <1>24, <1>25, <1>26, <1>27, <1>28, <1>29, <1>30, <1>31, <1>32,
    <1>33, <1>34, <1>35, <1>36, <1>37, <1>38 DEF MPNext, ClaimantStep,
    ServerStep, ReclaimStep

\* Whoever made the directory had created the lock file.
LEMMA NeverUnlockedStep ==
  MPTypeOK /\ Inos /\ NeverUnlocked /\ [MPNext]_mpVars => NeverUnlocked'
<1> SUFFICES ASSUME MPTypeOK /\ Inos /\ NeverUnlocked,
                [MPNext]_mpVars
         PROVE  NeverUnlocked'
  OBVIOUS
<1>a. /\ step \in [Claimant -> ClaimantPhase]
      /\ ino \in [Claimant -> Nat]
      /\ lockAt \in Nat /\ made \in Nat
      /\ sw \in [Reclaimer -> ReclaimPhase]
  BY MountpointAssumption DEF MPTypeOK
<1> USE <1>a DEF Moves, Goes, Sweeps, Fault, claimantVars, lockVars, dirVars,
    srvVars, reclaimVars, NeverUnlocked, OneLockFile, Inos
<1>1. ASSUME NEW l \in Claimant, OpenLock(l) PROVE NeverUnlocked'
  BY <1>1 DEF OpenLock
<1>2. ASSUME NEW l \in Claimant, Claim(l) PROVE NeverUnlocked'
  BY <1>2 DEF Claim, LockedAlone
<1>3. ASSUME NEW l \in Claimant, MakeDir(l) PROVE NeverUnlocked'
  <2>1. made \in Nat \ {0} /\ made' = made /\ lockAt' = lockAt /\ kind' = kind /\ sw' = sw
    BY <1>3 DEF MakeDir
  <2> QED
    BY <2>1
<1>4. ASSUME NEW l \in Claimant, RunPrivately(l) PROVE NeverUnlocked'
  BY <1>4 DEF RunPrivately
<1>5. ASSUME NEW l \in Claimant, Reopen(l) PROVE NeverUnlocked'
  BY <1>5 DEF Reopen
<1>6. ASSUME NEW l \in Claimant, LockToRemove(l) PROVE NeverUnlocked'
  BY <1>6 DEF LockToRemove, MayRemove, Lockable, ClaimedShared, HoldsClaim,
    LockedAlone
<1>7. ASSUME NEW l \in Claimant, LeaveToOthers(l) PROVE NeverUnlocked'
  BY <1>7 DEF LeaveToOthers, MayRemove, Lockable, ClaimedShared, HoldsClaim,
    LockedAlone
<1>8. ASSUME NEW l \in Claimant, RemoveOwnDir(l) PROVE NeverUnlocked'
  BY <1>8 DEF RemoveOwnDir, RemoveDir, IsMountpoint
<1>9. ASSUME NEW l \in Claimant, Join(l) PROVE NeverUnlocked'
  BY <1>9 DEF Join, Joins, Served, IsMountpoint, Answers
<1>10. ASSUME NEW l \in Claimant, FindUnserved(l) PROVE NeverUnlocked'
  BY <1>10 DEF FindUnserved, Unserved, IsMountpoint, Connected
<1>11. ASSUME NEW l \in Claimant, LockCreating(l) PROVE NeverUnlocked'
  BY <1>11 DEF LockCreating
<1>12. ASSUME NEW l \in Claimant, ForkServer(l) PROVE NeverUnlocked'
  BY <1>12 DEF ForkServer, Unserved, IsMountpoint, Connected
<1>13. ASSUME NEW l \in Claimant, Extract(l) PROVE NeverUnlocked'
  BY <1>13 DEF Extract, Unserved, IsMountpoint, Connected
<1>14. ASSUME NEW l \in Claimant, DropClaim(l) PROVE NeverUnlocked'
  BY <1>14 DEF DropClaim
<1>15. ASSUME NEW l \in Claimant, CreateUnlocked(l) PROVE NeverUnlocked'
  BY <1>15 DEF CreateUnlocked
<1>16. ASSUME NEW l \in Claimant, Exit(l) PROVE NeverUnlocked'
  BY <1>16 DEF Exit
<1>17. ASSUME NEW l \in Claimant, KillClaimant(l) PROVE NeverUnlocked'
  BY <1>17 DEF KillClaimant
<1>18. ASSUME NEW s \in Claimant, DropInherited(s) PROVE NeverUnlocked'
  BY <1>18 DEF DropInherited
<1>19. ASSUME NEW s \in Claimant, Mount(s) PROVE NeverUnlocked'
  BY <1>19 DEF Mount, Mountable, Served, IsMountpoint, Answers
<1>20. ASSUME NEW s \in Claimant, MountFails(s) PROVE NeverUnlocked'
  BY <1>20 DEF MountFails, Mountable, Served, IsMountpoint, Answers, Refused,
    Unserved, Connected
<1>21. ASSUME NEW s \in Claimant, Serve(s) PROVE NeverUnlocked'
  BY <1>21 DEF Serve
<1>22. ASSUME NEW s \in Claimant, LoadFails(s) PROVE NeverUnlocked'
  BY <1>22 DEF LoadFails
<1>23. ASSUME NEW s \in Claimant, StopServing(s) PROVE NeverUnlocked'
  BY <1>23 DEF StopServing, Unclaimed, Lockable, ClaimedShared, HoldsClaim,
    LockedAlone
<1>24. ASSUME NEW s \in Claimant, ConnectionGone(s) PROVE NeverUnlocked'
  BY <1>24 DEF ConnectionGone
<1>25. ASSUME NEW s \in Claimant, TakeDown(s) PROVE NeverUnlocked'
  BY <1>25 DEF TakeDown
<1>26. ASSUME NEW s \in Claimant, RemoveServedDir(s) PROVE NeverUnlocked'
  BY <1>26 DEF RemoveServedDir, RemoveDir, IsMountpoint
<1>27. ASSUME NEW s \in Claimant, KillServer(s) PROVE NeverUnlocked'
  BY <1>27 DEF KillServer
<1>28. ASSUME NEW g \in Reclaimer, SweepOpens(g) PROVE NeverUnlocked'
  BY <1>28 DEF SweepOpens
<1>29. ASSUME NEW g \in Reclaimer, SweepLocks(g) PROVE NeverUnlocked'
  BY <1>29 DEF SweepLocks, SweepMayTake, Lockable, ClaimedShared, HoldsClaim,
    LockedAlone
<1>30. ASSUME NEW g \in Reclaimer, SweepPasses(g) PROVE NeverUnlocked'
  BY <1>30 DEF SweepPasses, SweepMayTake, Lockable, ClaimedShared, HoldsClaim,
    LockedAlone, Served, IsMountpoint, Answers
<1>31. ASSUME NEW g \in Reclaimer, SweepUnmounts(g) PROVE NeverUnlocked'
  BY <1>31 DEF SweepUnmounts, Unserved, IsMountpoint, Connected
<1>32. ASSUME NEW g \in Reclaimer, SweepRemoves(g) PROVE NeverUnlocked'
  BY <1>32 DEF SweepRemoves, RemoveDir, IsMountpoint
<1>33. ASSUME NEW g \in Reclaimer, OrphanOpens(g) PROVE NeverUnlocked'
  BY <1>33 DEF OrphanOpens
<1>34. ASSUME NEW g \in Reclaimer, OrphanLocks(g) PROVE NeverUnlocked'
  BY <1>34 DEF OrphanLocks, SweepMayTake, Lockable, ClaimedShared, HoldsClaim,
    LockedAlone
<1>35. ASSUME NEW g \in Reclaimer, OrphanUnlinks(g) PROVE NeverUnlocked'
  <2>1. made \in Nat \ {0} /\ made' = made /\ lockAt' = 0
    BY <1>35 DEF OrphanUnlinks
  <2> QED
    BY <2>1
<1>36. ASSUME GrowOld PROVE NeverUnlocked'
  BY <1>36 DEF GrowOld, AtRest
<1>37. ASSUME CleanOut PROVE NeverUnlocked'
  <2>1. made \in Nat \ {0} /\ made' = made /\ lockAt' = 0
    BY <1>37 DEF CleanOut
  <2> QED
    BY <2>1
<1>38. CASE UNCHANGED mpVars
  BY <1>38 DEF mpVars
<1> QED
  BY <1>1, <1>2, <1>3, <1>4, <1>5, <1>6, <1>7, <1>8, <1>9, <1>10, <1>11, <1>12,
    <1>13, <1>14, <1>15, <1>16, <1>17, <1>18, <1>19, <1>20, <1>21, <1>22,
    <1>23, <1>24, <1>25, <1>26, <1>27, <1>28, <1>29, <1>30, <1>31, <1>32,
    <1>33, <1>34, <1>35, <1>36, <1>37, <1>38 DEF MPNext, ClaimantStep,
    ServerStep, ReclaimStep

\* A server that has answered is past its start.
LEMMA JoinedStep ==
  MPTypeOK /\ Forked /\ Joined /\ [MPNext]_mpVars => Joined'
<1> SUFFICES ASSUME MPTypeOK /\ Forked /\ Joined, [MPNext]_mpVars PROVE Joined'
  OBVIOUS
<1>a. /\ step \in [Claimant -> ClaimantPhase]
      /\ at \in [Claimant -> Claimant \cup {Nobody}]
      /\ srv \in [Claimant -> ServerPhase]
      /\ stack \in Seq(Claimant)
      /\ Nobody \notin Claimant
  BY MountpointAssumption DEF MPTypeOK
<1> USE <1>a DEF Moves, Goes, Sweeps, Fault, claimantVars, lockVars, dirVars,
    srvVars, reclaimVars, Joined, Forked
<1>1. ASSUME NEW l \in Claimant, OpenLock(l) PROVE Joined'
  BY <1>1 DEF OpenLock
<1>2. ASSUME NEW l \in Claimant, Claim(l) PROVE Joined'
  BY <1>2 DEF Claim, LockedAlone
<1>3. ASSUME NEW l \in Claimant, MakeDir(l) PROVE Joined'
  BY <1>3 DEF MakeDir
<1>4. ASSUME NEW l \in Claimant, RunPrivately(l) PROVE Joined'
  BY <1>4 DEF RunPrivately
<1>5. ASSUME NEW l \in Claimant, Reopen(l) PROVE Joined'
  BY <1>5 DEF Reopen
<1>6. ASSUME NEW l \in Claimant, LockToRemove(l) PROVE Joined'
  BY <1>6 DEF LockToRemove, MayRemove, Lockable, ClaimedShared, HoldsClaim,
    LockedAlone
<1>7. ASSUME NEW l \in Claimant, LeaveToOthers(l) PROVE Joined'
  BY <1>7 DEF LeaveToOthers, MayRemove, Lockable, ClaimedShared, HoldsClaim,
    LockedAlone
<1>8. ASSUME NEW l \in Claimant, RemoveOwnDir(l) PROVE Joined'
  BY <1>8 DEF RemoveOwnDir, RemoveDir, IsMountpoint
<1>9. ASSUME NEW l \in Claimant, Join(l) PROVE Joined'
  <2>1. Last(stack) \in Claimant /\ srv[Last(stack)] = "polling"
    BY <1>9, TopIsMounted DEF Join, Joins, Served, IsMountpoint, Answers
  <2> QED
    BY <1>9, <2>1 DEF Join
<1>10. ASSUME NEW l \in Claimant, FindUnserved(l) PROVE Joined'
  BY <1>10 DEF FindUnserved, Unserved, IsMountpoint, Connected
<1>11. ASSUME NEW l \in Claimant, LockCreating(l) PROVE Joined'
  BY <1>11 DEF LockCreating
<1>12. ASSUME NEW l \in Claimant, ForkServer(l) PROVE Joined'
  BY <1>12 DEF ForkServer, Unserved, IsMountpoint, Connected
<1>13. ASSUME NEW l \in Claimant, Extract(l) PROVE Joined'
  BY <1>13 DEF Extract, Unserved, IsMountpoint, Connected
<1>14. ASSUME NEW l \in Claimant, DropClaim(l) PROVE Joined'
  BY <1>14 DEF DropClaim
<1>15. ASSUME NEW l \in Claimant, CreateUnlocked(l) PROVE Joined'
  BY <1>15 DEF CreateUnlocked
<1>16. ASSUME NEW l \in Claimant, Exit(l) PROVE Joined'
  BY <1>16 DEF Exit
<1>17. ASSUME NEW l \in Claimant, KillClaimant(l) PROVE Joined'
  BY <1>17 DEF KillClaimant
<1>18. ASSUME NEW s \in Claimant, DropInherited(s) PROVE Joined'
  BY <1>18 DEF DropInherited
<1>19. ASSUME NEW s \in Claimant, Mount(s) PROVE Joined'
  BY <1>19 DEF Mount, Mountable, Served, IsMountpoint, Answers
<1>20. ASSUME NEW s \in Claimant, MountFails(s) PROVE Joined'
  BY <1>20 DEF MountFails, Mountable, Served, IsMountpoint, Answers, Refused,
    Unserved, Connected
<1>21. ASSUME NEW s \in Claimant, Serve(s) PROVE Joined'
  BY <1>21 DEF Serve
<1>22. ASSUME NEW s \in Claimant, LoadFails(s) PROVE Joined'
  BY <1>22 DEF LoadFails
<1>23. ASSUME NEW s \in Claimant, StopServing(s) PROVE Joined'
  BY <1>23 DEF StopServing, Unclaimed, Lockable, ClaimedShared, HoldsClaim,
    LockedAlone
<1>24. ASSUME NEW s \in Claimant, ConnectionGone(s) PROVE Joined'
  BY <1>24 DEF ConnectionGone
<1>25. ASSUME NEW s \in Claimant, TakeDown(s) PROVE Joined'
  BY <1>25 DEF TakeDown
<1>26. ASSUME NEW s \in Claimant, RemoveServedDir(s) PROVE Joined'
  BY <1>26 DEF RemoveServedDir, RemoveDir, IsMountpoint
<1>27. ASSUME NEW s \in Claimant, KillServer(s) PROVE Joined'
  BY <1>27 DEF KillServer
<1>28. ASSUME NEW g \in Reclaimer, SweepOpens(g) PROVE Joined'
  BY <1>28 DEF SweepOpens
<1>29. ASSUME NEW g \in Reclaimer, SweepLocks(g) PROVE Joined'
  BY <1>29 DEF SweepLocks, SweepMayTake, Lockable, ClaimedShared, HoldsClaim,
    LockedAlone
<1>30. ASSUME NEW g \in Reclaimer, SweepPasses(g) PROVE Joined'
  BY <1>30 DEF SweepPasses, SweepMayTake, Lockable, ClaimedShared, HoldsClaim,
    LockedAlone, Served, IsMountpoint, Answers
<1>31. ASSUME NEW g \in Reclaimer, SweepUnmounts(g) PROVE Joined'
  BY <1>31 DEF SweepUnmounts, Unserved, IsMountpoint, Connected
<1>32. ASSUME NEW g \in Reclaimer, SweepRemoves(g) PROVE Joined'
  BY <1>32 DEF SweepRemoves, RemoveDir, IsMountpoint
<1>33. ASSUME NEW g \in Reclaimer, OrphanOpens(g) PROVE Joined'
  BY <1>33 DEF OrphanOpens
<1>34. ASSUME NEW g \in Reclaimer, OrphanLocks(g) PROVE Joined'
  BY <1>34 DEF OrphanLocks, SweepMayTake, Lockable, ClaimedShared, HoldsClaim,
    LockedAlone
<1>35. ASSUME NEW g \in Reclaimer, OrphanUnlinks(g) PROVE Joined'
  BY <1>35 DEF OrphanUnlinks
<1>36. ASSUME GrowOld PROVE Joined'
  BY <1>36 DEF GrowOld, AtRest
<1>37. ASSUME CleanOut PROVE Joined'
  BY <1>37 DEF CleanOut
<1>38. CASE UNCHANGED mpVars
  BY <1>38 DEF mpVars
<1> QED
  BY <1>1, <1>2, <1>3, <1>4, <1>5, <1>6, <1>7, <1>8, <1>9, <1>10, <1>11, <1>12,
    <1>13, <1>14, <1>15, <1>16, <1>17, <1>18, <1>19, <1>20, <1>21, <1>22,
    <1>23, <1>24, <1>25, <1>26, <1>27, <1>28, <1>29, <1>30, <1>31, <1>32,
    <1>33, <1>34, <1>35, <1>36, <1>37, <1>38 DEF MPNext, ClaimantStep,
    ServerStep, ReclaimStep

\* A directory is removed under a lock no claimant allows.
LEMMA ClaimKeepsDirStep ==
  MPTypeOK /\ Inos /\ Excluded /\ Forked /\ NeverUnlocked /\ ClaimKeepsDir /\
    [MPNext]_mpVars => ClaimKeepsDir'
<1> SUFFICES ASSUME MPTypeOK /\ Inos /\ Excluded /\ Forked /\ NeverUnlocked /\ ClaimKeepsDir,
                [MPNext]_mpVars
         PROVE  ClaimKeepsDir'
  OBVIOUS
<1>a. /\ step \in [Claimant -> ClaimantPhase]
      /\ ino \in [Claimant -> Nat]
      /\ lockAt \in Nat /\ made \in Nat
      /\ srv \in [Claimant -> ServerPhase]
      /\ sw \in [Reclaimer -> ReclaimPhase]
      /\ swIno \in [Reclaimer -> Nat]
  BY MountpointAssumption DEF MPTypeOK
<1> USE <1>a DEF Moves, Goes, Sweeps, Fault, claimantVars, lockVars, dirVars,
    srvVars, reclaimVars, ClaimKeepsDir, OneLockFile, Uses
<1>1. ASSUME NEW l \in Claimant, OpenLock(l) PROVE ClaimKeepsDir'
  BY <1>1 DEF OpenLock
<1>2. ASSUME NEW l \in Claimant, Claim(l) PROVE ClaimKeepsDir'
  BY <1>2 DEF Claim, LockedAlone
<1>3. ASSUME NEW l \in Claimant, MakeDir(l) PROVE ClaimKeepsDir'
  BY <1>3 DEF MakeDir
<1>4. ASSUME NEW l \in Claimant, RunPrivately(l) PROVE ClaimKeepsDir'
  BY <1>4 DEF RunPrivately
<1>5. ASSUME NEW l \in Claimant, Reopen(l) PROVE ClaimKeepsDir'
  BY <1>5 DEF Reopen
<1>6. ASSUME NEW l \in Claimant, LockToRemove(l) PROVE ClaimKeepsDir'
  BY <1>6 DEF LockToRemove, MayRemove, Lockable, ClaimedShared, HoldsClaim,
    LockedAlone
<1>7. ASSUME NEW l \in Claimant, LeaveToOthers(l) PROVE ClaimKeepsDir'
  BY <1>7 DEF LeaveToOthers, MayRemove, Lockable, ClaimedShared, HoldsClaim,
    LockedAlone
<1>8. ASSUME NEW l \in Claimant, RemoveOwnDir(l) PROVE ClaimKeepsDir'
  <2>1. CASE IsMountpoint
    BY <1>8, <2>1 DEF RemoveOwnDir, RemoveDir, OneLockFile, Uses
  <2>2. CASE ~IsMountpoint
    <3>1. kind = "private" /\ OneLockFile => \A x \in Claimant : ~Uses(x)
      BY <1>8 DEF RemoveOwnDir, Excluded, HoldsClaim, LockedAlone, Inos, Forked, NeverUnlocked, OneLockFile, Uses
    <3> QED
      BY <1>8, <2>2, <3>1 DEF RemoveOwnDir, RemoveDir, OneLockFile, Uses
  <2> QED
    BY <2>1, <2>2
<1>9. ASSUME NEW l \in Claimant, Join(l) PROVE ClaimKeepsDir'
  BY <1>9 DEF Join, Joins, Served, IsMountpoint, Answers
<1>10. ASSUME NEW l \in Claimant, FindUnserved(l) PROVE ClaimKeepsDir'
  BY <1>10 DEF FindUnserved, Unserved, IsMountpoint, Connected
<1>11. ASSUME NEW l \in Claimant, LockCreating(l) PROVE ClaimKeepsDir'
  BY <1>11 DEF LockCreating
<1>12. ASSUME NEW l \in Claimant, ForkServer(l) PROVE ClaimKeepsDir'
  BY <1>12 DEF ForkServer, Unserved, IsMountpoint, Connected
<1>13. ASSUME NEW l \in Claimant, Extract(l) PROVE ClaimKeepsDir'
  BY <1>13 DEF Extract, Unserved, IsMountpoint, Connected
<1>14. ASSUME NEW l \in Claimant, DropClaim(l) PROVE ClaimKeepsDir'
  BY <1>14 DEF DropClaim
<1>15. ASSUME NEW l \in Claimant, CreateUnlocked(l) PROVE ClaimKeepsDir'
  BY <1>15 DEF CreateUnlocked
<1>16. ASSUME NEW l \in Claimant, Exit(l) PROVE ClaimKeepsDir'
  BY <1>16 DEF Exit
<1>17. ASSUME NEW l \in Claimant, KillClaimant(l) PROVE ClaimKeepsDir'
  BY <1>17 DEF KillClaimant
<1>18. ASSUME NEW s \in Claimant, DropInherited(s) PROVE ClaimKeepsDir'
  BY <1>18 DEF DropInherited
<1>19. ASSUME NEW s \in Claimant, Mount(s) PROVE ClaimKeepsDir'
  BY <1>19 DEF Mount, Mountable, Served, IsMountpoint, Answers
<1>20. ASSUME NEW s \in Claimant, MountFails(s) PROVE ClaimKeepsDir'
  BY <1>20 DEF MountFails, Mountable, Served, IsMountpoint, Answers, Refused,
    Unserved, Connected
<1>21. ASSUME NEW s \in Claimant, Serve(s) PROVE ClaimKeepsDir'
  BY <1>21 DEF Serve
<1>22. ASSUME NEW s \in Claimant, LoadFails(s) PROVE ClaimKeepsDir'
  BY <1>22 DEF LoadFails
<1>23. ASSUME NEW s \in Claimant, StopServing(s) PROVE ClaimKeepsDir'
  BY <1>23 DEF StopServing, Unclaimed, Lockable, ClaimedShared, HoldsClaim,
    LockedAlone
<1>24. ASSUME NEW s \in Claimant, ConnectionGone(s) PROVE ClaimKeepsDir'
  BY <1>24 DEF ConnectionGone
<1>25. ASSUME NEW s \in Claimant, TakeDown(s) PROVE ClaimKeepsDir'
  BY <1>25 DEF TakeDown
<1>26. ASSUME NEW s \in Claimant, RemoveServedDir(s) PROVE ClaimKeepsDir'
  BY <1>26 DEF RemoveServedDir, Forked
<1>27. ASSUME NEW s \in Claimant, KillServer(s) PROVE ClaimKeepsDir'
  BY <1>27 DEF KillServer
<1>28. ASSUME NEW g \in Reclaimer, SweepOpens(g) PROVE ClaimKeepsDir'
  BY <1>28 DEF SweepOpens
<1>29. ASSUME NEW g \in Reclaimer, SweepLocks(g) PROVE ClaimKeepsDir'
  BY <1>29 DEF SweepLocks, SweepMayTake, Lockable, ClaimedShared, HoldsClaim,
    LockedAlone
<1>30. ASSUME NEW g \in Reclaimer, SweepPasses(g) PROVE ClaimKeepsDir'
  BY <1>30 DEF SweepPasses, SweepMayTake, Lockable, ClaimedShared, HoldsClaim,
    LockedAlone, Served, IsMountpoint, Answers
<1>31. ASSUME NEW g \in Reclaimer, SweepUnmounts(g) PROVE ClaimKeepsDir'
  BY <1>31 DEF SweepUnmounts, Unserved, IsMountpoint, Connected
<1>32. ASSUME NEW g \in Reclaimer, SweepRemoves(g) PROVE ClaimKeepsDir'
  <2>1. CASE IsMountpoint
    BY <1>32, <2>1 DEF SweepRemoves, RemoveDir, OneLockFile, Uses
  <2>2. CASE ~IsMountpoint
    <3>1. kind = "private" /\ OneLockFile => \A x \in Claimant : ~Uses(x)
      BY <1>32 DEF SweepRemoves, Excluded, HoldsClaim, LockedAlone, Inos, Forked, NeverUnlocked, OneLockFile, Uses
    <3> QED
      BY <1>32, <2>2, <3>1 DEF SweepRemoves, RemoveDir, OneLockFile, Uses
  <2> QED
    BY <2>1, <2>2
<1>33. ASSUME NEW g \in Reclaimer, OrphanOpens(g) PROVE ClaimKeepsDir'
  BY <1>33 DEF OrphanOpens
<1>34. ASSUME NEW g \in Reclaimer, OrphanLocks(g) PROVE ClaimKeepsDir'
  BY <1>34 DEF OrphanLocks, SweepMayTake, Lockable, ClaimedShared, HoldsClaim,
    LockedAlone
<1>35. ASSUME NEW g \in Reclaimer, OrphanUnlinks(g) PROVE ClaimKeepsDir'
  <2>1. made \in Nat \ {0} /\ made' = made /\ lockAt' = 0
    BY <1>35 DEF OrphanUnlinks, Inos
  <2> QED
    BY <2>1
<1>36. ASSUME GrowOld PROVE ClaimKeepsDir'
  BY <1>36 DEF GrowOld, AtRest
<1>37. ASSUME CleanOut PROVE ClaimKeepsDir'
  <2>1. made \in Nat \ {0} /\ made' = made /\ lockAt' = 0
    BY <1>37 DEF CleanOut, Inos
  <2> QED
    BY <2>1
<1>38. CASE UNCHANGED mpVars
  BY <1>38 DEF mpVars
<1> QED
  BY <1>1, <1>2, <1>3, <1>4, <1>5, <1>6, <1>7, <1>8, <1>9, <1>10, <1>11, <1>12,
    <1>13, <1>14, <1>15, <1>16, <1>17, <1>18, <1>19, <1>20, <1>21, <1>22,
    <1>23, <1>24, <1>25, <1>26, <1>27, <1>28, <1>29, <1>30, <1>31, <1>32,
    <1>33, <1>34, <1>35, <1>36, <1>37, <1>38 DEF MPNext, ClaimantStep,
    ServerStep, ReclaimStep

\* A server that answered finds the claim of whoever runs.
LEMMA ServerStaysStep ==
  MPTypeOK /\ Inos /\ Forked /\ Joined /\ ServerStays /\ [MPNext]_mpVars =>
    ServerStays'
<1> SUFFICES ASSUME MPTypeOK /\ Inos /\ Forked /\ Joined /\ ServerStays,
                [MPNext]_mpVars
         PROVE  ServerStays'
  OBVIOUS
<1>a. /\ step \in [Claimant -> ClaimantPhase]
      /\ ino \in [Claimant -> Nat]
      /\ at \in [Claimant -> Claimant \cup {Nobody}]
      /\ lockAt \in Nat /\ made \in Nat
      /\ srv \in [Claimant -> ServerPhase]
      /\ first \in [Claimant -> Nat]
      /\ stack \in Seq(Claimant)
      /\ Nobody \notin Claimant
  BY MountpointAssumption DEF MPTypeOK
<1> USE <1>a DEF Moves, Goes, Sweeps, Fault, claimantVars, lockVars, dirVars,
    srvVars, reclaimVars, ServerStays
<1>1. ASSUME NEW l \in Claimant, OpenLock(l) PROVE ServerStays'
  BY <1>1 DEF OpenLock
<1>2. ASSUME NEW l \in Claimant, Claim(l) PROVE ServerStays'
  BY <1>2 DEF Claim, LockedAlone
<1>3. ASSUME NEW l \in Claimant, MakeDir(l) PROVE ServerStays'
  BY <1>3 DEF MakeDir
<1>4. ASSUME NEW l \in Claimant, RunPrivately(l) PROVE ServerStays'
  BY <1>4 DEF RunPrivately
<1>5. ASSUME NEW l \in Claimant, Reopen(l) PROVE ServerStays'
  BY <1>5 DEF Reopen
<1>6. ASSUME NEW l \in Claimant, LockToRemove(l) PROVE ServerStays'
  BY <1>6 DEF LockToRemove, MayRemove, Lockable, ClaimedShared, HoldsClaim,
    LockedAlone
<1>7. ASSUME NEW l \in Claimant, LeaveToOthers(l) PROVE ServerStays'
  BY <1>7 DEF LeaveToOthers, MayRemove, Lockable, ClaimedShared, HoldsClaim,
    LockedAlone
<1>8. ASSUME NEW l \in Claimant, RemoveOwnDir(l) PROVE ServerStays'
  BY <1>8 DEF RemoveOwnDir, RemoveDir, IsMountpoint
<1>9. ASSUME NEW l \in Claimant, Join(l) PROVE ServerStays'
  BY <1>9 DEF Join, Joins, Served, IsMountpoint, Answers
<1>10. ASSUME NEW l \in Claimant, FindUnserved(l) PROVE ServerStays'
  BY <1>10 DEF FindUnserved, Unserved, IsMountpoint, Connected
<1>11. ASSUME NEW l \in Claimant, LockCreating(l) PROVE ServerStays'
  BY <1>11 DEF LockCreating
<1>12. ASSUME NEW l \in Claimant, ForkServer(l) PROVE ServerStays'
  <2>1. srv[l] = "none"
    BY <1>12 DEF ForkServer, Forked
  <2>2. kind = "set" => \A x \in Claimant : step[x] = "running" => at[x] # l
    BY <2>1 DEF Joined
  <2> QED
    BY <1>12, <2>2 DEF ForkServer
<1>13. ASSUME NEW l \in Claimant, Extract(l) PROVE ServerStays'
  BY <1>13 DEF Extract, Unserved, IsMountpoint, Connected
<1>14. ASSUME NEW l \in Claimant, DropClaim(l) PROVE ServerStays'
  BY <1>14 DEF DropClaim
<1>15. ASSUME NEW l \in Claimant, CreateUnlocked(l) PROVE ServerStays'
  BY <1>15 DEF CreateUnlocked
<1>16. ASSUME NEW l \in Claimant, Exit(l) PROVE ServerStays'
  BY <1>16 DEF Exit
<1>17. ASSUME NEW l \in Claimant, KillClaimant(l) PROVE ServerStays'
  BY <1>17 DEF KillClaimant
<1>18. ASSUME NEW s \in Claimant, DropInherited(s) PROVE ServerStays'
  BY <1>18 DEF DropInherited
<1>19. ASSUME NEW s \in Claimant, Mount(s) PROVE ServerStays'
  <2>1. srv[s] = "loose"
    BY <1>19 DEF Mount
  <2>2. kind = "set" => \A x \in Claimant : step[x] = "running" => at[x] # s
    BY <2>1 DEF Joined
  <2>3. Range(stack') = Range(stack) \cup {s}
    BY <1>19, MountedOnTop DEF Mount
  <2> QED
    BY <1>19, <2>2, <2>3 DEF Mount
<1>20. ASSUME NEW s \in Claimant, MountFails(s) PROVE ServerStays'
  BY <1>20 DEF MountFails, Mountable, Served, IsMountpoint, Answers, Refused,
    Unserved, Connected
<1>21. ASSUME NEW s \in Claimant, Serve(s) PROVE ServerStays'
  BY <1>21 DEF Serve
<1>22. ASSUME NEW s \in Claimant, LoadFails(s) PROVE ServerStays'
  BY <1>22 DEF LoadFails
<1>23. ASSUME NEW s \in Claimant, StopServing(s) PROVE ServerStays'
  <2> SUFFICES ASSUME NEW l \in Claimant, kind' = "set", step'[l] = "running",
                      at'[l] \in Range(stack'), made' <= 1, first'[at'[l]] = ino'[l]
               PROVE  srv'[at'[l]] \in {"polling", "killed"}
    OBVIOUS
  <2>1. /\ kind = "set" /\ step[l] = "running" /\ at[l] \in Range(stack) /\ made <= 1
        /\ first[at[l]] = ino[l] /\ at' = at
        /\ srv[s] = "polling" /\ srv' = [srv EXCEPT ![s] = "leaving"]
    BY <1>23 DEF StopServing
  <2>2. ClaimedShared(ino[l])
    BY <2>1 DEF ClaimedShared, HoldsClaim
  <2>6. ino[l] \in 1..made /\ lockAt \in Nat /\ lockAt <= made /\ made \in Nat
    BY <2>1 DEF Inos
  <2>3. ino[l] = 1 /\ lockAt \in {0, 1}
    BY <2>1, <2>6
  <2>4. CASE at[l] = s
    BY <1>23, <2>1, <2>2, <2>3, <2>4 DEF StopServing, Unclaimed, Lockable
  <2>5. CASE at[l] # s
    BY <2>1, <2>5 DEF Joined
  <2> QED
    BY <2>4, <2>5
<1>24. ASSUME NEW s \in Claimant, ConnectionGone(s) PROVE ServerStays'
  BY <1>24 DEF ConnectionGone
<1>25. ASSUME NEW s \in Claimant, TakeDown(s) PROVE ServerStays'
  <2>1. Range(stack') \subseteq Range(stack)
    BY <1>25, RestIsMounted DEF TakeDown, UnmountPath, IsMountpoint
  <2> QED
    BY <1>25, <2>1 DEF TakeDown, Joined
<1>26. ASSUME NEW s \in Claimant, RemoveServedDir(s) PROVE ServerStays'
  BY <1>26 DEF RemoveServedDir, RemoveDir, IsMountpoint
<1>27. ASSUME NEW s \in Claimant, KillServer(s) PROVE ServerStays'
  BY <1>27 DEF KillServer
<1>28. ASSUME NEW g \in Reclaimer, SweepOpens(g) PROVE ServerStays'
  BY <1>28 DEF SweepOpens
<1>29. ASSUME NEW g \in Reclaimer, SweepLocks(g) PROVE ServerStays'
  BY <1>29 DEF SweepLocks, SweepMayTake, Lockable, ClaimedShared, HoldsClaim,
    LockedAlone
<1>30. ASSUME NEW g \in Reclaimer, SweepPasses(g) PROVE ServerStays'
  BY <1>30 DEF SweepPasses, SweepMayTake, Lockable, ClaimedShared, HoldsClaim,
    LockedAlone, Served, IsMountpoint, Answers
<1>31. ASSUME NEW g \in Reclaimer, SweepUnmounts(g) PROVE ServerStays'
  <2>1. Range(stack') \subseteq Range(stack)
    BY <1>31, RestIsMounted DEF SweepUnmounts, UnmountPath, IsMountpoint
  <2> QED
    BY <1>31, <2>1 DEF SweepUnmounts
<1>32. ASSUME NEW g \in Reclaimer, SweepRemoves(g) PROVE ServerStays'
  BY <1>32 DEF SweepRemoves, RemoveDir, IsMountpoint
<1>33. ASSUME NEW g \in Reclaimer, OrphanOpens(g) PROVE ServerStays'
  BY <1>33 DEF OrphanOpens
<1>34. ASSUME NEW g \in Reclaimer, OrphanLocks(g) PROVE ServerStays'
  BY <1>34 DEF OrphanLocks, SweepMayTake, Lockable, ClaimedShared, HoldsClaim,
    LockedAlone
<1>35. ASSUME NEW g \in Reclaimer, OrphanUnlinks(g) PROVE ServerStays'
  BY <1>35 DEF OrphanUnlinks
<1>36. ASSUME GrowOld PROVE ServerStays'
  BY <1>36 DEF GrowOld, AtRest
<1>37. ASSUME CleanOut PROVE ServerStays'
  BY <1>37 DEF CleanOut
<1>38. CASE UNCHANGED mpVars
  BY <1>38 DEF mpVars
<1> QED
  BY <1>1, <1>2, <1>3, <1>4, <1>5, <1>6, <1>7, <1>8, <1>9, <1>10, <1>11, <1>12,
    <1>13, <1>14, <1>15, <1>16, <1>17, <1>18, <1>19, <1>20, <1>21, <1>22,
    <1>23, <1>24, <1>25, <1>26, <1>27, <1>28, <1>29, <1>30, <1>31, <1>32,
    <1>33, <1>34, <1>35, <1>36, <1>37, <1>38 DEF MPNext, ClaimantStep,
    ServerStep, ReclaimStep

-----------------------------------------------------------------------------
\* The invariant holds before anybody claims the name.
LEMMA Initially == MPInit => IInv
<1> SUFFICES ASSUME MPInit PROVE IInv
  OBVIOUS
<1> USE MountpointAssumption DEF MPInit
<1>1. /\ step = [l \in Claimant |-> "start"] /\ srv = [l \in Claimant |-> "none"]
      /\ sw = [g \in Reclaimer |-> "idle"] /\ dir = FALSE
      /\ lockAt = made /\ made \in 0..MaxIno
  OBVIOUS
<1>2. MPTypeOK
  <2>1. lockOld \in BOOLEAN /\ dir \in BOOLEAN /\ dirOld \in BOOLEAN
    OBVIOUS
  <2>2. stack \in Seq(Claimant)
    OBVIOUS
  <2>3. /\ kind \in Kinds /\ creating = {} /\ here = {}
        /\ step \in [Claimant -> ClaimantPhase] /\ ino \in [Claimant -> 0..MaxIno]
        /\ at \in [Claimant -> Claimant \cup {Nobody}]
        /\ srv \in [Claimant -> ServerPhase] /\ first \in [Claimant -> 0..MaxIno]
        /\ sw \in [Reclaimer -> ReclaimPhase] /\ swIno \in [Reclaimer -> 0..MaxIno]
        /\ faults \in 0..MaxFaults
    BY DEF ClaimantPhase, ServerPhase, ReclaimPhase
  <2> QED
    BY <1>1, <2>1, <2>2, <2>3 DEF MPTypeOK
<1>3. Inos /\ Excluded /\ Forked /\ NeverUnlocked /\ Joined
  BY <1>1 DEF Inos, Excluded, HoldsClaim, Forked, NeverUnlocked, Joined
<1>4. ClaimKeepsDir /\ ServerStays
  BY <1>1 DEF ClaimKeepsDir, Uses, ServerStays
<1> QED
  BY <1>2, <1>3, <1>4 DEF IInv

\* It is kept by every step.
LEMMA Inductive == IInv /\ [MPNext]_mpVars => IInv'
<1> QED
  BY TypesStep, InosStep, ExcludedStep, ForkedStep, NeverUnlockedStep, JoinedStep,
     ClaimKeepsDirStep, ServerStaysStep DEF IInv

\* The invariant holds throughout.
LEMMA Invariance == MPSpec => []IInv
<1> QED
  BY Initially, Inductive, PTL DEF MPSpec

-----------------------------------------------------------------------------
\* Every variable keeps its type, and only a launch that creates a set, or the
\* server it has just forked, holds the creation lock.
THEOREM TypesHold == MPSpec => []MPTypeOK
<1>1. IInv => MPTypeOK
  BY DEF IInv
<1> QED
  BY <1>1, Invariance, PTL

\* No sweep and no other launch takes a directory away from a launch that claimed
\* it, as long as its lock file stays.
THEOREM ClaimsKeepDirs == MPSpec => []ClaimKeepsDir
<1>1. IInv => ClaimKeepsDir
  BY DEF IInv
<1> QED
  BY <1>1, Invariance, PTL

\* The server behind a mount somebody runs from goes on serving it, or was killed.
THEOREM ServersStay == MPSpec => []ServerStays
<1>1. IInv => ServerStays
  BY DEF IInv
<1> QED
  BY <1>1, Invariance, PTL
=============================================================================
