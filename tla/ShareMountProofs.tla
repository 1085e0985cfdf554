--------------------------- MODULE ShareMountProofs ---------------------------
(***************************************************************************)
(* Theorems about ShareMount, for any launches, packages, modes, attempts, *)
(* record files and faults.                                                *)
(*                                                                         *)
(* The argument runs from the locks outwards.  The record lock admits one  *)
(* holder per file (RecordLock), a launch or server that may decide holds  *)
(* the file at the path and a server that wrote its record is named there  *)
(* (RecordAtPath).  While every record was written, at most one launch     *)
(* creates or serves (OneActive), so nobody takes down a mount but the one *)
(* who made it (MountMade); and a server that holds the lease alone and    *)
(* finds nobody in /proc has no launch left (LeaseLock, Phases).  With     *)
(* what that says of the mount of each launch every step is one that       *)
(* MountLifetime allows.                                                   *)
(***************************************************************************)
EXTENDS ShareMount, TLAPS

\* Types, and the attempts a launch that is still trying has left.
Typed == TypeOK

\* A record file is locked by one launch's descriptor, one server or one sweep.
RecordLock ==
  /\ \A l, m \in Launch :
       recFds[l] # {} /\ recFds[m] # {} /\ ino[l] = ino[m] => l = m
  /\ \A l, s \in Launch :
       recFds[l] # {} /\ HoldsRecord(s) => ino[l] # ino[s]
  /\ \A s, t \in Launch :
       HoldsRecord(s) /\ HoldsRecord(t) /\ ino[s] = ino[t] => s = t
  /\ \A l \in Launch : recFds[l] # {} \/ HoldsRecord(l) => ino[l] # sweep \/ sweep = 0

\* A server holds its lease exclusively only while no launch shares it.
LeaseLock == \A s \in Launch : HoldsLease(s) => LeaseUnshared(s)

\* What each phase of a launch and of its application implies.
Phases ==
  \A l \in Launch :
    /\ pc[l] \in {"start", "opened"} => recFds[l] = {}
    /\ pc[l] \in {"locked", "leased", "mounted", "leaseMade"} => "launch" \in recFds[l]
    /\ pc[l] \in {"leased", "joining", "entered", "leaseMade", "served"}
         => "launch" \in leaseFds[l]
    /\ pc[l] = "leaseMade" => leaseOn[l] = l
    /\ srv[l] # "none" =>
         /\ pc[l] \in {"served", "running", "failed", "killed"}
         /\ at[l] = l /\ leaseOn[l] = l
    /\ app[l] # "none" => pc[l] = "running"
    /\ app[l] = "starting" => "app" \in leaseFds[l]

\* Record files are numbered as they are created.
Numbered ==
  /\ recAt <= made /\ sweep <= made
  /\ \A l \in Launch : ino[l] <= made /\ (pc[l] # "start" => ino[l] # 0)

\* A launch that has mounted and not yet handed over, or a running server.
Active(s) == pc[s] \in {"mounted", "leaseMade"} \/ Live(s)
OneActive == \A s, t \in Launch : Active(s) /\ Active(t) => s = t

\* Whoever may decide about the record holds the file at the path, and the file
\* names a running server from the moment the server has written it; whoever is
\* about to serve, and a sweep, holds one that names nobody running.
RecordAtPath ==
  /\ \A l \in Launch : pc[l] \in {"locked", "mounted", "leaseMade"} => ino[l] = recAt
  /\ \A s \in Launch : srv[s] = "born" => ino[s] = recAt /\ "server" \in recFds[s]
  /\ \A s \in Launch \ unwritten :
       Live(s) /\ srv[s] # "born" => ino[s] = recAt /\ names[ino[s]] = s
  /\ \A l \in Launch :
       pc[l] \in {"mounted", "leaseMade"} \/ srv[l] = "born" => ~Live(names[ino[l]])
  /\ \A i \in Ino : names[i] # Nobody => srv[names[i]] # "none"
  /\ sweep # 0 => sweep = recAt /\ ~Live(names[sweep])

\* The shared path shows what the helper mounted there; a mount just made is in
\* place; a tenant's mount has had a server.
MountMade ==
  /\ hostMount # Nobody => mode[hostMount] = "host"
  /\ \A l \in Launch : pc[l] \in {"mounted", "leaseMade"} /\ l \notin lost => Mounted(l)
  /\ \A l \in Launch :
       InMount(l) /\ leaseOn[l] = at[l] => at[l] \in Launch /\ srv[at[l]] # "none"

\* The inductive invariant.
IInv ==
  /\ Typed /\ RecordLock /\ LeaseLock /\ Phases /\ Numbered /\ RecordAtPath
  /\ unwritten = {} => OneActive /\ MountMade /\ NoPullout

-----------------------------------------------------------------------------
\* Every step keeps the types and the attempts left.
LEMMA TypedStep ==
  Typed /\ [Next]_vars => Typed'
<1> SUFFICES ASSUME Typed, [Next]_vars PROVE Typed'
  OBVIOUS
<1> USE ShareMountAssumption DEF Typed, TypeOK, LaunchPhase, ServerPhase
<1>1. ASSUME NEW l \in Launch, OpenRecord(l) PROVE Typed'
  BY <1>1 DEF OpenRecord, launchVars, fileVars, mountVars
<1>2. ASSUME NEW l \in Launch, LockRecord(l) PROVE Typed'
  BY <1>2 DEF LockRecord, launchVars, fileVars, mountVars
<1>3. ASSUME NEW l \in Launch, RecordRemoved(l) PROVE Typed'
  BY <1>3 DEF RecordRemoved, RetriesLeft, launchVars, fileVars, mountVars
<1>4. ASSUME NEW l \in Launch, TakeLease(l) PROVE Typed'
  BY <1>4 DEF TakeLease, Joinable, Live, launchVars, fileVars, mountVars
<1>5. ASSUME NEW l \in Launch, DropRecord(l) PROVE Typed'
  BY <1>5 DEF DropRecord, launchVars, fileVars, mountVars
<1>6. ASSUME NEW l \in Launch, Enter(l) PROVE Typed'
  BY <1>6 DEF Enter, launchVars, fileVars, mountVars
<1>7. ASSUME NEW l \in Launch, Decline(l) PROVE Typed'
  BY <1>7 DEF Decline, GiveUp, launchVars, fileVars, mountVars
<1>8. ASSUME NEW l \in Launch, DeclineStranger(l) PROVE Typed'
  BY <1>8 DEF DeclineStranger, GiveUp, launchVars, fileVars, mountVars
<1>9. ASSUME NEW l \in Launch, NEW m \in Modes, Mount(l, m) PROVE Typed'
  BY <1>9 DEF Mount, launchVars, fileVars, mountVars
<1>10. ASSUME NEW l \in Launch, Unmountable(l) PROVE Typed'
  BY <1>10 DEF Unmountable, GiveUp, launchVars, fileVars, mountVars
<1>11. ASSUME NEW l \in Launch, MakeLease(l) PROVE Typed'
  BY <1>11 DEF MakeLease, LeaseFile, launchVars, fileVars, mountVars
<1>12. ASSUME NEW l \in Launch, CreateFails(l) PROVE Typed'
  BY <1>12 DEF CreateFails, CleanUpMountpoint, GiveUp, launchVars, fileVars, mountVars
<1>13. ASSUME NEW l \in Launch, ForkServer(l) PROVE Typed'
  BY <1>13 DEF ForkServer, launchVars, fileVars, mountVars
<1>14. ASSUME NEW l \in Launch, Spawn(l) PROVE Typed'
  BY <1>14 DEF Spawn, RecordFdsAfterSpawn, launchVars, fileVars, mountVars
<1>15. ASSUME NEW l \in Launch, SpawnFails(l) PROVE Typed'
  BY <1>15 DEF SpawnFails, launchVars, fileVars, mountVars
<1>16. ASSUME NEW l \in Launch, Exec(l) PROVE Typed'
  BY <1>16 DEF Exec, launchVars, fileVars, mountVars
<1>17. ASSUME NEW l \in Launch, AppExits(l) PROVE Typed'
  BY <1>17 DEF AppExits, launchVars, fileVars, mountVars
<1>18. ASSUME NEW l \in Launch, GuardianReleases(l) PROVE Typed'
  BY <1>18 DEF GuardianReleases, launchVars, fileVars, mountVars
<1>19. ASSUME NEW l \in Launch, AppCloses(l) PROVE Typed'
  BY <1>19 DEF AppCloses, launchVars, fileVars, mountVars
<1>20. ASSUME NEW l \in Launch, WriteRecord(l) PROVE Typed'
  <2>1. names' \in {names, [names EXCEPT ![ino[l]] = l], [names EXCEPT ![ino[l]] = Nobody]}
    BY <1>20 DEF WriteRecord
  <2>2. names' \in [Ino -> Launch \cup {Nobody}]
    BY <2>1
  <2>3. QED
    BY <1>20, <2>2 DEF WriteRecord, Fault, Goes, mountVars
<1>21. ASSUME NEW l \in Launch, StartPolling(l) PROVE Typed'
  BY <1>21 DEF StartPolling, Goes, Quiet, launchVars, fileVars, mountVars
<1>22. ASSUME NEW l \in Launch, ProbeLease(l) PROVE Typed'
  BY <1>22 DEF ProbeLease, Goes, Quiet, launchVars, fileVars, mountVars
<1>23. ASSUME NEW l \in Launch, ProbeRecord(l) PROVE Typed'
  BY <1>23 DEF ProbeRecord, Goes, Quiet, launchVars, fileVars, mountVars
<1>24. ASSUME NEW l \in Launch, RecordBusy(l) PROVE Typed'
  BY <1>24 DEF RecordBusy, Goes, Quiet, launchVars, fileVars, mountVars
<1>25. ASSUME NEW l \in Launch, StillUsed(l) PROVE Typed'
  BY <1>25 DEF StillUsed, Goes, Quiet, launchVars, fileVars, mountVars
<1>26. ASSUME NEW l \in Launch, Settle(l) PROVE Typed'
  BY <1>26 DEF Settle, Goes, Quiet, launchVars, fileVars, mountVars
<1>27. ASSUME NEW l \in Launch, MountLost(l) PROVE Typed'
  BY <1>27 DEF MountLost, Goes, Quiet, launchVars, fileVars, mountVars
<1>28. ASSUME NEW l \in Launch, Relock(l) PROVE Typed'
  BY <1>28 DEF Relock, Goes, Quiet, launchVars, fileVars, mountVars
<1>29. ASSUME NEW l \in Launch, Unmount(l) PROVE Typed'
  BY <1>29 DEF Unmount, Goes, launchVars, fileVars, mountVars
<1>30. ASSUME NEW l \in Launch, Leave(l) PROVE Typed'
  BY <1>30 DEF Leave, RemoveOwnFiles, Goes, launchVars, fileVars, mountVars
<1>31. ASSUME NEW l \in Launch, KillServer(l) PROVE Typed'
  BY <1>31 DEF KillServer, Fault, launchVars, fileVars, mountVars
<1>32. ASSUME NEW l \in Launch, KillGuardian(l) PROVE Typed'
  BY <1>32 DEF KillGuardian, Fault, launchVars, fileVars, mountVars
<1>33. ASSUME NEW l \in Launch, KillLaunch(l) PROVE Typed'
  BY <1>33 DEF KillLaunch, Fault, launchVars, fileVars, mountVars
<1>34. ASSUME NEW l \in Launch, ForcedUnmount(l) PROVE Typed'
  BY <1>34 DEF ForcedUnmount, Fault, launchVars, fileVars, mountVars
<1>35. ASSUME SweepLocks PROVE Typed'
  BY <1>35 DEF SweepLocks, launchVars, fileVars, mountVars
<1>36. ASSUME SweepRemoves PROVE Typed'
  BY <1>36 DEF SweepRemoves, launchVars, fileVars, mountVars
<1>37. CASE UNCHANGED vars
  BY <1>37 DEF vars, launchVars, fileVars, mountVars
<1>38. QED
  BY <1>1, <1>2, <1>3, <1>4, <1>5, <1>6, <1>7, <1>8, <1>9, <1>10, <1>11,
      <1>12, <1>13, <1>14, <1>15, <1>16, <1>17, <1>18, <1>19, <1>20, <1>21,
      <1>22, <1>23, <1>24, <1>25, <1>26, <1>27, <1>28, <1>29, <1>30, <1>31,
      <1>32, <1>33, <1>34, <1>35, <1>36, <1>37 DEF Next, LaunchStep, AppStep,
      ServerStep, FaultStep

\* A step that locks a record finds it free; the others pass the lock on within one
\* launch, to its server and its application, or let it go.
LEMMA RecordLockStep ==
  Typed /\ RecordLock /\ Phases /\ [Next]_vars => RecordLock'
<1> SUFFICES ASSUME Typed, RecordLock, Phases, [Next]_vars PROVE RecordLock'
  OBVIOUS
<1> USE ShareMountAssumption DEF Typed, TypeOK, RecordLock, Phases,
    HoldsRecord
<1>1. ASSUME NEW l \in Launch, OpenRecord(l) PROVE RecordLock'
  <2>1. recFds[l] = {} /\ ~HoldsRecord(l)
    BY <1>1 DEF OpenRecord
  <2>2. UNCHANGED <<recFds, srv, sweep>> /\ \A k \in Launch \ {l} : ino'[k] = ino[k]
    BY <1>1 DEF OpenRecord
  <2>3. QED
    BY <2>1, <2>2
<1>2. ASSUME NEW l \in Launch, LockRecord(l) PROVE RecordLock'
  BY <1>2, SMTT(60) DEF LockRecord, launchVars, fileVars, mountVars, RecordFree
<1>3. ASSUME NEW l \in Launch, DropRecord(l) PROVE RecordLock'
  BY <1>3 DEF DropRecord, launchVars, fileVars, mountVars
<1>4. ASSUME NEW l \in Launch, Decline(l) PROVE RecordLock'
  BY <1>4 DEF Decline, GiveUp, launchVars, fileVars, mountVars
<1>5. ASSUME NEW l \in Launch, DeclineStranger(l) PROVE RecordLock'
  BY <1>5 DEF DeclineStranger, GiveUp, launchVars, fileVars, mountVars
<1>6. ASSUME NEW l \in Launch, Unmountable(l) PROVE RecordLock'
  BY <1>6 DEF Unmountable, GiveUp, launchVars, fileVars, mountVars
<1>7. ASSUME NEW l \in Launch, CreateFails(l) PROVE RecordLock'
  BY <1>7 DEF CreateFails, CleanUpMountpoint, GiveUp, launchVars, fileVars, mountVars
<1>8. ASSUME NEW l \in Launch, ForkServer(l) PROVE RecordLock'
  BY <1>8 DEF ForkServer, launchVars, fileVars, mountVars
<1>9. ASSUME NEW l \in Launch, Spawn(l) PROVE RecordLock'
  BY <1>9 DEF Spawn, RecordFdsAfterSpawn, launchVars, fileVars, mountVars
<1>10. ASSUME NEW l \in Launch, SpawnFails(l) PROVE RecordLock'
  BY <1>10 DEF SpawnFails, launchVars, fileVars, mountVars
<1>11. ASSUME NEW l \in Launch, RecordRemoved(l) \/ TakeLease(l) \/ Enter(l)
             \/ (\E m \in Modes : Mount(l, m)) \/ MakeLease(l) PROVE
             RecordLock'
  BY <1>11 DEF RecordRemoved, RetriesLeft, TakeLease, Joinable, Live, Enter,
      Mount, MakeLease, LeaseFile, launchVars, fileVars, mountVars
<1>12. ASSUME NEW l \in Launch, Exec(l) PROVE RecordLock'
  BY <1>12 DEF Exec, launchVars, fileVars, mountVars
<1>13. ASSUME NEW l \in Launch, AppExits(l) PROVE RecordLock'
  BY <1>13 DEF AppExits, launchVars, fileVars, mountVars
<1>14. ASSUME NEW l \in Launch, GuardianReleases(l) \/ AppCloses(l) PROVE
             RecordLock'
  BY <1>14 DEF GuardianReleases, AppCloses, launchVars, fileVars, mountVars
<1>15. ASSUME NEW l \in Launch, WriteRecord(l) PROVE RecordLock'
  BY <1>15 DEF WriteRecord, Fault, Goes, launchVars, fileVars, mountVars
<1>16. ASSUME NEW l \in Launch, StartPolling(l) PROVE RecordLock'
  BY <1>16 DEF StartPolling, Goes, Quiet, launchVars, fileVars, mountVars
<1>17. ASSUME NEW l \in Launch, ProbeLease(l) PROVE RecordLock'
  BY <1>17 DEF ProbeLease, Goes, Quiet, launchVars, fileVars, mountVars
<1>18. ASSUME NEW l \in Launch, ProbeRecord(l) PROVE RecordLock'
  BY <1>18 DEF ProbeRecord, Goes, Quiet, launchVars, fileVars, mountVars,
      RecordFree
<1>19. ASSUME NEW l \in Launch, RecordBusy(l) PROVE RecordLock'
  BY <1>19 DEF RecordBusy, Goes, Quiet, launchVars, fileVars, mountVars
<1>20. ASSUME NEW l \in Launch, StillUsed(l) PROVE RecordLock'
  BY <1>20 DEF StillUsed, Goes, Quiet, launchVars, fileVars, mountVars
<1>21. ASSUME NEW l \in Launch, Settle(l) PROVE RecordLock'
  BY <1>21 DEF Settle, Goes, Quiet, launchVars, fileVars, mountVars
<1>22. ASSUME NEW l \in Launch, MountLost(l) PROVE RecordLock'
  BY <1>22 DEF MountLost, Goes, Quiet, launchVars, fileVars, mountVars
<1>23. ASSUME NEW l \in Launch, Relock(l) PROVE RecordLock'
  BY <1>23 DEF Relock, Goes, Quiet, launchVars, fileVars, mountVars,
      RecordFree
<1>24. ASSUME NEW l \in Launch, Unmount(l) PROVE RecordLock'
  BY <1>24 DEF Unmount, Goes, launchVars, fileVars, mountVars
<1>25. ASSUME NEW l \in Launch, Leave(l) PROVE RecordLock'
  BY <1>25 DEF Leave, RemoveOwnFiles, Goes, launchVars, fileVars, mountVars
<1>26. ASSUME NEW l \in Launch, KillServer(l) PROVE RecordLock'
  BY <1>26 DEF KillServer, Fault, launchVars, fileVars, mountVars
<1>27. ASSUME NEW l \in Launch, KillLaunch(l) PROVE RecordLock'
  BY <1>27 DEF KillLaunch, Fault, launchVars, fileVars, mountVars
<1>28. ASSUME NEW l \in Launch, KillGuardian(l) \/ ForcedUnmount(l) PROVE
             RecordLock'
  BY <1>28 DEF KillGuardian, Fault, ForcedUnmount, launchVars, fileVars,
      mountVars
<1>29. ASSUME SweepLocks PROVE RecordLock'
  BY <1>29 DEF SweepLocks, launchVars, fileVars, mountVars, RecordFree
<1>30. ASSUME SweepRemoves PROVE RecordLock'
  BY <1>30 DEF SweepRemoves, launchVars, fileVars, mountVars
<1>31. CASE UNCHANGED vars
  BY <1>31 DEF vars, launchVars, fileVars, mountVars
<1>32. QED
  BY <1>1, <1>2, <1>3, <1>4, <1>5, <1>6, <1>7, <1>8, <1>9, <1>10, <1>11,
      <1>12, <1>13, <1>14, <1>15, <1>16, <1>17, <1>18, <1>19, <1>20, <1>21,
      <1>22, <1>23, <1>24, <1>25, <1>26, <1>27, <1>28, <1>29, <1>30, <1>31
      DEF Next, LaunchStep, AppStep, ServerStep, FaultStep

\* A server probes a lease nobody shares, and a launch takes one no server holds.
\* The copies a launch hands out add to a lease that is shared already.
LEMMA LeaseLockStep ==
  Typed /\ LeaseLock /\ Phases /\ [Next]_vars => LeaseLock'
<1> SUFFICES ASSUME Typed, LeaseLock, Phases, [Next]_vars PROVE LeaseLock'
  OBVIOUS
<1> USE ShareMountAssumption DEF Typed, TypeOK, LeaseLock, Phases,
    HoldsLease, LeaseUnshared
<1>1. ASSUME NEW l \in Launch, TakeLease(l) PROVE LeaseLock'
  BY <1>1 DEF TakeLease, Joinable, Live, launchVars, fileVars, mountVars
<1>2. ASSUME NEW l \in Launch, Decline(l) PROVE LeaseLock'
  BY <1>2 DEF Decline, GiveUp, launchVars, fileVars, mountVars
<1>3. ASSUME NEW l \in Launch, DeclineStranger(l) PROVE LeaseLock'
  BY <1>3 DEF DeclineStranger, GiveUp, launchVars, fileVars, mountVars
<1>4. ASSUME NEW l \in Launch, Unmountable(l) PROVE LeaseLock'
  BY <1>4 DEF Unmountable, GiveUp, launchVars, fileVars, mountVars
<1>5. ASSUME NEW l \in Launch, MakeLease(l) PROVE LeaseLock'
  BY <1>5 DEF MakeLease, LeaseFile, launchVars, fileVars, mountVars
<1>6. ASSUME NEW l \in Launch, CreateFails(l) PROVE LeaseLock'
  BY <1>6 DEF CreateFails, CleanUpMountpoint, GiveUp, launchVars, fileVars, mountVars
<1>7. ASSUME NEW l \in Launch, ForkServer(l) PROVE LeaseLock'
  BY <1>7 DEF ForkServer, launchVars, fileVars, mountVars
<1>8. ASSUME NEW l \in Launch, Spawn(l) PROVE LeaseLock'
  BY <1>8 DEF Spawn, RecordFdsAfterSpawn, launchVars, fileVars, mountVars
<1>9. ASSUME NEW l \in Launch, SpawnFails(l) PROVE LeaseLock'
  BY <1>9 DEF SpawnFails, launchVars, fileVars, mountVars
<1>10. ASSUME NEW l \in Launch, OpenRecord(l) \/ LockRecord(l) \/
             RecordRemoved(l) \/ DropRecord(l) \/ Enter(l) \/ (\E m \in Modes
             : Mount(l, m)) PROVE LeaseLock'
  BY <1>10 DEF OpenRecord, LockRecord, RecordRemoved, RetriesLeft,
      DropRecord, Enter, Mount, launchVars, fileVars, mountVars
<1>11. ASSUME NEW l \in Launch, AppExits(l) PROVE LeaseLock'
  BY <1>11 DEF AppExits, launchVars, fileVars, mountVars
<1>12. ASSUME NEW l \in Launch, GuardianReleases(l) PROVE LeaseLock'
  BY <1>12 DEF GuardianReleases, launchVars, fileVars, mountVars
<1>13. ASSUME NEW l \in Launch, AppCloses(l) PROVE LeaseLock'
  BY <1>13 DEF AppCloses, launchVars, fileVars, mountVars
<1>14. ASSUME NEW l \in Launch, Exec(l) PROVE LeaseLock'
  BY <1>14 DEF Exec, launchVars, fileVars, mountVars
<1>15. ASSUME NEW l \in Launch, WriteRecord(l) PROVE LeaseLock'
  BY <1>15 DEF WriteRecord, Fault, Goes, launchVars, fileVars, mountVars
<1>16. ASSUME NEW l \in Launch, StartPolling(l) PROVE LeaseLock'
  BY <1>16 DEF StartPolling, Goes, Quiet, launchVars, fileVars, mountVars
<1>17. ASSUME NEW l \in Launch, ProbeLease(l) PROVE LeaseLock'
  BY <1>17 DEF ProbeLease, Goes, Quiet, launchVars, fileVars, mountVars
<1>18. ASSUME NEW l \in Launch, ProbeRecord(l) PROVE LeaseLock'
  BY <1>18 DEF ProbeRecord, Goes, Quiet, launchVars, fileVars, mountVars
<1>19. ASSUME NEW l \in Launch, RecordBusy(l) PROVE LeaseLock'
  BY <1>19 DEF RecordBusy, Goes, Quiet, launchVars, fileVars, mountVars
<1>20. ASSUME NEW l \in Launch, StillUsed(l) PROVE LeaseLock'
  BY <1>20 DEF StillUsed, Goes, Quiet, launchVars, fileVars, mountVars
<1>21. ASSUME NEW l \in Launch, Settle(l) PROVE LeaseLock'
  BY <1>21 DEF Settle, Goes, Quiet, launchVars, fileVars, mountVars
<1>22. ASSUME NEW l \in Launch, MountLost(l) PROVE LeaseLock'
  BY <1>22 DEF MountLost, Goes, Quiet, launchVars, fileVars, mountVars
<1>23. ASSUME NEW l \in Launch, Relock(l) PROVE LeaseLock'
  BY <1>23 DEF Relock, Goes, Quiet, launchVars, fileVars, mountVars
<1>24. ASSUME NEW l \in Launch, Unmount(l) PROVE LeaseLock'
  BY <1>24 DEF Unmount, Goes, launchVars, fileVars, mountVars
<1>25. ASSUME NEW l \in Launch, Leave(l) PROVE LeaseLock'
  BY <1>25 DEF Leave, RemoveOwnFiles, Goes, launchVars, fileVars, mountVars
<1>26. ASSUME NEW l \in Launch, KillServer(l) PROVE LeaseLock'
  BY <1>26 DEF KillServer, Fault, launchVars, fileVars, mountVars
<1>27. ASSUME NEW l \in Launch, KillGuardian(l) PROVE LeaseLock'
  BY <1>27 DEF KillGuardian, Fault, launchVars, fileVars, mountVars
<1>28. ASSUME NEW l \in Launch, KillLaunch(l) PROVE LeaseLock'
  BY <1>28 DEF KillLaunch, Fault, launchVars, fileVars, mountVars
<1>29. ASSUME NEW l \in Launch, ForcedUnmount(l) PROVE LeaseLock'
  BY <1>29 DEF ForcedUnmount, Fault, launchVars, fileVars, mountVars
<1>30. ASSUME SweepLocks \/ SweepRemoves PROVE LeaseLock'
  BY <1>30 DEF SweepLocks, SweepRemoves, launchVars, fileVars, mountVars
<1>31. CASE UNCHANGED vars
  BY <1>31 DEF vars, launchVars, fileVars, mountVars
<1>32. QED
  BY <1>1, <1>2, <1>3, <1>4, <1>5, <1>6, <1>7, <1>8, <1>9, <1>10, <1>11,
      <1>12, <1>13, <1>14, <1>15, <1>16, <1>17, <1>18, <1>19, <1>20, <1>21,
      <1>22, <1>23, <1>24, <1>25, <1>26, <1>27, <1>28, <1>29, <1>30, <1>31
      DEF Next, LaunchStep, AppStep, ServerStep, FaultStep

\* Descriptors are opened, handed over and closed along with the phases.
LEMMA PhasesStep ==
  Typed /\ Phases /\ [Next]_vars => Phases'
<1> SUFFICES ASSUME Typed, Phases, [Next]_vars PROVE Phases'
  OBVIOUS
<1> USE ShareMountAssumption DEF Typed, TypeOK, Phases, Live
<1>1. ASSUME NEW l \in Launch, OpenRecord(l) PROVE Phases'
  BY <1>1 DEF OpenRecord, launchVars, fileVars, mountVars
<1>2. ASSUME NEW l \in Launch, LockRecord(l) PROVE Phases'
  BY <1>2 DEF LockRecord, launchVars, fileVars, mountVars
<1>3. ASSUME NEW l \in Launch, RecordRemoved(l) PROVE Phases'
  BY <1>3 DEF RecordRemoved, RetriesLeft, launchVars, fileVars, mountVars
<1>4. ASSUME NEW l \in Launch, TakeLease(l) PROVE Phases'
  BY <1>4 DEF TakeLease, Joinable, Live, launchVars, fileVars, mountVars
<1>5. ASSUME NEW l \in Launch, DropRecord(l) PROVE Phases'
  BY <1>5 DEF DropRecord, launchVars, fileVars, mountVars
<1>6. ASSUME NEW l \in Launch, Enter(l) PROVE Phases'
  BY <1>6 DEF Enter, launchVars, fileVars, mountVars
<1>7. ASSUME NEW l \in Launch, Decline(l) PROVE Phases'
  BY <1>7 DEF Decline, GiveUp, launchVars, fileVars, mountVars
<1>8. ASSUME NEW l \in Launch, DeclineStranger(l) PROVE Phases'
  BY <1>8 DEF DeclineStranger, GiveUp, launchVars, fileVars, mountVars,
      Vacant
<1>9. ASSUME NEW l \in Launch, NEW m \in Modes, Mount(l, m) PROVE Phases'
  BY <1>9 DEF Mount, launchVars, fileVars, mountVars, Vacant
<1>10. ASSUME NEW l \in Launch, Unmountable(l) PROVE Phases'
  BY <1>10 DEF Unmountable, GiveUp, launchVars, fileVars, mountVars, Vacant
<1>11. ASSUME NEW l \in Launch, MakeLease(l) PROVE Phases'
  BY <1>11 DEF MakeLease, LeaseFile, launchVars, fileVars, mountVars
<1>12. ASSUME NEW l \in Launch, CreateFails(l) PROVE Phases'
  BY <1>12 DEF CreateFails, CleanUpMountpoint, GiveUp, launchVars, fileVars, mountVars
<1>13. ASSUME NEW l \in Launch, ForkServer(l) PROVE Phases'
  BY <1>13 DEF ForkServer, launchVars, fileVars, mountVars
<1>14. ASSUME NEW l \in Launch, Spawn(l) PROVE Phases'
  BY <1>14 DEF Spawn, RecordFdsAfterSpawn, launchVars, fileVars, mountVars
<1>15. ASSUME NEW l \in Launch, SpawnFails(l) PROVE Phases'
  BY <1>15 DEF SpawnFails, launchVars, fileVars, mountVars
<1>16. ASSUME NEW l \in Launch, Exec(l) PROVE Phases'
  BY <1>16 DEF Exec, launchVars, fileVars, mountVars
<1>17. ASSUME NEW l \in Launch, AppExits(l) PROVE Phases'
  BY <1>17 DEF AppExits, launchVars, fileVars, mountVars
<1>18. ASSUME NEW l \in Launch, GuardianReleases(l) PROVE Phases'
  BY <1>18 DEF GuardianReleases, launchVars, fileVars, mountVars
<1>19. ASSUME NEW l \in Launch, AppCloses(l) PROVE Phases'
  BY <1>19 DEF AppCloses, launchVars, fileVars, mountVars
<1>20. ASSUME NEW l \in Launch, WriteRecord(l) PROVE Phases'
  BY <1>20 DEF WriteRecord, Fault, Goes, launchVars, fileVars, mountVars
<1>21. ASSUME NEW l \in Launch, StartPolling(l) PROVE Phases'
  BY <1>21 DEF StartPolling, Goes, Quiet, launchVars, fileVars, mountVars
<1>22. ASSUME NEW l \in Launch, ProbeLease(l) PROVE Phases'
  BY <1>22 DEF ProbeLease, Goes, Quiet, launchVars, fileVars, mountVars
<1>23. ASSUME NEW l \in Launch, ProbeRecord(l) PROVE Phases'
  BY <1>23 DEF ProbeRecord, Goes, Quiet, launchVars, fileVars, mountVars
<1>24. ASSUME NEW l \in Launch, RecordBusy(l) PROVE Phases'
  BY <1>24 DEF RecordBusy, Goes, Quiet, launchVars, fileVars, mountVars
<1>25. ASSUME NEW l \in Launch, StillUsed(l) PROVE Phases'
  BY <1>25 DEF StillUsed, Goes, Quiet, launchVars, fileVars, mountVars
<1>26. ASSUME NEW l \in Launch, Settle(l) PROVE Phases'
  BY <1>26 DEF Settle, Goes, Quiet, launchVars, fileVars, mountVars
<1>27. ASSUME NEW l \in Launch, MountLost(l) PROVE Phases'
  BY <1>27 DEF MountLost, Goes, Quiet, launchVars, fileVars, mountVars
<1>28. ASSUME NEW l \in Launch, Relock(l) PROVE Phases'
  BY <1>28 DEF Relock, Goes, Quiet, launchVars, fileVars, mountVars
<1>29. ASSUME NEW l \in Launch, Unmount(l) PROVE Phases'
  BY <1>29 DEF Unmount, Goes, launchVars, fileVars, mountVars
<1>30. ASSUME NEW l \in Launch, Leave(l) PROVE Phases'
  BY <1>30 DEF Leave, RemoveOwnFiles, Goes, launchVars, fileVars, mountVars
<1>31. ASSUME NEW l \in Launch, KillServer(l) PROVE Phases'
  BY <1>31 DEF KillServer, Fault, launchVars, fileVars, mountVars
<1>32. ASSUME NEW l \in Launch, KillGuardian(l) PROVE Phases'
  BY <1>32 DEF KillGuardian, Fault, launchVars, fileVars, mountVars
<1>33. ASSUME NEW l \in Launch, KillLaunch(l) PROVE Phases'
  BY <1>33 DEF KillLaunch, Fault, launchVars, fileVars, mountVars
<1>34. ASSUME NEW l \in Launch, ForcedUnmount(l) PROVE Phases'
  BY <1>34 DEF ForcedUnmount, Fault, launchVars, fileVars, mountVars
<1>35. ASSUME SweepLocks \/ SweepRemoves PROVE Phases'
  BY <1>35 DEF SweepLocks, SweepRemoves, launchVars, fileVars, mountVars
<1>36. CASE UNCHANGED vars
  BY <1>36 DEF vars, launchVars, fileVars, mountVars
<1>37. QED
  BY <1>1, <1>2, <1>3, <1>4, <1>5, <1>6, <1>7, <1>8, <1>9, <1>10, <1>11,
      <1>12, <1>13, <1>14, <1>15, <1>16, <1>17, <1>18, <1>19, <1>20, <1>21,
      <1>22, <1>23, <1>24, <1>25, <1>26, <1>27, <1>28, <1>29, <1>30, <1>31,
      <1>32, <1>33, <1>34, <1>35, <1>36 DEF Next, LaunchStep, AppStep,
      ServerStep, FaultStep

\* Only opening the record creates a file, and the next number is its own.
LEMMA NumberedStep ==
  Typed /\ Numbered /\ [Next]_vars => Numbered'
<1> SUFFICES ASSUME Typed, Numbered, [Next]_vars PROVE Numbered'
  OBVIOUS
<1> USE ShareMountAssumption DEF Typed, TypeOK, Numbered
<1>1. ASSUME NEW l \in Launch, OpenRecord(l) PROVE Numbered'
  BY <1>1 DEF OpenRecord, launchVars, fileVars, mountVars
<1>2. ASSUME NEW l \in Launch, LockRecord(l) PROVE Numbered'
  BY <1>2 DEF LockRecord, launchVars, fileVars, mountVars
<1>3. ASSUME NEW l \in Launch, RecordRemoved(l) PROVE Numbered'
  BY <1>3 DEF RecordRemoved, RetriesLeft, launchVars, fileVars, mountVars
<1>4. ASSUME NEW l \in Launch, TakeLease(l) PROVE Numbered'
  BY <1>4 DEF TakeLease, Joinable, Live, launchVars, fileVars, mountVars
<1>5. ASSUME NEW l \in Launch, DropRecord(l) PROVE Numbered'
  BY <1>5 DEF DropRecord, launchVars, fileVars, mountVars
<1>6. ASSUME NEW l \in Launch, Enter(l) PROVE Numbered'
  BY <1>6 DEF Enter, launchVars, fileVars, mountVars
<1>7. ASSUME NEW l \in Launch, Decline(l) PROVE Numbered'
  BY <1>7 DEF Decline, GiveUp, launchVars, fileVars, mountVars
<1>8. ASSUME NEW l \in Launch, DeclineStranger(l) PROVE Numbered'
  BY <1>8 DEF DeclineStranger, GiveUp, launchVars, fileVars, mountVars,
      Vacant
<1>9. ASSUME NEW l \in Launch, NEW m \in Modes, Mount(l, m) PROVE Numbered'
  BY <1>9 DEF Mount, launchVars, fileVars, mountVars, Vacant
<1>10. ASSUME NEW l \in Launch, Unmountable(l) PROVE Numbered'
  BY <1>10 DEF Unmountable, GiveUp, launchVars, fileVars, mountVars, Vacant
<1>11. ASSUME NEW l \in Launch, MakeLease(l) PROVE Numbered'
  BY <1>11 DEF MakeLease, LeaseFile, launchVars, fileVars, mountVars
<1>12. ASSUME NEW l \in Launch, CreateFails(l) PROVE Numbered'
  BY <1>12 DEF CreateFails, CleanUpMountpoint, GiveUp, launchVars, fileVars, mountVars
<1>13. ASSUME NEW l \in Launch, ForkServer(l) PROVE Numbered'
  BY <1>13 DEF ForkServer, launchVars, fileVars, mountVars
<1>14. ASSUME NEW l \in Launch, Spawn(l) PROVE Numbered'
  BY <1>14 DEF Spawn, RecordFdsAfterSpawn, launchVars, fileVars, mountVars
<1>15. ASSUME NEW l \in Launch, SpawnFails(l) PROVE Numbered'
  BY <1>15 DEF SpawnFails, launchVars, fileVars, mountVars
<1>16. ASSUME NEW l \in Launch, Exec(l) \/ AppExits(l) \/ GuardianReleases(l)
             \/ AppCloses(l) PROVE Numbered'
  BY <1>16 DEF Exec, AppExits, GuardianReleases, AppCloses, launchVars,
      fileVars, mountVars
<1>17. ASSUME NEW l \in Launch, WriteRecord(l) PROVE Numbered'
  BY <1>17 DEF WriteRecord, Fault, Goes, launchVars, fileVars, mountVars
<1>18. ASSUME NEW l \in Launch, Leave(l) PROVE Numbered'
  BY <1>18 DEF Leave, RemoveOwnFiles, Goes, launchVars, fileVars, mountVars
<1>19. ASSUME NEW l \in Launch, StartPolling(l) \/ ProbeLease(l) \/
             ProbeRecord(l) \/ RecordBusy(l) \/ StillUsed(l) \/ Settle(l) \/
             MountLost(l) \/ Relock(l) \/ Unmount(l) PROVE Numbered'
  BY <1>19 DEF StartPolling, Goes, Quiet, ProbeLease, ProbeRecord,
      RecordBusy, StillUsed, Settle, MountLost, Relock, Unmount, launchVars,
      fileVars, mountVars
<1>20. ASSUME NEW l \in Launch, KillLaunch(l) PROVE Numbered'
  BY <1>20 DEF KillLaunch, Fault, launchVars, fileVars, mountVars
<1>21. ASSUME NEW l \in Launch, KillServer(l) \/ KillGuardian(l) \/
             ForcedUnmount(l) PROVE Numbered'
  BY <1>21 DEF KillServer, Fault, KillGuardian, ForcedUnmount, launchVars,
      fileVars, mountVars
<1>22. ASSUME SweepLocks PROVE Numbered'
  BY <1>22 DEF SweepLocks, launchVars, fileVars, mountVars
<1>23. ASSUME SweepRemoves PROVE Numbered'
  BY <1>23 DEF SweepRemoves, launchVars, fileVars, mountVars
<1>24. CASE UNCHANGED vars
  BY <1>24 DEF vars, launchVars, fileVars, mountVars
<1>25. QED
  BY <1>1, <1>2, <1>3, <1>4, <1>5, <1>6, <1>7, <1>8, <1>9, <1>10, <1>11,
      <1>12, <1>13, <1>14, <1>15, <1>16, <1>17, <1>18, <1>19, <1>20, <1>21,
      <1>22, <1>23, <1>24 DEF Next, LaunchStep, AppStep, ServerStep,
      FaultStep

\* Only Mount makes a launch active.  It holds the record, and every other active
\* launch either holds that same record or is the live server it names.
LEMMA OneActiveStep ==
  unwritten = {} /\ Typed /\ RecordLock /\ Phases /\ OneActive /\ RecordAtPath
      /\ [Next]_vars => OneActive'
<1> SUFFICES ASSUME unwritten = {}, Typed, RecordLock, Phases, OneActive,
    RecordAtPath, [Next]_vars PROVE OneActive'
  OBVIOUS
<1> USE ShareMountAssumption DEF Typed, TypeOK, Phases, OneActive, Active,
    Live
<1>1. ASSUME NEW l \in Launch, OpenRecord(l) PROVE OneActive'
  BY <1>1 DEF OpenRecord, launchVars, fileVars, mountVars
<1>2. ASSUME NEW l \in Launch, LockRecord(l) PROVE OneActive'
  BY <1>2 DEF LockRecord, launchVars, fileVars, mountVars
<1>3. ASSUME NEW l \in Launch, RecordRemoved(l) PROVE OneActive'
  BY <1>3 DEF RecordRemoved, RetriesLeft, launchVars, fileVars, mountVars
<1>4. ASSUME NEW l \in Launch, TakeLease(l) PROVE OneActive'
  BY <1>4 DEF TakeLease, Joinable, Live, launchVars, fileVars, mountVars
<1>5. ASSUME NEW l \in Launch, DropRecord(l) PROVE OneActive'
  BY <1>5 DEF DropRecord, launchVars, fileVars, mountVars
<1>6. ASSUME NEW l \in Launch, Enter(l) PROVE OneActive'
  BY <1>6 DEF Enter, launchVars, fileVars, mountVars
<1>7. ASSUME NEW l \in Launch, Decline(l) PROVE OneActive'
  BY <1>7 DEF Decline, GiveUp, launchVars, fileVars, mountVars
<1>8. ASSUME NEW l \in Launch, DeclineStranger(l) PROVE OneActive'
  BY <1>8 DEF DeclineStranger, GiveUp, launchVars, fileVars, mountVars
<1>9. ASSUME NEW l \in Launch, NEW m \in Modes, Mount(l, m) PROVE OneActive'
  BY <1>9 DEF Mount, launchVars, fileVars, mountVars, RecordLock,
      RecordAtPath, Vacant
<1>10. ASSUME NEW l \in Launch, Unmountable(l) PROVE OneActive'
  BY <1>10 DEF Unmountable, GiveUp, launchVars, fileVars, mountVars
<1>11. ASSUME NEW l \in Launch, MakeLease(l) PROVE OneActive'
  BY <1>11 DEF MakeLease, LeaseFile, launchVars, fileVars, mountVars
<1>12. ASSUME NEW l \in Launch, CreateFails(l) PROVE OneActive'
  BY <1>12 DEF CreateFails, CleanUpMountpoint, GiveUp, launchVars, fileVars, mountVars
<1>13. ASSUME NEW l \in Launch, ForkServer(l) PROVE OneActive'
  BY <1>13 DEF ForkServer, launchVars, fileVars, mountVars
<1>14. ASSUME NEW l \in Launch, Spawn(l) PROVE OneActive'
  BY <1>14 DEF Spawn, RecordFdsAfterSpawn, launchVars, fileVars, mountVars
<1>15. ASSUME NEW l \in Launch, SpawnFails(l) PROVE OneActive'
  BY <1>15 DEF SpawnFails, launchVars, fileVars, mountVars
<1>16. ASSUME NEW l \in Launch, Exec(l) \/ AppExits(l) \/ GuardianReleases(l)
             \/ AppCloses(l) PROVE OneActive'
  BY <1>16 DEF Exec, AppExits, GuardianReleases, AppCloses, launchVars,
      fileVars, mountVars
<1>17. ASSUME NEW l \in Launch, WriteRecord(l) PROVE OneActive'
  BY <1>17 DEF WriteRecord, Fault, Goes, launchVars, fileVars, mountVars
<1>18. ASSUME NEW l \in Launch, StartPolling(l) PROVE OneActive'
  BY <1>18 DEF StartPolling, Goes, Quiet, launchVars, fileVars, mountVars
<1>19. ASSUME NEW l \in Launch, ProbeLease(l) PROVE OneActive'
  BY <1>19 DEF ProbeLease, Goes, Quiet, launchVars, fileVars, mountVars
<1>20. ASSUME NEW l \in Launch, ProbeRecord(l) PROVE OneActive'
  BY <1>20 DEF ProbeRecord, Goes, Quiet, launchVars, fileVars, mountVars
<1>21. ASSUME NEW l \in Launch, RecordBusy(l) PROVE OneActive'
  BY <1>21 DEF RecordBusy, Goes, Quiet, launchVars, fileVars, mountVars
<1>22. ASSUME NEW l \in Launch, StillUsed(l) PROVE OneActive'
  BY <1>22 DEF StillUsed, Goes, Quiet, launchVars, fileVars, mountVars
<1>23. ASSUME NEW l \in Launch, Settle(l) PROVE OneActive'
  BY <1>23 DEF Settle, Goes, Quiet, launchVars, fileVars, mountVars
<1>24. ASSUME NEW l \in Launch, MountLost(l) PROVE OneActive'
  BY <1>24 DEF MountLost, Goes, Quiet, launchVars, fileVars, mountVars
<1>25. ASSUME NEW l \in Launch, Relock(l) PROVE OneActive'
  BY <1>25 DEF Relock, Goes, Quiet, launchVars, fileVars, mountVars
<1>26. ASSUME NEW l \in Launch, Unmount(l) PROVE OneActive'
  BY <1>26 DEF Unmount, Goes, launchVars, fileVars, mountVars
<1>27. ASSUME NEW l \in Launch, Leave(l) PROVE OneActive'
  BY <1>27 DEF Leave, RemoveOwnFiles, Goes, launchVars, fileVars, mountVars
<1>28. ASSUME NEW l \in Launch, KillServer(l) PROVE OneActive'
  BY <1>28 DEF KillServer, Fault, launchVars, fileVars, mountVars
<1>29. ASSUME NEW l \in Launch, KillLaunch(l) PROVE OneActive'
  BY <1>29 DEF KillLaunch, Fault, launchVars, fileVars, mountVars
<1>30. ASSUME NEW l \in Launch, KillGuardian(l) \/ ForcedUnmount(l) PROVE
             OneActive'
  BY <1>30 DEF KillGuardian, Fault, ForcedUnmount, launchVars, fileVars,
      mountVars
<1>31. ASSUME SweepLocks \/ SweepRemoves PROVE OneActive'
  BY <1>31 DEF SweepLocks, SweepRemoves, launchVars, fileVars, mountVars
<1>32. CASE UNCHANGED vars
  BY <1>32 DEF vars, launchVars, fileVars, mountVars
<1>33. QED
  BY <1>1, <1>2, <1>3, <1>4, <1>5, <1>6, <1>7, <1>8, <1>9, <1>10, <1>11,
      <1>12, <1>13, <1>14, <1>15, <1>16, <1>17, <1>18, <1>19, <1>20, <1>21,
      <1>22, <1>23, <1>24, <1>25, <1>26, <1>27, <1>28, <1>29, <1>30, <1>31,
      <1>32 DEF Next, LaunchStep, AppStep, ServerStep, FaultStep

\* The record leaves its path only at the hands of the server that leaves, which is
\* the only one running and holds the lock, or of a sweep that holds it.
LEMMA RecordAtPathStep ==
  Typed /\ RecordLock /\ Phases /\ Numbered /\ RecordAtPath /\ [Next]_vars
      => RecordAtPath'
<1> SUFFICES ASSUME Typed, RecordLock, Phases, Numbered, RecordAtPath,
    [Next]_vars PROVE RecordAtPath'
  OBVIOUS
<1> USE ShareMountAssumption DEF Typed, TypeOK, RecordLock, Phases, Numbered,
    RecordAtPath, Live, HoldsRecord, Ino
<1>1. ASSUME NEW l \in Launch, OpenRecord(l) PROVE RecordAtPath'
  <2>1. CASE recAt # 0
    BY <1>1, <2>1 DEF OpenRecord
  <2>2. CASE recAt = 0
    <3>1. /\ recAt' = made + 1 /\ names' = [names EXCEPT ![made + 1] = Nobody]
          /\ pc' = [pc EXCEPT ![l] = "opened"]
          /\ UNCHANGED <<srv, recFds, sweep, unwritten>> /\ made \in Nat
          /\ \A k \in Launch \ {l} : ino'[k] = ino[k]
      BY <1>1, <2>2 DEF OpenRecord
    <3>2. \A k \in Launch : pc[k] \notin {"locked", "mounted", "leaseMade"}
      BY <2>2
    <3>3. \A s \in Launch : srv[s] # "none" => ino[s] # 0
      OBVIOUS
    <3>4. \A s \in Launch : srv'[s] # "born"
      BY <2>2, <3>1, <3>3
    <3>5. \A s \in Launch \ unwritten' : ~Live(s)'
      BY <2>2, <3>1, <3>3, <3>4
    <3>6. sweep = 0
      BY <2>2
    <3>7. \A k \in Launch : pc'[k] \notin {"locked", "mounted", "leaseMade"}
      BY <3>1, <3>2
    <3>8. \A i \in Ino : names'[i] # Nobody => srv'[names'[i]] # "none"
      BY <3>1
    <3>9. QED
      BY <3>1, <3>4, <3>5, <3>6, <3>7, <3>8
  <2>3. QED
    BY <2>1, <2>2
<1>2. ASSUME NEW l \in Launch, LockRecord(l) PROVE RecordAtPath'
  BY <1>2 DEF LockRecord, launchVars, fileVars, mountVars
<1>3. ASSUME NEW l \in Launch, RecordRemoved(l) PROVE RecordAtPath'
  BY <1>3 DEF RecordRemoved, RetriesLeft, launchVars, fileVars, mountVars
<1>4. ASSUME NEW l \in Launch, TakeLease(l) PROVE RecordAtPath'
  BY <1>4 DEF TakeLease, Joinable, Live, launchVars, fileVars, mountVars
<1>5. ASSUME NEW l \in Launch, DropRecord(l) PROVE RecordAtPath'
  BY <1>5 DEF DropRecord, launchVars, fileVars, mountVars
<1>6. ASSUME NEW l \in Launch, Enter(l) PROVE RecordAtPath'
  BY <1>6 DEF Enter, launchVars, fileVars, mountVars
<1>7. ASSUME NEW l \in Launch, Decline(l) PROVE RecordAtPath'
  BY <1>7 DEF Decline, GiveUp, launchVars, fileVars, mountVars
<1>8. ASSUME NEW l \in Launch, DeclineStranger(l) PROVE RecordAtPath'
  BY <1>8 DEF DeclineStranger, GiveUp, launchVars, fileVars, mountVars
<1>9. ASSUME NEW l \in Launch, NEW m \in Modes, Mount(l, m) PROVE
             RecordAtPath'
  BY <1>9 DEF Mount, launchVars, fileVars, mountVars, Vacant
<1>10. ASSUME NEW l \in Launch, Unmountable(l) PROVE RecordAtPath'
  BY <1>10 DEF Unmountable, GiveUp, launchVars, fileVars, mountVars
<1>11. ASSUME NEW l \in Launch, MakeLease(l) PROVE RecordAtPath'
  BY <1>11 DEF MakeLease, LeaseFile, launchVars, fileVars, mountVars
<1>12. ASSUME NEW l \in Launch, CreateFails(l) PROVE RecordAtPath'
  BY <1>12 DEF CreateFails, CleanUpMountpoint, GiveUp, launchVars, fileVars, mountVars
<1>13. ASSUME NEW l \in Launch, ForkServer(l) PROVE RecordAtPath'
  <2>1. /\ UNCHANGED <<ino, recAt, names, sweep, unwritten>>
        /\ pc[l] = "leaseMade" /\ pc' = [pc EXCEPT ![l] = "served"]
        /\ srv' = [srv EXCEPT ![l] = "born"]
        /\ \A k \in Launch : recFds[k] \subseteq recFds'[k]
        /\ "server" \in recFds'[l]
    BY <1>13 DEF ForkServer, fileVars
  <2>2. srv[l] = "none"
    BY <2>1
  <2>3. \A i \in Ino : names'[i] # Nobody => srv'[names'[i]] # "none"
    BY <2>1
  <2>4. \A i \in Ino : names[i] # l
    BY <2>2, ShareMountAssumption
  <2>5. \A k \in Launch : pc[k] \in {"mounted", "leaseMade"} \/ srv'[k] = "born" => ino[k] \in Ino
    BY <2>1
  <2>6. \A i \in Ino : ~Live(names[i]) => ~Live(names[i])'
    BY <2>1, <2>4
  <2>7. \A k \in Launch :
          pc'[k] \in {"mounted", "leaseMade"} \/ srv'[k] = "born" => ~Live(names[ino[k]])'
    BY <2>1, <2>5, <2>6
  <2>8. \A k \in Launch : pc'[k] \in {"locked", "mounted", "leaseMade"} => ino'[k] = recAt'
    BY <2>1
  <2>9. \A s \in Launch : srv'[s] = "born" => ino'[s] = recAt' /\ "server" \in recFds'[s]
    BY <2>1
  <2>10. \A s \in Launch \ unwritten' :
           Live(s)' /\ srv'[s] # "born" => ino'[s] = recAt' /\ names'[ino'[s]] = s
    BY <2>1
  <2>11. sweep' # 0 => sweep' = recAt' /\ ~Live(names[sweep])'
    BY <2>1, <2>6
  <2>12. QED
    BY <2>3, <2>7, <2>8, <2>9, <2>10, <2>11
<1>14. ASSUME NEW l \in Launch, Spawn(l) PROVE RecordAtPath'
  BY <1>14 DEF Spawn, RecordFdsAfterSpawn, launchVars, fileVars, mountVars
<1>15. ASSUME NEW l \in Launch, SpawnFails(l) PROVE RecordAtPath'
  BY <1>15 DEF SpawnFails, launchVars, fileVars, mountVars
<1>16. ASSUME NEW l \in Launch, Exec(l) PROVE RecordAtPath'
  BY <1>16 DEF Exec, launchVars, fileVars, mountVars
<1>17. ASSUME NEW l \in Launch, AppExits(l) PROVE RecordAtPath'
  BY <1>17 DEF AppExits, launchVars, fileVars, mountVars
<1>18. ASSUME NEW l \in Launch, GuardianReleases(l) \/ AppCloses(l) PROVE
             RecordAtPath'
  BY <1>18, SMTT(60) DEF GuardianReleases, AppCloses, launchVars, fileVars, mountVars
<1>19. ASSUME NEW l \in Launch, WriteRecord(l) PROVE RecordAtPath'
  <2>1. /\ UNCHANGED <<pc, ino, recAt, sweep>> /\ unwritten \subseteq unwritten'
        /\ srv[l] = "born" /\ srv' = [srv EXCEPT ![l] = "starting"]
        /\ \A k \in Launch \ {l} : recFds'[k] = recFds[k]
        /\ \/ names' = [names EXCEPT ![ino[l]] = l]
           \/ l \in unwritten' /\ names' \in {names, [names EXCEPT ![ino[l]] = Nobody]}
    BY <1>19 DEF WriteRecord, Goes
  <2>2. ino[l] \in Ino /\ ino[l] = recAt /\ "server" \in recFds[l]
    BY <2>1
  <2>3. \A k \in Launch :
          (Live(k)' <=> Live(k)) /\ (srv'[k] = "born" => srv[k] = "born" /\ k # l)
    BY <2>1
  <2>4. ASSUME NEW i \in Ino, i # ino[l] PROVE names'[i] = names[i]
    <3>1. names \in [Ino -> Launch \cup {Nobody}]
      OBVIOUS
    <3>2. CASE names' = [names EXCEPT ![ino[l]] = l]
      BY <2>4, <3>1, <3>2
    <3>3. CASE names' \in {names, [names EXCEPT ![ino[l]] = Nobody]}
      BY <2>4, <3>1, <3>3
    <3>4. QED
      BY <2>1, <3>2, <3>3
  <2>5. \A i \in Ino : Live(names[i])' => Live(names[i]) \/ i = ino[l]
    BY <2>1, <2>3, <2>4
  <2>6. \A i \in Ino : names'[i] # Nobody => srv'[names'[i]] # "none"
    BY <2>1, <2>2, <2>4
  <2>7. \A k \in Launch \ {l} :
          pc[k] \in {"mounted", "leaseMade"} \/ srv[k] = "born" => ino[k] # ino[l]
    BY <2>2, ZenonT(60)
  <2>8. ASSUME NEW k \in Launch, pc'[k] \in {"mounted", "leaseMade"} \/ srv'[k] = "born"
        PROVE  ~Live(names[ino[k]])'
    <3>1. k # l /\ (pc[k] \in {"mounted", "leaseMade"} \/ srv[k] = "born")
      BY <2>1, <2>3, <2>8
    <3>2. ino[k] # ino[l]
      BY <2>7, <3>1
    <3>3. ino[k] \in Ino
      BY <3>1
    <3>4. ~Live(names[ino[k]])
      BY <3>1
    <3>5. QED
      BY <2>1, <2>3, <2>4, <3>2, <3>3, <3>4
  <2>9. \A s \in Launch : srv'[s] = "born" => ino'[s] = recAt' /\ "server" \in recFds'[s]
    BY <2>1, <2>3
  <2>10. ASSUME NEW s \in Launch \ unwritten', Live(s)', srv'[s] # "born"
         PROVE  ino'[s] = recAt' /\ names'[ino'[s]] = s
    <3>1. CASE s = l
      BY <2>1, <2>2, <3>1
    <3>2. CASE s # l
      <4>1. ino[s] = recAt /\ names[ino[s]] = s /\ Live(s)
        BY <2>1, <2>3, <2>10, <3>2
      <4>2. ~Live(names[ino[l]])
        BY <2>1
      <4>3. QED
        BY <2>2, <4>1, <4>2
    <3>3. QED
      BY <3>1, <3>2
  <2>11. sweep' = 0
    BY <2>1, <2>2
  <2>12. \A k \in Launch : pc'[k] \in {"locked", "mounted", "leaseMade"} => ino'[k] = recAt'
    BY <2>1
  <2>13. QED
    BY <2>6, <2>8, <2>9, <2>10, <2>11, <2>12
<1>20. ASSUME NEW l \in Launch, StartPolling(l) PROVE RecordAtPath'
  BY <1>20, SMTT(60) DEF StartPolling, Goes, Quiet, launchVars, fileVars, mountVars
<1>21. ASSUME NEW l \in Launch, ProbeLease(l) PROVE RecordAtPath'
  BY <1>21, SMTT(60) DEF ProbeLease, Goes, Quiet, launchVars, fileVars, mountVars
<1>22. ASSUME NEW l \in Launch, ProbeRecord(l) PROVE RecordAtPath'
  BY <1>22, SMTT(60) DEF ProbeRecord, Goes, Quiet, launchVars, fileVars, mountVars
<1>23. ASSUME NEW l \in Launch, RecordBusy(l) PROVE RecordAtPath'
  BY <1>23, SMTT(60) DEF RecordBusy, Goes, Quiet, launchVars, fileVars, mountVars
<1>24. ASSUME NEW l \in Launch, StillUsed(l) PROVE RecordAtPath'
  BY <1>24, SMTT(60) DEF StillUsed, Goes, Quiet, launchVars, fileVars, mountVars
<1>25. ASSUME NEW l \in Launch, Settle(l) PROVE RecordAtPath'
  BY <1>25, SMTT(60) DEF Settle, Goes, Quiet, launchVars, fileVars, mountVars
<1>26. ASSUME NEW l \in Launch, MountLost(l) PROVE RecordAtPath'
  BY <1>26, SMTT(60) DEF MountLost, Goes, Quiet, launchVars, fileVars, mountVars
<1>27. ASSUME NEW l \in Launch, Relock(l) PROVE RecordAtPath'
  BY <1>27, SMTT(60) DEF Relock, Goes, Quiet, launchVars, fileVars, mountVars
<1>28. ASSUME NEW l \in Launch, Unmount(l) PROVE RecordAtPath'
  <2>1. UNCHANGED <<pc, ino, recAt, recFds, names, sweep, unwritten>>
    BY <1>28 DEF Unmount, launchVars, fileVars
  <2>2. \A s \in Launch : (Live(s)' <=> Live(s)) /\ (srv'[s] = "born" <=> srv[s] = "born")
                                         /\ (srv'[s] = "none" <=> srv[s] = "none")
    BY <1>28 DEF Unmount, Goes, launchVars, fileVars
  <2>3. \A i : Live(names[i])' <=> Live(names[i])
    BY <2>1, <1>28 DEF Unmount, Goes, launchVars, fileVars
  <2>4. \A i \in Ino : names'[i] # Nobody => srv'[names'[i]] # "none"
    BY <2>1, <2>2
  <2>5. QED
    BY <2>1, <2>2, <2>3, <2>4
<1>29. ASSUME NEW l \in Launch, Leave(l) PROVE RecordAtPath'
  <2>1. /\ UNCHANGED <<pc, ino, recFds, names, sweep, unwritten>>
        /\ srv' = [srv EXCEPT ![l] = "gone"] /\ HoldsRecord(l)
        /\ recAt' = recAt \/ (recAt = ino[l] /\ names[ino[l]] = l)
    BY <1>29 DEF Leave, Goes, RemoveOwnFiles, launchVars
  <2>2. \A k \in Launch : pc[k] \in {"locked", "mounted", "leaseMade"} => ino[k] # ino[l]
    BY <2>1
  <2>3. \A s \in Launch : /\ Live(s)' => Live(s) /\ s # l
                         /\ srv'[s] = "born" => srv[s] = "born" /\ ino[s] # ino[l]
    BY <2>1
  <2>4. \A i : Live(names[i])' => Live(names[i])
    BY <2>1
  <2>5. \A i \in Ino : names'[i] # Nobody => srv'[names'[i]] # "none"
    BY <2>1
  <2>6. sweep # 0 => sweep # ino[l]
    BY <2>1
  <2>7. CASE recAt' = recAt
    BY <2>1, <2>3, <2>4, <2>5, <2>7
  <2>8. CASE recAt = ino[l] /\ names[ino[l]] = l
    BY <2>1, <2>2, <2>3, <2>4, <2>5, <2>6, <2>8
  <2>9. QED
    BY <2>1, <2>7, <2>8
<1>30. ASSUME NEW l \in Launch, KillServer(l) PROVE RecordAtPath'
  BY <1>30 DEF KillServer, Fault, launchVars, fileVars, mountVars
<1>31. ASSUME NEW l \in Launch, KillLaunch(l) PROVE RecordAtPath'
  BY <1>31 DEF KillLaunch, Fault, launchVars, fileVars, mountVars
<1>32. ASSUME NEW l \in Launch, KillGuardian(l) \/ ForcedUnmount(l) PROVE
             RecordAtPath'
  BY <1>32, SMTT(30) DEF KillGuardian, Fault, ForcedUnmount, launchVars, fileVars,
      mountVars
<1>33. ASSUME SweepLocks PROVE RecordAtPath'
  BY <1>33 DEF SweepLocks, launchVars, fileVars, mountVars, RecordFree, Stale
<1>34. ASSUME SweepRemoves PROVE RecordAtPath'
  BY <1>34 DEF SweepRemoves, launchVars, fileVars, mountVars
<1>35. CASE UNCHANGED vars
  BY <1>35 DEF vars, launchVars, fileVars, mountVars
<1>36. QED
  BY <1>1, <1>2, <1>3, <1>4, <1>5, <1>6, <1>7, <1>8, <1>9, <1>10, <1>11,
      <1>12, <1>13, <1>14, <1>15, <1>16, <1>17, <1>18, <1>19, <1>20, <1>21,
      <1>22, <1>23, <1>24, <1>25, <1>26, <1>27, <1>28, <1>29, <1>30, <1>31,
      <1>32, <1>33, <1>34, <1>35 DEF Next, LaunchStep, AppStep, ServerStep,
      FaultStep

\* What is mounted changes hands only when its connection is finished; the rest is
\* taken down by the one launch that is active.
LEMMA MountMadeStep ==
  Typed /\ Phases /\ OneActive /\ MountMade /\ [Next]_vars => MountMade'
<1> SUFFICES ASSUME Typed, Phases, OneActive, MountMade, [Next]_vars PROVE
    MountMade'
  OBVIOUS
<1> USE ShareMountAssumption DEF Typed, TypeOK, Phases, OneActive, MountMade,
    Active, Live, Mounted, InMount
<1>1. ASSUME NEW l \in Launch, OpenRecord(l) PROVE MountMade'
  BY <1>1 DEF OpenRecord, launchVars, fileVars, mountVars
<1>2. ASSUME NEW l \in Launch, LockRecord(l) PROVE MountMade'
  BY <1>2 DEF LockRecord, launchVars, fileVars, mountVars
<1>3. ASSUME NEW l \in Launch, RecordRemoved(l) PROVE MountMade'
  BY <1>3 DEF RecordRemoved, RetriesLeft, launchVars, fileVars, mountVars
<1>4. ASSUME NEW l \in Launch, TakeLease(l) PROVE MountMade'
  BY <1>4 DEF TakeLease, Joinable, Live, launchVars, fileVars, mountVars
<1>5. ASSUME NEW l \in Launch, DropRecord(l) PROVE MountMade'
  BY <1>5 DEF DropRecord, launchVars, fileVars, mountVars
<1>6. ASSUME NEW l \in Launch, Enter(l) PROVE MountMade'
  BY <1>6 DEF Enter, launchVars, fileVars, mountVars, Answers
<1>7. ASSUME NEW l \in Launch, Decline(l) PROVE MountMade'
  BY <1>7 DEF Decline, GiveUp, launchVars, fileVars, mountVars
<1>8. ASSUME NEW l \in Launch, DeclineStranger(l) PROVE MountMade'
  BY <1>8 DEF DeclineStranger, GiveUp, launchVars, fileVars, mountVars
<1>9. ASSUME NEW l \in Launch, NEW m \in Modes, Mount(l, m) PROVE MountMade'
  BY <1>9 DEF Mount, launchVars, fileVars, mountVars, Vacant, Connected
<1>10. ASSUME NEW l \in Launch, Unmountable(l) PROVE MountMade'
  BY <1>10 DEF Unmountable, GiveUp, launchVars, fileVars, mountVars, Vacant,
      Connected
<1>11. ASSUME NEW l \in Launch, MakeLease(l) PROVE MountMade'
  BY <1>11 DEF MakeLease, LeaseFile, launchVars, fileVars, mountVars
<1>12. ASSUME NEW l \in Launch, CreateFails(l) PROVE MountMade'
  BY <1>12 DEF CreateFails, CleanUpMountpoint, GiveUp, launchVars, fileVars, mountVars
<1>13. ASSUME NEW l \in Launch, ForkServer(l) PROVE MountMade'
  BY <1>13 DEF ForkServer, launchVars, fileVars, mountVars
<1>14. ASSUME NEW l \in Launch, Spawn(l) PROVE MountMade'
  BY <1>14 DEF Spawn, RecordFdsAfterSpawn, launchVars, fileVars, mountVars
<1>15. ASSUME NEW l \in Launch, SpawnFails(l) PROVE MountMade'
  BY <1>15 DEF SpawnFails, launchVars, fileVars, mountVars
<1>16. ASSUME NEW l \in Launch, Exec(l) PROVE MountMade'
  BY <1>16 DEF Exec, launchVars, fileVars, mountVars
<1>17. ASSUME NEW l \in Launch, AppExits(l) PROVE MountMade'
  BY <1>17 DEF AppExits, launchVars, fileVars, mountVars
<1>18. ASSUME NEW l \in Launch, GuardianReleases(l) \/ AppCloses(l) PROVE
             MountMade'
  BY <1>18 DEF GuardianReleases, AppCloses, launchVars, fileVars, mountVars
<1>19. ASSUME NEW l \in Launch, WriteRecord(l) PROVE MountMade'
  BY <1>19 DEF WriteRecord, Fault, Goes, launchVars, fileVars, mountVars
<1>20. ASSUME NEW l \in Launch, StartPolling(l) PROVE MountMade'
  BY <1>20 DEF StartPolling, Goes, Quiet, launchVars, fileVars, mountVars
<1>21. ASSUME NEW l \in Launch, ProbeLease(l) PROVE MountMade'
  BY <1>21 DEF ProbeLease, Goes, Quiet, launchVars, fileVars, mountVars
<1>22. ASSUME NEW l \in Launch, ProbeRecord(l) PROVE MountMade'
  BY <1>22 DEF ProbeRecord, Goes, Quiet, launchVars, fileVars, mountVars
<1>23. ASSUME NEW l \in Launch, RecordBusy(l) PROVE MountMade'
  BY <1>23 DEF RecordBusy, Goes, Quiet, launchVars, fileVars, mountVars
<1>24. ASSUME NEW l \in Launch, StillUsed(l) PROVE MountMade'
  BY <1>24 DEF StillUsed, Goes, Quiet, launchVars, fileVars, mountVars
<1>25. ASSUME NEW l \in Launch, Settle(l) PROVE MountMade'
  BY <1>25 DEF Settle, Goes, Quiet, launchVars, fileVars, mountVars
<1>26. ASSUME NEW l \in Launch, MountLost(l) PROVE MountMade'
  BY <1>26 DEF MountLost, Goes, Quiet, launchVars, fileVars, mountVars
<1>27. ASSUME NEW l \in Launch, Relock(l) PROVE MountMade'
  BY <1>27 DEF Relock, Goes, Quiet, launchVars, fileVars, mountVars
<1>28. ASSUME NEW l \in Launch, Unmount(l) PROVE MountMade'
  BY <1>28 DEF Unmount, Goes, launchVars, fileVars, mountVars
<1>29. ASSUME NEW l \in Launch, Leave(l) PROVE MountMade'
  BY <1>29 DEF Leave, RemoveOwnFiles, Goes, launchVars, fileVars, mountVars
<1>30. ASSUME NEW l \in Launch, KillServer(l) PROVE MountMade'
  BY <1>30 DEF KillServer, Fault, launchVars, fileVars, mountVars
<1>31. ASSUME NEW l \in Launch, KillLaunch(l) PROVE MountMade'
  BY <1>31 DEF KillLaunch, Fault, launchVars, fileVars, mountVars
<1>32. ASSUME NEW l \in Launch, ForcedUnmount(l) PROVE MountMade'
  BY <1>32 DEF ForcedUnmount, Fault, launchVars, fileVars, mountVars
<1>33. ASSUME NEW l \in Launch, KillGuardian(l) PROVE MountMade'
  BY <1>33 DEF KillGuardian, Fault, launchVars, fileVars, mountVars
<1>34. ASSUME SweepLocks \/ SweepRemoves PROVE MountMade'
  BY <1>34 DEF SweepLocks, SweepRemoves, launchVars, fileVars, mountVars
<1>35. CASE UNCHANGED vars
  BY <1>35 DEF vars, launchVars, fileVars, mountVars
<1>36. QED
  BY <1>1, <1>2, <1>3, <1>4, <1>5, <1>6, <1>7, <1>8, <1>9, <1>10, <1>11,
      <1>12, <1>13, <1>14, <1>15, <1>16, <1>17, <1>18, <1>19, <1>20, <1>21,
      <1>22, <1>23, <1>24, <1>25, <1>26, <1>27, <1>28, <1>29, <1>30, <1>31,
      <1>32, <1>33, <1>34, <1>35 DEF Next, LaunchStep, AppStep, ServerStep,
      FaultStep

\* A server settles on leaving only with the lease to itself, so with no launch still
\* setting up, and with nobody in /proc, so with no application running either.
LEMMA NoPulloutStep ==
  unwritten = {} /\ Typed /\ LeaseLock /\ Phases /\ OneActive /\ MountMade
      /\ NoPullout /\ [Next]_vars => NoPullout'
<1> SUFFICES ASSUME unwritten = {}, Typed, LeaseLock, Phases, OneActive,
    MountMade, NoPullout, [Next]_vars PROVE NoPullout'
  OBVIOUS
<1> USE ShareMountAssumption DEF Typed, TypeOK, Phases, OneActive, MountMade,
    NoPullout, Active, Live, Mounted, InMount, Connected, Answers
<1>1. ASSUME NEW l \in Launch, OpenRecord(l) PROVE NoPullout'
  BY <1>1 DEF OpenRecord, launchVars, fileVars, mountVars
<1>2. ASSUME NEW l \in Launch, LockRecord(l) PROVE NoPullout'
  BY <1>2 DEF LockRecord, launchVars, fileVars, mountVars
<1>3. ASSUME NEW l \in Launch, RecordRemoved(l) PROVE NoPullout'
  BY <1>3 DEF RecordRemoved, RetriesLeft, launchVars, fileVars, mountVars
<1>4. ASSUME NEW l \in Launch, TakeLease(l) PROVE NoPullout'
  BY <1>4 DEF TakeLease, Joinable, Live, launchVars, fileVars, mountVars
<1>5. ASSUME NEW l \in Launch, DropRecord(l) PROVE NoPullout'
  BY <1>5 DEF DropRecord, launchVars, fileVars, mountVars
<1>6. ASSUME NEW l \in Launch, Enter(l) PROVE NoPullout'
  BY <1>6 DEF Enter, launchVars, fileVars, mountVars
<1>7. ASSUME NEW l \in Launch, Decline(l) PROVE NoPullout'
  BY <1>7 DEF Decline, GiveUp, launchVars, fileVars, mountVars
<1>8. ASSUME NEW l \in Launch, DeclineStranger(l) PROVE NoPullout'
  BY <1>8 DEF DeclineStranger, GiveUp, launchVars, fileVars, mountVars
<1>9. ASSUME NEW l \in Launch, NEW m \in Modes, Mount(l, m) PROVE NoPullout'
  BY <1>9 DEF Mount, launchVars, fileVars, mountVars, Vacant
<1>10. ASSUME NEW l \in Launch, Unmountable(l) PROVE NoPullout'
  BY <1>10 DEF Unmountable, GiveUp, launchVars, fileVars, mountVars, Vacant
<1>11. ASSUME NEW l \in Launch, MakeLease(l) PROVE NoPullout'
  BY <1>11 DEF MakeLease, LeaseFile, launchVars, fileVars, mountVars
<1>12. ASSUME NEW l \in Launch, CreateFails(l) PROVE NoPullout'
  BY <1>12 DEF CreateFails, CleanUpMountpoint, GiveUp, launchVars, fileVars, mountVars
<1>13. ASSUME NEW l \in Launch, ForkServer(l) PROVE NoPullout'
  BY <1>13 DEF ForkServer, launchVars, fileVars, mountVars
<1>14. ASSUME NEW l \in Launch, Spawn(l) PROVE NoPullout'
  BY <1>14 DEF Spawn, RecordFdsAfterSpawn, launchVars, fileVars, mountVars
<1>15. ASSUME NEW l \in Launch, SpawnFails(l) PROVE NoPullout'
  BY <1>15 DEF SpawnFails, launchVars, fileVars, mountVars
<1>16. ASSUME NEW l \in Launch, Exec(l) PROVE NoPullout'
  BY <1>16 DEF Exec, launchVars, fileVars, mountVars
<1>17. ASSUME NEW l \in Launch, AppExits(l) PROVE NoPullout'
  BY <1>17 DEF AppExits, launchVars, fileVars, mountVars
<1>18. ASSUME NEW l \in Launch, GuardianReleases(l) \/ AppCloses(l) PROVE
             NoPullout'
  BY <1>18 DEF GuardianReleases, AppCloses, launchVars, fileVars, mountVars
<1>19. ASSUME NEW l \in Launch, WriteRecord(l) PROVE NoPullout'
  BY <1>19 DEF WriteRecord, Fault, Goes, launchVars, fileVars, mountVars
<1>20. ASSUME NEW l \in Launch, StartPolling(l) PROVE NoPullout'
  BY <1>20 DEF StartPolling, Goes, Quiet, launchVars, fileVars, mountVars
<1>21. ASSUME NEW l \in Launch, ProbeLease(l) PROVE NoPullout'
  BY <1>21 DEF ProbeLease, Goes, Quiet, launchVars, fileVars, mountVars
<1>22. ASSUME NEW l \in Launch, ProbeRecord(l) PROVE NoPullout'
  BY <1>22 DEF ProbeRecord, Goes, Quiet, launchVars, fileVars, mountVars
<1>23. ASSUME NEW l \in Launch, RecordBusy(l) PROVE NoPullout'
  BY <1>23 DEF RecordBusy, Goes, Quiet, launchVars, fileVars, mountVars
<1>24. ASSUME NEW l \in Launch, StillUsed(l) PROVE NoPullout'
  BY <1>24 DEF StillUsed, Goes, Quiet, launchVars, fileVars, mountVars
<1>25. ASSUME NEW l \in Launch, Settle(l) PROVE NoPullout'
  BY <1>25 DEF Settle, Goes, Quiet, launchVars, fileVars, mountVars,
      LeaseLock, HoldsLease, LeaseUnshared, InUse, MountedFor
<1>26. ASSUME NEW l \in Launch, MountLost(l) PROVE NoPullout'
  BY <1>26 DEF MountLost, Goes, Quiet, launchVars, fileVars, mountVars
<1>27. ASSUME NEW l \in Launch, Relock(l) PROVE NoPullout'
  BY <1>27 DEF Relock, Goes, Quiet, launchVars, fileVars, mountVars
<1>28. ASSUME NEW l \in Launch, Unmount(l) PROVE NoPullout'
  BY <1>28 DEF Unmount, Goes, launchVars, fileVars, mountVars
<1>29. ASSUME NEW l \in Launch, Leave(l) PROVE NoPullout'
  BY <1>29 DEF Leave, RemoveOwnFiles, Goes, launchVars, fileVars, mountVars
<1>30. ASSUME NEW l \in Launch, KillServer(l) PROVE NoPullout'
  BY <1>30 DEF KillServer, Fault, launchVars, fileVars, mountVars
<1>31. ASSUME NEW l \in Launch, KillLaunch(l) PROVE NoPullout'
  BY <1>31 DEF KillLaunch, Fault, launchVars, fileVars, mountVars
<1>32. ASSUME NEW l \in Launch, ForcedUnmount(l) PROVE NoPullout'
  BY <1>32 DEF ForcedUnmount, Fault, launchVars, fileVars, mountVars
<1>33. ASSUME NEW l \in Launch, KillGuardian(l) PROVE NoPullout'
  BY <1>33 DEF KillGuardian, Fault, launchVars, fileVars, mountVars
<1>34. ASSUME SweepLocks \/ SweepRemoves PROVE NoPullout'
  BY <1>34 DEF SweepLocks, SweepRemoves, launchVars, fileVars, mountVars
<1>35. CASE UNCHANGED vars
  BY <1>35 DEF vars, launchVars, fileVars, mountVars
<1>36. QED
  BY <1>1, <1>2, <1>3, <1>4, <1>5, <1>6, <1>7, <1>8, <1>9, <1>10, <1>11,
      <1>12, <1>13, <1>14, <1>15, <1>16, <1>17, <1>18, <1>19, <1>20, <1>21,
      <1>22, <1>23, <1>24, <1>25, <1>26, <1>27, <1>28, <1>29, <1>30, <1>31,
      <1>32, <1>33, <1>34, <1>35 DEF Next, LaunchStep, AppStep, ServerStep,
      FaultStep

-----------------------------------------------------------------------------
\* Nothing is mounted, held or running at first.
LEMMA InitIInv == Init => IInv
<1> SUFFICES ASSUME Init PROVE IInv
  OBVIOUS
<1> USE ShareMountAssumption DEF Init
<1>1. Typed
  BY DEF Typed, TypeOK, LaunchPhase, ServerPhase
<1>2. RecordLock /\ LeaseLock
  BY DEF RecordLock, LeaseLock, HoldsRecord, HoldsLease
<1>3. Phases /\ Numbered
  BY DEF Phases, Numbered
<1>4. OneActive /\ RecordAtPath
  BY DEF OneActive, RecordAtPath, Active, Live
<1>5. MountMade /\ NoPullout
  BY DEF MountMade, NoPullout, InMount
<1>6. QED
  BY <1>1, <1>2, <1>3, <1>4, <1>5 DEF IInv

\* A record that was not written stays on the history.
LEMMA UnwrittenGrows == Typed /\ [Next]_vars => unwritten \subseteq unwritten'
<1> SUFFICES ASSUME Typed, [Next]_vars PROVE unwritten \subseteq unwritten'
  OBVIOUS
<1>1. ASSUME NEW l \in Launch, OpenRecord(l) \/ LockRecord(l) \/ RecordRemoved(l)
             \/ TakeLease(l) \/ DropRecord(l) \/ Enter(l) \/ Decline(l)
             \/ DeclineStranger(l) \/ (\E m \in Modes : Mount(l, m))
             \/ Unmountable(l) \/ MakeLease(l) \/ CreateFails(l) \/ ForkServer(l)
             \/ Spawn(l) \/ SpawnFails(l)
      PROVE  unwritten' = unwritten
  BY <1>1 DEF OpenRecord, LockRecord, RecordRemoved, TakeLease, DropRecord, Enter,
      Decline, DeclineStranger, Mount, Unmountable, MakeLease, CreateFails, CleanUpMountpoint,
      ForkServer, Spawn, SpawnFails
<1>2. ASSUME NEW l \in Launch, Exec(l) \/ AppExits(l) \/ GuardianReleases(l)
             \/ AppCloses(l) \/ KillServer(l) \/ KillGuardian(l) \/ KillLaunch(l)
             \/ ForcedUnmount(l)
      PROVE  unwritten' = unwritten
  BY <1>2 DEF Exec, AppExits, GuardianReleases, AppCloses, KillServer, KillGuardian,
      KillLaunch, ForcedUnmount
<1>3. ASSUME NEW l \in Launch, StartPolling(l) \/ ProbeLease(l) \/ ProbeRecord(l)
             \/ RecordBusy(l) \/ StillUsed(l) \/ Settle(l) \/ MountLost(l)
             \/ Relock(l) \/ Unmount(l) \/ Leave(l)
      PROVE  unwritten' = unwritten
  BY <1>3 DEF StartPolling, Quiet, ProbeLease, ProbeRecord, RecordBusy, StillUsed,
      Settle, MountLost, Relock, Unmount, Leave
<1>4. ASSUME NEW l \in Launch, WriteRecord(l) PROVE unwritten \subseteq unwritten'
  BY <1>4 DEF WriteRecord
<1>5. CASE SweepLocks \/ SweepRemoves
  BY <1>5 DEF SweepLocks, SweepRemoves
<1>6. CASE UNCHANGED vars
  BY <1>6 DEF vars
<1>7. QED
  BY <1>1, <1>2, <1>3, <1>4, <1>5, <1>6 DEF Next, LaunchStep, AppStep, ServerStep,
     FaultStep

\* The invariant is inductive.
LEMMA IInvStep == IInv /\ [Next]_vars => IInv'
<1> SUFFICES ASSUME IInv, [Next]_vars PROVE IInv'
  OBVIOUS
<1>1. Typed' /\ RecordLock' /\ LeaseLock' /\ Phases' /\ Numbered' /\ RecordAtPath'
  BY TypedStep, RecordLockStep, LeaseLockStep, PhasesStep, NumberedStep,
     RecordAtPathStep DEF IInv
<1>2. ASSUME unwritten' = {} PROVE OneActive' /\ MountMade' /\ NoPullout'
  <2>1. unwritten = {} /\ OneActive /\ MountMade /\ NoPullout
    BY <1>2, UnwrittenGrows DEF IInv
  <2>2. QED
    BY <2>1, OneActiveStep, MountMadeStep, NoPulloutStep DEF IInv
<1>3. QED
  BY <1>1, <1>2 DEF IInv

-----------------------------------------------------------------------------
\* Every variable keeps its type, whatever becomes of the record.
THEOREM TypeCorrect == Spec => []TypeOK
<1>1. Init => Typed
  BY InitIInv DEF IInv
<1>2. Typed => TypeOK
  BY DEF Typed
<1>3. QED
  BY <1>1, <1>2, TypedStep, PTL DEF Spec

\* The invariant holds throughout.
LEMMA Inductive == Spec => []IInv
<1>1. IInv /\ [Next]_vars => IInv'
  BY IInvStep
<1>2. QED
  BY <1>1, InitIInv, PTL DEF Spec

\* No launch loses the mount it runs from while it holds that mount's lease: the
\* server neither leaves nor unmounts under it (serve, idle, join and create).
THEOREM NoServerPullsOut == Spec => []NoPullout
<1>1. IInv => NoPullout
  BY DEF IInv, NoPullout
<1>2. QED
  BY <1>1, Inductive, PTL

\* Two servers never run at once (create, serve and reclaim_stale).
THEOREM ServersAreAlone == Spec => []OneServer
<1>1. IInv => OneServer
  BY DEF IInv, OneActive, OneServer, Active
<1>2. QED
  BY <1>1, Inductive, PTL

-----------------------------------------------------------------------------
(* Nobody waits in a circle.                                               *)

\* Whoever waits for somebody else: launches and servers.  A sweep tries the record
\* and waits for nobody, so it ends a wait.
Process == {"launch", "app", "server"} \X Launch

\* Process q keeps record file i locked.
HasRecord(q, i) ==
  /\ ino[q[2]] = i
  /\ q[1] \in recFds[q[2]] \/ (q[1] = "server" /\ HoldsRecord(q[2]))

\* Process p cannot go on before q has: a launch waits for the record's lock and then
\* for the lease's, a server for the end of the launch that forked it and, once its
\* mount is gone, for the record's lock.
Awaits(p, q) ==
  \/ p[1] = "launch" /\ pc[p[2]] = "opened" /\ HasRecord(q, ino[p[2]])
  \/ /\ p[1] = "launch" /\ pc[p[2]] = "locked" /\ Joinable(p[2])
     /\ leaseAt # Nobody /\ HoldsLease(leaseAt) /\ q = <<"server", leaseAt>>
  \/ p[1] = "server" /\ srv[p[2]] = "starting" /\ Mounted(p[2])
     /\ q[2] = p[2] /\ q[1] \in recFds[q[2]]
  \/ p[1] = "server" /\ srv[p[2]] = "unsettled" /\ HasRecord(q, ino[p[2]])

\* Whoever is waited for waits at most for one who waits for nobody, and an application
\* that is waited for has yet to exec, so it does not run on meanwhile.
WaitsEnd ==
  /\ \A p, q, r, t \in Process : Awaits(p, q) /\ Awaits(q, r) => ~Awaits(r, t)
  /\ \A p, q \in Process : Awaits(p, q) /\ q[1] = "app" => app[q[2]] = "starting"

\* A server has the inherited descriptor until it has one of its own, and an
\* application until its exec.
Inherited ==
  \A l \in Launch :
    /\ "server" \in recFds[l] => srv[l] = "born"
    /\ "app" \in recFds[l] => app[l] = "starting"

\* Every step keeps it: the descriptor is closed as the phase ends.
LEMMA InheritedStep ==
  Typed /\ Inherited /\ [Next]_vars => Inherited'
<1> SUFFICES ASSUME Typed, Inherited, [Next]_vars PROVE Inherited'
  OBVIOUS
<1> USE ShareMountAssumption DEF Typed, TypeOK, Inherited
<1>1. ASSUME NEW l \in Launch, OpenRecord(l) PROVE Inherited'
  BY <1>1 DEF OpenRecord, launchVars, fileVars, mountVars
<1>2. ASSUME NEW l \in Launch, LockRecord(l) PROVE Inherited'
  BY <1>2 DEF LockRecord, launchVars, fileVars, mountVars
<1>3. ASSUME NEW l \in Launch, RecordRemoved(l) PROVE Inherited'
  BY <1>3 DEF RecordRemoved, RetriesLeft, launchVars, fileVars, mountVars
<1>4. ASSUME NEW l \in Launch, TakeLease(l) PROVE Inherited'
  BY <1>4 DEF TakeLease, Joinable, Live, launchVars, fileVars, mountVars
<1>5. ASSUME NEW l \in Launch, DropRecord(l) PROVE Inherited'
  BY <1>5 DEF DropRecord, launchVars, fileVars, mountVars
<1>6. ASSUME NEW l \in Launch, Enter(l) PROVE Inherited'
  BY <1>6 DEF Enter, launchVars, fileVars, mountVars
<1>7. ASSUME NEW l \in Launch, Decline(l) PROVE Inherited'
  BY <1>7 DEF Decline, GiveUp, launchVars, fileVars, mountVars
<1>8. ASSUME NEW l \in Launch, DeclineStranger(l) PROVE Inherited'
  BY <1>8 DEF DeclineStranger, GiveUp, launchVars, fileVars, mountVars,
      Vacant
<1>9. ASSUME NEW l \in Launch, NEW m \in Modes, Mount(l, m) PROVE Inherited'
  BY <1>9 DEF Mount, launchVars, fileVars, mountVars, Vacant
<1>10. ASSUME NEW l \in Launch, Unmountable(l) PROVE Inherited'
  BY <1>10 DEF Unmountable, GiveUp, launchVars, fileVars, mountVars, Vacant
<1>11. ASSUME NEW l \in Launch, MakeLease(l) PROVE Inherited'
  BY <1>11 DEF MakeLease, LeaseFile, launchVars, fileVars, mountVars
<1>12. ASSUME NEW l \in Launch, CreateFails(l) PROVE Inherited'
  BY <1>12 DEF CreateFails, CleanUpMountpoint, GiveUp, launchVars, fileVars, mountVars
<1>13. ASSUME NEW l \in Launch, ForkServer(l) PROVE Inherited'
  BY <1>13 DEF ForkServer, launchVars, fileVars, mountVars
<1>14. ASSUME NEW l \in Launch, Spawn(l) PROVE Inherited'
  BY <1>14 DEF Spawn, RecordFdsAfterSpawn, launchVars, fileVars, mountVars
<1>15. ASSUME NEW l \in Launch, SpawnFails(l) PROVE Inherited'
  BY <1>15 DEF SpawnFails, launchVars, fileVars, mountVars
<1>16. ASSUME NEW l \in Launch, Exec(l) PROVE Inherited'
  BY <1>16 DEF Exec, launchVars, fileVars, mountVars
<1>17. ASSUME NEW l \in Launch, AppExits(l) PROVE Inherited'
  BY <1>17 DEF AppExits, launchVars, fileVars, mountVars
<1>18. ASSUME NEW l \in Launch, GuardianReleases(l) PROVE Inherited'
  BY <1>18 DEF GuardianReleases, launchVars, fileVars, mountVars
<1>19. ASSUME NEW l \in Launch, AppCloses(l) PROVE Inherited'
  BY <1>19 DEF AppCloses, launchVars, fileVars, mountVars
<1>20. ASSUME NEW l \in Launch, WriteRecord(l) PROVE Inherited'
  BY <1>20 DEF WriteRecord, Fault, Goes, launchVars, fileVars, mountVars
<1>21. ASSUME NEW l \in Launch, StartPolling(l) PROVE Inherited'
  BY <1>21 DEF StartPolling, Goes, Quiet, launchVars, fileVars, mountVars
<1>22. ASSUME NEW l \in Launch, ProbeLease(l) PROVE Inherited'
  BY <1>22 DEF ProbeLease, Goes, Quiet, launchVars, fileVars, mountVars
<1>23. ASSUME NEW l \in Launch, ProbeRecord(l) PROVE Inherited'
  BY <1>23 DEF ProbeRecord, Goes, Quiet, launchVars, fileVars, mountVars
<1>24. ASSUME NEW l \in Launch, RecordBusy(l) PROVE Inherited'
  BY <1>24 DEF RecordBusy, Goes, Quiet, launchVars, fileVars, mountVars
<1>25. ASSUME NEW l \in Launch, StillUsed(l) PROVE Inherited'
  BY <1>25 DEF StillUsed, Goes, Quiet, launchVars, fileVars, mountVars
<1>26. ASSUME NEW l \in Launch, Settle(l) PROVE Inherited'
  BY <1>26 DEF Settle, Goes, Quiet, launchVars, fileVars, mountVars
<1>27. ASSUME NEW l \in Launch, MountLost(l) PROVE Inherited'
  BY <1>27 DEF MountLost, Goes, Quiet, launchVars, fileVars, mountVars
<1>28. ASSUME NEW l \in Launch, Relock(l) PROVE Inherited'
  BY <1>28 DEF Relock, Goes, Quiet, launchVars, fileVars, mountVars
<1>29. ASSUME NEW l \in Launch, Unmount(l) PROVE Inherited'
  BY <1>29 DEF Unmount, Goes, launchVars, fileVars, mountVars
<1>30. ASSUME NEW l \in Launch, Leave(l) PROVE Inherited'
  BY <1>30 DEF Leave, RemoveOwnFiles, Goes, launchVars, fileVars, mountVars
<1>31. ASSUME NEW l \in Launch, KillServer(l) PROVE Inherited'
  BY <1>31 DEF KillServer, Fault, launchVars, fileVars, mountVars
<1>32. ASSUME NEW l \in Launch, KillGuardian(l) PROVE Inherited'
  BY <1>32 DEF KillGuardian, Fault, launchVars, fileVars, mountVars
<1>33. ASSUME NEW l \in Launch, KillLaunch(l) PROVE Inherited'
  BY <1>33 DEF KillLaunch, Fault, launchVars, fileVars, mountVars
<1>34. ASSUME NEW l \in Launch, ForcedUnmount(l) PROVE Inherited'
  BY <1>34 DEF ForcedUnmount, Fault, launchVars, fileVars, mountVars
<1>35. ASSUME SweepLocks \/ SweepRemoves PROVE Inherited'
  BY <1>35 DEF SweepLocks, SweepRemoves, launchVars, fileVars, mountVars
<1>36. CASE UNCHANGED vars
  BY <1>36 DEF vars, launchVars, fileVars, mountVars
<1>37. QED
  BY <1>1, <1>2, <1>3, <1>4, <1>5, <1>6, <1>7, <1>8, <1>9, <1>10, <1>11,
      <1>12, <1>13, <1>14, <1>15, <1>16, <1>17, <1>18, <1>19, <1>20, <1>21,
      <1>22, <1>23, <1>24, <1>25, <1>26, <1>27, <1>28, <1>29, <1>30, <1>31,
      <1>32, <1>33, <1>34, <1>35, <1>36 DEF Next, LaunchStep, AppStep,
      ServerStep, FaultStep

\* A launch that is waited for has locked the record, so it waits at most for a server
\* that tries the lease; and such a server is past waiting for anybody.
LEMMA WaitsAreShort ==
  Typed /\ Phases /\ Inherited => WaitsEnd
<1> SUFFICES ASSUME Typed, Phases, Inherited PROVE WaitsEnd
  OBVIOUS
<1> USE ShareMountAssumption DEF Process
\* Whoever is waited for.
<1> DEFINE Idler(q) ==
      \/ q[1] = "app" /\ app[q[2]] = "starting"
      \/ q[1] = "server" /\ srv[q[2]] \notin {"starting", "unsettled"}
<1>1. ASSUME NEW q \in Process, NEW r \in Process, Idler(q) PROVE ~Awaits(q, r)
  BY <1>1 DEF Awaits
<1>2. ASSUME NEW q \in Process, NEW i, HasRecord(q, i)
      PROVE  Idler(q) \/ (q[1] = "launch" /\ pc[q[2]] # "opened")
  BY <1>2 DEF HasRecord, HoldsRecord, Inherited, Phases
<1>3. ASSUME NEW p \in Process, NEW q \in Process, Awaits(p, q)
      PROVE  Idler(q) \/ (q[1] = "launch" /\ pc[q[2]] # "opened")
  <2>1. CASE HasRecord(q, ino[p[2]])
    BY <1>2, <2>1
  <2>2. CASE q = <<"server", leaseAt>> /\ HoldsLease(leaseAt)
    BY <2>2 DEF HoldsLease
  <2>3. CASE q[2] = p[2] /\ q[1] \in recFds[q[2]]
    BY <2>1, <2>3 DEF HasRecord
  <2> QED
    BY <1>3, <2>1, <2>2, <2>3 DEF Awaits
<1>4. ASSUME NEW q \in Process, NEW r \in Process, Awaits(q, r),
             q[1] = "launch", pc[q[2]] # "opened"
      PROVE  Idler(r)
  BY <1>4 DEF Awaits, HoldsLease
<1>5. ASSUME NEW p \in Process, NEW q \in Process, NEW r \in Process, NEW t \in Process,
             Awaits(p, q), Awaits(q, r)
      PROVE  ~Awaits(r, t)
  BY <1>1, <1>3, <1>4, <1>5
<1>6. ASSUME NEW p \in Process, NEW q \in Process, Awaits(p, q), q[1] = "app"
      PROVE  app[q[2]] = "starting"
  BY <1>3, <1>6
<1> QED
  BY <1>5, <1>6 DEF WaitsEnd

\* Launches and servers never come to a standstill over the record and the lease:
\* whoever one of them waits for goes on (WaitsEnd: lock_record, join, serve and
\* settle).
THEOREM NobodyWaitsInACircle == Spec => []WaitsEnd
<1>1. Init => Inherited
  BY DEF Init, Inherited
<1>2. IInv /\ Inherited /\ [Next]_vars => Inherited'
  BY InheritedStep DEF IInv
<1>3. IInv /\ Inherited => WaitsEnd
  BY WaitsAreShort DEF IInv
<1> QED
  BY Inductive, <1>1, <1>2, <1>3, PTL DEF Spec

-----------------------------------------------------------------------------
\* Only a server that leaves and a sweep take a record off its path.
LEMMA OnlyLeavesRecord ==
  [Next]_vars /\ recAt # 0 /\ recAt' # recAt =>
    (\E l \in Launch : Leave(l)) \/ SweepRemoves
<1> SUFFICES ASSUME [Next]_vars, recAt # 0, recAt' # recAt
             PROVE  (\E l \in Launch : Leave(l)) \/ SweepRemoves
  OBVIOUS
<1> USE DEF fileVars
<1>1. ASSUME NEW l \in Launch, OpenRecord(l) \/ LockRecord(l) \/
             RecordRemoved(l) \/ TakeLease(l) \/ DropRecord(l) \/ Enter(l) \/
             Decline(l) \/ DeclineStranger(l) \/ (\E m \in Modes : Mount(l,
             m)) \/ Unmountable(l) \/ MakeLease(l) \/ CreateFails(l) \/
             ForkServer(l) \/ Spawn(l) \/ SpawnFails(l) PROVE FALSE
  BY <1>1 DEF OpenRecord, LockRecord, RecordRemoved, RetriesLeft, TakeLease,
      Joinable, Live, DropRecord, Enter, Decline, GiveUp, DeclineStranger,
      Mount, Unmountable, MakeLease, LeaseFile, CreateFails, CleanUpMountpoint, ForkServer,
      Spawn, RecordFdsAfterSpawn, SpawnFails
<1>2. ASSUME NEW l \in Launch, Exec(l) \/ AppExits(l) \/ GuardianReleases(l)
             \/ AppCloses(l) PROVE FALSE
  BY <1>2 DEF Exec, AppExits, GuardianReleases, AppCloses
<1>3. ASSUME NEW l \in Launch, WriteRecord(l) \/ StartPolling(l) \/
             ProbeLease(l) \/ ProbeRecord(l) \/ RecordBusy(l) \/ StillUsed(l)
             \/ Settle(l) \/ MountLost(l) \/ Relock(l) \/ Unmount(l) PROVE
             FALSE
  BY <1>3 DEF WriteRecord, Goes, StartPolling, Quiet, ProbeLease,
      ProbeRecord, RecordBusy, StillUsed, Settle, MountLost, Relock, Unmount
<1>4. ASSUME NEW l \in Launch, KillServer(l) \/ KillGuardian(l) \/
             KillLaunch(l) \/ ForcedUnmount(l) PROVE FALSE
  BY <1>4 DEF KillServer, Fault, KillGuardian, KillLaunch, ForcedUnmount
<1>5. ASSUME SweepLocks PROVE FALSE
  BY <1>5 DEF SweepLocks
<1>6. ~UNCHANGED vars
  BY DEF vars
<1>7. QED
  BY <1>1, <1>2, <1>3, <1>4, <1>5, <1>6 DEF Next, LaunchStep, AppStep,
      ServerStep, FaultStep

\* The record is taken off its path only when the server it names is not running
\* any more (serve's cleanup and reclaim_stale).
THEOREM RecordsOutliveServers == Spec => RecordOutlivesServer
<1>1. IInv /\ [Next]_vars =>
        [\A s \in Launch :
           recAt # 0 /\ names[recAt] = s /\ recAt' # recAt => ~Live(s)']_vars
  <2> SUFFICES ASSUME IInv, [Next]_vars, NEW s \in Launch,
                      recAt # 0, names[recAt] = s, recAt' # recAt
               PROVE  ~Live(s)'
    OBVIOUS
  <2> USE DEF IInv, Typed, TypeOK, RecordAtPath
  <2>1. CASE \E l \in Launch : Leave(l)
    <3>1. PICK l \in Launch : Leave(l)
      BY <2>1
    <3>2. recAt = ino[l] /\ srv' = [srv EXCEPT ![l] = "gone"] /\ names[ino[l]] = l
      BY <3>1 DEF Leave, RemoveOwnFiles, Goes
    <3>3. QED
      BY <3>2 DEF Live
  <2>2. CASE SweepRemoves
    <3>1. ~Live(s) /\ srv' = srv
      BY <2>2 DEF SweepRemoves
    <3>2. QED
      BY <3>1 DEF Live
  <2>3. QED
    BY <2>1, <2>2, OnlyLeavesRecord
<1>2. QED
  BY <1>1, Inductive, PTL DEF Spec, RecordOutlivesServer
-----------------------------------------------------------------------------
(* The launches that join.                                                 *)

\* The lease at its path is the one of whoever is about to serve, and of the
\* running server the record names; a server's name is in its own record.
LeaseOfRecord ==
  /\ \A s \in Launch : pc[s] = "leaseMade" \/ srv[s] = "born" => leaseAt = s
  /\ recAt # 0 /\ Live(names[recAt]) => leaseAt = names[recAt]
  /\ \A i \in Ino : names[i] # Nobody =>
       ino[names[i]] = i /\ srv[names[i]] \notin {"none", "born"}

\* A launch that joins holds the lease of a mount whose first launch has handed
\* the record over; the first launch holds the record until then.
HandedOver ==
  /\ \A s \in Launch :
       /\ pc[s] = "served" => srv[s] # "none"
       /\ srv[s] # "none" /\ pc[s] = "served" => "launch" \in recFds[s]
       /\ srv[s] # "none" /\ app[s] = "starting" => "app" \in recFds[s]
  /\ \A l \in Launch :
       /\ pc[l] \in {"leased", "joining"} => leaseOn[l] = at[l]
       /\ InMount(l) \/ pc[l] \in {"leased", "joining"} =>
            leaseOn[l] \in Launch /\ srv[leaseOn[l]] # "none"

\* A server has its mount until it unmounts it, unless the mount was lost.
ServesMounted ==
  \A s \in Launch \ lost :
    /\ srv[s] \in {"born", "starting", "polling", "leaseTaken", "bothTaken", "settled"}
         => Mounted(s)
    /\ srv[s] \notin {"unsettled", "relocked", "relockedOut"}

\* It goes on serving a launch that joins.
ServesJoining ==
  \A l \in Launch :
    pc[l] \in {"leased", "joining"} /\ at[l] \notin lost
      => srv[at[l]] \in {"starting", "polling"}

\* The inductive invariant with what concerns the launches that join.
JoinInv ==
  /\ IInv /\ LeaseOfRecord /\ HandedOver /\ NoHalfMadeMount /\ LeavesNothing
  /\ unwritten = {} => ServesMounted /\ ServesJoining /\ WatchedUnlessLost

\* Lease and record are made, named and removed under the record's lock.
LEMMA LeaseOfRecordStep ==
  IInv /\ LeaseOfRecord /\ [Next]_vars => LeaseOfRecord'
<1> SUFFICES ASSUME IInv /\ LeaseOfRecord, [Next]_vars PROVE LeaseOfRecord'
  OBVIOUS
<1>a. /\ pc \in [Launch -> LaunchPhase]
      /\ ino \in [Launch -> 0..MaxIno]
      /\ recFds \in [Launch -> SUBSET {"launch", "app", "server"}]
      /\ recAt \in 0..MaxIno /\ made \in 0..MaxIno /\ MaxIno \in Nat
      /\ names \in [Ino -> Launch \cup {Nobody}]
      /\ leaseAt \in Launch \cup {Nobody}
      /\ srv \in [Launch -> ServerPhase]
      /\ Nobody \notin Launch
  BY ShareMountAssumption DEF IInv, Typed, TypeOK
<1> USE <1>a DEF Goes, Quiet, Fault, launchVars, fileVars, mountVars,
    LeaseOfRecord, Live
<1>1. ASSUME NEW l \in Launch, OpenRecord(l) PROVE LeaseOfRecord'
  <2>1. srv[l] = "none" /\ \A i \in Ino : names[i] # l
    BY <1>1 DEF OpenRecord, IInv, Phases
  <2>2. CASE UNCHANGED <<recAt, made, names>>
    BY <1>1, <2>1, <2>2 DEF OpenRecord
  <2>3. CASE recAt = 0 /\ recAt' = made + 1 /\ names' = [names EXCEPT ![made + 1] = Nobody]
    <3>1. names'[recAt'] = Nobody
      BY <1>1, <2>3 DEF OpenRecord, Ino
    <3> QED
      BY <1>1, <2>1, <2>3, <3>1 DEF OpenRecord
  <2> QED
    BY <1>1, <2>2, <2>3 DEF OpenRecord
<1>2. ASSUME NEW l \in Launch, LockRecord(l) PROVE LeaseOfRecord'
  BY <1>2 DEF LockRecord
<1>3. ASSUME NEW l \in Launch, RecordRemoved(l) PROVE LeaseOfRecord'
  BY <1>3 DEF RecordRemoved, RetriesLeft
<1>4. ASSUME NEW l \in Launch, TakeLease(l) PROVE LeaseOfRecord'
  BY <1>4 DEF TakeLease, Joinable
<1>5. ASSUME NEW l \in Launch, DropRecord(l) PROVE LeaseOfRecord'
  BY <1>5 DEF DropRecord
<1>6. ASSUME NEW l \in Launch, Enter(l) PROVE LeaseOfRecord'
  BY <1>6 DEF Enter
<1>7. ASSUME NEW l \in Launch, Decline(l) PROVE LeaseOfRecord'
  BY <1>7 DEF Decline, Joinable, GiveUp
<1>8. ASSUME NEW l \in Launch, DeclineStranger(l) PROVE LeaseOfRecord'
  BY <1>8 DEF DeclineStranger, Vacant, GiveUp
<1>9. ASSUME NEW l \in Launch, NEW m \in Modes, Mount(l, m) PROVE LeaseOfRecord'
  BY <1>9 DEF Mount, Vacant
<1>10. ASSUME NEW l \in Launch, Unmountable(l) PROVE LeaseOfRecord'
  BY <1>10 DEF Unmountable, Vacant, GiveUp
<1>11. ASSUME NEW l \in Launch, MakeLease(l) PROVE LeaseOfRecord'
  <2>1. ino[l] = recAt /\ ~Live(names[recAt]) /\ "launch" \in recFds[l]
    BY <1>11 DEF MakeLease, IInv, RecordAtPath, Phases
  <2>2. \A s \in Launch : s # l => pc[s] # "leaseMade" /\ srv[s] # "born"
    BY <2>1 DEF IInv, RecordAtPath, Phases, RecordLock
  <2>3. srv[l] # "born"
    BY <1>11 DEF MakeLease, IInv, Phases
  <2> QED
    BY <1>11, <2>1, <2>2, <2>3 DEF MakeLease, LeaseFile
<1>12. ASSUME NEW l \in Launch, CreateFails(l) PROVE LeaseOfRecord'
  BY <1>12 DEF CreateFails, CleanUpMountpoint, GiveUp
<1>13. ASSUME NEW l \in Launch, ForkServer(l) PROVE LeaseOfRecord'
  <2>1. \A i \in Ino : names[i] # l
    BY <1>13 DEF ForkServer, IInv, Phases
  <2>2. recAt # 0 => recAt \in Ino
    BY DEF Ino
  <2> QED
    BY <1>13, <2>1, <2>2 DEF ForkServer
<1>14. ASSUME NEW l \in Launch, Spawn(l) PROVE LeaseOfRecord'
  BY <1>14 DEF Spawn, RecordFdsAfterSpawn
<1>15. ASSUME NEW l \in Launch, SpawnFails(l) PROVE LeaseOfRecord'
  BY <1>15 DEF SpawnFails
<1>16. ASSUME NEW l \in Launch, Exec(l) PROVE LeaseOfRecord'
  BY <1>16 DEF Exec
<1>17. ASSUME NEW l \in Launch, AppExits(l) PROVE LeaseOfRecord'
  BY <1>17 DEF AppExits
<1>18. ASSUME NEW l \in Launch, GuardianReleases(l) PROVE LeaseOfRecord'
  BY <1>18 DEF GuardianReleases
<1>19. ASSUME NEW l \in Launch, AppCloses(l) PROVE LeaseOfRecord'
  BY <1>19 DEF AppCloses
<1>20. ASSUME NEW s \in Launch, WriteRecord(s) PROVE LeaseOfRecord'
  <2>1. ino[s] = recAt /\ recAt \in Ino
    <3>1. pc[s] # "start"
      BY <1>20 DEF WriteRecord, IInv, Phases
    <3> QED
      BY <1>20, <3>1 DEF WriteRecord, IInv, RecordAtPath, Numbered, Ino
  <2>2. leaseAt = s /\ \A i \in Ino : names[i] # s
    BY <1>20 DEF WriteRecord
  <2>3. /\ \A i \in Ino : i # recAt => names'[i] = names[i]
        /\ names'[recAt] \in {s, names[recAt], Nobody}
    BY <1>20, <2>1 DEF WriteRecord
  <2>4. /\ ino' = ino /\ recAt' = recAt /\ leaseAt' = leaseAt /\ pc' = pc
        /\ srv'[s] = "starting" /\ \A x \in Launch : x # s => srv'[x] = srv[x]
    BY <1>20 DEF WriteRecord
  <2> QED
    BY <2>1, <2>2, <2>3, <2>4
<1>21. ASSUME NEW s \in Launch, StartPolling(s) PROVE LeaseOfRecord'
  BY <1>21 DEF StartPolling
<1>22. ASSUME NEW s \in Launch, ProbeLease(s) PROVE LeaseOfRecord'
  BY <1>22 DEF ProbeLease
<1>23. ASSUME NEW s \in Launch, ProbeRecord(s) PROVE LeaseOfRecord'
  BY <1>23 DEF ProbeRecord
<1>24. ASSUME NEW s \in Launch, RecordBusy(s) PROVE LeaseOfRecord'
  BY <1>24 DEF RecordBusy
<1>25. ASSUME NEW s \in Launch, StillUsed(s) PROVE LeaseOfRecord'
  BY <1>25 DEF StillUsed
<1>26. ASSUME NEW s \in Launch, Settle(s) PROVE LeaseOfRecord'
  BY <1>26 DEF Settle
<1>27. ASSUME NEW s \in Launch, MountLost(s) PROVE LeaseOfRecord'
  BY <1>27 DEF MountLost
<1>28. ASSUME NEW s \in Launch, Relock(s) PROVE LeaseOfRecord'
  BY <1>28 DEF Relock
<1>29. ASSUME NEW s \in Launch, Unmount(s) PROVE LeaseOfRecord'
  BY <1>29 DEF Unmount
<1>30. ASSUME NEW s \in Launch, Leave(s) PROVE LeaseOfRecord'
  <2>1. HoldsRecord(s) /\ srv[s] # "born" /\ pc[s] # "leaseMade"
    BY <1>30 DEF Leave, HoldsRecord, IInv, Phases
  <2>2. CASE names[ino[s]] = s /\ recAt = ino[s]
    <3>1. \A x \in Launch : pc[x] # "leaseMade" /\ srv[x] # "born"
      BY <2>1, <2>2 DEF IInv, RecordAtPath, Phases, RecordLock
    <3> QED
      BY <1>30, <2>2, <3>1 DEF Leave, RemoveOwnFiles
  <2>3. CASE names[ino[s]] = s /\ recAt # ino[s]
    <3>1. recAt # 0 => recAt \in Ino
      BY DEF Ino
    <3> QED
      BY <1>30, <2>1, <2>3, <3>1 DEF Leave, RemoveOwnFiles
  <2>4. CASE names[ino[s]] # s
    BY <1>30, <2>4 DEF Leave, RemoveOwnFiles
  <2> QED
    BY <2>2, <2>3, <2>4
<1>31. ASSUME NEW s \in Launch, KillServer(s) PROVE LeaseOfRecord'
  BY <1>31 DEF KillServer
<1>32. ASSUME NEW l \in Launch, KillGuardian(l) PROVE LeaseOfRecord'
  BY <1>32 DEF KillGuardian
<1>33. ASSUME NEW l \in Launch, KillLaunch(l) PROVE LeaseOfRecord'
  BY <1>33 DEF KillLaunch
<1>34. ASSUME NEW s \in Launch, ForcedUnmount(s) PROVE LeaseOfRecord'
  BY <1>34 DEF ForcedUnmount
<1>35. ASSUME SweepLocks PROVE LeaseOfRecord'
  BY <1>35 DEF SweepLocks, Stale
<1>36. ASSUME SweepRemoves PROVE LeaseOfRecord'
  <2>1. \A x \in Launch : pc[x] # "leaseMade" /\ srv[x] # "born"
    BY <1>36 DEF SweepRemoves, IInv, RecordAtPath, Phases, RecordLock
  <2> QED
    BY <1>36, <2>1 DEF SweepRemoves
<1>37. CASE UNCHANGED vars
  BY <1>37 DEF vars
<1> QED
  BY <1>1, <1>2, <1>3, <1>4, <1>5, <1>6, <1>7, <1>8, <1>9, <1>10, <1>11, <1>12,
    <1>13, <1>14, <1>15, <1>16, <1>17, <1>18, <1>19, <1>20, <1>21, <1>22,
    <1>23, <1>24, <1>25, <1>26, <1>27, <1>28, <1>29, <1>30, <1>31, <1>32,
    <1>33, <1>34, <1>35, <1>36, <1>37 DEF Next, LaunchStep, AppStep,
    ServerStep, FaultStep

\* The record's lock goes to the application and closes at its exec.
LEMMA HandedOverStep ==
  IInv /\ LeaseOfRecord /\ HandedOver /\ [Next]_vars => HandedOver'
<1> SUFFICES ASSUME IInv /\ LeaseOfRecord /\ HandedOver, [Next]_vars PROVE HandedOver'
  OBVIOUS
<1>a. /\ pc \in [Launch -> LaunchPhase]
      /\ recFds \in [Launch -> SUBSET {"launch", "app", "server"}]
      /\ leaseOn \in [Launch -> Launch \cup {Nobody}]
      /\ at \in [Launch -> Launch \cup {Nobody}]
      /\ app \in [Launch -> {"none", "starting", "up", "gone"}]
      /\ names \in [Ino -> Launch \cup {Nobody}]
      /\ leaseAt \in Launch \cup {Nobody}
      /\ srv \in [Launch -> ServerPhase]
      /\ ino \in [Launch -> 0..MaxIno]
      /\ Nobody \notin Launch
  BY ShareMountAssumption DEF IInv, Typed, TypeOK
<1> USE <1>a DEF Goes, Quiet, Fault, launchVars, fileVars, mountVars,
    HandedOver, InMount, Live
<1>1. ASSUME NEW l \in Launch, OpenRecord(l) PROVE HandedOver'
  BY <1>1 DEF OpenRecord
<1>2. ASSUME NEW l \in Launch, LockRecord(l) PROVE HandedOver'
  <2>1. srv[l] = "none" /\ app[l] = "none"
    BY <1>2 DEF LockRecord, IInv, Phases
  <2> QED
    BY <1>2, <2>1 DEF LockRecord
<1>3. ASSUME NEW l \in Launch, RecordRemoved(l) PROVE HandedOver'
  BY <1>3 DEF RecordRemoved, RetriesLeft
<1>4. ASSUME NEW l \in Launch, TakeLease(l) PROVE HandedOver'
  <2>1. ino[l] = recAt /\ recAt # 0 /\ app[l] = "none"
    BY <1>4 DEF TakeLease, IInv, RecordAtPath, Numbered, Phases
  <2> QED
    BY <1>4, <2>1 DEF TakeLease, Joinable, LeaseOfRecord
<1>5. ASSUME NEW l \in Launch, DropRecord(l) PROVE HandedOver'
  BY <1>5 DEF DropRecord
<1>6. ASSUME NEW l \in Launch, Enter(l) PROVE HandedOver'
  BY <1>6 DEF Enter
<1>7. ASSUME NEW l \in Launch, Decline(l) PROVE HandedOver'
  BY <1>7 DEF Decline, Joinable, GiveUp
<1>8. ASSUME NEW l \in Launch, DeclineStranger(l) PROVE HandedOver'
  BY <1>8 DEF DeclineStranger, Vacant, GiveUp
<1>9. ASSUME NEW l \in Launch, NEW m \in Modes, Mount(l, m) PROVE HandedOver'
  BY <1>9 DEF Mount, Vacant
<1>10. ASSUME NEW l \in Launch, Unmountable(l) PROVE HandedOver'
  BY <1>10 DEF Unmountable, Vacant, GiveUp
<1>11. ASSUME NEW l \in Launch, MakeLease(l) PROVE HandedOver'
  <2>1. app[l] = "none"
    BY <1>11 DEF MakeLease, IInv, Phases
  <2> QED
    BY <1>11, <2>1 DEF MakeLease, LeaseFile
<1>12. ASSUME NEW l \in Launch, CreateFails(l) PROVE HandedOver'
  BY <1>12 DEF CreateFails, CleanUpMountpoint, GiveUp
<1>13. ASSUME NEW l \in Launch, ForkServer(l) PROVE HandedOver'
  <2>1. "launch" \in recFds[l] /\ leaseOn[l] = l /\ app[l] = "none"
    BY <1>13 DEF ForkServer, IInv, Phases
  <2> QED
    BY <1>13, <2>1 DEF ForkServer
<1>14. ASSUME NEW l \in Launch, Spawn(l) PROVE HandedOver'
  <2>1. pc[l] = "entered" => srv[l] = "none"
    BY <1>14 DEF Spawn, IInv, Phases
  <2> QED
    BY <1>14, <2>1 DEF Spawn, RecordFdsAfterSpawn
<1>15. ASSUME NEW l \in Launch, SpawnFails(l) PROVE HandedOver'
  BY <1>15 DEF SpawnFails
<1>16. ASSUME NEW l \in Launch, Exec(l) PROVE HandedOver'
  BY <1>16 DEF Exec
<1>17. ASSUME NEW l \in Launch, AppExits(l) PROVE HandedOver'
  BY <1>17 DEF AppExits
<1>18. ASSUME NEW l \in Launch, GuardianReleases(l) PROVE HandedOver'
  BY <1>18 DEF GuardianReleases
<1>19. ASSUME NEW l \in Launch, AppCloses(l) PROVE HandedOver'
  BY <1>19 DEF AppCloses
<1>20. ASSUME NEW s \in Launch, WriteRecord(s) PROVE HandedOver'
  BY <1>20 DEF WriteRecord
<1>21. ASSUME NEW s \in Launch, StartPolling(s) PROVE HandedOver'
  BY <1>21 DEF StartPolling
<1>22. ASSUME NEW s \in Launch, ProbeLease(s) PROVE HandedOver'
  BY <1>22 DEF ProbeLease
<1>23. ASSUME NEW s \in Launch, ProbeRecord(s) PROVE HandedOver'
  BY <1>23 DEF ProbeRecord
<1>24. ASSUME NEW s \in Launch, RecordBusy(s) PROVE HandedOver'
  BY <1>24 DEF RecordBusy
<1>25. ASSUME NEW s \in Launch, StillUsed(s) PROVE HandedOver'
  BY <1>25 DEF StillUsed
<1>26. ASSUME NEW s \in Launch, Settle(s) PROVE HandedOver'
  BY <1>26 DEF Settle
<1>27. ASSUME NEW s \in Launch, MountLost(s) PROVE HandedOver'
  BY <1>27 DEF MountLost
<1>28. ASSUME NEW s \in Launch, Relock(s) PROVE HandedOver'
  BY <1>28 DEF Relock
<1>29. ASSUME NEW s \in Launch, Unmount(s) PROVE HandedOver'
  BY <1>29 DEF Unmount
<1>30. ASSUME NEW s \in Launch, Leave(s) PROVE HandedOver'
  BY <1>30 DEF Leave, RemoveOwnFiles
<1>31. ASSUME NEW s \in Launch, KillServer(s) PROVE HandedOver'
  BY <1>31 DEF KillServer
<1>32. ASSUME NEW l \in Launch, KillGuardian(l) PROVE HandedOver'
  BY <1>32 DEF KillGuardian
<1>33. ASSUME NEW l \in Launch, KillLaunch(l) PROVE HandedOver'
  BY <1>33 DEF KillLaunch
<1>34. ASSUME NEW s \in Launch, ForcedUnmount(s) PROVE HandedOver'
  BY <1>34 DEF ForcedUnmount
<1>35. ASSUME SweepLocks PROVE HandedOver'
  BY <1>35 DEF SweepLocks, Stale
<1>36. ASSUME SweepRemoves PROVE HandedOver'
  BY <1>36 DEF SweepRemoves
<1>37. CASE UNCHANGED vars
  BY <1>37 DEF vars
<1> QED
  BY <1>1, <1>2, <1>3, <1>4, <1>5, <1>6, <1>7, <1>8, <1>9, <1>10, <1>11, <1>12,
    <1>13, <1>14, <1>15, <1>16, <1>17, <1>18, <1>19, <1>20, <1>21, <1>22,
    <1>23, <1>24, <1>25, <1>26, <1>27, <1>28, <1>29, <1>30, <1>31, <1>32,
    <1>33, <1>34, <1>35, <1>36, <1>37 DEF Next, LaunchStep, AppStep,
    ServerStep, FaultStep

\* Whoever joins held the record after the first launch let go of it.
LEMMA NoHalfMadeMountStep ==
  IInv /\ LeaseOfRecord /\ HandedOver /\ NoHalfMadeMount /\ [Next]_vars =>
    NoHalfMadeMount'
<1> SUFFICES ASSUME IInv /\ LeaseOfRecord /\ HandedOver /\ NoHalfMadeMount,
                [Next]_vars
         PROVE  NoHalfMadeMount'
  OBVIOUS
<1>a. /\ pc \in [Launch -> LaunchPhase]
      /\ recFds \in [Launch -> SUBSET {"launch", "app", "server"}]
      /\ leaseOn \in [Launch -> Launch \cup {Nobody}]
      /\ at \in [Launch -> Launch \cup {Nobody}]
      /\ app \in [Launch -> {"none", "starting", "up", "gone"}]
      /\ names \in [Ino -> Launch \cup {Nobody}]
      /\ leaseAt \in Launch \cup {Nobody}
      /\ srv \in [Launch -> ServerPhase]
      /\ ino \in [Launch -> 0..MaxIno]
      /\ Nobody \notin Launch
  BY ShareMountAssumption DEF IInv, Typed, TypeOK
<1> USE <1>a DEF Goes, Quiet, Fault, launchVars, fileVars, mountVars,
    NoHalfMadeMount, Live, HandedOver
<1>1. ASSUME NEW l \in Launch, OpenRecord(l) PROVE NoHalfMadeMount'
  BY <1>1 DEF OpenRecord
<1>2. ASSUME NEW l \in Launch, LockRecord(l) PROVE NoHalfMadeMount'
  BY <1>2 DEF LockRecord
<1>3. ASSUME NEW l \in Launch, RecordRemoved(l) PROVE NoHalfMadeMount'
  BY <1>3 DEF RecordRemoved, RetriesLeft
<1>4. ASSUME NEW l \in Launch, TakeLease(l) PROVE NoHalfMadeMount'
  <2>1. /\ pc[l] = "locked" /\ ino[l] = recAt /\ recAt \in Ino /\ "launch" \in recFds[l]
    BY <1>4 DEF TakeLease, IInv, RecordAtPath, Numbered, Phases, Ino
  <2> DEFINE s == names[ino[l]]
  <2>2. s \in Launch /\ srv[s] # "none" /\ ino[s] = ino[l] /\ s # l
    BY <1>4, <2>1 DEF TakeLease, Joinable, LeaseOfRecord, IInv, Phases
  <2>3. recFds[s] = {}
    BY <2>1, <2>2 DEF IInv, RecordLock
  <2>4. app[s] # "starting" /\ pc[s] \in {"running", "failed", "killed"}
    BY <2>2, <2>3 DEF IInv, Phases
  <2> QED
    BY <1>4, <2>2, <2>4 DEF TakeLease
<1>5. ASSUME NEW l \in Launch, DropRecord(l) PROVE NoHalfMadeMount'
  BY <1>5 DEF DropRecord
<1>6. ASSUME NEW l \in Launch, Enter(l) PROVE NoHalfMadeMount'
  BY <1>6 DEF Enter
<1>7. ASSUME NEW l \in Launch, Decline(l) PROVE NoHalfMadeMount'
  BY <1>7 DEF Decline, Joinable, GiveUp
<1>8. ASSUME NEW l \in Launch, DeclineStranger(l) PROVE NoHalfMadeMount'
  BY <1>8 DEF DeclineStranger, Vacant, GiveUp
<1>9. ASSUME NEW l \in Launch, NEW m \in Modes, Mount(l, m) PROVE NoHalfMadeMount'
  BY <1>9 DEF Mount, Vacant
<1>10. ASSUME NEW l \in Launch, Unmountable(l) PROVE NoHalfMadeMount'
  BY <1>10 DEF Unmountable, Vacant, GiveUp
<1>11. ASSUME NEW l \in Launch, MakeLease(l) PROVE NoHalfMadeMount'
  BY <1>11 DEF MakeLease, LeaseFile
<1>12. ASSUME NEW l \in Launch, CreateFails(l) PROVE NoHalfMadeMount'
  BY <1>12 DEF CreateFails, CleanUpMountpoint, GiveUp
<1>13. ASSUME NEW l \in Launch, ForkServer(l) PROVE NoHalfMadeMount'
  BY <1>13 DEF ForkServer
<1>14. ASSUME NEW l \in Launch, Spawn(l) PROVE NoHalfMadeMount'
  BY <1>14 DEF Spawn, RecordFdsAfterSpawn
<1>15. ASSUME NEW l \in Launch, SpawnFails(l) PROVE NoHalfMadeMount'
  BY <1>15 DEF SpawnFails
<1>16. ASSUME NEW l \in Launch, Exec(l) PROVE NoHalfMadeMount'
  BY <1>16 DEF Exec
<1>17. ASSUME NEW l \in Launch, AppExits(l) PROVE NoHalfMadeMount'
  BY <1>17 DEF AppExits
<1>18. ASSUME NEW l \in Launch, GuardianReleases(l) PROVE NoHalfMadeMount'
  BY <1>18 DEF GuardianReleases
<1>19. ASSUME NEW l \in Launch, AppCloses(l) PROVE NoHalfMadeMount'
  BY <1>19 DEF AppCloses
<1>20. ASSUME NEW s \in Launch, WriteRecord(s) PROVE NoHalfMadeMount'
  BY <1>20 DEF WriteRecord
<1>21. ASSUME NEW s \in Launch, StartPolling(s) PROVE NoHalfMadeMount'
  BY <1>21 DEF StartPolling
<1>22. ASSUME NEW s \in Launch, ProbeLease(s) PROVE NoHalfMadeMount'
  BY <1>22 DEF ProbeLease
<1>23. ASSUME NEW s \in Launch, ProbeRecord(s) PROVE NoHalfMadeMount'
  BY <1>23 DEF ProbeRecord
<1>24. ASSUME NEW s \in Launch, RecordBusy(s) PROVE NoHalfMadeMount'
  BY <1>24 DEF RecordBusy
<1>25. ASSUME NEW s \in Launch, StillUsed(s) PROVE NoHalfMadeMount'
  BY <1>25 DEF StillUsed
<1>26. ASSUME NEW s \in Launch, Settle(s) PROVE NoHalfMadeMount'
  BY <1>26 DEF Settle
<1>27. ASSUME NEW s \in Launch, MountLost(s) PROVE NoHalfMadeMount'
  BY <1>27 DEF MountLost
<1>28. ASSUME NEW s \in Launch, Relock(s) PROVE NoHalfMadeMount'
  BY <1>28 DEF Relock
<1>29. ASSUME NEW s \in Launch, Unmount(s) PROVE NoHalfMadeMount'
  BY <1>29 DEF Unmount
<1>30. ASSUME NEW s \in Launch, Leave(s) PROVE NoHalfMadeMount'
  BY <1>30 DEF Leave, RemoveOwnFiles
<1>31. ASSUME NEW s \in Launch, KillServer(s) PROVE NoHalfMadeMount'
  BY <1>31 DEF KillServer
<1>32. ASSUME NEW l \in Launch, KillGuardian(l) PROVE NoHalfMadeMount'
  BY <1>32 DEF KillGuardian
<1>33. ASSUME NEW l \in Launch, KillLaunch(l) PROVE NoHalfMadeMount'
  BY <1>33 DEF KillLaunch
<1>34. ASSUME NEW s \in Launch, ForcedUnmount(s) PROVE NoHalfMadeMount'
  BY <1>34 DEF ForcedUnmount
<1>35. ASSUME SweepLocks PROVE NoHalfMadeMount'
  BY <1>35 DEF SweepLocks, Stale
<1>36. ASSUME SweepRemoves PROVE NoHalfMadeMount'
  BY <1>36 DEF SweepRemoves
<1>37. CASE UNCHANGED vars
  BY <1>37 DEF vars
<1> QED
  BY <1>1, <1>2, <1>3, <1>4, <1>5, <1>6, <1>7, <1>8, <1>9, <1>10, <1>11, <1>12,
    <1>13, <1>14, <1>15, <1>16, <1>17, <1>18, <1>19, <1>20, <1>21, <1>22,
    <1>23, <1>24, <1>25, <1>26, <1>27, <1>28, <1>29, <1>30, <1>31, <1>32,
    <1>33, <1>34, <1>35, <1>36, <1>37 DEF Next, LaunchStep, AppStep,
    ServerStep, FaultStep

\* The two halves of LeavesNothing.
FilesGone ==
  \A s \in Launch \ unwritten :
    srv[s] = "gone" => leaseAt # s /\ (recAt # 0 => names[recAt] # s)
MountsKept ==
  \A s \in Launch \ lost :
    Mounted(s) =>
      \/ pc[s] \in {"mounted", "leaseMade"}
      \/ srv[s] \notin {"none", "settledOut", "relockedOut", "gone", "killed"}
      \/ pc[s] = "killed" /\ srv[s] = "none" /\ mode[s] = "host"

\* A server that leaves holds the record at the path, which names it.
LEMMA FilesGoneStep ==
  IInv /\ FilesGone /\ [Next]_vars => FilesGone'
<1> SUFFICES ASSUME IInv /\ FilesGone, [Next]_vars PROVE FilesGone'
  OBVIOUS
<1>a. /\ pc \in [Launch -> LaunchPhase]
      /\ ino \in [Launch -> 0..MaxIno]
      /\ recAt \in 0..MaxIno /\ made \in 0..MaxIno /\ MaxIno \in Nat
      /\ names \in [Ino -> Launch \cup {Nobody}]
      /\ leaseAt \in Launch \cup {Nobody}
      /\ srv \in [Launch -> ServerPhase]
      /\ Nobody \notin Launch
      /\ lost \subseteq Launch /\ unwritten \subseteq Launch
  BY ShareMountAssumption DEF IInv, Typed, TypeOK
<1> USE <1>a DEF Goes, Quiet, Fault, launchVars, fileVars, mountVars,
    FilesGone
<1>1. ASSUME NEW l \in Launch, OpenRecord(l) PROVE FilesGone'
  <2>1. CASE UNCHANGED <<recAt, made, names>>
    BY <1>1, <2>1 DEF OpenRecord
  <2>2. CASE recAt' = made + 1 /\ names' = [names EXCEPT ![made + 1] = Nobody] /\ made < MaxIno
    <3>1. names'[recAt'] = Nobody
      BY <1>1, <2>2 DEF OpenRecord, Ino
    <3> QED
      BY <1>1, <3>1 DEF OpenRecord
  <2> QED
    BY <1>1, <2>1, <2>2 DEF OpenRecord
<1>2. ASSUME NEW l \in Launch, LockRecord(l) PROVE FilesGone'
  BY <1>2 DEF LockRecord
<1>3. ASSUME NEW l \in Launch, RecordRemoved(l) PROVE FilesGone'
  BY <1>3 DEF RecordRemoved, RetriesLeft
<1>4. ASSUME NEW l \in Launch, TakeLease(l) PROVE FilesGone'
  BY <1>4 DEF TakeLease, Joinable
<1>5. ASSUME NEW l \in Launch, DropRecord(l) PROVE FilesGone'
  BY <1>5 DEF DropRecord
<1>6. ASSUME NEW l \in Launch, Enter(l) PROVE FilesGone'
  BY <1>6 DEF Enter
<1>7. ASSUME NEW l \in Launch, Decline(l) PROVE FilesGone'
  BY <1>7 DEF Decline, Joinable, GiveUp
<1>8. ASSUME NEW l \in Launch, DeclineStranger(l) PROVE FilesGone'
  BY <1>8 DEF DeclineStranger, Vacant, GiveUp
<1>9. ASSUME NEW l \in Launch, NEW m \in Modes, Mount(l, m) PROVE FilesGone'
  BY <1>9 DEF Mount, Vacant
<1>10. ASSUME NEW l \in Launch, Unmountable(l) PROVE FilesGone'
  BY <1>10 DEF Unmountable, Vacant, GiveUp
<1>11. ASSUME NEW l \in Launch, MakeLease(l) PROVE FilesGone'
  <2>1. srv[l] # "gone"
    BY <1>11 DEF MakeLease, IInv, Phases
  <2> QED
    BY <1>11, <2>1 DEF MakeLease, LeaseFile
<1>12. ASSUME NEW l \in Launch, CreateFails(l) PROVE FilesGone'
  BY <1>12 DEF CreateFails, CleanUpMountpoint, GiveUp
<1>13. ASSUME NEW l \in Launch, ForkServer(l) PROVE FilesGone'
  BY <1>13 DEF ForkServer
<1>14. ASSUME NEW l \in Launch, Spawn(l) PROVE FilesGone'
  BY <1>14 DEF Spawn, RecordFdsAfterSpawn
<1>15. ASSUME NEW l \in Launch, SpawnFails(l) PROVE FilesGone'
  BY <1>15 DEF SpawnFails
<1>16. ASSUME NEW l \in Launch, Exec(l) PROVE FilesGone'
  BY <1>16 DEF Exec
<1>17. ASSUME NEW l \in Launch, AppExits(l) PROVE FilesGone'
  BY <1>17 DEF AppExits
<1>18. ASSUME NEW l \in Launch, GuardianReleases(l) PROVE FilesGone'
  BY <1>18 DEF GuardianReleases
<1>19. ASSUME NEW l \in Launch, AppCloses(l) PROVE FilesGone'
  BY <1>19 DEF AppCloses
<1>20. ASSUME NEW s \in Launch, WriteRecord(s) PROVE FilesGone'
  <2>1. \A i \in Ino : names'[i] \in {s, names[i], Nobody}
    BY <1>20 DEF WriteRecord
  <2>2. recAt # 0 => recAt \in Ino
    BY DEF Ino
  <2> QED
    BY <1>20, <2>1, <2>2 DEF WriteRecord
<1>21. ASSUME NEW s \in Launch, StartPolling(s) PROVE FilesGone'
  BY <1>21 DEF StartPolling
<1>22. ASSUME NEW s \in Launch, ProbeLease(s) PROVE FilesGone'
  BY <1>22 DEF ProbeLease
<1>23. ASSUME NEW s \in Launch, ProbeRecord(s) PROVE FilesGone'
  BY <1>23 DEF ProbeRecord
<1>24. ASSUME NEW s \in Launch, RecordBusy(s) PROVE FilesGone'
  BY <1>24 DEF RecordBusy
<1>25. ASSUME NEW s \in Launch, StillUsed(s) PROVE FilesGone'
  BY <1>25 DEF StillUsed
<1>26. ASSUME NEW s \in Launch, Settle(s) PROVE FilesGone'
  BY <1>26 DEF Settle
<1>27. ASSUME NEW s \in Launch, MountLost(s) PROVE FilesGone'
  BY <1>27 DEF MountLost
<1>28. ASSUME NEW s \in Launch, Relock(s) PROVE FilesGone'
  BY <1>28 DEF Relock
<1>29. ASSUME NEW s \in Launch, Unmount(s) PROVE FilesGone'
  BY <1>29 DEF Unmount
<1>30. ASSUME NEW s \in Launch, Leave(s) PROVE FilesGone'
  <2>1. s \notin unwritten => ino[s] = recAt /\ names[ino[s]] = s
    BY <1>30 DEF Leave, IInv, RecordAtPath, Live
  <2> QED
    BY <1>30, <2>1 DEF Leave, RemoveOwnFiles
<1>31. ASSUME NEW s \in Launch, KillServer(s) PROVE FilesGone'
  BY <1>31 DEF KillServer
<1>32. ASSUME NEW l \in Launch, KillGuardian(l) PROVE FilesGone'
  BY <1>32 DEF KillGuardian
<1>33. ASSUME NEW l \in Launch, KillLaunch(l) PROVE FilesGone'
  BY <1>33 DEF KillLaunch
<1>34. ASSUME NEW s \in Launch, ForcedUnmount(s) PROVE FilesGone'
  BY <1>34 DEF ForcedUnmount
<1>35. ASSUME SweepLocks PROVE FilesGone'
  BY <1>35 DEF SweepLocks, Stale
<1>36. ASSUME SweepRemoves PROVE FilesGone'
  BY <1>36 DEF SweepRemoves
<1>37. CASE UNCHANGED vars
  BY <1>37 DEF vars
<1> QED
  BY <1>1, <1>2, <1>3, <1>4, <1>5, <1>6, <1>7, <1>8, <1>9, <1>10, <1>11, <1>12,
    <1>13, <1>14, <1>15, <1>16, <1>17, <1>18, <1>19, <1>20, <1>21, <1>22,
    <1>23, <1>24, <1>25, <1>26, <1>27, <1>28, <1>29, <1>30, <1>31, <1>32,
    <1>33, <1>34, <1>35, <1>36, <1>37 DEF Next, LaunchStep, AppStep,
    ServerStep, FaultStep

\* A mount is handed from the launch that made it to its server, which unmounts it.
LEMMA MountsKeptStep ==
  IInv /\ MountsKept /\ [Next]_vars => MountsKept'
<1> SUFFICES ASSUME IInv /\ MountsKept, [Next]_vars PROVE MountsKept'
  OBVIOUS
<1>a. /\ pc \in [Launch -> LaunchPhase]
      /\ ino \in [Launch -> 0..MaxIno]
      /\ recAt \in 0..MaxIno /\ made \in 0..MaxIno /\ MaxIno \in Nat
      /\ names \in [Ino -> Launch \cup {Nobody}]
      /\ leaseAt \in Launch \cup {Nobody}
      /\ srv \in [Launch -> ServerPhase]
      /\ Nobody \notin Launch
      /\ mode \in [Launch -> {"ns", "host"}]
      /\ hostMount \in Launch \cup {Nobody} /\ nsMounts \subseteq Launch
      /\ lost \subseteq Launch
  BY ShareMountAssumption DEF IInv, Typed, TypeOK
<1> USE <1>a DEF Goes, Quiet, Fault, launchVars, fileVars, mountVars,
    MountsKept, Mounted
<1>1. ASSUME NEW l \in Launch, OpenRecord(l) PROVE MountsKept'
  BY <1>1 DEF OpenRecord
<1>2. ASSUME NEW l \in Launch, LockRecord(l) PROVE MountsKept'
  BY <1>2 DEF LockRecord
<1>3. ASSUME NEW l \in Launch, RecordRemoved(l) PROVE MountsKept'
  BY <1>3 DEF RecordRemoved, RetriesLeft
<1>4. ASSUME NEW l \in Launch, TakeLease(l) PROVE MountsKept'
  BY <1>4 DEF TakeLease, Joinable
<1>5. ASSUME NEW l \in Launch, DropRecord(l) PROVE MountsKept'
  BY <1>5 DEF DropRecord
<1>6. ASSUME NEW l \in Launch, Enter(l) PROVE MountsKept'
  BY <1>6 DEF Enter
<1>7. ASSUME NEW l \in Launch, Decline(l) PROVE MountsKept'
  BY <1>7 DEF Decline, Joinable, GiveUp
<1>8. ASSUME NEW l \in Launch, DeclineStranger(l) PROVE MountsKept'
  BY <1>8 DEF DeclineStranger, Vacant, GiveUp
<1>9. ASSUME NEW l \in Launch, NEW m \in Modes, Mount(l, m) PROVE MountsKept'
  BY <1>9 DEF Mount, Vacant
<1>10. ASSUME NEW l \in Launch, Unmountable(l) PROVE MountsKept'
  BY <1>10 DEF Unmountable, Vacant, GiveUp
<1>11. ASSUME NEW l \in Launch, MakeLease(l) PROVE MountsKept'
  BY <1>11 DEF MakeLease, LeaseFile
<1>12. ASSUME NEW l \in Launch, CreateFails(l) PROVE MountsKept'
  BY <1>12 DEF CreateFails, CleanUpMountpoint, GiveUp
<1>13. ASSUME NEW l \in Launch, ForkServer(l) PROVE MountsKept'
  BY <1>13 DEF ForkServer
<1>14. ASSUME NEW l \in Launch, Spawn(l) PROVE MountsKept'
  BY <1>14 DEF Spawn, RecordFdsAfterSpawn
<1>15. ASSUME NEW l \in Launch, SpawnFails(l) PROVE MountsKept'
  BY <1>15 DEF SpawnFails
<1>16. ASSUME NEW l \in Launch, Exec(l) PROVE MountsKept'
  BY <1>16 DEF Exec
<1>17. ASSUME NEW l \in Launch, AppExits(l) PROVE MountsKept'
  BY <1>17 DEF AppExits
<1>18. ASSUME NEW l \in Launch, GuardianReleases(l) PROVE MountsKept'
  BY <1>18 DEF GuardianReleases
<1>19. ASSUME NEW l \in Launch, AppCloses(l) PROVE MountsKept'
  BY <1>19 DEF AppCloses
<1>20. ASSUME NEW s \in Launch, WriteRecord(s) PROVE MountsKept'
  BY <1>20 DEF WriteRecord
<1>21. ASSUME NEW s \in Launch, StartPolling(s) PROVE MountsKept'
  BY <1>21 DEF StartPolling
<1>22. ASSUME NEW s \in Launch, ProbeLease(s) PROVE MountsKept'
  BY <1>22 DEF ProbeLease
<1>23. ASSUME NEW s \in Launch, ProbeRecord(s) PROVE MountsKept'
  BY <1>23 DEF ProbeRecord
<1>24. ASSUME NEW s \in Launch, RecordBusy(s) PROVE MountsKept'
  BY <1>24 DEF RecordBusy
<1>25. ASSUME NEW s \in Launch, StillUsed(s) PROVE MountsKept'
  BY <1>25 DEF StillUsed
<1>26. ASSUME NEW s \in Launch, Settle(s) PROVE MountsKept'
  BY <1>26 DEF Settle
<1>27. ASSUME NEW s \in Launch, MountLost(s) PROVE MountsKept'
  BY <1>27 DEF MountLost
<1>28. ASSUME NEW s \in Launch, Relock(s) PROVE MountsKept'
  BY <1>28 DEF Relock
<1>29. ASSUME NEW s \in Launch, Unmount(s) PROVE MountsKept'
  BY <1>29 DEF Unmount
<1>30. ASSUME NEW s \in Launch, Leave(s) PROVE MountsKept'
  BY <1>30 DEF Leave, RemoveOwnFiles
<1>31. ASSUME NEW s \in Launch, KillServer(s) PROVE MountsKept'
  BY <1>31 DEF KillServer
<1>32. ASSUME NEW l \in Launch, KillGuardian(l) PROVE MountsKept'
  BY <1>32 DEF KillGuardian
<1>33. ASSUME NEW l \in Launch, KillLaunch(l) PROVE MountsKept'
  <2>1. pc[l] \in {"mounted", "leaseMade"} => srv[l] = "none"
    BY DEF IInv, Phases
  <2>2. \A s \in Launch : Mounted(s)' => Mounted(s)
    BY <1>33 DEF KillLaunch
  <2>3. CASE pc[l] \in {"mounted", "leaseMade"}
    <3>1. Mounted(l)' => mode[l] = "host"
      BY <1>33, <2>3 DEF KillLaunch
    <3> QED
      BY <1>33, <2>1, <2>2, <2>3, <3>1 DEF KillLaunch
  <2>4. CASE pc[l] \notin {"mounted", "leaseMade"}
    BY <1>33, <2>2, <2>4 DEF KillLaunch
  <2> QED
    BY <2>3, <2>4
<1>34. ASSUME NEW s \in Launch, ForcedUnmount(s) PROVE MountsKept'
  BY <1>34 DEF ForcedUnmount
<1>35. ASSUME SweepLocks PROVE MountsKept'
  BY <1>35 DEF SweepLocks, Stale
<1>36. ASSUME SweepRemoves PROVE MountsKept'
  BY <1>36 DEF SweepRemoves
<1>37. CASE UNCHANGED vars
  BY <1>37 DEF vars
<1> QED
  BY <1>1, <1>2, <1>3, <1>4, <1>5, <1>6, <1>7, <1>8, <1>9, <1>10, <1>11, <1>12,
    <1>13, <1>14, <1>15, <1>16, <1>17, <1>18, <1>19, <1>20, <1>21, <1>22,
    <1>23, <1>24, <1>25, <1>26, <1>27, <1>28, <1>29, <1>30, <1>31, <1>32,
    <1>33, <1>34, <1>35, <1>36, <1>37 DEF Next, LaunchStep, AppStep,
    ServerStep, FaultStep

\* Nobody leaves behind what only it can take away.
LEMMA LeavesNothingStep ==
  IInv /\ LeavesNothing /\ [Next]_vars => LeavesNothing'
<1>1. LeavesNothing <=> FilesGone /\ MountsKept
  BY DEF LeavesNothing, FilesGone, MountsKept
<1>2. LeavesNothing' <=> FilesGone' /\ MountsKept'
  BY DEF LeavesNothing, FilesGone, MountsKept
<1> QED
  BY <1>1, <1>2, FilesGoneStep, MountsKeptStep

\* Nobody else mounts or unmounts while a server has its mount.
LEMMA ServesMountedStep ==
  unwritten = {} /\ unwritten' = {} /\ IInv /\ ServesMounted /\ [Next]_vars =>
    ServesMounted'
<1> SUFFICES ASSUME unwritten = {} /\ unwritten' = {} /\ IInv /\ ServesMounted,
                [Next]_vars
         PROVE  ServesMounted'
  OBVIOUS
<1>a. /\ pc \in [Launch -> LaunchPhase]
      /\ recFds \in [Launch -> SUBSET {"launch", "app", "server"}]
      /\ ino \in [Launch -> 0..MaxIno]
      /\ names \in [Ino -> Launch \cup {Nobody}]
      /\ srv \in [Launch -> ServerPhase]
      /\ mode \in [Launch -> {"ns", "host"}]
      /\ hostMount \in Launch \cup {Nobody} /\ nsMounts \subseteq Launch
      /\ lost \subseteq Launch /\ unwritten \subseteq Launch
      /\ Nobody \notin Launch
  BY ShareMountAssumption DEF IInv, Typed, TypeOK
<1> USE <1>a DEF Goes, Quiet, Fault, launchVars, fileVars, mountVars,
    ServesMounted, Mounted
<1>1. ASSUME NEW l \in Launch, OpenRecord(l) PROVE ServesMounted'
  BY <1>1 DEF OpenRecord
<1>2. ASSUME NEW l \in Launch, LockRecord(l) PROVE ServesMounted'
  BY <1>2 DEF LockRecord
<1>3. ASSUME NEW l \in Launch, RecordRemoved(l) PROVE ServesMounted'
  BY <1>3 DEF RecordRemoved, RetriesLeft
<1>4. ASSUME NEW l \in Launch, TakeLease(l) PROVE ServesMounted'
  BY <1>4 DEF TakeLease, Joinable
<1>5. ASSUME NEW l \in Launch, DropRecord(l) PROVE ServesMounted'
  BY <1>5 DEF DropRecord
<1>6. ASSUME NEW l \in Launch, Enter(l) PROVE ServesMounted'
  BY <1>6 DEF Enter
<1>7. ASSUME NEW l \in Launch, Decline(l) PROVE ServesMounted'
  BY <1>7 DEF Decline, Joinable, GiveUp
<1>8. ASSUME NEW l \in Launch, DeclineStranger(l) PROVE ServesMounted'
  BY <1>8 DEF DeclineStranger, Vacant, GiveUp
<1>9. ASSUME NEW l \in Launch, NEW m \in Modes, Mount(l, m) PROVE ServesMounted'
  <2>1. \A s \in Launch : srv[s] \notin {"none", "gone", "killed"} => FALSE
    BY <1>9 DEF Mount, Vacant, IInv, RecordAtPath, Phases, RecordLock, Live
  <2> QED
    BY <1>9, <2>1 DEF Mount, GiveUp
<1>10. ASSUME NEW l \in Launch, Unmountable(l) PROVE ServesMounted'
  <2>1. \A s \in Launch : srv[s] \notin {"none", "gone", "killed"} => FALSE
    BY <1>10 DEF Unmountable, Vacant, IInv, RecordAtPath, Phases, RecordLock, Live
  <2> QED
    BY <1>10, <2>1 DEF Unmountable, GiveUp
<1>11. ASSUME NEW l \in Launch, MakeLease(l) PROVE ServesMounted'
  BY <1>11 DEF MakeLease, LeaseFile
<1>12. ASSUME NEW l \in Launch, CreateFails(l) PROVE ServesMounted'
  <2>1. \A s \in Launch : srv[s] \in {"none", "gone", "killed"}
    BY <1>12 DEF CreateFails, IInv, OneActive, Active, Live, Phases
  <2> QED
    BY <1>12, <2>1 DEF CreateFails, CleanUpMountpoint, GiveUp
<1>13. ASSUME NEW l \in Launch, ForkServer(l) PROVE ServesMounted'
  <2>1. l \notin lost => Mounted(l)
    BY <1>13 DEF ForkServer, IInv, MountMade
  <2> QED
    BY <1>13, <2>1 DEF ForkServer
<1>14. ASSUME NEW l \in Launch, Spawn(l) PROVE ServesMounted'
  BY <1>14 DEF Spawn, RecordFdsAfterSpawn
<1>15. ASSUME NEW l \in Launch, SpawnFails(l) PROVE ServesMounted'
  BY <1>15 DEF SpawnFails
<1>16. ASSUME NEW l \in Launch, Exec(l) PROVE ServesMounted'
  BY <1>16 DEF Exec
<1>17. ASSUME NEW l \in Launch, AppExits(l) PROVE ServesMounted'
  BY <1>17 DEF AppExits
<1>18. ASSUME NEW l \in Launch, GuardianReleases(l) PROVE ServesMounted'
  BY <1>18 DEF GuardianReleases
<1>19. ASSUME NEW l \in Launch, AppCloses(l) PROVE ServesMounted'
  BY <1>19 DEF AppCloses
<1>20. ASSUME NEW s \in Launch, WriteRecord(s) PROVE ServesMounted'
  BY <1>20 DEF WriteRecord
<1>21. ASSUME NEW s \in Launch, StartPolling(s) PROVE ServesMounted'
  BY <1>21 DEF StartPolling
<1>22. ASSUME NEW s \in Launch, ProbeLease(s) PROVE ServesMounted'
  BY <1>22 DEF ProbeLease
<1>23. ASSUME NEW s \in Launch, ProbeRecord(s) PROVE ServesMounted'
  BY <1>23 DEF ProbeRecord
<1>24. ASSUME NEW s \in Launch, RecordBusy(s) PROVE ServesMounted'
  BY <1>24 DEF RecordBusy
<1>25. ASSUME NEW s \in Launch, StillUsed(s) PROVE ServesMounted'
  BY <1>25 DEF StillUsed
<1>26. ASSUME NEW s \in Launch, Settle(s) PROVE ServesMounted'
  BY <1>26 DEF Settle
<1>27. ASSUME NEW s \in Launch, MountLost(s) PROVE ServesMounted'
  BY <1>27 DEF MountLost
<1>28. ASSUME NEW s \in Launch, Relock(s) PROVE ServesMounted'
  BY <1>28 DEF Relock
<1>29. ASSUME NEW s \in Launch, Unmount(s) PROVE ServesMounted'
  <2>1. \A x \in Launch : x # s => srv[x] \in {"none", "gone", "killed"}
    BY <1>29 DEF Unmount, IInv, OneActive, Active, Live
  <2> QED
    BY <1>29, <2>1 DEF Unmount
<1>30. ASSUME NEW s \in Launch, Leave(s) PROVE ServesMounted'
  BY <1>30 DEF Leave, RemoveOwnFiles
<1>31. ASSUME NEW s \in Launch, KillServer(s) PROVE ServesMounted'
  BY <1>31 DEF KillServer
<1>32. ASSUME NEW l \in Launch, KillGuardian(l) PROVE ServesMounted'
  BY <1>32 DEF KillGuardian
<1>33. ASSUME NEW l \in Launch, KillLaunch(l) PROVE ServesMounted'
  <2>1. pc[l] \in {"mounted", "leaseMade"} => srv[l] = "none"
    BY <1>33 DEF KillLaunch, IInv, Phases
  <2> QED
    BY <1>33, <2>1 DEF KillLaunch
<1>34. ASSUME NEW s \in Launch, ForcedUnmount(s) PROVE ServesMounted'
  BY <1>34 DEF ForcedUnmount
<1>35. ASSUME SweepLocks PROVE ServesMounted'
  BY <1>35 DEF SweepLocks, Stale
<1>36. ASSUME SweepRemoves PROVE ServesMounted'
  BY <1>36 DEF SweepRemoves
<1>37. CASE UNCHANGED vars
  BY <1>37 DEF vars
<1> QED
  BY <1>1, <1>2, <1>3, <1>4, <1>5, <1>6, <1>7, <1>8, <1>9, <1>10, <1>11, <1>12,
    <1>13, <1>14, <1>15, <1>16, <1>17, <1>18, <1>19, <1>20, <1>21, <1>22,
    <1>23, <1>24, <1>25, <1>26, <1>27, <1>28, <1>29, <1>30, <1>31, <1>32,
    <1>33, <1>34, <1>35, <1>36, <1>37 DEF Next, LaunchStep, AppStep,
    ServerStep, FaultStep

\* A lease that is held keeps the server from settling.
LEMMA ServesJoiningStep ==
  unwritten = {} /\ IInv /\ LeaseOfRecord /\ HandedOver /\ ServesMounted /\
    ServesJoining /\ [Next]_vars => ServesJoining'
<1> SUFFICES ASSUME unwritten = {} /\ IInv /\ LeaseOfRecord /\ HandedOver /\ ServesMounted /\ ServesJoining,
                [Next]_vars
         PROVE  ServesJoining'
  OBVIOUS
<1>a. /\ pc \in [Launch -> LaunchPhase]
      /\ recFds \in [Launch -> SUBSET {"launch", "app", "server"}]
      /\ ino \in [Launch -> 0..MaxIno]
      /\ leaseOn \in [Launch -> Launch \cup {Nobody}]
      /\ leaseFds \in [Launch -> SUBSET {"launch", "guardian", "app", "server"}]
      /\ at \in [Launch -> Launch \cup {Nobody}]
      /\ names \in [Ino -> Launch \cup {Nobody}]
      /\ leaseAt \in Launch \cup {Nobody}
      /\ srv \in [Launch -> ServerPhase]
      /\ lost \subseteq Launch /\ unwritten \subseteq Launch
      /\ Nobody \notin Launch
  BY ShareMountAssumption DEF IInv, Typed, TypeOK
<1> USE <1>a DEF Goes, Quiet, Fault, launchVars, fileVars, mountVars,
    ServesJoining, HandedOver, Live
<1>1. ASSUME NEW l \in Launch, OpenRecord(l) PROVE ServesJoining'
  BY <1>1 DEF OpenRecord
<1>2. ASSUME NEW l \in Launch, LockRecord(l) PROVE ServesJoining'
  BY <1>2 DEF LockRecord
<1>3. ASSUME NEW l \in Launch, RecordRemoved(l) PROVE ServesJoining'
  BY <1>3 DEF RecordRemoved, RetriesLeft
<1>4. ASSUME NEW l \in Launch, TakeLease(l) PROVE ServesJoining'
  <2>1. /\ pc[l] = "locked" /\ ino[l] = recAt /\ recAt \in Ino /\ "launch" \in recFds[l]
    BY <1>4 DEF TakeLease, IInv, RecordAtPath, Numbered, Phases, Ino
  <2> DEFINE s == names[ino[l]]
  <2>5. s \in Launch /\ Live(s)
    BY <1>4 DEF TakeLease, Joinable
  <2>6. srv[s] # "born" /\ ino[s] = ino[l]
    BY <2>1, <2>5 DEF LeaseOfRecord
  <2>7. leaseAt = s
    BY <2>1, <2>5 DEF LeaseOfRecord, Ino
  <2>2. s \in Launch /\ Live(s) /\ srv[s] # "born" /\ ino[s] = ino[l] /\ leaseAt = s
    BY <2>5, <2>6, <2>7
  <2>3. ~HoldsRecord(s)
    BY <2>1, <2>2 DEF IInv, RecordLock
  <2>4. s \notin lost => srv[s] \in {"starting", "polling"}
    BY <1>4, <2>2, <2>3 DEF TakeLease, HoldsRecord, HoldsLease, ServerPhase, ServesMounted
  <2> QED
    BY <1>4, <2>2, <2>4 DEF TakeLease
<1>5. ASSUME NEW l \in Launch, DropRecord(l) PROVE ServesJoining'
  BY <1>5 DEF DropRecord
<1>6. ASSUME NEW l \in Launch, Enter(l) PROVE ServesJoining'
  BY <1>6 DEF Enter
<1>7. ASSUME NEW l \in Launch, Decline(l) PROVE ServesJoining'
  BY <1>7 DEF Decline, Joinable, GiveUp
<1>8. ASSUME NEW l \in Launch, DeclineStranger(l) PROVE ServesJoining'
  BY <1>8 DEF DeclineStranger, Vacant, GiveUp
<1>9. ASSUME NEW l \in Launch, NEW m \in Modes, Mount(l, m) PROVE ServesJoining'
  BY <1>9 DEF Mount, Vacant
<1>10. ASSUME NEW l \in Launch, Unmountable(l) PROVE ServesJoining'
  BY <1>10 DEF Unmountable, Vacant, GiveUp
<1>11. ASSUME NEW l \in Launch, MakeLease(l) PROVE ServesJoining'
  BY <1>11 DEF MakeLease, LeaseFile
<1>12. ASSUME NEW l \in Launch, CreateFails(l) PROVE ServesJoining'
  BY <1>12 DEF CreateFails, CleanUpMountpoint, GiveUp
<1>13. ASSUME NEW l \in Launch, ForkServer(l) PROVE ServesJoining'
  <2>1. srv[l] = "none"
    BY <1>13 DEF ForkServer, IInv, Phases
  <2> QED
    BY <1>13, <2>1 DEF ForkServer
<1>14. ASSUME NEW l \in Launch, Spawn(l) PROVE ServesJoining'
  BY <1>14 DEF Spawn, RecordFdsAfterSpawn
<1>15. ASSUME NEW l \in Launch, SpawnFails(l) PROVE ServesJoining'
  BY <1>15 DEF SpawnFails
<1>16. ASSUME NEW l \in Launch, Exec(l) PROVE ServesJoining'
  BY <1>16 DEF Exec
<1>17. ASSUME NEW l \in Launch, AppExits(l) PROVE ServesJoining'
  BY <1>17 DEF AppExits
<1>18. ASSUME NEW l \in Launch, GuardianReleases(l) PROVE ServesJoining'
  BY <1>18 DEF GuardianReleases
<1>19. ASSUME NEW l \in Launch, AppCloses(l) PROVE ServesJoining'
  BY <1>19 DEF AppCloses
<1>20. ASSUME NEW s \in Launch, WriteRecord(s) PROVE ServesJoining'
  BY <1>20 DEF WriteRecord
<1>21. ASSUME NEW s \in Launch, StartPolling(s) PROVE ServesJoining'
  BY <1>21 DEF StartPolling
<1>22. ASSUME NEW s \in Launch, ProbeLease(s) PROVE ServesJoining'
  <2>1. \A l \in Launch : leaseOn[l] = s => pc[l] \notin {"leased", "joining"}
    BY <1>22 DEF ProbeLease, LeaseUnshared, IInv, Phases
  <2> QED
    BY <1>22, <2>1 DEF ProbeLease
<1>23. ASSUME NEW s \in Launch, ProbeRecord(s) PROVE ServesJoining'
  BY <1>23 DEF ProbeRecord
<1>24. ASSUME NEW s \in Launch, RecordBusy(s) PROVE ServesJoining'
  BY <1>24 DEF RecordBusy
<1>25. ASSUME NEW s \in Launch, StillUsed(s) PROVE ServesJoining'
  BY <1>25 DEF StillUsed
<1>26. ASSUME NEW s \in Launch, Settle(s) PROVE ServesJoining'
  BY <1>26 DEF Settle
<1>27. ASSUME NEW s \in Launch, MountLost(s) PROVE ServesJoining'
  <2>1. s \in lost
    BY <1>27 DEF MountLost, ServesMounted
  <2> QED
    BY <1>27, <2>1 DEF MountLost
<1>28. ASSUME NEW s \in Launch, Relock(s) PROVE ServesJoining'
  BY <1>28 DEF Relock
<1>29. ASSUME NEW s \in Launch, Unmount(s) PROVE ServesJoining'
  BY <1>29 DEF Unmount
<1>30. ASSUME NEW s \in Launch, Leave(s) PROVE ServesJoining'
  BY <1>30 DEF Leave, RemoveOwnFiles
<1>31. ASSUME NEW s \in Launch, KillServer(s) PROVE ServesJoining'
  BY <1>31 DEF KillServer
<1>32. ASSUME NEW l \in Launch, KillGuardian(l) PROVE ServesJoining'
  BY <1>32 DEF KillGuardian
<1>33. ASSUME NEW l \in Launch, KillLaunch(l) PROVE ServesJoining'
  BY <1>33 DEF KillLaunch
<1>34. ASSUME NEW s \in Launch, ForcedUnmount(s) PROVE ServesJoining'
  BY <1>34 DEF ForcedUnmount
<1>35. ASSUME SweepLocks PROVE ServesJoining'
  BY <1>35 DEF SweepLocks, Stale
<1>36. ASSUME SweepRemoves PROVE ServesJoining'
  BY <1>36 DEF SweepRemoves
<1>37. CASE UNCHANGED vars
  BY <1>37 DEF vars
<1> QED
  BY <1>1, <1>2, <1>3, <1>4, <1>5, <1>6, <1>7, <1>8, <1>9, <1>10, <1>11, <1>12,
    <1>13, <1>14, <1>15, <1>16, <1>17, <1>18, <1>19, <1>20, <1>21, <1>22,
    <1>23, <1>24, <1>25, <1>26, <1>27, <1>28, <1>29, <1>30, <1>31, <1>32,
    <1>33, <1>34, <1>35, <1>36, <1>37 DEF Next, LaunchStep, AppStep,
    ServerStep, FaultStep

\* What else is mounted where a launch joins was mounted after a loss.
LEMMA WatchedUnlessLostStep ==
  unwritten = {} /\ IInv /\ HandedOver /\ ServesJoining /\ WatchedUnlessLost /\
    [Next]_vars => WatchedUnlessLost'
<1> SUFFICES ASSUME unwritten = {} /\ IInv /\ HandedOver /\ ServesJoining /\ WatchedUnlessLost,
                [Next]_vars
         PROVE  WatchedUnlessLost'
  OBVIOUS
<1>a. /\ pc \in [Launch -> LaunchPhase]
      /\ leaseOn \in [Launch -> Launch \cup {Nobody}]
      /\ at \in [Launch -> Launch \cup {Nobody}]
      /\ app \in [Launch -> {"none", "starting", "up", "gone"}]
      /\ srv \in [Launch -> ServerPhase]
      /\ mode \in [Launch -> {"ns", "host"}]
      /\ hostMount \in Launch \cup {Nobody} /\ nsMounts \subseteq Launch
      /\ lost \subseteq Launch /\ unwritten \subseteq Launch
      /\ Nobody \notin Launch
  BY ShareMountAssumption DEF IInv, Typed, TypeOK
<1> USE <1>a DEF Goes, Quiet, Fault, launchVars, fileVars, mountVars,
    WatchedUnlessLost, HandedOver, InMount
<1>1. ASSUME NEW l \in Launch, OpenRecord(l) PROVE WatchedUnlessLost'
  BY <1>1 DEF OpenRecord
<1>2. ASSUME NEW l \in Launch, LockRecord(l) PROVE WatchedUnlessLost'
  BY <1>2 DEF LockRecord
<1>3. ASSUME NEW l \in Launch, RecordRemoved(l) PROVE WatchedUnlessLost'
  BY <1>3 DEF RecordRemoved, RetriesLeft
<1>4. ASSUME NEW l \in Launch, TakeLease(l) PROVE WatchedUnlessLost'
  <2>1. app[l] = "none"
    BY <1>4 DEF TakeLease, IInv, Phases
  <2> QED
    BY <1>4, <2>1 DEF TakeLease
<1>5. ASSUME NEW l \in Launch, DropRecord(l) PROVE WatchedUnlessLost'
  BY <1>5 DEF DropRecord
<1>6. ASSUME NEW l \in Launch, Enter(l) PROVE WatchedUnlessLost'
  <2>1. CASE UNCHANGED at
    BY <1>6, <2>1 DEF Enter
  <2>2. CASE at' = [at EXCEPT ![l] = hostMount]
    <3>1. pc[l] = "joining" /\ leaseOn[l] = at[l] /\ at[l] \in Launch
      BY <1>6 DEF Enter
    <3>2. CASE at[l] \in lost /\ mode[at[l]] = "host"
      BY <1>6, <2>2, <3>1, <3>2 DEF Enter
    <3>3. CASE mode[at[l]] # "host"
      BY <1>6, <2>2, <3>1, <3>3 DEF Enter
    <3>4. CASE at[l] \notin lost /\ hostMount # Nobody /\ Answers(hostMount)
      <4>1. hostMount = at[l]
        BY <3>1, <3>4 DEF ServesJoining, Answers, IInv, OneActive, Active, Live
      <4> QED
        BY <1>6, <2>2, <3>1, <4>1 DEF Enter
    <3> QED
      BY <1>6, <2>2, <3>1, <3>2, <3>3, <3>4 DEF Enter
  <2> QED
    BY <1>6, <2>1, <2>2 DEF Enter
<1>7. ASSUME NEW l \in Launch, Decline(l) PROVE WatchedUnlessLost'
  BY <1>7 DEF Decline, Joinable, GiveUp
<1>8. ASSUME NEW l \in Launch, DeclineStranger(l) PROVE WatchedUnlessLost'
  BY <1>8 DEF DeclineStranger, Vacant, GiveUp
<1>9. ASSUME NEW l \in Launch, NEW m \in Modes, Mount(l, m) PROVE WatchedUnlessLost'
  <2>1. srv[l] = "none"
    BY <1>9 DEF Mount, Vacant, IInv, Phases
  <2> QED
    BY <1>9, <2>1 DEF Mount
<1>10. ASSUME NEW l \in Launch, Unmountable(l) PROVE WatchedUnlessLost'
  BY <1>10 DEF Unmountable, Vacant, GiveUp
<1>11. ASSUME NEW l \in Launch, MakeLease(l) PROVE WatchedUnlessLost'
  <2>1. app[l] = "none"
    BY <1>11 DEF MakeLease, IInv, Phases
  <2> QED
    BY <1>11, <2>1 DEF MakeLease, LeaseFile
<1>12. ASSUME NEW l \in Launch, CreateFails(l) PROVE WatchedUnlessLost'
  BY <1>12 DEF CreateFails, CleanUpMountpoint, GiveUp
<1>13. ASSUME NEW l \in Launch, ForkServer(l) PROVE WatchedUnlessLost'
  <2>1. leaseOn[l] = l /\ app[l] = "none"
    BY <1>13 DEF ForkServer, IInv, Phases
  <2> QED
    BY <1>13, <2>1 DEF ForkServer
<1>14. ASSUME NEW l \in Launch, Spawn(l) PROVE WatchedUnlessLost'
  BY <1>14 DEF Spawn, RecordFdsAfterSpawn
<1>15. ASSUME NEW l \in Launch, SpawnFails(l) PROVE WatchedUnlessLost'
  BY <1>15 DEF SpawnFails
<1>16. ASSUME NEW l \in Launch, Exec(l) PROVE WatchedUnlessLost'
  BY <1>16 DEF Exec
<1>17. ASSUME NEW l \in Launch, AppExits(l) PROVE WatchedUnlessLost'
  BY <1>17 DEF AppExits
<1>18. ASSUME NEW l \in Launch, GuardianReleases(l) PROVE WatchedUnlessLost'
  BY <1>18 DEF GuardianReleases
<1>19. ASSUME NEW l \in Launch, AppCloses(l) PROVE WatchedUnlessLost'
  BY <1>19 DEF AppCloses
<1>20. ASSUME NEW s \in Launch, WriteRecord(s) PROVE WatchedUnlessLost'
  BY <1>20 DEF WriteRecord
<1>21. ASSUME NEW s \in Launch, StartPolling(s) PROVE WatchedUnlessLost'
  BY <1>21 DEF StartPolling
<1>22. ASSUME NEW s \in Launch, ProbeLease(s) PROVE WatchedUnlessLost'
  BY <1>22 DEF ProbeLease
<1>23. ASSUME NEW s \in Launch, ProbeRecord(s) PROVE WatchedUnlessLost'
  BY <1>23 DEF ProbeRecord
<1>24. ASSUME NEW s \in Launch, RecordBusy(s) PROVE WatchedUnlessLost'
  BY <1>24 DEF RecordBusy
<1>25. ASSUME NEW s \in Launch, StillUsed(s) PROVE WatchedUnlessLost'
  BY <1>25 DEF StillUsed
<1>26. ASSUME NEW s \in Launch, Settle(s) PROVE WatchedUnlessLost'
  BY <1>26 DEF Settle
<1>27. ASSUME NEW s \in Launch, MountLost(s) PROVE WatchedUnlessLost'
  BY <1>27 DEF MountLost
<1>28. ASSUME NEW s \in Launch, Relock(s) PROVE WatchedUnlessLost'
  BY <1>28 DEF Relock
<1>29. ASSUME NEW s \in Launch, Unmount(s) PROVE WatchedUnlessLost'
  BY <1>29 DEF Unmount
<1>30. ASSUME NEW s \in Launch, Leave(s) PROVE WatchedUnlessLost'
  BY <1>30 DEF Leave, RemoveOwnFiles
<1>31. ASSUME NEW s \in Launch, KillServer(s) PROVE WatchedUnlessLost'
  BY <1>31 DEF KillServer
<1>32. ASSUME NEW l \in Launch, KillGuardian(l) PROVE WatchedUnlessLost'
  BY <1>32 DEF KillGuardian
<1>33. ASSUME NEW l \in Launch, KillLaunch(l) PROVE WatchedUnlessLost'
  BY <1>33 DEF KillLaunch
<1>34. ASSUME NEW s \in Launch, ForcedUnmount(s) PROVE WatchedUnlessLost'
  BY <1>34 DEF ForcedUnmount
<1>35. ASSUME SweepLocks PROVE WatchedUnlessLost'
  BY <1>35 DEF SweepLocks, Stale
<1>36. ASSUME SweepRemoves PROVE WatchedUnlessLost'
  BY <1>36 DEF SweepRemoves
<1>37. CASE UNCHANGED vars
  BY <1>37 DEF vars
<1> QED
  BY <1>1, <1>2, <1>3, <1>4, <1>5, <1>6, <1>7, <1>8, <1>9, <1>10, <1>11, <1>12,
    <1>13, <1>14, <1>15, <1>16, <1>17, <1>18, <1>19, <1>20, <1>21, <1>22,
    <1>23, <1>24, <1>25, <1>26, <1>27, <1>28, <1>29, <1>30, <1>31, <1>32,
    <1>33, <1>34, <1>35, <1>36, <1>37 DEF Next, LaunchStep, AppStep,
    ServerStep, FaultStep

\* The invariant holds before anybody launches.
LEMMA JoinInvInit == Init => JoinInv
<1> SUFFICES ASSUME Init PROVE JoinInv
  OBVIOUS
<1> USE ShareMountAssumption
<1>1. IInv
  BY InitIInv
<1>2. /\ pc = [l \in Launch |-> "start"] /\ srv = [l \in Launch |-> "none"]
      /\ app = [l \in Launch |-> "none"] /\ names = [i \in Ino |-> Nobody] /\ recAt = 0
  BY DEF Init
<1>3. LeaseOfRecord /\ HandedOver /\ NoHalfMadeMount
  BY <1>2 DEF LeaseOfRecord, HandedOver, NoHalfMadeMount, InMount
<1>a. \A s \in Launch : ~Mounted(s)
  BY DEF Init, Mounted
<1>b. LeavesNothing
  BY <1>2, <1>a DEF LeavesNothing
<1>4. ServesMounted /\ ServesJoining /\ WatchedUnlessLost
  BY <1>2 DEF ServesMounted, ServesJoining, WatchedUnlessLost, InMount
<1>5. QED
  BY <1>1, <1>3, <1>b, <1>4 DEF JoinInv

\* It is kept by every step.
LEMMA JoinInvStep == JoinInv /\ [Next]_vars => JoinInv'
<1> SUFFICES ASSUME JoinInv, [Next]_vars PROVE JoinInv'
  OBVIOUS
<1>1. IInv' /\ LeaseOfRecord' /\ HandedOver' /\ NoHalfMadeMount' /\ LeavesNothing'
  BY IInvStep, LeaseOfRecordStep, HandedOverStep, NoHalfMadeMountStep,
     LeavesNothingStep DEF JoinInv
<1>2. ASSUME unwritten' = {} PROVE ServesMounted' /\ ServesJoining' /\ WatchedUnlessLost'
  <2>1. unwritten = {} /\ ServesMounted /\ ServesJoining /\ WatchedUnlessLost
    BY <1>2, UnwrittenGrows DEF JoinInv, IInv
  <2>2. QED
    BY <1>2, <2>1, ServesMountedStep, ServesJoiningStep, WatchedUnlessLostStep
       DEF JoinInv
<1>3. QED
  BY <1>1, <1>2 DEF JoinInv

\* What a joining launch relies on holds throughout.
LEMMA JoinInvHolds == Spec => []JoinInv
<1> QED
  BY JoinInvInit, JoinInvStep, PTL DEF Spec

\* A launch runs from the mount whose lease it holds, unless that mount was lost
\* while the launch was on its way in.
THEOREM LeaseIsWatched == Spec => []WatchedUnlessLost
<1>1. JoinInv => WatchedUnlessLost
  BY DEF JoinInv, WatchedUnlessLost
<1>2. QED
  BY <1>1, JoinInvHolds, PTL

\* No launch joins a mount that is still being set up.
THEOREM MountsAreHandedOver == Spec => []NoHalfMadeMount
<1>1. JoinInv => NoHalfMadeMount
  BY DEF JoinInv
<1>2. QED
  BY <1>1, JoinInvHolds, PTL

\* What a launch or a server made on the shared path goes with it: no server that has
\* left is found by a later launch, and no mount stays there that nobody will take down.
THEOREM ServersCleanUp == Spec => []LeavesNothing
<1>1. JoinInv => LeavesNothing
  BY DEF JoinInv
<1>2. QED
  BY <1>1, JoinInvHolds, PTL

-----------------------------------------------------------------------------
(* The protocol implements MountLifetime.                                  *)

\* The state of the abstract mounts, as ImplementsLifetime maps it.
Up == {s \in Launch : Connected(s) /\ Mounted(s)}
Broken == IF unwritten = {} THEN lost ELSE Launch

\* Who is in a mount, and by which lease, is what the tenants depend on.
LEMMA SameTenants ==
  (\A l \in Launch :
     /\ InMount(l)' = InMount(l)
     /\ InMount(l) => at'[l] = at[l] /\ leaseOn'[l] = leaseOn[l])
  => Tenants' = Tenants
<1> SUFFICES ASSUME \A l \in Launch :
                      /\ InMount(l)' = InMount(l)
                      /\ InMount(l) => at'[l] = at[l] /\ leaseOn'[l] = leaseOn[l]
             PROVE  Tenants' = Tenants
  OBVIOUS
<1>1. \A s \in Launch :
        {l \in Launch : InMount(l)' /\ leaseOn'[l] = s /\ at'[l] = s}
          = {l \in Launch : InMount(l) /\ leaseOn[l] = s /\ at[l] = s}
  OBVIOUS
<1> QED
  BY <1>1 DEF Tenants

\* Which connections are open and mounted is what the mounts that are up depend on.
LEMMA SameUp ==
  (\A s \in Launch : Connected(s)' = Connected(s) /\ Mounted(s)' = Mounted(s))
  => Up' = Up
<1> QED
  BY DEF Up

\* The steps of the abstract specification, in terms of the mapping.
LEMMA AbstractStutter ==
  Up' = Up /\ Broken' = Broken /\ Tenants' = Tenants => UNCHANGED Lifetime!lifetimeVars
<1> QED
  BY DEF Lifetime!lifetimeVars, Up, Broken

\* A mount is made.
LEMMA AbstractRaise ==
  ASSUME NEW m \in Launch, m \notin Up, Up' = Up \cup {m}, Broken' = Broken,
         Tenants' = Tenants
  PROVE  Lifetime!Next
<1>1. Lifetime!Raise(m)
  BY DEF Lifetime!Raise, Up, Broken
<1> QED
  BY <1>1 DEF Lifetime!Next

\* A mount without a tenant is taken down.
LEMMA AbstractFall ==
  ASSUME NEW m \in Up, Tenants[m] = {}, Up' = Up \ {m}, Broken' = Broken,
         Tenants' = Tenants
  PROVE  Lifetime!Next
<1>1. Lifetime!Fall(m)
  BY DEF Lifetime!Fall, Up, Broken
<1>2. m \in Launch
  BY DEF Up
<1> QED
  BY <1>1, <1>2 DEF Lifetime!Next

\* Mounts are lost from outside, whoever runs out of them.
LEMMA AbstractBreak ==
  ASSUME NEW ms \in SUBSET Launch, Broken' = Broken \cup ms, Up' \in {Up, Up \ ms},
         Tenants' = Tenants
  PROVE  Lifetime!Next
<1>1. Lifetime!Break(ms)
  BY DEF Lifetime!Break, Up, Broken
<1> QED
  BY <1>1 DEF Lifetime!Next

\* A launch boards a mount.
LEMMA AbstractBoard ==
  ASSUME NEW m \in Launch, NEW t \in Launch, m \in Up \cup Broken,
         Tenants' = [Tenants EXCEPT ![m] = @ \cup {t}], Up' = Up, Broken' = Broken
  PROVE  Lifetime!Next
<1>1. Lifetime!Board(m, t)
  BY DEF Lifetime!Board, Up, Broken
<1> QED
  BY <1>1 DEF Lifetime!Next

\* A tenant departs.
LEMMA AbstractDepart ==
  ASSUME NEW m \in Launch, NEW t \in Tenants[m],
         Tenants' = [Tenants EXCEPT ![m] = @ \ {t}], Up' = Up, Broken' = Broken
  PROVE  Lifetime!Next
<1>1. Lifetime!Depart(m, t)
  BY DEF Lifetime!Depart, Up, Broken
<1>2. t \in Launch
  BY DEF Tenants
<1> QED
  BY <1>1, <1>2 DEF Lifetime!Next

\* The steps by which a launch may board or leave a mount.
TenantStep(l) ==
  \/ Enter(l) \/ ForkServer(l) \/ SpawnFails(l) \/ AppExits(l)
  \/ pc[l] = "entered" /\ Decline(l)
  \/ pc[l] \in {"entered", "served"} /\ KillLaunch(l)

\* All others, but for the one that mounts and the sweep's.
MountStep(l) ==
  \/ OpenRecord(l) \/ LockRecord(l) \/ RecordRemoved(l)
  \/ TakeLease(l) \/ DropRecord(l) \/ DeclineStranger(l) \/ Unmountable(l)
  \/ MakeLease(l) \/ CreateFails(l)
  \/ pc[l] # "entered" /\ Decline(l)
  \/ Spawn(l) \/ Exec(l) \/ GuardianReleases(l) \/ AppCloses(l) \/ ServerStep(l)
  \/ KillServer(l) \/ KillGuardian(l) \/ ForcedUnmount(l)
  \/ pc[l] \notin {"entered", "served"} /\ KillLaunch(l)

\* A launch that joins the mount it holds the lease of boards it, one that lets
\* go of a lease leaves; neither changes a mount.
TenantMoves ==
  /\ Up' = Up /\ Broken' = Broken
  /\ \/ Tenants' = Tenants
     \/ \E m, t \in Launch : m \in Up \cup Broken
                             /\ Tenants' = [Tenants EXCEPT ![m] = @ \cup {t}]
     \/ \E m \in Launch : \E t \in Tenants[m] :
          Tenants' = [Tenants EXCEPT ![m] = @ \ {t}]

\* A launch whose presence in a mount changes is a tenant more or less of one
\* mount, or of none.
LEMMA OneBoards ==
  ASSUME NEW l \in Launch, ~InMount(l), InMount(l)',
         \A k \in Launch \ {l} :
           InMount(k)' = InMount(k) /\ at'[k] = at[k] /\ leaseOn'[k] = leaseOn[k]
  PROVE  \/ Tenants' = Tenants
         \/ /\ at'[l] = leaseOn'[l] /\ at'[l] \in Launch
            /\ Tenants' = [Tenants EXCEPT ![at'[l]] = @ \cup {l}]
<1> DEFINE T(s) == {k \in Launch : InMount(k) /\ leaseOn[k] = s /\ at[k] = s}
           U(s) == {k \in Launch : InMount(k)' /\ leaseOn'[k] = s /\ at'[k] = s}
<1>1. Tenants = [s \in Launch |-> T(s)] /\ Tenants' = [s \in Launch |-> U(s)]
  BY DEF Tenants
<1>2. CASE at'[l] = leaseOn'[l] /\ at'[l] \in Launch
  <2>1. \A s \in Launch \ {at'[l]} : U(s) = T(s)
    BY <1>2
  <2>2. U(at'[l]) = T(at'[l]) \cup {l}
    BY <1>2
  <2> HIDE DEF T, U
  <2> QED
    BY <1>1, <1>2, <2>1, <2>2
<1>3. CASE ~(at'[l] = leaseOn'[l] /\ at'[l] \in Launch)
  <2>1. \A s \in Launch : U(s) = T(s)
    BY <1>3
  <2> HIDE DEF T, U
  <2> QED
    BY <1>1, <2>1
<1> QED
  BY <1>2, <1>3

\* When one launch leaves its mount and the others stay, one tenant departs.
LEMMA OneDeparts ==
  ASSUME NEW l \in Launch, InMount(l), ~InMount(l)',
         \A k \in Launch \ {l} :
           InMount(k)' = InMount(k) /\ at'[k] = at[k] /\ leaseOn'[k] = leaseOn[k]
  PROVE  \/ Tenants' = Tenants
         \/ \E m \in Launch :
              l \in Tenants[m] /\ Tenants' = [Tenants EXCEPT ![m] = @ \ {l}]
<1> DEFINE T(s) == {k \in Launch : InMount(k) /\ leaseOn[k] = s /\ at[k] = s}
           U(s) == {k \in Launch : InMount(k)' /\ leaseOn'[k] = s /\ at'[k] = s}
<1>1. Tenants = [s \in Launch |-> T(s)] /\ Tenants' = [s \in Launch |-> U(s)]
  BY DEF Tenants
<1>2. CASE at[l] = leaseOn[l] /\ at[l] \in Launch
  <2>1. \A s \in Launch \ {at[l]} : U(s) = T(s)
    BY <1>2
  <2>2. U(at[l]) = T(at[l]) \ {l} /\ l \in T(at[l])
    BY <1>2
  <2> HIDE DEF T, U
  <2>3. l \in Tenants[at[l]] /\ Tenants' = [Tenants EXCEPT ![at[l]] = @ \ {l}]
    BY <1>1, <1>2, <2>1, <2>2
  <2> QED
    BY <1>2, <2>3
<1>3. CASE ~(at[l] = leaseOn[l] /\ at[l] \in Launch)
  <2>1. \A s \in Launch : U(s) = T(s)
    BY <1>3
  <2> HIDE DEF T, U
  <2> QED
    BY <1>1, <2>1
<1> QED
  BY <1>2, <1>3

\* A step of a launch or its application moves at most that one tenant.
LEMMA TenantMovesStep ==
  ASSUME JoinInv, NEW l \in Launch, TenantStep(l)
  PROVE  TenantMoves
<1>a. /\ pc \in [Launch -> LaunchPhase]
      /\ at \in [Launch -> Launch \cup {Nobody}]
      /\ app \in [Launch -> {"none", "starting", "up", "gone"}]
      /\ srv \in [Launch -> ServerPhase]
      /\ hostMount \in Launch \cup {Nobody}
      /\ Nobody \notin Launch
  BY ShareMountAssumption DEF JoinInv, IInv, Typed, TypeOK
<1>b. \A k \in Launch : app[k] # "none" => pc[k] = "running"
  BY DEF JoinInv, IInv, Phases
<1> USE <1>a DEF mountVars, fileVars
<1>1. CASE Enter(l)
  <2>2. /\ Up' = Up /\ Broken' = Broken
    <3>1. \A s \in Launch : Connected(s)' = Connected(s) /\ Mounted(s)' = Mounted(s)
      BY <1>1 DEF Enter, Connected, Mounted
    <3> QED
      BY <1>1, <3>1, SameUp DEF Enter, Broken
  <2>3. ~InMount(l) /\ InMount(l)'
    BY <1>1, <1>b DEF Enter, InMount
  <2>4. \A k \in Launch \ {l} :
          InMount(k)' = InMount(k) /\ at'[k] = at[k] /\ leaseOn'[k] = leaseOn[k]
    BY <1>1 DEF Enter, InMount
  <2>5. at'[l] \in Launch => at'[l] \in Up \cup Broken
    <3>1. CASE unwritten # {}
      BY <3>1 DEF Broken
    <3>2. CASE unwritten = {}
      <4>1. hostMount # Nobody => mode[hostMount] = "host"
        BY <3>2 DEF JoinInv, IInv, MountMade
      <4> QED
        BY <1>1, <4>1 DEF Enter, Up, Connected, Mounted, Answers
    <3> QED
      BY <3>1, <3>2
  <2> QED
    BY <2>2, <2>3, <2>4, <2>5, OneBoards DEF TenantMoves
<1>2. CASE ForkServer(l)
  <2>1. Up' = Up /\ Broken' = Broken
    <3>1. \A s \in Launch : Connected(s)' = Connected(s) /\ Mounted(s)' = Mounted(s)
      BY <1>2 DEF ForkServer, Connected, Mounted
    <3> QED
      BY <1>2, <3>1, SameUp DEF ForkServer, Broken
  <2>2. ~InMount(l) /\ InMount(l)'
    BY <1>2, <1>b DEF ForkServer, InMount
  <2>3. \A k \in Launch \ {l} :
          InMount(k)' = InMount(k) /\ at'[k] = at[k] /\ leaseOn'[k] = leaseOn[k]
    BY <1>2 DEF ForkServer, InMount
  <2>4. at'[l] = l /\ l \in Up \cup Broken
    <3>1. CASE unwritten # {}
      BY <1>2, <3>1 DEF ForkServer, Broken
    <3>2. CASE unwritten = {}
      <4>1. l \in lost \/ Mounted(l)
        BY <1>2, <3>2 DEF JoinInv, IInv, MountMade, ForkServer
      <4> QED
        BY <1>2, <3>2, <4>1 DEF ForkServer, Up, Broken, Connected
    <3> QED
      BY <3>1, <3>2
  <2> QED
    BY <2>1, <2>2, <2>3, <2>4, OneBoards DEF TenantMoves
<1>3. CASE \/ pc[l] = "entered" /\ Decline(l)
           \/ SpawnFails(l) \/ AppExits(l)
           \/ pc[l] \in {"entered", "served"} /\ KillLaunch(l)
  <2>1. Up' = Up /\ Broken' = Broken
    <3>1. \A s \in Launch : Connected(s)' = Connected(s) /\ Mounted(s)' = Mounted(s)
      BY <1>3, <1>b DEF Decline, GiveUp, SpawnFails, AppExits, KillLaunch, Connected,
        Mounted
    <3> QED
      BY <1>3, <3>1, SameUp DEF Decline, SpawnFails, AppExits, KillLaunch, Broken
  <2>2. InMount(l) /\ ~InMount(l)'
    BY <1>3, <1>b DEF Decline, GiveUp, SpawnFails, AppExits, KillLaunch, InMount
  <2>3. \A k \in Launch \ {l} :
          InMount(k)' = InMount(k) /\ at'[k] = at[k] /\ leaseOn'[k] = leaseOn[k]
    BY <1>3 DEF Decline, GiveUp, SpawnFails, AppExits, KillLaunch, InMount
  <2> QED
    BY <2>1, <2>2, <2>3, OneDeparts DEF TenantMoves
<1> QED
  BY <1>1, <1>2, <1>3 DEF TenantStep

\* What a launch that is not in a mount does to its own state, and what a server
\* does, leaves the tenants where they are.
LEMMA TenantsStay ==
  ASSUME JoinInv, NEW l \in Launch,
         (\E m \in Modes : Mount(l, m)) \/ MountStep(l)
  PROVE  Tenants' = Tenants
<1>a. /\ pc \in [Launch -> LaunchPhase]
      /\ at \in [Launch -> Launch \cup {Nobody}]
      /\ leaseOn \in [Launch -> Launch \cup {Nobody}]
      /\ app \in [Launch -> {"none", "starting", "up", "gone"}]
  BY DEF JoinInv, IInv, Typed, TypeOK
<1>b. \A k \in Launch : app[k] # "none" => pc[k] = "running"
  BY DEF JoinInv, IInv, Phases
<1> USE <1>a DEF launchVars, fileVars, mountVars, InMount
<1> SUFFICES ASSUME NEW k \in Launch
             PROVE  /\ InMount(k)' = InMount(k)
                    /\ InMount(k) => at'[k] = at[k] /\ leaseOn'[k] = leaseOn[k]
  BY SameTenants
<1>1. CASE OpenRecord(l) \/ LockRecord(l) \/ RecordRemoved(l) \/ DropRecord(l)
  BY <1>1, <1>b DEF OpenRecord, LockRecord, RecordRemoved, DropRecord
<1>2. CASE TakeLease(l) \/ MakeLease(l)
  BY <1>2, <1>b DEF TakeLease, MakeLease, LeaseFile
<1>3. CASE \/ pc[l] # "entered" /\ Decline(l)
           \/ DeclineStranger(l) \/ Unmountable(l) \/ CreateFails(l)
  BY <1>3, <1>b DEF Decline, DeclineStranger, Unmountable, CreateFails, CleanUpMountpoint,
    GiveUp, Vacant
<1>4. CASE \E m \in Modes : Mount(l, m)
  BY <1>4, <1>b DEF Mount, Vacant
<1>5. CASE Spawn(l) \/ Exec(l) \/ GuardianReleases(l) \/ AppCloses(l)
  BY <1>5, <1>b DEF Spawn, Exec, GuardianReleases, AppCloses
<1>6. CASE ServerStep(l)
  BY <1>6 DEF ServerStep, WriteRecord, StartPolling, ProbeLease, ProbeRecord, RecordBusy,
    StillUsed, Settle, MountLost, Relock, Unmount, Leave, Quiet
<1>7. CASE KillServer(l) \/ KillGuardian(l) \/ ForcedUnmount(l)
  BY <1>7 DEF KillServer, KillGuardian, ForcedUnmount
<1>8. CASE pc[l] \notin {"entered", "served"} /\ KillLaunch(l)
  BY <1>8, <1>b DEF KillLaunch
<1> QED
  BY <1>1, <1>2, <1>3, <1>4, <1>5, <1>6, <1>7, <1>8 DEF MountStep

\* A mount is only ever raised on a path that shows none that is connected.
LEMMA MountRaises ==
  ASSUME JoinInv, NEW l \in Launch, NEW m \in Modes, Mount(l, m)
  PROVE  l \notin Up /\ Up' = Up \cup {l} /\ Broken' = Broken
<1>a. /\ pc \in [Launch -> LaunchPhase]
      /\ mode \in [Launch -> {"ns", "host"}]
      /\ srv \in [Launch -> ServerPhase]
      /\ hostMount \in Launch \cup {Nobody} /\ nsMounts \subseteq Launch
      /\ Nobody \notin Launch /\ Modes \subseteq {"ns", "host"}
  BY ShareMountAssumption DEF JoinInv, IInv, Typed, TypeOK
<1> USE <1>a
<1>1. pc[l] = "locked" /\ srv[l] = "none"
  BY DEF JoinInv, IInv, Phases, Mount, Vacant
<1>2. ~Connected(l) /\ Connected(l)' /\ Mounted(l)'
  BY <1>1 DEF Mount, Connected, Mounted
<1>3. \A s \in Launch \ {l} :
        /\ Connected(s)' = Connected(s)
        /\ Connected(s) => Mounted(s)' = Mounted(s)
  BY DEF Mount, Connected, Mounted
<1> QED
  BY <1>2, <1>3 DEF Up, Broken, Mount

\* As long as every record was written, any other step that is not a tenant's takes
\* down one mount at most, and breaks none but that one.
LEMMA OneFalls ==
  ASSUME JoinInv, unwritten = {}, unwritten' = {}, NEW l \in Launch, MountStep(l)
  PROVE  Up' \in {Up, Up \ {l}} /\ lost' \in {lost, lost \cup {l}}
<1>a. /\ pc \in [Launch -> LaunchPhase]
      /\ mode \in [Launch -> {"ns", "host"}]
      /\ srv \in [Launch -> ServerPhase]
      /\ hostMount \in Launch \cup {Nobody} /\ nsMounts \subseteq Launch
      /\ Nobody \notin Launch
  BY ShareMountAssumption DEF JoinInv, IInv, Typed, TypeOK
<1>b. \A s, t \in Launch : Active(s) /\ Active(t) => s = t
  BY DEF JoinInv, IInv, OneActive
<1>c. \A s \in Launch : Connected(s) => Active(s)
  BY DEF Connected, Active, Live
<1> DEFINE OneDown ==
             /\ lost' \in {lost, lost \cup {l}}
             /\ \A s \in Launch \ {l} :
                  (Connected(s) /\ Mounted(s))' = (Connected(s) /\ Mounted(s))
             /\ (Connected(l) /\ Mounted(l))' => Connected(l) /\ Mounted(l)
<1>d. SUFFICES OneDown
  BY DEF Up
<1> USE <1>a DEF launchVars, fileVars, mountVars
<1>1. CASE \/ OpenRecord(l) \/ LockRecord(l) \/ RecordRemoved(l) \/ DropRecord(l)
           \/ TakeLease(l) \/ DeclineStranger(l) \/ MakeLease(l)
           \/ pc[l] # "entered" /\ Decline(l)
  BY <1>1 DEF OpenRecord, LockRecord, RecordRemoved, DropRecord, TakeLease, Decline,
    DeclineStranger, Vacant, GiveUp, MakeLease, Connected, Mounted
<1>2. CASE Unmountable(l)
  BY <1>2 DEF Unmountable, Vacant, GiveUp, Connected, Mounted
<1>3. CASE CreateFails(l)
  <2>1. Active(l) /\ (hostMount # Nobody => mode[hostMount] = "host")
    BY <1>3 DEF CreateFails, Active, JoinInv, IInv, MountMade
  <2>2. \A s \in Launch \ {l} : ~Connected(s)
    BY <2>1, <1>b, <1>c
  <2>3. \A s \in Launch \ {l} : ~Connected(s)'
    BY <1>3, <2>2 DEF CreateFails, CleanUpMountpoint, GiveUp, Connected
  <2>4. ~Connected(l)'
    BY <1>3 DEF CreateFails, GiveUp, Connected, JoinInv, IInv, Phases
  <2> QED
    BY <1>3, <2>2, <2>3, <2>4 DEF CreateFails, CleanUpMountpoint
<1>4. CASE Spawn(l) \/ Exec(l) \/ GuardianReleases(l) \/ AppCloses(l)
  BY <1>4 DEF Spawn, Exec, GuardianReleases, AppCloses, Connected, Mounted
<1>5. CASE Unmount(l)
  <2>1. Active(l)
    BY <1>5 DEF Unmount, Goes, Active, Live
  <2>2. \A s \in Launch \ {l} : ~Connected(s)
    BY <2>1, <1>b, <1>c
  <2>3. \A s \in Launch \ {l} : ~Connected(s)'
    BY <1>5, <2>2 DEF Unmount, Goes, Connected
  <2>4. ~Connected(l)'
    BY <1>5 DEF Unmount, Goes, Connected, JoinInv, IInv, Phases
  <2> QED
    BY <1>5, <2>2, <2>3, <2>4 DEF Unmount
<1>6. CASE \/ WriteRecord(l) \/ StartPolling(l) \/ ProbeLease(l) \/ ProbeRecord(l)
           \/ RecordBusy(l) \/ StillUsed(l) \/ Settle(l) \/ MountLost(l) \/ Relock(l)
           \/ Leave(l)
  BY <1>6 DEF WriteRecord, StartPolling, ProbeLease, ProbeRecord, RecordBusy,
    StillUsed, Settle, MountLost, Relock, Leave, Goes, Quiet, Connected, Mounted
<1>7. CASE KillServer(l) \/ KillGuardian(l)
  BY <1>7 DEF KillServer, KillGuardian, Connected, Mounted
<1>8. CASE ForcedUnmount(l)
  BY <1>8 DEF ForcedUnmount, Connected, Mounted
<1>9. CASE pc[l] \notin {"entered", "served"} /\ KillLaunch(l)
  BY <1>9 DEF KillLaunch, Connected, Mounted
<1> HIDE DEF OneDown
<1> QED
  BY <1>1, <1>2, <1>3, <1>4, <1>5, <1>6, <1>7, <1>8, <1>9 DEF MountStep, ServerStep

\* Whatever becomes of the records, no other step raises a mount.
LEMMA NoneRaised ==
  ASSUME JoinInv, NEW l \in Launch, MountStep(l)
  PROVE  Up' \subseteq Up
<1>a. /\ pc \in [Launch -> LaunchPhase]
      /\ mode \in [Launch -> {"ns", "host"}]
      /\ srv \in [Launch -> ServerPhase]
      /\ hostMount \in Launch \cup {Nobody} /\ nsMounts \subseteq Launch
      /\ Nobody \notin Launch
  BY ShareMountAssumption DEF JoinInv, IInv, Typed, TypeOK
<1>b. SUFFICES ASSUME NEW s \in Launch, Connected(s)', Mounted(s)'
               PROVE  Connected(s) /\ Mounted(s)
  BY DEF Up
<1> USE <1>a DEF launchVars, fileVars, mountVars
<1>1. CASE \/ OpenRecord(l) \/ LockRecord(l) \/ RecordRemoved(l) \/ DropRecord(l)
           \/ TakeLease(l) \/ DeclineStranger(l) \/ MakeLease(l)
           \/ pc[l] # "entered" /\ Decline(l)
  BY <1>1, <1>b DEF OpenRecord, LockRecord, RecordRemoved, DropRecord, TakeLease, Decline,
    DeclineStranger, Vacant, GiveUp, MakeLease, Connected, Mounted
<1>2. CASE Unmountable(l) \/ CreateFails(l)
  BY <1>2, <1>b DEF Unmountable, CreateFails, CleanUpMountpoint,
    Vacant, GiveUp, Connected, Mounted
<1>3. CASE Spawn(l) \/ Exec(l) \/ GuardianReleases(l) \/ AppCloses(l)
  BY <1>3, <1>b DEF Spawn, Exec, GuardianReleases, AppCloses, Connected, Mounted
<1>4. CASE ServerStep(l)
  BY <1>4, <1>b DEF ServerStep, WriteRecord, StartPolling, ProbeLease, ProbeRecord,
    RecordBusy, StillUsed, Settle, MountLost, Relock, Unmount, Leave, Goes, Quiet,
    Connected, Mounted
<1>5. CASE \/ KillServer(l) \/ KillGuardian(l) \/ ForcedUnmount(l)
           \/ pc[l] \notin {"entered", "served"} /\ KillLaunch(l)
  BY <1>5, <1>b DEF KillServer, KillGuardian, ForcedUnmount, KillLaunch, Connected,
    Mounted
<1> QED
  BY <1>1, <1>2, <1>3, <1>4, <1>5 DEF MountStep

\* Every step is one of the abstract specification, or leaves its state alone.
LEMMA StepImplements ==
  ASSUME JoinInv, JoinInv', [Next]_vars
  PROVE  [Lifetime!Next]_(Lifetime!lifetimeVars)
<1>a. Tenants \in [Launch -> SUBSET Launch] /\ Up \subseteq Launch
  BY DEF Tenants, Up
<1>b. lost \subseteq Launch /\ lost' \subseteq Launch /\ unwritten \subseteq unwritten'
  BY UnwrittenGrows DEF JoinInv, IInv, Typed, TypeOK
<1>1. CASE UNCHANGED vars
  <2>1. Up' = Up /\ Broken' = Broken /\ Tenants' = Tenants
    BY <1>1 DEF vars, launchVars, fileVars, mountVars, Up, Broken, Tenants, Connected,
      Mounted, InMount
  <2> QED
    BY <2>1, AbstractStutter
<1>2. ASSUME TenantMoves
      PROVE  [Lifetime!Next]_(Lifetime!lifetimeVars)
  BY <1>2, AbstractStutter, AbstractBoard, AbstractDepart DEF TenantMoves
<1>3. ASSUME NEW l \in Launch, NEW m \in Modes, Mount(l, m)
      PROVE  [Lifetime!Next]_(Lifetime!lifetimeVars)
  BY <1>3, MountRaises, TenantsStay, AbstractRaise
<1>4. ASSUME NEW l \in Launch, MountStep(l)
      PROVE  [Lifetime!Next]_(Lifetime!lifetimeVars)
  <2>1. Tenants' = Tenants
    BY <1>4, TenantsStay
  <2>2. CASE unwritten' # {}
    <3>1. Broken' = Broken \cup Launch
      BY <1>b, <2>2 DEF Broken
    <3>2. Up' \subseteq Up
      BY <1>4, NoneRaised
    <3>3. CASE Up' = Up
      BY <2>1, <3>1, <3>3, AbstractBreak
    <3>4. CASE unwritten # {}
      <4>1. Broken' = Broken \cup (Up \ Up') /\ Up' = Up \ (Up \ Up')
        BY <1>a, <3>1, <3>2, <3>4 DEF Broken
      <4>2. Up \ Up' \in SUBSET Launch
        BY <1>a
      <4> QED
        BY <2>1, <4>1, <4>2, AbstractBreak
    <3>5. CASE unwritten = {}
      <4>1. WriteRecord(l)
        BY <1>4, <2>2, <3>5 DEF MountStep, OpenRecord, LockRecord, RecordRemoved,
          TakeLease, DropRecord, Decline, DeclineStranger, Unmountable, MakeLease, CreateFails,
          CleanUpMountpoint, Spawn, Exec,
          GuardianReleases, AppCloses, ServerStep, StartPolling, ProbeLease, ProbeRecord,
          RecordBusy, StillUsed, Settle, MountLost, Relock, Unmount, Leave, Quiet,
          KillServer, KillGuardian, ForcedUnmount, KillLaunch
      <4>2. \A s \in Launch : Connected(s)' = Connected(s) /\ Mounted(s)' = Mounted(s)
        BY <4>1 DEF WriteRecord, Goes, Connected, Mounted, mountVars, JoinInv, IInv, Typed,
          TypeOK
      <4> QED
        BY <3>3, <4>2, SameUp
    <3> QED
      BY <3>4, <3>5
  <2>3. CASE unwritten' = {}
    <3>1. unwritten = {} /\ Broken = lost /\ Broken' = lost'
      BY <1>b, <2>3 DEF Broken
    <3>2. Up' \in {Up, Up \ {l}} /\ lost' \in {lost, lost \cup {l}}
      BY <1>4, <2>3, <3>1, OneFalls
    <3>3. CASE lost' = lost \cup {l}
      BY <2>1, <3>1, <3>2, <3>3, AbstractBreak
    <3>4. CASE lost' = lost /\ Up' = Up
      BY <2>1, <3>1, <3>4, AbstractStutter
    <3>5. CASE lost' = lost /\ l \notin lost /\ l \in Up /\ Up' = Up \ {l}
      <4>1. \A t \in Launch :
              (InMount(t) /\ leaseOn[t] = at[t] /\ at[t] \notin lost
                 => Connected(at[t]) /\ Mounted(at[t]))'
        BY <2>3 DEF JoinInv, IInv, NoPullout
      <4>2. Tenants'[l] = {}
        BY <4>1, <3>5 DEF Tenants, Up
      <4> QED
        BY <2>1, <3>1, <3>5, <4>2, AbstractFall
    <3> QED
      BY <3>2, <3>3, <3>4, <3>5
  <2> QED
    BY <2>2, <2>3
<1>5. ASSUME NEW l \in Launch,
             LaunchStep(l) \/ AppStep(l) \/ AppCloses(l) \/ ServerStep(l) \/ FaultStep(l)
      PROVE  [Lifetime!Next]_(Lifetime!lifetimeVars)
  <2>1. ASSUME TenantStep(l)
        PROVE  [Lifetime!Next]_(Lifetime!lifetimeVars)
    BY <1>2, <2>1, TenantMovesStep
  <2> QED
    BY <1>3, <1>4, <1>5, <2>1 DEF LaunchStep, AppStep, FaultStep, MountStep,
      TenantStep
<1>6. CASE SweepLocks \/ SweepRemoves
  <2>1. Up' = Up /\ Broken' = Broken /\ Tenants' = Tenants
    BY <1>6 DEF SweepLocks, SweepRemoves, launchVars, fileVars, mountVars, Up, Broken,
      Tenants, Connected, Mounted, InMount
  <2> QED
    BY <2>1, AbstractStutter
<1> QED
  BY <1>1, <1>5, <1>6 DEF Next

\* Launches, servers, sweeps, kills and forced unmounts do nothing to mounts and
\* their tenants that the promise of a shared mount does not allow (share.rs).
THEOREM LifetimeImplemented == Spec => ImplementsLifetime
<1>1. Init => Lifetime!Init
  <2> SUFFICES ASSUME Init PROVE Lifetime!Init
    OBVIOUS
  <2>1. \A s \in Launch : ~Connected(s) /\ ~InMount(s)
    BY DEF Init, Connected, InMount
  <2>2. unwritten = {} /\ lost = {}
    BY DEF Init
  <2> QED
    BY <2>1, <2>2 DEF Lifetime!Init, Tenants
<1>2. JoinInv /\ JoinInv' /\ [Next]_vars => [Lifetime!Next]_(Lifetime!lifetimeVars)
  BY StepImplements
<1> QED
  BY <1>1, <1>2, JoinInvHolds, PTL DEF Spec, ImplementsLifetime, Lifetime!Spec
=============================================================================
