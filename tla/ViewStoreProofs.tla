---------------------------- MODULE ViewStoreProofs ----------------------------
(***************************************************************************)
(* Theorems about ViewStore, for any launches, sweepers, views and faults. *)
(*                                                                         *)
(* The locks come first: a view's lease is shared or exclusive (LeaseLock) *)
(* and its creation mutex has one holder (CreationLock).  So nobody        *)
(* publishes behind the back of whoever clears the name, and nobody clears *)
(* it once it is clear (NameKnown); what can be reused is whole            *)
(* (ValidIsWhole); and a creator's staging tree is the only one            *)
(* (ScratchKnown).  RunsWholeView adds that nobody takes a part of a view  *)
(* away while it is leased.                                                *)
(***************************************************************************)
EXTENDS ViewStore, TLAPS

\* The lease is shared or one's own, whoever the holders are.
LeaseLock ==
  /\ \A l, m \in Launch :
       pc[l] = "removing" /\ m # l /\ ViewOf[m] = ViewOf[l]
         => pc[m] \notin LeasePhase \cup {"removing"}
  /\ \A l \in Launch, a \in Agent :
       gc[a] \in ClaimPhase /\ gcView[a] = ViewOf[l]
         => pc[l] \notin LeasePhase \cup {"removing"}
  /\ \A a, b \in Agent :
       gc[a] \in ClaimPhase /\ gc[b] \in ClaimPhase /\ gcView[a] = gcView[b] => a = b

\* The creation mutex has one holder.
CreationLock ==
  /\ \A l, m \in Launch :
       pc[l] \in CreatePhase /\ pc[m] \in CreatePhase /\ ViewOf[l] = ViewOf[m] => l = m
  /\ \A l \in Launch, a \in Agent :
       pc[l] \in CreatePhase /\ gc[a] \in ClaimPhase \ {"leased"} => gcView[a] # ViewOf[l]

\* What the mutex holder knows of the view's name.
NameKnown ==
  \A l \in Launch :
    /\ pc[l] \in {"converting", "removing"} => ~Valid(ViewOf[l])
    /\ pc[l] \in {"regaining", "staging", "building", "sealed"} => ViewOf[l] \notin views
    /\ pc[l] = "confirming" => ViewOf[l] \in views /\ "content" \in tree[ViewOf[l]]

\* What can be reused is whole, unless a collector is taking it apart or was cut
\* short doing so.
ValidIsWhole ==
  \A v \in View :
    Valid(v) /\ v \notin torn /\ (\A a \in Agent : gc[a] = "removing" => gcView[a] # v)
      => "content" \in tree[v]

\* No tree but the creator's is staged once the dead creators' are discarded.
ScratchKnown ==
  \A l, m \in Launch :
    ViewOf[l] = ViewOf[m] =>
      /\ pc[l] \in {"converting", "relocking", "removing", "regaining", "staging"} => m \notin staging
      /\ pc[l] \in {"building", "sealed"} => (m \in staging <=> m = l)

\* A ready view that a collector removes is old, unless there is no age limit.
OldWhenReclaimed ==
  \A a \in Agent :
    gc[a] = "removing" /\ "ready" \in tree[gcView[a]]
      => a \in clearing \/ used[gcView[a]] = "old"

Locks == LeaseLock /\ CreationLock

\* The inductive invariant.
IInv ==
  /\ TypeOK /\ Locks /\ NameKnown /\ ValidIsWhole /\ ScratchKnown
  /\ OldWhenReclaimed /\ RunsWholeView

-----------------------------------------------------------------------------
\* Every step keeps the types: nobody else removes what a collector removes.
LEMMA TypesStep ==
  TypeOK /\ LeaseLock /\ [Next]_vars => TypeOK'
<1> SUFFICES ASSUME TypeOK /\ LeaseLock, [Next]_vars PROVE TypeOK'
  OBVIOUS
<1> USE ViewStoreAssumption
    DEF TypeOK, LeaseLock, LaunchPhase, SweepPhase, ClaimPhase, Agent, Part
<1>1. ASSUME NEW l \in Launch, TakeLease(l) PROVE TypeOK'
  BY <1>1 DEF TakeLease, Step, OpenLease, diskVars, sweepVars, visitVars,
    faultVars
<1>2. ASSUME NEW l \in Launch, SweepFirst(l) PROVE TypeOK'
  BY <1>2 DEF SweepFirst, Step, diskVars, sweepVars, visitVars, faultVars
<1>3. ASSUME NEW l \in Launch, SweepNot(l) PROVE TypeOK'
  BY <1>3 DEF SweepNot, Step, diskVars, sweepVars, visitVars, faultVars
<1>4. ASSUME NEW l \in Launch, SweepOver(l) PROVE TypeOK'
  BY <1>4 DEF SweepOver, Step, diskVars, sweepVars, visitVars, faultVars
<1>5. ASSUME NEW l \in Launch, LockCreation(l) PROVE TypeOK'
  BY <1>5 DEF LockCreation, Step, diskVars, sweepVars, visitVars, faultVars
<1>6. ASSUME NEW l \in Launch, Reuse(l) PROVE TypeOK'
  BY <1>6 DEF Reuse, Step, Stamp, diskVars, sweepVars, visitVars, faultVars
<1>7. ASSUME NEW l \in Launch, MissNothing(l) PROVE TypeOK'
  BY <1>7 DEF MissNothing, Step, diskVars, sweepVars, visitVars, faultVars
<1>8. ASSUME NEW l \in Launch, MissDamaged(l) PROVE TypeOK'
  BY <1>8 DEF MissDamaged, Step, diskVars, sweepVars, visitVars, faultVars
<1>9. ASSUME NEW l \in Launch, Convert(l) PROVE TypeOK'
  BY <1>9 DEF Convert, Step, diskVars, sweepVars, visitVars, faultVars
<1>10. ASSUME NEW l \in Launch, Busy(l) PROVE TypeOK'
  BY <1>10 DEF Busy, Step, diskVars, sweepVars, visitVars, faultVars
<1>11. ASSUME NEW l \in Launch, Unlink(l) PROVE TypeOK'
  BY <1>11 DEF Unlink, RemovePart, diskVars, sweepVars, visitVars, faultVars
<1>12. ASSUME NEW l \in Launch, Removed(l) PROVE TypeOK'
  BY <1>12 DEF Removed, Step, RemoveEmpty, diskVars, sweepVars, visitVars,
    faultVars
<1>13. ASSUME NEW l \in Launch, Regain(l) PROVE TypeOK'
  BY <1>13 DEF Regain, Step, diskVars, sweepVars, visitVars, faultVars
<1>14. ASSUME NEW l \in Launch, Relock(l) PROVE TypeOK'
  BY <1>14 DEF Relock, Step, diskVars, sweepVars, visitVars, faultVars
<1>15. ASSUME NEW l \in Launch, Stage(l) PROVE TypeOK'
  BY <1>15 DEF Stage, Step, diskVars, sweepVars, visitVars, faultVars
<1>16. ASSUME NEW l \in Launch, Seal(l) PROVE TypeOK'
  BY <1>16 DEF Seal, Step, diskVars, sweepVars, visitVars, faultVars
<1>17. ASSUME NEW l \in Launch, Publish(l) PROVE TypeOK'
  BY <1>17 DEF Publish, Step, diskVars, sweepVars, visitVars, faultVars
<1>18. ASSUME NEW l \in Launch, Confirm(l) PROVE TypeOK'
  BY <1>18 DEF Confirm, Step, Stamp, diskVars, sweepVars, visitVars, faultVars
<1>19. ASSUME NEW l \in Launch, ConfirmFails(l) PROVE TypeOK'
  BY <1>19 DEF ConfirmFails, Step, diskVars, sweepVars, visitVars, faultVars
<1>20. ASSUME NEW l \in Launch, RemoveFails(l) PROVE TypeOK'
  BY <1>20 DEF RemoveFails, Step, diskVars, sweepVars, visitVars, faultVars
<1>21. ASSUME NEW l \in Launch, Fail(l) PROVE TypeOK'
  BY <1>21 DEF Fail, diskVars, sweepVars, visitVars, faultVars
<1>22. ASSUME NEW l \in Launch, End(l) PROVE TypeOK'
  BY <1>22 DEF End, Step, diskVars, sweepVars, visitVars, faultVars
<1>23. ASSUME NEW l \in Launch, KillLaunch(l) PROVE TypeOK'
  BY <1>23 DEF KillLaunch, diskVars, sweepVars, visitVars, faultVars
<1>24. ASSUME NEW a \in Agent, List(a) PROVE TypeOK'
  BY <1>24 DEF List, At, diskVars, sweepVars, visitVars, faultVars
<1>25. ASSUME NEW a \in Agent, ClaimMutex(a) PROVE TypeOK'
  BY <1>25 DEF ClaimMutex, At, diskVars, sweepVars, visitVars, faultVars
<1>26. ASSUME NEW a \in Agent, SkipCreating(a) PROVE TypeOK'
  BY <1>26 DEF SkipCreating, At, NextView, diskVars, sweepVars, visitVars,
    faultVars
<1>27. ASSUME NEW a \in Agent, Keep(a) PROVE TypeOK'
  BY <1>27 DEF Keep, At, diskVars, sweepVars, visitVars, faultVars
<1>28. ASSUME NEW a \in Agent, Reclaim(a) PROVE TypeOK'
  BY <1>28 DEF Reclaim, At, diskVars, sweepVars, visitVars, faultVars
<1>29. ASSUME NEW a \in Agent, Reclaiming(a) PROVE TypeOK'
  BY <1>29 DEF Reclaiming, RemovePart, diskVars, sweepVars, visitVars, faultVars
<1>30. ASSUME NEW a \in Agent, Reclaimed(a) PROVE TypeOK'
  BY <1>30 DEF Reclaimed, At, RemoveEmpty, diskVars, sweepVars, visitVars,
    faultVars
<1>31. ASSUME NEW a \in Agent, DropScratch(a) PROVE TypeOK'
  BY <1>31 DEF DropScratch, At, NextView, diskVars, sweepVars, visitVars,
    faultVars
<1>32. ASSUME NEW a \in Agent, SweepDone(a) PROVE TypeOK'
  BY <1>32 DEF SweepDone, At, diskVars, sweepVars, visitVars, faultVars
<1>33. ASSUME NEW a \in Agent, NEW v \in View, ClaimLease(a, v) PROVE TypeOK'
  BY <1>33 DEF ClaimLease, At, OpenLease, diskVars, sweepVars, visitVars,
    faultVars
<1>34. ASSUME NEW a \in Agent, NEW v \in View, SkipLeased(a, v) PROVE TypeOK'
  BY <1>34 DEF SkipLeased, OpenLease, diskVars, sweepVars, visitVars, faultVars
<1>35. ASSUME NEW a \in Agent, ReclaimFails(a) PROVE TypeOK'
  BY <1>35 DEF ReclaimFails, At, diskVars, sweepVars, visitVars, faultVars
<1>36. ASSUME NEW a \in Agent, KillSweep(a) PROVE TypeOK'
  BY <1>36 DEF KillSweep, diskVars, sweepVars, visitVars, faultVars
<1>37. ASSUME NEW v \in View, Age(v) PROVE TypeOK'
  BY <1>37 DEF Age, diskVars, sweepVars, visitVars, faultVars
<1>38. ASSUME NEW v \in View, Damage(v) PROVE TypeOK'
  BY <1>38 DEF Damage, diskVars, sweepVars, visitVars, faultVars
<1>39. CASE UNCHANGED vars
  BY <1>39 DEF vars, diskVars, sweepVars, visitVars, faultVars
<1> QED
  BY <1>1, <1>2, <1>3, <1>4, <1>5, <1>6, <1>7, <1>8, <1>9, <1>10, <1>11, <1>12,
    <1>13, <1>14, <1>15, <1>16, <1>17, <1>18, <1>19, <1>20, <1>21, <1>22, <1>23,
    <1>24, <1>25, <1>26, <1>27, <1>28, <1>29, <1>30, <1>31, <1>32, <1>33, <1>34,
    <1>35, <1>36, <1>37, <1>38, <1>39 DEF Next, LaunchStep, SweepStep

\* Every step keeps the lease shared or one's own.
LEMMA LeaseStep ==
  TypeOK /\ LeaseLock /\ [Next]_vars => LeaseLock'
<1> SUFFICES ASSUME TypeOK /\ LeaseLock, [Next]_vars PROVE LeaseLock'
  OBVIOUS
<1> USE ViewStoreAssumption DEF TypeOK, LeaseLock, LeasePhase, ClaimPhase, Agent
<1>1. ASSUME NEW l \in Launch, TakeLease(l) PROVE LeaseLock'
  BY <1>1 DEF TakeLease, Step, SharedFree, Replacing, Claiming, diskVars,
    sweepVars, visitVars, faultVars
<1>2. ASSUME NEW l \in Launch, SweepFirst(l) PROVE LeaseLock'
  BY <1>2 DEF SweepFirst, Step, diskVars, sweepVars, visitVars, faultVars
<1>3. ASSUME NEW l \in Launch, SweepNot(l) PROVE LeaseLock'
  BY <1>3 DEF SweepNot, Step, diskVars, sweepVars, visitVars, faultVars
<1>4. ASSUME NEW l \in Launch, SweepOver(l) PROVE LeaseLock'
  BY <1>4 DEF SweepOver, Step, diskVars, sweepVars, visitVars, faultVars
<1>5. ASSUME NEW l \in Launch, LockCreation(l) PROVE LeaseLock'
  BY <1>5 DEF LockCreation, Step, diskVars, sweepVars, visitVars, faultVars
<1>6. ASSUME NEW l \in Launch, Reuse(l) PROVE LeaseLock'
  BY <1>6 DEF Reuse, Step, diskVars, sweepVars, visitVars, faultVars
<1>7. ASSUME NEW l \in Launch, MissNothing(l) PROVE LeaseLock'
  BY <1>7 DEF MissNothing, Step, diskVars, sweepVars, visitVars, faultVars
<1>8. ASSUME NEW l \in Launch, MissDamaged(l) PROVE LeaseLock'
  BY <1>8 DEF MissDamaged, Step, diskVars, sweepVars, visitVars, faultVars
<1>9. ASSUME NEW l \in Launch, Convert(l) PROVE LeaseLock'
  BY <1>9 DEF Convert, Step, ExclusiveFree, SharedFree, Leases, Replacing,
    Claiming, diskVars, sweepVars, visitVars, faultVars
<1>10. ASSUME NEW l \in Launch, Busy(l) PROVE LeaseLock'
  BY <1>10 DEF Busy, Step, diskVars, sweepVars, visitVars, faultVars
<1>11. ASSUME NEW l \in Launch, Unlink(l) PROVE LeaseLock'
  BY <1>11 DEF Unlink, diskVars, sweepVars, visitVars, faultVars
<1>12. ASSUME NEW l \in Launch, Removed(l) PROVE LeaseLock'
  BY <1>12 DEF Removed, Step, diskVars, sweepVars, visitVars, faultVars
<1>13. ASSUME NEW l \in Launch, Regain(l) PROVE LeaseLock'
  BY <1>13 DEF Regain, Step, SharedFree, Replacing, Claiming, diskVars, sweepVars,
    visitVars, faultVars
<1>14. ASSUME NEW l \in Launch, Relock(l) PROVE LeaseLock'
  BY <1>14 DEF Relock, Step, diskVars, sweepVars, visitVars, faultVars
<1>15. ASSUME NEW l \in Launch, Stage(l) PROVE LeaseLock'
  BY <1>15 DEF Stage, Step, diskVars, sweepVars, visitVars, faultVars
<1>16. ASSUME NEW l \in Launch, Seal(l) PROVE LeaseLock'
  BY <1>16 DEF Seal, Step, diskVars, sweepVars, visitVars, faultVars
<1>17. ASSUME NEW l \in Launch, Publish(l) PROVE LeaseLock'
  BY <1>17 DEF Publish, Step, diskVars, sweepVars, visitVars, faultVars
<1>18. ASSUME NEW l \in Launch, Confirm(l) PROVE LeaseLock'
  BY <1>18 DEF Confirm, Step, diskVars, sweepVars, visitVars, faultVars
<1>19. ASSUME NEW l \in Launch, ConfirmFails(l) PROVE LeaseLock'
  BY <1>19 DEF ConfirmFails, Step, diskVars, sweepVars, visitVars, faultVars
<1>20. ASSUME NEW l \in Launch, RemoveFails(l) PROVE LeaseLock'
  BY <1>20 DEF RemoveFails, Step, diskVars, sweepVars, visitVars, faultVars
<1>21. ASSUME NEW l \in Launch, Fail(l) PROVE LeaseLock'
  BY <1>21 DEF Fail, diskVars, sweepVars, visitVars, faultVars
<1>22. ASSUME NEW l \in Launch, End(l) PROVE LeaseLock'
  BY <1>22 DEF End, Step, diskVars, sweepVars, visitVars, faultVars
<1>23. ASSUME NEW l \in Launch, KillLaunch(l) PROVE LeaseLock'
  BY <1>23 DEF KillLaunch, diskVars, sweepVars, visitVars, faultVars
<1>24. ASSUME NEW a \in Agent, List(a) PROVE LeaseLock'
  BY <1>24 DEF List, At, diskVars, sweepVars, visitVars, faultVars
<1>25. ASSUME NEW a \in Agent, ClaimMutex(a) PROVE LeaseLock'
  BY <1>25 DEF ClaimMutex, At, diskVars, sweepVars, visitVars, faultVars
<1>26. ASSUME NEW a \in Agent, SkipCreating(a) PROVE LeaseLock'
  BY <1>26 DEF SkipCreating, At, NextView, diskVars, sweepVars, visitVars,
    faultVars
<1>27. ASSUME NEW a \in Agent, Keep(a) PROVE LeaseLock'
  BY <1>27 DEF Keep, At, diskVars, sweepVars, visitVars, faultVars
<1>28. ASSUME NEW a \in Agent, Reclaim(a) PROVE LeaseLock'
  BY <1>28 DEF Reclaim, At, diskVars, sweepVars, visitVars, faultVars
<1>29. ASSUME NEW a \in Agent, Reclaiming(a) PROVE LeaseLock'
  BY <1>29 DEF Reclaiming, diskVars, sweepVars, visitVars, faultVars
<1>30. ASSUME NEW a \in Agent, Reclaimed(a) PROVE LeaseLock'
  BY <1>30 DEF Reclaimed, At, diskVars, sweepVars, visitVars, faultVars
<1>31. ASSUME NEW a \in Agent, DropScratch(a) PROVE LeaseLock'
  BY <1>31 DEF DropScratch, At, NextView, diskVars, sweepVars, visitVars,
    faultVars
<1>32. ASSUME NEW a \in Agent, SweepDone(a) PROVE LeaseLock'
  BY <1>32 DEF SweepDone, At, diskVars, sweepVars, visitVars, faultVars
<1>33. ASSUME NEW a \in Agent, NEW v \in View, ClaimLease(a, v) PROVE LeaseLock'
  BY <1>33 DEF ClaimLease, At, ExclusiveFree, SharedFree, Leases, Replacing,
    Claiming, diskVars, sweepVars, visitVars, faultVars
<1>34. ASSUME NEW a \in Agent, NEW v \in View, SkipLeased(a, v) PROVE LeaseLock'
  BY <1>34 DEF SkipLeased, diskVars, sweepVars, visitVars, faultVars
<1>35. ASSUME NEW a \in Agent, ReclaimFails(a) PROVE LeaseLock'
  BY <1>35 DEF ReclaimFails, At, diskVars, sweepVars, visitVars, faultVars
<1>36. ASSUME NEW a \in Agent, KillSweep(a) PROVE LeaseLock'
  BY <1>36 DEF KillSweep, diskVars, sweepVars, visitVars, faultVars
<1>37. ASSUME NEW v \in View, Age(v) PROVE LeaseLock'
  BY <1>37 DEF Age, diskVars, sweepVars, visitVars, faultVars
<1>38. ASSUME NEW v \in View, Damage(v) PROVE LeaseLock'
  BY <1>38 DEF Damage, diskVars, sweepVars, visitVars, faultVars
<1>39. CASE UNCHANGED vars
  BY <1>39 DEF vars, diskVars, sweepVars, visitVars, faultVars
<1> QED
  BY <1>1, <1>2, <1>3, <1>4, <1>5, <1>6, <1>7, <1>8, <1>9, <1>10, <1>11, <1>12,
    <1>13, <1>14, <1>15, <1>16, <1>17, <1>18, <1>19, <1>20, <1>21, <1>22, <1>23,
    <1>24, <1>25, <1>26, <1>27, <1>28, <1>29, <1>30, <1>31, <1>32, <1>33, <1>34,
    <1>35, <1>36, <1>37, <1>38, <1>39 DEF Next, LaunchStep, SweepStep

\* Every step leaves the creation mutex to one holder.
LEMMA CreationStep ==
  TypeOK /\ CreationLock /\ [Next]_vars => CreationLock'
<1> SUFFICES ASSUME TypeOK /\ CreationLock, [Next]_vars PROVE CreationLock'
  OBVIOUS
<1> USE ViewStoreAssumption DEF TypeOK, CreationLock, CreatePhase, ClaimPhase, Agent
<1>1. ASSUME NEW l \in Launch, TakeLease(l) PROVE CreationLock'
  BY <1>1 DEF TakeLease, Step, diskVars, sweepVars, visitVars, faultVars
<1>2. ASSUME NEW l \in Launch, SweepFirst(l) PROVE CreationLock'
  BY <1>2 DEF SweepFirst, Step, diskVars, sweepVars, visitVars, faultVars
<1>3. ASSUME NEW l \in Launch, SweepNot(l) PROVE CreationLock'
  BY <1>3 DEF SweepNot, Step, diskVars, sweepVars, visitVars, faultVars
<1>4. ASSUME NEW l \in Launch, SweepOver(l) PROVE CreationLock'
  BY <1>4 DEF SweepOver, Step, diskVars, sweepVars, visitVars, faultVars
<1>5. ASSUME NEW l \in Launch, LockCreation(l) PROVE CreationLock'
  BY <1>5 DEF LockCreation, Step, MutexFree, Creating, Collecting, diskVars,
    sweepVars, visitVars, faultVars
<1>6. ASSUME NEW l \in Launch, Reuse(l) PROVE CreationLock'
  BY <1>6 DEF Reuse, Step, diskVars, sweepVars, visitVars, faultVars
<1>7. ASSUME NEW l \in Launch, MissNothing(l) PROVE CreationLock'
  BY <1>7 DEF MissNothing, Step, diskVars, sweepVars, visitVars, faultVars
<1>8. ASSUME NEW l \in Launch, MissDamaged(l) PROVE CreationLock'
  BY <1>8 DEF MissDamaged, Step, diskVars, sweepVars, visitVars, faultVars
<1>9. ASSUME NEW l \in Launch, Convert(l) PROVE CreationLock'
  BY <1>9 DEF Convert, Step, diskVars, sweepVars, visitVars, faultVars
<1>10. ASSUME NEW l \in Launch, Busy(l) PROVE CreationLock'
  BY <1>10 DEF Busy, Step, diskVars, sweepVars, visitVars, faultVars
<1>11. ASSUME NEW l \in Launch, Unlink(l) PROVE CreationLock'
  BY <1>11 DEF Unlink, diskVars, sweepVars, visitVars, faultVars
<1>12. ASSUME NEW l \in Launch, Removed(l) PROVE CreationLock'
  BY <1>12 DEF Removed, Step, diskVars, sweepVars, visitVars, faultVars
<1>13. ASSUME NEW l \in Launch, Regain(l) PROVE CreationLock'
  BY <1>13 DEF Regain, Step, diskVars, sweepVars, visitVars, faultVars
<1>14. ASSUME NEW l \in Launch, Relock(l) PROVE CreationLock'
  BY <1>14 DEF Relock, Step, diskVars, sweepVars, visitVars, faultVars
<1>15. ASSUME NEW l \in Launch, Stage(l) PROVE CreationLock'
  BY <1>15 DEF Stage, Step, diskVars, sweepVars, visitVars, faultVars
<1>16. ASSUME NEW l \in Launch, Seal(l) PROVE CreationLock'
  BY <1>16 DEF Seal, Step, diskVars, sweepVars, visitVars, faultVars
<1>17. ASSUME NEW l \in Launch, Publish(l) PROVE CreationLock'
  BY <1>17 DEF Publish, Step, diskVars, sweepVars, visitVars, faultVars
<1>18. ASSUME NEW l \in Launch, Confirm(l) PROVE CreationLock'
  BY <1>18 DEF Confirm, Step, diskVars, sweepVars, visitVars, faultVars
<1>19. ASSUME NEW l \in Launch, ConfirmFails(l) PROVE CreationLock'
  BY <1>19 DEF ConfirmFails, Step, diskVars, sweepVars, visitVars, faultVars
<1>20. ASSUME NEW l \in Launch, RemoveFails(l) PROVE CreationLock'
  BY <1>20 DEF RemoveFails, Step, diskVars, sweepVars, visitVars, faultVars
<1>21. ASSUME NEW l \in Launch, Fail(l) PROVE CreationLock'
  BY <1>21 DEF Fail, diskVars, sweepVars, visitVars, faultVars
<1>22. ASSUME NEW l \in Launch, End(l) PROVE CreationLock'
  BY <1>22 DEF End, Step, diskVars, sweepVars, visitVars, faultVars
<1>23. ASSUME NEW l \in Launch, KillLaunch(l) PROVE CreationLock'
  BY <1>23 DEF KillLaunch, diskVars, sweepVars, visitVars, faultVars
<1>24. ASSUME NEW a \in Agent, List(a) PROVE CreationLock'
  BY <1>24 DEF List, At, diskVars, sweepVars, visitVars, faultVars
<1>25. ASSUME NEW a \in Agent, ClaimMutex(a) PROVE CreationLock'
  BY <1>25 DEF ClaimMutex, At, MutexFree, Creating, Collecting, diskVars,
    sweepVars, visitVars, faultVars
<1>26. ASSUME NEW a \in Agent, SkipCreating(a) PROVE CreationLock'
  BY <1>26 DEF SkipCreating, At, NextView, diskVars, sweepVars, visitVars,
    faultVars
<1>27. ASSUME NEW a \in Agent, Keep(a) PROVE CreationLock'
  BY <1>27 DEF Keep, At, diskVars, sweepVars, visitVars, faultVars
<1>28. ASSUME NEW a \in Agent, Reclaim(a) PROVE CreationLock'
  BY <1>28 DEF Reclaim, At, diskVars, sweepVars, visitVars, faultVars
<1>29. ASSUME NEW a \in Agent, Reclaiming(a) PROVE CreationLock'
  BY <1>29 DEF Reclaiming, diskVars, sweepVars, visitVars, faultVars
<1>30. ASSUME NEW a \in Agent, Reclaimed(a) PROVE CreationLock'
  BY <1>30 DEF Reclaimed, At, diskVars, sweepVars, visitVars, faultVars
<1>31. ASSUME NEW a \in Agent, DropScratch(a) PROVE CreationLock'
  BY <1>31 DEF DropScratch, At, NextView, diskVars, sweepVars, visitVars,
    faultVars
<1>32. ASSUME NEW a \in Agent, SweepDone(a) PROVE CreationLock'
  BY <1>32 DEF SweepDone, At, diskVars, sweepVars, visitVars, faultVars
<1>33. ASSUME NEW a \in Agent, NEW v \in View, ClaimLease(a, v) PROVE CreationLock'
  BY <1>33 DEF ClaimLease, At, diskVars, sweepVars, visitVars, faultVars
<1>34. ASSUME NEW a \in Agent, NEW v \in View, SkipLeased(a, v) PROVE CreationLock'
  BY <1>34 DEF SkipLeased, diskVars, sweepVars, visitVars, faultVars
<1>35. ASSUME NEW a \in Agent, ReclaimFails(a) PROVE CreationLock'
  BY <1>35 DEF ReclaimFails, At, diskVars, sweepVars, visitVars, faultVars
<1>36. ASSUME NEW a \in Agent, KillSweep(a) PROVE CreationLock'
  BY <1>36 DEF KillSweep, diskVars, sweepVars, visitVars, faultVars
<1>37. ASSUME NEW v \in View, Age(v) PROVE CreationLock'
  BY <1>37 DEF Age, diskVars, sweepVars, visitVars, faultVars
<1>38. ASSUME NEW v \in View, Damage(v) PROVE CreationLock'
  BY <1>38 DEF Damage, diskVars, sweepVars, visitVars, faultVars
<1>39. CASE UNCHANGED vars
  BY <1>39 DEF vars, diskVars, sweepVars, visitVars, faultVars
<1> QED
  BY <1>1, <1>2, <1>3, <1>4, <1>5, <1>6, <1>7, <1>8, <1>9, <1>10, <1>11, <1>12,
    <1>13, <1>14, <1>15, <1>16, <1>17, <1>18, <1>19, <1>20, <1>21, <1>22, <1>23,
    <1>24, <1>25, <1>26, <1>27, <1>28, <1>29, <1>30, <1>31, <1>32, <1>33, <1>34,
    <1>35, <1>36, <1>37, <1>38, <1>39 DEF Next, LaunchStep, SweepStep

\* What the mutex holder knows of the name stays true: nobody else publishes, and
\* a collector leaves what is leased.
LEMMA NameStep ==
  TypeOK /\ Locks /\ NameKnown /\ [Next]_vars => NameKnown'
<1> SUFFICES ASSUME TypeOK /\ Locks /\ NameKnown, [Next]_vars PROVE NameKnown'
  OBVIOUS
<1> USE ViewStoreAssumption
    DEF TypeOK, Locks, LeaseLock, CreationLock, NameKnown, LeasePhase, CreatePhase,
        ClaimPhase, Agent, Part, Valid
<1>1. ASSUME NEW l \in Launch, TakeLease(l) PROVE NameKnown'
  BY <1>1 DEF TakeLease, Step, diskVars, sweepVars, visitVars, faultVars
<1>2. ASSUME NEW l \in Launch, SweepFirst(l) PROVE NameKnown'
  BY <1>2 DEF SweepFirst, Step, diskVars, sweepVars, visitVars, faultVars
<1>3. ASSUME NEW l \in Launch, SweepNot(l) PROVE NameKnown'
  BY <1>3 DEF SweepNot, Step, diskVars, sweepVars, visitVars, faultVars
<1>4. ASSUME NEW l \in Launch, SweepOver(l) PROVE NameKnown'
  BY <1>4 DEF SweepOver, Step, diskVars, sweepVars, visitVars, faultVars
<1>5. ASSUME NEW l \in Launch, LockCreation(l) PROVE NameKnown'
  BY <1>5 DEF LockCreation, Step, diskVars, sweepVars, visitVars, faultVars
<1>6. ASSUME NEW l \in Launch, Reuse(l) PROVE NameKnown'
  BY <1>6 DEF Reuse, Step, diskVars, sweepVars, visitVars, faultVars
<1>7. ASSUME NEW l \in Launch, MissNothing(l) PROVE NameKnown'
  BY <1>7 DEF MissNothing, Step, diskVars, sweepVars, visitVars, faultVars
<1>8. ASSUME NEW l \in Launch, MissDamaged(l) PROVE NameKnown'
  BY <1>8 DEF MissDamaged, Step, diskVars, sweepVars, visitVars, faultVars
<1>9. ASSUME NEW l \in Launch, Convert(l) PROVE NameKnown'
  BY <1>9 DEF Convert, Step, diskVars, sweepVars, visitVars, faultVars
<1>10. ASSUME NEW l \in Launch, Busy(l) PROVE NameKnown'
  BY <1>10 DEF Busy, Step, diskVars, sweepVars, visitVars, faultVars
<1>11. ASSUME NEW l \in Launch, Unlink(l) PROVE NameKnown'
  BY <1>11 DEF Unlink, RemovePart, diskVars, sweepVars, visitVars, faultVars
<1>12. ASSUME NEW l \in Launch, Removed(l) PROVE NameKnown'
  BY <1>12 DEF Removed, Step, RemoveEmpty, diskVars, sweepVars, visitVars,
    faultVars
<1>13. ASSUME NEW l \in Launch, Regain(l) PROVE NameKnown'
  BY <1>13 DEF Regain, Step, diskVars, sweepVars, visitVars, faultVars
<1>14. ASSUME NEW l \in Launch, Relock(l) PROVE NameKnown'
  BY <1>14 DEF Relock, Step, diskVars, sweepVars, visitVars, faultVars
<1>15. ASSUME NEW l \in Launch, Stage(l) PROVE NameKnown'
  BY <1>15 DEF Stage, Step, diskVars, sweepVars, visitVars, faultVars
<1>16. ASSUME NEW l \in Launch, Seal(l) PROVE NameKnown'
  BY <1>16 DEF Seal, Step, diskVars, sweepVars, visitVars, faultVars
<1>17. ASSUME NEW l \in Launch, Publish(l) PROVE NameKnown'
  BY <1>17 DEF Publish, Step, diskVars, sweepVars, visitVars, faultVars
<1>18. ASSUME NEW l \in Launch, Confirm(l) PROVE NameKnown'
  BY <1>18 DEF Confirm, Step, diskVars, sweepVars, visitVars, faultVars
<1>19. ASSUME NEW l \in Launch, ConfirmFails(l) PROVE NameKnown'
  BY <1>19 DEF ConfirmFails, Step, diskVars, sweepVars, visitVars, faultVars
<1>20. ASSUME NEW l \in Launch, RemoveFails(l) PROVE NameKnown'
  BY <1>20 DEF RemoveFails, Step, diskVars, sweepVars, visitVars, faultVars
<1>21. ASSUME NEW l \in Launch, Fail(l) PROVE NameKnown'
  BY <1>21 DEF Fail, diskVars, sweepVars, visitVars, faultVars
<1>22. ASSUME NEW l \in Launch, End(l) PROVE NameKnown'
  BY <1>22 DEF End, Step, diskVars, sweepVars, visitVars, faultVars
<1>23. ASSUME NEW l \in Launch, KillLaunch(l) PROVE NameKnown'
  BY <1>23 DEF KillLaunch, diskVars, sweepVars, visitVars, faultVars
<1>24. ASSUME NEW a \in Agent, List(a) PROVE NameKnown'
  BY <1>24 DEF List, At, diskVars, sweepVars, visitVars, faultVars
<1>25. ASSUME NEW a \in Agent, ClaimMutex(a) PROVE NameKnown'
  BY <1>25 DEF ClaimMutex, At, diskVars, sweepVars, visitVars, faultVars
<1>26. ASSUME NEW a \in Agent, SkipCreating(a) PROVE NameKnown'
  BY <1>26 DEF SkipCreating, At, NextView, diskVars, sweepVars, visitVars,
    faultVars
<1>27. ASSUME NEW a \in Agent, Keep(a) PROVE NameKnown'
  BY <1>27 DEF Keep, At, diskVars, sweepVars, visitVars, faultVars
<1>28. ASSUME NEW a \in Agent, Reclaim(a) PROVE NameKnown'
  BY <1>28 DEF Reclaim, At, diskVars, sweepVars, visitVars, faultVars
<1>29. ASSUME NEW a \in Agent, Reclaiming(a) PROVE NameKnown'
  BY <1>29 DEF Reclaiming, RemovePart, diskVars, sweepVars, visitVars, faultVars
<1>30. ASSUME NEW a \in Agent, Reclaimed(a) PROVE NameKnown'
  BY <1>30 DEF Reclaimed, At, RemoveEmpty, diskVars, sweepVars, visitVars,
    faultVars
<1>31. ASSUME NEW a \in Agent, DropScratch(a) PROVE NameKnown'
  BY <1>31 DEF DropScratch, At, NextView, diskVars, sweepVars, visitVars,
    faultVars
<1>32. ASSUME NEW a \in Agent, SweepDone(a) PROVE NameKnown'
  BY <1>32 DEF SweepDone, At, diskVars, sweepVars, visitVars, faultVars
<1>33. ASSUME NEW a \in Agent, NEW v \in View, ClaimLease(a, v) PROVE NameKnown'
  BY <1>33 DEF ClaimLease, At, diskVars, sweepVars, visitVars, faultVars
<1>34. ASSUME NEW a \in Agent, NEW v \in View, SkipLeased(a, v) PROVE NameKnown'
  BY <1>34 DEF SkipLeased, diskVars, sweepVars, visitVars, faultVars
<1>35. ASSUME NEW a \in Agent, ReclaimFails(a) PROVE NameKnown'
  BY <1>35 DEF ReclaimFails, At, diskVars, sweepVars, visitVars, faultVars
<1>36. ASSUME NEW a \in Agent, KillSweep(a) PROVE NameKnown'
  BY <1>36 DEF KillSweep, diskVars, sweepVars, visitVars, faultVars
<1>37. ASSUME NEW v \in View, Age(v) PROVE NameKnown'
  BY <1>37 DEF Age, diskVars, sweepVars, visitVars, faultVars
<1>38. ASSUME NEW v \in View, Damage(v) PROVE NameKnown'
  BY <1>38 DEF Damage, diskVars, sweepVars, visitVars, faultVars
<1>39. CASE UNCHANGED vars
  BY <1>39 DEF vars, diskVars, sweepVars, visitVars, faultVars
<1> QED
  BY <1>1, <1>2, <1>3, <1>4, <1>5, <1>6, <1>7, <1>8, <1>9, <1>10, <1>11, <1>12,
    <1>13, <1>14, <1>15, <1>16, <1>17, <1>18, <1>19, <1>20, <1>21, <1>22, <1>23,
    <1>24, <1>25, <1>26, <1>27, <1>28, <1>29, <1>30, <1>31, <1>32, <1>33, <1>34,
    <1>35, <1>36, <1>37, <1>38, <1>39 DEF Next, LaunchStep, SweepStep

\* A removal is announced before it takes the first part and recorded when it is
\* cut short, so what is left to be reused is whole.
LEMMA WholeStep ==
  TypeOK /\ Locks /\ NameKnown /\ ValidIsWhole /\ [Next]_vars => ValidIsWhole'
<1> SUFFICES ASSUME TypeOK /\ Locks /\ NameKnown /\ ValidIsWhole, [Next]_vars PROVE ValidIsWhole'
  OBVIOUS
<1> USE ViewStoreAssumption
    DEF TypeOK, NameKnown, ValidIsWhole, ClaimPhase, Agent, Part, Valid
<1>1. ASSUME NEW l \in Launch, TakeLease(l) PROVE ValidIsWhole'
  BY <1>1 DEF TakeLease, Step, diskVars, sweepVars, visitVars, faultVars
<1>2. ASSUME NEW l \in Launch, SweepFirst(l) PROVE ValidIsWhole'
  BY <1>2 DEF SweepFirst, Step, diskVars, sweepVars, visitVars, faultVars
<1>3. ASSUME NEW l \in Launch, SweepNot(l) PROVE ValidIsWhole'
  BY <1>3 DEF SweepNot, Step, diskVars, sweepVars, visitVars, faultVars
<1>4. ASSUME NEW l \in Launch, SweepOver(l) PROVE ValidIsWhole'
  BY <1>4 DEF SweepOver, Step, diskVars, sweepVars, visitVars, faultVars
<1>5. ASSUME NEW l \in Launch, LockCreation(l) PROVE ValidIsWhole'
  BY <1>5 DEF LockCreation, Step, diskVars, sweepVars, visitVars, faultVars
<1>6. ASSUME NEW l \in Launch, Reuse(l) PROVE ValidIsWhole'
  BY <1>6 DEF Reuse, Step, diskVars, sweepVars, visitVars, faultVars
<1>7. ASSUME NEW l \in Launch, MissNothing(l) PROVE ValidIsWhole'
  BY <1>7 DEF MissNothing, Step, diskVars, sweepVars, visitVars, faultVars
<1>8. ASSUME NEW l \in Launch, MissDamaged(l) PROVE ValidIsWhole'
  BY <1>8 DEF MissDamaged, Step, diskVars, sweepVars, visitVars, faultVars
<1>9. ASSUME NEW l \in Launch, Convert(l) PROVE ValidIsWhole'
  BY <1>9 DEF Convert, Step, diskVars, sweepVars, visitVars, faultVars
<1>10. ASSUME NEW l \in Launch, Busy(l) PROVE ValidIsWhole'
  BY <1>10 DEF Busy, Step, diskVars, sweepVars, visitVars, faultVars
<1>11. ASSUME NEW l \in Launch, Unlink(l) PROVE ValidIsWhole'
  BY <1>11 DEF Unlink, RemovePart, diskVars, sweepVars, visitVars, faultVars
<1>12. ASSUME NEW l \in Launch, Removed(l) PROVE ValidIsWhole'
  BY <1>12 DEF Removed, Step, RemoveEmpty, diskVars, sweepVars, visitVars,
    faultVars
<1>13. ASSUME NEW l \in Launch, Regain(l) PROVE ValidIsWhole'
  BY <1>13 DEF Regain, Step, diskVars, sweepVars, visitVars, faultVars
<1>14. ASSUME NEW l \in Launch, Relock(l) PROVE ValidIsWhole'
  BY <1>14 DEF Relock, Step, diskVars, sweepVars, visitVars, faultVars
<1>15. ASSUME NEW l \in Launch, Stage(l) PROVE ValidIsWhole'
  BY <1>15 DEF Stage, Step, diskVars, sweepVars, visitVars, faultVars
<1>16. ASSUME NEW l \in Launch, Seal(l) PROVE ValidIsWhole'
  BY <1>16 DEF Seal, Step, diskVars, sweepVars, visitVars, faultVars
<1>17. ASSUME NEW l \in Launch, Publish(l) PROVE ValidIsWhole'
  BY <1>17 DEF Publish, Step, diskVars, sweepVars, visitVars, faultVars
<1>18. ASSUME NEW l \in Launch, Confirm(l) PROVE ValidIsWhole'
  BY <1>18 DEF Confirm, Step, diskVars, sweepVars, visitVars, faultVars
<1>19. ASSUME NEW l \in Launch, ConfirmFails(l) PROVE ValidIsWhole'
  BY <1>19 DEF ConfirmFails, Step, diskVars, sweepVars, visitVars, faultVars
<1>20. ASSUME NEW l \in Launch, RemoveFails(l) PROVE ValidIsWhole'
  BY <1>20 DEF RemoveFails, Step, diskVars, sweepVars, visitVars, faultVars
<1>21. ASSUME NEW l \in Launch, Fail(l) PROVE ValidIsWhole'
  BY <1>21 DEF Fail, diskVars, sweepVars, visitVars, faultVars
<1>22. ASSUME NEW l \in Launch, End(l) PROVE ValidIsWhole'
  BY <1>22 DEF End, Step, diskVars, sweepVars, visitVars, faultVars
<1>23. ASSUME NEW l \in Launch, KillLaunch(l) PROVE ValidIsWhole'
  BY <1>23 DEF KillLaunch, diskVars, sweepVars, visitVars, faultVars
<1>24. ASSUME NEW a \in Agent, List(a) PROVE ValidIsWhole'
  BY <1>24 DEF List, At, diskVars, sweepVars, visitVars, faultVars
<1>25. ASSUME NEW a \in Agent, ClaimMutex(a) PROVE ValidIsWhole'
  BY <1>25 DEF ClaimMutex, At, diskVars, sweepVars, visitVars, faultVars
<1>26. ASSUME NEW a \in Agent, SkipCreating(a) PROVE ValidIsWhole'
  BY <1>26 DEF SkipCreating, At, NextView, diskVars, sweepVars, visitVars,
    faultVars
<1>27. ASSUME NEW a \in Agent, Keep(a) PROVE ValidIsWhole'
  BY <1>27 DEF Keep, At, diskVars, sweepVars, visitVars, faultVars
<1>28. ASSUME NEW a \in Agent, Reclaim(a) PROVE ValidIsWhole'
  BY <1>28 DEF Reclaim, At, diskVars, sweepVars, visitVars, faultVars
<1>29. ASSUME NEW a \in Agent, Reclaiming(a) PROVE ValidIsWhole'
  BY <1>29 DEF Reclaiming, RemovePart, diskVars, sweepVars, visitVars, faultVars
<1>30. ASSUME NEW a \in Agent, Reclaimed(a) PROVE ValidIsWhole'
  BY <1>30 DEF Reclaimed, At, RemoveEmpty, diskVars, sweepVars, visitVars,
    faultVars
<1>31. ASSUME NEW a \in Agent, DropScratch(a) PROVE ValidIsWhole'
  BY <1>31 DEF DropScratch, At, NextView, diskVars, sweepVars, visitVars,
    faultVars
<1>32. ASSUME NEW a \in Agent, SweepDone(a) PROVE ValidIsWhole'
  BY <1>32 DEF SweepDone, At, diskVars, sweepVars, visitVars, faultVars
<1>33. ASSUME NEW a \in Agent, NEW v \in View, ClaimLease(a, v) PROVE ValidIsWhole'
  BY <1>33 DEF ClaimLease, At, diskVars, sweepVars, visitVars, faultVars
<1>34. ASSUME NEW a \in Agent, NEW v \in View, SkipLeased(a, v) PROVE ValidIsWhole'
  BY <1>34 DEF SkipLeased, diskVars, sweepVars, visitVars, faultVars
<1>35. ASSUME NEW a \in Agent, ReclaimFails(a) PROVE ValidIsWhole'
  BY <1>35 DEF ReclaimFails, At, diskVars, sweepVars, visitVars, faultVars
<1>36. ASSUME NEW a \in Agent, KillSweep(a) PROVE ValidIsWhole'
  BY <1>36 DEF KillSweep, diskVars, sweepVars, visitVars, faultVars
<1>37. ASSUME NEW v \in View, Age(v) PROVE ValidIsWhole'
  BY <1>37 DEF Age, diskVars, sweepVars, visitVars, faultVars
<1>38. ASSUME NEW v \in View, Damage(v) PROVE ValidIsWhole'
  BY <1>38 DEF Damage, diskVars, sweepVars, visitVars, faultVars
<1>39. CASE UNCHANGED vars
  BY <1>39 DEF vars, diskVars, sweepVars, visitVars, faultVars
<1> QED
  BY <1>1, <1>2, <1>3, <1>4, <1>5, <1>6, <1>7, <1>8, <1>9, <1>10, <1>11, <1>12,
    <1>13, <1>14, <1>15, <1>16, <1>17, <1>18, <1>19, <1>20, <1>21, <1>22, <1>23,
    <1>24, <1>25, <1>26, <1>27, <1>28, <1>29, <1>30, <1>31, <1>32, <1>33, <1>34,
    <1>35, <1>36, <1>37, <1>38, <1>39 DEF Next, LaunchStep, SweepStep

\* Nobody but the mutex holder stages or discards a tree of its view.
LEMMA ScratchStep ==
  TypeOK /\ Locks /\ ScratchKnown /\ [Next]_vars => ScratchKnown'
<1> SUFFICES ASSUME TypeOK /\ Locks /\ ScratchKnown, [Next]_vars PROVE ScratchKnown'
  OBVIOUS
<1> USE ViewStoreAssumption
    DEF TypeOK, Locks, CreationLock, ScratchKnown, CreatePhase, ClaimPhase, Agent
<1>1. ASSUME NEW l \in Launch, TakeLease(l) PROVE ScratchKnown'
  BY <1>1 DEF TakeLease, Step, diskVars, sweepVars, visitVars, faultVars
<1>2. ASSUME NEW l \in Launch, SweepFirst(l) PROVE ScratchKnown'
  BY <1>2 DEF SweepFirst, Step, diskVars, sweepVars, visitVars, faultVars
<1>3. ASSUME NEW l \in Launch, SweepNot(l) PROVE ScratchKnown'
  BY <1>3 DEF SweepNot, Step, diskVars, sweepVars, visitVars, faultVars
<1>4. ASSUME NEW l \in Launch, SweepOver(l) PROVE ScratchKnown'
  BY <1>4 DEF SweepOver, Step, diskVars, sweepVars, visitVars, faultVars
<1>5. ASSUME NEW l \in Launch, LockCreation(l) PROVE ScratchKnown'
  BY <1>5 DEF LockCreation, Step, diskVars, sweepVars, visitVars, faultVars
<1>6. ASSUME NEW l \in Launch, Reuse(l) PROVE ScratchKnown'
  BY <1>6 DEF Reuse, Step, diskVars, sweepVars, visitVars, faultVars
<1>7. ASSUME NEW l \in Launch, MissNothing(l) PROVE ScratchKnown'
  BY <1>7 DEF MissNothing, Step, Others, diskVars, sweepVars, visitVars, faultVars
<1>8. ASSUME NEW l \in Launch, MissDamaged(l) PROVE ScratchKnown'
  BY <1>8 DEF MissDamaged, Step, Others, diskVars, sweepVars, visitVars, faultVars
<1>9. ASSUME NEW l \in Launch, Convert(l) PROVE ScratchKnown'
  BY <1>9 DEF Convert, Step, diskVars, sweepVars, visitVars, faultVars
<1>10. ASSUME NEW l \in Launch, Busy(l) PROVE ScratchKnown'
  BY <1>10 DEF Busy, Step, diskVars, sweepVars, visitVars, faultVars
<1>11. ASSUME NEW l \in Launch, Unlink(l) PROVE ScratchKnown'
  BY <1>11 DEF Unlink, RemovePart, diskVars, sweepVars, visitVars, faultVars
<1>12. ASSUME NEW l \in Launch, Removed(l) PROVE ScratchKnown'
  BY <1>12 DEF Removed, Step, RemoveEmpty, diskVars, sweepVars, visitVars,
    faultVars
<1>13. ASSUME NEW l \in Launch, Regain(l) PROVE ScratchKnown'
  BY <1>13 DEF Regain, Step, diskVars, sweepVars, visitVars, faultVars
<1>14. ASSUME NEW l \in Launch, Relock(l) PROVE ScratchKnown'
  BY <1>14 DEF Relock, Step, diskVars, sweepVars, visitVars, faultVars
<1>15. ASSUME NEW l \in Launch, Stage(l) PROVE ScratchKnown'
  BY <1>15 DEF Stage, Step, diskVars, sweepVars, visitVars, faultVars
<1>16. ASSUME NEW l \in Launch, Seal(l) PROVE ScratchKnown'
  BY <1>16 DEF Seal, Step, diskVars, sweepVars, visitVars, faultVars
<1>17. ASSUME NEW l \in Launch, Publish(l) PROVE ScratchKnown'
  BY <1>17 DEF Publish, Step, diskVars, sweepVars, visitVars, faultVars
<1>18. ASSUME NEW l \in Launch, Confirm(l) PROVE ScratchKnown'
  BY <1>18 DEF Confirm, Step, diskVars, sweepVars, visitVars, faultVars
<1>19. ASSUME NEW l \in Launch, ConfirmFails(l) PROVE ScratchKnown'
  BY <1>19 DEF ConfirmFails, Step, diskVars, sweepVars, visitVars, faultVars
<1>20. ASSUME NEW l \in Launch, RemoveFails(l) PROVE ScratchKnown'
  BY <1>20 DEF RemoveFails, Step, diskVars, sweepVars, visitVars, faultVars
<1>21. ASSUME NEW l \in Launch, Fail(l) PROVE ScratchKnown'
  BY <1>21 DEF Fail, diskVars, sweepVars, visitVars, faultVars
<1>22. ASSUME NEW l \in Launch, End(l) PROVE ScratchKnown'
  BY <1>22 DEF End, Step, diskVars, sweepVars, visitVars, faultVars
<1>23. ASSUME NEW l \in Launch, KillLaunch(l) PROVE ScratchKnown'
  BY <1>23 DEF KillLaunch, diskVars, sweepVars, visitVars, faultVars
<1>24. ASSUME NEW a \in Agent, List(a) PROVE ScratchKnown'
  BY <1>24 DEF List, At, diskVars, sweepVars, visitVars, faultVars
<1>25. ASSUME NEW a \in Agent, ClaimMutex(a) PROVE ScratchKnown'
  BY <1>25 DEF ClaimMutex, At, diskVars, sweepVars, visitVars, faultVars
<1>26. ASSUME NEW a \in Agent, SkipCreating(a) PROVE ScratchKnown'
  BY <1>26 DEF SkipCreating, At, NextView, diskVars, sweepVars, visitVars,
    faultVars
<1>27. ASSUME NEW a \in Agent, Keep(a) PROVE ScratchKnown'
  BY <1>27 DEF Keep, At, diskVars, sweepVars, visitVars, faultVars
<1>28. ASSUME NEW a \in Agent, Reclaim(a) PROVE ScratchKnown'
  BY <1>28 DEF Reclaim, At, diskVars, sweepVars, visitVars, faultVars
<1>29. ASSUME NEW a \in Agent, Reclaiming(a) PROVE ScratchKnown'
  BY <1>29 DEF Reclaiming, RemovePart, diskVars, sweepVars, visitVars, faultVars
<1>30. ASSUME NEW a \in Agent, Reclaimed(a) PROVE ScratchKnown'
  BY <1>30 DEF Reclaimed, At, RemoveEmpty, diskVars, sweepVars, visitVars,
    faultVars
<1>31. ASSUME NEW a \in Agent, DropScratch(a) PROVE ScratchKnown'
  BY <1>31 DEF DropScratch, At, NextView, diskVars, sweepVars, visitVars,
    faultVars
<1>32. ASSUME NEW a \in Agent, SweepDone(a) PROVE ScratchKnown'
  BY <1>32 DEF SweepDone, At, diskVars, sweepVars, visitVars, faultVars
<1>33. ASSUME NEW a \in Agent, NEW v \in View, ClaimLease(a, v) PROVE ScratchKnown'
  BY <1>33 DEF ClaimLease, At, diskVars, sweepVars, visitVars, faultVars
<1>34. ASSUME NEW a \in Agent, NEW v \in View, SkipLeased(a, v) PROVE ScratchKnown'
  BY <1>34 DEF SkipLeased, diskVars, sweepVars, visitVars, faultVars
<1>35. ASSUME NEW a \in Agent, ReclaimFails(a) PROVE ScratchKnown'
  BY <1>35 DEF ReclaimFails, At, diskVars, sweepVars, visitVars, faultVars
<1>36. ASSUME NEW a \in Agent, KillSweep(a) PROVE ScratchKnown'
  BY <1>36 DEF KillSweep, diskVars, sweepVars, visitVars, faultVars
<1>37. ASSUME NEW v \in View, Age(v) PROVE ScratchKnown'
  BY <1>37 DEF Age, diskVars, sweepVars, visitVars, faultVars
<1>38. ASSUME NEW v \in View, Damage(v) PROVE ScratchKnown'
  BY <1>38 DEF Damage, diskVars, sweepVars, visitVars, faultVars
<1>39. CASE UNCHANGED vars
  BY <1>39 DEF vars, diskVars, sweepVars, visitVars, faultVars
<1> QED
  BY <1>1, <1>2, <1>3, <1>4, <1>5, <1>6, <1>7, <1>8, <1>9, <1>10, <1>11, <1>12,
    <1>13, <1>14, <1>15, <1>16, <1>17, <1>18, <1>19, <1>20, <1>21, <1>22, <1>23,
    <1>24, <1>25, <1>26, <1>27, <1>28, <1>29, <1>30, <1>31, <1>32, <1>33, <1>34,
    <1>35, <1>36, <1>37, <1>38, <1>39 DEF Next, LaunchStep, SweepStep

\* Nobody stamps a view while a collector removes it: stamping takes the lease.
LEMMA OldStep ==
  TypeOK /\ Locks /\ OldWhenReclaimed /\ [Next]_vars => OldWhenReclaimed'
<1> SUFFICES ASSUME TypeOK /\ Locks /\ OldWhenReclaimed, [Next]_vars PROVE OldWhenReclaimed'
  OBVIOUS
<1> USE ViewStoreAssumption
    DEF TypeOK, Locks, LeaseLock, CreationLock, OldWhenReclaimed, LeasePhase,
        CreatePhase, ClaimPhase, Agent, Part
<1>1. ASSUME NEW l \in Launch, TakeLease(l) PROVE OldWhenReclaimed'
  BY <1>1 DEF TakeLease, Step, OpenLease, diskVars, sweepVars, visitVars,
    faultVars
<1>2. ASSUME NEW l \in Launch, SweepFirst(l) PROVE OldWhenReclaimed'
  BY <1>2 DEF SweepFirst, Step, diskVars, sweepVars, visitVars, faultVars
<1>3. ASSUME NEW l \in Launch, SweepNot(l) PROVE OldWhenReclaimed'
  BY <1>3 DEF SweepNot, Step, diskVars, sweepVars, visitVars, faultVars
<1>4. ASSUME NEW l \in Launch, SweepOver(l) PROVE OldWhenReclaimed'
  BY <1>4 DEF SweepOver, Step, diskVars, sweepVars, visitVars, faultVars
<1>5. ASSUME NEW l \in Launch, LockCreation(l) PROVE OldWhenReclaimed'
  BY <1>5 DEF LockCreation, Step, diskVars, sweepVars, visitVars, faultVars
<1>6. ASSUME NEW l \in Launch, Reuse(l) PROVE OldWhenReclaimed'
  BY <1>6 DEF Reuse, Step, Stamp, diskVars, sweepVars, visitVars, faultVars
<1>7. ASSUME NEW l \in Launch, MissNothing(l) PROVE OldWhenReclaimed'
  BY <1>7 DEF MissNothing, Step, diskVars, sweepVars, visitVars, faultVars
<1>8. ASSUME NEW l \in Launch, MissDamaged(l) PROVE OldWhenReclaimed'
  BY <1>8 DEF MissDamaged, Step, diskVars, sweepVars, visitVars, faultVars
<1>9. ASSUME NEW l \in Launch, Convert(l) PROVE OldWhenReclaimed'
  BY <1>9 DEF Convert, Step, diskVars, sweepVars, visitVars, faultVars
<1>10. ASSUME NEW l \in Launch, Busy(l) PROVE OldWhenReclaimed'
  BY <1>10 DEF Busy, Step, diskVars, sweepVars, visitVars, faultVars
<1>11. ASSUME NEW l \in Launch, Unlink(l) PROVE OldWhenReclaimed'
  BY <1>11 DEF Unlink, RemovePart, diskVars, sweepVars, visitVars, faultVars
<1>12. ASSUME NEW l \in Launch, Removed(l) PROVE OldWhenReclaimed'
  BY <1>12 DEF Removed, Step, RemoveEmpty, diskVars, sweepVars, visitVars,
    faultVars
<1>13. ASSUME NEW l \in Launch, Regain(l) PROVE OldWhenReclaimed'
  BY <1>13 DEF Regain, Step, diskVars, sweepVars, visitVars, faultVars
<1>14. ASSUME NEW l \in Launch, Relock(l) PROVE OldWhenReclaimed'
  BY <1>14 DEF Relock, Step, diskVars, sweepVars, visitVars, faultVars
<1>15. ASSUME NEW l \in Launch, Stage(l) PROVE OldWhenReclaimed'
  BY <1>15 DEF Stage, Step, diskVars, sweepVars, visitVars, faultVars
<1>16. ASSUME NEW l \in Launch, Seal(l) PROVE OldWhenReclaimed'
  BY <1>16 DEF Seal, Step, diskVars, sweepVars, visitVars, faultVars
<1>17. ASSUME NEW l \in Launch, Publish(l) PROVE OldWhenReclaimed'
  BY <1>17 DEF Publish, Step, diskVars, sweepVars, visitVars, faultVars
<1>18. ASSUME NEW l \in Launch, Confirm(l) PROVE OldWhenReclaimed'
  BY <1>18 DEF Confirm, Step, Stamp, diskVars, sweepVars, visitVars, faultVars
<1>19. ASSUME NEW l \in Launch, ConfirmFails(l) PROVE OldWhenReclaimed'
  BY <1>19 DEF ConfirmFails, Step, diskVars, sweepVars, visitVars, faultVars
<1>20. ASSUME NEW l \in Launch, RemoveFails(l) PROVE OldWhenReclaimed'
  BY <1>20 DEF RemoveFails, Step, diskVars, sweepVars, visitVars, faultVars
<1>21. ASSUME NEW l \in Launch, Fail(l) PROVE OldWhenReclaimed'
  BY <1>21 DEF Fail, diskVars, sweepVars, visitVars, faultVars
<1>22. ASSUME NEW l \in Launch, End(l) PROVE OldWhenReclaimed'
  BY <1>22 DEF End, Step, diskVars, sweepVars, visitVars, faultVars
<1>23. ASSUME NEW l \in Launch, KillLaunch(l) PROVE OldWhenReclaimed'
  BY <1>23 DEF KillLaunch, diskVars, sweepVars, visitVars, faultVars
<1>24. ASSUME NEW a \in Agent, List(a) PROVE OldWhenReclaimed'
  BY <1>24 DEF List, At, diskVars, sweepVars, visitVars, faultVars
<1>25. ASSUME NEW a \in Agent, ClaimMutex(a) PROVE OldWhenReclaimed'
  BY <1>25 DEF ClaimMutex, At, diskVars, sweepVars, visitVars, faultVars
<1>26. ASSUME NEW a \in Agent, SkipCreating(a) PROVE OldWhenReclaimed'
  BY <1>26 DEF SkipCreating, At, NextView, diskVars, sweepVars, visitVars,
    faultVars
<1>27. ASSUME NEW a \in Agent, Keep(a) PROVE OldWhenReclaimed'
  BY <1>27 DEF Keep, At, diskVars, sweepVars, visitVars, faultVars
<1>28. ASSUME NEW a \in Agent, Reclaim(a) PROVE OldWhenReclaimed'
  BY <1>28 DEF Reclaim, At, Kept, Ready, Idle, diskVars, sweepVars, visitVars,
    faultVars
<1>29. ASSUME NEW a \in Agent, Reclaiming(a) PROVE OldWhenReclaimed'
  BY <1>29 DEF Reclaiming, RemovePart, diskVars, sweepVars, visitVars, faultVars
<1>30. ASSUME NEW a \in Agent, Reclaimed(a) PROVE OldWhenReclaimed'
  BY <1>30 DEF Reclaimed, At, RemoveEmpty, diskVars, sweepVars, visitVars,
    faultVars
<1>31. ASSUME NEW a \in Agent, DropScratch(a) PROVE OldWhenReclaimed'
  BY <1>31 DEF DropScratch, At, NextView, diskVars, sweepVars, visitVars,
    faultVars
<1>32. ASSUME NEW a \in Agent, SweepDone(a) PROVE OldWhenReclaimed'
  BY <1>32 DEF SweepDone, At, diskVars, sweepVars, visitVars, faultVars
<1>33. ASSUME NEW a \in Agent, NEW v \in View, ClaimLease(a, v) PROVE OldWhenReclaimed'
  BY <1>33 DEF ClaimLease, At, OpenLease, diskVars, sweepVars, visitVars,
    faultVars
<1>34. ASSUME NEW a \in Agent, NEW v \in View, SkipLeased(a, v) PROVE OldWhenReclaimed'
  BY <1>34 DEF SkipLeased, OpenLease, diskVars, sweepVars, visitVars, faultVars
<1>35. ASSUME NEW a \in Agent, ReclaimFails(a) PROVE OldWhenReclaimed'
  BY <1>35 DEF ReclaimFails, At, diskVars, sweepVars, visitVars, faultVars
<1>36. ASSUME NEW a \in Agent, KillSweep(a) PROVE OldWhenReclaimed'
  BY <1>36 DEF KillSweep, diskVars, sweepVars, visitVars, faultVars
<1>37. ASSUME NEW v \in View, Age(v) PROVE OldWhenReclaimed'
  BY <1>37 DEF Age, diskVars, sweepVars, visitVars, faultVars
<1>38. ASSUME NEW v \in View, Damage(v) PROVE OldWhenReclaimed'
  BY <1>38, SMTT(30) DEF Damage, diskVars, sweepVars, visitVars, faultVars
<1>39. CASE UNCHANGED vars
  BY <1>39 DEF vars, diskVars, sweepVars, visitVars, faultVars
<1> QED
  BY <1>1, <1>2, <1>3, <1>4, <1>5, <1>6, <1>7, <1>8, <1>9, <1>10, <1>11, <1>12,
    <1>13, <1>14, <1>15, <1>16, <1>17, <1>18, <1>19, <1>20, <1>21, <1>22, <1>23,
    <1>24, <1>25, <1>26, <1>27, <1>28, <1>29, <1>30, <1>31, <1>32, <1>33, <1>34,
    <1>35, <1>36, <1>37, <1>38, <1>39 DEF Next, LaunchStep, SweepStep

\* What a running application runs from stays: it holds the lease.
LEMMA RunsStep ==
  IInv /\ [Next]_vars => RunsWholeView'
<1> SUFFICES ASSUME IInv, [Next]_vars PROVE RunsWholeView'
  OBVIOUS
<1> USE ViewStoreAssumption
    DEF IInv, TypeOK, Locks, LeaseLock, CreationLock, NameKnown, ValidIsWhole,
        RunsWholeView, LeasePhase, CreatePhase, ClaimPhase, Agent, Part, Valid
<1>1. ASSUME NEW l \in Launch, TakeLease(l) PROVE RunsWholeView'
  BY <1>1 DEF TakeLease, Step, diskVars, sweepVars, visitVars, faultVars
<1>2. ASSUME NEW l \in Launch, SweepFirst(l) PROVE RunsWholeView'
  BY <1>2 DEF SweepFirst, Step, diskVars, sweepVars, visitVars, faultVars
<1>3. ASSUME NEW l \in Launch, SweepNot(l) PROVE RunsWholeView'
  BY <1>3 DEF SweepNot, Step, diskVars, sweepVars, visitVars, faultVars
<1>4. ASSUME NEW l \in Launch, SweepOver(l) PROVE RunsWholeView'
  BY <1>4 DEF SweepOver, Step, diskVars, sweepVars, visitVars, faultVars
<1>5. ASSUME NEW l \in Launch, LockCreation(l) PROVE RunsWholeView'
  BY <1>5 DEF LockCreation, Step, diskVars, sweepVars, visitVars, faultVars
<1>6. ASSUME NEW l \in Launch, Reuse(l) PROVE RunsWholeView'
  BY <1>6 DEF Reuse, Step, diskVars, sweepVars, visitVars, faultVars
<1>7. ASSUME NEW l \in Launch, MissNothing(l) PROVE RunsWholeView'
  BY <1>7 DEF MissNothing, Step, diskVars, sweepVars, visitVars, faultVars
<1>8. ASSUME NEW l \in Launch, MissDamaged(l) PROVE RunsWholeView'
  BY <1>8 DEF MissDamaged, Step, diskVars, sweepVars, visitVars, faultVars
<1>9. ASSUME NEW l \in Launch, Convert(l) PROVE RunsWholeView'
  BY <1>9 DEF Convert, Step, diskVars, sweepVars, visitVars, faultVars
<1>10. ASSUME NEW l \in Launch, Busy(l) PROVE RunsWholeView'
  BY <1>10 DEF Busy, Step, diskVars, sweepVars, visitVars, faultVars
<1>11. ASSUME NEW l \in Launch, Unlink(l) PROVE RunsWholeView'
  BY <1>11 DEF Unlink, RemovePart, diskVars, sweepVars, visitVars, faultVars
<1>12. ASSUME NEW l \in Launch, Removed(l) PROVE RunsWholeView'
  BY <1>12 DEF Removed, Step, RemoveEmpty, diskVars, sweepVars, visitVars,
    faultVars
<1>13. ASSUME NEW l \in Launch, Regain(l) PROVE RunsWholeView'
  BY <1>13 DEF Regain, Step, diskVars, sweepVars, visitVars, faultVars
<1>14. ASSUME NEW l \in Launch, Relock(l) PROVE RunsWholeView'
  BY <1>14 DEF Relock, Step, diskVars, sweepVars, visitVars, faultVars
<1>15. ASSUME NEW l \in Launch, Stage(l) PROVE RunsWholeView'
  BY <1>15 DEF Stage, Step, diskVars, sweepVars, visitVars, faultVars
<1>16. ASSUME NEW l \in Launch, Seal(l) PROVE RunsWholeView'
  BY <1>16 DEF Seal, Step, diskVars, sweepVars, visitVars, faultVars
<1>17. ASSUME NEW l \in Launch, Publish(l) PROVE RunsWholeView'
  BY <1>17 DEF Publish, Step, diskVars, sweepVars, visitVars, faultVars
<1>18. ASSUME NEW l \in Launch, Confirm(l) PROVE RunsWholeView'
  BY <1>18 DEF Confirm, Step, diskVars, sweepVars, visitVars, faultVars
<1>19. ASSUME NEW l \in Launch, ConfirmFails(l) PROVE RunsWholeView'
  BY <1>19 DEF ConfirmFails, Step, diskVars, sweepVars, visitVars, faultVars
<1>20. ASSUME NEW l \in Launch, RemoveFails(l) PROVE RunsWholeView'
  BY <1>20 DEF RemoveFails, Step, diskVars, sweepVars, visitVars, faultVars
<1>21. ASSUME NEW l \in Launch, Fail(l) PROVE RunsWholeView'
  BY <1>21 DEF Fail, diskVars, sweepVars, visitVars, faultVars
<1>22. ASSUME NEW l \in Launch, End(l) PROVE RunsWholeView'
  BY <1>22 DEF End, Step, diskVars, sweepVars, visitVars, faultVars
<1>23. ASSUME NEW l \in Launch, KillLaunch(l) PROVE RunsWholeView'
  BY <1>23 DEF KillLaunch, diskVars, sweepVars, visitVars, faultVars
<1>24. ASSUME NEW a \in Agent, List(a) PROVE RunsWholeView'
  BY <1>24 DEF List, At, diskVars, sweepVars, visitVars, faultVars
<1>25. ASSUME NEW a \in Agent, ClaimMutex(a) PROVE RunsWholeView'
  BY <1>25 DEF ClaimMutex, At, diskVars, sweepVars, visitVars, faultVars
<1>26. ASSUME NEW a \in Agent, SkipCreating(a) PROVE RunsWholeView'
  BY <1>26 DEF SkipCreating, At, NextView, diskVars, sweepVars, visitVars,
    faultVars
<1>27. ASSUME NEW a \in Agent, Keep(a) PROVE RunsWholeView'
  BY <1>27 DEF Keep, At, diskVars, sweepVars, visitVars, faultVars
<1>28. ASSUME NEW a \in Agent, Reclaim(a) PROVE RunsWholeView'
  BY <1>28 DEF Reclaim, At, diskVars, sweepVars, visitVars, faultVars
<1>29. ASSUME NEW a \in Agent, Reclaiming(a) PROVE RunsWholeView'
  BY <1>29 DEF Reclaiming, RemovePart, diskVars, sweepVars, visitVars, faultVars
<1>30. ASSUME NEW a \in Agent, Reclaimed(a) PROVE RunsWholeView'
  BY <1>30 DEF Reclaimed, At, RemoveEmpty, diskVars, sweepVars, visitVars,
    faultVars
<1>31. ASSUME NEW a \in Agent, DropScratch(a) PROVE RunsWholeView'
  BY <1>31 DEF DropScratch, At, NextView, diskVars, sweepVars, visitVars,
    faultVars
<1>32. ASSUME NEW a \in Agent, SweepDone(a) PROVE RunsWholeView'
  BY <1>32 DEF SweepDone, At, diskVars, sweepVars, visitVars, faultVars
<1>33. ASSUME NEW a \in Agent, NEW v \in View, ClaimLease(a, v) PROVE RunsWholeView'
  BY <1>33 DEF ClaimLease, At, diskVars, sweepVars, visitVars, faultVars
<1>34. ASSUME NEW a \in Agent, NEW v \in View, SkipLeased(a, v) PROVE RunsWholeView'
  BY <1>34 DEF SkipLeased, diskVars, sweepVars, visitVars, faultVars
<1>35. ASSUME NEW a \in Agent, ReclaimFails(a) PROVE RunsWholeView'
  BY <1>35 DEF ReclaimFails, At, diskVars, sweepVars, visitVars, faultVars
<1>36. ASSUME NEW a \in Agent, KillSweep(a) PROVE RunsWholeView'
  BY <1>36 DEF KillSweep, diskVars, sweepVars, visitVars, faultVars
<1>37. ASSUME NEW v \in View, Age(v) PROVE RunsWholeView'
  BY <1>37 DEF Age, diskVars, sweepVars, visitVars, faultVars
<1>38. ASSUME NEW v \in View, Damage(v) PROVE RunsWholeView'
  BY <1>38 DEF Damage, diskVars, sweepVars, visitVars, faultVars
<1>39. CASE UNCHANGED vars
  BY <1>39 DEF vars, diskVars, sweepVars, visitVars, faultVars
<1> QED
  BY <1>1, <1>2, <1>3, <1>4, <1>5, <1>6, <1>7, <1>8, <1>9, <1>10, <1>11, <1>12,
    <1>13, <1>14, <1>15, <1>16, <1>17, <1>18, <1>19, <1>20, <1>21, <1>22, <1>23,
    <1>24, <1>25, <1>26, <1>27, <1>28, <1>29, <1>30, <1>31, <1>32, <1>33, <1>34,
    <1>35, <1>36, <1>37, <1>38, <1>39 DEF Next, LaunchStep, SweepStep

-----------------------------------------------------------------------------
\* The invariant holds initially, whichever views are there.
LEMMA InvInit == Init => IInv
  BY ViewStoreAssumption
  DEF Init, IInv, TypeOK, Locks, LeaseLock, CreationLock, NameKnown, ValidIsWhole,
      ScratchKnown, OldWhenReclaimed, RunsWholeView, LaunchPhase, SweepPhase, LeasePhase,
      ClaimPhase, CreatePhase, Agent, Part, Valid

\* The invariant is inductive.
THEOREM Inductive == Spec => []IInv
<1>1. IInv /\ [Next]_vars => IInv'
  BY TypesStep, LeaseStep, CreationStep, NameStep, WholeStep, ScratchStep, OldStep,
     RunsStep
  DEF IInv, Locks
<1> QED
  BY InvInit, <1>1, PTL DEF Spec

\* The types of every variable (TypeOK).
THEOREM TypesHold == Spec => []TypeOK
<1>1. IInv => TypeOK
  BY DEF IInv
<1> QED
  BY Inductive, <1>1, PTL

\* An application runs from the whole view, unless a removal of it was cut short
\* (RunsWholeView: ensure_view beside reclaim_view).
THEOREM ViewsOutlastTheirRuns == Spec => []RunsWholeView
<1>1. IInv => RunsWholeView
  BY DEF IInv
<1> QED
  BY Inductive, <1>1, PTL

\* A creator stages alone and onto a clear name (StagesAlone: the creation mutex,
\* discard_staging and reclaim_view).
THEOREM CreatorsStageAlone == Spec => []StagesAlone
<1>1. IInv => StagesAlone
  BY DEF IInv, TypeOK, NameKnown, ScratchKnown, StagesAlone, Others
<1> QED
  BY Inductive, <1>1, PTL

-----------------------------------------------------------------------------
(* Nobody waits in a circle.                                               *)

\* Whoever holds a lock that launch l cannot go on without.  A launch waits for the
\* shared lease and for the creation mutex; the exclusive lease and every lock of
\* a sweep are tried, not waited for.
Awaits(l, b) ==
  LET v == ViewOf[l] IN
  \/ pc[l] \in {"start", "regaining", "relocking"} /\ b \in Replacing(v) \cup Claiming(v)
  \/ pc[l] = "creating" /\ b \in Creating(v) \cup Collecting(v)

\* Whoever a launch waits for waits for nobody and is not an application, which may
\* run for as long as it likes.
NoCircularWait ==
  \A l, m \in Launch :
    Awaits(l, m) => pc[m] # "running" /\ \A a \in Agent : ~Awaits(m, a)

\* A launch collects only while it is at its sweep, so not while it waits.
Sweeping == \A l \in Launch : gc[l] \notin {"off", "done", "killed"} => pc[l] = "sweeping"

\* Every step keeps it: a launch leaves its sweep when the sweep is done or killed.
LEMMA SweepingStep ==
  TypeOK /\ Sweeping /\ [Next]_vars => Sweeping'
<1> SUFFICES ASSUME TypeOK, Sweeping, [Next]_vars PROVE Sweeping'
  OBVIOUS
<1> USE ViewStoreAssumption DEF TypeOK, Sweeping, Agent
<1>1. ASSUME NEW l \in Launch, TakeLease(l) PROVE Sweeping'
  BY <1>1 DEF TakeLease, Step, diskVars,
    sweepVars, visitVars, faultVars
<1>2. ASSUME NEW l \in Launch, SweepFirst(l) PROVE Sweeping'
  BY <1>2 DEF SweepFirst, Step, diskVars, sweepVars, visitVars, faultVars
<1>3. ASSUME NEW l \in Launch, SweepNot(l) PROVE Sweeping'
  BY <1>3 DEF SweepNot, Step, diskVars, sweepVars, visitVars, faultVars
<1>4. ASSUME NEW l \in Launch, SweepOver(l) PROVE Sweeping'
  BY <1>4 DEF SweepOver, Step, diskVars, sweepVars, visitVars, faultVars
<1>5. ASSUME NEW l \in Launch, LockCreation(l) PROVE Sweeping'
  BY <1>5 DEF LockCreation, Step, diskVars, sweepVars, visitVars, faultVars
<1>6. ASSUME NEW l \in Launch, Reuse(l) PROVE Sweeping'
  BY <1>6 DEF Reuse, Step, diskVars, sweepVars, visitVars, faultVars
<1>7. ASSUME NEW l \in Launch, MissNothing(l) PROVE Sweeping'
  BY <1>7 DEF MissNothing, Step, diskVars, sweepVars, visitVars, faultVars
<1>8. ASSUME NEW l \in Launch, MissDamaged(l) PROVE Sweeping'
  BY <1>8 DEF MissDamaged, Step, diskVars, sweepVars, visitVars, faultVars
<1>9. ASSUME NEW l \in Launch, Convert(l) PROVE Sweeping'
  BY <1>9 DEF Convert, Step, diskVars, sweepVars, visitVars, faultVars
<1>10. ASSUME NEW l \in Launch, Busy(l) PROVE Sweeping'
  BY <1>10 DEF Busy, Step, diskVars, sweepVars, visitVars, faultVars
<1>11. ASSUME NEW l \in Launch, Unlink(l) PROVE Sweeping'
  BY <1>11 DEF Unlink, diskVars, sweepVars, visitVars, faultVars
<1>12. ASSUME NEW l \in Launch, Removed(l) PROVE Sweeping'
  BY <1>12 DEF Removed, Step, diskVars, sweepVars, visitVars, faultVars
<1>13. ASSUME NEW l \in Launch, Regain(l) PROVE Sweeping'
  BY <1>13 DEF Regain, Step, diskVars, sweepVars,
    visitVars, faultVars
<1>14. ASSUME NEW l \in Launch, Relock(l) PROVE Sweeping'
  BY <1>14 DEF Relock, Step, diskVars, sweepVars, visitVars, faultVars
<1>15. ASSUME NEW l \in Launch, Stage(l) PROVE Sweeping'
  BY <1>15 DEF Stage, Step, diskVars, sweepVars, visitVars, faultVars
<1>16. ASSUME NEW l \in Launch, Seal(l) PROVE Sweeping'
  BY <1>16 DEF Seal, Step, diskVars, sweepVars, visitVars, faultVars
<1>17. ASSUME NEW l \in Launch, Publish(l) PROVE Sweeping'
  BY <1>17 DEF Publish, Step, diskVars, sweepVars, visitVars, faultVars
<1>18. ASSUME NEW l \in Launch, Confirm(l) PROVE Sweeping'
  BY <1>18 DEF Confirm, Step, diskVars, sweepVars, visitVars, faultVars
<1>19. ASSUME NEW l \in Launch, ConfirmFails(l) PROVE Sweeping'
  BY <1>19 DEF ConfirmFails, Step, diskVars, sweepVars, visitVars, faultVars
<1>20. ASSUME NEW l \in Launch, RemoveFails(l) PROVE Sweeping'
  BY <1>20 DEF RemoveFails, Step, diskVars, sweepVars, visitVars, faultVars
<1>21. ASSUME NEW l \in Launch, Fail(l) PROVE Sweeping'
  BY <1>21 DEF Fail, diskVars, sweepVars, visitVars, faultVars
<1>22. ASSUME NEW l \in Launch, End(l) PROVE Sweeping'
  BY <1>22 DEF End, Step, diskVars, sweepVars, visitVars, faultVars
<1>23. ASSUME NEW l \in Launch, KillLaunch(l) PROVE Sweeping'
  BY <1>23 DEF KillLaunch, diskVars, sweepVars, visitVars, faultVars
<1>24. ASSUME NEW a \in Agent, List(a) PROVE Sweeping'
  BY <1>24 DEF List, At, diskVars, sweepVars, visitVars, faultVars
<1>25. ASSUME NEW a \in Agent, ClaimMutex(a) PROVE Sweeping'
  BY <1>25 DEF ClaimMutex, At, diskVars, sweepVars, visitVars, faultVars
<1>26. ASSUME NEW a \in Agent, SkipCreating(a) PROVE Sweeping'
  BY <1>26 DEF SkipCreating, At, NextView, diskVars, sweepVars, visitVars,
    faultVars
<1>27. ASSUME NEW a \in Agent, Keep(a) PROVE Sweeping'
  BY <1>27 DEF Keep, At, diskVars, sweepVars, visitVars, faultVars
<1>28. ASSUME NEW a \in Agent, Reclaim(a) PROVE Sweeping'
  BY <1>28 DEF Reclaim, At, diskVars, sweepVars, visitVars, faultVars
<1>29. ASSUME NEW a \in Agent, Reclaiming(a) PROVE Sweeping'
  BY <1>29 DEF Reclaiming, diskVars, sweepVars, visitVars, faultVars
<1>30. ASSUME NEW a \in Agent, Reclaimed(a) PROVE Sweeping'
  BY <1>30 DEF Reclaimed, At, diskVars, sweepVars, visitVars, faultVars
<1>31. ASSUME NEW a \in Agent, DropScratch(a) PROVE Sweeping'
  BY <1>31 DEF DropScratch, At, NextView, diskVars, sweepVars, visitVars,
    faultVars
<1>32. ASSUME NEW a \in Agent, SweepDone(a) PROVE Sweeping'
  BY <1>32 DEF SweepDone, At, diskVars, sweepVars, visitVars, faultVars
<1>33. ASSUME NEW a \in Agent, NEW v \in View, ClaimLease(a, v) PROVE Sweeping'
  BY <1>33 DEF ClaimLease, At, diskVars, sweepVars, visitVars, faultVars
<1>34. ASSUME NEW a \in Agent, NEW v \in View, SkipLeased(a, v) PROVE Sweeping'
  BY <1>34 DEF SkipLeased, diskVars, sweepVars, visitVars, faultVars
<1>35. ASSUME NEW a \in Agent, ReclaimFails(a) PROVE Sweeping'
  BY <1>35 DEF ReclaimFails, At, diskVars, sweepVars, visitVars, faultVars
<1>36. ASSUME NEW a \in Agent, KillSweep(a) PROVE Sweeping'
  BY <1>36 DEF KillSweep, diskVars, sweepVars, visitVars, faultVars
<1>37. ASSUME NEW v \in View, Age(v) PROVE Sweeping'
  BY <1>37 DEF Age, diskVars, sweepVars, visitVars, faultVars
<1>38. ASSUME NEW v \in View, Damage(v) PROVE Sweeping'
  BY <1>38 DEF Damage, diskVars, sweepVars, visitVars, faultVars
<1>39. CASE UNCHANGED vars
  BY <1>39 DEF vars, diskVars, sweepVars, visitVars, faultVars
<1> QED
  BY <1>1, <1>2, <1>3, <1>4, <1>5, <1>6, <1>7, <1>8, <1>9, <1>10, <1>11, <1>12,
    <1>13, <1>14, <1>15, <1>16, <1>17, <1>18, <1>19, <1>20, <1>21, <1>22, <1>23,
    <1>24, <1>25, <1>26, <1>27, <1>28, <1>29, <1>30, <1>31, <1>32, <1>33, <1>34,
    <1>35, <1>36, <1>37, <1>38, <1>39 DEF Next, LaunchStep, SweepStep

\* A creator holds the shared lease, so whoever it waits for waits for no lease; and
\* whoever holds the exclusive lease waits for nothing.
LEMMA WaitsAreShort ==
  TypeOK /\ LeaseLock /\ Sweeping => NoCircularWait
<1> SUFFICES ASSUME TypeOK, LeaseLock, Sweeping, NEW l \in Launch, NEW m \in Launch,
                    Awaits(l, m), NEW a \in Agent
             PROVE  pc[m] # "running" /\ ~Awaits(m, a)
  BY DEF NoCircularWait, Agent
<1> USE ViewStoreAssumption DEF TypeOK, Agent, Awaits
<1>1. CASE m \in Replacing(ViewOf[l])
  BY <1>1 DEF Replacing
<1>2. CASE m \in Claiming(ViewOf[l]) \cup Collecting(ViewOf[l])
  BY <1>2 DEF Claiming, Collecting, Sweeping, ClaimPhase
<1>3. CASE pc[l] = "creating" /\ m \in Creating(ViewOf[l])
  <2>1. Replacing(ViewOf[l]) \cup Claiming(ViewOf[l]) = {}
    BY <1>3 DEF LeaseLock, LeasePhase, Replacing, Claiming
  <2> QED
    BY <1>3, <2>1 DEF Creating, CreatePhase
<1> QED
  BY <1>1, <1>2, <1>3

\* Launches, sweeps and creators never come to a standstill over the lease and the
\* mutex: whoever one of them waits for goes on (NoCircularWait: exec_cache,
\* ensure_view, replace_unleased and reclaim_view).
THEOREM NobodyWaitsInACircle == Spec => []NoCircularWait
<1>1. Init => Sweeping
  BY ViewStoreAssumption DEF Init, Sweeping, Agent
<1>2. IInv /\ Sweeping /\ [Next]_vars => Sweeping'
  BY SweepingStep DEF IInv
<1>3. IInv /\ Sweeping => NoCircularWait
  BY WaitsAreShort DEF IInv, Locks
<1> QED
  BY Inductive, <1>1, <1>2, <1>3, PTL DEF Spec

-----------------------------------------------------------------------------
\* What LeasedStays says of one view.
Undisturbed(v) ==
  ("content" \in tree[v] \ tree'[v] \/ v \in views \ views') => Leases(v) = {}

\* What a step removes of a view is removed under an exclusive lease.
LEMMA RemovalUnleased ==
  IInv /\ [Next]_vars => \A v \in View : Undisturbed(v)
<1> SUFFICES ASSUME IInv, [Next]_vars, NEW w \in View PROVE Undisturbed(w)
  OBVIOUS
<1> USE ViewStoreAssumption
    DEF IInv, TypeOK, Locks, LeaseLock, NameKnown, Undisturbed, Leases, LeasePhase,
        ClaimPhase, Agent, Part
<1>1. ASSUME NEW l \in Launch, Unlink(l) PROVE Undisturbed(w)
  BY <1>1 DEF Unlink, RemovePart, diskVars, sweepVars, visitVars, faultVars
<1>2. ASSUME NEW l \in Launch, Removed(l) PROVE Undisturbed(w)
  BY <1>2 DEF Removed, Step, RemoveEmpty, diskVars, sweepVars, visitVars, faultVars
<1>3. ASSUME NEW l \in Launch, Publish(l) PROVE Undisturbed(w)
  BY <1>3 DEF Publish, Step, diskVars, sweepVars, visitVars, faultVars
<1>4. ASSUME NEW a \in Agent, Reclaiming(a) PROVE Undisturbed(w)
  BY <1>4 DEF Reclaiming, RemovePart, diskVars, sweepVars, visitVars, faultVars
<1>5. ASSUME NEW a \in Agent, Reclaimed(a) PROVE Undisturbed(w)
  BY <1>5 DEF Reclaimed, At, RemoveEmpty, diskVars, sweepVars, visitVars, faultVars
<1>6. ASSUME NEW v \in View, Damage(v) PROVE Undisturbed(w)
  BY <1>6 DEF Damage, diskVars, sweepVars, visitVars, faultVars
<1>7. CASE UNCHANGED <<views, tree>>
  BY <1>7
<1> QED
  BY <1>1, <1>2, <1>3, <1>4, <1>5, <1>6, <1>7
  DEF Next, LaunchStep, SweepStep, vars, diskVars, sweepVars, visitVars, faultVars,
      TakeLease, SweepFirst, SweepNot, SweepOver, LockCreation, Reuse,
      MissNothing, MissDamaged, Convert, Busy, Regain, Relock, Stage, Seal,
      Confirm, ConfirmFails, RemoveFails, Fail, End, KillLaunch, List,
      ClaimMutex, SkipCreating, Keep, Reclaim, DropScratch, SweepDone,
      ClaimLease, SkipLeased, ReclaimFails, KillSweep, Age

\* No part of a view goes by removal while it is leased (LeasedStays:
\* replace_unleased and reclaim_view).
THEOREM LeasedViewsStay == Spec => LeasedStays
<1>1. IInv /\ [Next]_vars => [\A v \in View :
        ("content" \in tree[v] \ tree'[v] \/ v \in views \ views') => Leases(v) = {}]_vars
  BY RemovalUnleased DEF Undisturbed
<1> QED
  BY Inductive, <1>1, PTL DEF Spec, LeasedStays

\* What FreshStays says of one view.
OldOrInvalid(v) ==
  ("ready" \in tree[v] \ tree'[v] /\ used[v] = "fresh" /\ damages' = damages) =>
    \/ Collecting(v) \cap clearing # {}
    \/ ~Valid(v)

\* A ready record goes from an old view, by a sweep without limit, by damage, or from
\* a view that is not valid.
LEMMA RemovalOld ==
  IInv /\ [Next]_vars => \A v \in View : OldOrInvalid(v)
<1> SUFFICES ASSUME IInv, [Next]_vars, NEW w \in View PROVE OldOrInvalid(w)
  OBVIOUS
<1> USE ViewStoreAssumption
    DEF IInv, TypeOK, Locks, LeaseLock, NameKnown, OldWhenReclaimed, OldOrInvalid,
        Collecting, LeasePhase, ClaimPhase, Agent, Part, Valid
<1>1. ASSUME NEW l \in Launch, Unlink(l) PROVE OldOrInvalid(w)
  BY <1>1 DEF Unlink, RemovePart, diskVars, sweepVars, visitVars, faultVars
<1>2. ASSUME NEW l \in Launch, Removed(l) PROVE OldOrInvalid(w)
  BY <1>2 DEF Removed, Step, RemoveEmpty, diskVars, sweepVars, visitVars, faultVars
<1>3. ASSUME NEW l \in Launch, Publish(l) PROVE OldOrInvalid(w)
  BY <1>3 DEF Publish, Step, diskVars, sweepVars, visitVars, faultVars
<1>4. ASSUME NEW a \in Agent, Reclaiming(a) PROVE OldOrInvalid(w)
  BY <1>4 DEF Reclaiming, RemovePart, diskVars, sweepVars, visitVars, faultVars
<1>5. ASSUME NEW a \in Agent, Reclaimed(a) PROVE OldOrInvalid(w)
  BY <1>5 DEF Reclaimed, At, RemoveEmpty, diskVars, sweepVars, visitVars, faultVars
<1>6. ASSUME NEW v \in View, Damage(v) PROVE OldOrInvalid(w)
  BY <1>6 DEF Damage, diskVars, sweepVars, visitVars, faultVars
<1>7. CASE UNCHANGED <<views, tree>>
  BY <1>7
<1> QED
  BY <1>1, <1>2, <1>3, <1>4, <1>5, <1>6, <1>7
  DEF Next, LaunchStep, SweepStep, vars, diskVars, sweepVars, visitVars, faultVars,
      TakeLease, SweepFirst, SweepNot, SweepOver, LockCreation, Reuse,
      MissNothing, MissDamaged, Convert, Busy, Regain, Relock, Stage, Seal,
      Confirm, ConfirmFails, RemoveFails, Fail, End, KillLaunch, List,
      ClaimMutex, SkipCreating, Keep, Reclaim, DropScratch, SweepDone,
      ClaimLease, SkipLeased, ReclaimFails, KillSweep, Age

\* A view that is ready and was used lately is removed by a sweep without an age
\* limit only (FreshStays: the idle test of reclaim_view).
THEOREM FreshViewsStay == Spec => FreshStays
<1>1. IInv /\ [Next]_vars => [\A v \in View :
        ("ready" \in tree[v] \ tree'[v] /\ used[v] = "fresh" /\ damages' = damages) =>
          \/ Collecting(v) \cap clearing # {}
          \/ ~Valid(v)]_vars
  BY RemovalOld DEF OldOrInvalid
<1> QED
  BY Inductive, <1>1, PTL DEF Spec, FreshStays
================================================================================
