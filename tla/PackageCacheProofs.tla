--------------------------- MODULE PackageCacheProofs ---------------------------
(***************************************************************************)
(* Theorems about PackageCache, for any launches, sweeps, packages, blobs  *)
(* and kills.                                                              *)
(*                                                                         *)
(* A package that no older release left has its lock file before anything  *)
(* of it is there (LockedFiles), so every sweep that removes it excludes   *)
(* the launches (ClaimsExclude) and its extraction lock is never taken     *)
(* from under its holder (OneExtracts).                                    *)
(***************************************************************************)
EXTENDS PackageCache, TLAPS

\* No older release ran it: whoever runs it holds its lock file.
UnderProtocol(p) == p \notin Legacy
Removes(g) == gc[g] \in {"removing", "unlinking", "forgetting"}

\* Only a legacy package is met without a lock file.
LockedFiles ==
  /\ \A l \in Runner : run[l] # "start" => PkgOf[l] \in lockFile
  /\ \A p \in Pkg :
       UnderProtocol(p) /\ p \notin lockFile =>
         /\ p \notin present /\ p \notin ready
         /\ tree[p] = {} /\ scratch[p] = {} /\ meta[p] = "none"
         /\ \A g \in Sweeper : p \notin todo[g] /\ gcPkg[g] # p

\* A sweep removes under the package's lock, and nobody runs what it removes.
ClaimsExclude ==
  \A g \in Sweeper :
    /\ claim[g] => Removes(g) /\ ~PackageInUse(gcPkg[g])
    /\ Removes(g) \/ gc[g] = "picked" => gcPkg[g] \in Pkg
    /\ Removes(g) => claim[g] \/ gcPkg[g] \in Legacy
    /\ gc[g] \in {"unlinking", "forgetting"} /\ claim[g] => gcPkg[g] \notin ready

\* One launch extracts a package at a time.
OneExtracts ==
  \A l \in Runner :
    Extracting(l) /\ UnderProtocol(PkgOf[l]) => mutex[PkgOf[l]] = l

\* Blobs are not collected while an extraction fills its tree.
StoreExcluded ==
  /\ ~(Filling /\ Collecting)
  /\ \A l \in Runner : run[l] = "linking" => blob[l] \in BlobsOf[PkgOf[l]]

\* How much of the package each phase of an extraction has made.
Progress ==
  \A l \in Runner :
    UnderProtocol(PkgOf[l]) =>
      /\ run[l] = "filled" => BlobsOf[PkgOf[l]] \subseteq scratch[PkgOf[l]]
      /\ run[l] = "stored" => PkgOf[l] \notin ready
      /\ run[l] \in {"marked", "running"} => PkgOf[l] \in ready
      /\ run[l] \in {"stored", "marked", "running"} => HoldsFiles(l)

\* The inductive invariant.
IInv ==
  /\ PCTypeOK /\ LockedFiles /\ ClaimsExclude /\ OneExtracts /\ StoreExcluded /\ Progress
  /\ MarkedIsWhole /\ LinksVerified

-----------------------------------------------------------------------------
\* Every step keeps the types, and an extraction lock goes with the phases it is
\* held in.
LEMMA TypesStep ==
  PCTypeOK /\ StoreExcluded /\ [PCNext]_cacheVars => PCTypeOK'
<1> SUFFICES ASSUME PCTypeOK /\ StoreExcluded, [PCNext]_cacheVars PROVE PCTypeOK'
  OBVIOUS
<1> USE PackageCacheAssumption DEF PCTypeOK, RunPhase, SweepPhase, Step,
    Sweep, Kill, runVars, treeVars, sweepVars, Extracting
<1>1. ASSUME NEW l \in Runner, LockInUse(l) PROVE PCTypeOK'
  BY <1>1 DEF LockInUse, Claimed
<1>2. ASSUME NEW l \in Runner, RunCached(l) PROVE PCTypeOK'
  BY <1>2 DEF RunCached, Complete, Touch
<1>3. ASSUME NEW l \in Runner, NotCached(l) PROVE PCTypeOK'
  BY <1>3 DEF NotCached, Complete
<1>4. ASSUME NEW l \in Runner, LockExtraction(l) PROVE PCTypeOK'
  BY <1>4 DEF LockExtraction
<1>5. ASSUME NEW l \in Runner, RunExtracted(l) PROVE PCTypeOK'
  BY <1>5 DEF RunExtracted, Complete, Touch, Unlock
<1>6. ASSUME NEW l \in Runner, ClearStale(l) PROVE PCTypeOK'
  BY <1>6 DEF ClearStale, Complete
<1>7. ASSUME NEW l \in Runner, BeginFill(l) PROVE PCTypeOK'
  BY <1>7 DEF BeginFill, Collecting
<1>8. ASSUME NEW l \in Runner, NEW b \in Blob, StoreBlob(l, b) PROVE PCTypeOK'
  BY <1>8 DEF StoreBlob, Store
<1>9. ASSUME NEW l \in Runner, LinkBlob(l) PROVE PCTypeOK'
  <2>1. blob[l] \in Blob
    BY <1>9 DEF LinkBlob, StoreExcluded
  <2> QED
    BY <1>9, <2>1 DEF LinkBlob
<1>10. ASSUME NEW l \in Runner, EndFill(l) PROVE PCTypeOK'
  BY <1>10 DEF EndFill
<1>11. ASSUME NEW l \in Runner, RenameTree(l) PROVE PCTypeOK'
  BY <1>11 DEF RenameTree
<1>12. ASSUME NEW l \in Runner, MarkReady(l) PROVE PCTypeOK'
  BY <1>12 DEF MarkReady
<1>13. ASSUME NEW l \in Runner, RunFresh(l) PROVE PCTypeOK'
  BY <1>13 DEF RunFresh, Touch, Unlock
<1>14. ASSUME NEW l \in Runner, Fail(l) PROVE PCTypeOK'
  BY <1>14 DEF Fail, Unlock
<1>15. ASSUME NEW l \in Runner, Exit(l) PROVE PCTypeOK'
  BY <1>15 DEF Exit
<1>16. ASSUME NEW l \in Runner, KillRunner(l) PROVE PCTypeOK'
  BY <1>16 DEF KillRunner, Unlock
<1>17. ASSUME NEW g \in Sweeper, Begin(g) PROVE PCTypeOK'
  BY <1>17 DEF Begin
<1>18. ASSUME NEW g \in Sweeper, NEW p \in Pkg, Pick(g, p) PROVE PCTypeOK'
  BY <1>18 DEF Pick, Due
<1>19. ASSUME NEW g \in Sweeper, NEW p \in Pkg, Pass(g, p) PROVE PCTypeOK'
  BY <1>19 DEF Pass, Due
<1>20. ASSUME NEW g \in Sweeper, Claim(g) PROVE PCTypeOK'
  BY <1>20 DEF Claim, PackageInUse, Claimed
<1>21. ASSUME NEW g \in Sweeper, Skip(g) PROVE PCTypeOK'
  BY <1>21 DEF Skip, PackageInUse, Claimed
<1>22. ASSUME NEW g \in Sweeper, RetireMarker(g) PROVE PCTypeOK'
  BY <1>22 DEF RetireMarker, MarkerRetired
<1>23. ASSUME NEW g \in Sweeper, NEW x \in Blob \cup {EmptyDir}, RemovePart(g, x)
       PROVE PCTypeOK'
  BY <1>23, ZenonT(60) DEF RemovePart
<1>24. ASSUME NEW g \in Sweeper, RemoveDir(g) PROVE PCTypeOK'
  BY <1>24 DEF RemoveDir
<1>25. ASSUME NEW g \in Sweeper, Forget(g) PROVE PCTypeOK'
  <2>1. claim' \in [Sweeper -> BOOLEAN]
    BY <1>25 DEF Forget
  <2>2. /\ mutex' \in [Pkg -> Runner \cup {NoOne}]
        /\ \A p \in Pkg :
             (mutex[p] # NoOne => PkgOf[mutex[p]] = p /\ Extracting(mutex[p]))'
    <3>1. \A p \in Pkg : mutex'[p] \in {mutex[p], NoOne}
      BY <1>25 DEF Forget
    <3>2. mutex' \in [Pkg -> Runner \cup {NoOne}] /\ run' = run
      BY <1>25 DEF Forget
    <3>3. \A p \in Pkg :
            mutex[p] # NoOne => PkgOf[mutex[p]] = p /\ Extracting(mutex[p])
      OBVIOUS
    <3> QED
      BY <3>1, <3>2, <3>3
  <2>3. /\ scratch' \in [Pkg -> SUBSET (Blob \cup {EmptyDir})]
        /\ meta' \in [Pkg -> {"none", "fresh", "old"}]
        /\ gc' \in [Sweeper -> SweepPhase] /\ gcPkg' \in [Sweeper -> Pkg \cup {NoOne}]
    BY <1>25 DEF Forget
  <2>4. /\ run' = run /\ blob' = blob /\ lockFile' = lockFile /\ tree' = tree
        /\ present' = present /\ ready' = ready /\ cas' = cas /\ kind' = kind
        /\ todo' = todo /\ gcBlob' = gcBlob /\ kills' = kills
    BY <1>25 DEF Forget
  <2> QED
    BY <2>1, <2>2, <2>3, <2>4
<1>26. ASSUME NEW g \in Sweeper, EndPackages(g) PROVE PCTypeOK'
  BY <1>26 DEF EndPackages
<1>27. ASSUME NEW g \in Sweeper, LockStore(g) PROVE PCTypeOK'
  BY <1>27 DEF LockStore, StoreIdle, Filling, Collecting
<1>28. ASSUME NEW g \in Sweeper, SkipBlobs(g) PROVE PCTypeOK'
  BY <1>28 DEF SkipBlobs, AfterBlobs, StoreIdle, Filling, Collecting
<1>29. ASSUME NEW g \in Sweeper, NEW b \in Blob, FindUnlinked(g, b) PROVE PCTypeOK'
  BY <1>29 DEF FindUnlinked, Linked
<1>30. ASSUME NEW g \in Sweeper, DropBlob(g) PROVE PCTypeOK'
  BY <1>30 DEF DropBlob
<1>31. ASSUME NEW g \in Sweeper, EndCollecting(g) PROVE PCTypeOK'
  BY <1>31 DEF EndCollecting, AfterBlobs, Linked
<1>32. ASSUME NEW g \in Sweeper, Prune(g) PROVE PCTypeOK'
  BY <1>32 DEF Prune
<1>33. ASSUME NEW g \in Sweeper, Rerun(g) PROVE PCTypeOK'
  BY <1>33 DEF Rerun
<1>34. ASSUME NEW g \in Sweeper, KillSweeper(g) PROVE PCTypeOK'
  BY <1>34 DEF KillSweeper
<1>35. ASSUME NEW p \in Pkg, Age(p) PROVE PCTypeOK'
  BY <1>35 DEF Age
<1>36. CASE UNCHANGED cacheVars
  BY <1>36 DEF cacheVars
<1> QED
  BY <1>1, <1>2, <1>3, <1>4, <1>5, <1>6, <1>7, <1>8, <1>9, <1>10, <1>11, <1>12,
    <1>13, <1>14, <1>15, <1>16, <1>17, <1>18, <1>19, <1>20, <1>21, <1>22,
    <1>23, <1>24, <1>25, <1>26, <1>27, <1>28, <1>29, <1>30, <1>31, <1>32,
    <1>33, <1>34, <1>35, <1>36 DEF PCNext, RunStep, SweepStep

\* Nothing of a package is there before its lock file, which stays.
LEMMA LockedFilesStep ==
  PCTypeOK /\ LockedFiles /\ [PCNext]_cacheVars => LockedFiles'
<1> SUFFICES ASSUME PCTypeOK /\ LockedFiles, [PCNext]_cacheVars PROVE LockedFiles'
  OBVIOUS
<1>a. /\ run \in [Runner -> RunPhase]
      /\ lockFile \subseteq Pkg /\ present \subseteq Pkg /\ ready \subseteq Pkg
      /\ tree \in [Pkg -> SUBSET (Blob \cup {EmptyDir})]
      /\ scratch \in [Pkg -> SUBSET (Blob \cup {EmptyDir})]
      /\ meta \in [Pkg -> {"none", "fresh", "old"}]
      /\ gc \in [Sweeper -> SweepPhase]
      /\ todo \in [Sweeper -> SUBSET Pkg]
      /\ gcPkg \in [Sweeper -> Pkg \cup {NoOne}]
      /\ \A i \in Runner : PkgOf[i] \in Pkg
      /\ NoOne \notin Runner /\ NoOne \notin Pkg /\ Legacy \subseteq Pkg
  BY PackageCacheAssumption DEF PCTypeOK
<1> USE <1>a DEF Step, Sweep, Kill, runVars, treeVars, sweepVars,
    LockedFiles, UnderProtocol
<1>1. ASSUME NEW l \in Runner, LockInUse(l) PROVE LockedFiles'
  BY <1>1 DEF LockInUse
<1>2. ASSUME NEW l \in Runner, RunCached(l) PROVE LockedFiles'
  BY <1>2 DEF RunCached, Touch
<1>3. ASSUME NEW l \in Runner, NotCached(l) PROVE LockedFiles'
  BY <1>3 DEF NotCached
<1>4. ASSUME NEW l \in Runner, LockExtraction(l) PROVE LockedFiles'
  BY <1>4 DEF LockExtraction
<1>5. ASSUME NEW l \in Runner, RunExtracted(l) PROVE LockedFiles'
  BY <1>5 DEF RunExtracted, Touch, Unlock
<1>6. ASSUME NEW l \in Runner, ClearStale(l) PROVE LockedFiles'
  BY <1>6 DEF ClearStale
<1>7. ASSUME NEW l \in Runner, BeginFill(l) PROVE LockedFiles'
  BY <1>7 DEF BeginFill
<1>8. ASSUME NEW l \in Runner, NEW b \in Blob, StoreBlob(l, b) PROVE LockedFiles'
  BY <1>8 DEF StoreBlob, Store
<1>9. ASSUME NEW l \in Runner, LinkBlob(l) PROVE LockedFiles'
  BY <1>9 DEF LinkBlob
<1>10. ASSUME NEW l \in Runner, EndFill(l) PROVE LockedFiles'
  BY <1>10 DEF EndFill
<1>11. ASSUME NEW l \in Runner, RenameTree(l) PROVE LockedFiles'
  BY <1>11 DEF RenameTree
<1>12. ASSUME NEW l \in Runner, MarkReady(l) PROVE LockedFiles'
  BY <1>12 DEF MarkReady
<1>13. ASSUME NEW l \in Runner, RunFresh(l) PROVE LockedFiles'
  BY <1>13 DEF RunFresh, Touch, Unlock
<1>14. ASSUME NEW l \in Runner, Fail(l) PROVE LockedFiles'
  BY <1>14 DEF Fail, Unlock
<1>15. ASSUME NEW l \in Runner, Exit(l) PROVE LockedFiles'
  BY <1>15 DEF Exit
<1>16. ASSUME NEW l \in Runner, KillRunner(l) PROVE LockedFiles'
  BY <1>16 DEF KillRunner, Unlock
<1>17. ASSUME NEW g \in Sweeper, Begin(g) PROVE LockedFiles'
  BY <1>17 DEF Begin
<1>18. ASSUME NEW g \in Sweeper, NEW p \in Pkg, Pick(g, p) PROVE LockedFiles'
  BY <1>18 DEF Pick, Due
<1>19. ASSUME NEW g \in Sweeper, NEW p \in Pkg, Pass(g, p) PROVE LockedFiles'
  BY <1>19 DEF Pass, Due
<1>20. ASSUME NEW g \in Sweeper, Claim(g) PROVE LockedFiles'
  BY <1>20 DEF Claim
<1>21. ASSUME NEW g \in Sweeper, Skip(g) PROVE LockedFiles'
  BY <1>21 DEF Skip
<1>22. ASSUME NEW g \in Sweeper, RetireMarker(g) PROVE LockedFiles'
  BY <1>22 DEF RetireMarker, MarkerRetired
<1>23. ASSUME NEW g \in Sweeper, NEW x \in Blob \cup {EmptyDir}, RemovePart(g, x)
       PROVE LockedFiles'
  BY <1>23 DEF RemovePart
<1>24. ASSUME NEW g \in Sweeper, RemoveDir(g) PROVE LockedFiles'
  BY <1>24 DEF RemoveDir
<1>25. ASSUME NEW g \in Sweeper, Forget(g) PROVE LockedFiles'
  BY <1>25 DEF Forget
<1>26. ASSUME NEW g \in Sweeper, EndPackages(g) PROVE LockedFiles'
  BY <1>26 DEF EndPackages
<1>27. ASSUME NEW g \in Sweeper, LockStore(g) PROVE LockedFiles'
  BY <1>27 DEF LockStore
<1>28. ASSUME NEW g \in Sweeper, SkipBlobs(g) PROVE LockedFiles'
  BY <1>28 DEF SkipBlobs, AfterBlobs
<1>29. ASSUME NEW g \in Sweeper, NEW b \in Blob, FindUnlinked(g, b) PROVE LockedFiles'
  BY <1>29 DEF FindUnlinked
<1>30. ASSUME NEW g \in Sweeper, DropBlob(g) PROVE LockedFiles'
  BY <1>30 DEF DropBlob
<1>31. ASSUME NEW g \in Sweeper, EndCollecting(g) PROVE LockedFiles'
  BY <1>31 DEF EndCollecting, AfterBlobs
<1>32. ASSUME NEW g \in Sweeper, Prune(g) PROVE LockedFiles'
  BY <1>32 DEF Prune
<1>33. ASSUME NEW g \in Sweeper, Rerun(g) PROVE LockedFiles'
  BY <1>33 DEF Rerun
<1>34. ASSUME NEW g \in Sweeper, KillSweeper(g) PROVE LockedFiles'
  BY <1>34 DEF KillSweeper
<1>35. ASSUME NEW p \in Pkg, Age(p) PROVE LockedFiles'
  BY <1>35 DEF Age
<1>36. CASE UNCHANGED cacheVars
  BY <1>36 DEF cacheVars
<1> QED
  BY <1>1, <1>2, <1>3, <1>4, <1>5, <1>6, <1>7, <1>8, <1>9, <1>10, <1>11, <1>12,
    <1>13, <1>14, <1>15, <1>16, <1>17, <1>18, <1>19, <1>20, <1>21, <1>22,
    <1>23, <1>24, <1>25, <1>26, <1>27, <1>28, <1>29, <1>30, <1>31, <1>32,
    <1>33, <1>34, <1>35, <1>36 DEF PCNext, RunStep, SweepStep

\* The in-use lock is taken shared from before the first look.
LEMMA ClaimsExcludeStep ==
  PCTypeOK /\ LockedFiles /\ ClaimsExclude /\ [PCNext]_cacheVars => ClaimsExclude'
<1> SUFFICES ASSUME PCTypeOK /\ LockedFiles /\ ClaimsExclude,
                [PCNext]_cacheVars
         PROVE  ClaimsExclude'
  OBVIOUS
<1>a. /\ run \in [Runner -> RunPhase]
      /\ gc \in [Sweeper -> SweepPhase]
      /\ claim \in [Sweeper -> BOOLEAN]
      /\ gcPkg \in [Sweeper -> Pkg \cup {NoOne}]
      /\ todo \in [Sweeper -> SUBSET Pkg]
      /\ \A i \in Runner : PkgOf[i] \in Pkg
      /\ NoOne \notin Runner /\ NoOne \notin Pkg /\ Legacy \subseteq Pkg
  BY PackageCacheAssumption DEF PCTypeOK
<1> USE <1>a DEF Step, Sweep, Kill, runVars, treeVars, sweepVars,
    ClaimsExclude, Removes, LockedFiles, UnderProtocol, PackageInUse, Claimed
<1>1. ASSUME NEW l \in Runner, LockInUse(l) PROVE ClaimsExclude'
  BY <1>1 DEF LockInUse
<1>2. ASSUME NEW l \in Runner, RunCached(l) PROVE ClaimsExclude'
  BY <1>2 DEF RunCached, Touch
<1>3. ASSUME NEW l \in Runner, NotCached(l) PROVE ClaimsExclude'
  BY <1>3 DEF NotCached
<1>4. ASSUME NEW l \in Runner, LockExtraction(l) PROVE ClaimsExclude'
  BY <1>4 DEF LockExtraction
<1>5. ASSUME NEW l \in Runner, RunExtracted(l) PROVE ClaimsExclude'
  BY <1>5 DEF RunExtracted, Touch, Unlock
<1>6. ASSUME NEW l \in Runner, ClearStale(l) PROVE ClaimsExclude'
  BY <1>6 DEF ClearStale
<1>7. ASSUME NEW l \in Runner, BeginFill(l) PROVE ClaimsExclude'
  BY <1>7 DEF BeginFill
<1>8. ASSUME NEW l \in Runner, NEW b \in Blob, StoreBlob(l, b) PROVE ClaimsExclude'
  BY <1>8 DEF StoreBlob, Store
<1>9. ASSUME NEW l \in Runner, LinkBlob(l) PROVE ClaimsExclude'
  BY <1>9 DEF LinkBlob
<1>10. ASSUME NEW l \in Runner, EndFill(l) PROVE ClaimsExclude'
  BY <1>10 DEF EndFill
<1>11. ASSUME NEW l \in Runner, RenameTree(l) PROVE ClaimsExclude'
  BY <1>11 DEF RenameTree
<1>12. ASSUME NEW l \in Runner, MarkReady(l) PROVE ClaimsExclude'
  BY <1>12 DEF MarkReady
<1>13. ASSUME NEW l \in Runner, RunFresh(l) PROVE ClaimsExclude'
  BY <1>13 DEF RunFresh, Touch, Unlock
<1>14. ASSUME NEW l \in Runner, Fail(l) PROVE ClaimsExclude'
  BY <1>14 DEF Fail, Unlock
<1>15. ASSUME NEW l \in Runner, Exit(l) PROVE ClaimsExclude'
  BY <1>15 DEF Exit
<1>16. ASSUME NEW l \in Runner, KillRunner(l) PROVE ClaimsExclude'
  BY <1>16 DEF KillRunner, Unlock
<1>17. ASSUME NEW g \in Sweeper, Begin(g) PROVE ClaimsExclude'
  BY <1>17 DEF Begin
<1>18. ASSUME NEW g \in Sweeper, NEW p \in Pkg, Pick(g, p) PROVE ClaimsExclude'
  BY <1>18 DEF Pick, Due
<1>19. ASSUME NEW g \in Sweeper, NEW p \in Pkg, Pass(g, p) PROVE ClaimsExclude'
  BY <1>19 DEF Pass, Due
<1>20. ASSUME NEW g \in Sweeper, Claim(g) PROVE ClaimsExclude'
  BY <1>20, ZenonT(60) DEF Claim
<1>21. ASSUME NEW g \in Sweeper, Skip(g) PROVE ClaimsExclude'
  BY <1>21 DEF Skip
<1>22. ASSUME NEW g \in Sweeper, RetireMarker(g) PROVE ClaimsExclude'
  BY <1>22 DEF RetireMarker, MarkerRetired
<1>23. ASSUME NEW g \in Sweeper, NEW x \in Blob \cup {EmptyDir}, RemovePart(g, x)
       PROVE ClaimsExclude'
  BY <1>23 DEF RemovePart
<1>24. ASSUME NEW g \in Sweeper, RemoveDir(g) PROVE ClaimsExclude'
  BY <1>24 DEF RemoveDir
<1>25. ASSUME NEW g \in Sweeper, Forget(g) PROVE ClaimsExclude'
  BY <1>25 DEF Forget
<1>26. ASSUME NEW g \in Sweeper, EndPackages(g) PROVE ClaimsExclude'
  BY <1>26 DEF EndPackages
<1>27. ASSUME NEW g \in Sweeper, LockStore(g) PROVE ClaimsExclude'
  BY <1>27 DEF LockStore
<1>28. ASSUME NEW g \in Sweeper, SkipBlobs(g) PROVE ClaimsExclude'
  BY <1>28 DEF SkipBlobs, AfterBlobs
<1>29. ASSUME NEW g \in Sweeper, NEW b \in Blob, FindUnlinked(g, b) PROVE ClaimsExclude'
  BY <1>29 DEF FindUnlinked
<1>30. ASSUME NEW g \in Sweeper, DropBlob(g) PROVE ClaimsExclude'
  BY <1>30 DEF DropBlob
<1>31. ASSUME NEW g \in Sweeper, EndCollecting(g) PROVE ClaimsExclude'
  BY <1>31 DEF EndCollecting, AfterBlobs
<1>32. ASSUME NEW g \in Sweeper, Prune(g) PROVE ClaimsExclude'
  BY <1>32 DEF Prune
<1>33. ASSUME NEW g \in Sweeper, Rerun(g) PROVE ClaimsExclude'
  BY <1>33 DEF Rerun
<1>34. ASSUME NEW g \in Sweeper, KillSweeper(g) PROVE ClaimsExclude'
  BY <1>34 DEF KillSweeper
<1>35. ASSUME NEW p \in Pkg, Age(p) PROVE ClaimsExclude'
  BY <1>35 DEF Age
<1>36. CASE UNCHANGED cacheVars
  BY <1>36 DEF cacheVars
<1> QED
  BY <1>1, <1>2, <1>3, <1>4, <1>5, <1>6, <1>7, <1>8, <1>9, <1>10, <1>11, <1>12,
    <1>13, <1>14, <1>15, <1>16, <1>17, <1>18, <1>19, <1>20, <1>21, <1>22,
    <1>23, <1>24, <1>25, <1>26, <1>27, <1>28, <1>29, <1>30, <1>31, <1>32,
    <1>33, <1>34, <1>35, <1>36 DEF PCNext, RunStep, SweepStep

\* The extraction lock is let go with the last phase it is held in.
LEMMA OneExtractsStep ==
  PCTypeOK /\ ClaimsExclude /\ OneExtracts /\ [PCNext]_cacheVars => OneExtracts'
<1> SUFFICES ASSUME PCTypeOK /\ ClaimsExclude /\ OneExtracts,
                [PCNext]_cacheVars
         PROVE  OneExtracts'
  OBVIOUS
<1>a. /\ run \in [Runner -> RunPhase]
      /\ mutex \in [Pkg -> Runner \cup {NoOne}]
      /\ gc \in [Sweeper -> SweepPhase]
      /\ gcPkg \in [Sweeper -> Pkg \cup {NoOne}]
      /\ \A i \in Runner : PkgOf[i] \in Pkg
      /\ NoOne \notin Runner /\ NoOne \notin Pkg /\ Legacy \subseteq Pkg
  BY PackageCacheAssumption DEF PCTypeOK
<1> USE <1>a DEF Step, Sweep, Kill, runVars, treeVars, sweepVars,
    OneExtracts, Extracting, UnderProtocol, ClaimsExclude, Removes, PackageInUse
<1>1. ASSUME NEW l \in Runner, LockInUse(l) PROVE OneExtracts'
  BY <1>1 DEF LockInUse
<1>2. ASSUME NEW l \in Runner, RunCached(l) PROVE OneExtracts'
  BY <1>2 DEF RunCached, Touch
<1>3. ASSUME NEW l \in Runner, NotCached(l) PROVE OneExtracts'
  BY <1>3 DEF NotCached
<1>4. ASSUME NEW l \in Runner, LockExtraction(l) PROVE OneExtracts'
  BY <1>4 DEF LockExtraction
<1>5. ASSUME NEW l \in Runner, RunExtracted(l) PROVE OneExtracts'
  BY <1>5 DEF RunExtracted, Touch, Unlock
<1>6. ASSUME NEW l \in Runner, ClearStale(l) PROVE OneExtracts'
  BY <1>6 DEF ClearStale
<1>7. ASSUME NEW l \in Runner, BeginFill(l) PROVE OneExtracts'
  BY <1>7 DEF BeginFill
<1>8. ASSUME NEW l \in Runner, NEW b \in Blob, StoreBlob(l, b) PROVE OneExtracts'
  BY <1>8 DEF StoreBlob, Store
<1>9. ASSUME NEW l \in Runner, LinkBlob(l) PROVE OneExtracts'
  BY <1>9 DEF LinkBlob
<1>10. ASSUME NEW l \in Runner, EndFill(l) PROVE OneExtracts'
  BY <1>10 DEF EndFill
<1>11. ASSUME NEW l \in Runner, RenameTree(l) PROVE OneExtracts'
  BY <1>11 DEF RenameTree
<1>12. ASSUME NEW l \in Runner, MarkReady(l) PROVE OneExtracts'
  BY <1>12 DEF MarkReady
<1>13. ASSUME NEW l \in Runner, RunFresh(l) PROVE OneExtracts'
  BY <1>13 DEF RunFresh, Touch, Unlock
<1>14. ASSUME NEW l \in Runner, Fail(l) PROVE OneExtracts'
  BY <1>14 DEF Fail, Unlock
<1>15. ASSUME NEW l \in Runner, Exit(l) PROVE OneExtracts'
  BY <1>15 DEF Exit
<1>16. ASSUME NEW l \in Runner, KillRunner(l) PROVE OneExtracts'
  BY <1>16 DEF KillRunner, Unlock
<1>17. ASSUME NEW g \in Sweeper, Begin(g) PROVE OneExtracts'
  BY <1>17 DEF Begin
<1>18. ASSUME NEW g \in Sweeper, NEW p \in Pkg, Pick(g, p) PROVE OneExtracts'
  BY <1>18 DEF Pick, Due
<1>19. ASSUME NEW g \in Sweeper, NEW p \in Pkg, Pass(g, p) PROVE OneExtracts'
  BY <1>19 DEF Pass, Due
<1>20. ASSUME NEW g \in Sweeper, Claim(g) PROVE OneExtracts'
  BY <1>20 DEF Claim
<1>21. ASSUME NEW g \in Sweeper, Skip(g) PROVE OneExtracts'
  BY <1>21 DEF Skip
<1>22. ASSUME NEW g \in Sweeper, RetireMarker(g) PROVE OneExtracts'
  BY <1>22 DEF RetireMarker, MarkerRetired
<1>23. ASSUME NEW g \in Sweeper, NEW x \in Blob \cup {EmptyDir}, RemovePart(g, x)
       PROVE OneExtracts'
  BY <1>23 DEF RemovePart
<1>24. ASSUME NEW g \in Sweeper, RemoveDir(g) PROVE OneExtracts'
  BY <1>24 DEF RemoveDir
<1>25. ASSUME NEW g \in Sweeper, Forget(g) PROVE OneExtracts'
  BY <1>25 DEF Forget
<1>26. ASSUME NEW g \in Sweeper, EndPackages(g) PROVE OneExtracts'
  BY <1>26 DEF EndPackages
<1>27. ASSUME NEW g \in Sweeper, LockStore(g) PROVE OneExtracts'
  BY <1>27 DEF LockStore
<1>28. ASSUME NEW g \in Sweeper, SkipBlobs(g) PROVE OneExtracts'
  BY <1>28 DEF SkipBlobs, AfterBlobs
<1>29. ASSUME NEW g \in Sweeper, NEW b \in Blob, FindUnlinked(g, b) PROVE OneExtracts'
  BY <1>29 DEF FindUnlinked
<1>30. ASSUME NEW g \in Sweeper, DropBlob(g) PROVE OneExtracts'
  BY <1>30 DEF DropBlob
<1>31. ASSUME NEW g \in Sweeper, EndCollecting(g) PROVE OneExtracts'
  BY <1>31 DEF EndCollecting, AfterBlobs
<1>32. ASSUME NEW g \in Sweeper, Prune(g) PROVE OneExtracts'
  BY <1>32 DEF Prune
<1>33. ASSUME NEW g \in Sweeper, Rerun(g) PROVE OneExtracts'
  BY <1>33 DEF Rerun
<1>34. ASSUME NEW g \in Sweeper, KillSweeper(g) PROVE OneExtracts'
  BY <1>34 DEF KillSweeper
<1>35. ASSUME NEW p \in Pkg, Age(p) PROVE OneExtracts'
  BY <1>35 DEF Age
<1>36. CASE UNCHANGED cacheVars
  BY <1>36 DEF cacheVars
<1> QED
  BY <1>1, <1>2, <1>3, <1>4, <1>5, <1>6, <1>7, <1>8, <1>9, <1>10, <1>11, <1>12,
    <1>13, <1>14, <1>15, <1>16, <1>17, <1>18, <1>19, <1>20, <1>21, <1>22,
    <1>23, <1>24, <1>25, <1>26, <1>27, <1>28, <1>29, <1>30, <1>31, <1>32,
    <1>33, <1>34, <1>35, <1>36 DEF PCNext, RunStep, SweepStep

\* The store lock.
LEMMA StoreExcludedStep ==
  PCTypeOK /\ StoreExcluded /\ [PCNext]_cacheVars => StoreExcluded'
<1> SUFFICES ASSUME PCTypeOK /\ StoreExcluded, [PCNext]_cacheVars PROVE StoreExcluded'
  OBVIOUS
<1>a. /\ run \in [Runner -> RunPhase]
      /\ blob \in [Runner -> Blob \cup {NoOne}]
      /\ gc \in [Sweeper -> SweepPhase]
      /\ \A i \in Runner : PkgOf[i] \in Pkg
  BY PackageCacheAssumption DEF PCTypeOK
<1> USE <1>a DEF Step, Sweep, Kill, runVars, treeVars, sweepVars,
    StoreExcluded, Filling, Collecting, StoreIdle
<1>1. ASSUME NEW l \in Runner, LockInUse(l) PROVE StoreExcluded'
  BY <1>1 DEF LockInUse
<1>2. ASSUME NEW l \in Runner, RunCached(l) PROVE StoreExcluded'
  BY <1>2 DEF RunCached, Touch
<1>3. ASSUME NEW l \in Runner, NotCached(l) PROVE StoreExcluded'
  BY <1>3 DEF NotCached
<1>4. ASSUME NEW l \in Runner, LockExtraction(l) PROVE StoreExcluded'
  BY <1>4 DEF LockExtraction
<1>5. ASSUME NEW l \in Runner, RunExtracted(l) PROVE StoreExcluded'
  BY <1>5 DEF RunExtracted, Touch, Unlock
<1>6. ASSUME NEW l \in Runner, ClearStale(l) PROVE StoreExcluded'
  BY <1>6 DEF ClearStale
<1>7. ASSUME NEW l \in Runner, BeginFill(l) PROVE StoreExcluded'
  BY <1>7 DEF BeginFill
<1>8. ASSUME NEW l \in Runner, NEW b \in Blob, StoreBlob(l, b) PROVE StoreExcluded'
  BY <1>8 DEF StoreBlob, Store
<1>9. ASSUME NEW l \in Runner, LinkBlob(l) PROVE StoreExcluded'
  BY <1>9 DEF LinkBlob
<1>10. ASSUME NEW l \in Runner, EndFill(l) PROVE StoreExcluded'
  BY <1>10 DEF EndFill
<1>11. ASSUME NEW l \in Runner, RenameTree(l) PROVE StoreExcluded'
  BY <1>11 DEF RenameTree
<1>12. ASSUME NEW l \in Runner, MarkReady(l) PROVE StoreExcluded'
  BY <1>12 DEF MarkReady
<1>13. ASSUME NEW l \in Runner, RunFresh(l) PROVE StoreExcluded'
  BY <1>13 DEF RunFresh, Touch, Unlock
<1>14. ASSUME NEW l \in Runner, Fail(l) PROVE StoreExcluded'
  BY <1>14 DEF Fail, Unlock
<1>15. ASSUME NEW l \in Runner, Exit(l) PROVE StoreExcluded'
  BY <1>15 DEF Exit
<1>16. ASSUME NEW l \in Runner, KillRunner(l) PROVE StoreExcluded'
  BY <1>16 DEF KillRunner, Unlock
<1>17. ASSUME NEW g \in Sweeper, Begin(g) PROVE StoreExcluded'
  BY <1>17 DEF Begin
<1>18. ASSUME NEW g \in Sweeper, NEW p \in Pkg, Pick(g, p) PROVE StoreExcluded'
  BY <1>18 DEF Pick, Due
<1>19. ASSUME NEW g \in Sweeper, NEW p \in Pkg, Pass(g, p) PROVE StoreExcluded'
  BY <1>19 DEF Pass, Due
<1>20. ASSUME NEW g \in Sweeper, Claim(g) PROVE StoreExcluded'
  BY <1>20 DEF Claim
<1>21. ASSUME NEW g \in Sweeper, Skip(g) PROVE StoreExcluded'
  BY <1>21 DEF Skip
<1>22. ASSUME NEW g \in Sweeper, RetireMarker(g) PROVE StoreExcluded'
  BY <1>22 DEF RetireMarker, MarkerRetired
<1>23. ASSUME NEW g \in Sweeper, NEW x \in Blob \cup {EmptyDir}, RemovePart(g, x)
       PROVE StoreExcluded'
  BY <1>23 DEF RemovePart
<1>24. ASSUME NEW g \in Sweeper, RemoveDir(g) PROVE StoreExcluded'
  BY <1>24 DEF RemoveDir
<1>25. ASSUME NEW g \in Sweeper, Forget(g) PROVE StoreExcluded'
  BY <1>25 DEF Forget
<1>26. ASSUME NEW g \in Sweeper, EndPackages(g) PROVE StoreExcluded'
  BY <1>26 DEF EndPackages
<1>27. ASSUME NEW g \in Sweeper, LockStore(g) PROVE StoreExcluded'
  BY <1>27 DEF LockStore
<1>28. ASSUME NEW g \in Sweeper, SkipBlobs(g) PROVE StoreExcluded'
  BY <1>28 DEF SkipBlobs, AfterBlobs
<1>29. ASSUME NEW g \in Sweeper, NEW b \in Blob, FindUnlinked(g, b) PROVE StoreExcluded'
  BY <1>29 DEF FindUnlinked
<1>30. ASSUME NEW g \in Sweeper, DropBlob(g) PROVE StoreExcluded'
  BY <1>30 DEF DropBlob
<1>31. ASSUME NEW g \in Sweeper, EndCollecting(g) PROVE StoreExcluded'
  BY <1>31 DEF EndCollecting, AfterBlobs
<1>32. ASSUME NEW g \in Sweeper, Prune(g) PROVE StoreExcluded'
  BY <1>32 DEF Prune
<1>33. ASSUME NEW g \in Sweeper, Rerun(g) PROVE StoreExcluded'
  BY <1>33 DEF Rerun
<1>34. ASSUME NEW g \in Sweeper, KillSweeper(g) PROVE StoreExcluded'
  BY <1>34 DEF KillSweeper
<1>35. ASSUME NEW p \in Pkg, Age(p) PROVE StoreExcluded'
  BY <1>35 DEF Age
<1>36. CASE UNCHANGED cacheVars
  BY <1>36 DEF cacheVars
<1> QED
  BY <1>1, <1>2, <1>3, <1>4, <1>5, <1>6, <1>7, <1>8, <1>9, <1>10, <1>11, <1>12,
    <1>13, <1>14, <1>15, <1>16, <1>17, <1>18, <1>19, <1>20, <1>21, <1>22,
    <1>23, <1>24, <1>25, <1>26, <1>27, <1>28, <1>29, <1>30, <1>31, <1>32,
    <1>33, <1>34, <1>35, <1>36 DEF PCNext, RunStep, SweepStep

\* NoOne else removes or remakes the tree of a launch that extracts or runs.
LEMMA ProgressStep ==
  PCTypeOK /\ ClaimsExclude /\ OneExtracts /\ MarkedIsWhole /\ Progress /\
    [PCNext]_cacheVars => Progress'
<1> SUFFICES ASSUME PCTypeOK /\ ClaimsExclude /\ OneExtracts /\ MarkedIsWhole /\ Progress,
                [PCNext]_cacheVars
         PROVE  Progress'
  OBVIOUS
<1>a. /\ run \in [Runner -> RunPhase]
      /\ lockFile \subseteq Pkg /\ present \subseteq Pkg /\ ready \subseteq Pkg
      /\ mutex \in [Pkg -> Runner \cup {NoOne}]
      /\ tree \in [Pkg -> SUBSET (Blob \cup {EmptyDir})]
      /\ scratch \in [Pkg -> SUBSET (Blob \cup {EmptyDir})]
      /\ gc \in [Sweeper -> SweepPhase]
      /\ gcPkg \in [Sweeper -> Pkg \cup {NoOne}]
      /\ \A i \in Runner : PkgOf[i] \in Pkg
      /\ \A i \in Pkg : BlobsOf[i] \subseteq Blob /\ BlobsOf[i] # {}
      /\ \A i \in Pkg : EmptyDir \notin BlobsOf[i]
      /\ NoOne \notin Runner /\ NoOne \notin Pkg /\ Legacy \subseteq Pkg
  BY PackageCacheAssumption DEF PCTypeOK
<1>b. /\ \A x, y \in Runner :
           PkgOf[x] = PkgOf[y] /\ UnderProtocol(PkgOf[x])
             /\ Extracting(x) /\ Extracting(y) => x = y
      /\ \A i \in Sweeper, x \in Runner :
           Removes(i) /\ gcPkg[i] = PkgOf[x] /\ UnderProtocol(PkgOf[x])
             => run[x] \in {"start", "done", "failed", "killed"}
  BY <1>a DEF OneExtracts, ClaimsExclude, PackageInUse, UnderProtocol
<1> USE <1>a, <1>b DEF Step, Sweep, Kill, runVars, treeVars, sweepVars,
    Progress, HoldsFiles, UnderProtocol, Complete, MarkedIsWhole, Extracting,
    Removes
<1>1. ASSUME NEW l \in Runner, LockInUse(l) PROVE Progress'
  BY <1>1 DEF LockInUse
<1>2. ASSUME NEW l \in Runner, RunCached(l) PROVE Progress'
  BY <1>2 DEF RunCached, Touch
<1>3. ASSUME NEW l \in Runner, NotCached(l) PROVE Progress'
  BY <1>3 DEF NotCached
<1>4. ASSUME NEW l \in Runner, LockExtraction(l) PROVE Progress'
  BY <1>4 DEF LockExtraction
<1>5. ASSUME NEW l \in Runner, RunExtracted(l) PROVE Progress'
  BY <1>5 DEF RunExtracted, Touch, Unlock
<1>6. ASSUME NEW l \in Runner, ClearStale(l) PROVE Progress'
  BY <1>6 DEF ClearStale
<1>7. ASSUME NEW l \in Runner, BeginFill(l) PROVE Progress'
  BY <1>7 DEF BeginFill
<1>8. ASSUME NEW l \in Runner, NEW b \in Blob, StoreBlob(l, b) PROVE Progress'
  BY <1>8 DEF StoreBlob, Store
<1>9. ASSUME NEW l \in Runner, LinkBlob(l) PROVE Progress'
  BY <1>9 DEF LinkBlob
<1>10. ASSUME NEW l \in Runner, EndFill(l) PROVE Progress'
  BY <1>10 DEF EndFill
<1>11. ASSUME NEW l \in Runner, RenameTree(l) PROVE Progress'
  BY <1>11 DEF RenameTree
<1>12. ASSUME NEW l \in Runner, MarkReady(l) PROVE Progress'
  BY <1>12 DEF MarkReady
<1>13. ASSUME NEW l \in Runner, RunFresh(l) PROVE Progress'
  BY <1>13 DEF RunFresh, Touch, Unlock
<1>14. ASSUME NEW l \in Runner, Fail(l) PROVE Progress'
  BY <1>14 DEF Fail, Unlock
<1>15. ASSUME NEW l \in Runner, Exit(l) PROVE Progress'
  BY <1>15 DEF Exit
<1>16. ASSUME NEW l \in Runner, KillRunner(l) PROVE Progress'
  BY <1>16 DEF KillRunner, Unlock
<1>17. ASSUME NEW g \in Sweeper, Begin(g) PROVE Progress'
  BY <1>17 DEF Begin
<1>18. ASSUME NEW g \in Sweeper, NEW p \in Pkg, Pick(g, p) PROVE Progress'
  BY <1>18 DEF Pick, Due
<1>19. ASSUME NEW g \in Sweeper, NEW p \in Pkg, Pass(g, p) PROVE Progress'
  BY <1>19 DEF Pass, Due
<1>20. ASSUME NEW g \in Sweeper, Claim(g) PROVE Progress'
  BY <1>20 DEF Claim
<1>21. ASSUME NEW g \in Sweeper, Skip(g) PROVE Progress'
  BY <1>21 DEF Skip
<1>22. ASSUME NEW g \in Sweeper, RetireMarker(g) PROVE Progress'
  BY <1>22 DEF RetireMarker, MarkerRetired
<1>23. ASSUME NEW g \in Sweeper, NEW x \in Blob \cup {EmptyDir}, RemovePart(g, x)
       PROVE Progress'
  BY <1>23 DEF RemovePart
<1>24. ASSUME NEW g \in Sweeper, RemoveDir(g) PROVE Progress'
  BY <1>24 DEF RemoveDir
<1>25. ASSUME NEW g \in Sweeper, Forget(g) PROVE Progress'
  BY <1>25 DEF Forget
<1>26. ASSUME NEW g \in Sweeper, EndPackages(g) PROVE Progress'
  BY <1>26 DEF EndPackages
<1>27. ASSUME NEW g \in Sweeper, LockStore(g) PROVE Progress'
  BY <1>27 DEF LockStore
<1>28. ASSUME NEW g \in Sweeper, SkipBlobs(g) PROVE Progress'
  BY <1>28 DEF SkipBlobs, AfterBlobs
<1>29. ASSUME NEW g \in Sweeper, NEW b \in Blob, FindUnlinked(g, b) PROVE Progress'
  BY <1>29 DEF FindUnlinked
<1>30. ASSUME NEW g \in Sweeper, DropBlob(g) PROVE Progress'
  BY <1>30 DEF DropBlob
<1>31. ASSUME NEW g \in Sweeper, EndCollecting(g) PROVE Progress'
  BY <1>31 DEF EndCollecting, AfterBlobs
<1>32. ASSUME NEW g \in Sweeper, Prune(g) PROVE Progress'
  <2>1. \A p \in Pkg :
          /\ BlobsOf[p] \subseteq tree[p] => BlobsOf[p] \subseteq tree'[p]
          /\ BlobsOf[p] \subseteq scratch[p] => BlobsOf[p] \subseteq scratch'[p]
          /\ BlobsOf[p] \subseteq tree[p] /\ p \in present => p \in present'
    BY <1>32 DEF Prune
  <2>2. run' = run /\ ready' = ready
    BY <1>32 DEF Prune
  <2> QED
    BY <2>1, <2>2
<1>33. ASSUME NEW g \in Sweeper, Rerun(g) PROVE Progress'
  BY <1>33 DEF Rerun
<1>34. ASSUME NEW g \in Sweeper, KillSweeper(g) PROVE Progress'
  BY <1>34 DEF KillSweeper
<1>35. ASSUME NEW p \in Pkg, Age(p) PROVE Progress'
  BY <1>35 DEF Age
<1>36. CASE UNCHANGED cacheVars
  BY <1>36 DEF cacheVars
<1> QED
  BY <1>1, <1>2, <1>3, <1>4, <1>5, <1>6, <1>7, <1>8, <1>9, <1>10, <1>11, <1>12,
    <1>13, <1>14, <1>15, <1>16, <1>17, <1>18, <1>19, <1>20, <1>21, <1>22,
    <1>23, <1>24, <1>25, <1>26, <1>27, <1>28, <1>29, <1>30, <1>31, <1>32,
    <1>33, <1>34, <1>35, <1>36 DEF PCNext, RunStep, SweepStep

\* The marker comes after the rename and goes before the tree.
LEMMA MarkedIsWholeStep ==
  PCTypeOK /\ ClaimsExclude /\ OneExtracts /\ Progress /\ MarkedIsWhole /\
    [PCNext]_cacheVars => MarkedIsWhole'
<1> SUFFICES ASSUME PCTypeOK /\ ClaimsExclude /\ OneExtracts /\ Progress /\ MarkedIsWhole,
                [PCNext]_cacheVars
         PROVE  MarkedIsWhole'
  OBVIOUS
<1>a. /\ run \in [Runner -> RunPhase]
      /\ lockFile \subseteq Pkg /\ present \subseteq Pkg /\ ready \subseteq Pkg
      /\ mutex \in [Pkg -> Runner \cup {NoOne}]
      /\ tree \in [Pkg -> SUBSET (Blob \cup {EmptyDir})]
      /\ gc \in [Sweeper -> SweepPhase]
      /\ gcPkg \in [Sweeper -> Pkg \cup {NoOne}]
      /\ \A i \in Runner : PkgOf[i] \in Pkg
      /\ \A i \in Pkg : BlobsOf[i] \subseteq Blob /\ BlobsOf[i] # {}
      /\ \A i \in Pkg : EmptyDir \notin BlobsOf[i]
      /\ NoOne \notin Runner /\ NoOne \notin Pkg /\ Legacy \subseteq Pkg
  BY PackageCacheAssumption DEF PCTypeOK
<1> USE <1>a DEF Step, Sweep, Kill, runVars, treeVars, sweepVars,
    MarkedIsWhole, UnderProtocol, Complete, Progress, HoldsFiles,
    ClaimsExclude, Removes
<1>1. ASSUME NEW l \in Runner, LockInUse(l) PROVE MarkedIsWhole'
  BY <1>1 DEF LockInUse
<1>2. ASSUME NEW l \in Runner, RunCached(l) PROVE MarkedIsWhole'
  BY <1>2 DEF RunCached, Touch
<1>3. ASSUME NEW l \in Runner, NotCached(l) PROVE MarkedIsWhole'
  BY <1>3 DEF NotCached
<1>4. ASSUME NEW l \in Runner, LockExtraction(l) PROVE MarkedIsWhole'
  BY <1>4 DEF LockExtraction
<1>5. ASSUME NEW l \in Runner, RunExtracted(l) PROVE MarkedIsWhole'
  BY <1>5 DEF RunExtracted, Touch, Unlock
<1>6. ASSUME NEW l \in Runner, ClearStale(l) PROVE MarkedIsWhole'
  BY <1>6 DEF ClearStale
<1>7. ASSUME NEW l \in Runner, BeginFill(l) PROVE MarkedIsWhole'
  BY <1>7 DEF BeginFill
<1>8. ASSUME NEW l \in Runner, NEW b \in Blob, StoreBlob(l, b) PROVE MarkedIsWhole'
  BY <1>8 DEF StoreBlob, Store
<1>9. ASSUME NEW l \in Runner, LinkBlob(l) PROVE MarkedIsWhole'
  BY <1>9 DEF LinkBlob
<1>10. ASSUME NEW l \in Runner, EndFill(l) PROVE MarkedIsWhole'
  BY <1>10 DEF EndFill
<1>11. ASSUME NEW l \in Runner, RenameTree(l) PROVE MarkedIsWhole'
  BY <1>11 DEF RenameTree
<1>12. ASSUME NEW l \in Runner, MarkReady(l) PROVE MarkedIsWhole'
  BY <1>12 DEF MarkReady
<1>13. ASSUME NEW l \in Runner, RunFresh(l) PROVE MarkedIsWhole'
  BY <1>13 DEF RunFresh, Touch, Unlock
<1>14. ASSUME NEW l \in Runner, Fail(l) PROVE MarkedIsWhole'
  BY <1>14 DEF Fail, Unlock
<1>15. ASSUME NEW l \in Runner, Exit(l) PROVE MarkedIsWhole'
  BY <1>15 DEF Exit
<1>16. ASSUME NEW l \in Runner, KillRunner(l) PROVE MarkedIsWhole'
  BY <1>16 DEF KillRunner, Unlock
<1>17. ASSUME NEW g \in Sweeper, Begin(g) PROVE MarkedIsWhole'
  BY <1>17 DEF Begin
<1>18. ASSUME NEW g \in Sweeper, NEW p \in Pkg, Pick(g, p) PROVE MarkedIsWhole'
  BY <1>18 DEF Pick, Due
<1>19. ASSUME NEW g \in Sweeper, NEW p \in Pkg, Pass(g, p) PROVE MarkedIsWhole'
  BY <1>19 DEF Pass, Due
<1>20. ASSUME NEW g \in Sweeper, Claim(g) PROVE MarkedIsWhole'
  BY <1>20 DEF Claim
<1>21. ASSUME NEW g \in Sweeper, Skip(g) PROVE MarkedIsWhole'
  BY <1>21 DEF Skip
<1>22. ASSUME NEW g \in Sweeper, RetireMarker(g) PROVE MarkedIsWhole'
  BY <1>22 DEF RetireMarker, MarkerRetired
<1>23. ASSUME NEW g \in Sweeper, NEW x \in Blob \cup {EmptyDir}, RemovePart(g, x)
       PROVE MarkedIsWhole'
  BY <1>23 DEF RemovePart
<1>24. ASSUME NEW g \in Sweeper, RemoveDir(g) PROVE MarkedIsWhole'
  BY <1>24 DEF RemoveDir
<1>25. ASSUME NEW g \in Sweeper, Forget(g) PROVE MarkedIsWhole'
  BY <1>25 DEF Forget
<1>26. ASSUME NEW g \in Sweeper, EndPackages(g) PROVE MarkedIsWhole'
  BY <1>26 DEF EndPackages
<1>27. ASSUME NEW g \in Sweeper, LockStore(g) PROVE MarkedIsWhole'
  BY <1>27 DEF LockStore
<1>28. ASSUME NEW g \in Sweeper, SkipBlobs(g) PROVE MarkedIsWhole'
  BY <1>28 DEF SkipBlobs, AfterBlobs
<1>29. ASSUME NEW g \in Sweeper, NEW b \in Blob, FindUnlinked(g, b) PROVE MarkedIsWhole'
  BY <1>29 DEF FindUnlinked
<1>30. ASSUME NEW g \in Sweeper, DropBlob(g) PROVE MarkedIsWhole'
  BY <1>30 DEF DropBlob
<1>31. ASSUME NEW g \in Sweeper, EndCollecting(g) PROVE MarkedIsWhole'
  BY <1>31 DEF EndCollecting, AfterBlobs
<1>32. ASSUME NEW g \in Sweeper, Prune(g) PROVE MarkedIsWhole'
  BY <1>32 DEF Prune
<1>33. ASSUME NEW g \in Sweeper, Rerun(g) PROVE MarkedIsWhole'
  BY <1>33 DEF Rerun
<1>34. ASSUME NEW g \in Sweeper, KillSweeper(g) PROVE MarkedIsWhole'
  BY <1>34 DEF KillSweeper
<1>35. ASSUME NEW p \in Pkg, Age(p) PROVE MarkedIsWhole'
  BY <1>35 DEF Age
<1>36. CASE UNCHANGED cacheVars
  BY <1>36 DEF cacheVars
<1> QED
  BY <1>1, <1>2, <1>3, <1>4, <1>5, <1>6, <1>7, <1>8, <1>9, <1>10, <1>11, <1>12,
    <1>13, <1>14, <1>15, <1>16, <1>17, <1>18, <1>19, <1>20, <1>21, <1>22,
    <1>23, <1>24, <1>25, <1>26, <1>27, <1>28, <1>29, <1>30, <1>31, <1>32,
    <1>33, <1>34, <1>35, <1>36 DEF PCNext, RunStep, SweepStep

\* A slot that is about to be linked is not collected.
LEMMA LinksVerifiedStep ==
  PCTypeOK /\ StoreExcluded /\ LinksVerified /\ [PCNext]_cacheVars => LinksVerified'
<1> SUFFICES ASSUME PCTypeOK /\ StoreExcluded /\ LinksVerified,
                [PCNext]_cacheVars
         PROVE  LinksVerified'
  OBVIOUS
<1>a. /\ run \in [Runner -> RunPhase]
      /\ blob \in [Runner -> Blob \cup {NoOne}]
      /\ cas \in [Blob -> {"none", "good", "bad"}]
      /\ gc \in [Sweeper -> SweepPhase]
      /\ \A i \in Runner : PkgOf[i] \in Pkg
      /\ \A i \in Pkg : BlobsOf[i] \subseteq Blob /\ BlobsOf[i] # {}
      /\ \A i \in Pkg : EmptyDir \notin BlobsOf[i]
  BY PackageCacheAssumption DEF PCTypeOK
<1> USE <1>a DEF Step, Sweep, Kill, runVars, treeVars, sweepVars,
    LinksVerified
<1>1. ASSUME NEW l \in Runner, LockInUse(l) PROVE LinksVerified'
  BY <1>1 DEF LockInUse
<1>2. ASSUME NEW l \in Runner, RunCached(l) PROVE LinksVerified'
  BY <1>2 DEF RunCached, Touch
<1>3. ASSUME NEW l \in Runner, NotCached(l) PROVE LinksVerified'
  BY <1>3 DEF NotCached
<1>4. ASSUME NEW l \in Runner, LockExtraction(l) PROVE LinksVerified'
  BY <1>4 DEF LockExtraction
<1>5. ASSUME NEW l \in Runner, RunExtracted(l) PROVE LinksVerified'
  BY <1>5 DEF RunExtracted, Touch, Unlock
<1>6. ASSUME NEW l \in Runner, ClearStale(l) PROVE LinksVerified'
  BY <1>6 DEF ClearStale
<1>7. ASSUME NEW l \in Runner, BeginFill(l) PROVE LinksVerified'
  BY <1>7 DEF BeginFill
<1>8. ASSUME NEW l \in Runner, NEW b \in Blob, StoreBlob(l, b) PROVE LinksVerified'
  BY <1>8 DEF StoreBlob, Store
<1>9. ASSUME NEW l \in Runner, LinkBlob(l) PROVE LinksVerified'
  BY <1>9 DEF LinkBlob
<1>10. ASSUME NEW l \in Runner, EndFill(l) PROVE LinksVerified'
  BY <1>10 DEF EndFill
<1>11. ASSUME NEW l \in Runner, RenameTree(l) PROVE LinksVerified'
  BY <1>11 DEF RenameTree
<1>12. ASSUME NEW l \in Runner, MarkReady(l) PROVE LinksVerified'
  BY <1>12 DEF MarkReady
<1>13. ASSUME NEW l \in Runner, RunFresh(l) PROVE LinksVerified'
  BY <1>13 DEF RunFresh, Touch, Unlock
<1>14. ASSUME NEW l \in Runner, Fail(l) PROVE LinksVerified'
  BY <1>14 DEF Fail, Unlock
<1>15. ASSUME NEW l \in Runner, Exit(l) PROVE LinksVerified'
  BY <1>15 DEF Exit
<1>16. ASSUME NEW l \in Runner, KillRunner(l) PROVE LinksVerified'
  BY <1>16 DEF KillRunner, Unlock
<1>17. ASSUME NEW g \in Sweeper, Begin(g) PROVE LinksVerified'
  BY <1>17 DEF Begin
<1>18. ASSUME NEW g \in Sweeper, NEW p \in Pkg, Pick(g, p) PROVE LinksVerified'
  BY <1>18 DEF Pick, Due
<1>19. ASSUME NEW g \in Sweeper, NEW p \in Pkg, Pass(g, p) PROVE LinksVerified'
  BY <1>19 DEF Pass, Due
<1>20. ASSUME NEW g \in Sweeper, Claim(g) PROVE LinksVerified'
  BY <1>20 DEF Claim
<1>21. ASSUME NEW g \in Sweeper, Skip(g) PROVE LinksVerified'
  BY <1>21 DEF Skip
<1>22. ASSUME NEW g \in Sweeper, RetireMarker(g) PROVE LinksVerified'
  BY <1>22 DEF RetireMarker, MarkerRetired
<1>23. ASSUME NEW g \in Sweeper, NEW x \in Blob \cup {EmptyDir}, RemovePart(g, x)
       PROVE LinksVerified'
  BY <1>23 DEF RemovePart
<1>24. ASSUME NEW g \in Sweeper, RemoveDir(g) PROVE LinksVerified'
  BY <1>24 DEF RemoveDir
<1>25. ASSUME NEW g \in Sweeper, Forget(g) PROVE LinksVerified'
  BY <1>25 DEF Forget
<1>26. ASSUME NEW g \in Sweeper, EndPackages(g) PROVE LinksVerified'
  BY <1>26 DEF EndPackages
<1>27. ASSUME NEW g \in Sweeper, LockStore(g) PROVE LinksVerified'
  BY <1>27 DEF LockStore
<1>28. ASSUME NEW g \in Sweeper, SkipBlobs(g) PROVE LinksVerified'
  BY <1>28 DEF SkipBlobs, AfterBlobs
<1>29. ASSUME NEW g \in Sweeper, NEW b \in Blob, FindUnlinked(g, b) PROVE LinksVerified'
  BY <1>29 DEF FindUnlinked
<1>30. ASSUME NEW g \in Sweeper, DropBlob(g) PROVE LinksVerified'
  <2>1. \A x \in Runner : run[x] # "linking"
    BY <1>30 DEF DropBlob, StoreExcluded, Filling, Collecting
  <2> QED
    BY <1>30, <2>1 DEF DropBlob
<1>31. ASSUME NEW g \in Sweeper, EndCollecting(g) PROVE LinksVerified'
  BY <1>31 DEF EndCollecting, AfterBlobs
<1>32. ASSUME NEW g \in Sweeper, Prune(g) PROVE LinksVerified'
  BY <1>32 DEF Prune
<1>33. ASSUME NEW g \in Sweeper, Rerun(g) PROVE LinksVerified'
  BY <1>33 DEF Rerun
<1>34. ASSUME NEW g \in Sweeper, KillSweeper(g) PROVE LinksVerified'
  BY <1>34 DEF KillSweeper
<1>35. ASSUME NEW p \in Pkg, Age(p) PROVE LinksVerified'
  BY <1>35 DEF Age
<1>36. CASE UNCHANGED cacheVars
  BY <1>36 DEF cacheVars
<1> QED
  BY <1>1, <1>2, <1>3, <1>4, <1>5, <1>6, <1>7, <1>8, <1>9, <1>10, <1>11, <1>12,
    <1>13, <1>14, <1>15, <1>16, <1>17, <1>18, <1>19, <1>20, <1>21, <1>22,
    <1>23, <1>24, <1>25, <1>26, <1>27, <1>28, <1>29, <1>30, <1>31, <1>32,
    <1>33, <1>34, <1>35, <1>36 DEF PCNext, RunStep, SweepStep

-----------------------------------------------------------------------------
\* The invariant holds before anybody launches.
LEMMA Initially == PCInit => IInv
<1> SUFFICES ASSUME PCInit PROVE IInv
  OBVIOUS
<1> USE PackageCacheAssumption DEF PCInit
<1>1. /\ run = [l \in Runner |-> "start"] /\ gc = [g \in Sweeper |-> "begin"]
      /\ claim = [g \in Sweeper |-> FALSE] /\ ready = {} /\ lockFile = {}
      /\ present = Legacy
  OBVIOUS
<1>2. PCTypeOK
  <2>1. claim \in [Sweeper -> BOOLEAN]
    OBVIOUS
  <2>2. \A p \in Pkg : mutex[p] = NoOne
    OBVIOUS
  <2>3. /\ run \in [Runner -> RunPhase] /\ blob \in [Runner -> Blob \cup {NoOne}]
        /\ lockFile \subseteq Pkg /\ present \subseteq Pkg /\ ready \subseteq Pkg
        /\ mutex \in [Pkg -> Runner \cup {NoOne}]
        /\ tree \in [Pkg -> SUBSET (Blob \cup {EmptyDir})]
        /\ scratch \in [Pkg -> SUBSET (Blob \cup {EmptyDir})]
    BY DEF RunPhase
  <2>4. /\ cas \in [Blob -> {"none", "good", "bad"}]
        /\ meta \in [Pkg -> {"none", "fresh", "old"}]
        /\ kind \in [Sweeper -> Kinds] /\ gc \in [Sweeper -> SweepPhase]
        /\ todo \in [Sweeper -> SUBSET Pkg]
        /\ gcPkg \in [Sweeper -> Pkg \cup {NoOne}]
        /\ gcBlob \in [Sweeper -> Blob \cup {NoOne}] /\ kills \in 0..MaxKills
    BY DEF SweepPhase
  <2> QED
    BY <2>1, <2>2, <2>3, <2>4 DEF PCTypeOK
<1>3. LockedFiles
  BY <1>1 DEF LockedFiles, UnderProtocol
<1>4. ClaimsExclude /\ OneExtracts
  BY <1>1 DEF ClaimsExclude, Removes, OneExtracts, Extracting
<1>5. StoreExcluded /\ LinksVerified
  BY <1>1 DEF StoreExcluded, Filling, LinksVerified
<1>6. Progress /\ MarkedIsWhole
  BY <1>1 DEF Progress, MarkedIsWhole
<1> QED
  BY <1>2, <1>3, <1>4, <1>5, <1>6 DEF IInv

\* It is kept by every step.
LEMMA Inductive == IInv /\ [PCNext]_cacheVars => IInv'
<1> QED
  BY TypesStep, LockedFilesStep, ClaimsExcludeStep, OneExtractsStep, StoreExcludedStep,
     ProgressStep, MarkedIsWholeStep, LinksVerifiedStep DEF IInv

\* The invariant holds throughout.
LEMMA Invariance == PCSpec => []IInv
<1> QED
  BY Initially, Inductive, PTL DEF PCSpec

-----------------------------------------------------------------------------
\* Every variable keeps its type, and an extraction lock is held by a launch that
\* extracts the package it is of.
THEOREM TypesHold == PCSpec => []PCTypeOK
<1>1. IInv => PCTypeOK
  BY DEF IInv
<1> QED
  BY <1>1, Invariance, PTL

\* A running application finds every file of its package.
THEOREM RunsWhole == PCSpec => []RunsWholeFiles
<1>1. IInv => RunsWholeFiles
  BY DEF IInv, Progress, RunsWholeFiles, UnderProtocol
<1> QED
  BY <1>1, Invariance, PTL

\* A marked package is whole.
THEOREM MarkersVouch == PCSpec => []MarkedIsWhole
<1>1. IInv => MarkedIsWhole
  BY DEF IInv
<1> QED
  BY <1>1, Invariance, PTL

\* A blob that is about to be linked is in its slot and verified.
THEOREM VerifiedIsLinked == PCSpec => []LinksVerified
<1>1. IInv => LinksVerified
  BY DEF IInv
<1> QED
  BY <1>1, Invariance, PTL
=============================================================================
