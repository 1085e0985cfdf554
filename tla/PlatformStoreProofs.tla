-------------------------- MODULE PlatformStoreProofs --------------------------
(***************************************************************************)
(* Theorems about PlatformStore, for any acquirers, bundler runs, process  *)
(* ids, directories and kills.                                             *)
(*                                                                         *)
(* The label's lock lets one acquirer stage at a time (Guarded), so the    *)
(* scratch it removes before it makes its own is nobody's who lives; and   *)
(* nothing leads to a file before it is verified (Unshown, Verified).      *)
(***************************************************************************)
EXTENDS PlatformStore, FiniteSetTheorems, TLAPS

\* The label's lock is held by whom it protects, and nobody stages without the
\* directory it pinned.
Guarded ==
  \A a \in Acquirer :
    /\ lockUser = a <=> acq[a] \in UnderLock
    /\ acq[a] \in UnderLock \ {"rechecking", "pinning"} => pinned[a] # 0

\* A file is filled and verified before anything leads to it.
Shown(i) == named = i \/ \E a \in Acquirer : handle[a] = i

Unshown ==
  /\ \A a \in Acquirer :
       /\ acq[a] \in Searching \cup {"rechecking", "pinning"} =>
            \A w \in Way : ~Shown(<<a, w>>)
       /\ way[a] = "import" => ~Shown(<<a, "fetch">>)
       /\ acq[a] \in {"creating", "filling", "checking", "publishing"} => ~Shown(Own(a))
  /\ \A b \in Builder :
       builder[b] \notin {"served", "failed", "killed"} => ~Shown(<<b, "fetch">>)

Verified ==
  /\ named \notin {NoInode, <<Nothing, "old">>} => data[named] = "good"
  /\ \A a \in Acquirer :
       /\ handle[a] # NoInode => data[handle[a]] = "good"
       /\ acq[a] = "served" => handle[a] # NoInode
       /\ acq[a] \in {"publishing", "comparing"} => data[Own(a)] = "good"
  /\ \A b \in Builder : builder[b] = "publishing" => data[<<b, "fetch">>] = "good"

\* Nobody but the acquirers touches the name.
Calm == collector \in {"idle", "listed"} /\ \A b \in Builder : builder[b] # "served"
ServedOwn(a) == acq[a] = "served" /\ handle[a] = Own(a)

\* Then the first to publish is what everybody after it finds.
First ==
  Calm => \A a \in Acquirer :
    /\ ServedOwn(a) => named = Own(a)
    /\ acq[a] \in UnderLock \ {"rechecking"} => \A x \in Acquirer : ~ServedOwn(x)
    /\ acq[a] = "comparing" => named = Own(a) /\ Here(a)

\* The inductive invariant.
IInv == PFTypeOK /\ Guarded /\ Unshown /\ Verified /\ StagedIsOwn /\ First

-----------------------------------------------------------------------------
\* Every step keeps the types.
LEMMA TypesStep ==
  PFTypeOK /\ [PFNext]_platformVars => PFTypeOK'
<1> SUFFICES ASSUME PFTypeOK, [PFNext]_platformVars PROVE PFTypeOK'
  OBVIOUS
<1> USE PlatformAssumption DEF PFTypeOK, AcqPhase, BuilderPhase, Searching,
    UnderLock, To, BTo, Loss, Way
<1>1. ASSUME NEW a \in Acquirer, Look(a) PROVE PFTypeOK'
  BY <1>1 DEF Look, Good, lockVars, labelVars, bundleVars
<1>2. ASSUME NEW a \in Acquirer, MakeStoreDirs(a) PROVE PFTypeOK'
  BY <1>2 DEF MakeStoreDirs, MakeDir, labelVars, lockVars, bundleVars
<1>3. ASSUME NEW a \in Acquirer, LockLabel(a) PROVE PFTypeOK'
  BY <1>3 DEF LockLabel, LabelFree, labelVars, bundleVars
<1>4. ASSUME NEW a \in Acquirer, NoStoreToLock(a) PROVE PFTypeOK'
  BY <1>4 DEF NoStoreToLock, lockVars, labelVars, bundleVars
<1>5. ASSUME NEW a \in Acquirer, Recheck(a) PROVE PFTypeOK'
  BY <1>5 DEF Recheck, FoundAfterWait, Good, GiveUpLock, labelVars, bundleVars
<1>6. ASSUME NEW a \in Acquirer, PinLabel(a) PROVE PFTypeOK'
  BY <1>6 DEF PinLabel, GiveUpLock, labelVars, bundleVars
<1>7. ASSUME NEW a \in Acquirer, CreateScratch(a) PROVE PFTypeOK'
  <2>1. Own(a) \in Inode
    BY DEF Inode, Own
  <2> QED
    BY <1>7, <2>1 DEF CreateScratch, lockVars, labelVars, bundleVars
<1>8. ASSUME NEW a \in Acquirer, UnlinkLeftScratch(a) PROVE PFTypeOK'
  BY <1>8 DEF UnlinkLeftScratch, Here, acquirerVars, lockVars, labelVars,
    bundleVars
<1>9. ASSUME NEW a \in Acquirer, CannotStage(a) PROVE PFTypeOK'
  BY <1>9 DEF CannotStage, Here, NextWay, GiveUpLock, labelVars, bundleVars
<1>10. ASSUME NEW a \in Acquirer, Fill(a) PROVE PFTypeOK'
  BY <1>10 DEF Fill, Own, lockVars, labelVars, bundleVars
<1>11. ASSUME NEW a \in Acquirer, FillFails(a) PROVE PFTypeOK'
  BY <1>11 DEF FillFails, Unstaged, Here, NextWay, GiveUpLock, labelVars,
    bundleVars
<1>12. ASSUME NEW a \in Acquirer, CheckDigest(a) PROVE PFTypeOK'
  BY <1>12 DEF CheckDigest, Passes, Own, Unstaged, Here, NextWay, GiveUpLock,
    labelVars, bundleVars
<1>13. ASSUME NEW a \in Acquirer, Rename(a) PROVE PFTypeOK'
  BY <1>13 DEF Rename, Here, lockVars, labelVars, bundleVars
<1>14. ASSUME NEW a \in Acquirer, RenameFails(a) PROVE PFTypeOK'
  BY <1>14 DEF RenameFails, Unstaged, Here, NextWay, GiveUpLock, labelVars,
    bundleVars
<1>15. ASSUME NEW a \in Acquirer, Compare(a) PROVE PFTypeOK'
  BY <1>15 DEF Compare, NamedHere, Here, Own, GiveUpLock, Unstaged, NextWay,
    labelVars, bundleVars
<1>16. ASSUME NEW a \in Acquirer, KillAcquirer(a) PROVE PFTypeOK'
  BY <1>16 DEF KillAcquirer, GiveUpLock, labelVars, bundleVars
<1>17. ASSUME NEW b \in Builder, BuilderLooks(b) PROVE PFTypeOK'
  BY <1>17 DEF BuilderLooks, Good, acquirerVars, lockVars, labelVars
<1>18. ASSUME NEW b \in Builder, BuilderMakesDirs(b) PROVE PFTypeOK'
  BY <1>18 DEF BuilderMakesDirs, MakeDir, labelVars, acquirerVars, lockVars
<1>19. ASSUME NEW b \in Builder, BuilderStarts(b) PROVE PFTypeOK'
  BY <1>19 DEF BuilderStarts, acquirerVars, lockVars, labelVars
<1>20. ASSUME NEW b \in Builder, BuilderLoads(b) PROVE PFTypeOK'
  BY <1>20 DEF BuilderLoads, acquirerVars, lockVars, labelVars
<1>21. ASSUME NEW b \in Builder, BuilderChecks(b) PROVE PFTypeOK'
  BY <1>21 DEF BuilderChecks, acquirerVars, lockVars, labelVars
<1>22. ASSUME NEW b \in Builder, BuilderPublishes(b) PROVE PFTypeOK'
  <2>1. <<b, "fetch">> \in Inode
    BY DEF Inode
  <2> QED
    BY <1>22, <2>1 DEF BuilderPublishes, acquirerVars, lockVars, labelVars
<1>23. ASSUME NEW b \in Builder, KillBuilder(b) PROVE PFTypeOK'
  BY <1>23 DEF KillBuilder, acquirerVars, lockVars, labelVars
<1>24. ASSUME ListBuilds PROVE PFTypeOK'
  BY <1>24 DEF ListBuilds, acquirerVars, lockVars, labelVars, bundleVars
<1>25. ASSUME RemoveBuild PROVE PFTypeOK'
  BY <1>25 DEF RemoveBuild, acquirerVars, lockVars, labelVars, bundleVars
<1>26. ASSUME RemoveLabelDir PROVE PFTypeOK'
  BY <1>26 DEF RemoveLabelDir, LabelEmpty, acquirerVars, lockVars, bundleVars
<1>27. CASE UNCHANGED platformVars
  BY <1>27 DEF platformVars, acquirerVars, lockVars, labelVars, bundleVars
<1> QED
  BY <1>1, <1>2, <1>3, <1>4, <1>5, <1>6, <1>7, <1>8, <1>9, <1>10, <1>11, <1>12,
    <1>13, <1>14, <1>15, <1>16, <1>17, <1>18, <1>19, <1>20, <1>21, <1>22,
    <1>23, <1>24, <1>25, <1>26, <1>27 DEF PFNext, AcquirerStep, BuilderStep

\* The lock is given up with the last step that needs it.
LEMMA GuardedStep ==
  PFTypeOK /\ Guarded /\ [PFNext]_platformVars => Guarded'
<1> SUFFICES ASSUME PFTypeOK /\ Guarded, [PFNext]_platformVars PROVE Guarded'
  OBVIOUS
<1>a. /\ acq \in [Acquirer -> AcqPhase]
      /\ lockUser \in Acquirer \cup {Nothing}
      /\ pinned \in [Acquirer -> Nat]
      /\ dir \in Nat /\ dirs \in Nat
      /\ Nothing \notin Acquirer
  BY PlatformAssumption DEF PFTypeOK, Inode, NoInode, Way, Own
<1> USE <1>a DEF Own, Way, To, GiveUpLock, NextWay, Here, Searching, UnderLock,
    BTo, Loss, acquirerVars, lockVars, labelVars, bundleVars, Guarded
<1>1. ASSUME NEW a \in Acquirer, Look(a) PROVE Guarded'
  BY <1>1 DEF Look, Good
<1>2. ASSUME NEW a \in Acquirer, MakeStoreDirs(a) PROVE Guarded'
  BY <1>2 DEF MakeStoreDirs, MakeDir
<1>3. ASSUME NEW a \in Acquirer, LockLabel(a) PROVE Guarded'
  BY <1>3 DEF LockLabel, LabelFree
<1>4. ASSUME NEW a \in Acquirer, NoStoreToLock(a) PROVE Guarded'
  BY <1>4 DEF NoStoreToLock
<1>5. ASSUME NEW a \in Acquirer, Recheck(a) PROVE Guarded'
  BY <1>5 DEF Recheck, FoundAfterWait, Good
<1>6. ASSUME NEW a \in Acquirer, PinLabel(a) PROVE Guarded'
  BY <1>6 DEF PinLabel
<1>7. ASSUME NEW a \in Acquirer, CreateScratch(a) PROVE Guarded'
  BY <1>7 DEF CreateScratch
<1>8. ASSUME NEW a \in Acquirer, UnlinkLeftScratch(a) PROVE Guarded'
  BY <1>8 DEF UnlinkLeftScratch
<1>9. ASSUME NEW a \in Acquirer, CannotStage(a) PROVE Guarded'
  BY <1>9 DEF CannotStage
<1>10. ASSUME NEW a \in Acquirer, Fill(a) PROVE Guarded'
  BY <1>10 DEF Fill
<1>11. ASSUME NEW a \in Acquirer, FillFails(a) PROVE Guarded'
  BY <1>11 DEF FillFails, Unstaged
<1>12. ASSUME NEW a \in Acquirer, CheckDigest(a) PROVE Guarded'
  BY <1>12 DEF CheckDigest, Passes, Unstaged
<1>13. ASSUME NEW a \in Acquirer, Rename(a) PROVE Guarded'
  BY <1>13 DEF Rename
<1>14. ASSUME NEW a \in Acquirer, RenameFails(a) PROVE Guarded'
  BY <1>14 DEF RenameFails, Unstaged
<1>15. ASSUME NEW a \in Acquirer, Compare(a) PROVE Guarded'
  BY <1>15 DEF Compare, NamedHere, Unstaged
<1>16. ASSUME NEW a \in Acquirer, KillAcquirer(a) PROVE Guarded'
  BY <1>16 DEF KillAcquirer
<1>17. ASSUME NEW b \in Builder, BuilderLooks(b) PROVE Guarded'
  BY <1>17 DEF BuilderLooks, Good
<1>18. ASSUME NEW b \in Builder, BuilderMakesDirs(b) PROVE Guarded'
  BY <1>18 DEF BuilderMakesDirs, MakeDir
<1>19. ASSUME NEW b \in Builder, BuilderStarts(b) PROVE Guarded'
  BY <1>19 DEF BuilderStarts
<1>20. ASSUME NEW b \in Builder, BuilderLoads(b) PROVE Guarded'
  BY <1>20 DEF BuilderLoads
<1>21. ASSUME NEW b \in Builder, BuilderChecks(b) PROVE Guarded'
  BY <1>21 DEF BuilderChecks
<1>22. ASSUME NEW b \in Builder, BuilderPublishes(b) PROVE Guarded'
  BY <1>22 DEF BuilderPublishes
<1>23. ASSUME NEW b \in Builder, KillBuilder(b) PROVE Guarded'
  BY <1>23 DEF KillBuilder
<1>24. ASSUME ListBuilds PROVE Guarded'
  BY <1>24 DEF ListBuilds
<1>25. ASSUME RemoveBuild PROVE Guarded'
  BY <1>25 DEF RemoveBuild
<1>26. ASSUME RemoveLabelDir PROVE Guarded'
  BY <1>26 DEF RemoveLabelDir, LabelEmpty
<1>27. CASE UNCHANGED platformVars
  BY <1>27 DEF platformVars
<1> QED
  BY <1>1, <1>2, <1>3, <1>4, <1>5, <1>6, <1>7, <1>8, <1>9, <1>10, <1>11, <1>12,
    <1>13, <1>14, <1>15, <1>16, <1>17, <1>18, <1>19, <1>20, <1>21, <1>22,
    <1>23, <1>24, <1>25, <1>26, <1>27 DEF PFNext, AcquirerStep, BuilderStep

\* A file is shown by its own rename first, and served by its name.
LEMMA UnshownStep ==
  PFTypeOK /\ Unshown /\ StagedIsOwn /\ [PFNext]_platformVars => Unshown'
<1> SUFFICES ASSUME PFTypeOK /\ Unshown /\ StagedIsOwn, [PFNext]_platformVars PROVE Unshown'
  OBVIOUS
<1>a. /\ acq \in [Acquirer -> AcqPhase]
      /\ way \in [Acquirer -> Way]
      /\ handle \in [Acquirer -> Inode \cup {NoInode}]
      /\ builder \in [Builder -> BuilderPhase]
      /\ \A i \in Acquirer, w \in Way :
           <<i, w>> \in Inode /\ <<i, w>> # NoInode /\ <<i, w>> # <<Nothing, "old">>
      /\ \A i \in Builder :
           <<i, "fetch">> \in Inode /\ <<i, "fetch">> # NoInode /\ <<i, "fetch">> # <<Nothing, "old">>
      /\ \A i \in Acquirer, j \in Builder, w \in Way : <<i, w>> # <<j, "fetch">>
  BY PlatformAssumption DEF PFTypeOK, Inode, NoInode, Way, Own
<1> USE <1>a DEF Own, Way, To, GiveUpLock, NextWay, Here, Searching, UnderLock,
    BTo, Loss, acquirerVars, lockVars, labelVars, bundleVars, Unshown, Shown
<1>1. ASSUME NEW a \in Acquirer, Look(a) PROVE Unshown'
  BY <1>1, ZenonT(60) DEF Look, Good
<1>2. ASSUME NEW a \in Acquirer, MakeStoreDirs(a) PROVE Unshown'
  BY <1>2 DEF MakeStoreDirs, MakeDir
<1>3. ASSUME NEW a \in Acquirer, LockLabel(a) PROVE Unshown'
  BY <1>3 DEF LockLabel, LabelFree
<1>4. ASSUME NEW a \in Acquirer, NoStoreToLock(a) PROVE Unshown'
  BY <1>4 DEF NoStoreToLock
<1>5. ASSUME NEW a \in Acquirer, Recheck(a) PROVE Unshown'
  BY <1>5, ZenonT(60) DEF Recheck, FoundAfterWait, Good
<1>6. ASSUME NEW a \in Acquirer, PinLabel(a) PROVE Unshown'
  BY <1>6 DEF PinLabel
<1>7. ASSUME NEW a \in Acquirer, CreateScratch(a) PROVE Unshown'
  BY <1>7 DEF CreateScratch
<1>8. ASSUME NEW a \in Acquirer, UnlinkLeftScratch(a) PROVE Unshown'
  BY <1>8 DEF UnlinkLeftScratch
<1>9. ASSUME NEW a \in Acquirer, CannotStage(a) PROVE Unshown'
  BY <1>9 DEF CannotStage
<1>10. ASSUME NEW a \in Acquirer, Fill(a) PROVE Unshown'
  BY <1>10 DEF Fill
<1>11. ASSUME NEW a \in Acquirer, FillFails(a) PROVE Unshown'
  BY <1>11 DEF FillFails, Unstaged
<1>12. ASSUME NEW a \in Acquirer, CheckDigest(a) PROVE Unshown'
  BY <1>12 DEF CheckDigest, Passes, Unstaged
<1>13. ASSUME NEW a \in Acquirer, Rename(a) PROVE Unshown'
  BY <1>13 DEF Rename, StagedIsOwn
<1>14. ASSUME NEW a \in Acquirer, RenameFails(a) PROVE Unshown'
  BY <1>14 DEF RenameFails, Unstaged
<1>15. ASSUME NEW a \in Acquirer, Compare(a) PROVE Unshown'
  <2>1. CASE To(a, "served") /\ UNCHANGED <<way, named>>
    BY <1>15, <2>1 DEF Compare
  <2>2. CASE named' \in {named, NoInode} /\ NextWay(a) /\ UNCHANGED handle
    <3>1. acq[a] = "comparing" /\ UNCHANGED builder
      BY <1>15 DEF Compare
    <3>2. /\ acq'[a] \in {"creating", "failed"} /\ \A x \in Acquirer : x # a => acq'[x] = acq[x] /\ way'[x] = way[x]
          /\ \/ way[a] = "import" /\ way'[a] = "fetch"
             \/ way'[a] = way[a] /\ acq'[a] = "failed"
      BY <2>2
    <3>3. \A i \in Inode : Shown(i)' => Shown(i)
      <4>1. \A i \in Inode : i # NoInode
        BY PlatformAssumption DEF Inode, NoInode
      <4> QED
        BY <2>2, <4>1
    <3> HIDE DEF NextWay, Shown
    <3> QED
      BY <3>1, <3>2, <3>3
  <2> QED
    BY <1>15, <2>1, <2>2 DEF Compare, NamedHere
<1>16. ASSUME NEW a \in Acquirer, KillAcquirer(a) PROVE Unshown'
  BY <1>16 DEF KillAcquirer
<1>17. ASSUME NEW b \in Builder, BuilderLooks(b) PROVE Unshown'
  BY <1>17 DEF BuilderLooks, Good
<1>18. ASSUME NEW b \in Builder, BuilderMakesDirs(b) PROVE Unshown'
  BY <1>18 DEF BuilderMakesDirs, MakeDir
<1>19. ASSUME NEW b \in Builder, BuilderStarts(b) PROVE Unshown'
  BY <1>19 DEF BuilderStarts
<1>20. ASSUME NEW b \in Builder, BuilderLoads(b) PROVE Unshown'
  BY <1>20 DEF BuilderLoads
<1>21. ASSUME NEW b \in Builder, BuilderChecks(b) PROVE Unshown'
  BY <1>21 DEF BuilderChecks
<1>22. ASSUME NEW b \in Builder, BuilderPublishes(b) PROVE Unshown'
  BY <1>22 DEF BuilderPublishes
<1>23. ASSUME NEW b \in Builder, KillBuilder(b) PROVE Unshown'
  BY <1>23 DEF KillBuilder
<1>24. ASSUME ListBuilds PROVE Unshown'
  BY <1>24 DEF ListBuilds
<1>25. ASSUME RemoveBuild PROVE Unshown'
  BY <1>25 DEF RemoveBuild
<1>26. ASSUME RemoveLabelDir PROVE Unshown'
  BY <1>26 DEF RemoveLabelDir, LabelEmpty
<1>27. CASE UNCHANGED platformVars
  BY <1>27 DEF platformVars
<1> QED
  BY <1>1, <1>2, <1>3, <1>4, <1>5, <1>6, <1>7, <1>8, <1>9, <1>10, <1>11, <1>12,
    <1>13, <1>14, <1>15, <1>16, <1>17, <1>18, <1>19, <1>20, <1>21, <1>22,
    <1>23, <1>24, <1>25, <1>26, <1>27 DEF PFNext, AcquirerStep, BuilderStep

\* What is shown has been verified, and is not written any more.
LEMMA VerifiedStep ==
  PFTypeOK /\ Unshown /\ Verified /\ StagedIsOwn /\ [PFNext]_platformVars => Verified'
<1> SUFFICES ASSUME PFTypeOK /\ Unshown /\ Verified /\ StagedIsOwn, [PFNext]_platformVars PROVE Verified'
  OBVIOUS
<1>a. /\ \A i \in Acquirer, j \in Builder, w \in Way : <<i, w>> # <<j, "fetch">>
      /\ acq \in [Acquirer -> AcqPhase]
      /\ way \in [Acquirer -> Way]
      /\ handle \in [Acquirer -> Inode \cup {NoInode}]
      /\ data \in [Inode -> {"empty", "good", "bad"}]
      /\ named \in Inode \cup {NoInode}
      /\ builder \in [Builder -> BuilderPhase]
      /\ \A i \in Acquirer, w \in Way :
           <<i, w>> \in Inode /\ <<i, w>> # NoInode /\ <<i, w>> # <<Nothing, "old">>
      /\ \A i \in Builder :
           <<i, "fetch">> \in Inode /\ <<i, "fetch">> # NoInode /\ <<i, "fetch">> # <<Nothing, "old">>
      /\ \A i \in Acquirer : Own(i) \in Inode /\ Own(i) # NoInode /\ Own(i) # <<Nothing, "old">>
  BY PlatformAssumption DEF PFTypeOK, Inode, NoInode, Way, Own
<1> USE <1>a DEF Own, Way, To, GiveUpLock, NextWay, Here, Searching, UnderLock,
    BTo, Loss, acquirerVars, lockVars, labelVars, bundleVars, Verified
<1>1. ASSUME NEW a \in Acquirer, Look(a) PROVE Verified'
  BY <1>1 DEF Look, Good
<1>2. ASSUME NEW a \in Acquirer, MakeStoreDirs(a) PROVE Verified'
  BY <1>2 DEF MakeStoreDirs, MakeDir
<1>3. ASSUME NEW a \in Acquirer, LockLabel(a) PROVE Verified'
  BY <1>3 DEF LockLabel, LabelFree
<1>4. ASSUME NEW a \in Acquirer, NoStoreToLock(a) PROVE Verified'
  BY <1>4 DEF NoStoreToLock
<1>5. ASSUME NEW a \in Acquirer, Recheck(a) PROVE Verified'
  BY <1>5 DEF Recheck, FoundAfterWait, Good
<1>6. ASSUME NEW a \in Acquirer, PinLabel(a) PROVE Verified'
  BY <1>6, ZenonT(60) DEF PinLabel
<1>7. ASSUME NEW a \in Acquirer, CreateScratch(a) PROVE Verified'
  BY <1>7 DEF CreateScratch
<1>8. ASSUME NEW a \in Acquirer, UnlinkLeftScratch(a) PROVE Verified'
  BY <1>8 DEF UnlinkLeftScratch
<1>9. ASSUME NEW a \in Acquirer, CannotStage(a) PROVE Verified'
  BY <1>9, ZenonT(60) DEF CannotStage
<1>10. ASSUME NEW a \in Acquirer, Fill(a) PROVE Verified'
  <2>1. ~Shown(Own(a)) /\ Own(a) \in Inode
    BY <1>10 DEF Fill, Unshown
  <2>2. /\ \A i \in Inode : i # Own(a) => data'[i] = data[i]
        /\ acq'[a] = "checking" /\ \A x \in Acquirer : x # a => acq'[x] = acq[x]
        /\ UNCHANGED <<way, handle, named, builder>>
    BY <1>10 DEF Fill
  <2>3. \A x \in Acquirer : x # a => Own(x) # Own(a)
    OBVIOUS
  <2> QED
    BY <2>1, <2>2, <2>3 DEF Shown
<1>11. ASSUME NEW a \in Acquirer, FillFails(a) PROVE Verified'
  BY <1>11, ZenonT(60) DEF FillFails, Unstaged
<1>12. ASSUME NEW a \in Acquirer, CheckDigest(a) PROVE Verified'
  BY <1>12 DEF CheckDigest, Passes, Unstaged
<1>13. ASSUME NEW a \in Acquirer, Rename(a) PROVE Verified'
  BY <1>13 DEF Rename, StagedIsOwn
<1>14. ASSUME NEW a \in Acquirer, RenameFails(a) PROVE Verified'
  BY <1>14, ZenonT(60) DEF RenameFails, Unstaged
<1>15. ASSUME NEW a \in Acquirer, Compare(a) PROVE Verified'
  BY <1>15, ZenonT(60) DEF Compare, NamedHere, Unstaged
<1>16. ASSUME NEW a \in Acquirer, KillAcquirer(a) PROVE Verified'
  BY <1>16 DEF KillAcquirer
<1>17. ASSUME NEW b \in Builder, BuilderLooks(b) PROVE Verified'
  BY <1>17 DEF BuilderLooks, Good
<1>18. ASSUME NEW b \in Builder, BuilderMakesDirs(b) PROVE Verified'
  BY <1>18 DEF BuilderMakesDirs, MakeDir
<1>19. ASSUME NEW b \in Builder, BuilderStarts(b) PROVE Verified'
  BY <1>19 DEF BuilderStarts
<1>20. ASSUME NEW b \in Builder, BuilderLoads(b) PROVE Verified'
  <2>1. ~Shown(<<b, "fetch">>) /\ <<b, "fetch">> \in Inode
    BY <1>20 DEF BuilderLoads, Unshown
  <2>2. /\ \A i \in Inode : i # <<b, "fetch">> => data'[i] = data[i]
        /\ builder'[b] = "checking" /\ \A x \in Builder : x # b => builder'[x] = builder[x]
        /\ UNCHANGED <<acq, way, handle, named>>
    BY <1>20 DEF BuilderLoads
  <2>3. \A x \in Acquirer : Own(x) # <<b, "fetch">>
    OBVIOUS
  <2> QED
    BY <2>1, <2>2, <2>3 DEF Shown
<1>21. ASSUME NEW b \in Builder, BuilderChecks(b) PROVE Verified'
  BY <1>21 DEF BuilderChecks
<1>22. ASSUME NEW b \in Builder, BuilderPublishes(b) PROVE Verified'
  BY <1>22 DEF BuilderPublishes
<1>23. ASSUME NEW b \in Builder, KillBuilder(b) PROVE Verified'
  BY <1>23 DEF KillBuilder
<1>24. ASSUME ListBuilds PROVE Verified'
  BY <1>24 DEF ListBuilds
<1>25. ASSUME RemoveBuild PROVE Verified'
  BY <1>25 DEF RemoveBuild
<1>26. ASSUME RemoveLabelDir PROVE Verified'
  BY <1>26 DEF RemoveLabelDir, LabelEmpty
<1>27. CASE UNCHANGED platformVars
  BY <1>27 DEF platformVars
<1> QED
  BY <1>1, <1>2, <1>3, <1>4, <1>5, <1>6, <1>7, <1>8, <1>9, <1>10, <1>11, <1>12,
    <1>13, <1>14, <1>15, <1>16, <1>17, <1>18, <1>19, <1>20, <1>21, <1>22,
    <1>23, <1>24, <1>25, <1>26, <1>27 DEF PFNext, AcquirerStep, BuilderStep

\* Nobody else stages, and a directory with a scratch in it stays.
LEMMA StagedIsOwnStep ==
  PFTypeOK /\ Guarded /\ StagedIsOwn /\ [PFNext]_platformVars => StagedIsOwn'
<1> SUFFICES ASSUME PFTypeOK /\ Guarded /\ StagedIsOwn, [PFNext]_platformVars PROVE StagedIsOwn'
  OBVIOUS
<1>a. /\ acq \in [Acquirer -> AcqPhase]
      /\ \A i \in Acquirer, w \in Way :
           <<i, w>> \in Inode /\ <<i, w>> # NoInode /\ <<i, w>> # <<Nothing, "old">>
      /\ Nothing \notin Acquirer
      /\ way \in [Acquirer -> Way]
      /\ pid \in [Acquirer -> Pid]
      /\ spool \in [Pid -> Inode \cup {NoInode}]
      /\ pinned \in [Acquirer -> Nat]
      /\ dir \in Nat /\ dirs \in Nat
      /\ \A i \in Acquirer : Own(i) \in Inode /\ Own(i) # NoInode /\ Own(i) # <<Nothing, "old">>
  BY PlatformAssumption DEF PFTypeOK, Inode, NoInode, Way, Own
<1> USE <1>a DEF Own, Way, To, GiveUpLock, NextWay, Here, Searching, UnderLock,
    BTo, Loss, acquirerVars, lockVars, labelVars, bundleVars, StagedIsOwn
<1>1. ASSUME NEW a \in Acquirer, Look(a) PROVE StagedIsOwn'
  BY <1>1 DEF Look, Good
<1>2. ASSUME NEW a \in Acquirer, MakeStoreDirs(a) PROVE StagedIsOwn'
  BY <1>2 DEF MakeStoreDirs, MakeDir, Guarded
<1>3. ASSUME NEW a \in Acquirer, LockLabel(a) PROVE StagedIsOwn'
  BY <1>3 DEF LockLabel, LabelFree
<1>4. ASSUME NEW a \in Acquirer, NoStoreToLock(a) PROVE StagedIsOwn'
  BY <1>4 DEF NoStoreToLock
<1>5. ASSUME NEW a \in Acquirer, Recheck(a) PROVE StagedIsOwn'
  BY <1>5 DEF Recheck, FoundAfterWait, Good
<1>6. ASSUME NEW a \in Acquirer, PinLabel(a) PROVE StagedIsOwn'
  BY <1>6 DEF PinLabel
<1>7. ASSUME NEW a \in Acquirer, CreateScratch(a) PROVE StagedIsOwn'
  BY <1>7 DEF CreateScratch
<1>8. ASSUME NEW a \in Acquirer, UnlinkLeftScratch(a) PROVE StagedIsOwn'
  BY <1>8 DEF UnlinkLeftScratch, Guarded
<1>9. ASSUME NEW a \in Acquirer, CannotStage(a) PROVE StagedIsOwn'
  BY <1>9 DEF CannotStage
<1>10. ASSUME NEW a \in Acquirer, Fill(a) PROVE StagedIsOwn'
  BY <1>10 DEF Fill
<1>11. ASSUME NEW a \in Acquirer, FillFails(a) PROVE StagedIsOwn'
  BY <1>11 DEF FillFails, Unstaged
<1>12. ASSUME NEW a \in Acquirer, CheckDigest(a) PROVE StagedIsOwn'
  BY <1>12 DEF CheckDigest, Passes, Unstaged
<1>13. ASSUME NEW a \in Acquirer, Rename(a) PROVE StagedIsOwn'
  BY <1>13 DEF Rename
<1>14. ASSUME NEW a \in Acquirer, RenameFails(a) PROVE StagedIsOwn'
  BY <1>14 DEF RenameFails, Unstaged
<1>15. ASSUME NEW a \in Acquirer, Compare(a) PROVE StagedIsOwn'
  <2>1. \A x \in Acquirer : acq[x] \notin {"filling", "checking", "publishing"}
    BY <1>15 DEF Compare, Guarded
  <2>2. \A x \in Acquirer : acq'[x] \notin {"filling", "checking", "publishing"}
    BY <1>15, <2>1 DEF Compare
  <2> QED
    BY <2>2
<1>16. ASSUME NEW a \in Acquirer, KillAcquirer(a) PROVE StagedIsOwn'
  BY <1>16 DEF KillAcquirer
<1>17. ASSUME NEW b \in Builder, BuilderLooks(b) PROVE StagedIsOwn'
  BY <1>17 DEF BuilderLooks, Good
<1>18. ASSUME NEW b \in Builder, BuilderMakesDirs(b) PROVE StagedIsOwn'
  BY <1>18 DEF BuilderMakesDirs, MakeDir, Guarded
<1>19. ASSUME NEW b \in Builder, BuilderStarts(b) PROVE StagedIsOwn'
  BY <1>19 DEF BuilderStarts
<1>20. ASSUME NEW b \in Builder, BuilderLoads(b) PROVE StagedIsOwn'
  BY <1>20 DEF BuilderLoads
<1>21. ASSUME NEW b \in Builder, BuilderChecks(b) PROVE StagedIsOwn'
  BY <1>21 DEF BuilderChecks
<1>22. ASSUME NEW b \in Builder, BuilderPublishes(b) PROVE StagedIsOwn'
  BY <1>22 DEF BuilderPublishes
<1>23. ASSUME NEW b \in Builder, KillBuilder(b) PROVE StagedIsOwn'
  BY <1>23 DEF KillBuilder
<1>24. ASSUME ListBuilds PROVE StagedIsOwn'
  BY <1>24 DEF ListBuilds
<1>25. ASSUME RemoveBuild PROVE StagedIsOwn'
  BY <1>25 DEF RemoveBuild
<1>26. ASSUME RemoveLabelDir PROVE StagedIsOwn'
  BY <1>26 DEF RemoveLabelDir, LabelEmpty
<1>27. CASE UNCHANGED platformVars
  BY <1>27 DEF platformVars
<1> QED
  BY <1>1, <1>2, <1>3, <1>4, <1>5, <1>6, <1>7, <1>8, <1>9, <1>10, <1>11, <1>12,
    <1>13, <1>14, <1>15, <1>16, <1>17, <1>18, <1>19, <1>20, <1>21, <1>22,
    <1>23, <1>24, <1>25, <1>26, <1>27 DEF PFNext, AcquirerStep, BuilderStep

\* Whoever waited finds what the first one published.
LEMMA FirstStep ==
  PFTypeOK /\ Guarded /\ Unshown /\ Verified /\ StagedIsOwn /\ First /\ [PFNext]_platformVars => First'
<1> SUFFICES ASSUME PFTypeOK /\ Guarded /\ Unshown /\ Verified /\ StagedIsOwn /\ First, [PFNext]_platformVars PROVE First'
  OBVIOUS
<1>a. /\ acq \in [Acquirer -> AcqPhase]
      /\ pinned \in [Acquirer -> Nat]
      /\ dir \in Nat /\ dirs \in Nat
      /\ Nothing \notin Acquirer
      /\ way \in [Acquirer -> Way]
      /\ handle \in [Acquirer -> Inode \cup {NoInode}]
      /\ named \in Inode \cup {NoInode}
      /\ builder \in [Builder -> BuilderPhase]
      /\ \A i \in Acquirer : Own(i) \in Inode /\ Own(i) # NoInode /\ Own(i) # <<Nothing, "old">>
      /\ \A i \in Acquirer, w \in Way :
           <<i, w>> \in Inode /\ <<i, w>> # NoInode /\ <<i, w>> # <<Nothing, "old">>
  BY PlatformAssumption DEF PFTypeOK, Inode, NoInode, Way, Own
<1> USE <1>a DEF Own, Way, To, GiveUpLock, NextWay, Here, Searching, UnderLock,
    BTo, Loss, acquirerVars, lockVars, labelVars, bundleVars, First, Calm,
    ServedOwn
<1>1. ASSUME NEW a \in Acquirer, Look(a) PROVE First'
  <2>1. named # Own(a) /\ ~ServedOwn(a) /\ acq[a] = "looking"
    BY <1>1 DEF Look, Unshown, Shown
  <2>2. /\ acq'[a] \in {"served", "making", "failed"} /\ (acq'[a] = "served" => handle'[a] = named)
        /\ \A x \in Acquirer : x # a => acq'[x] = acq[x] /\ handle'[x] = handle[x]
        /\ UNCHANGED <<way, named, pinned, dir, builder, collector>>
    BY <1>1 DEF Look
  <2> QED
    BY <2>1, <2>2
<1>2. ASSUME NEW a \in Acquirer, MakeStoreDirs(a) PROVE First'
  BY <1>2 DEF MakeStoreDirs, MakeDir, Guarded
<1>3. ASSUME NEW a \in Acquirer, LockLabel(a) PROVE First'
  BY <1>3 DEF LockLabel, LabelFree
<1>4. ASSUME NEW a \in Acquirer, NoStoreToLock(a) PROVE First'
  BY <1>4 DEF NoStoreToLock
<1>5. ASSUME NEW a \in Acquirer, Recheck(a) PROVE First'
  <2>1. CASE Good(named)
    BY <1>5, <2>1 DEF Recheck, FoundAfterWait, Unshown, Shown
  <2>2. CASE ~Good(named)
    <3>1. Calm => \A x \in Acquirer : ~ServedOwn(x)
      BY <2>2 DEF Verified, Good
    <3> QED
      BY <1>5, <2>2, <3>1 DEF Recheck, FoundAfterWait
  <2> QED
    BY <2>1, <2>2
<1>6. ASSUME NEW a \in Acquirer, PinLabel(a) PROVE First'
  <2>1. /\ acq[a] = "pinning" /\ acq' \in {[acq EXCEPT ![a] = p] : p \in {"creating", "failed"}}
        /\ \A x \in Acquirer : x # a => way'[x] = way[x] /\ pinned'[x] = pinned[x]
        /\ UNCHANGED <<handle, named, dir, builder, collector>>
    BY <1>6 DEF PinLabel
  <2> QED
    BY <2>1
<1>7. ASSUME NEW a \in Acquirer, CreateScratch(a) PROVE First'
  BY <1>7 DEF CreateScratch
<1>8. ASSUME NEW a \in Acquirer, UnlinkLeftScratch(a) PROVE First'
  BY <1>8 DEF UnlinkLeftScratch
<1>9. ASSUME NEW a \in Acquirer, CannotStage(a) PROVE First'
  BY <1>9 DEF CannotStage
<1>10. ASSUME NEW a \in Acquirer, Fill(a) PROVE First'
  BY <1>10 DEF Fill
<1>11. ASSUME NEW a \in Acquirer, FillFails(a) PROVE First'
  BY <1>11 DEF FillFails, Unstaged
<1>12. ASSUME NEW a \in Acquirer, CheckDigest(a) PROVE First'
  BY <1>12 DEF CheckDigest, Passes, Unstaged
<1>13. ASSUME NEW a \in Acquirer, Rename(a) PROVE First'
  <2>1. /\ named' = Own(a) /\ acq[a] = "publishing" /\ acq'[a] = "comparing" /\ Here(a)
        /\ \A x \in Acquirer : x # a => acq'[x] = acq[x]
        /\ UNCHANGED <<way, handle, pinned, dir, builder, collector>>
    BY <1>13 DEF Rename, StagedIsOwn
  <2>2. \A x \in Acquirer : x # a => acq[x] \notin UnderLock
    BY <2>1 DEF Guarded
  <2> QED
    BY <2>1, <2>2
<1>14. ASSUME NEW a \in Acquirer, RenameFails(a) PROVE First'
  BY <1>14 DEF RenameFails, Unstaged
<1>15. ASSUME NEW a \in Acquirer, Compare(a) PROVE First'
  <2>1. \A x \in Acquirer : x # a => acq[x] \notin UnderLock
    BY <1>15 DEF Compare, Guarded
  <2>2. CASE NamedHere(a) = Own(a)
    BY <1>15, <2>1, <2>2 DEF Compare, NamedHere
  <2>3. CASE NamedHere(a) # Own(a)
    BY <1>15, <2>1, <2>3 DEF Compare, NamedHere
  <2> QED
    BY <2>2, <2>3
<1>16. ASSUME NEW a \in Acquirer, KillAcquirer(a) PROVE First'
  BY <1>16 DEF KillAcquirer
<1>17. ASSUME NEW b \in Builder, BuilderLooks(b) PROVE First'
  BY <1>17 DEF BuilderLooks, Good
<1>18. ASSUME NEW b \in Builder, BuilderMakesDirs(b) PROVE First'
  BY <1>18 DEF BuilderMakesDirs, MakeDir, Guarded
<1>19. ASSUME NEW b \in Builder, BuilderStarts(b) PROVE First'
  BY <1>19 DEF BuilderStarts
<1>20. ASSUME NEW b \in Builder, BuilderLoads(b) PROVE First'
  BY <1>20 DEF BuilderLoads
<1>21. ASSUME NEW b \in Builder, BuilderChecks(b) PROVE First'
  BY <1>21 DEF BuilderChecks
<1>22. ASSUME NEW b \in Builder, BuilderPublishes(b) PROVE First'
  BY <1>22 DEF BuilderPublishes
<1>23. ASSUME NEW b \in Builder, KillBuilder(b) PROVE First'
  BY <1>23 DEF KillBuilder
<1>24. ASSUME ListBuilds PROVE First'
  BY <1>24 DEF ListBuilds
<1>25. ASSUME RemoveBuild PROVE First'
  BY <1>25 DEF RemoveBuild
<1>26. ASSUME RemoveLabelDir PROVE First'
  BY <1>26 DEF RemoveLabelDir, LabelEmpty
<1>27. CASE UNCHANGED platformVars
  BY <1>27 DEF platformVars
<1> QED
  BY <1>1, <1>2, <1>3, <1>4, <1>5, <1>6, <1>7, <1>8, <1>9, <1>10, <1>11, <1>12,
    <1>13, <1>14, <1>15, <1>16, <1>17, <1>18, <1>19, <1>20, <1>21, <1>22,
    <1>23, <1>24, <1>25, <1>26, <1>27 DEF PFNext, AcquirerStep, BuilderStep

-----------------------------------------------------------------------------
\* The invariant holds before anybody looks.
LEMMA Initially == PFInit => IInv
<1> SUFFICES ASSUME PFInit PROVE IInv
  OBVIOUS
<1> USE PlatformAssumption DEF PFInit
<1>0. /\ acq = [a \in Acquirer |-> "looking"] /\ handle = [a \in Acquirer |-> NoInode]
      /\ named \in {NoInode, <<Nothing, "old">>} /\ lockUser = Nothing
      /\ builder = [b \in Builder |-> "looking"]
  OBVIOUS
<1>1. PFTypeOK
  <2>1. /\ acq \in [Acquirer -> AcqPhase] /\ way \in [Acquirer -> Way]
        /\ pid \in [Acquirer -> Pid] /\ pinned \in [Acquirer -> 0..MaxDirs]
        /\ handle \in [Acquirer -> Inode \cup {NoInode}]
    BY DEF AcqPhase, Searching, Way
  <2>2. lockUser \in Acquirer \cup {Nothing} /\ lockMade \in BOOLEAN
    OBVIOUS
  <2>3. dir \in 0..MaxDirs /\ dirs \in 0..MaxDirs /\ losses \in 0..MaxLosses
    OBVIOUS
  <2>4. /\ named \in Inode \cup {NoInode} /\ spool \in [Pid -> Inode \cup {NoInode}]
        /\ data \in [Inode -> {"empty", "good", "bad"}]
    BY DEF Inode
  <2>5. /\ part \subseteq Builder /\ builder \in [Builder -> BuilderPhase]
        /\ collector \in {"idle", "listed", "emptying", "over"}
    BY DEF BuilderPhase
  <2> QED
    BY <2>1, <2>2, <2>3, <2>4, <2>5 DEF PFTypeOK
<1>2. Guarded /\ StagedIsOwn /\ First
  BY <1>0 DEF Guarded, StagedIsOwn, First, ServedOwn, UnderLock
<1>3. Unshown /\ Verified
  BY <1>0 DEF Unshown, Shown, Verified, NoInode, Own
<1> QED
  BY <1>1, <1>2, <1>3 DEF IInv

\* It is kept by every step.
LEMMA Inductive == IInv /\ [PFNext]_platformVars => IInv'
<1> QED
  BY TypesStep, GuardedStep, UnshownStep, VerifiedStep, StagedIsOwnStep, FirstStep DEF IInv

\* The invariant holds throughout.
LEMMA Invariance == PFSpec => []IInv
<1> QED
  BY Initially, Inductive, PTL DEF PFSpec

-----------------------------------------------------------------------------
\* Every variable keeps its type.
THEOREM TypesHold == PFSpec => []PFTypeOK
<1>1. IInv => PFTypeOK
  BY DEF IInv
<1> QED
  BY <1>1, Invariance, PTL

\* A launch is served the pinned build, and nothing else is given its name.
THEOREM ServedIsVerified == PFSpec => []HandlesVerified
<1>1. IInv => HandlesVerified
  BY DEF IInv, PFTypeOK, Verified, HandlesVerified, Good
<1> QED
  BY <1>1, Invariance, PTL

\* What an acquirer stages stays there and stays its own.
THEOREM ScratchesAreOwn == PFSpec => []StagedIsOwn
<1>1. IInv => StagedIsOwn
  BY DEF IInv
<1> QED
  BY <1>1, Invariance, PTL

\* Of the launches that wait for each other, one stages and publishes.
THEOREM OnePublishes == PFSpec => []OneStages
<1>1. IInv => OneStages
  <2> SUFFICES ASSUME IInv, Calm
               PROVE  Cardinality({a \in Acquirer : ServedOwn(a)}) <= 1
    BY DEF OneStages, Calm, ServedOwn
  <2> DEFINE S == {a \in Acquirer : ServedOwn(a)}
  <2>1. \A a, b \in S : a = b
    BY DEF IInv, First, Own
  <2>2. CASE S = {}
    BY <2>2, FS_EmptySet
  <2>3. CASE S # {}
    <3>1. PICK a \in S : TRUE
      BY <2>3
    <3>2. S = {a}
      BY <2>1, <3>1
    <3> QED
      BY <3>2, FS_Singleton
  <2> QED
    BY <2>2, <2>3
<1> QED
  BY <1>1, Invariance, PTL
=============================================================================
