-------------------------- MODULE UpdateInstallProofs --------------------------
(***************************************************************************)
(* Theorems about UpdateInstall, for any updaters, releases, revisions,    *)
(* publications and mishaps.                                               *)
(*                                                                         *)
(* Between its check of the name and its rename an updater has the install *)
(* lock of the very file the name leads to, so nobody else is between the  *)
(* two (Alone); what it keeps is therefore what it replaces (KeptSafe),    *)
(* and what it renames was verified before anything led to it (Fresh,      *)
(* StagedWhole).                                                           *)
(***************************************************************************)
EXTENDS UpdateInstall, TLAPS

\* Nothing leads to a file before its updater has renamed it.
Fresh ==
  \A u \in Updater : up[u] \notin {"renamed", "done", "killed"} =>
    /\ \A i \in DOMAIN dirLog : dirLog[i][1] # u
    /\ \A v \in Updater : opened[v] # u /\ exe[v] # u

\* What a running updater was started from, and has opened, is a release; a power
\* cut, which tears files, ends them all.
Sources ==
  \A u \in Updater : ~Ended(u) =>
    /\ bin # NoFile => file[bin] \in Release
    /\ exe[u] \in File /\ file[exe[u]] \in Release
    /\ up[u] = "opened" => flag[u] = "apply"
    /\ flag[u] = "apply" /\ up[u] \notin {"started", "resolved", "misled"} =>
         opened[u] \in File /\ file[opened[u]] \in Release

HandsOff ==
  ~byHand =>
    /\ \A i \in DOMAIN dirLog : dirLog[i][1] \notin {NoFile, "byhand", "restored"}
    /\ \A u \in Updater : {exe[u], opened[u]} \cap {"byhand", "restored"} = {}

\* An updater that found the name to lead to the file it locked.
Holding(u) == up[u] \in {"checked", "copying", "kept", "flushed"}

\* One of them at a time, unless somebody replaced the executable: the name leads
\* to the locked file until the holder of the lock renames.
Alone ==
  /\ \A u \in Updater : Holding(u) => flag[u] = "apply"
  /\ \A u, v \in Updater :
       Installing(u) /\ Installing(v) /\ opened[u] = opened[v] => u = v
  /\ ~byHand => \A u \in Updater : Holding(u) => bin = opened[u]
  /\ bin = NoFile => \A u, v \in Updater : Holding(u) /\ Holding(v) => u = v

\* The copy of what it replaces, until it renames.
KeptSafe ==
  \A u \in Updater : up[u] \in {"kept", "flushed"} =>
    saved \in Release /\ (~byHand => saved = file[bin])

\* What it staged.
StagedWhole ==
  \A u \in Updater :
    /\ up[u] \in {"assembling", "fetching"} /\ policy = "signed" => keyed[u] \in Release
    /\ up[u] = "verified" \/ Holding(u) => file[u] \in Release
    /\ up[u] = "flushed" => u \in synced \cup unflushed
    /\ Holding(u) => Permits(Revision[file[exe[u]]], Revision[file[u]])

\* What lies beside the executable.
Beside ==
  \A u \in Updater :
    /\ <<u, "staged">> \in temps =>
         up[u] \in {"assembling", "fetching", "verified", "killed"} \/ Holding(u)
    /\ <<u, "rollback">> \in temps => up[u] \in {"copying", "killed"}

\* The inductive invariant.
IInv ==
  /\ UTypeOK /\ Fresh /\ Sources /\ HandsOff /\ Alone
  /\ KeptSafe /\ StagedWhole /\ Beside /\ BinaryWhole

-----------------------------------------------------------------------------
\* What a sequence holds once an entry has been appended.
LEMMA Appended ==
  ASSUME NEW S, NEW q \in Seq(S), NEW e \in S
  PROVE  /\ Append(q, e) \in Seq(S) /\ Append(q, e) # <<>> /\ Last(Append(q, e)) = e
         /\ \A i \in DOMAIN Append(q, e) :
              (\E j \in DOMAIN q : Append(q, e)[i] = q[j]) \/ Append(q, e)[i] = e
  BY DEF Last

\* A log of one state has that state only.
LEMMA Single ==
  ASSUME NEW S, NEW e \in S
  PROVE  /\ << e >> \in Seq(S) /\ << e >> # <<>> /\ Last(<< e >>) = e
         /\ \A i \in DOMAIN << e >> : << e >>[i] = e
  BY DEF Last

\* The last state of a log is one of its states.
LEMMA LastIsEntry ==
  ASSUME NEW S, NEW q \in Seq(S), q # <<>>
  PROVE  Last(q) \in S /\ \E j \in DOMAIN q : q[j] = Last(q)
<1>1. Len(q) \in DOMAIN q
  OBVIOUS
<1> QED
  BY <1>1 DEF Last

Entry == (File \cup {NoFile}) \X Content
Logs ==
  /\ dirLog' \in Seq(Entry) /\ dirLog' # <<>> /\ Last(dirLog') = <<bin', saved'>>
  /\ <<bin', saved'>> \in Entry
  /\ \A i \in DOMAIN dirLog' :
       (\E j \in DOMAIN dirLog : dirLog'[i] = dirLog[j]) \/ dirLog'[i] = <<bin', saved'>>

\* A rename adds the new state of the directory to the log.
LEMMA AppendLogs ==
  ASSUME dirLog \in Seq(Entry), <<bin', saved'>> \in Entry,
         dirLog' = Append(dirLog, <<bin', saved'>>)
  PROVE  Logs
<1> DEFINE e == <<bin', saved'>>
<1> HIDE DEF e
<1>1. /\ Append(dirLog, e) \in Seq(Entry) /\ Append(dirLog, e) # <<>>
      /\ Last(Append(dirLog, e)) = e
      /\ \A i \in DOMAIN Append(dirLog, e) :
           (\E j \in DOMAIN dirLog : Append(dirLog, e)[i] = dirLog[j])
             \/ Append(dirLog, e)[i] = e
  BY Appended DEF e
<1> QED
  BY <1>1 DEF Logs, e

\* A sync leaves the present state only.
LEMMA SingleLogs ==
  ASSUME <<bin', saved'>> \in Entry, dirLog' = << <<bin', saved'>> >>
  PROVE  Logs
<1> DEFINE e == <<bin', saved'>>
<1> HIDE DEF e
<1>1. /\ << e >> \in Seq(Entry) /\ << e >> # <<>> /\ Last(<< e >>) = e
      /\ \A i \in DOMAIN << e >> : << e >>[i] = e
  BY Single DEF e
<1> QED
  BY <1>1 DEF Logs, e

\* The directory's log holds what it held, or the directory as it is.
LEMMA LogsStep ==
  UTypeOK /\ Sources /\ Alone /\ [UNext]_updateVars => Logs
<1> SUFFICES ASSUME UTypeOK /\ Sources /\ Alone, [UNext]_updateVars PROVE Logs
  OBVIOUS
<1> USE UpdateAssumption DEF UTypeOK, File, Content, Ended, Mishap, Proceeds,
    UpdatePhase, NoFile, NoRelease, Entry, Logs, dirVars, diskVars
<1>1. ASSUME NEW u \in Updater, Start(u) PROVE Logs
  BY <1>1 DEF Start, serverVars
<1>2. ASSUME NEW u \in Updater, Resolve(u) PROVE Logs
  BY <1>2 DEF Resolve, serverVars, ownVars
<1>3. ASSUME NEW u \in Updater, OpenBinary(u) PROVE Logs
  BY <1>3 DEF OpenBinary, Opens, serverVars
<1>4. ASSUME NEW u \in Updater, LockBinary(u) PROVE Logs
  BY <1>4 DEF LockBinary, Busy, Locked, Installing, serverVars, ownVars
<1>5. ASSUME NEW u \in Updater, ReadOwn(u) PROVE Logs
  BY <1>5 DEF ReadOwn, Opens, serverVars
<1>6. ASSUME NEW u \in Updater, Probe(u) PROVE Logs
  BY <1>6 DEF Probe, serverVars
<1>7. ASSUME NEW u \in Updater, ProbeNothing(u) PROVE Logs
  BY <1>7 DEF ProbeNothing, serverVars, ownVars
<1>8. ASSUME NEW u \in Updater, FetchSignature(u) PROVE Logs
  BY <1>8 DEF FetchSignature, serverVars
<1>9. ASSUME NEW u \in Updater, Assemble(u) PROVE Logs
  BY <1>9 DEF Assemble, Assembled, Mix, Verifies, Stages, serverVars, ownVars
<1>10. ASSUME NEW u \in Updater, Download(u) PROVE Logs
  BY <1>10 DEF Download, Mix, Stages, Verifies, serverVars, ownVars
<1>11. ASSUME NEW u \in Updater, FailUpdate(u) PROVE Logs
  BY <1>11 DEF FailUpdate, MayFail, serverVars, ownVars
<1>12. ASSUME NEW u \in Updater, Verdict(u) PROVE Logs
  BY <1>12 DEF Verdict, serverVars, ownVars
<1>13. ASSUME NEW u \in Updater, Refuse(u) PROVE Logs
  BY <1>13 DEF Refuse, Refused, Permits, serverVars, ownVars
<1>14. ASSUME NEW u \in Updater, CheckBinary(u) PROVE Logs
  BY <1>14 DEF CheckBinary, Refused, Permits, StillLocked, serverVars, ownVars
<1>15. ASSUME NEW u \in Updater, CopyRunning(u) PROVE Logs
  BY <1>15 DEF CopyRunning, serverVars, ownVars
<1>16. ASSUME NEW u \in Updater, KeepRunning(u) PROVE Logs
  <2>1. dirLog' = Append(dirLog, <<bin', saved'>>)
    BY <1>16 DEF KeepRunning, LogEntry
  <2>2. <<bin', saved'>> \in Entry
    BY <1>16 DEF KeepRunning, LogEntry, Kept, serverVars, ownVars, Sources, Installing, Ended, Alone, Holding, Proceeds
  <2> QED
    BY <2>1, <2>2, AppendLogs DEF Entry
<1>17. ASSUME NEW u \in Updater, CopyFails(u) PROVE Logs
  BY <1>17 DEF CopyFails, serverVars, ownVars
<1>18. ASSUME NEW u \in Updater, Flush(u) PROVE Logs
  BY <1>18 DEF Flush, Flushed, serverVars, ownVars
<1>19. ASSUME NEW u \in Updater, RenameOver(u) PROVE Logs
  <2>1. dirLog' = Append(dirLog, <<bin', saved'>>)
    BY <1>19 DEF RenameOver, LogEntry
  <2>2. <<bin', saved'>> \in Entry
    BY <1>19 DEF RenameOver, LogEntry, serverVars, ownVars
  <2> QED
    BY <2>1, <2>2, AppendLogs DEF Entry
<1>20. ASSUME NEW u \in Updater, Restore(u) PROVE Logs
  <2>1. dirLog' = Append(dirLog, <<bin', saved'>>)
    BY <1>20 DEF Restore, LogEntry
  <2>2. <<bin', saved'>> \in Entry
    BY <1>20 DEF Restore, NoFile, NoRelease, LogEntry, serverVars, ownVars
  <2> QED
    BY <2>1, <2>2, AppendLogs DEF Entry
<1>21. ASSUME NEW u \in Updater, SyncDirectory(u) PROVE Logs
  <2>1. dirLog' = << Last(dirLog) >> \/ dirLog' = dirLog
    BY <1>21 DEF SyncDirectory
  <2>2. Last(dirLog) = <<bin', saved'>> /\ <<bin', saved'>> \in Entry
    BY <1>21 DEF SyncDirectory
  <2>3. CASE dirLog' = << <<bin', saved'>> >>
    BY <2>2, <2>3, SingleLogs DEF Entry
  <2>4. CASE dirLog' = dirLog
    BY <2>2, <2>4
  <2> QED
    BY <2>1, <2>2, <2>3, <2>4
<1>22. ASSUME NEW u \in Updater, KillUpdater(u) PROVE Logs
  BY <1>22 DEF KillUpdater, serverVars, ownVars
<1>23. ASSUME PublishRelease PROVE Logs
  BY <1>23 DEF PublishRelease, ownVars
<1>24. ASSUME PublishSignature PROVE Logs
  BY <1>24 DEF PublishSignature, ownVars
<1>25. ASSUME ReplaceByHand PROVE Logs
  <2>1. dirLog' = Append(dirLog, <<bin', saved'>>)
    BY <1>25 DEF ReplaceByHand, LogEntry
  <2>2. <<bin', saved'>> \in Entry
    BY <1>25 DEF ReplaceByHand, LogEntry, serverVars, ownVars
  <2> QED
    BY <2>1, <2>2, AppendLogs DEF Entry
<1>26. ASSUME RemoveByHand PROVE Logs
  <2>1. dirLog' = Append(dirLog, <<bin', saved'>>)
    BY <1>26 DEF RemoveByHand, LogEntry
  <2>2. <<bin', saved'>> \in Entry
    BY <1>26 DEF RemoveByHand, NoFile, LogEntry, serverVars, ownVars
  <2> QED
    BY <2>1, <2>2, AppendLogs DEF Entry
<1>27. ASSUME PowerCut PROVE Logs
  <2>1. PICK i \in DOMAIN dirLog :
          bin' = dirLog[i][1] /\ saved' = dirLog[i][2] /\ dirLog' = << dirLog[i] >>
    BY <1>27 DEF PowerCut
  <2>2. dirLog[i] \in Entry
    OBVIOUS
  <2>3. dirLog[i] = <<bin', saved'>>
    BY <2>1, <2>2
  <2> QED
    BY <2>1, <2>2, <2>3, SingleLogs DEF Entry
<1>28. CASE UNCHANGED updateVars
  BY <1>28 DEF updateVars, serverVars, ownVars
<1> QED
  BY <1>1, <1>2, <1>3, <1>4, <1>5, <1>6, <1>7, <1>8, <1>9, <1>10, <1>11, <1>12,
    <1>13, <1>14, <1>15, <1>16, <1>17, <1>18, <1>19, <1>20, <1>21, <1>22,
    <1>23, <1>24, <1>25, <1>26, <1>27, <1>28 DEF UNext, UpdateStep

\* What an assembly and a download have in common.
Staged(u) ==
  /\ up[u] \in {"assembling", "fetching"}
  /\ \E content \in Content, to \in {"verified", "fetching", "done"} :
       /\ file' = [file EXCEPT ![u] = content]
       /\ up' = [up EXCEPT ![u] = to]
       /\ to = "verified" => Verifies(u, content)
  /\ temps' \subseteq temps
  /\ UNCHANGED <<policy, serverVars, dirVars, synced, unflushed, ownVars, byHand, mishaps>>

\* Assembling and downloading do just that.
LEMMA StagedStep ==
  ASSUME UTypeOK, NEW u \in Updater, Assemble(u) \/ Download(u)
  PROVE  Staged(u)
<1>1. /\ file[u] \in Content /\ remote[u] \in Content /\ served \in Content /\ Mix \in Content
  BY DEF UTypeOK, Content, File
<1>2. CASE Assemble(u)
  <2>1. /\ up[u] \in {"assembling", "fetching"}
        /\ UNCHANGED <<policy, serverVars, dirVars, synced, unflushed, ownVars, byHand, mishaps>>
    BY <1>2 DEF Assemble
  <2>2. CASE \E content \in Assembled(u) : Verifies(u, content) /\ Stages(u, content, "verified")
    BY <1>1, <2>1, <2>2 DEF Staged, Stages, Assembled
  <2>3. CASE \E content \in Assembled(u), to \in {"fetching", "done"} : Stages(u, content, to)
    BY <1>1, <2>1, <2>3 DEF Staged, Stages, Assembled
  <2>4. CASE Stages(u, file[u], "fetching")
    BY <1>1, <2>1, <2>4 DEF Staged, Stages
  <2> QED
    BY <1>2, <2>2, <2>3, <2>4 DEF Assemble
<1>3. CASE Download(u)
  BY <1>1, <1>3 DEF Download, Staged, Stages
<1> QED
  BY <1>2, <1>3

\* Every step keeps the types.
LEMMA TypesStep ==
  UTypeOK /\ Sources /\ Alone /\ [UNext]_updateVars => UTypeOK'
<1> SUFFICES ASSUME UTypeOK /\ Sources /\ Alone, [UNext]_updateVars PROVE UTypeOK'
  OBVIOUS
<1>0. Logs
  BY LogsStep
<1> USE UpdateAssumption DEF UTypeOK, File, Content, Ended, Mishap, Proceeds,
    UpdatePhase, NoFile, NoRelease, dirVars, diskVars, Logs
<1>1. ASSUME NEW u \in Updater, Start(u) PROVE UTypeOK'
  BY <1>1, <1>0 DEF Start, serverVars
<1>2. ASSUME NEW u \in Updater, Resolve(u) PROVE UTypeOK'
  BY <1>2, <1>0 DEF Resolve, serverVars, ownVars
<1>3. ASSUME NEW u \in Updater, OpenBinary(u) PROVE UTypeOK'
  BY <1>3, <1>0 DEF OpenBinary, Opens, serverVars
<1>4. ASSUME NEW u \in Updater, LockBinary(u) PROVE UTypeOK'
  BY <1>4, <1>0 DEF LockBinary, Busy, Locked, Installing, serverVars, ownVars
<1>5. ASSUME NEW u \in Updater, ReadOwn(u) PROVE UTypeOK'
  <2>1. /\ policy' \in Policies /\ served' \in Release /\ signature' \in Release
        /\ published' \in 0..MaxPublish /\ mishaps' \in 0..MaxMishaps
    BY <1>5 DEF ReadOwn, Opens, serverVars
  <2>2. byHand' \in BOOLEAN
    BY <1>5 DEF ReadOwn, Opens, serverVars
  <2>3. /\ bin' \in File \cup {NoFile} /\ saved' \in Content
        /\ dirLog' \in Seq((File \cup {NoFile}) \X Content) /\ dirLog' # <<>>
        /\ Last(dirLog') = <<bin', saved'>>
    BY <1>0 DEF Entry
  <2>7. up' \in [Updater -> UpdatePhase]
    BY <1>5, ZenonT(60) DEF ReadOwn, UTypeOK, UpdatePhase
  <2>4. /\ up' \in [Updater -> UpdatePhase] /\ flag' \in [Updater -> {"apply", "check"}]
        /\ exe' \in [Updater -> File \cup {NoFile}]
        /\ opened' \in [Updater -> File \cup {NoFile}]
    BY <1>5, <2>7 DEF ReadOwn, Opens, serverVars
  <2>5. /\ own' \in [Updater -> Release \cup {NoRelease}]
        /\ remote' \in [Updater -> Release \cup {NoRelease}]
        /\ keyed' \in [Updater -> Release \cup {NoRelease}]
    BY <1>5 DEF ReadOwn, Opens, serverVars
  <2>6. /\ file' \in [File -> Content] /\ synced' \subseteq File /\ unflushed' \subseteq Updater
        /\ temps' \subseteq Updater \X {"staged", "rollback"}
    BY <1>5 DEF ReadOwn, Opens, serverVars
  <2> QED
    BY <2>1, <2>2, <2>3, <2>4, <2>5, <2>6
<1>6. ASSUME NEW u \in Updater, Probe(u) PROVE UTypeOK'
  BY <1>6, <1>0 DEF Probe, serverVars
<1>7. ASSUME NEW u \in Updater, ProbeNothing(u) PROVE UTypeOK'
  BY <1>7, <1>0 DEF ProbeNothing, serverVars, ownVars
<1>8. ASSUME NEW u \in Updater, FetchSignature(u) PROVE UTypeOK'
  BY <1>8, <1>0 DEF FetchSignature, serverVars
<1>9. ASSUME NEW u \in Updater, Assemble(u) PROVE UTypeOK'
  <2>7. Staged(u)
    BY <1>9, StagedStep
  <2>8. PICK to \in {"verified", "fetching", "done"} : up' = [up EXCEPT ![u] = to]
    BY <2>7 DEF Staged
  <2>1. /\ policy' \in Policies /\ served' \in Release /\ signature' \in Release
        /\ published' \in 0..MaxPublish /\ mishaps' \in 0..MaxMishaps
    BY <1>9, <2>7 DEF Staged, serverVars, ownVars
  <2>2. byHand' \in BOOLEAN
    BY <1>9, <2>7 DEF Staged, serverVars, ownVars
  <2>3. /\ bin' \in File \cup {NoFile} /\ saved' \in Content
        /\ dirLog' \in Seq((File \cup {NoFile}) \X Content) /\ dirLog' # <<>>
        /\ Last(dirLog') = <<bin', saved'>>
    BY <1>0 DEF Entry
  <2>4. /\ up' \in [Updater -> UpdatePhase] /\ flag' \in [Updater -> {"apply", "check"}]
        /\ exe' \in [Updater -> File \cup {NoFile}]
        /\ opened' \in [Updater -> File \cup {NoFile}]
    BY <2>7, <2>8 DEF Staged, ownVars
  <2>5. /\ own' \in [Updater -> Release \cup {NoRelease}]
        /\ remote' \in [Updater -> Release \cup {NoRelease}]
        /\ keyed' \in [Updater -> Release \cup {NoRelease}]
    BY <1>9, <2>7 DEF Staged, serverVars, ownVars
  <2>6. /\ file' \in [File -> Content] /\ synced' \subseteq File /\ unflushed' \subseteq Updater
        /\ temps' \subseteq Updater \X {"staged", "rollback"}
    BY <1>9, <2>7 DEF Staged, serverVars, ownVars
  <2> QED
    BY <2>1, <2>2, <2>3, <2>4, <2>5, <2>6
<1>10. ASSUME NEW u \in Updater, Download(u) PROVE UTypeOK'
  <2>7. Staged(u)
    BY <1>10, StagedStep
  <2>8. PICK to \in {"verified", "fetching", "done"} : up' = [up EXCEPT ![u] = to]
    BY <2>7 DEF Staged
  <2>1. /\ policy' \in Policies /\ served' \in Release /\ signature' \in Release
        /\ published' \in 0..MaxPublish /\ mishaps' \in 0..MaxMishaps
    BY <1>10, <2>7 DEF Staged, serverVars, ownVars
  <2>2. byHand' \in BOOLEAN
    BY <1>10, <2>7 DEF Staged, serverVars, ownVars
  <2>3. /\ bin' \in File \cup {NoFile} /\ saved' \in Content
        /\ dirLog' \in Seq((File \cup {NoFile}) \X Content) /\ dirLog' # <<>>
        /\ Last(dirLog') = <<bin', saved'>>
    BY <1>0 DEF Entry
  <2>4. /\ up' \in [Updater -> UpdatePhase] /\ flag' \in [Updater -> {"apply", "check"}]
        /\ exe' \in [Updater -> File \cup {NoFile}]
        /\ opened' \in [Updater -> File \cup {NoFile}]
    BY <2>7, <2>8 DEF Staged, ownVars
  <2>5. /\ own' \in [Updater -> Release \cup {NoRelease}]
        /\ remote' \in [Updater -> Release \cup {NoRelease}]
        /\ keyed' \in [Updater -> Release \cup {NoRelease}]
    BY <1>10, <2>7 DEF Staged, serverVars, ownVars
  <2>6. /\ file' \in [File -> Content] /\ synced' \subseteq File /\ unflushed' \subseteq Updater
        /\ temps' \subseteq Updater \X {"staged", "rollback"}
    BY <1>10, <2>7 DEF Staged, serverVars, ownVars
  <2> QED
    BY <2>1, <2>2, <2>3, <2>4, <2>5, <2>6
<1>11. ASSUME NEW u \in Updater, FailUpdate(u) PROVE UTypeOK'
  BY <1>11, <1>0 DEF FailUpdate, MayFail, serverVars, ownVars
<1>12. ASSUME NEW u \in Updater, Verdict(u) PROVE UTypeOK'
  BY <1>12, <1>0 DEF Verdict, serverVars, ownVars
<1>13. ASSUME NEW u \in Updater, Refuse(u) PROVE UTypeOK'
  BY <1>13, <1>0 DEF Refuse, Refused, Permits, serverVars, ownVars
<1>14. ASSUME NEW u \in Updater, CheckBinary(u) PROVE UTypeOK'
  BY <1>14, <1>0 DEF CheckBinary, Refused, Permits, StillLocked, serverVars,
    ownVars
<1>15. ASSUME NEW u \in Updater, CopyRunning(u) PROVE UTypeOK'
  BY <1>15, <1>0 DEF CopyRunning, serverVars, ownVars
<1>16. ASSUME NEW u \in Updater, KeepRunning(u) PROVE UTypeOK'
  <2>1. /\ policy' \in Policies /\ served' \in Release /\ signature' \in Release
        /\ published' \in 0..MaxPublish /\ mishaps' \in 0..MaxMishaps
    BY <1>16 DEF KeepRunning, LogEntry, Kept, serverVars, ownVars
  <2>2. byHand' \in BOOLEAN
    BY <1>16 DEF KeepRunning, LogEntry, Kept, serverVars, ownVars
  <2>3. /\ bin' \in File \cup {NoFile} /\ saved' \in Content
        /\ dirLog' \in Seq((File \cup {NoFile}) \X Content) /\ dirLog' # <<>>
        /\ Last(dirLog') = <<bin', saved'>>
    BY <1>0 DEF Entry
  <2>4. /\ up' \in [Updater -> UpdatePhase] /\ flag' \in [Updater -> {"apply", "check"}]
        /\ exe' \in [Updater -> File \cup {NoFile}]
        /\ opened' \in [Updater -> File \cup {NoFile}]
    BY <1>16 DEF KeepRunning, LogEntry, Kept, serverVars, ownVars
  <2>5. /\ own' \in [Updater -> Release \cup {NoRelease}]
        /\ remote' \in [Updater -> Release \cup {NoRelease}]
        /\ keyed' \in [Updater -> Release \cup {NoRelease}]
    BY <1>16 DEF KeepRunning, LogEntry, Kept, serverVars, ownVars
  <2>6. /\ file' \in [File -> Content] /\ synced' \subseteq File /\ unflushed' \subseteq Updater
        /\ temps' \subseteq Updater \X {"staged", "rollback"}
    BY <1>16 DEF KeepRunning, LogEntry, Kept, serverVars, ownVars
  <2> QED
    BY <2>1, <2>2, <2>3, <2>4, <2>5, <2>6
<1>17. ASSUME NEW u \in Updater, CopyFails(u) PROVE UTypeOK'
  BY <1>17, <1>0 DEF CopyFails, serverVars, ownVars
<1>18. ASSUME NEW u \in Updater, Flush(u) PROVE UTypeOK'
  BY <1>18, <1>0 DEF Flush, Flushed, serverVars, ownVars
<1>19. ASSUME NEW u \in Updater, RenameOver(u) PROVE UTypeOK'
  <2>1. /\ policy' \in Policies /\ served' \in Release /\ signature' \in Release
        /\ published' \in 0..MaxPublish /\ mishaps' \in 0..MaxMishaps
    BY <1>19 DEF RenameOver, LogEntry, serverVars, ownVars
  <2>2. byHand' \in BOOLEAN
    BY <1>19 DEF RenameOver, LogEntry, serverVars, ownVars
  <2>3. /\ bin' \in File \cup {NoFile} /\ saved' \in Content
        /\ dirLog' \in Seq((File \cup {NoFile}) \X Content) /\ dirLog' # <<>>
        /\ Last(dirLog') = <<bin', saved'>>
    BY <1>0 DEF Entry
  <2>4. /\ up' \in [Updater -> UpdatePhase] /\ flag' \in [Updater -> {"apply", "check"}]
        /\ exe' \in [Updater -> File \cup {NoFile}]
        /\ opened' \in [Updater -> File \cup {NoFile}]
    BY <1>19 DEF RenameOver, LogEntry, serverVars, ownVars
  <2>5. /\ own' \in [Updater -> Release \cup {NoRelease}]
        /\ remote' \in [Updater -> Release \cup {NoRelease}]
        /\ keyed' \in [Updater -> Release \cup {NoRelease}]
    BY <1>19 DEF RenameOver, LogEntry, serverVars, ownVars
  <2>6. /\ file' \in [File -> Content] /\ synced' \subseteq File /\ unflushed' \subseteq Updater
        /\ temps' \subseteq Updater \X {"staged", "rollback"}
    BY <1>19 DEF RenameOver, LogEntry, serverVars, ownVars
  <2> QED
    BY <2>1, <2>2, <2>3, <2>4, <2>5, <2>6
<1>20. ASSUME NEW u \in Updater, Restore(u) PROVE UTypeOK'
  <2>1. /\ policy' \in Policies /\ served' \in Release /\ signature' \in Release
        /\ published' \in 0..MaxPublish /\ mishaps' \in 0..MaxMishaps
    BY <1>20 DEF Restore, LogEntry, serverVars, ownVars
  <2>2. byHand' \in BOOLEAN
    BY <1>20 DEF Restore, LogEntry, serverVars, ownVars
  <2>3. /\ bin' \in File \cup {NoFile} /\ saved' \in Content
        /\ dirLog' \in Seq((File \cup {NoFile}) \X Content) /\ dirLog' # <<>>
        /\ Last(dirLog') = <<bin', saved'>>
    BY <1>0 DEF Entry
  <2>4. /\ up' \in [Updater -> UpdatePhase] /\ flag' \in [Updater -> {"apply", "check"}]
        /\ exe' \in [Updater -> File \cup {NoFile}]
        /\ opened' \in [Updater -> File \cup {NoFile}]
    BY <1>20 DEF Restore, LogEntry, serverVars, ownVars
  <2>5. /\ own' \in [Updater -> Release \cup {NoRelease}]
        /\ remote' \in [Updater -> Release \cup {NoRelease}]
        /\ keyed' \in [Updater -> Release \cup {NoRelease}]
    BY <1>20 DEF Restore, LogEntry, serverVars, ownVars
  <2>6. /\ file' \in [File -> Content] /\ synced' \subseteq File /\ unflushed' \subseteq Updater
        /\ temps' \subseteq Updater \X {"staged", "rollback"}
    BY <1>20 DEF Restore, LogEntry, serverVars, ownVars
  <2> QED
    BY <2>1, <2>2, <2>3, <2>4, <2>5, <2>6
<1>21. ASSUME NEW u \in Updater, SyncDirectory(u) PROVE UTypeOK'
  <2>1. /\ policy' \in Policies /\ served' \in Release /\ signature' \in Release
        /\ published' \in 0..MaxPublish /\ mishaps' \in 0..MaxMishaps
    BY <1>21 DEF SyncDirectory, serverVars, ownVars
  <2>2. byHand' \in BOOLEAN
    BY <1>21 DEF SyncDirectory, serverVars, ownVars
  <2>3. /\ bin' \in File \cup {NoFile} /\ saved' \in Content
        /\ dirLog' \in Seq((File \cup {NoFile}) \X Content) /\ dirLog' # <<>>
        /\ Last(dirLog') = <<bin', saved'>>
    BY <1>0 DEF Entry
  <2>4. /\ up' \in [Updater -> UpdatePhase] /\ flag' \in [Updater -> {"apply", "check"}]
        /\ exe' \in [Updater -> File \cup {NoFile}]
        /\ opened' \in [Updater -> File \cup {NoFile}]
    BY <1>21 DEF SyncDirectory, serverVars, ownVars
  <2>5. /\ own' \in [Updater -> Release \cup {NoRelease}]
        /\ remote' \in [Updater -> Release \cup {NoRelease}]
        /\ keyed' \in [Updater -> Release \cup {NoRelease}]
    BY <1>21 DEF SyncDirectory, serverVars, ownVars
  <2>6. /\ file' \in [File -> Content] /\ synced' \subseteq File /\ unflushed' \subseteq Updater
        /\ temps' \subseteq Updater \X {"staged", "rollback"}
    BY <1>21 DEF SyncDirectory, serverVars, ownVars
  <2> QED
    BY <2>1, <2>2, <2>3, <2>4, <2>5, <2>6
<1>22. ASSUME NEW u \in Updater, KillUpdater(u) PROVE UTypeOK'
  BY <1>22, <1>0 DEF KillUpdater, serverVars, ownVars
<1>23. ASSUME PublishRelease PROVE UTypeOK'
  BY <1>23, <1>0 DEF PublishRelease, ownVars
<1>24. ASSUME PublishSignature PROVE UTypeOK'
  BY <1>24, <1>0 DEF PublishSignature, ownVars
<1>25. ASSUME ReplaceByHand PROVE UTypeOK'
  <2>1. /\ policy' \in Policies /\ served' \in Release /\ signature' \in Release
        /\ published' \in 0..MaxPublish /\ mishaps' \in 0..MaxMishaps
    BY <1>25 DEF ReplaceByHand, LogEntry, serverVars, ownVars
  <2>2. byHand' \in BOOLEAN
    BY <1>25 DEF ReplaceByHand, LogEntry, serverVars, ownVars
  <2>3. /\ bin' \in File \cup {NoFile} /\ saved' \in Content
        /\ dirLog' \in Seq((File \cup {NoFile}) \X Content) /\ dirLog' # <<>>
        /\ Last(dirLog') = <<bin', saved'>>
    BY <1>0 DEF Entry
  <2>4. /\ up' \in [Updater -> UpdatePhase] /\ flag' \in [Updater -> {"apply", "check"}]
        /\ exe' \in [Updater -> File \cup {NoFile}]
        /\ opened' \in [Updater -> File \cup {NoFile}]
    BY <1>25 DEF ReplaceByHand, LogEntry, serverVars, ownVars
  <2>5. /\ own' \in [Updater -> Release \cup {NoRelease}]
        /\ remote' \in [Updater -> Release \cup {NoRelease}]
        /\ keyed' \in [Updater -> Release \cup {NoRelease}]
    BY <1>25 DEF ReplaceByHand, LogEntry, serverVars, ownVars
  <2>6. /\ file' \in [File -> Content] /\ synced' \subseteq File /\ unflushed' \subseteq Updater
        /\ temps' \subseteq Updater \X {"staged", "rollback"}
    BY <1>25 DEF ReplaceByHand, LogEntry, serverVars, ownVars
  <2> QED
    BY <2>1, <2>2, <2>3, <2>4, <2>5, <2>6
<1>26. ASSUME RemoveByHand PROVE UTypeOK'
  <2>1. /\ policy' \in Policies /\ served' \in Release /\ signature' \in Release
        /\ published' \in 0..MaxPublish /\ mishaps' \in 0..MaxMishaps
    BY <1>26 DEF RemoveByHand, LogEntry, serverVars, ownVars
  <2>2. byHand' \in BOOLEAN
    BY <1>26 DEF RemoveByHand, LogEntry, serverVars, ownVars
  <2>3. /\ bin' \in File \cup {NoFile} /\ saved' \in Content
        /\ dirLog' \in Seq((File \cup {NoFile}) \X Content) /\ dirLog' # <<>>
        /\ Last(dirLog') = <<bin', saved'>>
    BY <1>0 DEF Entry
  <2>4. /\ up' \in [Updater -> UpdatePhase] /\ flag' \in [Updater -> {"apply", "check"}]
        /\ exe' \in [Updater -> File \cup {NoFile}]
        /\ opened' \in [Updater -> File \cup {NoFile}]
    BY <1>26 DEF RemoveByHand, LogEntry, serverVars, ownVars
  <2>5. /\ own' \in [Updater -> Release \cup {NoRelease}]
        /\ remote' \in [Updater -> Release \cup {NoRelease}]
        /\ keyed' \in [Updater -> Release \cup {NoRelease}]
    BY <1>26 DEF RemoveByHand, LogEntry, serverVars, ownVars
  <2>6. /\ file' \in [File -> Content] /\ synced' \subseteq File /\ unflushed' \subseteq Updater
        /\ temps' \subseteq Updater \X {"staged", "rollback"}
    BY <1>26 DEF RemoveByHand, LogEntry, serverVars, ownVars
  <2> QED
    BY <2>1, <2>2, <2>3, <2>4, <2>5, <2>6
<1>27. ASSUME PowerCut PROVE UTypeOK'
  <2>1. /\ policy' \in Policies /\ served' \in Release /\ signature' \in Release
        /\ published' \in 0..MaxPublish /\ mishaps' \in 0..MaxMishaps
    BY <1>27 DEF PowerCut, Torn, serverVars, ownVars
  <2>2. byHand' \in BOOLEAN
    BY <1>27 DEF PowerCut, Torn, serverVars, ownVars
  <2>3. /\ bin' \in File \cup {NoFile} /\ saved' \in Content
        /\ dirLog' \in Seq((File \cup {NoFile}) \X Content) /\ dirLog' # <<>>
        /\ Last(dirLog') = <<bin', saved'>>
    BY <1>0 DEF Entry
  <2>4. /\ up' \in [Updater -> UpdatePhase] /\ flag' \in [Updater -> {"apply", "check"}]
        /\ exe' \in [Updater -> File \cup {NoFile}]
        /\ opened' \in [Updater -> File \cup {NoFile}]
    BY <1>27 DEF PowerCut, Torn, serverVars, ownVars
  <2>5. /\ own' \in [Updater -> Release \cup {NoRelease}]
        /\ remote' \in [Updater -> Release \cup {NoRelease}]
        /\ keyed' \in [Updater -> Release \cup {NoRelease}]
    BY <1>27 DEF PowerCut, Torn, serverVars, ownVars
  <2>6. /\ file' \in [File -> Content] /\ synced' \subseteq File /\ unflushed' \subseteq Updater
        /\ temps' \subseteq Updater \X {"staged", "rollback"}
    BY <1>27 DEF PowerCut, Torn, serverVars, ownVars
  <2> QED
    BY <2>1, <2>2, <2>3, <2>4, <2>5, <2>6
<1>28. CASE UNCHANGED updateVars
  BY <1>28 DEF updateVars, serverVars, ownVars
<1> QED
  BY <1>1, <1>2, <1>3, <1>4, <1>5, <1>6, <1>7, <1>8, <1>9, <1>10, <1>11, <1>12,
    <1>13, <1>14, <1>15, <1>16, <1>17, <1>18, <1>19, <1>20, <1>21, <1>22,
    <1>23, <1>24, <1>25, <1>26, <1>27, <1>28 DEF UNext, UpdateStep

\* A rename is the first that leads to an updater's file.
LEMMA FreshStep ==
  UTypeOK /\ Sources /\ Alone /\ Fresh /\ [UNext]_updateVars => Fresh'
<1> SUFFICES ASSUME UTypeOK /\ Sources /\ Alone /\ Fresh, [UNext]_updateVars PROVE Fresh'
  OBVIOUS
<1>a. /\ up \in [Updater -> UpdatePhase]
      /\ exe \in [Updater -> File \cup {NoFile}]
      /\ opened \in [Updater -> File \cup {NoFile}]
      /\ (\E j \in DOMAIN dirLog : dirLog[j] = <<bin, saved>>)
      /\ NoFile \notin File /\ \A v \in Updater : v \notin {"byhand", "restored", NoFile, "original"}
  BY UpdateAssumption, LastIsEntry DEF UTypeOK, File, NoFile
<1>b. \A i \in DOMAIN dirLog' :
        (\E j \in DOMAIN dirLog : dirLog'[i] = dirLog[j]) \/ dirLog'[i] = <<bin', saved'>>
  BY LogsStep DEF Logs
<1> USE <1>a, <1>b DEF Ended, Proceeds, Mishap, dirVars, diskVars, Fresh
<1>1. ASSUME NEW u \in Updater, Start(u) PROVE Fresh'
  BY <1>1 DEF Start, serverVars
<1>2. ASSUME NEW u \in Updater, Resolve(u) PROVE Fresh'
  BY <1>2 DEF Resolve, serverVars, ownVars
<1>3. ASSUME NEW u \in Updater, OpenBinary(u) PROVE Fresh'
  BY <1>3 DEF OpenBinary, Opens, serverVars
<1>4. ASSUME NEW u \in Updater, LockBinary(u) PROVE Fresh'
  BY <1>4 DEF LockBinary, Busy, Locked, Installing, serverVars, ownVars
<1>5. ASSUME NEW u \in Updater, ReadOwn(u) PROVE Fresh'
  BY <1>5 DEF ReadOwn, Opens, serverVars
<1>6. ASSUME NEW u \in Updater, Probe(u) PROVE Fresh'
  BY <1>6 DEF Probe, serverVars
<1>7. ASSUME NEW u \in Updater, ProbeNothing(u) PROVE Fresh'
  BY <1>7 DEF ProbeNothing, serverVars, ownVars
<1>8. ASSUME NEW u \in Updater, FetchSignature(u) PROVE Fresh'
  BY <1>8 DEF FetchSignature, serverVars
<1>9. ASSUME NEW u \in Updater, Assemble(u) PROVE Fresh'
  BY <1>9 DEF Assemble, Assembled, Verifies, Stages, serverVars, ownVars
<1>10. ASSUME NEW u \in Updater, Download(u) PROVE Fresh'
  BY <1>10 DEF Download, Stages, Verifies, serverVars, ownVars
<1>11. ASSUME NEW u \in Updater, FailUpdate(u) PROVE Fresh'
  BY <1>11 DEF FailUpdate, MayFail, serverVars, ownVars
<1>12. ASSUME NEW u \in Updater, Verdict(u) PROVE Fresh'
  BY <1>12 DEF Verdict, serverVars, ownVars
<1>13. ASSUME NEW u \in Updater, Refuse(u) PROVE Fresh'
  BY <1>13 DEF Refuse, Refused, Permits, serverVars, ownVars
<1>14. ASSUME NEW u \in Updater, CheckBinary(u) PROVE Fresh'
  BY <1>14 DEF CheckBinary, Refused, Permits, StillLocked, serverVars, ownVars
<1>15. ASSUME NEW u \in Updater, CopyRunning(u) PROVE Fresh'
  BY <1>15 DEF CopyRunning, serverVars, ownVars
<1>16. ASSUME NEW u \in Updater, KeepRunning(u) PROVE Fresh'
  BY <1>16 DEF KeepRunning, LogEntry, Kept, serverVars, ownVars
<1>17. ASSUME NEW u \in Updater, CopyFails(u) PROVE Fresh'
  BY <1>17 DEF CopyFails, serverVars, ownVars
<1>18. ASSUME NEW u \in Updater, Flush(u) PROVE Fresh'
  BY <1>18 DEF Flush, Flushed, serverVars, ownVars
<1>19. ASSUME NEW u \in Updater, RenameOver(u) PROVE Fresh'
  BY <1>19 DEF RenameOver, LogEntry, serverVars, ownVars
<1>20. ASSUME NEW u \in Updater, Restore(u) PROVE Fresh'
  BY <1>20 DEF Restore, LogEntry, serverVars, ownVars
<1>21. ASSUME NEW u \in Updater, SyncDirectory(u) PROVE Fresh'
  BY <1>21 DEF SyncDirectory, serverVars, ownVars
<1>22. ASSUME NEW u \in Updater, KillUpdater(u) PROVE Fresh'
  BY <1>22 DEF KillUpdater, serverVars, ownVars
<1>23. ASSUME PublishRelease PROVE Fresh'
  BY <1>23 DEF PublishRelease, ownVars
<1>24. ASSUME PublishSignature PROVE Fresh'
  BY <1>24 DEF PublishSignature, ownVars
<1>25. ASSUME ReplaceByHand PROVE Fresh'
  BY <1>25 DEF ReplaceByHand, LogEntry, serverVars, ownVars
<1>26. ASSUME RemoveByHand PROVE Fresh'
  BY <1>26 DEF RemoveByHand, LogEntry, serverVars, ownVars
<1>27. ASSUME PowerCut PROVE Fresh'
  BY <1>27 DEF PowerCut, serverVars, ownVars
<1>28. CASE UNCHANGED updateVars
  BY <1>28 DEF updateVars, serverVars, ownVars
<1> QED
  BY <1>1, <1>2, <1>3, <1>4, <1>5, <1>6, <1>7, <1>8, <1>9, <1>10, <1>11, <1>12,
    <1>13, <1>14, <1>15, <1>16, <1>17, <1>18, <1>19, <1>20, <1>21, <1>22,
    <1>23, <1>24, <1>25, <1>26, <1>27, <1>28 DEF UNext, UpdateStep

\* What leads to a running updater's own files are releases.
LEMMA SourcesStep ==
  UTypeOK /\ Fresh /\ Sources /\ HandsOff /\ Alone /\ KeptSafe /\ StagedWhole /\ [UNext]_updateVars => Sources'
<1> SUFFICES ASSUME UTypeOK /\ Fresh /\ Sources /\ HandsOff /\ Alone /\ KeptSafe /\ StagedWhole, [UNext]_updateVars PROVE Sources'
  OBVIOUS
<1>a. /\ up \in [Updater -> UpdatePhase]
      /\ file \in [File -> Content]
      /\ exe \in [Updater -> File \cup {NoFile}]
      /\ opened \in [Updater -> File \cup {NoFile}]
      /\ flag \in [Updater -> {"apply", "check"}]
      /\ (\E j \in DOMAIN dirLog : dirLog[j] = <<bin, saved>>)
      /\ NoFile \notin File /\ \A v \in Updater : v \notin {"byhand", "restored", NoFile, "original"}
      /\ Updater \subseteq File /\ {"byhand", "restored", "original"} \subseteq File
      /\ bin \in File \cup {NoFile}
  BY UpdateAssumption, LastIsEntry DEF UTypeOK, File, NoFile
<1> USE <1>a DEF Ended, Proceeds, Mishap, dirVars, diskVars, Sources
<1>1. ASSUME NEW u \in Updater, Start(u) PROVE Sources'
  BY <1>1 DEF Start, serverVars
<1>2. ASSUME NEW u \in Updater, Resolve(u) PROVE Sources'
  BY <1>2 DEF Resolve, serverVars, ownVars
<1>3. ASSUME NEW u \in Updater, OpenBinary(u) PROVE Sources'
  BY <1>3 DEF OpenBinary, Opens, serverVars
<1>4. ASSUME NEW u \in Updater, LockBinary(u) PROVE Sources'
  BY <1>4 DEF LockBinary, Busy, Locked, Installing, serverVars, ownVars
<1>5. ASSUME NEW u \in Updater, ReadOwn(u) PROVE Sources'
  BY <1>5 DEF ReadOwn, Opens, serverVars
<1>6. ASSUME NEW u \in Updater, Probe(u) PROVE Sources'
  BY <1>6 DEF Probe, serverVars
<1>7. ASSUME NEW u \in Updater, ProbeNothing(u) PROVE Sources'
  BY <1>7 DEF ProbeNothing, serverVars, ownVars
<1>8. ASSUME NEW u \in Updater, FetchSignature(u) PROVE Sources'
  BY <1>8 DEF FetchSignature, serverVars
<1>9. ASSUME NEW u \in Updater, Assemble(u) PROVE Sources'
  <2>1. Staged(u)
    BY <1>9, StagedStep
  <2>2. \A f \in File : f # u => file'[f] = file[f]
    BY <2>1 DEF Staged
  <2>3. u \notin {bin} /\ \A v \in Updater : exe[v] # u /\ opened[v] # u
    BY <2>1 DEF Staged, Fresh
  <2> QED
    BY <2>1, <2>2, <2>3 DEF Staged, serverVars, ownVars
<1>10. ASSUME NEW u \in Updater, Download(u) PROVE Sources'
  <2>1. Staged(u)
    BY <1>10, StagedStep
  <2>2. \A f \in File : f # u => file'[f] = file[f]
    BY <2>1 DEF Staged
  <2>3. u \notin {bin} /\ \A v \in Updater : exe[v] # u /\ opened[v] # u
    BY <2>1 DEF Staged, Fresh
  <2> QED
    BY <2>1, <2>2, <2>3 DEF Staged, serverVars, ownVars
<1>11. ASSUME NEW u \in Updater, FailUpdate(u) PROVE Sources'
  BY <1>11 DEF FailUpdate, MayFail, serverVars, ownVars
<1>12. ASSUME NEW u \in Updater, Verdict(u) PROVE Sources'
  BY <1>12 DEF Verdict, serverVars, ownVars
<1>13. ASSUME NEW u \in Updater, Refuse(u) PROVE Sources'
  BY <1>13 DEF Refuse, Refused, Permits, serverVars, ownVars
<1>14. ASSUME NEW u \in Updater, CheckBinary(u) PROVE Sources'
  BY <1>14 DEF CheckBinary, Refused, Permits, StillLocked, serverVars, ownVars
<1>15. ASSUME NEW u \in Updater, CopyRunning(u) PROVE Sources'
  BY <1>15 DEF CopyRunning, serverVars, ownVars
<1>16. ASSUME NEW u \in Updater, KeepRunning(u) PROVE Sources'
  BY <1>16 DEF KeepRunning, LogEntry, Kept, serverVars, ownVars
<1>17. ASSUME NEW u \in Updater, CopyFails(u) PROVE Sources'
  BY <1>17 DEF CopyFails, serverVars, ownVars
<1>18. ASSUME NEW u \in Updater, Flush(u) PROVE Sources'
  BY <1>18 DEF Flush, Flushed, serverVars, ownVars
<1>19. ASSUME NEW u \in Updater, RenameOver(u) PROVE Sources'
  BY <1>19 DEF RenameOver, LogEntry, serverVars, ownVars, StagedWhole, Holding
<1>20. ASSUME NEW u \in Updater, Restore(u) PROVE Sources'
  BY <1>20 DEF Restore, LogEntry, serverVars, ownVars, KeptSafe
<1>21. ASSUME NEW u \in Updater, SyncDirectory(u) PROVE Sources'
  BY <1>21 DEF SyncDirectory, serverVars, ownVars
<1>22. ASSUME NEW u \in Updater, KillUpdater(u) PROVE Sources'
  BY <1>22 DEF KillUpdater, serverVars, ownVars
<1>23. ASSUME PublishRelease PROVE Sources'
  BY <1>23 DEF PublishRelease, ownVars
<1>24. ASSUME PublishSignature PROVE Sources'
  BY <1>24 DEF PublishSignature, ownVars
<1>25. ASSUME ReplaceByHand PROVE Sources'
  BY <1>25 DEF ReplaceByHand, LogEntry, serverVars, ownVars
<1>26. ASSUME RemoveByHand PROVE Sources'
  BY <1>26 DEF RemoveByHand, LogEntry, serverVars, ownVars
<1>27. ASSUME PowerCut PROVE Sources'
  BY <1>27 DEF PowerCut, serverVars, ownVars
<1>28. CASE UNCHANGED updateVars
  BY <1>28 DEF updateVars, serverVars, ownVars
<1> QED
  BY <1>1, <1>2, <1>3, <1>4, <1>5, <1>6, <1>7, <1>8, <1>9, <1>10, <1>11, <1>12,
    <1>13, <1>14, <1>15, <1>16, <1>17, <1>18, <1>19, <1>20, <1>21, <1>22,
    <1>23, <1>24, <1>25, <1>26, <1>27, <1>28 DEF UNext, UpdateStep

\* Nothing stands in for the executable that no updater brought.
LEMMA HandsOffStep ==
  UTypeOK /\ Sources /\ HandsOff /\ Alone /\ [UNext]_updateVars => HandsOff'
<1> SUFFICES ASSUME UTypeOK /\ Sources /\ HandsOff /\ Alone, [UNext]_updateVars PROVE HandsOff'
  OBVIOUS
<1>a. /\ exe \in [Updater -> File \cup {NoFile}]
      /\ opened \in [Updater -> File \cup {NoFile}]
      /\ (\E j \in DOMAIN dirLog : dirLog[j] = <<bin, saved>>)
      /\ NoFile \notin File /\ \A v \in Updater : v \notin {"byhand", "restored", NoFile, "original"}
  BY UpdateAssumption, LastIsEntry DEF UTypeOK, File, NoFile
<1>b. \A i \in DOMAIN dirLog' :
        (\E j \in DOMAIN dirLog : dirLog'[i] = dirLog[j]) \/ dirLog'[i] = <<bin', saved'>>
  BY LogsStep DEF Logs
<1> USE <1>a, <1>b DEF Ended, Proceeds, Mishap, dirVars, diskVars, HandsOff
<1>1. ASSUME NEW u \in Updater, Start(u) PROVE HandsOff'
  BY <1>1 DEF Start, serverVars
<1>2. ASSUME NEW u \in Updater, Resolve(u) PROVE HandsOff'
  BY <1>2 DEF Resolve, serverVars, ownVars
<1>3. ASSUME NEW u \in Updater, OpenBinary(u) PROVE HandsOff'
  BY <1>3 DEF OpenBinary, Opens, serverVars
<1>4. ASSUME NEW u \in Updater, LockBinary(u) PROVE HandsOff'
  BY <1>4 DEF LockBinary, Busy, Locked, Installing, serverVars, ownVars
<1>5. ASSUME NEW u \in Updater, ReadOwn(u) PROVE HandsOff'
  BY <1>5 DEF ReadOwn, Opens, serverVars
<1>6. ASSUME NEW u \in Updater, Probe(u) PROVE HandsOff'
  BY <1>6 DEF Probe, serverVars
<1>7. ASSUME NEW u \in Updater, ProbeNothing(u) PROVE HandsOff'
  BY <1>7 DEF ProbeNothing, serverVars, ownVars
<1>8. ASSUME NEW u \in Updater, FetchSignature(u) PROVE HandsOff'
  BY <1>8 DEF FetchSignature, serverVars
<1>9. ASSUME NEW u \in Updater, Assemble(u) PROVE HandsOff'
  BY <1>9 DEF Assemble, Assembled, Verifies, Stages, serverVars, ownVars
<1>10. ASSUME NEW u \in Updater, Download(u) PROVE HandsOff'
  BY <1>10 DEF Download, Stages, Verifies, serverVars, ownVars
<1>11. ASSUME NEW u \in Updater, FailUpdate(u) PROVE HandsOff'
  BY <1>11 DEF FailUpdate, MayFail, serverVars, ownVars
<1>12. ASSUME NEW u \in Updater, Verdict(u) PROVE HandsOff'
  BY <1>12 DEF Verdict, serverVars, ownVars
<1>13. ASSUME NEW u \in Updater, Refuse(u) PROVE HandsOff'
  BY <1>13 DEF Refuse, Refused, Permits, serverVars, ownVars
<1>14. ASSUME NEW u \in Updater, CheckBinary(u) PROVE HandsOff'
  BY <1>14 DEF CheckBinary, Refused, Permits, StillLocked, serverVars, ownVars
<1>15. ASSUME NEW u \in Updater, CopyRunning(u) PROVE HandsOff'
  BY <1>15 DEF CopyRunning, serverVars, ownVars
<1>16. ASSUME NEW u \in Updater, KeepRunning(u) PROVE HandsOff'
  BY <1>16 DEF KeepRunning, LogEntry, Kept, serverVars, ownVars
<1>17. ASSUME NEW u \in Updater, CopyFails(u) PROVE HandsOff'
  BY <1>17 DEF CopyFails, serverVars, ownVars
<1>18. ASSUME NEW u \in Updater, Flush(u) PROVE HandsOff'
  BY <1>18 DEF Flush, Flushed, serverVars, ownVars
<1>19. ASSUME NEW u \in Updater, RenameOver(u) PROVE HandsOff'
  BY <1>19 DEF RenameOver, LogEntry, serverVars, ownVars
<1>20. ASSUME NEW u \in Updater, Restore(u) PROVE HandsOff'
  BY <1>20 DEF Restore, LogEntry, serverVars, ownVars
<1>21. ASSUME NEW u \in Updater, SyncDirectory(u) PROVE HandsOff'
  BY <1>21 DEF SyncDirectory, serverVars, ownVars
<1>22. ASSUME NEW u \in Updater, KillUpdater(u) PROVE HandsOff'
  BY <1>22 DEF KillUpdater, serverVars, ownVars
<1>23. ASSUME PublishRelease PROVE HandsOff'
  BY <1>23 DEF PublishRelease, ownVars
<1>24. ASSUME PublishSignature PROVE HandsOff'
  BY <1>24 DEF PublishSignature, ownVars
<1>25. ASSUME ReplaceByHand PROVE HandsOff'
  BY <1>25 DEF ReplaceByHand, LogEntry, serverVars, ownVars
<1>26. ASSUME RemoveByHand PROVE HandsOff'
  BY <1>26 DEF RemoveByHand, LogEntry, serverVars, ownVars
<1>27. ASSUME PowerCut PROVE HandsOff'
  BY <1>27 DEF PowerCut, serverVars, ownVars
<1>28. CASE UNCHANGED updateVars
  BY <1>28 DEF updateVars, serverVars, ownVars
<1> QED
  BY <1>1, <1>2, <1>3, <1>4, <1>5, <1>6, <1>7, <1>8, <1>9, <1>10, <1>11, <1>12,
    <1>13, <1>14, <1>15, <1>16, <1>17, <1>18, <1>19, <1>20, <1>21, <1>22,
    <1>23, <1>24, <1>25, <1>26, <1>27, <1>28 DEF UNext, UpdateStep

\* The lock of the file the name leads to keeps everybody else out.
LEMMA AloneStep ==
  UTypeOK /\ Sources /\ HandsOff /\ Alone /\ [UNext]_updateVars => Alone'
<1> SUFFICES ASSUME UTypeOK /\ Sources /\ HandsOff /\ Alone, [UNext]_updateVars PROVE Alone'
  OBVIOUS
<1>a. /\ up \in [Updater -> UpdatePhase]
      /\ opened \in [Updater -> File \cup {NoFile}]
      /\ flag \in [Updater -> {"apply", "check"}]
      /\ (\E j \in DOMAIN dirLog : dirLog[j] = <<bin, saved>>)
      /\ NoFile \notin File /\ \A v \in Updater : v \notin {"byhand", "restored", NoFile, "original"}
  BY UpdateAssumption, LastIsEntry DEF UTypeOK, File, NoFile
<1> USE <1>a DEF Ended, Proceeds, Mishap, dirVars, diskVars, Alone, Holding,
    Installing
<1>1. ASSUME NEW u \in Updater, Start(u) PROVE Alone'
  BY <1>1 DEF Start, serverVars
<1>2. ASSUME NEW u \in Updater, Resolve(u) PROVE Alone'
  BY <1>2 DEF Resolve, serverVars, ownVars
<1>3. ASSUME NEW u \in Updater, OpenBinary(u) PROVE Alone'
  BY <1>3 DEF OpenBinary, Opens, serverVars
<1>4. ASSUME NEW u \in Updater, LockBinary(u) PROVE Alone'
  BY <1>4 DEF LockBinary, Busy, Locked, serverVars, ownVars
<1>5. ASSUME NEW u \in Updater, ReadOwn(u) PROVE Alone'
  BY <1>5 DEF ReadOwn, Opens, serverVars
<1>6. ASSUME NEW u \in Updater, Probe(u) PROVE Alone'
  BY <1>6 DEF Probe, serverVars
<1>7. ASSUME NEW u \in Updater, ProbeNothing(u) PROVE Alone'
  BY <1>7 DEF ProbeNothing, serverVars, ownVars
<1>8. ASSUME NEW u \in Updater, FetchSignature(u) PROVE Alone'
  BY <1>8 DEF FetchSignature, serverVars
<1>9. ASSUME NEW u \in Updater, Assemble(u) PROVE Alone'
  BY <1>9 DEF Assemble, Assembled, Verifies, Stages, serverVars, ownVars
<1>10. ASSUME NEW u \in Updater, Download(u) PROVE Alone'
  BY <1>10 DEF Download, Stages, Verifies, serverVars, ownVars
<1>11. ASSUME NEW u \in Updater, FailUpdate(u) PROVE Alone'
  BY <1>11 DEF FailUpdate, MayFail, serverVars, ownVars
<1>12. ASSUME NEW u \in Updater, Verdict(u) PROVE Alone'
  BY <1>12 DEF Verdict, serverVars, ownVars
<1>13. ASSUME NEW u \in Updater, Refuse(u) PROVE Alone'
  BY <1>13 DEF Refuse, Refused, Permits, serverVars, ownVars
<1>14. ASSUME NEW u \in Updater, CheckBinary(u) PROVE Alone'
  BY <1>14 DEF CheckBinary, StillLocked, serverVars, ownVars, Sources
<1>15. ASSUME NEW u \in Updater, CopyRunning(u) PROVE Alone'
  BY <1>15 DEF CopyRunning, serverVars, ownVars
<1>16. ASSUME NEW u \in Updater, KeepRunning(u) PROVE Alone'
  BY <1>16 DEF KeepRunning, LogEntry, Kept, serverVars, ownVars
<1>17. ASSUME NEW u \in Updater, CopyFails(u) PROVE Alone'
  BY <1>17 DEF CopyFails, serverVars, ownVars
<1>18. ASSUME NEW u \in Updater, Flush(u) PROVE Alone'
  BY <1>18 DEF Flush, Flushed, serverVars, ownVars
<1>19. ASSUME NEW u \in Updater, RenameOver(u) PROVE Alone'
  BY <1>19 DEF RenameOver, LogEntry, serverVars, ownVars
<1>20. ASSUME NEW u \in Updater, Restore(u) PROVE Alone'
  BY <1>20 DEF Restore, LogEntry, serverVars, ownVars
<1>21. ASSUME NEW u \in Updater, SyncDirectory(u) PROVE Alone'
  BY <1>21 DEF SyncDirectory, serverVars, ownVars
<1>22. ASSUME NEW u \in Updater, KillUpdater(u) PROVE Alone'
  BY <1>22 DEF KillUpdater, serverVars, ownVars
<1>23. ASSUME PublishRelease PROVE Alone'
  BY <1>23 DEF PublishRelease, ownVars
<1>24. ASSUME PublishSignature PROVE Alone'
  BY <1>24 DEF PublishSignature, ownVars
<1>25. ASSUME ReplaceByHand PROVE Alone'
  <2>1. UNCHANGED <<up, ownVars>> /\ byHand' /\ bin' # NoFile
    BY <1>25 DEF ReplaceByHand, LogEntry, File, NoFile
  <2> QED
    BY <2>1 DEF ownVars
<1>26. ASSUME RemoveByHand PROVE Alone'
  BY <1>26 DEF RemoveByHand, LogEntry, serverVars, ownVars
<1>27. ASSUME PowerCut PROVE Alone'
  BY <1>27 DEF PowerCut, serverVars, ownVars
<1>28. CASE UNCHANGED updateVars
  BY <1>28 DEF updateVars, serverVars, ownVars
<1> QED
  BY <1>1, <1>2, <1>3, <1>4, <1>5, <1>6, <1>7, <1>8, <1>9, <1>10, <1>11, <1>12,
    <1>13, <1>14, <1>15, <1>16, <1>17, <1>18, <1>19, <1>20, <1>21, <1>22,
    <1>23, <1>24, <1>25, <1>26, <1>27, <1>28 DEF UNext, UpdateStep

\* What an updater keeps stays what the name leads to.
LEMMA KeptSafeStep ==
  UTypeOK /\ Fresh /\ Sources /\ HandsOff /\ Alone /\ KeptSafe /\ [UNext]_updateVars => KeptSafe'
<1> SUFFICES ASSUME UTypeOK /\ Fresh /\ Sources /\ HandsOff /\ Alone /\ KeptSafe, [UNext]_updateVars PROVE KeptSafe'
  OBVIOUS
<1>a. /\ up \in [Updater -> UpdatePhase]
      /\ file \in [File -> Content]
      /\ (\E j \in DOMAIN dirLog : dirLog[j] = <<bin, saved>>)
      /\ NoFile \notin File /\ \A v \in Updater : v \notin {"byhand", "restored", NoFile, "original"}
      /\ Updater \subseteq File /\ {"byhand", "restored", "original"} \subseteq File
      /\ bin \in File \cup {NoFile}
  BY UpdateAssumption, LastIsEntry DEF UTypeOK, File, NoFile
<1> USE <1>a DEF Ended, Proceeds, Mishap, dirVars, diskVars, KeptSafe
<1>1. ASSUME NEW u \in Updater, Start(u) PROVE KeptSafe'
  BY <1>1 DEF Start, serverVars
<1>2. ASSUME NEW u \in Updater, Resolve(u) PROVE KeptSafe'
  BY <1>2 DEF Resolve, serverVars, ownVars
<1>3. ASSUME NEW u \in Updater, OpenBinary(u) PROVE KeptSafe'
  BY <1>3 DEF OpenBinary, Opens, serverVars
<1>4. ASSUME NEW u \in Updater, LockBinary(u) PROVE KeptSafe'
  BY <1>4 DEF LockBinary, Busy, Locked, Installing, serverVars, ownVars
<1>5. ASSUME NEW u \in Updater, ReadOwn(u) PROVE KeptSafe'
  BY <1>5 DEF ReadOwn, Opens, serverVars
<1>6. ASSUME NEW u \in Updater, Probe(u) PROVE KeptSafe'
  BY <1>6 DEF Probe, serverVars
<1>7. ASSUME NEW u \in Updater, ProbeNothing(u) PROVE KeptSafe'
  BY <1>7 DEF ProbeNothing, serverVars, ownVars
<1>8. ASSUME NEW u \in Updater, FetchSignature(u) PROVE KeptSafe'
  BY <1>8 DEF FetchSignature, serverVars
<1>9. ASSUME NEW u \in Updater, Assemble(u) PROVE KeptSafe'
  <2>1. Staged(u)
    BY <1>9, StagedStep
  <2>2. \A f \in File : f # u => file'[f] = file[f]
    BY <2>1 DEF Staged
  <2>3. u \notin {bin} /\ \A v \in Updater : exe[v] # u /\ opened[v] # u
    BY <2>1 DEF Staged, Fresh
  <2> QED
    BY <2>1, <2>2, <2>3 DEF Staged, serverVars, ownVars
<1>10. ASSUME NEW u \in Updater, Download(u) PROVE KeptSafe'
  <2>1. Staged(u)
    BY <1>10, StagedStep
  <2>2. \A f \in File : f # u => file'[f] = file[f]
    BY <2>1 DEF Staged
  <2>3. u \notin {bin} /\ \A v \in Updater : exe[v] # u /\ opened[v] # u
    BY <2>1 DEF Staged, Fresh
  <2> QED
    BY <2>1, <2>2, <2>3 DEF Staged, serverVars, ownVars
<1>11. ASSUME NEW u \in Updater, FailUpdate(u) PROVE KeptSafe'
  BY <1>11 DEF FailUpdate, MayFail, serverVars, ownVars
<1>12. ASSUME NEW u \in Updater, Verdict(u) PROVE KeptSafe'
  BY <1>12 DEF Verdict, serverVars, ownVars
<1>13. ASSUME NEW u \in Updater, Refuse(u) PROVE KeptSafe'
  BY <1>13 DEF Refuse, Refused, Permits, serverVars, ownVars
<1>14. ASSUME NEW u \in Updater, CheckBinary(u) PROVE KeptSafe'
  BY <1>14 DEF CheckBinary, Refused, Permits, StillLocked, serverVars, ownVars
<1>15. ASSUME NEW u \in Updater, CopyRunning(u) PROVE KeptSafe'
  BY <1>15 DEF CopyRunning, serverVars, ownVars
<1>16. ASSUME NEW u \in Updater, KeepRunning(u) PROVE KeptSafe'
  BY <1>16 DEF KeepRunning, LogEntry, serverVars, ownVars, Kept, Sources, Alone, Holding
<1>17. ASSUME NEW u \in Updater, CopyFails(u) PROVE KeptSafe'
  BY <1>17 DEF CopyFails, serverVars, ownVars
<1>18. ASSUME NEW u \in Updater, Flush(u) PROVE KeptSafe'
  BY <1>18 DEF Flush, Flushed, serverVars, ownVars
<1>19. ASSUME NEW u \in Updater, RenameOver(u) PROVE KeptSafe'
  BY <1>19 DEF RenameOver, LogEntry, serverVars, ownVars, Alone, Holding, Installing
<1>20. ASSUME NEW u \in Updater, Restore(u) PROVE KeptSafe'
  BY <1>20 DEF Restore, LogEntry, serverVars, ownVars, Alone, Holding
<1>21. ASSUME NEW u \in Updater, SyncDirectory(u) PROVE KeptSafe'
  BY <1>21 DEF SyncDirectory, serverVars, ownVars
<1>22. ASSUME NEW u \in Updater, KillUpdater(u) PROVE KeptSafe'
  BY <1>22 DEF KillUpdater, serverVars, ownVars
<1>23. ASSUME PublishRelease PROVE KeptSafe'
  BY <1>23 DEF PublishRelease, ownVars
<1>24. ASSUME PublishSignature PROVE KeptSafe'
  BY <1>24 DEF PublishSignature, ownVars
<1>25. ASSUME ReplaceByHand PROVE KeptSafe'
  BY <1>25 DEF ReplaceByHand, LogEntry, serverVars, ownVars
<1>26. ASSUME RemoveByHand PROVE KeptSafe'
  BY <1>26 DEF RemoveByHand, LogEntry, serverVars, ownVars
<1>27. ASSUME PowerCut PROVE KeptSafe'
  BY <1>27 DEF PowerCut, serverVars, ownVars
<1>28. CASE UNCHANGED updateVars
  BY <1>28 DEF updateVars, serverVars, ownVars
<1> QED
  BY <1>1, <1>2, <1>3, <1>4, <1>5, <1>6, <1>7, <1>8, <1>9, <1>10, <1>11, <1>12,
    <1>13, <1>14, <1>15, <1>16, <1>17, <1>18, <1>19, <1>20, <1>21, <1>22,
    <1>23, <1>24, <1>25, <1>26, <1>27, <1>28 DEF UNext, UpdateStep

\* A staged file is verified once, and is its updater's alone.
LEMMA StagedWholeStep ==
  UTypeOK /\ Fresh /\ Sources /\ HandsOff /\ Alone /\ StagedWhole /\ [UNext]_updateVars => StagedWhole'
<1> SUFFICES ASSUME UTypeOK /\ Fresh /\ Sources /\ HandsOff /\ Alone /\ StagedWhole, [UNext]_updateVars PROVE StagedWhole'
  OBVIOUS
<1>a. /\ up \in [Updater -> UpdatePhase]
      /\ file \in [File -> Content]
      /\ keyed \in [Updater -> Release \cup {NoRelease}]
      /\ signature \in Release /\ served \in Release
      /\ Updater \subseteq File /\ {"byhand", "restored", "original"} \subseteq File
      /\ NoFile \notin File /\ \A v \in Updater : v \notin {"byhand", "restored", NoFile, "original"}
  BY UpdateAssumption DEF UTypeOK, File, NoFile
<1> USE <1>a DEF Ended, Proceeds, Mishap, dirVars, diskVars, StagedWhole,
    Holding
<1>1. ASSUME NEW u \in Updater, Start(u) PROVE StagedWhole'
  BY <1>1 DEF Start, serverVars
<1>2. ASSUME NEW u \in Updater, Resolve(u) PROVE StagedWhole'
  BY <1>2 DEF Resolve, serverVars, ownVars
<1>3. ASSUME NEW u \in Updater, OpenBinary(u) PROVE StagedWhole'
  BY <1>3 DEF OpenBinary, Opens, serverVars
<1>4. ASSUME NEW u \in Updater, LockBinary(u) PROVE StagedWhole'
  BY <1>4 DEF LockBinary, Busy, Locked, Installing, serverVars, ownVars
<1>5. ASSUME NEW u \in Updater, ReadOwn(u) PROVE StagedWhole'
  BY <1>5 DEF ReadOwn, Opens, serverVars
<1>6. ASSUME NEW u \in Updater, Probe(u) PROVE StagedWhole'
  BY <1>6 DEF Probe, serverVars
<1>7. ASSUME NEW u \in Updater, ProbeNothing(u) PROVE StagedWhole'
  BY <1>7 DEF ProbeNothing, serverVars, ownVars
<1>8. ASSUME NEW u \in Updater, FetchSignature(u) PROVE StagedWhole'
  BY <1>8 DEF FetchSignature, serverVars
<1>9. ASSUME NEW u \in Updater, Assemble(u) PROVE StagedWhole'
  <2>1. Staged(u)
    BY <1>9, StagedStep
  <2>2. \A f \in File : f # u => file'[f] = file[f]
    BY <2>1 DEF Staged
  <2>3. \A v \in Updater : exe[v] # u /\ opened[v] # u
    BY <2>1 DEF Staged, Fresh
  <2> QED
    BY <2>1, <2>2, <2>3 DEF Staged, serverVars, ownVars, Verifies
<1>10. ASSUME NEW u \in Updater, Download(u) PROVE StagedWhole'
  <2>1. Staged(u)
    BY <1>10, StagedStep
  <2>2. \A f \in File : f # u => file'[f] = file[f]
    BY <2>1 DEF Staged
  <2>3. \A v \in Updater : exe[v] # u /\ opened[v] # u
    BY <2>1 DEF Staged, Fresh
  <2> QED
    BY <2>1, <2>2, <2>3 DEF Staged, serverVars, ownVars, Verifies
<1>11. ASSUME NEW u \in Updater, FailUpdate(u) PROVE StagedWhole'
  BY <1>11 DEF FailUpdate, MayFail, serverVars, ownVars
<1>12. ASSUME NEW u \in Updater, Verdict(u) PROVE StagedWhole'
  BY <1>12 DEF Verdict, serverVars, ownVars
<1>13. ASSUME NEW u \in Updater, Refuse(u) PROVE StagedWhole'
  BY <1>13 DEF Refuse, Refused, serverVars, ownVars
<1>14. ASSUME NEW u \in Updater, CheckBinary(u) PROVE StagedWhole'
  BY <1>14 DEF CheckBinary, Refused, StillLocked, serverVars, ownVars
<1>15. ASSUME NEW u \in Updater, CopyRunning(u) PROVE StagedWhole'
  BY <1>15 DEF CopyRunning, serverVars, ownVars
<1>16. ASSUME NEW u \in Updater, KeepRunning(u) PROVE StagedWhole'
  BY <1>16 DEF KeepRunning, LogEntry, Kept, serverVars, ownVars
<1>17. ASSUME NEW u \in Updater, CopyFails(u) PROVE StagedWhole'
  BY <1>17 DEF CopyFails, serverVars, ownVars
<1>18. ASSUME NEW u \in Updater, Flush(u) PROVE StagedWhole'
  BY <1>18 DEF Flush, Flushed, serverVars, ownVars
<1>19. ASSUME NEW u \in Updater, RenameOver(u) PROVE StagedWhole'
  BY <1>19 DEF RenameOver, LogEntry, serverVars, ownVars
<1>20. ASSUME NEW u \in Updater, Restore(u) PROVE StagedWhole'
  BY <1>20 DEF Restore, LogEntry, serverVars, ownVars, Alone, Sources
<1>21. ASSUME NEW u \in Updater, SyncDirectory(u) PROVE StagedWhole'
  BY <1>21 DEF SyncDirectory, serverVars, ownVars
<1>22. ASSUME NEW u \in Updater, KillUpdater(u) PROVE StagedWhole'
  BY <1>22 DEF KillUpdater, serverVars, ownVars
<1>23. ASSUME PublishRelease PROVE StagedWhole'
  BY <1>23 DEF PublishRelease, ownVars
<1>24. ASSUME PublishSignature PROVE StagedWhole'
  BY <1>24 DEF PublishSignature, ownVars
<1>25. ASSUME ReplaceByHand PROVE StagedWhole'
  <2>1. /\ \A f \in File : f # "byhand" => file'[f] = file[f]
        /\ UNCHANGED <<policy, up, exe, keyed, unflushed>> /\ ~byHand
        /\ synced \subseteq synced'
    BY <1>25 DEF ReplaceByHand, ownVars
  <2>2. \A v \in Updater : ~Ended(v) => exe[v] \in File /\ exe[v] # "byhand" /\ v # "byhand"
    BY <2>1 DEF HandsOff, Sources
  <2>3. ASSUME NEW v \in Updater, ~Ended(v)
        PROVE  file'[v] = file[v] /\ file'[exe'[v]] = file[exe[v]]
    BY <2>1, <2>2, <2>3
  <2> QED
    BY <2>1, <2>3
<1>26. ASSUME RemoveByHand PROVE StagedWhole'
  BY <1>26 DEF RemoveByHand, LogEntry, serverVars, ownVars
<1>27. ASSUME PowerCut PROVE StagedWhole'
  BY <1>27 DEF PowerCut, serverVars, ownVars
<1>28. CASE UNCHANGED updateVars
  BY <1>28 DEF updateVars, serverVars, ownVars
<1> QED
  BY <1>1, <1>2, <1>3, <1>4, <1>5, <1>6, <1>7, <1>8, <1>9, <1>10, <1>11, <1>12,
    <1>13, <1>14, <1>15, <1>16, <1>17, <1>18, <1>19, <1>20, <1>21, <1>22,
    <1>23, <1>24, <1>25, <1>26, <1>27, <1>28 DEF UNext, UpdateStep

\* Every end but a kill removes the staged file.
LEMMA BesideStep ==
  UTypeOK /\ Beside /\ [UNext]_updateVars => Beside'
<1> SUFFICES ASSUME UTypeOK /\ Beside, [UNext]_updateVars PROVE Beside'
  OBVIOUS
<1>a. /\ up \in [Updater -> UpdatePhase]
  BY UpdateAssumption DEF UTypeOK, File, NoFile
<1> USE <1>a DEF Ended, Proceeds, Mishap, dirVars, diskVars, Beside, Holding
<1>1. ASSUME NEW u \in Updater, Start(u) PROVE Beside'
  BY <1>1 DEF Start, serverVars
<1>2. ASSUME NEW u \in Updater, Resolve(u) PROVE Beside'
  BY <1>2 DEF Resolve, serverVars, ownVars
<1>3. ASSUME NEW u \in Updater, OpenBinary(u) PROVE Beside'
  BY <1>3 DEF OpenBinary, Opens, serverVars
<1>4. ASSUME NEW u \in Updater, LockBinary(u) PROVE Beside'
  BY <1>4 DEF LockBinary, Busy, Locked, Installing, serverVars, ownVars
<1>5. ASSUME NEW u \in Updater, ReadOwn(u) PROVE Beside'
  BY <1>5 DEF ReadOwn, Opens, serverVars
<1>6. ASSUME NEW u \in Updater, Probe(u) PROVE Beside'
  BY <1>6 DEF Probe, serverVars
<1>7. ASSUME NEW u \in Updater, ProbeNothing(u) PROVE Beside'
  BY <1>7 DEF ProbeNothing, serverVars, ownVars
<1>8. ASSUME NEW u \in Updater, FetchSignature(u) PROVE Beside'
  BY <1>8 DEF FetchSignature, serverVars
<1>9. ASSUME NEW u \in Updater, Assemble(u) PROVE Beside'
  BY <1>9 DEF Assemble, Assembled, Verifies, Stages, serverVars, ownVars
<1>10. ASSUME NEW u \in Updater, Download(u) PROVE Beside'
  BY <1>10 DEF Download, Stages, Verifies, serverVars, ownVars
<1>11. ASSUME NEW u \in Updater, FailUpdate(u) PROVE Beside'
  BY <1>11 DEF FailUpdate, MayFail, serverVars, ownVars
<1>12. ASSUME NEW u \in Updater, Verdict(u) PROVE Beside'
  BY <1>12 DEF Verdict, serverVars, ownVars
<1>13. ASSUME NEW u \in Updater, Refuse(u) PROVE Beside'
  BY <1>13 DEF Refuse, Refused, Permits, serverVars, ownVars
<1>14. ASSUME NEW u \in Updater, CheckBinary(u) PROVE Beside'
  BY <1>14 DEF CheckBinary, Refused, Permits, StillLocked, serverVars, ownVars
<1>15. ASSUME NEW u \in Updater, CopyRunning(u) PROVE Beside'
  BY <1>15 DEF CopyRunning, serverVars, ownVars
<1>16. ASSUME NEW u \in Updater, KeepRunning(u) PROVE Beside'
  BY <1>16 DEF KeepRunning, LogEntry, Kept, serverVars, ownVars
<1>17. ASSUME NEW u \in Updater, CopyFails(u) PROVE Beside'
  BY <1>17 DEF CopyFails, serverVars, ownVars
<1>18. ASSUME NEW u \in Updater, Flush(u) PROVE Beside'
  BY <1>18 DEF Flush, Flushed, serverVars, ownVars
<1>19. ASSUME NEW u \in Updater, RenameOver(u) PROVE Beside'
  BY <1>19 DEF RenameOver, LogEntry, serverVars, ownVars
<1>20. ASSUME NEW u \in Updater, Restore(u) PROVE Beside'
  BY <1>20 DEF Restore, LogEntry, serverVars, ownVars
<1>21. ASSUME NEW u \in Updater, SyncDirectory(u) PROVE Beside'
  BY <1>21 DEF SyncDirectory, serverVars, ownVars
<1>22. ASSUME NEW u \in Updater, KillUpdater(u) PROVE Beside'
  BY <1>22 DEF KillUpdater, serverVars, ownVars
<1>23. ASSUME PublishRelease PROVE Beside'
  BY <1>23 DEF PublishRelease, ownVars
<1>24. ASSUME PublishSignature PROVE Beside'
  BY <1>24 DEF PublishSignature, ownVars
<1>25. ASSUME ReplaceByHand PROVE Beside'
  BY <1>25 DEF ReplaceByHand, LogEntry, serverVars, ownVars
<1>26. ASSUME RemoveByHand PROVE Beside'
  BY <1>26 DEF RemoveByHand, LogEntry, serverVars, ownVars
<1>27. ASSUME PowerCut PROVE Beside'
  BY <1>27 DEF PowerCut, serverVars, ownVars
<1>28. CASE UNCHANGED updateVars
  BY <1>28 DEF updateVars, serverVars, ownVars
<1> QED
  BY <1>1, <1>2, <1>3, <1>4, <1>5, <1>6, <1>7, <1>8, <1>9, <1>10, <1>11, <1>12,
    <1>13, <1>14, <1>15, <1>16, <1>17, <1>18, <1>19, <1>20, <1>21, <1>22,
    <1>23, <1>24, <1>25, <1>26, <1>27, <1>28 DEF UNext, UpdateStep

\* The log only takes in files that are whole, and are on the disk or kept beside.
LEMMA BinaryWholeStep ==
  UTypeOK /\ Fresh /\ Sources /\ HandsOff /\ Alone /\ KeptSafe /\ StagedWhole /\ BinaryWhole /\ [UNext]_updateVars => BinaryWhole'
<1> SUFFICES ASSUME UTypeOK /\ Fresh /\ Sources /\ HandsOff /\ Alone /\ KeptSafe /\ StagedWhole /\ BinaryWhole, [UNext]_updateVars PROVE BinaryWhole'
  OBVIOUS
<1>a. /\ file \in [File -> Content]
      /\ Updater \subseteq File /\ {"byhand", "restored", "original"} \subseteq File
      /\ NoFile \notin File /\ \A v \in Updater : v \notin {"byhand", "restored", NoFile, "original"}
      /\ (\E j \in DOMAIN dirLog : dirLog[j] = <<bin, saved>>)
  BY UpdateAssumption, LastIsEntry DEF UTypeOK, File, NoFile
<1>b. \A i \in DOMAIN dirLog' :
        (\E j \in DOMAIN dirLog : dirLog'[i] = dirLog[j]) \/ dirLog'[i] = <<bin', saved'>>
  BY LogsStep DEF Logs
<1> USE <1>a, <1>b DEF Ended, Proceeds, Mishap, dirVars, diskVars, BinaryWhole
<1>1. ASSUME NEW u \in Updater, Start(u) PROVE BinaryWhole'
  BY <1>1 DEF Start, serverVars
<1>2. ASSUME NEW u \in Updater, Resolve(u) PROVE BinaryWhole'
  BY <1>2 DEF Resolve, serverVars, ownVars
<1>3. ASSUME NEW u \in Updater, OpenBinary(u) PROVE BinaryWhole'
  BY <1>3 DEF OpenBinary, Opens, serverVars
<1>4. ASSUME NEW u \in Updater, LockBinary(u) PROVE BinaryWhole'
  BY <1>4 DEF LockBinary, Busy, Locked, Installing, serverVars, ownVars
<1>5. ASSUME NEW u \in Updater, ReadOwn(u) PROVE BinaryWhole'
  BY <1>5 DEF ReadOwn, Opens, serverVars
<1>6. ASSUME NEW u \in Updater, Probe(u) PROVE BinaryWhole'
  BY <1>6 DEF Probe, serverVars
<1>7. ASSUME NEW u \in Updater, ProbeNothing(u) PROVE BinaryWhole'
  BY <1>7 DEF ProbeNothing, serverVars, ownVars
<1>8. ASSUME NEW u \in Updater, FetchSignature(u) PROVE BinaryWhole'
  BY <1>8 DEF FetchSignature, serverVars
<1>9. ASSUME NEW u \in Updater, Assemble(u) PROVE BinaryWhole'
  <2>1. Staged(u)
    BY <1>9, StagedStep
  <2>2. \A f \in File : f # u => file'[f] = file[f]
    BY <2>1 DEF Staged
  <2>3. \A i \in DOMAIN dirLog : dirLog[i][1] # u
    BY <2>1 DEF Staged, Fresh
  <2> QED
    BY <2>1, <2>2, <2>3 DEF Staged, serverVars, ownVars
<1>10. ASSUME NEW u \in Updater, Download(u) PROVE BinaryWhole'
  <2>1. Staged(u)
    BY <1>10, StagedStep
  <2>2. \A f \in File : f # u => file'[f] = file[f]
    BY <2>1 DEF Staged
  <2>3. \A i \in DOMAIN dirLog : dirLog[i][1] # u
    BY <2>1 DEF Staged, Fresh
  <2> QED
    BY <2>1, <2>2, <2>3 DEF Staged, serverVars, ownVars
<1>11. ASSUME NEW u \in Updater, FailUpdate(u) PROVE BinaryWhole'
  BY <1>11 DEF FailUpdate, MayFail, serverVars, ownVars
<1>12. ASSUME NEW u \in Updater, Verdict(u) PROVE BinaryWhole'
  BY <1>12 DEF Verdict, serverVars, ownVars
<1>13. ASSUME NEW u \in Updater, Refuse(u) PROVE BinaryWhole'
  BY <1>13 DEF Refuse, Refused, Permits, serverVars, ownVars
<1>14. ASSUME NEW u \in Updater, CheckBinary(u) PROVE BinaryWhole'
  BY <1>14 DEF CheckBinary, Refused, Permits, StillLocked, serverVars, ownVars
<1>15. ASSUME NEW u \in Updater, CopyRunning(u) PROVE BinaryWhole'
  BY <1>15 DEF CopyRunning, serverVars, ownVars
<1>16. ASSUME NEW u \in Updater, KeepRunning(u) PROVE BinaryWhole'
  BY <1>16 DEF KeepRunning, LogEntry, serverVars, ownVars, Kept, Sources, Alone, Holding
<1>17. ASSUME NEW u \in Updater, CopyFails(u) PROVE BinaryWhole'
  BY <1>17 DEF CopyFails, serverVars, ownVars
<1>18. ASSUME NEW u \in Updater, Flush(u) PROVE BinaryWhole'
  BY <1>18 DEF Flush, Flushed, serverVars, ownVars, Fresh
<1>19. ASSUME NEW u \in Updater, RenameOver(u) PROVE BinaryWhole'
  BY <1>19 DEF RenameOver, LogEntry, serverVars, ownVars, StagedWhole, Holding, KeptSafe
<1>20. ASSUME NEW u \in Updater, Restore(u) PROVE BinaryWhole'
  BY <1>20 DEF Restore, LogEntry, serverVars, ownVars, KeptSafe
<1>21. ASSUME NEW u \in Updater, SyncDirectory(u) PROVE BinaryWhole'
  BY <1>21 DEF SyncDirectory, serverVars, ownVars
<1>22. ASSUME NEW u \in Updater, KillUpdater(u) PROVE BinaryWhole'
  BY <1>22 DEF KillUpdater, serverVars, ownVars
<1>23. ASSUME PublishRelease PROVE BinaryWhole'
  BY <1>23 DEF PublishRelease, ownVars
<1>24. ASSUME PublishSignature PROVE BinaryWhole'
  BY <1>24 DEF PublishSignature, ownVars
<1>25. ASSUME ReplaceByHand PROVE BinaryWhole'
  BY <1>25 DEF ReplaceByHand, LogEntry, serverVars, ownVars
<1>26. ASSUME RemoveByHand PROVE BinaryWhole'
  BY <1>26 DEF RemoveByHand, LogEntry, serverVars, ownVars
<1>27. ASSUME PowerCut PROVE BinaryWhole'
  <2>1. PICK i \in DOMAIN dirLog : dirLog' = << dirLog[i] >>
    BY <1>27 DEF PowerCut
  <2>2. ASSUME NEW f \in File
        PROVE  file'[f] = file[f] \/ (f \notin synced /\ file'[f] = Torn)
    BY <1>27, <2>2 DEF PowerCut
  <2>3. dirLog[i][1] # NoFile => dirLog[i][1] \in File
    BY <2>1 DEF UTypeOK, NoFile
  <2>4. unflushed' = unflushed /\ synced' = synced
    BY <1>27 DEF PowerCut
  <2>5. \A k \in DOMAIN dirLog' : dirLog'[k] = dirLog[i]
    BY <2>1
  <2> QED
    BY <2>2, <2>3, <2>4, <2>5
<1>28. CASE UNCHANGED updateVars
  BY <1>28 DEF updateVars, serverVars, ownVars
<1> QED
  BY <1>1, <1>2, <1>3, <1>4, <1>5, <1>6, <1>7, <1>8, <1>9, <1>10, <1>11, <1>12,
    <1>13, <1>14, <1>15, <1>16, <1>17, <1>18, <1>19, <1>20, <1>21, <1>22,
    <1>23, <1>24, <1>25, <1>26, <1>27, <1>28 DEF UNext, UpdateStep

-----------------------------------------------------------------------------
\* The invariant holds before any updater is started.
LEMMA Initially == UInit => IInv
<1> SUFFICES ASSUME UInit PROVE IInv
  OBVIOUS
<1> DEFINE e == <<"original", NoRelease>>
<1>1. e \in Entry
  BY DEF Entry, File, Content
<1>2. dirLog = << e >> /\ dirLog \in Seq(Entry) /\ dirLog # <<>> /\ Last(dirLog) = e
  <2>1. dirLog = << e >>
    BY DEF UInit
  <2> HIDE DEF e
  <2> QED
    BY <1>1, <2>1, Single
<1>3. \A i \in DOMAIN dirLog : dirLog[i] = e
  BY <1>2
<1>4. /\ up = [u \in Updater |-> "idle"] /\ exe = [u \in Updater |-> NoFile]
      /\ opened = [u \in Updater |-> NoFile] /\ temps = {}
  BY DEF UInit
<1>5. UTypeOK
  <2>1. /\ file \in [File -> Content] /\ synced \subseteq File /\ unflushed \subseteq Updater
        /\ temps \subseteq Updater \X {"staged", "rollback"}
    BY DEF UInit, File, Content
  <2>2. /\ up \in [Updater -> UpdatePhase] /\ flag \in [Updater -> {"apply", "check"}]
        /\ exe \in [Updater -> File \cup {NoFile}]
        /\ opened \in [Updater -> File \cup {NoFile}]
    BY DEF UInit, UpdatePhase
  <2>3. /\ own \in [Updater -> Release \cup {NoRelease}]
        /\ remote \in [Updater -> Release \cup {NoRelease}]
        /\ keyed \in [Updater -> Release \cup {NoRelease}]
    BY DEF UInit
  <2>4. /\ policy \in Policies /\ served \in Release /\ signature \in Release
        /\ published \in 0..MaxPublish /\ mishaps \in 0..MaxMishaps
    BY UpdateAssumption DEF UInit
  <2>5. byHand \in BOOLEAN
    BY DEF UInit
  <2>6. bin \in File \cup {NoFile} /\ saved \in Content /\ e = <<bin, saved>>
    BY DEF UInit, File, Content
  <2> QED
    BY <1>2, <2>1, <2>2, <2>3, <2>4, <2>5, <2>6 DEF UTypeOK, Entry
<1>6. Fresh /\ HandsOff
  BY <1>3, <1>4, UpdateAssumption DEF Fresh, HandsOff, NoFile
<1>7. Sources /\ Alone /\ KeptSafe /\ StagedWhole /\ Beside
  BY <1>4 DEF Sources, Alone, KeptSafe, StagedWhole, Beside, Ended, Holding, Installing
<1>8. BinaryWhole
  <2>1. file["original"] \in Release /\ "original" \in synced
    BY DEF UInit, File
  <2> QED
    BY <1>3, <2>1 DEF BinaryWhole
<1> QED
  BY <1>5, <1>6, <1>7, <1>8 DEF IInv

\* It is kept by every step.
LEMMA Inductive == IInv /\ [UNext]_updateVars => IInv'
<1> QED
  BY TypesStep, FreshStep, SourcesStep, HandsOffStep, AloneStep, KeptSafeStep,
     StagedWholeStep, BesideStep, BinaryWholeStep DEF IInv

\* The invariant holds throughout.
LEMMA Invariance == USpec => []IInv
<1> QED
  BY Initially, Inductive, PTL DEF USpec

-----------------------------------------------------------------------------
\* Every variable keeps its type, and the directory is the last state logged.
THEOREM TypesHold == USpec => []UTypeOK
<1>1. IInv => UTypeOK
  BY DEF IInv
<1> QED
  BY <1>1, Invariance, PTL

\* What is at the executable's path, and what a power cut may put there, is a
\* whole release, or one that a failed sync left to tear beside its rollback copy.
THEOREM BinaryStaysWhole == USpec => []BinaryWhole
<1>1. IInv => BinaryWhole
  BY DEF IInv
<1> QED
  BY <1>1, Invariance, PTL

\* Until somebody replaces the executable by hand, an updater that renames has kept
\* exactly what it replaces.
THEOREM ReplacedIsKept == USpec => NothingLost
<1>1. IInv /\ [UNext]_updateVars =>
        [\A u \in Updater :
           RenameOver(u) /\ ~byHand => saved = file[bin] /\ saved \in Release]_updateVars
  BY DEF IInv, KeptSafe, RenameOver, Proceeds
<1> QED
  BY <1>1, Invariance, PTL DEF USpec, NothingLost

\* An updater installs only what its gate permits.
THEOREM InstallsOnlyNewer == USpec => OnlyNewer
<1>1. IInv =>
        \A u \in Updater :
          RenameOver(u) /\ Revision[file[exe[u]]] > 0
            => Revision[file[u]] > Revision[file[exe[u]]]
  <2> SUFFICES ASSUME IInv, NEW u \in Updater, RenameOver(u), Revision[file[exe[u]]] > 0
               PROVE  Revision[file[u]] > Revision[file[exe[u]]]
    OBVIOUS
  <2>1. Holding(u) /\ ~Ended(u)
    BY DEF RenameOver, Proceeds, Holding, Ended
  <2>2. Permits(Revision[file[exe[u]]], Revision[file[u]])
    BY <2>1 DEF IInv, StagedWhole
  <2>3. Revision[file[exe[u]]] \in Nat
    BY <2>1, UpdateAssumption DEF IInv, Sources
  <2> QED
    BY <2>2, <2>3 DEF Permits
<1> QED
  BY <1>1, Invariance, PTL DEF USpec, OnlyNewer

\* An updater that ended by itself leaves nothing beside the executable.
THEOREM StagingIsRemoved == USpec => []StagingRemoved
<1>1. IInv => StagingRemoved
  BY DEF IInv, Beside, StagingRemoved, Holding
<1> QED
  BY <1>1, Invariance, PTL
=============================================================================
