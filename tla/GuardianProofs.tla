---------------------------- MODULE GuardianProofs ----------------------------
(***************************************************************************)
(* Theorems about Guardian, for any signals, descendants and kills, and    *)
(* about TemporaryTree, whose trees the guardian keeps and removes, for    *)
(* any launches, process ids, packages and kills.                          *)
(*                                                                         *)
(* Where the guardian is says where the application is (StageKnown): so    *)
(* what it reports is how the application ended (ReportKnown), and what it *)
(* waits for once the application is reaped is all that is left of the     *)
(* subtree (SubtreeKnown).  What is pending and what was received of a     *)
(* signal is no more than what was sent (SignalsKnown).                    *)
(*                                                                         *)
(* What a launch claims is not cleared (Excluded), launches that run have  *)
(* different numbers (Apart), and a rename or a guardian's removal touches *)
(* no tree but an empty one or its own (WrittenBy): so what is needed is   *)
(* whole and in its place (InPlace).                                       *)
(***************************************************************************)
EXTENDS Guardian, TemporaryTree, FiniteSetTheorems, TLAPS

\* How far the guardian has come says how far the application has.
StageKnown ==
  /\ inv = "ready" <=> grd = "none"
  /\ grd \in {"none", "starting", "marked", "forwarding"} => fore = "none"
  /\ grd \in {"reaped", "detached"} => fore = "reaped"
  /\ grd = "detached" => ~group
  /\ fore \in {"none", "blocked", "running"} => status = "none"
  /\ fore \in {"zombie", "reaped"} => status \in Outcome

\* The record in the pipe tells how the application ended; a guardian that is done
\* has left one.
ReportKnown ==
  /\ grd = "done" => report # "empty"
  /\ report \in Outcome => report = status /\ fore = "reaped" /\ ~group
  /\ report = "unavailable" => grd = "done" /\ fore = "none"
  /\ end = "unavailable" => report = "unavailable"

\* What is left when the application has ended are the guardian's children.
SubtreeKnown ==
  /\ alive \cap zombie = {}
  /\ fore = "none" => alive = {} /\ zombie = {}
  /\ fore \in {"zombie", "reaped"} /\ GuardianAlive => alive \subseteq orphan
  /\ grd = "done" => ~AppAlive /\ alive = {}

Due(t, p) == IF t \in pending[p] THEN 1 ELSE 0
Was(t, p) == IF p \in sentTo[t] THEN 1 ELSE 0

\* What the application got and may still get of a signal is what was sent: all three
\* processes count for one sent on purpose, the application for one raised.
SignalsKnown ==
  \A t \in Signal :
    /\ sentTo[t] = {} => got[t] = 0 /\ \A p \in Process : t \notin pending[p]
    /\ t \in Sent =>
         got[t] + Due(t, "invoker") + Due(t, "guardian") + Due(t, "app")
           <= Was(t, "invoker") + Was(t, "guardian") + Was(t, "app")
    /\ t \notin Sent => got[t] + Due(t, "app") <= Was(t, "app")

\* The inductive invariant.
IInv ==
  GTypeOK /\ StageKnown /\ ReportKnown /\ SubtreeKnown /\ SignalsKnown
    /\ EndsAsTheApplication

-----------------------------------------------------------------------------
\* Every step keeps the types.
LEMMA TypesStep ==
  GTypeOK /\ StageKnown /\ [GNext]_guardianVars => GTypeOK'
<1> SUFFICES ASSUME GTypeOK /\ StageKnown, [GNext]_guardianVars PROVE GTypeOK'
  OBVIOUS
<1> USE GuardianAssumption DEF GTypeOK, InvPhase, GrdPhase, AppPhase, Signal,
    Outcome, Process
<1>1. ASSUME ForkGuardian PROVE GTypeOK'
  BY <1>1 DEF ForkGuardian, StageKnown, appVars, signalVars
<1>2. ASSUME MarkSubreaper PROVE GTypeOK'
  BY <1>2 DEF MarkSubreaper, callerVars, appVars, signalVars
<1>3. ASSUME Refuse PROVE GTypeOK'
  BY <1>3 DEF Refuse, callerVars, appVars, signalVars
<1>4. ASSUME InstallForwarding PROVE GTypeOK'
  BY <1>4 DEF InstallForwarding, callerVars, appVars, signalVars
<1>5. ASSUME ForkForeground PROVE GTypeOK'
  BY <1>5 DEF ForkForeground, callerVars, signalVars
<1>6. ASSUME Unblock PROVE GTypeOK'
  BY <1>6 DEF Unblock, Aim, callerVars, appVars, signalVars
<1>7. ASSUME ReapForeground PROVE GTypeOK'
  BY <1>7 DEF ReapForeground, callerVars, signalVars
<1>8. ASSUME Detach PROVE GTypeOK'
  BY <1>8, ZenonT(60) DEF Detach, StopForwarding, callerVars, appVars, signalVars
<1>9. ASSUME Report PROVE GTypeOK'
  BY <1>9 DEF Report, Reportable, ReportedOutcome, StageKnown, callerVars, appVars, signalVars
<1>10. ASSUME Release PROVE GTypeOK'
  BY <1>10 DEF Release, SubtreeIsEmpty, callerVars, appVars, signalVars
<1>11. ASSUME Proxy PROVE GTypeOK'
  BY <1>11 DEF Proxy, guardVars, appVars, signalVars
<1>12. ASSUME Receive PROVE GTypeOK'
  BY <1>12 DEF Receive, GuardianAlive, guardVars, appVars, signalVars
<1>13. ASSUME Start PROVE GTypeOK'
  BY <1>13 DEF Start, callerVars, guardVars, signalVars
<1>14. ASSUME Recycle PROVE GTypeOK'
  BY <1>14 DEF Recycle, callerVars, guardVars, signalVars
<1>15. ASSUME KillInvoker PROVE GTypeOK'
  BY <1>15 DEF KillInvoker, InvokerAlive, guardVars, appVars
<1>16. ASSUME GuardianKilled PROVE GTypeOK'
  BY <1>16 DEF GuardianKilled, GuardianAlive, callerVars
<1>17. ASSUME NEW d \in Daemon, ReapOrphan(d) PROVE GTypeOK'
  BY <1>17 DEF ReapOrphan, Waits, callerVars, guardVars, signalVars
<1>18. ASSUME NEW d \in Daemon, Fork(d) PROVE GTypeOK'
  BY <1>18 DEF Fork, callerVars, guardVars, signalVars
<1>19. ASSUME NEW d \in Daemon, Daemonize(d) PROVE GTypeOK'
  BY <1>19 DEF Daemonize, GuardianAlive, callerVars, guardVars, signalVars
<1>20. ASSUME NEW d \in Daemon, DaemonExits(d) PROVE GTypeOK'
  BY <1>20 DEF DaemonExits, GuardianAlive, callerVars, guardVars, signalVars
<1>21. ASSUME NEW d \in Daemon, Collect(d) PROVE GTypeOK'
  BY <1>21 DEF Collect, callerVars, guardVars, signalVars
<1>22. ASSUME NEW o \in Outcome, ForegroundExits(o) PROVE GTypeOK'
  BY <1>22 DEF ForegroundExits, GuardianAlive, callerVars, guardVars
<1>23. ASSUME NEW t \in Signal, ProxyHandles(t) PROVE GTypeOK'
  BY <1>23 DEF ProxyHandles, Forwards, GuardianAlive, callerVars, guardVars,
    appVars
<1>24. ASSUME NEW t \in Signal, GuardianHandles(t) PROVE GTypeOK'
  BY <1>24 DEF GuardianHandles, Forwards, AppAlive, callerVars, guardVars,
    appVars
<1>25. ASSUME NEW t \in Signal, AppHandles(t) PROVE GTypeOK'
  BY <1>25 DEF AppHandles, callerVars, guardVars, appVars
<1>26. ASSUME NEW t \in Signal, NEW who \in SUBSET Process, Reaches(t, who)
       PROVE  GTypeOK'
  BY <1>26 DEF Reaches, Process, callerVars, guardVars, appVars
<1>27. ASSUME NEW t \in Signal, Raise(t) \/ SendToGroup(t) \/ \E p \in Process : SendTo(t, p)
       PROVE  GTypeOK'
  BY <1>26, <1>27 DEF Raise, SendToGroup, SendTo, TheGroup
<1>28. CASE UNCHANGED guardianVars
  BY <1>28 DEF guardianVars, callerVars, guardVars, appVars, signalVars
<1> QED
  BY <1>1, <1>2, <1>3, <1>4, <1>5, <1>6, <1>7, <1>8, <1>9, <1>10, <1>11, <1>12,
    <1>13, <1>14, <1>15, <1>16, <1>17, <1>18, <1>19, <1>20, <1>21, <1>22,
    <1>23, <1>24, <1>25, <1>26, <1>27, <1>28 DEF GNext, GuardianStep,
    InvokerStep, HandlerStep

\* The guardian goes no further before the application does.
LEMMA StageStep ==
  GTypeOK /\ StageKnown /\ [GNext]_guardianVars => StageKnown'
<1> SUFFICES ASSUME GTypeOK /\ StageKnown, [GNext]_guardianVars PROVE StageKnown'
  OBVIOUS
<1> USE GuardianAssumption DEF GTypeOK, InvPhase, GrdPhase, AppPhase, Signal,
    Outcome, StageKnown
<1>1. ASSUME ForkGuardian PROVE StageKnown'
  BY <1>1 DEF ForkGuardian, appVars, signalVars
<1>2. ASSUME MarkSubreaper PROVE StageKnown'
  BY <1>2 DEF MarkSubreaper, callerVars, appVars, signalVars
<1>3. ASSUME Refuse PROVE StageKnown'
  BY <1>3 DEF Refuse, callerVars, appVars, signalVars
<1>4. ASSUME InstallForwarding PROVE StageKnown'
  BY <1>4 DEF InstallForwarding, callerVars, appVars, signalVars
<1>5. ASSUME ForkForeground PROVE StageKnown'
  BY <1>5 DEF ForkForeground, callerVars, signalVars
<1>6. ASSUME Unblock PROVE StageKnown'
  BY <1>6 DEF Unblock, Aim, callerVars, appVars, signalVars
<1>7. ASSUME ReapForeground PROVE StageKnown'
  BY <1>7 DEF ReapForeground, callerVars, signalVars
<1>8. ASSUME Detach PROVE StageKnown'
  BY <1>8 DEF Detach, StopForwarding, callerVars, appVars, signalVars
<1>9. ASSUME Report PROVE StageKnown'
  BY <1>9 DEF Report, Reportable, ReportedOutcome, callerVars, appVars,
    signalVars
<1>10. ASSUME Release PROVE StageKnown'
  BY <1>10 DEF Release, SubtreeIsEmpty, callerVars, appVars, signalVars
<1>11. ASSUME Proxy PROVE StageKnown'
  BY <1>11 DEF Proxy, guardVars, appVars, signalVars
<1>12. ASSUME Receive PROVE StageKnown'
  BY <1>12 DEF Receive, GuardianAlive, guardVars, appVars, signalVars
<1>13. ASSUME Start PROVE StageKnown'
  BY <1>13 DEF Start, callerVars, guardVars, signalVars
<1>14. ASSUME Recycle PROVE StageKnown'
  BY <1>14 DEF Recycle, callerVars, guardVars, signalVars
<1>15. ASSUME KillInvoker PROVE StageKnown'
  BY <1>15 DEF KillInvoker, InvokerAlive, guardVars, appVars
<1>16. ASSUME GuardianKilled PROVE StageKnown'
  BY <1>16 DEF GuardianKilled, GuardianAlive, callerVars
<1>17. ASSUME NEW d \in Daemon, ReapOrphan(d) PROVE StageKnown'
  BY <1>17 DEF ReapOrphan, Waits, callerVars, guardVars, signalVars
<1>18. ASSUME NEW d \in Daemon, Fork(d) PROVE StageKnown'
  BY <1>18 DEF Fork, callerVars, guardVars, signalVars
<1>19. ASSUME NEW d \in Daemon, Daemonize(d) PROVE StageKnown'
  BY <1>19 DEF Daemonize, GuardianAlive, callerVars, guardVars, signalVars
<1>20. ASSUME NEW d \in Daemon, DaemonExits(d) PROVE StageKnown'
  BY <1>20 DEF DaemonExits, GuardianAlive, callerVars, guardVars, signalVars
<1>21. ASSUME NEW d \in Daemon, Collect(d) PROVE StageKnown'
  BY <1>21 DEF Collect, callerVars, guardVars, signalVars
<1>22. ASSUME NEW o \in Outcome, ForegroundExits(o) PROVE StageKnown'
  BY <1>22 DEF ForegroundExits, GuardianAlive, callerVars, guardVars
<1>23. ASSUME NEW t \in Signal, ProxyHandles(t) PROVE StageKnown'
  BY <1>23 DEF ProxyHandles, GuardianAlive, callerVars, guardVars, appVars
<1>24. ASSUME NEW t \in Signal, GuardianHandles(t) PROVE StageKnown'
  BY <1>24 DEF GuardianHandles, AppAlive, callerVars, guardVars, appVars
<1>25. ASSUME NEW t \in Signal, AppHandles(t) PROVE StageKnown'
  BY <1>25 DEF AppHandles, callerVars, guardVars, appVars
<1>26. ASSUME NEW t \in Signal, NEW who \in SUBSET Process, Reaches(t, who)
       PROVE  StageKnown'
  BY <1>26 DEF Reaches, Process, callerVars, guardVars, appVars
<1>27. ASSUME NEW t \in Signal, Raise(t) \/ SendToGroup(t) \/ \E p \in Process : SendTo(t, p)
       PROVE  StageKnown'
  BY <1>26, <1>27 DEF Raise, SendToGroup, SendTo, TheGroup
<1>28. CASE UNCHANGED guardianVars
  BY <1>28 DEF guardianVars, callerVars, guardVars, appVars, signalVars
<1> QED
  BY <1>1, <1>2, <1>3, <1>4, <1>5, <1>6, <1>7, <1>8, <1>9, <1>10, <1>11, <1>12,
    <1>13, <1>14, <1>15, <1>16, <1>17, <1>18, <1>19, <1>20, <1>21, <1>22,
    <1>23, <1>24, <1>25, <1>26, <1>27, <1>28 DEF GNext, GuardianStep,
    InvokerStep, HandlerStep

\* A report is made once, after the wait for the application.
LEMMA ReportStep ==
  GTypeOK /\ StageKnown /\ ReportKnown /\ [GNext]_guardianVars => ReportKnown'
<1> SUFFICES ASSUME GTypeOK /\ StageKnown /\ ReportKnown, [GNext]_guardianVars PROVE ReportKnown'
  OBVIOUS
<1> USE GuardianAssumption DEF GTypeOK, InvPhase, GrdPhase, AppPhase, Signal,
    Outcome, StageKnown, ReportKnown
<1>1. ASSUME ForkGuardian PROVE ReportKnown'
  BY <1>1 DEF ForkGuardian, appVars, signalVars
<1>2. ASSUME MarkSubreaper PROVE ReportKnown'
  BY <1>2 DEF MarkSubreaper, callerVars, appVars, signalVars
<1>3. ASSUME Refuse PROVE ReportKnown'
  BY <1>3 DEF Refuse, callerVars, appVars, signalVars
<1>4. ASSUME InstallForwarding PROVE ReportKnown'
  BY <1>4 DEF InstallForwarding, callerVars, appVars, signalVars
<1>5. ASSUME ForkForeground PROVE ReportKnown'
  BY <1>5 DEF ForkForeground, callerVars, signalVars
<1>6. ASSUME Unblock PROVE ReportKnown'
  BY <1>6 DEF Unblock, Aim, callerVars, appVars, signalVars
<1>7. ASSUME ReapForeground PROVE ReportKnown'
  BY <1>7 DEF ReapForeground, callerVars, signalVars
<1>8. ASSUME Detach PROVE ReportKnown'
  BY <1>8 DEF Detach, StopForwarding, callerVars, appVars, signalVars
<1>9. ASSUME Report PROVE ReportKnown'
  BY <1>9 DEF Report, Reportable, ReportedOutcome, callerVars, appVars,
    signalVars
<1>10. ASSUME Release PROVE ReportKnown'
  BY <1>10 DEF Release, SubtreeIsEmpty, callerVars, appVars, signalVars
<1>11. ASSUME Proxy PROVE ReportKnown'
  BY <1>11 DEF Proxy, guardVars, appVars, signalVars
<1>12. ASSUME Receive PROVE ReportKnown'
  BY <1>12 DEF Receive, GuardianAlive, guardVars, appVars, signalVars
<1>13. ASSUME Start PROVE ReportKnown'
  BY <1>13 DEF Start, callerVars, guardVars, signalVars
<1>14. ASSUME Recycle PROVE ReportKnown'
  BY <1>14 DEF Recycle, callerVars, guardVars, signalVars
<1>15. ASSUME KillInvoker PROVE ReportKnown'
  BY <1>15 DEF KillInvoker, InvokerAlive, guardVars, appVars
<1>16. ASSUME GuardianKilled PROVE ReportKnown'
  BY <1>16 DEF GuardianKilled, GuardianAlive, callerVars
<1>17. ASSUME NEW d \in Daemon, ReapOrphan(d) PROVE ReportKnown'
  BY <1>17 DEF ReapOrphan, Waits, callerVars, guardVars, signalVars
<1>18. ASSUME NEW d \in Daemon, Fork(d) PROVE ReportKnown'
  BY <1>18 DEF Fork, callerVars, guardVars, signalVars
<1>19. ASSUME NEW d \in Daemon, Daemonize(d) PROVE ReportKnown'
  BY <1>19 DEF Daemonize, GuardianAlive, callerVars, guardVars, signalVars
<1>20. ASSUME NEW d \in Daemon, DaemonExits(d) PROVE ReportKnown'
  BY <1>20 DEF DaemonExits, GuardianAlive, callerVars, guardVars, signalVars
<1>21. ASSUME NEW d \in Daemon, Collect(d) PROVE ReportKnown'
  BY <1>21 DEF Collect, callerVars, guardVars, signalVars
<1>22. ASSUME NEW o \in Outcome, ForegroundExits(o) PROVE ReportKnown'
  BY <1>22 DEF ForegroundExits, GuardianAlive, callerVars, guardVars
<1>23. ASSUME NEW t \in Signal, ProxyHandles(t) PROVE ReportKnown'
  BY <1>23 DEF ProxyHandles, GuardianAlive, callerVars, guardVars, appVars
<1>24. ASSUME NEW t \in Signal, GuardianHandles(t) PROVE ReportKnown'
  BY <1>24 DEF GuardianHandles, AppAlive, callerVars, guardVars, appVars
<1>25. ASSUME NEW t \in Signal, AppHandles(t) PROVE ReportKnown'
  BY <1>25 DEF AppHandles, callerVars, guardVars, appVars
<1>26. ASSUME NEW t \in Signal, NEW who \in SUBSET Process, Reaches(t, who)
       PROVE  ReportKnown'
  BY <1>26 DEF Reaches, Process, callerVars, guardVars, appVars
<1>27. ASSUME NEW t \in Signal, Raise(t) \/ SendToGroup(t) \/ \E p \in Process : SendTo(t, p)
       PROVE  ReportKnown'
  BY <1>26, <1>27 DEF Raise, SendToGroup, SendTo, TheGroup
<1>28. CASE UNCHANGED guardianVars
  BY <1>28 DEF guardianVars, callerVars, guardVars, appVars, signalVars
<1> QED
  BY <1>1, <1>2, <1>3, <1>4, <1>5, <1>6, <1>7, <1>8, <1>9, <1>10, <1>11, <1>12,
    <1>13, <1>14, <1>15, <1>16, <1>17, <1>18, <1>19, <1>20, <1>21, <1>22,
    <1>23, <1>24, <1>25, <1>26, <1>27, <1>28 DEF GNext, GuardianStep,
    InvokerStep, HandlerStep

\* A daemon becomes the guardian's child when whoever waits for it has ended.
LEMMA SubtreeStep ==
  GTypeOK /\ StageKnown /\ ReportKnown /\ SubtreeKnown /\ [GNext]_guardianVars => SubtreeKnown'
<1> SUFFICES ASSUME GTypeOK /\ StageKnown /\ ReportKnown /\ SubtreeKnown, [GNext]_guardianVars PROVE SubtreeKnown'
  OBVIOUS
<1> USE GuardianAssumption DEF GTypeOK, GrdPhase, AppPhase, Outcome,
    StageKnown, ReportKnown, SubtreeKnown, GuardianAlive, AppAlive
<1>1. ASSUME ForkGuardian PROVE SubtreeKnown'
  BY <1>1 DEF ForkGuardian, appVars, signalVars
<1>2. ASSUME MarkSubreaper PROVE SubtreeKnown'
  BY <1>2 DEF MarkSubreaper, callerVars, appVars, signalVars
<1>3. ASSUME Refuse PROVE SubtreeKnown'
  BY <1>3 DEF Refuse, callerVars, appVars, signalVars
<1>4. ASSUME InstallForwarding PROVE SubtreeKnown'
  BY <1>4 DEF InstallForwarding, callerVars, appVars, signalVars
<1>5. ASSUME ForkForeground PROVE SubtreeKnown'
  BY <1>5 DEF ForkForeground, callerVars, signalVars
<1>6. ASSUME Unblock PROVE SubtreeKnown'
  BY <1>6 DEF Unblock, Aim, callerVars, appVars, signalVars
<1>7. ASSUME ReapForeground PROVE SubtreeKnown'
  BY <1>7 DEF ReapForeground, callerVars, signalVars
<1>8. ASSUME Detach PROVE SubtreeKnown'
  BY <1>8 DEF Detach, StopForwarding, callerVars, appVars, signalVars
<1>9. ASSUME Report PROVE SubtreeKnown'
  BY <1>9 DEF Report, Reportable, ReportedOutcome, callerVars, appVars,
    signalVars
<1>10. ASSUME Release PROVE SubtreeKnown'
  BY <1>10 DEF Release, SubtreeIsEmpty, callerVars, appVars, signalVars
<1>11. ASSUME Proxy PROVE SubtreeKnown'
  BY <1>11 DEF Proxy, guardVars, appVars, signalVars
<1>12. ASSUME Receive PROVE SubtreeKnown'
  BY <1>12 DEF Receive, guardVars, appVars, signalVars
<1>13. ASSUME Start PROVE SubtreeKnown'
  BY <1>13 DEF Start, callerVars, guardVars, signalVars
<1>14. ASSUME Recycle PROVE SubtreeKnown'
  BY <1>14 DEF Recycle, callerVars, guardVars, signalVars
<1>15. ASSUME KillInvoker PROVE SubtreeKnown'
  BY <1>15 DEF KillInvoker, InvokerAlive, guardVars, appVars
<1>16. ASSUME GuardianKilled PROVE SubtreeKnown'
  BY <1>16 DEF GuardianKilled, callerVars
<1>17. ASSUME NEW d \in Daemon, ReapOrphan(d) PROVE SubtreeKnown'
  BY <1>17 DEF ReapOrphan, Waits, callerVars, guardVars, signalVars
<1>18. ASSUME NEW d \in Daemon, Fork(d) PROVE SubtreeKnown'
  BY <1>18 DEF Fork, callerVars, guardVars, signalVars
<1>19. ASSUME NEW d \in Daemon, Daemonize(d) PROVE SubtreeKnown'
  BY <1>19 DEF Daemonize, callerVars, guardVars, signalVars
<1>20. ASSUME NEW d \in Daemon, DaemonExits(d) PROVE SubtreeKnown'
  BY <1>20 DEF DaemonExits, callerVars, guardVars, signalVars
<1>21. ASSUME NEW d \in Daemon, Collect(d) PROVE SubtreeKnown'
  BY <1>21 DEF Collect, callerVars, guardVars, signalVars
<1>22. ASSUME NEW o \in Outcome, ForegroundExits(o) PROVE SubtreeKnown'
  BY <1>22 DEF ForegroundExits, callerVars, guardVars
<1>23. ASSUME NEW t \in Signal, ProxyHandles(t) PROVE SubtreeKnown'
  BY <1>23 DEF ProxyHandles, callerVars, guardVars, appVars
<1>24. ASSUME NEW t \in Signal, GuardianHandles(t) PROVE SubtreeKnown'
  BY <1>24 DEF GuardianHandles, callerVars, guardVars, appVars
<1>25. ASSUME NEW t \in Signal, AppHandles(t) PROVE SubtreeKnown'
  BY <1>25 DEF AppHandles, callerVars, guardVars, appVars
<1>26. ASSUME NEW t \in Signal, NEW who \in SUBSET Process, Reaches(t, who)
       PROVE  SubtreeKnown'
  BY <1>26 DEF Reaches, Process, callerVars, guardVars, appVars
<1>27. ASSUME NEW t \in Signal, Raise(t) \/ SendToGroup(t) \/ \E p \in Process : SendTo(t, p)
       PROVE  SubtreeKnown'
  BY <1>26, <1>27 DEF Raise, SendToGroup, SendTo, TheGroup
<1>28. CASE UNCHANGED guardianVars
  BY <1>28 DEF guardianVars, callerVars, guardVars, appVars, signalVars
<1> QED
  BY <1>1, <1>2, <1>3, <1>4, <1>5, <1>6, <1>7, <1>8, <1>9, <1>10, <1>11, <1>12,
    <1>13, <1>14, <1>15, <1>16, <1>17, <1>18, <1>19, <1>20, <1>21, <1>22,
    <1>23, <1>24, <1>25, <1>26, <1>27, <1>28 DEF GNext, GuardianStep,
    InvokerStep, HandlerStep

\* A signal that is passed on leaves the process that passes it on.
LEMMA SignalStep ==
  GTypeOK /\ StageKnown /\ SignalsKnown /\ [GNext]_guardianVars => SignalsKnown'
<1> SUFFICES ASSUME GTypeOK /\ StageKnown /\ SignalsKnown, [GNext]_guardianVars PROVE SignalsKnown'
  OBVIOUS
<1> USE GuardianAssumption DEF GTypeOK, InvPhase, GrdPhase, AppPhase, Signal,
    Outcome, Process, StageKnown, SignalsKnown, Due, Was
<1>1. ASSUME ForkGuardian PROVE SignalsKnown'
  BY <1>1 DEF ForkGuardian, appVars, signalVars
<1>2. ASSUME MarkSubreaper PROVE SignalsKnown'
  BY <1>2 DEF MarkSubreaper, callerVars, appVars, signalVars
<1>3. ASSUME Refuse PROVE SignalsKnown'
  BY <1>3 DEF Refuse, callerVars, appVars, signalVars
<1>4. ASSUME InstallForwarding PROVE SignalsKnown'
  BY <1>4 DEF InstallForwarding, callerVars, appVars, signalVars
<1>5. ASSUME ForkForeground PROVE SignalsKnown'
  BY <1>5 DEF ForkForeground, callerVars, signalVars
<1>6. ASSUME Unblock PROVE SignalsKnown'
  BY <1>6 DEF Unblock, Aim, callerVars, appVars, signalVars
<1>7. ASSUME ReapForeground PROVE SignalsKnown'
  BY <1>7 DEF ReapForeground, callerVars, signalVars
<1>8. ASSUME Detach PROVE SignalsKnown'
  BY <1>8 DEF Detach, StopForwarding, callerVars, appVars, signalVars
<1>9. ASSUME Report PROVE SignalsKnown'
  BY <1>9 DEF Report, Reportable, ReportedOutcome, callerVars, appVars,
    signalVars
<1>10. ASSUME Release PROVE SignalsKnown'
  BY <1>10 DEF Release, SubtreeIsEmpty, callerVars, appVars, signalVars
<1>11. ASSUME Proxy PROVE SignalsKnown'
  BY <1>11 DEF Proxy, guardVars, appVars, signalVars
<1>12. ASSUME Receive PROVE SignalsKnown'
  BY <1>12 DEF Receive, GuardianAlive, guardVars, appVars, signalVars
<1>13. ASSUME Start PROVE SignalsKnown'
  BY <1>13 DEF Start, callerVars, guardVars, signalVars
<1>14. ASSUME Recycle PROVE SignalsKnown'
  BY <1>14 DEF Recycle, callerVars, guardVars, signalVars
<1>15. ASSUME KillInvoker PROVE SignalsKnown'
  BY <1>15 DEF KillInvoker, InvokerAlive, guardVars, appVars
<1>16. ASSUME GuardianKilled PROVE SignalsKnown'
  BY <1>16 DEF GuardianKilled, GuardianAlive, callerVars
<1>17. ASSUME NEW d \in Daemon, ReapOrphan(d) PROVE SignalsKnown'
  BY <1>17 DEF ReapOrphan, Waits, callerVars, guardVars, signalVars
<1>18. ASSUME NEW d \in Daemon, Fork(d) PROVE SignalsKnown'
  BY <1>18 DEF Fork, callerVars, guardVars, signalVars
<1>19. ASSUME NEW d \in Daemon, Daemonize(d) PROVE SignalsKnown'
  BY <1>19 DEF Daemonize, GuardianAlive, callerVars, guardVars, signalVars
<1>20. ASSUME NEW d \in Daemon, DaemonExits(d) PROVE SignalsKnown'
  BY <1>20 DEF DaemonExits, GuardianAlive, callerVars, guardVars, signalVars
<1>21. ASSUME NEW d \in Daemon, Collect(d) PROVE SignalsKnown'
  BY <1>21 DEF Collect, callerVars, guardVars, signalVars
<1>22. ASSUME NEW o \in Outcome, ForegroundExits(o) PROVE SignalsKnown'
  BY <1>22 DEF ForegroundExits, GuardianAlive, callerVars, guardVars
<1>23. ASSUME NEW t \in Signal, ProxyHandles(t) PROVE SignalsKnown'
  BY <1>23 DEF ProxyHandles, Forwards, GuardianAlive, callerVars, guardVars,
    appVars
<1>24. ASSUME NEW t \in Signal, GuardianHandles(t) PROVE SignalsKnown'
  BY <1>24 DEF GuardianHandles, Forwards, AppAlive, callerVars, guardVars,
    appVars
<1>25. ASSUME NEW t \in Signal, AppHandles(t) PROVE SignalsKnown'
  BY <1>25 DEF AppHandles, callerVars, guardVars, appVars
<1>26. ASSUME NEW t \in Signal, NEW who \in SUBSET Process, Reaches(t, who)
       PROVE  SignalsKnown'
  BY <1>26 DEF Reaches, Process, callerVars, guardVars, appVars
<1>27. ASSUME NEW t \in Signal, Raise(t) \/ SendToGroup(t) \/ \E p \in Process : SendTo(t, p)
       PROVE  SignalsKnown'
  BY <1>26, <1>27 DEF Raise, SendToGroup, SendTo, TheGroup
<1>28. CASE UNCHANGED guardianVars
  BY <1>28 DEF guardianVars, callerVars, guardVars, appVars, signalVars
<1> QED
  BY <1>1, <1>2, <1>3, <1>4, <1>5, <1>6, <1>7, <1>8, <1>9, <1>10, <1>11, <1>12,
    <1>13, <1>14, <1>15, <1>16, <1>17, <1>18, <1>19, <1>20, <1>21, <1>22,
    <1>23, <1>24, <1>25, <1>26, <1>27, <1>28 DEF GNext, GuardianStep,
    InvokerStep, HandlerStep

\* The proxy ends by the record, or because the guardian is gone without one.
LEMMA EndsStep ==
  GTypeOK /\ StageKnown /\ ReportKnown /\ EndsAsTheApplication /\ [GNext]_guardianVars => EndsAsTheApplication'
<1> SUFFICES ASSUME GTypeOK /\ StageKnown /\ ReportKnown /\ EndsAsTheApplication, [GNext]_guardianVars PROVE EndsAsTheApplication'
  OBVIOUS
<1> USE GuardianAssumption DEF GTypeOK, InvPhase, GrdPhase, AppPhase, Signal,
    Outcome, StageKnown, ReportKnown, EndsAsTheApplication, AppAlive,
    GuardianAlive
<1>1. ASSUME ForkGuardian PROVE EndsAsTheApplication'
  BY <1>1 DEF ForkGuardian, appVars, signalVars
<1>2. ASSUME MarkSubreaper PROVE EndsAsTheApplication'
  BY <1>2 DEF MarkSubreaper, callerVars, appVars, signalVars
<1>3. ASSUME Refuse PROVE EndsAsTheApplication'
  BY <1>3 DEF Refuse, callerVars, appVars, signalVars
<1>4. ASSUME InstallForwarding PROVE EndsAsTheApplication'
  BY <1>4 DEF InstallForwarding, callerVars, appVars, signalVars
<1>5. ASSUME ForkForeground PROVE EndsAsTheApplication'
  BY <1>5 DEF ForkForeground, callerVars, signalVars
<1>6. ASSUME Unblock PROVE EndsAsTheApplication'
  BY <1>6 DEF Unblock, Aim, callerVars, appVars, signalVars
<1>7. ASSUME ReapForeground PROVE EndsAsTheApplication'
  BY <1>7 DEF ReapForeground, callerVars, signalVars
<1>8. ASSUME Detach PROVE EndsAsTheApplication'
  BY <1>8 DEF Detach, StopForwarding, callerVars, appVars, signalVars
<1>9. ASSUME Report PROVE EndsAsTheApplication'
  BY <1>9 DEF Report, Reportable, ReportedOutcome, callerVars, appVars,
    signalVars
<1>10. ASSUME Release PROVE EndsAsTheApplication'
  BY <1>10 DEF Release, SubtreeIsEmpty, callerVars, appVars, signalVars
<1>11. ASSUME Proxy PROVE EndsAsTheApplication'
  BY <1>11 DEF Proxy, guardVars, appVars, signalVars
<1>12. ASSUME Receive PROVE EndsAsTheApplication'
  BY <1>12 DEF Receive, guardVars, appVars, signalVars
<1>13. ASSUME Start PROVE EndsAsTheApplication'
  BY <1>13 DEF Start, callerVars, guardVars, signalVars
<1>14. ASSUME Recycle PROVE EndsAsTheApplication'
  BY <1>14 DEF Recycle, callerVars, guardVars, signalVars
<1>15. ASSUME KillInvoker PROVE EndsAsTheApplication'
  BY <1>15 DEF KillInvoker, InvokerAlive, guardVars, appVars
<1>16. ASSUME GuardianKilled PROVE EndsAsTheApplication'
  BY <1>16 DEF GuardianKilled, callerVars
<1>17. ASSUME NEW d \in Daemon, ReapOrphan(d) PROVE EndsAsTheApplication'
  BY <1>17 DEF ReapOrphan, Waits, callerVars, guardVars, signalVars
<1>18. ASSUME NEW d \in Daemon, Fork(d) PROVE EndsAsTheApplication'
  BY <1>18 DEF Fork, callerVars, guardVars, signalVars
<1>19. ASSUME NEW d \in Daemon, Daemonize(d) PROVE EndsAsTheApplication'
  BY <1>19 DEF Daemonize, callerVars, guardVars, signalVars
<1>20. ASSUME NEW d \in Daemon, DaemonExits(d) PROVE EndsAsTheApplication'
  BY <1>20 DEF DaemonExits, callerVars, guardVars, signalVars
<1>21. ASSUME NEW d \in Daemon, Collect(d) PROVE EndsAsTheApplication'
  BY <1>21 DEF Collect, callerVars, guardVars, signalVars
<1>22. ASSUME NEW o \in Outcome, ForegroundExits(o) PROVE EndsAsTheApplication'
  BY <1>22 DEF ForegroundExits, callerVars, guardVars
<1>23. ASSUME NEW t \in Signal, ProxyHandles(t) PROVE EndsAsTheApplication'
  BY <1>23 DEF ProxyHandles, callerVars, guardVars, appVars
<1>24. ASSUME NEW t \in Signal, GuardianHandles(t) PROVE EndsAsTheApplication'
  BY <1>24 DEF GuardianHandles, callerVars, guardVars, appVars
<1>25. ASSUME NEW t \in Signal, AppHandles(t) PROVE EndsAsTheApplication'
  BY <1>25 DEF AppHandles, callerVars, guardVars, appVars
<1>26. ASSUME NEW t \in Signal, NEW who \in SUBSET Process, Reaches(t, who)
       PROVE  EndsAsTheApplication'
  BY <1>26 DEF Reaches, Process, callerVars, guardVars, appVars
<1>27. ASSUME NEW t \in Signal, Raise(t) \/ SendToGroup(t) \/ \E p \in Process : SendTo(t, p)
       PROVE  EndsAsTheApplication'
  BY <1>26, <1>27 DEF Raise, SendToGroup, SendTo, TheGroup
<1>28. CASE UNCHANGED guardianVars
  BY <1>28 DEF guardianVars, callerVars, guardVars, appVars, signalVars
<1> QED
  BY <1>1, <1>2, <1>3, <1>4, <1>5, <1>6, <1>7, <1>8, <1>9, <1>10, <1>11, <1>12,
    <1>13, <1>14, <1>15, <1>16, <1>17, <1>18, <1>19, <1>20, <1>21, <1>22,
    <1>23, <1>24, <1>25, <1>26, <1>27, <1>28 DEF GNext, GuardianStep,
    InvokerStep, HandlerStep

-----------------------------------------------------------------------------
\* The invariant holds when the launch begins.
LEMMA Initially == GInit => IInv
<1> SUFFICES ASSUME GInit PROVE IInv
  OBVIOUS
<1> USE GuardianAssumption DEF GInit
<1>1. GTypeOK
  <2>1. pending \in [Process -> SUBSET Signal] /\ sentTo \in [Signal -> SUBSET Process]
    OBVIOUS
  <2>2. got \in [Signal -> Nat]
    OBVIOUS
  <2>3. deaths \in 0..MaxDeaths
    OBVIOUS
  <2> QED
    BY <2>1, <2>2, <2>3 DEF GTypeOK, InvPhase, GrdPhase, AppPhase, Outcome
<1>2. StageKnown /\ ReportKnown /\ SubtreeKnown /\ EndsAsTheApplication
  BY DEF StageKnown, ReportKnown, SubtreeKnown, EndsAsTheApplication, AppAlive, Outcome
<1>3. SignalsKnown
  BY DEF SignalsKnown, Due, Was, Process
<1> QED
  BY <1>1, <1>2, <1>3 DEF IInv

\* It is kept by every step.
LEMMA Inductive == IInv /\ [GNext]_guardianVars => IInv'
<1> QED
  BY TypesStep, StageStep, ReportStep, SubtreeStep, SignalStep, EndsStep DEF IInv

\* The invariant of the guardian holds throughout.
LEMMA Invariance == GSpec => []IInv
<1> QED
  BY Initially, Inductive, PTL DEF GSpec

-----------------------------------------------------------------------------
\* Every variable keeps its type, and FOREGROUND names the application only from
\* the fork until the guardian has seen it reaped.
THEOREM TypesHold == GSpec => []GTypeOK
<1>1. IInv => GTypeOK
  BY DEF IInv
<1> QED
  BY <1>1, Invariance, PTL

\* As many processes as a signal was sent to, counted one by one.
LEMMA ProcessesCounted ==
  ASSUME NEW t \in Signal, sentTo[t] \subseteq Process
  PROVE  /\ Cardinality(sentTo[t]) = Was(t, "invoker") + Was(t, "guardian") + Was(t, "app")
         /\ Cardinality(sentTo[t] \cap {"app"}) = Was(t, "app")
<1> DEFINE Ind(S, p) == IF p \in S THEN 1 ELSE 0
<1>1. ASSUME NEW S, NEW p, IsFiniteSet(S \ {p})
      PROVE  IsFiniteSet(S) /\ Cardinality(S) = Cardinality(S \ {p}) + Ind(S, p)
  <2>1. CASE p \in S
    <3>1. S = (S \ {p}) \cup {p}
      BY <2>1
    <3>2. Cardinality(S \ {p}) \in Nat
      BY <1>1, FS_CardinalityType
    <3>3. IsFiniteSet((S \ {p}) \cup {p})
            /\ Cardinality((S \ {p}) \cup {p}) = Cardinality(S \ {p}) + 1
      BY <1>1, FS_AddElement
    <3> QED
      BY <2>1, <3>1, <3>2, <3>3
  <2>2. CASE p \notin S
    <3>1. S = S \ {p}
      BY <2>2
    <3>2. Cardinality(S) \in Nat /\ Ind(S, p) = 0
      BY <1>1, <2>2, <3>1, FS_CardinalityType
    <3> QED
      BY <1>1, <3>1, <3>2
  <2> QED
    BY <2>1, <2>2
<1>2. IsFiniteSet({}) /\ Cardinality({}) = 0
  BY FS_EmptySet
<1>3. ASSUME NEW S \in SUBSET {"app"}
      PROVE  IsFiniteSet(S) /\ Cardinality(S) = Ind(S, "app")
  <2>1. S \ {"app"} = {}
    OBVIOUS
  <2>2. IsFiniteSet(S \ {"app"}) /\ Cardinality(S \ {"app"}) = 0
    BY <1>2, <2>1
  <2> QED
    BY <1>1, <2>2
<1>4. ASSUME NEW S \in SUBSET {"guardian", "app"}
      PROVE  IsFiniteSet(S) /\ Cardinality(S) = Ind(S, "guardian") + Ind(S, "app")
  <2>1. IsFiniteSet(S \ {"guardian"}) /\ Cardinality(S \ {"guardian"}) = Ind(S, "app")
    <3>1. S \ {"guardian"} \in SUBSET {"app"} /\ Ind(S \ {"guardian"}, "app") = Ind(S, "app")
      OBVIOUS
    <3> QED
      BY <1>3, <3>1
  <2> QED
    BY <1>1, <2>1
<1>5. ASSUME NEW S \in SUBSET Process
      PROVE  Cardinality(S) = Ind(S, "invoker") + Ind(S, "guardian") + Ind(S, "app")
  <2>1. IsFiniteSet(S \ {"invoker"})
          /\ Cardinality(S \ {"invoker"}) = Ind(S, "guardian") + Ind(S, "app")
    <3>1. /\ S \ {"invoker"} \in SUBSET {"guardian", "app"}
          /\ Ind(S \ {"invoker"}, "guardian") = Ind(S, "guardian")
          /\ Ind(S \ {"invoker"}, "app") = Ind(S, "app")
      BY DEF Process
    <3> QED
      BY <1>4, <3>1
  <2> QED
    BY <1>1, <2>1
<1> QED
  BY <1>3, <1>5 DEF Was

\* The application receives at most one of a signal for each of the three processes it
\* was sent to, and of one the terminal raised its own alone: forwarding adds none.
THEOREM SignalsArriveAsSent == GSpec => []ReceivedAsSent
<1>1. IInv => ReceivedAsSent
  <2> SUFFICES ASSUME IInv, NEW t \in Signal PROVE got[t] <= Cardinality(Copies(t))
    BY DEF ReceivedAsSent
  <2>1. sentTo[t] \subseteq Process /\ got[t] \in Nat
    BY DEF IInv, GTypeOK
  <2>2. CASE t \in Sent
    <3>1. got[t] <= Was(t, "invoker") + Was(t, "guardian") + Was(t, "app")
      BY <2>1, <2>2 DEF IInv, SignalsKnown, Due, Was
    <3> QED
      BY <2>1, <2>2, <3>1, ProcessesCounted DEF Copies
  <2>3. CASE t \notin Sent
    <3>1. got[t] <= Was(t, "app")
      BY <2>1, <2>3 DEF IInv, SignalsKnown, Due, Was
    <3> QED
      BY <2>1, <2>3, <3>1, ProcessesCounted DEF Copies
  <2> QED
    BY <2>2, <2>3
<1> QED
  BY <1>1, Invariance, PTL

\* The claims are held while anything the application started runs, unless the
\* guardian was killed.
THEOREM LeasesCoverSubtrees == GSpec => []LeaseCoversSubtree
<1>1. IInv => LeaseCoversSubtree
  BY DEF IInv, GTypeOK, GrdPhase, StageKnown, SubtreeKnown, LeaseCoversSubtree,
    LeaseHeld, GuardianAlive, AppAlive
<1> QED
  BY <1>1, Invariance, PTL

\* The proxy ends the way the application did, and only after it.
THEOREM ProxiesEndAsTheirApplications == GSpec => []EndsAsTheApplication
<1>1. IInv => EndsAsTheApplication
  BY DEF IInv
<1> QED
  BY <1>1, Invariance, PTL

-----------------------------------------------------------------------------
(* The trees of the launches.                                              *)

\* The guardian, or the launch that has none, removes the tree.
Releasing(l) == guard[l] = "releasing" \/ turn[l] = "removing"

\* Where a launch may be.
Turning ==
  {"idle", "trying", "mounting", "sweeping", "claiming", "based", "staged", "inside",
   "filling", "undoing", "backing out", "letting go", "published", "ready", "waiting",
   "removing", "over", "failed"}
\* Before it has its claim.
Early == {"idle", "trying", "mounting", "sweeping", "claiming"}
\* While it has the claim itself.
Working == {"based", "staged", "inside", "filling", "undoing", "backing out", "letting go",
            "published", "ready"}
\* It has its process id.
Active(l) == turn[l] \notin {"idle", "failed", "over"}
Guarding == {"starting", "watching", "releasing"}

\* The types of what the processes have, and of the directories.
OwnTypes ==
  /\ asked \in [Starter -> Asked] /\ tried \in [Starter -> 0 .. 6]
  /\ turn \in [Starter -> Turning] /\ number \in [Starter -> ProcId \cup {"none"}]
  /\ unshared \in [Starter -> SUBSET {"fuse", "tmpfs", "unmapped"}]
  /\ written \in [Starter -> SUBSET Part]
  /\ copies \in [Starter -> SUBSET {"launch", "guardian", "application"}]
  /\ stageHeld \in [Starter -> BOOLEAN]
  /\ visit \in [Starter -> SUBSET TreeName]
  /\ clearing \in [Starter -> TreeName \cup {NoName}]
  /\ guard \in [Starter -> Guarding \cup {"none", "gone", "killed"}]
  /\ program \in [Starter -> {"none", "running", "daemon", "gone"}]
  /\ ends \in Nat

PlaceTypes ==
  /\ root \in [TreeName -> (SUBSET Part) \cup {NoTree}]
  /\ writer \in [TreeName -> Starter \cup {"nobody"}]
  /\ mountedOn \in [Starter -> TreeName \cup {NoName}]

\* The turns that a mode has, and the number a launch has from the start.
Numbered(l) ==
  /\ turn[l] # "idle" => number[l] \in ProcId
  /\ turn[l] \notin {"idle", "failed"} /\ Mode(l) = "tmpfs" => ~asked[l].setuid
  /\ turn[l] \notin {"idle", "failed"} => tried[l] \in 1 .. 6
  /\ turn[l] = "sweeping" => ~OfOther(Mode(l))
  /\ turn[l] = "mounting" => Mode(l) = "fuse"
  /\ turn[l] \in Working \cup {"claiming", "waiting", "removing"} =>
       Mode(l) \in {"tmpfs", "rundir"}
  /\ turn[l] = "inside" => Mode(l) = "tmpfs"
  /\ turn[l] = "undoing" => Mode(l) = "rundir"

\* Which process holds the claims at which turn.
Held(l) ==
  /\ "launch" \in copies[l] <=> turn[l] \in Working
  /\ "guardian" \in copies[l] <=> guard[l] \in Guarding
  /\ "application" \in copies[l] => Occupied(l)
  /\ stageHeld[l] =>
       turn[l] \in {"staged", "inside", "filling", "undoing", "backing out", "published"}
  /\ turn[l] \in {"staged", "inside", "filling", "undoing", "published"} => stageHeld[l]
  /\ clearing[l] # NoName => turn[l] = "sweeping"

\* The guardian and the application come after the launch's own turns.
Followed(l) ==
  /\ guard[l] # "none" => turn[l] \in {"waiting", "over"} /\ Mode(l) \in {"tmpfs", "rundir"}
  /\ guard[l] = "none" => program[l] = "none"
  /\ Occupied(l) => guard[l] \in {"watching", "killed"}
  /\ guard[l] = "releasing" => ~Occupied(l)

\* Turns that may still lead to another mode.
InHost(l) ==
  \/ turn[l] \in Early \cup {"based", "staged", "backing out", "letting go"}
  \/ turn[l] \in {"filling", "undoing"} /\ Mode(l) = "rundir"

\* Then it has mounted nothing and is in the host's namespaces.
Outside(l) ==
  InHost(l) =>
    /\ mountedOn[l] = NoName
    /\ unshared[l] \subseteq (IF asked[l].setuid THEN {} ELSE {"fuse", "unmapped"})

HostKept(l) ==
  /\ asked' = asked
  /\ InHost(l)' =>
       /\ InHost(l) /\ turn[l] # "inside" /\ (turn[l] = "filling" => Mode(l) # "tmpfs")
       /\ \/ unshared'[l] = unshared[l]
          \/ ~asked[l].setuid /\ \E w \in {"fuse", "unmapped"} :
                                   unshared'[l] = unshared[l] \cup {w}

\* Who runs has a number of its own; a guardian may share it with a new launch.
Apart ==
  \A l, k \in Starter : l # k /\ Active(l) /\ Active(k) => number[l] # number[k]

\* What is claimed is not cleared.
Excluded == \A n \in TreeName : \A l \in Starter : Claims(l, n) => ~Cleared(n)

ActiveKept(l) ==
  Active(l)' => \/ Active(l) /\ number'[l] = number[l]
                \/ \A k \in Starter : Active(k) => number[k] # number'[l]

Claimed(l) ==
  /\ \/ clearing'[l] \in {clearing[l], NoName}
     \/ \E n \in TreeName : StartsClearing(l, n) /\ clearing'[l] = n
  /\ \/ copies'[l] = {}
     \/ copies[l] # {} /\ tried'[l] = tried[l] /\ number'[l] = number[l]
     \/ ClaimsBase(l)
  /\ stageHeld'[l] => \/ stageHeld[l] /\ number'[l] = number[l]
                      \/ ClaimsStage(l)

ClaimKept(l) ==
  \A n \in TreeName :
    /\ Claims(l, n)' => Claims(l, n) \/ (~Cleared(n) /\ clearing'[l] = NoName)
    /\ clearing'[l] = n => \/ clearing[l] = n
                           \/ MayRemove(n, Starter) /\ ~Claims(l, n)'

\* The extraction of a launch is in its staging tree until it is renamed, and then in
\* its tree until the guardian is done.
Wrote(l, n) ==
  /\ Mode(l) = "rundir"
  /\ \/ n = Staging(l) /\ turn[l] \in {"filling", "undoing", "over"} /\ guard[l] = "none"
     \/ /\ n = Base(l) /\ turn[l] \in {"published", "ready", "waiting", "removing", "over"}
        /\ guard[l] # "gone"

Passing(l) ==
  Mode(l) = "rundir" =>
    /\ turn[l] \in {"filling", "undoing", "over", "published", "ready", "waiting", "removing"} =>
         tried'[l] = tried[l] /\ number'[l] = number[l]
    /\ turn[l] \in {"filling", "undoing", "over"} /\ guard[l] = "none" =>
         \/ turn'[l] \in {"filling", "undoing", "over"} /\ guard'[l] = "none"
         \/ Renames(l) \/ Undoes(l)
    /\ turn[l] \in {"published", "ready", "waiting", "removing", "over"} /\ guard[l] # "gone" =>
         \/ /\ turn'[l] \in {"published", "ready", "waiting", "removing", "over"}
            /\ guard'[l] # "gone"
         \/ GuardianLeaves(l) \/ FailsAtFork(l)

WrittenBy(l) ==
  \A n \in TreeName : writer[n] = l => Wrote(l, n)

\* The staging tree holds what has been written.
Fills(l) ==
  turn[l] \in {"staged", "filling"} /\ Mode(l) = "rundir" =>
    root[Staging(l)] # NoTree /\ written[l] \subseteq root[Staging(l)]

Filling(l) ==
  turn'[l] \in {"staged", "filling"} /\ Mode(l)' = "rundir" =>
    /\ tried'[l] = tried[l] /\ number'[l] = number[l]
    /\ \/ UNCHANGED placeVars /\ written'[l] = written[l] /\ turn[l] \in {"staged", "filling"}
       \/ ClaimsStage(l)
       \/ \E p \in Part : Extracts(l, p)

\* The complete view of the launch is where the application will look.
Whole(l) ==
  \/ Mode(l) = "tmpfs" /\ mountedOn[l] = Base(l) /\ written[l] = Part
  \/ Mode(l) = "rundir" /\ root[Base(l)] = Part /\ writer[Base(l)] = l

\* From its publication until the application is gone.
Needs(l) ==
  /\ copies[l] # {}
  /\ turn[l] \in {"published", "ready"} \/ guard[l] = "starting" \/ Occupied(l)

InPlace == \A l \in Starter : Needs(l) => Whole(l)

NeedsKept(l) ==
  Needs(l)' =>
    \/ MovesMount(l) \/ Renames(l)
    \/ /\ Needs(l) /\ ~Releasing(l)
       /\ turn[l] \in {"published", "ready", "waiting", "over"}
       /\ tried'[l] = tried[l] /\ number'[l] = number[l] /\ written'[l] = written[l]

\* What a step of a launch or of its guardian does to the directories.
Places(l) ==
  \/ UNCHANGED placeVars
  \/ turn[l] \in {"claiming", "based"} /\ \E n \in {Base(l), Staging(l)} : MakeDirectory(n)
  \/ /\ clearing[l] # NoName
     /\ (RemovesPart(clearing[l]) \/ RemovedIfEmpty(clearing[l]))
  \/ turn[l] \in {"staged", "published", "backing out"} /\ RemovedIfEmpty(Staging(l))
  \/ turn[l] = "undoing" /\ Removed(Staging(l))
  \/ MountsTmpfs(l) \/ MovesMount(l) \/ Renames(l)
  \/ \E p \in Part : Extracts(l, p)
  \/ turn[l] = "letting go" /\ MayRemove(Base(l), Starter \ {l}) /\ RemovedIfEmpty(Base(l))
  \/ Releasing(l) /\ OwnTree(l) /\ RemovesPart(Base(l))
  \/ Releasing(l) /\ Mode(l) = "rundir" /\ RemovedIfEmpty(Base(l))

\* The steps of a launch, its guardian and its application.
Step(l) == Launches(l) \/ Guards(l) \/ Applies(l) \/ KillsLaunch(l) \/ KillsGuardian(l)

\* The modes a launch tries, by their numbers.
LEMMA ChainModes ==
  /\ DOMAIN Chain = 1 .. 6
  /\ \A m \in 1 .. 6 : Chain[m] \in {"memory", "preferred", "fuse", "tmpfs", "rundir", "cache"}
<1> QED
  BY DEF Chain

\* A launch that has begun has names for its directories.
LEMMA NamesOfTrees ==
  ASSUME NEW l \in Starter, number[l] \in ProcId
  PROVE  Base(l) \in TreeName /\ Staging(l) \in TreeName
<1> QED
  BY DEF Base, Staging, TreeName

\* No directory is named like none.
LEMMA NoNameApart == NoName \notin TreeName
<1> SUFFICES ASSUME NoName \in TreeName PROVE FALSE
  OBVIOUS
<1>1. CASE NoName = <<"package", "shared">>
  BY <1>1 DEF NoName
<1>2. CASE NoName \in ProcId \X {"tree", "staging"}
  <2>1. NoName[1] \in ProcId
    BY <1>2
  <2> QED
    BY <2>1, TreeAssumption DEF NoName
<1> QED
  BY <1>1, <1>2 DEF TreeName

\* What a launch has and where it is stays.
Kept(k) ==
  /\ asked' = asked /\ tried'[k] = tried[k] /\ turn'[k] = turn[k] /\ number'[k] = number[k]
  /\ unshared'[k] = unshared[k] /\ written'[k] = written[k] /\ copies'[k] = copies[k]
  /\ stageHeld'[k] = stageHeld[k] /\ clearing'[k] = clearing[k]
  /\ guard'[k] = guard[k] /\ program'[k] = program[k]

\* Going on leads to another mode or to failure, for this launch alone.
LEMMA GoesOn ==
  ASSUME OwnTypes, NEW l \in Starter, GoOn(l)
  PROVE  /\ tried' \in [Starter -> 0 .. 6] /\ turn' \in [Starter -> Turning]
         /\ turn'[l] \in {"failed", "trying"} /\ (turn'[l] = "trying" => tried'[l] \in 1 .. 6)
         /\ turn'[l] = "trying" /\ Chain[tried'[l]] = "tmpfs" => ~asked[l].setuid
         /\ \A k \in Starter : k # l => turn'[k] = turn[k] /\ tried'[k] = tried[k]
<1>1. CASE turn' = [turn EXCEPT ![l] = "failed"] /\ UNCHANGED tried
  <2>1. tried \in [Starter -> 0 .. 6] /\ turn \in [Starter -> Turning]
    BY DEF OwnTypes
  <2>2. turn'[l] = "failed" /\ "failed" \in Turning
    BY <1>1, <2>1 DEF Turning
  <2> QED
    BY <1>1, <2>1, <2>2
<1>2. CASE \E m \in DOMAIN Chain :
             /\ Tries(asked[l], Chain[m])
             /\ tried' = [tried EXCEPT ![l] = m] /\ turn' = [turn EXCEPT ![l] = "trying"]
  <2>1. tried \in [Starter -> 0 .. 6] /\ turn \in [Starter -> Turning]
    BY DEF OwnTypes
  <2>2. PICK m \in 1 .. 6 :
           /\ Tries(asked[l], Chain[m])
           /\ tried' = [tried EXCEPT ![l] = m] /\ turn' = [turn EXCEPT ![l] = "trying"]
    BY <1>2, ChainModes
  <2>3. turn'[l] = "trying" /\ "trying" \in Turning /\ tried'[l] = m
    BY <2>1, <2>2 DEF Turning
  <2>4. Chain[m] = "tmpfs" => ~asked[l].setuid
    BY <2>2 DEF Tries, MayUnshare
  <2> QED
    BY <2>1, <2>2, <2>3, <2>4
<1> QED
  BY <1>1, <1>2 DEF GoOn

\* Kills are counted.
LEMMA Counted == ASSUME OwnTypes, Ends PROVE ends' \in Nat
<1>1. ends \in Nat /\ ends' = ends + 1
  BY DEF OwnTypes, Ends
<1> QED
  BY <1>1

\* Every step keeps the types of what the processes have.
LEMMA TreeTypesStep ==
  OwnTypes /\ [TTNext]_ttVars => OwnTypes'
<1> SUFFICES ASSUME OwnTypes, [TTNext]_ttVars PROVE OwnTypes'
  OBVIOUS
<1> USE TreeAssumption DEF OwnTypes, Turning, Guarding, chainVars, claimVars, lookVars,
    forkVars
<1>1. ASSUME NEW l \in Starter, NEW p \in ProcId, Begins(l, p) PROVE OwnTypes'
  BY <1>1, GoesOn DEF Begins
<1>2. ASSUME NEW l \in Starter, RunsElsewhere(l) PROVE OwnTypes'
  BY <1>2 DEF RunsElsewhere, AtOther
<1>3. ASSUME NEW l \in Starter, FailsElsewhere(l) PROVE OwnTypes'
  <2>1. UNCHANGED unshared \/ unshared' = [unshared EXCEPT ![l] = @ \cup {"fuse"}]
    BY <1>3 DEF FailsElsewhere
  <2>2. unshared' \in [Starter -> SUBSET {"fuse", "tmpfs", "unmapped"}]
    <3>1. unshared[l] \in SUBSET {"fuse", "tmpfs", "unmapped"}
      OBVIOUS
    <3>2. unshared[l] \cup {"fuse"} \in SUBSET {"fuse", "tmpfs", "unmapped"}
      BY <3>1
    <3>3. CASE UNCHANGED unshared
      BY <3>3
    <3>4. CASE unshared' = [unshared EXCEPT ![l] = @ \cup {"fuse"}]
      BY <3>2, <3>4
    <3> QED
      BY <2>1, <3>3, <3>4
  <2> QED
    BY <1>3, <2>2, GoesOn DEF FailsElsewhere
<1>4. ASSUME NEW l \in Starter, Sweeps(l) PROVE OwnTypes'
  BY <1>4 DEF Sweeps, Turns
<1>5. ASSUME NEW l \in Starter, SweepIsOver(l) PROVE OwnTypes'
  BY <1>5 DEF SweepIsOver
<1>6. ASSUME NEW l \in Starter, Clears(l) PROVE OwnTypes'
  BY <1>6 DEF Clears
<1>7. ASSUME NEW l \in Starter, NEW n \in TreeName, StartsClearing(l, n) PROVE OwnTypes'
  BY <1>7 DEF StartsClearing, Looks, SweepTakes
<1>8. ASSUME NEW l \in Starter, NEW n \in TreeName, PassesBy(l, n) PROVE OwnTypes'
  BY <1>8 DEF PassesBy, Looks
<1>9. ASSUME NEW l \in Starter, ClaimsBase(l) PROVE OwnTypes'
  BY <1>9 DEF ClaimsBase, Turns
<1>10. ASSUME NEW l \in Starter, BaseRefused(l) PROVE OwnTypes'
  BY <1>10, GoesOn DEF BaseRefused
<1>11. ASSUME NEW l \in Starter, ClaimsStage(l) PROVE OwnTypes'
  BY <1>11 DEF ClaimsStage, Turns
<1>12. ASSUME NEW l \in Starter, StageRefused(l) PROVE OwnTypes'
  BY <1>12 DEF StageRefused, Turns
<1>13. ASSUME NEW l \in Starter, NoRoom(l) PROVE OwnTypes'
  BY <1>13 DEF NoRoom, Turns
<1>14. ASSUME NEW l \in Starter, EntersNot(l) PROVE OwnTypes'
  <2>1. UNCHANGED unshared \/ unshared' = [unshared EXCEPT ![l] = @ \cup {"unmapped"}]
    BY <1>14 DEF EntersNot
  <2>2. unshared' \in [Starter -> SUBSET {"fuse", "tmpfs", "unmapped"}]
    <3>1. unshared[l] \cup {"unmapped"} \in SUBSET {"fuse", "tmpfs", "unmapped"}
      OBVIOUS
    <3>2. CASE UNCHANGED unshared
      BY <3>2
    <3>3. CASE unshared' = [unshared EXCEPT ![l] = @ \cup {"unmapped"}]
      BY <3>1, <3>3
    <3> QED
      BY <2>1, <3>2, <3>3
  <2> QED
    BY <1>14, <2>2 DEF EntersNot, Turns
<1>15. ASSUME NEW l \in Starter, Enters(l) PROVE OwnTypes'
  BY <1>15 DEF Enters, Turns
<1>16. ASSUME NEW l \in Starter, MountsTmpfs(l) PROVE OwnTypes'
  BY <1>16 DEF MountsTmpfs, Turns
<1>17. ASSUME NEW l \in Starter, FailsInside(l) PROVE OwnTypes'
  BY <1>17 DEF FailsInside, Gone
<1>18. ASSUME NEW l \in Starter, NEW p \in Part, Extracts(l, p) PROVE OwnTypes'
  BY <1>18 DEF Extracts, StillExtracts
<1>19. ASSUME NEW l \in Starter, ExtractsNot(l) PROVE OwnTypes'
  BY <1>19 DEF ExtractsNot, StillExtracts
<1>20. ASSUME NEW l \in Starter, MovesMount(l) PROVE OwnTypes'
  BY <1>20 DEF MovesMount, Turns
<1>21. ASSUME NEW l \in Starter, Renames(l) PROVE OwnTypes'
  BY <1>21 DEF Renames, Turns, Replaces
<1>22. ASSUME NEW l \in Starter, RenamesNot(l) PROVE OwnTypes'
  BY <1>22 DEF RenamesNot, Turns
<1>23. ASSUME NEW l \in Starter, Undoes(l) PROVE OwnTypes'
  BY <1>23 DEF Undoes, Turns, TakenBack
<1>24. ASSUME NEW l \in Starter, ReleasesStage(l) PROVE OwnTypes'
  BY <1>24 DEF ReleasesStage, Turns, MayRemove
<1>25. ASSUME NEW l \in Starter, ReleasesBase(l) PROVE OwnTypes'
  BY <1>25, GoesOn DEF ReleasesBase
<1>26. ASSUME NEW l \in Starter, Returns(l) PROVE OwnTypes'
  BY <1>26 DEF Returns
<1>27. ASSUME NEW l \in Starter, Spawns(l) PROVE OwnTypes'
  BY <1>27 DEF Spawns, Turns
<1>28. ASSUME NEW l \in Starter, SpawnsNot(l) PROVE OwnTypes'
  BY <1>28 DEF SpawnsNot, Turns
<1>29. ASSUME NEW l \in Starter, Unguarded(l) PROVE OwnTypes'
  BY <1>29 DEF Unguarded
<1>30. ASSUME NEW l \in Starter, Forks(l) PROVE OwnTypes'
  BY <1>30 DEF Forks
<1>31. ASSUME NEW l \in Starter, Drains(l) PROVE OwnTypes'
  BY <1>31 DEF Drains
<1>32. ASSUME NEW l \in Starter, RemovesOwn(l) PROVE OwnTypes'
  BY <1>32 DEF RemovesOwn, OwnTree
<1>33. ASSUME NEW l \in Starter, GuardianLeaves(l) PROVE OwnTypes'
  BY <1>33 DEF GuardianLeaves, OwnTree
<1>34. ASSUME NEW l \in Starter, FailsAtFork(l) PROVE OwnTypes'
  BY <1>34 DEF FailsAtFork, Gone
<1>35. ASSUME NEW l \in Starter, ClosesAll(l) PROVE OwnTypes'
  BY <1>35 DEF ClosesAll
<1>36. ASSUME NEW l \in Starter, Daemonizes(l) PROVE OwnTypes'
  BY <1>36 DEF Daemonizes
<1>37. ASSUME NEW l \in Starter, Finishes(l) PROVE OwnTypes'
  BY <1>37 DEF Finishes
<1>38. ASSUME NEW l \in Starter, KillsLaunch(l) PROVE OwnTypes'
  <2>1. ends' \in Nat
    BY <1>38, Counted DEF KillsLaunch
  <2> QED
    BY <1>38, <2>1 DEF KillsLaunch, Gone, Ends
<1>39. ASSUME NEW l \in Starter, KillsGuardian(l) PROVE OwnTypes'
  <2>1. ends' \in Nat
    BY <1>39, Counted DEF KillsGuardian
  <2> QED
    BY <1>39, <2>1 DEF KillsGuardian, Ends
<1>40. CASE UNCHANGED ttVars
  BY <1>40 DEF ttVars
<1> QED
  BY <1>1, <1>2, <1>3, <1>4, <1>5, <1>6, <1>7, <1>8, <1>9, <1>10, <1>11, <1>12, <1>13,
    <1>14, <1>15, <1>16, <1>17, <1>18, <1>19, <1>20, <1>21, <1>22, <1>23, <1>24, <1>25,
    <1>26, <1>27, <1>28, <1>29, <1>30, <1>31, <1>32, <1>33, <1>34, <1>35, <1>36, <1>37,
    <1>38, <1>39, <1>40 DEF TTNext, Launches, Guards, Applies
\* The steps, by what they do to the directories.
LEMMA StepOfPlaces ==
  ASSUME NEW l \in Starter, Step(l)
  PROVE  Places(l)
<1> USE DEF Places, Releasing, placeVars
<1>1. ASSUME NEW p \in ProcId, Begins(l, p) PROVE Places(l)
  BY <1>1 DEF Begins, GoOn
<1>2. ASSUME RunsElsewhere(l) PROVE Places(l)
  BY <1>2 DEF RunsElsewhere, AtOther
<1>3. ASSUME FailsElsewhere(l) PROVE Places(l)
  BY <1>3 DEF FailsElsewhere, AtOther, GoOn
<1>4. ASSUME Sweeps(l) PROVE Places(l)
  BY <1>4 DEF Sweeps, Turns
<1>5. ASSUME SweepIsOver(l) PROVE Places(l)
  BY <1>5 DEF SweepIsOver
<1>6. ASSUME Clears(l) PROVE Places(l)
  BY <1>6 DEF Clears
<1>7. ASSUME NEW n \in TreeName, StartsClearing(l, n) PROVE Places(l)
  BY <1>7 DEF StartsClearing, Looks, SweepTakes
<1>8. ASSUME NEW n \in TreeName, PassesBy(l, n) PROVE Places(l)
  BY <1>8 DEF PassesBy, Looks
<1>9. ASSUME ClaimsBase(l) PROVE Places(l)
  BY <1>9 DEF ClaimsBase, Turns
<1>10. ASSUME BaseRefused(l) PROVE Places(l)
  BY <1>10 DEF BaseRefused, GoOn
<1>11. ASSUME ClaimsStage(l) PROVE Places(l)
  BY <1>11 DEF ClaimsStage, Turns
<1>12. ASSUME StageRefused(l) PROVE Places(l)
  BY <1>12 DEF StageRefused, Turns
<1>13. ASSUME NoRoom(l) PROVE Places(l)
  BY <1>13 DEF NoRoom, Turns
<1>14. ASSUME EntersNot(l) PROVE Places(l)
  BY <1>14 DEF EntersNot, Turns
<1>15. ASSUME Enters(l) PROVE Places(l)
  BY <1>15 DEF Enters, Turns
<1>16. ASSUME MountsTmpfs(l) PROVE Places(l)
  BY <1>16 DEF MountsTmpfs, Turns
<1>17. ASSUME FailsInside(l) PROVE Places(l)
  BY <1>17 DEF FailsInside, Gone
<1>18. ASSUME NEW p \in Part, Extracts(l, p) PROVE Places(l)
  BY <1>18 DEF Extracts, StillExtracts
<1>19. ASSUME ExtractsNot(l) PROVE Places(l)
  BY <1>19 DEF ExtractsNot, StillExtracts
<1>20. ASSUME MovesMount(l) PROVE Places(l)
  BY <1>20 DEF MovesMount, Turns
<1>21. ASSUME Renames(l) PROVE Places(l)
  BY <1>21 DEF Renames, Turns, Replaces
<1>22. ASSUME RenamesNot(l) PROVE Places(l)
  BY <1>22 DEF RenamesNot, Turns
<1>23. ASSUME Undoes(l) PROVE Places(l)
  BY <1>23 DEF Undoes, Turns, TakenBack
<1>24. ASSUME ReleasesStage(l) PROVE Places(l)
  BY <1>24 DEF ReleasesStage, Turns, MayRemove
<1>25. ASSUME ReleasesBase(l) PROVE Places(l)
  BY <1>25 DEF ReleasesBase, GoOn
<1>26. ASSUME Returns(l) PROVE Places(l)
  BY <1>26 DEF Returns
<1>27. ASSUME Spawns(l) PROVE Places(l)
  BY <1>27 DEF Spawns, Turns
<1>28. ASSUME SpawnsNot(l) PROVE Places(l)
  BY <1>28 DEF SpawnsNot, Turns
<1>29. ASSUME Unguarded(l) PROVE Places(l)
  BY <1>29 DEF Unguarded
<1>30. ASSUME Forks(l) PROVE Places(l)
  BY <1>30 DEF Forks
<1>31. ASSUME Drains(l) PROVE Places(l)
  BY <1>31 DEF Drains
<1>32. ASSUME RemovesOwn(l) PROVE Places(l)
  BY <1>32 DEF RemovesOwn, OwnTree
<1>33. ASSUME GuardianLeaves(l) PROVE Places(l)
  BY <1>33 DEF GuardianLeaves, OwnTree
<1>34. ASSUME FailsAtFork(l) PROVE Places(l)
  BY <1>34 DEF FailsAtFork, Gone
<1>35. ASSUME ClosesAll(l) PROVE Places(l)
  BY <1>35 DEF ClosesAll
<1>36. ASSUME Daemonizes(l) PROVE Places(l)
  BY <1>36 DEF Daemonizes
<1>37. ASSUME Finishes(l) PROVE Places(l)
  BY <1>37 DEF Finishes
<1>38. ASSUME KillsLaunch(l) PROVE Places(l)
  BY <1>38 DEF KillsLaunch, Gone, Ends
<1>39. ASSUME KillsGuardian(l) PROVE Places(l)
  BY <1>39 DEF KillsGuardian, Ends
<1> QED
  BY <1>1, <1>2, <1>3, <1>4, <1>5, <1>6, <1>7, <1>8, <1>9, <1>10, <1>11, <1>12, <1>13,
    <1>14, <1>15, <1>16, <1>17, <1>18, <1>19, <1>20, <1>21, <1>22, <1>23, <1>24, <1>25,
    <1>26, <1>27, <1>28, <1>29, <1>30, <1>31, <1>32, <1>33, <1>34, <1>35, <1>36, <1>37,
    <1>38, <1>39 DEF Step, Launches, Guards, Applies
\* Every step keeps the types of the directories; an extraction has one to write to.
LEMMA PlaceTypesStep ==
  ASSUME OwnTypes, PlaceTypes, NEW l \in Starter, Numbered(l), Followed(l), Fills(l),
      Places(l)
  PROVE  PlaceTypes'
<1> USE DEF PlaceTypes
<1>1. ASSUME NEW n \in TreeName, RemovedIfEmpty(n) \/ Removed(n) PROVE PlaceTypes'
  <2>1. CASE Removed(n)
    <3>1. root' \in [TreeName -> (SUBSET Part) \cup {NoTree}]
      BY <2>1 DEF Removed
    <3>2. writer' \in [TreeName -> Starter \cup {"nobody"}]
      BY <2>1 DEF Removed
    <3>3. mountedOn' \in [Starter -> TreeName \cup {NoName}]
      BY <2>1 DEF Removed
    <3> QED
      BY <3>1, <3>2, <3>3
  <2>2. CASE UNCHANGED placeVars
    BY <2>2 DEF placeVars
  <2> QED
    BY <1>1, <2>1, <2>2 DEF RemovedIfEmpty
<1>2. ASSUME NEW n \in TreeName, RemovesPart(n) \/ MakeDirectory(n) PROVE PlaceTypes'
  BY <1>2 DEF RemovesPart, MakeDirectory
<1>3. CASE UNCHANGED placeVars
  BY <1>3 DEF placeVars
<1>4. (Base(l) \in TreeName /\ Staging(l) \in TreeName) \/ turn[l] = "idle"
  BY NamesOfTrees DEF Numbered
<1>5. clearing[l] # NoName => clearing[l] \in TreeName
  BY DEF OwnTypes
<1>6. turn[l] = "idle" => ~Releasing(l)
  BY DEF Followed, Releasing
<1>7. CASE MountsTmpfs(l)
  BY <1>4, <1>7 DEF MountsTmpfs, Turns
<1>8. CASE MovesMount(l)
  BY <1>4, <1>8 DEF MovesMount, Turns
<1>9. CASE Renames(l)
  BY <1>4, <1>9 DEF Renames, Turns
<1>10. ASSUME NEW p \in Part, Extracts(l, p) PROVE PlaceTypes'
  <2>1. CASE UNCHANGED placeVars
    BY <2>1 DEF placeVars
  <2>2. CASE Mode(l) = "rundir"
    <3>1. Staging(l) \in TreeName
      BY <1>4, <1>10 DEF Extracts, StillExtracts
    <3>2. root[Staging(l)] \in SUBSET Part
      BY <1>10, <2>2, <3>1 DEF Extracts, StillExtracts, Fills
    <3>3. root' = [root EXCEPT ![Staging(l)] = @ \cup {p}] /\ UNCHANGED mountedOn
            /\ writer' = [writer EXCEPT ![Staging(l)] = l]
      BY <1>10, <2>2 DEF Extracts
    <3>4. root[Staging(l)] \cup {p} \in SUBSET Part
      BY <3>2
    <3> QED
      BY <3>1, <3>3, <3>4
  <2> QED
    BY <1>10, <2>1, <2>2 DEF Extracts
<1> QED
  BY <1>1, <1>2, <1>3, <1>4, <1>5, <1>6, <1>7, <1>8, <1>9, <1>10 DEF Places

\* A step is of one launch: what the others have and where they are stays.
LEMMA OthersKeep ==
  ASSUME OwnTypes, NEW l \in Starter, Step(l), NEW k \in Starter, k # l
  PROVE  Kept(k)
<1> USE DEF Kept, OwnTypes, chainVars, claimVars, lookVars, forkVars
<1>1. ASSUME NEW p \in ProcId, Begins(l, p) PROVE Kept(k)
  BY <1>1, GoesOn DEF Begins
<1>2. ASSUME RunsElsewhere(l) PROVE Kept(k)
  BY <1>2 DEF RunsElsewhere, AtOther
<1>3. ASSUME FailsElsewhere(l) PROVE Kept(k)
  BY <1>3, GoesOn DEF FailsElsewhere, AtOther
<1>4. ASSUME Sweeps(l) PROVE Kept(k)
  BY <1>4 DEF Sweeps, Turns
<1>5. ASSUME SweepIsOver(l) PROVE Kept(k)
  BY <1>5 DEF SweepIsOver
<1>6. ASSUME Clears(l) PROVE Kept(k)
  BY <1>6 DEF Clears
<1>7. ASSUME NEW n \in TreeName, StartsClearing(l, n) PROVE Kept(k)
  BY <1>7 DEF StartsClearing, Looks, SweepTakes
<1>8. ASSUME NEW n \in TreeName, PassesBy(l, n) PROVE Kept(k)
  BY <1>8 DEF PassesBy, Looks
<1>9. ASSUME ClaimsBase(l) PROVE Kept(k)
  BY <1>9 DEF ClaimsBase, Turns
<1>10. ASSUME BaseRefused(l) PROVE Kept(k)
  BY <1>10, GoesOn DEF BaseRefused
<1>11. ASSUME ClaimsStage(l) PROVE Kept(k)
  BY <1>11 DEF ClaimsStage, Turns
<1>12. ASSUME StageRefused(l) PROVE Kept(k)
  BY <1>12 DEF StageRefused, Turns
<1>13. ASSUME NoRoom(l) PROVE Kept(k)
  BY <1>13 DEF NoRoom, Turns
<1>14. ASSUME EntersNot(l) PROVE Kept(k)
  BY <1>14 DEF EntersNot, Turns
<1>15. ASSUME Enters(l) PROVE Kept(k)
  BY <1>15 DEF Enters, Turns
<1>16. ASSUME MountsTmpfs(l) PROVE Kept(k)
  BY <1>16 DEF MountsTmpfs, Turns
<1>17. ASSUME FailsInside(l) PROVE Kept(k)
  BY <1>17 DEF FailsInside, Gone
<1>18. ASSUME NEW p \in Part, Extracts(l, p) PROVE Kept(k)
  BY <1>18 DEF Extracts, StillExtracts
<1>19. ASSUME ExtractsNot(l) PROVE Kept(k)
  BY <1>19 DEF ExtractsNot, StillExtracts
<1>20. ASSUME MovesMount(l) PROVE Kept(k)
  BY <1>20 DEF MovesMount, Turns
<1>21. ASSUME Renames(l) PROVE Kept(k)
  BY <1>21 DEF Renames, Turns, Replaces
<1>22. ASSUME RenamesNot(l) PROVE Kept(k)
  BY <1>22 DEF RenamesNot, Turns
<1>23. ASSUME Undoes(l) PROVE Kept(k)
  BY <1>23 DEF Undoes, Turns, TakenBack
<1>24. ASSUME ReleasesStage(l) PROVE Kept(k)
  BY <1>24 DEF ReleasesStage, Turns, MayRemove
<1>25. ASSUME ReleasesBase(l) PROVE Kept(k)
  BY <1>25, GoesOn DEF ReleasesBase
<1>26. ASSUME Returns(l) PROVE Kept(k)
  BY <1>26 DEF Returns
<1>27. ASSUME Spawns(l) PROVE Kept(k)
  BY <1>27 DEF Spawns, Turns
<1>28. ASSUME SpawnsNot(l) PROVE Kept(k)
  BY <1>28 DEF SpawnsNot, Turns
<1>29. ASSUME Unguarded(l) PROVE Kept(k)
  BY <1>29 DEF Unguarded
<1>30. ASSUME Forks(l) PROVE Kept(k)
  BY <1>30 DEF Forks
<1>31. ASSUME Drains(l) PROVE Kept(k)
  BY <1>31 DEF Drains
<1>32. ASSUME RemovesOwn(l) PROVE Kept(k)
  BY <1>32 DEF RemovesOwn, OwnTree
<1>33. ASSUME GuardianLeaves(l) PROVE Kept(k)
  BY <1>33 DEF GuardianLeaves, OwnTree
<1>34. ASSUME FailsAtFork(l) PROVE Kept(k)
  BY <1>34 DEF FailsAtFork, Gone
<1>35. ASSUME ClosesAll(l) PROVE Kept(k)
  BY <1>35 DEF ClosesAll
<1>36. ASSUME Daemonizes(l) PROVE Kept(k)
  BY <1>36 DEF Daemonizes
<1>37. ASSUME Finishes(l) PROVE Kept(k)
  BY <1>37 DEF Finishes
<1>38. ASSUME KillsLaunch(l) PROVE Kept(k)
  BY <1>38 DEF KillsLaunch, Gone, Ends
<1>39. ASSUME KillsGuardian(l) PROVE Kept(k)
  BY <1>39 DEF KillsGuardian, Ends
<1> QED
  BY <1>1, <1>2, <1>3, <1>4, <1>5, <1>6, <1>7, <1>8, <1>9, <1>10, <1>11, <1>12, <1>13,
    <1>14, <1>15, <1>16, <1>17, <1>18, <1>19, <1>20, <1>21, <1>22, <1>23, <1>24, <1>25,
    <1>26, <1>27, <1>28, <1>29, <1>30, <1>31, <1>32, <1>33, <1>34, <1>35, <1>36, <1>37,
    <1>38, <1>39 DEF Step, Launches, Guards, Applies
\* A launch is at a turn its mode has.
LEMMA NumberedStep ==
  ASSUME OwnTypes, NEW l \in Starter, Numbered(l), Held(l), Followed(l), Step(l)
  PROVE  Numbered(l)'
<1> USE DEF OwnTypes, Numbered, Mode, Working, OfOther, chainVars, claimVars, lookVars,
    forkVars
<1>1. ASSUME NEW p \in ProcId, Begins(l, p) PROVE Numbered(l)'
  BY ZenonT(30), <1>1, GoesOn DEF Begins
<1>2. ASSUME RunsElsewhere(l) PROVE Numbered(l)'
  BY <1>2 DEF RunsElsewhere, AtOther
<1>3. ASSUME FailsElsewhere(l) PROVE Numbered(l)'
  BY <1>3, GoesOn DEF FailsElsewhere, AtOther
<1>4. ASSUME Sweeps(l) PROVE Numbered(l)'
  BY <1>4 DEF Sweeps, Turns
<1>5. ASSUME SweepIsOver(l) PROVE Numbered(l)'
  BY <1>5, ChainModes DEF SweepIsOver
<1>6. ASSUME Clears(l) PROVE Numbered(l)'
  BY <1>6 DEF Clears
<1>7. ASSUME NEW n \in TreeName, StartsClearing(l, n) PROVE Numbered(l)'
  BY <1>7 DEF StartsClearing, Looks, SweepTakes
<1>8. ASSUME NEW n \in TreeName, PassesBy(l, n) PROVE Numbered(l)'
  BY <1>8 DEF PassesBy, Looks
<1>9. ASSUME ClaimsBase(l) PROVE Numbered(l)'
  BY <1>9 DEF ClaimsBase, Turns
<1>10. ASSUME BaseRefused(l) PROVE Numbered(l)'
  BY <1>10, GoesOn DEF BaseRefused
<1>11. ASSUME ClaimsStage(l) PROVE Numbered(l)'
  BY <1>11 DEF ClaimsStage, Turns
<1>12. ASSUME StageRefused(l) PROVE Numbered(l)'
  BY <1>12 DEF StageRefused, Turns
<1>13. ASSUME NoRoom(l) PROVE Numbered(l)'
  BY <1>13 DEF NoRoom, Turns
<1>14. ASSUME EntersNot(l) PROVE Numbered(l)'
  BY <1>14 DEF EntersNot, Turns
<1>15. ASSUME Enters(l) PROVE Numbered(l)'
  BY <1>15 DEF Enters, Turns
<1>16. ASSUME MountsTmpfs(l) PROVE Numbered(l)'
  BY <1>16 DEF MountsTmpfs, Turns
<1>17. ASSUME FailsInside(l) PROVE Numbered(l)'
  BY <1>17 DEF FailsInside, Gone
<1>18. ASSUME NEW p \in Part, Extracts(l, p) PROVE Numbered(l)'
  BY <1>18 DEF Extracts, StillExtracts
<1>19. ASSUME ExtractsNot(l) PROVE Numbered(l)'
  BY <1>19 DEF ExtractsNot, StillExtracts
<1>20. ASSUME MovesMount(l) PROVE Numbered(l)'
  BY <1>20 DEF MovesMount, Turns
<1>21. ASSUME Renames(l) PROVE Numbered(l)'
  BY <1>21 DEF Renames, Turns, Replaces
<1>22. ASSUME RenamesNot(l) PROVE Numbered(l)'
  BY <1>22 DEF RenamesNot, Turns
<1>23. ASSUME Undoes(l) PROVE Numbered(l)'
  BY <1>23 DEF Undoes, Turns, TakenBack
<1>24. ASSUME ReleasesStage(l) PROVE Numbered(l)'
  BY <1>24 DEF ReleasesStage, Turns, MayRemove
<1>25. ASSUME ReleasesBase(l) PROVE Numbered(l)'
  BY <1>25, GoesOn DEF ReleasesBase
<1>26. ASSUME Returns(l) PROVE Numbered(l)'
  BY <1>26 DEF Returns
<1>27. ASSUME Spawns(l) PROVE Numbered(l)'
  BY <1>27 DEF Spawns, Turns
<1>28. ASSUME SpawnsNot(l) PROVE Numbered(l)'
  BY <1>28 DEF SpawnsNot, Turns
<1>29. ASSUME Unguarded(l) PROVE Numbered(l)'
  BY <1>29 DEF Unguarded
<1>30. ASSUME Forks(l) PROVE Numbered(l)'
  BY <1>30 DEF Forks
<1>31. ASSUME Drains(l) PROVE Numbered(l)'
  BY <1>31 DEF Drains
<1>32. ASSUME RemovesOwn(l) PROVE Numbered(l)'
  BY <1>32 DEF RemovesOwn, OwnTree
<1>33. ASSUME GuardianLeaves(l) PROVE Numbered(l)'
  BY <1>33 DEF GuardianLeaves, OwnTree
<1>34. ASSUME FailsAtFork(l) PROVE Numbered(l)'
  BY <1>34 DEF FailsAtFork, Gone
<1>35. ASSUME ClosesAll(l) PROVE Numbered(l)'
  BY <1>35 DEF ClosesAll
<1>36. ASSUME Daemonizes(l) PROVE Numbered(l)'
  BY <1>36 DEF Daemonizes
<1>37. ASSUME Finishes(l) PROVE Numbered(l)'
  BY <1>37 DEF Finishes
<1>38. ASSUME KillsLaunch(l) PROVE Numbered(l)'
  BY <1>38 DEF KillsLaunch, Gone, Ends
<1>39. ASSUME KillsGuardian(l) PROVE Numbered(l)'
  BY <1>39 DEF KillsGuardian, Ends
<1> QED
  BY <1>1, <1>2, <1>3, <1>4, <1>5, <1>6, <1>7, <1>8, <1>9, <1>10, <1>11, <1>12, <1>13,
    <1>14, <1>15, <1>16, <1>17, <1>18, <1>19, <1>20, <1>21, <1>22, <1>23, <1>24, <1>25,
    <1>26, <1>27, <1>28, <1>29, <1>30, <1>31, <1>32, <1>33, <1>34, <1>35, <1>36, <1>37,
    <1>38, <1>39 DEF Step, Launches, Guards, Applies
\* Who holds a claim is known from the turn and from the guardian.
LEMMA HeldStep ==
  ASSUME OwnTypes, NEW l \in Starter, Numbered(l), Held(l), Followed(l), Step(l)
  PROVE  Held(l)'
<1> USE DEF OwnTypes, Held, Followed, Occupied, Working, Guarding, chainVars, claimVars,
    lookVars, forkVars
<1>1. ASSUME NEW p \in ProcId, Begins(l, p) PROVE Held(l)'
  BY <1>1, GoesOn DEF Begins
<1>2. ASSUME RunsElsewhere(l) PROVE Held(l)'
  BY <1>2 DEF RunsElsewhere, AtOther
<1>3. ASSUME FailsElsewhere(l) PROVE Held(l)'
  BY <1>3, GoesOn DEF FailsElsewhere, AtOther
<1>4. ASSUME Sweeps(l) PROVE Held(l)'
  BY <1>4 DEF Sweeps, Turns
<1>5. ASSUME SweepIsOver(l) PROVE Held(l)'
  BY <1>5 DEF SweepIsOver
<1>6. ASSUME Clears(l) PROVE Held(l)'
  BY <1>6 DEF Clears
<1>7. ASSUME NEW n \in TreeName, StartsClearing(l, n) PROVE Held(l)'
  BY <1>7 DEF StartsClearing, Looks, SweepTakes
<1>8. ASSUME NEW n \in TreeName, PassesBy(l, n) PROVE Held(l)'
  BY <1>8 DEF PassesBy, Looks
<1>9. ASSUME ClaimsBase(l) PROVE Held(l)'
  BY <1>9 DEF ClaimsBase, Turns
<1>10. ASSUME BaseRefused(l) PROVE Held(l)'
  BY <1>10, GoesOn DEF BaseRefused
<1>11. ASSUME ClaimsStage(l) PROVE Held(l)'
  BY <1>11 DEF ClaimsStage, Turns
<1>12. ASSUME StageRefused(l) PROVE Held(l)'
  BY <1>12 DEF StageRefused, Turns
<1>13. ASSUME NoRoom(l) PROVE Held(l)'
  BY <1>13 DEF NoRoom, Turns
<1>14. ASSUME EntersNot(l) PROVE Held(l)'
  BY <1>14 DEF EntersNot, Turns
<1>15. ASSUME Enters(l) PROVE Held(l)'
  BY <1>15 DEF Enters, Turns
<1>16. ASSUME MountsTmpfs(l) PROVE Held(l)'
  BY <1>16 DEF MountsTmpfs, Turns
<1>17. ASSUME FailsInside(l) PROVE Held(l)'
  BY <1>17 DEF FailsInside, Gone
<1>18. ASSUME NEW p \in Part, Extracts(l, p) PROVE Held(l)'
  BY <1>18 DEF Extracts, StillExtracts
<1>19. ASSUME ExtractsNot(l) PROVE Held(l)'
  BY <1>19 DEF ExtractsNot, StillExtracts
<1>20. ASSUME MovesMount(l) PROVE Held(l)'
  BY <1>20 DEF MovesMount, Turns
<1>21. ASSUME Renames(l) PROVE Held(l)'
  BY <1>21 DEF Renames, Turns, Replaces
<1>22. ASSUME RenamesNot(l) PROVE Held(l)'
  BY <1>22 DEF RenamesNot, Turns
<1>23. ASSUME Undoes(l) PROVE Held(l)'
  BY <1>23 DEF Undoes, Turns, TakenBack
<1>24. ASSUME ReleasesStage(l) PROVE Held(l)'
  BY <1>24 DEF ReleasesStage, Turns, MayRemove
<1>25. ASSUME ReleasesBase(l) PROVE Held(l)'
  BY <1>25, GoesOn DEF ReleasesBase
<1>26. ASSUME Returns(l) PROVE Held(l)'
  BY <1>26 DEF Returns
<1>27. ASSUME Spawns(l) PROVE Held(l)'
  BY <1>27 DEF Spawns, Turns
<1>28. ASSUME SpawnsNot(l) PROVE Held(l)'
  BY <1>28 DEF SpawnsNot, Turns
<1>29. ASSUME Unguarded(l) PROVE Held(l)'
  BY <1>29 DEF Unguarded
<1>30. ASSUME Forks(l) PROVE Held(l)'
  BY <1>30 DEF Forks
<1>31. ASSUME Drains(l) PROVE Held(l)'
  BY <1>31 DEF Drains
<1>32. ASSUME RemovesOwn(l) PROVE Held(l)'
  BY <1>32 DEF RemovesOwn, OwnTree
<1>33. ASSUME GuardianLeaves(l) PROVE Held(l)'
  BY <1>33 DEF GuardianLeaves, OwnTree
<1>34. ASSUME FailsAtFork(l) PROVE Held(l)'
  BY <1>34 DEF FailsAtFork, Gone
<1>35. ASSUME ClosesAll(l) PROVE Held(l)'
  BY <1>35 DEF ClosesAll
<1>36. ASSUME Daemonizes(l) PROVE Held(l)'
  BY <1>36 DEF Daemonizes
<1>37. ASSUME Finishes(l) PROVE Held(l)'
  BY <1>37 DEF Finishes
<1>38. ASSUME KillsLaunch(l) PROVE Held(l)'
  BY <1>38 DEF KillsLaunch, Gone, Ends
<1>39. ASSUME KillsGuardian(l) PROVE Held(l)'
  BY <1>39 DEF KillsGuardian, Ends
<1> QED
  BY <1>1, <1>2, <1>3, <1>4, <1>5, <1>6, <1>7, <1>8, <1>9, <1>10, <1>11, <1>12, <1>13,
    <1>14, <1>15, <1>16, <1>17, <1>18, <1>19, <1>20, <1>21, <1>22, <1>23, <1>24, <1>25,
    <1>26, <1>27, <1>28, <1>29, <1>30, <1>31, <1>32, <1>33, <1>34, <1>35, <1>36, <1>37,
    <1>38, <1>39 DEF Step, Launches, Guards, Applies
\* The guardian comes after the launch's own turns and outlives the application,
\* unless it is killed.
LEMMA FollowedStep ==
  ASSUME OwnTypes, NEW l \in Starter, Numbered(l), Held(l), Followed(l), Step(l)
  PROVE  Followed(l)'
<1> USE DEF OwnTypes, Held, Followed, Occupied, Mode, Numbered, Working, Guarding,
    chainVars, claimVars, lookVars, forkVars
<1>1. ASSUME NEW p \in ProcId, Begins(l, p) PROVE Followed(l)'
  BY <1>1, GoesOn DEF Begins
<1>2. ASSUME RunsElsewhere(l) PROVE Followed(l)'
  BY <1>2 DEF RunsElsewhere, AtOther
<1>3. ASSUME FailsElsewhere(l) PROVE Followed(l)'
  BY <1>3, GoesOn DEF FailsElsewhere, AtOther
<1>4. ASSUME Sweeps(l) PROVE Followed(l)'
  BY <1>4 DEF Sweeps, Turns
<1>5. ASSUME SweepIsOver(l) PROVE Followed(l)'
  BY <1>5 DEF SweepIsOver
<1>6. ASSUME Clears(l) PROVE Followed(l)'
  BY <1>6 DEF Clears
<1>7. ASSUME NEW n \in TreeName, StartsClearing(l, n) PROVE Followed(l)'
  BY <1>7 DEF StartsClearing, Looks, SweepTakes
<1>8. ASSUME NEW n \in TreeName, PassesBy(l, n) PROVE Followed(l)'
  BY <1>8 DEF PassesBy, Looks
<1>9. ASSUME ClaimsBase(l) PROVE Followed(l)'
  BY <1>9 DEF ClaimsBase, Turns
<1>10. ASSUME BaseRefused(l) PROVE Followed(l)'
  BY <1>10, GoesOn DEF BaseRefused
<1>11. ASSUME ClaimsStage(l) PROVE Followed(l)'
  BY <1>11 DEF ClaimsStage, Turns
<1>12. ASSUME StageRefused(l) PROVE Followed(l)'
  BY <1>12 DEF StageRefused, Turns
<1>13. ASSUME NoRoom(l) PROVE Followed(l)'
  BY <1>13 DEF NoRoom, Turns
<1>14. ASSUME EntersNot(l) PROVE Followed(l)'
  BY <1>14 DEF EntersNot, Turns
<1>15. ASSUME Enters(l) PROVE Followed(l)'
  BY <1>15 DEF Enters, Turns
<1>16. ASSUME MountsTmpfs(l) PROVE Followed(l)'
  BY <1>16 DEF MountsTmpfs, Turns
<1>17. ASSUME FailsInside(l) PROVE Followed(l)'
  BY <1>17 DEF FailsInside, Gone
<1>18. ASSUME NEW p \in Part, Extracts(l, p) PROVE Followed(l)'
  BY <1>18 DEF Extracts, StillExtracts
<1>19. ASSUME ExtractsNot(l) PROVE Followed(l)'
  BY <1>19 DEF ExtractsNot, StillExtracts
<1>20. ASSUME MovesMount(l) PROVE Followed(l)'
  BY <1>20 DEF MovesMount, Turns
<1>21. ASSUME Renames(l) PROVE Followed(l)'
  BY <1>21 DEF Renames, Turns, Replaces
<1>22. ASSUME RenamesNot(l) PROVE Followed(l)'
  BY <1>22 DEF RenamesNot, Turns
<1>23. ASSUME Undoes(l) PROVE Followed(l)'
  BY <1>23 DEF Undoes, Turns, TakenBack
<1>24. ASSUME ReleasesStage(l) PROVE Followed(l)'
  BY <1>24 DEF ReleasesStage, Turns, MayRemove
<1>25. ASSUME ReleasesBase(l) PROVE Followed(l)'
  BY <1>25, GoesOn DEF ReleasesBase
<1>26. ASSUME Returns(l) PROVE Followed(l)'
  BY <1>26 DEF Returns
<1>27. ASSUME Spawns(l) PROVE Followed(l)'
  BY <1>27 DEF Spawns, Turns
<1>28. ASSUME SpawnsNot(l) PROVE Followed(l)'
  BY <1>28 DEF SpawnsNot, Turns
<1>29. ASSUME Unguarded(l) PROVE Followed(l)'
  BY <1>29 DEF Unguarded
<1>30. ASSUME Forks(l) PROVE Followed(l)'
  BY <1>30 DEF Forks
<1>31. ASSUME Drains(l) PROVE Followed(l)'
  BY <1>31 DEF Drains
<1>32. ASSUME RemovesOwn(l) PROVE Followed(l)'
  BY <1>32 DEF RemovesOwn, OwnTree
<1>33. ASSUME GuardianLeaves(l) PROVE Followed(l)'
  BY <1>33 DEF GuardianLeaves, OwnTree
<1>34. ASSUME FailsAtFork(l) PROVE Followed(l)'
  BY <1>34 DEF FailsAtFork, Gone
<1>35. ASSUME ClosesAll(l) PROVE Followed(l)'
  BY <1>35 DEF ClosesAll
<1>36. ASSUME Daemonizes(l) PROVE Followed(l)'
  BY <1>36 DEF Daemonizes
<1>37. ASSUME Finishes(l) PROVE Followed(l)'
  BY <1>37 DEF Finishes
<1>38. ASSUME KillsLaunch(l) PROVE Followed(l)'
  BY <1>38 DEF KillsLaunch, Gone, Ends
<1>39. ASSUME KillsGuardian(l) PROVE Followed(l)'
  BY <1>39 DEF KillsGuardian, Ends
<1> QED
  BY <1>1, <1>2, <1>3, <1>4, <1>5, <1>6, <1>7, <1>8, <1>9, <1>10, <1>11, <1>12, <1>13,
    <1>14, <1>15, <1>16, <1>17, <1>18, <1>19, <1>20, <1>21, <1>22, <1>23, <1>24, <1>25,
    <1>26, <1>27, <1>28, <1>29, <1>30, <1>31, <1>32, <1>33, <1>34, <1>35, <1>36, <1>37,
    <1>38, <1>39 DEF Step, Launches, Guards, Applies
\* A launch that may still go on has not left the host but for a FUSE mount.
LEMMA HostStep ==
  ASSUME OwnTypes, NEW l \in Starter, Numbered(l), Held(l), Followed(l), Step(l)
  PROVE  HostKept(l)
<1> USE DEF OwnTypes, HostKept, Held, Followed, InHost, Mode, Numbered, Working, Early,
    chainVars, claimVars, lookVars, forkVars
<1>1. ASSUME NEW p \in ProcId, Begins(l, p) PROVE HostKept(l)
  BY <1>1, GoesOn DEF Begins
<1>2. ASSUME RunsElsewhere(l) PROVE HostKept(l)
  BY <1>2 DEF RunsElsewhere, AtOther
<1>3. ASSUME FailsElsewhere(l) PROVE HostKept(l)
  BY ZenonT(30), <1>3, GoesOn DEF FailsElsewhere, AtOther, MayUnshare
<1>4. ASSUME Sweeps(l) PROVE HostKept(l)
  BY <1>4 DEF Sweeps, Turns
<1>5. ASSUME SweepIsOver(l) PROVE HostKept(l)
  BY <1>5 DEF SweepIsOver
<1>6. ASSUME Clears(l) PROVE HostKept(l)
  BY <1>6 DEF Clears
<1>7. ASSUME NEW n \in TreeName, StartsClearing(l, n) PROVE HostKept(l)
  BY <1>7 DEF StartsClearing, Looks, SweepTakes
<1>8. ASSUME NEW n \in TreeName, PassesBy(l, n) PROVE HostKept(l)
  BY <1>8 DEF PassesBy, Looks
<1>9. ASSUME ClaimsBase(l) PROVE HostKept(l)
  BY <1>9 DEF ClaimsBase, Turns
<1>10. ASSUME BaseRefused(l) PROVE HostKept(l)
  BY <1>10, GoesOn DEF BaseRefused
<1>11. ASSUME ClaimsStage(l) PROVE HostKept(l)
  BY <1>11 DEF ClaimsStage, Turns
<1>12. ASSUME StageRefused(l) PROVE HostKept(l)
  BY <1>12 DEF StageRefused, Turns
<1>13. ASSUME NoRoom(l) PROVE HostKept(l)
  BY <1>13 DEF NoRoom, Turns
<1>14. ASSUME EntersNot(l) PROVE HostKept(l)
  BY <1>14 DEF EntersNot, Turns
<1>15. ASSUME Enters(l) PROVE HostKept(l)
  BY <1>15 DEF Enters, Turns
<1>16. ASSUME MountsTmpfs(l) PROVE HostKept(l)
  BY <1>16 DEF MountsTmpfs, Turns
<1>17. ASSUME FailsInside(l) PROVE HostKept(l)
  BY <1>17 DEF FailsInside, Gone
<1>18. ASSUME NEW p \in Part, Extracts(l, p) PROVE HostKept(l)
  BY <1>18 DEF Extracts, StillExtracts
<1>19. ASSUME ExtractsNot(l) PROVE HostKept(l)
  BY <1>19 DEF ExtractsNot, StillExtracts
<1>20. ASSUME MovesMount(l) PROVE HostKept(l)
  BY <1>20 DEF MovesMount, Turns
<1>21. ASSUME Renames(l) PROVE HostKept(l)
  BY <1>21 DEF Renames, Turns, Replaces
<1>22. ASSUME RenamesNot(l) PROVE HostKept(l)
  BY <1>22 DEF RenamesNot, Turns
<1>23. ASSUME Undoes(l) PROVE HostKept(l)
  BY <1>23 DEF Undoes, Turns, TakenBack
<1>24. ASSUME ReleasesStage(l) PROVE HostKept(l)
  BY ZenonT(30), <1>24 DEF ReleasesStage, Turns, MayRemove
<1>25. ASSUME ReleasesBase(l) PROVE HostKept(l)
  BY <1>25, GoesOn DEF ReleasesBase
<1>26. ASSUME Returns(l) PROVE HostKept(l)
  BY <1>26 DEF Returns
<1>27. ASSUME Spawns(l) PROVE HostKept(l)
  BY <1>27 DEF Spawns, Turns
<1>28. ASSUME SpawnsNot(l) PROVE HostKept(l)
  BY <1>28 DEF SpawnsNot, Turns
<1>29. ASSUME Unguarded(l) PROVE HostKept(l)
  BY <1>29 DEF Unguarded
<1>30. ASSUME Forks(l) PROVE HostKept(l)
  BY <1>30 DEF Forks
<1>31. ASSUME Drains(l) PROVE HostKept(l)
  BY <1>31 DEF Drains
<1>32. ASSUME RemovesOwn(l) PROVE HostKept(l)
  BY <1>32 DEF RemovesOwn, OwnTree
<1>33. ASSUME GuardianLeaves(l) PROVE HostKept(l)
  BY <1>33 DEF GuardianLeaves, OwnTree
<1>34. ASSUME FailsAtFork(l) PROVE HostKept(l)
  BY <1>34 DEF FailsAtFork, Gone
<1>35. ASSUME ClosesAll(l) PROVE HostKept(l)
  BY <1>35 DEF ClosesAll
<1>36. ASSUME Daemonizes(l) PROVE HostKept(l)
  BY <1>36 DEF Daemonizes
<1>37. ASSUME Finishes(l) PROVE HostKept(l)
  BY <1>37 DEF Finishes
<1>38. ASSUME KillsLaunch(l) PROVE HostKept(l)
  BY <1>38 DEF KillsLaunch, Gone, Ends
<1>39. ASSUME KillsGuardian(l) PROVE HostKept(l)
  BY <1>39 DEF KillsGuardian, Ends
<1> QED
  BY <1>1, <1>2, <1>3, <1>4, <1>5, <1>6, <1>7, <1>8, <1>9, <1>10, <1>11, <1>12, <1>13,
    <1>14, <1>15, <1>16, <1>17, <1>18, <1>19, <1>20, <1>21, <1>22, <1>23, <1>24, <1>25,
    <1>26, <1>27, <1>28, <1>29, <1>30, <1>31, <1>32, <1>33, <1>34, <1>35, <1>36, <1>37,
    <1>38, <1>39 DEF Step, Launches, Guards, Applies
\* A tmpfs appears where its launch mounts it, and nowhere else.
LEMMA MountsKept ==
  ASSUME OwnTypes, PlaceTypes, NEW l \in Starter, Numbered(l), Places(l),
         NEW k \in Starter, mountedOn[k] = NoName
  PROVE  \/ mountedOn'[k] = NoName
         \/ k = l /\ turn[l] \in {"inside", "filling"} /\ Mode(l) = "tmpfs"
<1> USE DEF PlaceTypes
<1>1. ASSUME NEW n, RemovedIfEmpty(n) \/ Removed(n) PROVE mountedOn'[k] = NoName
  BY <1>1 DEF RemovedIfEmpty, Removed, placeVars
<1>2. ASSUME NEW n, RemovesPart(n) \/ MakeDirectory(n) PROVE mountedOn'[k] = NoName
  BY <1>2 DEF RemovesPart, MakeDirectory
<1>3. CASE UNCHANGED placeVars
  BY <1>3 DEF placeVars
<1>4. CASE MountsTmpfs(l) \/ MovesMount(l)
  BY <1>4 DEF MountsTmpfs, MovesMount, Turns, Numbered
<1>5. CASE Renames(l)
  BY <1>5 DEF Renames
<1>6. ASSUME NEW p \in Part, Extracts(l, p) PROVE mountedOn'[k] = NoName
  BY <1>6 DEF Extracts, placeVars
<1> QED
  BY <1>1, <1>2, <1>3, <1>4, <1>5, <1>6 DEF Places

\* A launch that may still go on stays in the host's namespaces, with no mount.
LEMMA OutsideStep ==
  ASSUME OwnTypes, PlaceTypes, NEW l \in Starter, Numbered(l), Held(l), Followed(l),
      Step(l),
         Places(l), NEW k \in Starter, Outside(k)
  PROVE  Outside(k)'
<1>1. CASE k = l
  <2>1. HostKept(l)
    BY HostStep
  <2> SUFFICES ASSUME InHost(l)' PROVE mountedOn'[l] = NoName
           /\ unshared'[l] \subseteq (IF asked[l].setuid THEN {} ELSE {"fuse", "unmapped"}) /\ asked' = asked
    BY <1>1 DEF Outside
  <2>2. InHost(l)
    BY <2>1 DEF HostKept
  <2>3. mountedOn[l] = NoName /\ unshared[l] \subseteq (IF asked[l].setuid THEN {} ELSE {"fuse", "unmapped"})
    BY <1>1, <2>2 DEF Outside
  <2>4. mountedOn'[l] = NoName
    BY <2>1, <2>3, MountsKept DEF HostKept, Mode
  <2> QED
    BY <2>1, <2>3, <2>4 DEF HostKept
<1>2. CASE k # l
  <2>1. Kept(k)
    BY <1>2, OthersKeep
  <2>2. mountedOn[k] = NoName => mountedOn'[k] = NoName
    BY <1>2, MountsKept
  <2> QED
    BY <2>1, <2>2 DEF Kept, Outside, InHost, Mode
<1> QED
  BY <1>1, <1>2

\* A launch that begins is given a number nobody who runs has.
LEMMA ActiveStep ==
  ASSUME OwnTypes, NEW l \in Starter, Numbered(l), Held(l), Followed(l), Step(l)
  PROVE  ActiveKept(l)
<1> USE DEF OwnTypes, ActiveKept, Active, Followed, chainVars, claimVars, lookVars, forkVars
<1>1. ASSUME NEW p \in ProcId, Begins(l, p) PROVE ActiveKept(l)
  BY <1>1, GoesOn DEF Begins
<1>2. ASSUME RunsElsewhere(l) PROVE ActiveKept(l)
  BY <1>2 DEF RunsElsewhere, AtOther
<1>3. ASSUME FailsElsewhere(l) PROVE ActiveKept(l)
  BY <1>3, GoesOn DEF FailsElsewhere, AtOther
<1>4. ASSUME Sweeps(l) PROVE ActiveKept(l)
  BY <1>4 DEF Sweeps, Turns
<1>5. ASSUME SweepIsOver(l) PROVE ActiveKept(l)
  BY <1>5 DEF SweepIsOver
<1>6. ASSUME Clears(l) PROVE ActiveKept(l)
  BY <1>6 DEF Clears
<1>7. ASSUME NEW n \in TreeName, StartsClearing(l, n) PROVE ActiveKept(l)
  BY <1>7 DEF StartsClearing, Looks, SweepTakes
<1>8. ASSUME NEW n \in TreeName, PassesBy(l, n) PROVE ActiveKept(l)
  BY <1>8 DEF PassesBy, Looks
<1>9. ASSUME ClaimsBase(l) PROVE ActiveKept(l)
  BY <1>9 DEF ClaimsBase, Turns
<1>10. ASSUME BaseRefused(l) PROVE ActiveKept(l)
  BY <1>10, GoesOn DEF BaseRefused
<1>11. ASSUME ClaimsStage(l) PROVE ActiveKept(l)
  BY <1>11 DEF ClaimsStage, Turns
<1>12. ASSUME StageRefused(l) PROVE ActiveKept(l)
  BY <1>12 DEF StageRefused, Turns
<1>13. ASSUME NoRoom(l) PROVE ActiveKept(l)
  BY <1>13 DEF NoRoom, Turns
<1>14. ASSUME EntersNot(l) PROVE ActiveKept(l)
  BY <1>14 DEF EntersNot, Turns
<1>15. ASSUME Enters(l) PROVE ActiveKept(l)
  BY <1>15 DEF Enters, Turns
<1>16. ASSUME MountsTmpfs(l) PROVE ActiveKept(l)
  BY <1>16 DEF MountsTmpfs, Turns
<1>17. ASSUME FailsInside(l) PROVE ActiveKept(l)
  BY <1>17 DEF FailsInside, Gone
<1>18. ASSUME NEW p \in Part, Extracts(l, p) PROVE ActiveKept(l)
  BY <1>18 DEF Extracts, StillExtracts
<1>19. ASSUME ExtractsNot(l) PROVE ActiveKept(l)
  BY <1>19 DEF ExtractsNot, StillExtracts
<1>20. ASSUME MovesMount(l) PROVE ActiveKept(l)
  BY <1>20 DEF MovesMount, Turns
<1>21. ASSUME Renames(l) PROVE ActiveKept(l)
  BY <1>21 DEF Renames, Turns, Replaces
<1>22. ASSUME RenamesNot(l) PROVE ActiveKept(l)
  BY <1>22 DEF RenamesNot, Turns
<1>23. ASSUME Undoes(l) PROVE ActiveKept(l)
  BY <1>23 DEF Undoes, Turns, TakenBack
<1>24. ASSUME ReleasesStage(l) PROVE ActiveKept(l)
  BY <1>24 DEF ReleasesStage, Turns, MayRemove
<1>25. ASSUME ReleasesBase(l) PROVE ActiveKept(l)
  BY <1>25, GoesOn DEF ReleasesBase
<1>26. ASSUME Returns(l) PROVE ActiveKept(l)
  BY <1>26 DEF Returns
<1>27. ASSUME Spawns(l) PROVE ActiveKept(l)
  BY <1>27 DEF Spawns, Turns
<1>28. ASSUME SpawnsNot(l) PROVE ActiveKept(l)
  BY <1>28 DEF SpawnsNot, Turns
<1>29. ASSUME Unguarded(l) PROVE ActiveKept(l)
  BY <1>29 DEF Unguarded
<1>30. ASSUME Forks(l) PROVE ActiveKept(l)
  BY <1>30 DEF Forks
<1>31. ASSUME Drains(l) PROVE ActiveKept(l)
  BY <1>31 DEF Drains
<1>32. ASSUME RemovesOwn(l) PROVE ActiveKept(l)
  BY <1>32 DEF RemovesOwn, OwnTree
<1>33. ASSUME GuardianLeaves(l) PROVE ActiveKept(l)
  BY <1>33 DEF GuardianLeaves, OwnTree
<1>34. ASSUME FailsAtFork(l) PROVE ActiveKept(l)
  BY <1>34 DEF FailsAtFork, Gone
<1>35. ASSUME ClosesAll(l) PROVE ActiveKept(l)
  BY <1>35 DEF ClosesAll
<1>36. ASSUME Daemonizes(l) PROVE ActiveKept(l)
  BY <1>36 DEF Daemonizes
<1>37. ASSUME Finishes(l) PROVE ActiveKept(l)
  BY <1>37 DEF Finishes
<1>38. ASSUME KillsLaunch(l) PROVE ActiveKept(l)
  BY <1>38 DEF KillsLaunch, Gone, Ends
<1>39. ASSUME KillsGuardian(l) PROVE ActiveKept(l)
  BY <1>39 DEF KillsGuardian, Ends
<1> QED
  BY <1>1, <1>2, <1>3, <1>4, <1>5, <1>6, <1>7, <1>8, <1>9, <1>10, <1>11, <1>12, <1>13,
    <1>14, <1>15, <1>16, <1>17, <1>18, <1>19, <1>20, <1>21, <1>22, <1>23, <1>24, <1>25,
    <1>26, <1>27, <1>28, <1>29, <1>30, <1>31, <1>32, <1>33, <1>34, <1>35, <1>36, <1>37,
    <1>38, <1>39 DEF Step, Launches, Guards, Applies
\* Launches that run have different numbers.
LEMMA ApartStep ==
  ASSUME OwnTypes, NEW l \in Starter, Numbered(l), Held(l), Followed(l), Step(l), Apart
  PROVE  Apart'
<1> SUFFICES ASSUME NEW k \in Starter, NEW m \in Starter, k # m, Active(k)', Active(m)'
             PROVE  number'[k] # number'[m]
  BY DEF Apart
<1>1. ActiveKept(l)
  BY ActiveStep
<1>2. ASSUME NEW j \in Starter, j # l
      PROVE  number'[j] = number[j] /\ (Active(j)' <=> Active(j))
  BY <1>2, OthersKeep DEF Kept, Active
<1>3. ASSUME NEW j \in Starter, j # l, Active(j)', Active(l)' PROVE number'[j] # number'[l]
  BY <1>1, <1>2, <1>3 DEF ActiveKept, Apart
<1>4. CASE k # l /\ m # l
  BY <1>2, <1>4 DEF Apart
<1> QED
  BY <1>3, <1>4

\* A launch that has not come to its claim, or has let go, claims nothing.
LEMMA ClaimsNothing ==
  ASSUME OwnTypes, NEW l \in Starter, Held(l), Followed(l), turn[l] \in Early
  PROVE  copies[l] = {} /\ ~stageHeld[l]
<1>1. guard[l] = "none" /\ program[l] = "none"
  BY DEF Followed, Early
<1>2. \A c \in copies[l] : c \in {"launch", "guardian", "application"}
  BY DEF OwnTypes
<1>3. "launch" \notin copies[l] /\ "guardian" \notin copies[l] /\ "application" \notin copies[l]
  BY <1>1 DEF Held, Early, Working, Guarding, Occupied
<1>4. copies[l] = {}
  BY <1>2, <1>3
<1>5. ~stageHeld[l]
  BY DEF Held, Early
<1> QED
  BY <1>4, <1>5

\* Claims are taken at two turns, and let go of.
LEMMA ClaimChange ==
  ASSUME OwnTypes, NEW l \in Starter, Numbered(l), Held(l), Followed(l), Step(l)
  PROVE  Claimed(l)
<1> USE DEF OwnTypes, Claimed, Held, Followed, Working, chainVars, claimVars, lookVars,
    forkVars
<1>1. ASSUME NEW p \in ProcId, Begins(l, p) PROVE Claimed(l)
  <2>1. copies[l] = {} /\ ~stageHeld[l] /\ clearing[l] = NoName
    BY <1>1, ClaimsNothing DEF Begins, Early
  <2> QED
    BY <1>1, <2>1 DEF Begins
<1>2. ASSUME RunsElsewhere(l) PROVE Claimed(l)
  BY <1>2 DEF RunsElsewhere, AtOther
<1>3. ASSUME FailsElsewhere(l) PROVE Claimed(l)
  <2>0. turn[l] \in {"trying", "mounting"}
    BY <1>3 DEF FailsElsewhere, AtOther
  <2>1. copies[l] = {} /\ ~stageHeld[l] /\ clearing[l] = NoName
    BY <2>0, ClaimsNothing DEF Early
  <2> QED
    BY <1>3, <2>1 DEF FailsElsewhere
<1>4. ASSUME Sweeps(l) PROVE Claimed(l)
  BY <1>4 DEF Sweeps, Turns
<1>5. ASSUME SweepIsOver(l) PROVE Claimed(l)
  BY <1>5 DEF SweepIsOver
<1>6. ASSUME Clears(l) PROVE Claimed(l)
  BY <1>6 DEF Clears
<1>7. ASSUME NEW n \in TreeName, StartsClearing(l, n) PROVE Claimed(l)
  BY <1>7 DEF StartsClearing, Looks, SweepTakes
<1>8. ASSUME NEW n \in TreeName, PassesBy(l, n) PROVE Claimed(l)
  BY <1>8 DEF PassesBy, Looks
<1>9. ASSUME ClaimsBase(l) PROVE Claimed(l)
  BY <1>9 DEF ClaimsBase, Turns
<1>10. ASSUME BaseRefused(l) PROVE Claimed(l)
  <2>1. copies[l] = {} /\ ~stageHeld[l] /\ clearing[l] = NoName
    BY <1>10, ClaimsNothing DEF BaseRefused, Early
  <2> QED
    BY <1>10, <2>1 DEF BaseRefused
<1>11. ASSUME ClaimsStage(l) PROVE Claimed(l)
  BY <1>11 DEF ClaimsStage, Turns
<1>12. ASSUME StageRefused(l) PROVE Claimed(l)
  BY <1>12 DEF StageRefused, Turns
<1>13. ASSUME NoRoom(l) PROVE Claimed(l)
  BY <1>13 DEF NoRoom, Turns
<1>14. ASSUME EntersNot(l) PROVE Claimed(l)
  BY <1>14 DEF EntersNot, Turns
<1>15. ASSUME Enters(l) PROVE Claimed(l)
  BY <1>15 DEF Enters, Turns
<1>16. ASSUME MountsTmpfs(l) PROVE Claimed(l)
  BY <1>16 DEF MountsTmpfs, Turns
<1>17. ASSUME FailsInside(l) PROVE Claimed(l)
  BY <1>17 DEF FailsInside, Gone
<1>18. ASSUME NEW p \in Part, Extracts(l, p) PROVE Claimed(l)
  BY <1>18 DEF Extracts, StillExtracts
<1>19. ASSUME ExtractsNot(l) PROVE Claimed(l)
  BY <1>19 DEF ExtractsNot, StillExtracts
<1>20. ASSUME MovesMount(l) PROVE Claimed(l)
  BY <1>20 DEF MovesMount, Turns
<1>21. ASSUME Renames(l) PROVE Claimed(l)
  BY <1>21 DEF Renames, Turns, Replaces
<1>22. ASSUME RenamesNot(l) PROVE Claimed(l)
  BY <1>22 DEF RenamesNot, Turns
<1>23. ASSUME Undoes(l) PROVE Claimed(l)
  BY <1>23 DEF Undoes, Turns, TakenBack
<1>24. ASSUME ReleasesStage(l) PROVE Claimed(l)
  BY <1>24 DEF ReleasesStage, Turns, MayRemove
<1>25. ASSUME ReleasesBase(l) PROVE Claimed(l)
  BY <1>25, GoesOn DEF ReleasesBase
<1>26. ASSUME Returns(l) PROVE Claimed(l)
  BY <1>26 DEF Returns
<1>27. ASSUME Spawns(l) PROVE Claimed(l)
  BY <1>27 DEF Spawns, Turns
<1>28. ASSUME SpawnsNot(l) PROVE Claimed(l)
  BY <1>28 DEF SpawnsNot, Turns
<1>29. ASSUME Unguarded(l) PROVE Claimed(l)
  BY <1>29 DEF Unguarded
<1>30. ASSUME Forks(l) PROVE Claimed(l)
  BY <1>30 DEF Forks
<1>31. ASSUME Drains(l) PROVE Claimed(l)
  BY <1>31 DEF Drains
<1>32. ASSUME RemovesOwn(l) PROVE Claimed(l)
  BY <1>32 DEF RemovesOwn, OwnTree
<1>33. ASSUME GuardianLeaves(l) PROVE Claimed(l)
  BY <1>33 DEF GuardianLeaves, OwnTree
<1>34. ASSUME FailsAtFork(l) PROVE Claimed(l)
  BY <1>34 DEF FailsAtFork, Gone
<1>35. ASSUME ClosesAll(l) PROVE Claimed(l)
  BY <1>35 DEF ClosesAll
<1>36. ASSUME Daemonizes(l) PROVE Claimed(l)
  BY <1>36 DEF Daemonizes
<1>37. ASSUME Finishes(l) PROVE Claimed(l)
  BY <1>37 DEF Finishes
<1>38. ASSUME KillsLaunch(l) PROVE Claimed(l)
  BY <1>38 DEF KillsLaunch, Gone, Ends
<1>39. ASSUME KillsGuardian(l) PROVE Claimed(l)
  BY <1>39 DEF KillsGuardian, Ends
<1> QED
  BY <1>1, <1>2, <1>3, <1>4, <1>5, <1>6, <1>7, <1>8, <1>9, <1>10, <1>11, <1>12, <1>13,
    <1>14, <1>15, <1>16, <1>17, <1>18, <1>19, <1>20, <1>21, <1>22, <1>23, <1>24, <1>25,
    <1>26, <1>27, <1>28, <1>29, <1>30, <1>31, <1>32, <1>33, <1>34, <1>35, <1>36, <1>37,
    <1>38, <1>39 DEF Step, Launches, Guards, Applies
\* A claim is taken on what nobody clears, and clearing begins on what nobody claims.
LEMMA ClaimStep ==
  ASSUME OwnTypes, NEW l \in Starter, Numbered(l), Held(l), Followed(l), Step(l)
  PROVE  ClaimKept(l)
<1>1. Claimed(l)
  BY ClaimChange
<1>2. ASSUME NEW n \in TreeName, Claims(l, n)'
      PROVE  Claims(l, n) \/ (~Cleared(n) /\ clearing'[l] = NoName)
  <2>1. CASE ClaimsBase(l)
    <3>1. clearing'[l] = NoName /\ stageHeld'[l] = stageHeld[l] /\ tried' = tried /\ number' = number
      BY <2>1 DEF ClaimsBase, Turns, Held, lookVars, chainVars
    <3>2. ~Cleared(Base(l)) /\ Base(l)' = Base(l) /\ Staging(l)' = Staging(l)
      BY <2>1, <3>1 DEF ClaimsBase, Base, Staging, Mode
    <3> QED
      BY <1>2, <3>1, <3>2 DEF Claims
  <2>2. CASE ClaimsStage(l)
    <3>1. clearing'[l] = NoName /\ copies' = copies /\ tried' = tried /\ number' = number
      BY <2>2 DEF ClaimsStage, Turns, Held, lookVars, chainVars
    <3>2. ~Cleared(Staging(l)) /\ Base(l)' = Base(l) /\ Staging(l)' = Staging(l)
      BY <2>2, <3>1 DEF ClaimsStage, Base, Staging, Mode
    <3> QED
      BY <1>2, <3>1, <3>2 DEF Claims
  <2>3. CASE ~ClaimsBase(l) /\ ~ClaimsStage(l)
    BY <1>1, <1>2, <2>3 DEF Claimed, Claims, Base, Staging, Mode
  <2> QED
    BY <2>1, <2>2, <2>3
<1>3. ASSUME NEW n \in TreeName, clearing'[l] = n
      PROVE  clearing[l] = n \/ (MayRemove(n, Starter) /\ ~Claims(l, n)')
  <2>1. PICK q \in TreeName : clearing[l] = n \/ (StartsClearing(l, q) /\ q = n)
    BY <1>1, <1>3, NoNameApart DEF Claimed
  <2>2. CASE StartsClearing(l, n)
    BY <2>2 DEF StartsClearing, SweepTakes, MayRemove, Claims, Base, Staging, Mode,
        claimVars,
      chainVars
  <2> QED
    BY <2>1, <2>2
<1> QED
  BY <1>2, <1>3 DEF ClaimKept

\* Claims and clearing exclude each other.
LEMMA ExcludedStep ==
  ASSUME OwnTypes, NEW l \in Starter, Numbered(l), Held(l), Followed(l), Step(l), Excluded
  PROVE  Excluded'
<1> SUFFICES ASSUME NEW n \in TreeName, NEW k \in Starter, Claims(k, n)',
                    NEW m \in Starter, clearing'[m] = n
             PROVE  FALSE
  BY DEF Excluded, Cleared
<1>1. ClaimKept(l)
  BY ClaimStep
<1>2. ASSUME NEW j \in Starter, j # l
      PROVE  clearing'[j] = clearing[j] /\ (Claims(j, n)' <=> Claims(j, n))
  BY <1>2, OthersKeep DEF Kept, Claims, Base, Staging, Mode
<1>3. n # NoName
  BY NoNameApart
<1>4. CASE k # l /\ m # l
  BY <1>2, <1>4 DEF Excluded, Cleared
<1>5. CASE k # l /\ m = l
  BY <1>1, <1>2, <1>3, <1>5 DEF ClaimKept, Excluded, MayRemove, Cleared
<1>6. CASE k = l /\ m # l
  BY <1>1, <1>2, <1>3, <1>6 DEF ClaimKept, Excluded, Cleared
<1>7. CASE k = l /\ m = l
  BY <1>1, <1>3, <1>7 DEF ClaimKept, Excluded, MayRemove, Cleared
<1> QED
  BY <1>4, <1>5, <1>6, <1>7

\* Whoever stops being answerable for its extraction has renamed or removed it.
LEMMA WroteChange ==
  ASSUME OwnTypes, NEW l \in Starter, Numbered(l), Held(l), Followed(l), Step(l)
  PROVE  Passing(l)
<1> USE DEF OwnTypes, Passing, Mode, Held, Followed, Numbered, Working, Guarding,
    chainVars, claimVars, lookVars, forkVars
<1>1. ASSUME NEW p \in ProcId, Begins(l, p) PROVE Passing(l)
  BY <1>1, GoesOn DEF Begins
<1>2. ASSUME RunsElsewhere(l) PROVE Passing(l)
  BY <1>2 DEF RunsElsewhere, AtOther
<1>3. ASSUME FailsElsewhere(l) PROVE Passing(l)
  BY <1>3, GoesOn DEF FailsElsewhere, AtOther
<1>4. ASSUME Sweeps(l) PROVE Passing(l)
  BY <1>4 DEF Sweeps, Turns
<1>5. ASSUME SweepIsOver(l) PROVE Passing(l)
  BY <1>5 DEF SweepIsOver
<1>6. ASSUME Clears(l) PROVE Passing(l)
  BY <1>6 DEF Clears
<1>7. ASSUME NEW n \in TreeName, StartsClearing(l, n) PROVE Passing(l)
  BY <1>7 DEF StartsClearing, Looks, SweepTakes
<1>8. ASSUME NEW n \in TreeName, PassesBy(l, n) PROVE Passing(l)
  BY <1>8 DEF PassesBy, Looks
<1>9. ASSUME ClaimsBase(l) PROVE Passing(l)
  BY <1>9 DEF ClaimsBase, Turns
<1>10. ASSUME BaseRefused(l) PROVE Passing(l)
  BY <1>10, GoesOn DEF BaseRefused
<1>11. ASSUME ClaimsStage(l) PROVE Passing(l)
  BY <1>11 DEF ClaimsStage, Turns
<1>12. ASSUME StageRefused(l) PROVE Passing(l)
  BY <1>12 DEF StageRefused, Turns
<1>13. ASSUME NoRoom(l) PROVE Passing(l)
  BY <1>13 DEF NoRoom, Turns
<1>14. ASSUME EntersNot(l) PROVE Passing(l)
  BY <1>14 DEF EntersNot, Turns
<1>15. ASSUME Enters(l) PROVE Passing(l)
  BY <1>15 DEF Enters, Turns
<1>16. ASSUME MountsTmpfs(l) PROVE Passing(l)
  BY <1>16 DEF MountsTmpfs, Turns
<1>17. ASSUME FailsInside(l) PROVE Passing(l)
  BY <1>17 DEF FailsInside, Gone
<1>18. ASSUME NEW p \in Part, Extracts(l, p) PROVE Passing(l)
  <2>1. /\ turn[l] \in {"filling", "staged"} /\ turn'[l] = "filling"
        /\ UNCHANGED <<tried, number, guard>>
    BY <1>18 DEF Extracts, StillExtracts
  <2> QED
    BY <2>1
<1>19. ASSUME ExtractsNot(l) PROVE Passing(l)
  BY <1>19 DEF ExtractsNot, StillExtracts
<1>20. ASSUME MovesMount(l) PROVE Passing(l)
  BY <1>20 DEF MovesMount, Turns
<1>21. ASSUME Renames(l) PROVE Passing(l)
  BY <1>21 DEF Renames, Turns, Replaces
<1>22. ASSUME RenamesNot(l) PROVE Passing(l)
  BY <1>22 DEF RenamesNot, Turns
<1>23. ASSUME Undoes(l) PROVE Passing(l)
  BY <1>23 DEF Undoes, Turns, TakenBack
<1>24. ASSUME ReleasesStage(l) PROVE Passing(l)
  BY ZenonT(30), <1>24 DEF ReleasesStage, Turns, MayRemove
<1>25. ASSUME ReleasesBase(l) PROVE Passing(l)
  BY <1>25, GoesOn DEF ReleasesBase
<1>26. ASSUME Returns(l) PROVE Passing(l)
  BY <1>26 DEF Returns
<1>27. ASSUME Spawns(l) PROVE Passing(l)
  BY <1>27 DEF Spawns, Turns
<1>28. ASSUME SpawnsNot(l) PROVE Passing(l)
  BY <1>28 DEF SpawnsNot, Turns
<1>29. ASSUME Unguarded(l) PROVE Passing(l)
  BY <1>29 DEF Unguarded
<1>30. ASSUME Forks(l) PROVE Passing(l)
  BY <1>30 DEF Forks
<1>31. ASSUME Drains(l) PROVE Passing(l)
  BY <1>31 DEF Drains
<1>32. ASSUME RemovesOwn(l) PROVE Passing(l)
  BY <1>32 DEF RemovesOwn, OwnTree
<1>33. ASSUME GuardianLeaves(l) PROVE Passing(l)
  BY <1>33 DEF GuardianLeaves, OwnTree
<1>34. ASSUME FailsAtFork(l) PROVE Passing(l)
  BY <1>34 DEF FailsAtFork, Gone
<1>35. ASSUME ClosesAll(l) PROVE Passing(l)
  BY <1>35 DEF ClosesAll
<1>36. ASSUME Daemonizes(l) PROVE Passing(l)
  BY <1>36 DEF Daemonizes
<1>37. ASSUME Finishes(l) PROVE Passing(l)
  BY <1>37 DEF Finishes
<1>38. ASSUME KillsLaunch(l) PROVE Passing(l)
  BY <1>38 DEF KillsLaunch, Gone, Ends
<1>39. ASSUME KillsGuardian(l) PROVE Passing(l)
  BY <1>39 DEF KillsGuardian, Ends
<1> QED
  BY <1>1, <1>2, <1>3, <1>4, <1>5, <1>6, <1>7, <1>8, <1>9, <1>10, <1>11, <1>12, <1>13,
    <1>14, <1>15, <1>16, <1>17, <1>18, <1>19, <1>20, <1>21, <1>22, <1>23, <1>24, <1>25,
    <1>26, <1>27, <1>28, <1>29, <1>30, <1>31, <1>32, <1>33, <1>34, <1>35, <1>36, <1>37,
    <1>38, <1>39 DEF Step, Launches, Guards, Applies
\* An extraction stays marked as long as its launch, or its guardian, is to remove it.
LEMMA WroteStep ==
  ASSUME OwnTypes, PlaceTypes, NEW l \in Starter, Numbered(l), Held(l), Followed(l),
      Step(l),
         NEW t \in TreeName, Wrote(l, t), writer[t] = l, writer'[t] = l
  PROVE  Wrote(l, t)'
<1> USE TreeAssumption
<1>1. Passing(l)
  BY WroteChange
<1>2. Base(l)' = Base(l) /\ Staging(l)' = Staging(l) /\ Mode(l)' = Mode(l)
  BY <1>1 DEF Passing, Wrote, Base, Staging, Mode
<1>3. CASE t = Staging(l) /\ turn[l] \in {"filling", "undoing", "over"} /\ guard[l] = "none"
  <2>1. ~Renames(l)
    <3> SUFFICES ASSUME Renames(l) PROVE FALSE
      OBVIOUS
    <3>1. writer' = [writer EXCEPT ![Base(l)] = l, ![Staging(l)] = "nobody"]
      BY DEF Renames
    <3> QED
      BY <1>3, <3>1 DEF PlaceTypes
  <2>2. ~Undoes(l)
    BY <1>3 DEF Undoes, TakenBack, Removed, PlaceTypes
  <2> QED
    BY <1>1, <1>2, <1>3, <2>1, <2>2 DEF Passing, Wrote
<1>4. CASE /\ t = Base(l) /\ guard[l] # "gone"
          /\ turn[l] \in {"published", "ready", "waiting", "removing", "over"}
  <2>1. ASSUME GuardianLeaves(l) \/ FailsAtFork(l) PROVE FALSE
    <3>1. OwnTree(l)
      BY <1>4 DEF OwnTree, Wrote
    <3>2. RemovedIfEmpty(Base(l)) /\ root[Base(l)] = {}
      BY <2>1, <3>1 DEF GuardianLeaves, FailsAtFork, OwnTree
    <3> QED
      BY <1>4, <3>2 DEF RemovedIfEmpty, Removed, PlaceTypes
  <2> QED
    BY <1>1, <1>2, <1>4, <2>1 DEF Passing, Wrote
<1> QED
  BY <1>3, <1>4 DEF Wrote

\* Whose extraction a directory holds changes with that launch's own writing and
\* its own rename, and is forgotten with the directory.
LEMMA WritersKept ==
  ASSUME PlaceTypes, NEW l \in Starter, Places(l), NEW k \in Starter, NEW t \in TreeName,
         writer'[t] = k
  PROVE  writer[t] = k \/ (k = l /\ (Renames(l) \/ \E p \in Part : Extracts(l, p)))
<1> USE TreeAssumption DEF PlaceTypes
<1>1. ASSUME NEW n, RemovedIfEmpty(n) \/ Removed(n) PROVE writer[t] = k
  BY <1>1 DEF RemovedIfEmpty, Removed, placeVars
<1>2. ASSUME NEW n, RemovesPart(n) \/ MakeDirectory(n) PROVE writer[t] = k
  BY <1>2 DEF RemovesPart, MakeDirectory
<1>3. CASE UNCHANGED placeVars
  BY <1>3 DEF placeVars
<1>4. CASE MountsTmpfs(l) \/ MovesMount(l)
  BY <1>4 DEF MountsTmpfs, MovesMount
<1>5. CASE Renames(l)
  BY <1>5 DEF Renames
<1>6. ASSUME NEW p \in Part, Extracts(l, p) PROVE writer[t] = k \/ k = l
  BY <1>6 DEF Extracts, placeVars
<1> QED
  BY <1>1, <1>2, <1>3, <1>4, <1>5, <1>6 DEF Places

\* Where a launch's extraction is says how far the launch is.
LEMMA WriterStep ==
  ASSUME OwnTypes, PlaceTypes, NEW l \in Starter, Numbered(l), Held(l), Followed(l),
      Step(l),
         Places(l), NEW k \in Starter, WrittenBy(k)
  PROVE  WrittenBy(k)'
<1> SUFFICES ASSUME NEW t \in TreeName, writer'[t] = k PROVE Wrote(k, t)'
  BY DEF WrittenBy, TreeName
<1>1. CASE writer[t] = k /\ k # l
  BY <1>1, OthersKeep DEF Kept, WrittenBy, Wrote, Base, Staging, Mode
<1>2. CASE writer[t] = k /\ k = l
  BY <1>2, WroteStep DEF WrittenBy
<1>3. CASE k = l /\ Renames(l)
  <2>1. t \in {Base(l), Staging(l)} \/ writer[t] = l
    BY <1>3 DEF Renames, PlaceTypes
  <2>2. turn'[l] = "published" /\ guard'[l] = "none"
    BY <1>3 DEF Renames, Turns, OwnTypes, Followed, forkVars
  <2>3. Base(l) # Staging(l) /\ Base(l) \in TreeName /\ Staging(l) \in TreeName
    BY <1>3, NamesOfTrees DEF Base, Staging, Numbered, Renames, Turns
  <2>4. t # Staging(l)
    BY <1>3, <2>3, TreeAssumption DEF Renames, PlaceTypes
  <2>5. CASE writer[t] = l
    BY <1>2, <2>5, <1>3
  <2>6. CASE t = Base(l)
    BY <1>3, <2>2, <2>6 DEF Wrote, Base, Mode, Renames, chainVars
  <2> QED
    BY <2>1, <2>4, <2>5, <2>6
<1>4. CASE k = l /\ \E p \in Part : Extracts(l, p)
  <2>1. PICK p \in Part : Extracts(l, p)
    BY <1>4
  <2>2. CASE writer[t] = l
    BY <1>2, <1>4, <2>2
  <2>3. CASE writer[t] # l
    <3>1. t = Staging(l) /\ Mode(l) = "rundir"
      BY <1>4, <2>1, <2>3 DEF Extracts, PlaceTypes, placeVars
    <3>2. turn'[l] = "filling" /\ guard'[l] = "none"
      BY <2>1 DEF Extracts, StillExtracts, OwnTypes, Followed, forkVars
    <3> QED
      BY <1>4, <2>1, <3>1, <3>2 DEF Wrote, Staging, Mode, Extracts, chainVars
  <2> QED
    BY <2>2, <2>3
<1> QED
  BY <1>1, <1>2, <1>3, <1>4, WritersKept

\* A staging tree is made, then filled.
LEMMA FillsChange ==
  ASSUME OwnTypes, NEW l \in Starter, Numbered(l), Held(l), Followed(l), Step(l)
  PROVE  Filling(l)
<1> USE DEF OwnTypes, Filling, Held, Followed, Numbered, Mode, Working, chainVars,
    claimVars, lookVars, forkVars
<1>1. ASSUME NEW p \in ProcId, Begins(l, p) PROVE Filling(l)
  BY <1>1, GoesOn DEF Begins
<1>2. ASSUME RunsElsewhere(l) PROVE Filling(l)
  BY <1>2 DEF RunsElsewhere, AtOther
<1>3. ASSUME FailsElsewhere(l) PROVE Filling(l)
  BY <1>3, GoesOn DEF FailsElsewhere, AtOther
<1>4. ASSUME Sweeps(l) PROVE Filling(l)
  BY <1>4 DEF Sweeps, Turns
<1>5. ASSUME SweepIsOver(l) PROVE Filling(l)
  BY <1>5 DEF SweepIsOver
<1>6. ASSUME Clears(l) PROVE Filling(l)
  BY <1>6 DEF Clears
<1>7. ASSUME NEW n \in TreeName, StartsClearing(l, n) PROVE Filling(l)
  BY <1>7 DEF StartsClearing, Looks, SweepTakes
<1>8. ASSUME NEW n \in TreeName, PassesBy(l, n) PROVE Filling(l)
  BY <1>8 DEF PassesBy, Looks
<1>9. ASSUME ClaimsBase(l) PROVE Filling(l)
  BY <1>9 DEF ClaimsBase, Turns
<1>10. ASSUME BaseRefused(l) PROVE Filling(l)
  BY <1>10, GoesOn DEF BaseRefused
<1>11. ASSUME ClaimsStage(l) PROVE Filling(l)
  BY <1>11 DEF ClaimsStage, Turns
<1>12. ASSUME StageRefused(l) PROVE Filling(l)
  BY <1>12 DEF StageRefused, Turns
<1>13. ASSUME NoRoom(l) PROVE Filling(l)
  BY ZenonT(30), <1>13 DEF NoRoom, Turns
<1>14. ASSUME EntersNot(l) PROVE Filling(l)
  BY <1>14 DEF EntersNot, Turns
<1>15. ASSUME Enters(l) PROVE Filling(l)
  BY <1>15 DEF Enters, Turns
<1>16. ASSUME MountsTmpfs(l) PROVE Filling(l)
  BY <1>16 DEF MountsTmpfs, Turns
<1>17. ASSUME FailsInside(l) PROVE Filling(l)
  BY <1>17 DEF FailsInside, Gone
<1>18. ASSUME NEW p \in Part, Extracts(l, p) PROVE Filling(l)
  BY <1>18 DEF Extracts, StillExtracts
<1>19. ASSUME ExtractsNot(l) PROVE Filling(l)
  BY <1>19 DEF ExtractsNot, StillExtracts
<1>20. ASSUME MovesMount(l) PROVE Filling(l)
  BY <1>20 DEF MovesMount, Turns
<1>21. ASSUME Renames(l) PROVE Filling(l)
  BY <1>21 DEF Renames, Turns, Replaces
<1>22. ASSUME RenamesNot(l) PROVE Filling(l)
  BY <1>22 DEF RenamesNot, Turns
<1>23. ASSUME Undoes(l) PROVE Filling(l)
  BY ZenonT(30), <1>23 DEF Undoes, Turns, TakenBack
<1>24. ASSUME ReleasesStage(l) PROVE Filling(l)
  BY ZenonT(30), <1>24 DEF ReleasesStage, Turns, MayRemove
<1>25. ASSUME ReleasesBase(l) PROVE Filling(l)
  BY <1>25, GoesOn DEF ReleasesBase
<1>26. ASSUME Returns(l) PROVE Filling(l)
  BY <1>26 DEF Returns
<1>27. ASSUME Spawns(l) PROVE Filling(l)
  BY <1>27 DEF Spawns, Turns
<1>28. ASSUME SpawnsNot(l) PROVE Filling(l)
  BY <1>28 DEF SpawnsNot, Turns
<1>29. ASSUME Unguarded(l) PROVE Filling(l)
  BY <1>29 DEF Unguarded
<1>30. ASSUME Forks(l) PROVE Filling(l)
  BY <1>30 DEF Forks
<1>31. ASSUME Drains(l) PROVE Filling(l)
  BY <1>31 DEF Drains
<1>32. ASSUME RemovesOwn(l) PROVE Filling(l)
  BY <1>32 DEF RemovesOwn, OwnTree
<1>33. ASSUME GuardianLeaves(l) PROVE Filling(l)
  BY <1>33 DEF GuardianLeaves, OwnTree
<1>34. ASSUME FailsAtFork(l) PROVE Filling(l)
  BY <1>34 DEF FailsAtFork, Gone
<1>35. ASSUME ClosesAll(l) PROVE Filling(l)
  BY <1>35 DEF ClosesAll
<1>36. ASSUME Daemonizes(l) PROVE Filling(l)
  BY <1>36 DEF Daemonizes
<1>37. ASSUME Finishes(l) PROVE Filling(l)
  BY <1>37 DEF Finishes
<1>38. ASSUME KillsLaunch(l) PROVE Filling(l)
  BY <1>38 DEF KillsLaunch, Gone, Ends
<1>39. ASSUME KillsGuardian(l) PROVE Filling(l)
  BY <1>39 DEF KillsGuardian, Ends
<1> QED
  BY <1>1, <1>2, <1>3, <1>4, <1>5, <1>6, <1>7, <1>8, <1>9, <1>10, <1>11, <1>12, <1>13,
    <1>14, <1>15, <1>16, <1>17, <1>18, <1>19, <1>20, <1>21, <1>22, <1>23, <1>24, <1>25,
    <1>26, <1>27, <1>28, <1>29, <1>30, <1>31, <1>32, <1>33, <1>34, <1>35, <1>36, <1>37,
    <1>38, <1>39 DEF Step, Launches, Guards, Applies
\* What an extraction has written is in its staging tree.
LEMMA FillsStep ==
  ASSUME OwnTypes, PlaceTypes, NEW l \in Starter, Numbered(l), Held(l), Followed(l),
      Fills(l),
         Step(l)
  PROVE  Fills(l)'
<1> SUFFICES ASSUME turn'[l] \in {"staged", "filling"}, Mode(l)' = "rundir"
             PROVE  (root[Staging(l)] # NoTree /\ written[l] \subseteq root[Staging(l)])'
  BY DEF Fills
<1>1. Filling(l)
  BY FillsChange
<1>2. Mode(l) = "rundir" /\ Staging(l)' = Staging(l)
  BY <1>1 DEF Filling, Staging, Mode
<1>3. CASE UNCHANGED placeVars /\ written'[l] = written[l] /\ turn[l] \in {"staged", "filling"}
  BY <1>2, <1>3 DEF Fills, placeVars
<1>4. CASE ClaimsStage(l)
  <2>1. Staging(l) \in TreeName /\ written'[l] = {}
    BY <1>4, NamesOfTrees DEF ClaimsStage, Turns, Numbered, OwnTypes
  <2>2. root'[Staging(l)] # NoTree
    BY <1>4, <2>1 DEF ClaimsStage, MakeDirectory, PlaceTypes, NoTree
  <2> QED
    BY <1>2, <2>1, <2>2
<1>5. ASSUME NEW p \in Part, Extracts(l, p)
      PROVE  (root[Staging(l)] # NoTree /\ written[l] \subseteq root[Staging(l)])'
  <2>1. turn[l] \in {"staged", "filling"} /\ Staging(l) \in TreeName
    BY <1>5, NamesOfTrees DEF Extracts, StillExtracts, Numbered
  <2>2. root[Staging(l)] \in SUBSET Part /\ written[l] \subseteq root[Staging(l)]
    BY <1>2, <2>1 DEF Fills, PlaceTypes
  <2>3. root'[Staging(l)] = root[Staging(l)] \cup {p} /\ written'[l] = written[l] \cup {p}
    BY <1>2, <1>5, <2>1 DEF Extracts, PlaceTypes, OwnTypes
  <2>4. root'[Staging(l)] # NoTree
    BY <2>2, <2>3, TreeAssumption DEF NoTree
  <2> QED
    BY <1>2, <2>2, <2>3, <2>4
<1> QED
  BY <1>1, <1>3, <1>4, <1>5 DEF Filling

\* A launch comes to need its tree by publishing it, and its guardian does not
\* begin to remove what is needed.
LEMMA NeedsStep ==
  ASSUME OwnTypes, NEW l \in Starter, Numbered(l), Held(l), Followed(l), Step(l)
  PROVE  NeedsKept(l)
<1> USE DEF OwnTypes, NeedsKept, Needs, Releasing, Mode, Held, Followed, Numbered,
    Working, Guarding, Occupied, chainVars, claimVars, lookVars, forkVars
<1>1. ASSUME NEW p \in ProcId, Begins(l, p) PROVE NeedsKept(l)
  BY <1>1, GoesOn DEF Begins
<1>2. ASSUME RunsElsewhere(l) PROVE NeedsKept(l)
  BY <1>2 DEF RunsElsewhere, AtOther
<1>3. ASSUME FailsElsewhere(l) PROVE NeedsKept(l)
  BY <1>3, GoesOn DEF FailsElsewhere, AtOther
<1>4. ASSUME Sweeps(l) PROVE NeedsKept(l)
  BY <1>4 DEF Sweeps, Turns
<1>5. ASSUME SweepIsOver(l) PROVE NeedsKept(l)
  BY <1>5 DEF SweepIsOver
<1>6. ASSUME Clears(l) PROVE NeedsKept(l)
  BY <1>6 DEF Clears
<1>7. ASSUME NEW n \in TreeName, StartsClearing(l, n) PROVE NeedsKept(l)
  BY <1>7 DEF StartsClearing, Looks, SweepTakes
<1>8. ASSUME NEW n \in TreeName, PassesBy(l, n) PROVE NeedsKept(l)
  BY <1>8 DEF PassesBy, Looks
<1>9. ASSUME ClaimsBase(l) PROVE NeedsKept(l)
  BY <1>9 DEF ClaimsBase, Turns
<1>10. ASSUME BaseRefused(l) PROVE NeedsKept(l)
  BY <1>10, GoesOn DEF BaseRefused
<1>11. ASSUME ClaimsStage(l) PROVE NeedsKept(l)
  BY <1>11 DEF ClaimsStage, Turns
<1>12. ASSUME StageRefused(l) PROVE NeedsKept(l)
  BY <1>12 DEF StageRefused, Turns
<1>13. ASSUME NoRoom(l) PROVE NeedsKept(l)
  <2>1. turn'[l] \notin {"published", "ready"} /\ guard'[l] = "none" /\ program'[l] = "none"
    BY <1>13 DEF NoRoom, Turns
  <2> QED
    BY <2>1
<1>14. ASSUME EntersNot(l) PROVE NeedsKept(l)
  <2>1. turn'[l] \notin {"published", "ready"} /\ guard'[l] = "none" /\ program'[l] = "none"
    BY ZenonT(30), <1>14 DEF EntersNot, Turns
  <2> QED
    BY <2>1
<1>15. ASSUME Enters(l) PROVE NeedsKept(l)
  BY <1>15 DEF Enters, Turns
<1>16. ASSUME MountsTmpfs(l) PROVE NeedsKept(l)
  <2>1. turn'[l] \notin {"published", "ready"} /\ guard'[l] = "none" /\ program'[l] = "none"
    BY <1>16 DEF MountsTmpfs, Turns
  <2> QED
    BY <2>1
<1>17. ASSUME FailsInside(l) PROVE NeedsKept(l)
  <2>1. turn'[l] \notin {"published", "ready"} /\ guard'[l] = "none" /\ program'[l] = "none"
    BY ZenonT(30), <1>17 DEF FailsInside, Gone
  <2> QED
    BY <2>1
<1>18. ASSUME NEW p \in Part, Extracts(l, p) PROVE NeedsKept(l)
  <2>1. turn'[l] \notin {"published", "ready"} /\ guard'[l] = "none" /\ program'[l] = "none"
    BY ZenonT(30), <1>18 DEF Extracts, StillExtracts
  <2> QED
    BY <2>1
<1>19. ASSUME ExtractsNot(l) PROVE NeedsKept(l)
  <2>1. turn'[l] \notin {"published", "ready"} /\ guard'[l] = "none" /\ program'[l] = "none"
    BY ZenonT(30), <1>19 DEF ExtractsNot, StillExtracts
  <2> QED
    BY <2>1
<1>20. ASSUME MovesMount(l) PROVE NeedsKept(l)
  BY <1>20 DEF MovesMount, Turns
<1>21. ASSUME Renames(l) PROVE NeedsKept(l)
  BY <1>21 DEF Renames, Turns, Replaces
<1>22. ASSUME RenamesNot(l) PROVE NeedsKept(l)
  BY <1>22 DEF RenamesNot, Turns
<1>23. ASSUME Undoes(l) PROVE NeedsKept(l)
  <2>1. turn'[l] \notin {"published", "ready"} /\ guard'[l] = "none" /\ program'[l] = "none"
    BY <1>23 DEF Undoes, Turns, TakenBack
  <2> QED
    BY <2>1
<1>24. ASSUME ReleasesStage(l) PROVE NeedsKept(l)
  BY ZenonT(30), <1>24 DEF ReleasesStage, Turns, MayRemove
<1>25. ASSUME ReleasesBase(l) PROVE NeedsKept(l)
  <2>1. turn'[l] \notin {"published", "ready"} /\ guard'[l] = "none" /\ program'[l] = "none"
    BY <1>25, GoesOn DEF ReleasesBase
  <2> QED
    BY <2>1
<1>26. ASSUME Returns(l) PROVE NeedsKept(l)
  BY <1>26 DEF Returns
<1>27. ASSUME Spawns(l) PROVE NeedsKept(l)
  BY <1>27 DEF Spawns, Turns
<1>28. ASSUME SpawnsNot(l) PROVE NeedsKept(l)
  BY <1>28 DEF SpawnsNot, Turns
<1>29. ASSUME Unguarded(l) PROVE NeedsKept(l)
  BY <1>29 DEF Unguarded
<1>30. ASSUME Forks(l) PROVE NeedsKept(l)
  BY <1>30 DEF Forks
<1>31. ASSUME Drains(l) PROVE NeedsKept(l)
  BY <1>31 DEF Drains
<1>32. ASSUME RemovesOwn(l) PROVE NeedsKept(l)
  BY <1>32 DEF RemovesOwn, OwnTree
<1>33. ASSUME GuardianLeaves(l) PROVE NeedsKept(l)
  BY <1>33 DEF GuardianLeaves, OwnTree
<1>34. ASSUME FailsAtFork(l) PROVE NeedsKept(l)
  BY <1>34 DEF FailsAtFork, Gone
<1>35. ASSUME ClosesAll(l) PROVE NeedsKept(l)
  BY <1>35 DEF ClosesAll
<1>36. ASSUME Daemonizes(l) PROVE NeedsKept(l)
  BY <1>36 DEF Daemonizes
<1>37. ASSUME Finishes(l) PROVE NeedsKept(l)
  BY <1>37 DEF Finishes
<1>38. ASSUME KillsLaunch(l) PROVE NeedsKept(l)
  BY <1>38 DEF KillsLaunch, Gone, Ends
<1>39. ASSUME KillsGuardian(l) PROVE NeedsKept(l)
  BY <1>39 DEF KillsGuardian, Ends
<1> QED
  BY <1>1, <1>2, <1>3, <1>4, <1>5, <1>6, <1>7, <1>8, <1>9, <1>10, <1>11, <1>12, <1>13,
    <1>14, <1>15, <1>16, <1>17, <1>18, <1>19, <1>20, <1>21, <1>22, <1>23, <1>24, <1>25,
    <1>26, <1>27, <1>28, <1>29, <1>30, <1>31, <1>32, <1>33, <1>34, <1>35, <1>36, <1>37,
    <1>38, <1>39 DEF Step, Launches, Guards, Applies
\* A directory that is not being cleared keeps what it holds, unless the launch
\* that steps stages there, or has it empty, or removes its own.
LEMMA RootKept ==
  ASSUME PlaceTypes, NEW l \in Starter, Places(l), NEW t \in TreeName,
         root[t] # NoTree, t # clearing[l], Active(l) => t # Staging(l),
         t = Base(l) => root[t] # {} /\ (Releasing(l) => writer[t] # l)
  PROVE  root'[t] = root[t] /\ writer'[t] = writer[t]
<1> DEFINE Same == root'[t] = root[t] /\ writer'[t] = writer[t]
<1> USE DEF PlaceTypes
<1>1. ASSUME NEW n, n # t, RemovedIfEmpty(n) \/ Removed(n) \/ RemovesPart(n) PROVE Same
  BY <1>1 DEF RemovedIfEmpty, Removed, RemovesPart, placeVars
<1>2. ASSUME RemovedIfEmpty(t), root[t] # {} PROVE Same
  BY <1>2 DEF RemovedIfEmpty, placeVars
<1>3. ASSUME NEW n, MakeDirectory(n) PROVE Same
  BY <1>3 DEF MakeDirectory
<1>4. CASE UNCHANGED placeVars
  BY <1>4 DEF placeVars
<1>5. CASE MountsTmpfs(l) \/ MovesMount(l)
  BY <1>5 DEF MountsTmpfs, MovesMount
<1>6. CASE Renames(l)
  <2>1. t # Staging(l) /\ t # Base(l)
    BY <1>6 DEF Renames, Turns, Active, Replaces
  <2> QED
    BY <1>6, <2>1 DEF Renames
<1>7. ASSUME NEW p \in Part, Extracts(l, p) PROVE Same
  <2>1. t # Staging(l)
    BY <1>7 DEF Extracts, StillExtracts, Active
  <2> QED
    BY <1>7, <2>1 DEF Extracts, placeVars
<1>8. CASE clearing[l] # NoName
             /\ (RemovesPart(clearing[l]) \/ RemovedIfEmpty(clearing[l]))
  BY <1>1, <1>8
<1>9. CASE \/ turn[l] \in {"staged", "published", "backing out"} /\ RemovedIfEmpty(Staging(l))
           \/ turn[l] = "undoing" /\ Removed(Staging(l))
  <2>1. t # Staging(l)
    BY <1>9 DEF Active
  <2> QED
    BY <1>1, <1>9, <2>1
<1>10. CASE RemovedIfEmpty(Base(l))
  BY <1>1, <1>2, <1>10
<1>11. CASE Releasing(l) /\ OwnTree(l) /\ RemovesPart(Base(l))
  <2>1. t # Base(l)
    BY <1>11 DEF OwnTree
  <2> QED
    BY <1>1, <1>11, <2>1
<1> QED
  BY <1>3, <1>4, <1>5, <1>6, <1>7, <1>8, <1>9, <1>10, <1>11 DEF Places

\* A tmpfs on a claimed directory stays there.
LEMMA MountStays ==
  ASSUME OwnTypes, PlaceTypes, Excluded, NEW l \in Starter, Numbered(l), Followed(l),
      Places(l),
         NEW k \in Starter, Mode(k) = "tmpfs", copies[k] # {}, mountedOn[k] = Base(k),
         k = l => turn[l] \notin {"inside", "filling", "letting go"}
  PROVE  mountedOn'[k] = mountedOn[k]
<1> USE DEF PlaceTypes
<1>1. Base(k) = <<"package", "shared">> /\ Base(k) \in TreeName /\ Claims(k, Base(k))
  BY DEF Base, TreeName, Claims
<1>2. ASSUME NEW n, n # Base(k), RemovedIfEmpty(n) \/ Removed(n)
      PROVE  mountedOn'[k] = mountedOn[k]
  BY <1>2 DEF RemovedIfEmpty, Removed, placeVars
<1>3. ASSUME NEW n, MakeDirectory(n) \/ RemovesPart(n) PROVE mountedOn'[k] = mountedOn[k]
  BY <1>3 DEF MakeDirectory, RemovesPart
<1>4. CASE UNCHANGED placeVars
  BY <1>4 DEF placeVars
<1>5. CASE MountsTmpfs(l) \/ MovesMount(l)
  BY <1>5 DEF MountsTmpfs, MovesMount, Turns
<1>6. CASE Renames(l)
  BY <1>6 DEF Renames
<1>7. ASSUME NEW p \in Part, Extracts(l, p) PROVE mountedOn'[k] = mountedOn[k]
  BY <1>7 DEF Extracts, placeVars
<1>8. CASE clearing[l] # NoName
             /\ (RemovesPart(clearing[l]) \/ RemovedIfEmpty(clearing[l]))
  <2>1. clearing[l] # Base(k)
    BY <1>1 DEF Excluded, Cleared
  <2> QED
    BY <1>2, <1>3, <1>8, <2>1
<1>9. CASE RemovedIfEmpty(Staging(l)) \/ Removed(Staging(l))
  <2>1. Staging(l) # Base(k)
    <3>1. Staging(l)[2] = "staging" /\ Base(k)[2] = "shared"
      BY DEF Staging, Base
    <3> QED
      BY <3>1
  <2> QED
    BY <1>2, <1>9, <2>1
<1>10. CASE turn[l] = "letting go" /\ MayRemove(Base(l), Starter \ {l})
              /\ RemovedIfEmpty(Base(l))
  <2>1. Base(l) # Base(k)
    BY <1>1, <1>10 DEF MayRemove
  <2> QED
    BY <1>2, <1>10, <2>1
<1>11. CASE Releasing(l) /\ Mode(l) = "rundir" /\ RemovedIfEmpty(Base(l))
  <2>1. Base(l)[2] = "tree" /\ Base(k)[2] = "shared"
    BY <1>11 DEF Base
  <2>2. Base(l) # Base(k)
    BY <2>1
  <2> QED
    BY <1>2, <1>11, <2>2
<1> QED
  BY <1>3, <1>4, <1>5, <1>6, <1>7, <1>8, <1>9, <1>10, <1>11 DEF Places

\* Nobody else touches a claimed staging tree.
LEMMA OthersFill ==
  ASSUME OwnTypes, PlaceTypes, Apart, Excluded, NEW l \in Starter, Step(l), Places(l),
         NEW k \in Starter, k # l, Numbered(k), Held(k), Fills(k)
  PROVE  Fills(k)'
<1>1. Kept(k)
  BY OthersKeep
<1>2. SUFFICES ASSUME turn[k] \in {"staged", "filling"}, Mode(k) = "rundir"
               PROVE  root'[Staging(k)] = root[Staging(k)]
  BY <1>1 DEF Kept, Fills, Staging, Mode
<1>3. root[Staging(k)] # NoTree /\ stageHeld[k] /\ Active(k) /\ Staging(k) \in TreeName
  BY <1>2, NamesOfTrees DEF Fills, Held, Active, Numbered
<1>4. Staging(k) # clearing[l]
  BY <1>3 DEF Excluded, Claims, Cleared
<1>5. Active(l) => Staging(k) # Staging(l)
  BY <1>3 DEF Apart, Staging
<1>6. Staging(k) # Base(l)
  BY DEF Staging, Base
<1> QED
  BY <1>3, <1>4, <1>5, <1>6, RootKept

\* What is needed stays whole.
LEMMA WholeKept ==
  ASSUME OwnTypes, PlaceTypes, Excluded, NEW l \in Starter, Numbered(l), Followed(l),
      Places(l),
         NEW k \in Starter, Numbered(k), Needs(k), Whole(k), turn[k] # "idle",
         k = l => ~Releasing(l) /\ turn[l] \in {"published", "ready", "waiting", "over"},
         tried'[k] = tried[k], number'[k] = number[k], written'[k] = written[k]
  PROVE  Whole(k)'
<1>1. Mode(k)' = Mode(k) /\ Base(k)' = Base(k) /\ copies[k] # {}
  BY DEF Mode, Base, Needs
<1>2. CASE Mode(k) = "tmpfs" /\ mountedOn[k] = Base(k) /\ written[k] = Part
  BY <1>1, <1>2, MountStays DEF Whole
<1>3. CASE Mode(k) = "rundir" /\ root[Base(k)] = Part /\ writer[Base(k)] = k
  <2>1. Base(k) \in TreeName
    BY NamesOfTrees DEF Numbered
  <2>2. Base(k) # clearing[l]
    BY <1>1, <2>1 DEF Excluded, Claims, Cleared
  <2>3. Base(k) # Staging(l)
    BY DEF Base, Staging
  <2>4. root[Base(k)] # {} /\ root[Base(k)] # NoTree
    BY <1>3, TreeAssumption DEF NoTree
  <2>5. Releasing(l) => writer[Base(k)] # l
    BY <1>3
  <2>6. root'[Base(k)] = Part /\ writer'[Base(k)] = k
    BY <1>3, <2>1, <2>2, <2>3, <2>4, <2>5, RootKept
  <2> QED
    BY <1>1, <1>3, <2>6 DEF Whole
<1> QED
  BY <1>2, <1>3 DEF Whole

\* What is needed is whole.
LEMMA InPlaceStep ==
  ASSUME OwnTypes, PlaceTypes, Excluded, InPlace, NEW l \in Starter, Step(l), Places(l),
         \A k \in Starter : Numbered(k) /\ Held(k) /\ Followed(k) /\ Fills(k)
  PROVE  InPlace'
<1> SUFFICES ASSUME NEW k \in Starter, Needs(k)' PROVE Whole(k)'
  BY DEF InPlace
<1>1. CASE k # l
  <2>1. Kept(k)
    BY <1>1, OthersKeep
  <2>2. Needs(k)
    BY <2>1 DEF Kept, Needs, Occupied
  <2>3. turn[k] # "idle"
    BY <2>2 DEF Needs, Occupied, Followed
  <2> QED
    BY <1>1, <2>1, <2>2, <2>3, WholeKept DEF InPlace, Kept
<1>2. CASE k = l
  <2>1. NeedsKept(l)
    BY NeedsStep
  <2>2. CASE MovesMount(l)
    BY <1>2, <2>2 DEF MovesMount, Whole, Base, Mode, chainVars, PlaceTypes
  <2>3. CASE Renames(l)
    <3>1. Mode(l) = "rundir" /\ turn[l] = "filling" /\ written[l] = Part
      BY <2>3 DEF Renames, Turns
    <3>2. Base(l) \in TreeName /\ Staging(l) \in TreeName /\ Base(l) # Staging(l)
      BY <3>1, NamesOfTrees DEF Numbered, Base, Staging
    <3>3. root[Staging(l)] = Part
      BY <3>1, <3>2 DEF Fills, PlaceTypes
    <3>4. root'[Base(l)] = Part /\ writer'[Base(l)] = l
      BY <2>3, <3>2, <3>3 DEF Renames, PlaceTypes
    <3>5. Base(l)' = Base(l) /\ Mode(l)' = Mode(l)
      BY <2>3 DEF Renames, Base, Mode, chainVars
    <3> QED
      BY <1>2, <3>1, <3>4, <3>5 DEF Whole
  <2>4. CASE ~MovesMount(l) /\ ~Renames(l)
    <3>1. Needs(l) /\ ~Releasing(l) /\ turn[l] \in {"published", "ready", "waiting", "over"}
            /\ tried'[l] = tried[l] /\ number'[l] = number[l] /\ written'[l] = written[l]
      BY <1>2, <2>1, <2>4 DEF NeedsKept
    <3> QED
      BY <1>2, <3>1, WholeKept DEF InPlace
  <2> QED
    BY <2>2, <2>3, <2>4
<1> QED
  BY <1>1, <1>2

\* The inductive invariant.
TreeInv ==
  /\ OwnTypes /\ PlaceTypes /\ Apart /\ Excluded /\ InPlace
  /\ \A l \in Starter :
       Numbered(l) /\ Held(l) /\ Followed(l) /\ Outside(l) /\ WrittenBy(l) /\ Fills(l)

\* Before any launch the invariant of the trees holds.
LEMMA TreesInitially == TTInit => TreeInv
<1> SUFFICES ASSUME TTInit PROVE TreeInv
  OBVIOUS
<1> USE DEF TTInit
<1>1. OwnTypes
  <2>1. 0 \in 0 .. 6 /\ 0 \in Nat
    OBVIOUS
  <2>2. tried \in [Starter -> 0 .. 6] /\ ends \in Nat
    BY <2>1
  <2> QED
    BY <2>2 DEF OwnTypes, Turning
<1>2. PlaceTypes
  BY DEF PlaceTypes
<1>3. Apart /\ Excluded
  <2>1. \A l \in Starter : ~Active(l)
    BY DEF Active
  <2>2. \A l \in Starter, n \in TreeName : ~Claims(l, n)
    BY DEF Claims
  <2> QED
    BY <2>1, <2>2 DEF Apart, Excluded
<1>4. InPlace
  BY DEF InPlace, Needs
<1>5. ASSUME NEW l \in Starter
      PROVE  Numbered(l) /\ Held(l) /\ Followed(l) /\ Outside(l) /\ WrittenBy(l) /\ Fills(l)
  <2>1. Numbered(l)
    BY DEF Numbered, Working
  <2>2. Held(l)
    BY DEF Held, Working, Guarding
  <2>3. Followed(l)
    BY DEF Followed, Occupied
  <2>4. Outside(l)
    BY DEF Outside
  <2>5. WrittenBy(l) /\ Fills(l)
    BY TreeAssumption DEF WrittenBy, Fills
  <2> QED
    BY <2>1, <2>2, <2>3, <2>4, <2>5
<1> QED
  BY <1>1, <1>2, <1>3, <1>4, <1>5 DEF TreeInv

\* A step of one launch, of its guardian or of its application keeps the invariant.
LEMMA TreesStep == ASSUME TreeInv, NEW l \in Starter, Step(l) PROVE TreeInv'
<1> USE DEF TreeInv
<1>1. Places(l)
  BY StepOfPlaces
<1>2. OwnTypes'
  BY TreeTypesStep DEF TTNext, Step
<1>3. PlaceTypes'
  BY <1>1, PlaceTypesStep
<1>4. Apart' /\ Excluded'
  BY ApartStep, ExcludedStep
<1>5. InPlace'
  BY <1>1, InPlaceStep
<1>6. ASSUME NEW k \in Starter PROVE Numbered(k)' /\ Held(k)' /\ Followed(k)'
  <2>1. CASE k = l
    BY <2>1, NumberedStep, HeldStep, FollowedStep
  <2>2. CASE k # l
    <3>1. Kept(k)
      BY <2>2, OthersKeep
    <3>2. Numbered(k)'
      BY <3>1 DEF Kept, Numbered, Mode
    <3>3. Held(k)'
      BY <3>1 DEF Kept, Held, Occupied
    <3>4. Followed(k)'
      BY <3>1 DEF Kept, Followed, Occupied, Mode
    <3> QED
      BY <3>2, <3>3, <3>4
  <2> QED
    BY <2>1, <2>2
<1>7. ASSUME NEW k \in Starter PROVE Outside(k)' /\ WrittenBy(k)' /\ Fills(k)'
  <2>1. Outside(k)' /\ WrittenBy(k)'
    BY <1>1, OutsideStep, WriterStep
  <2>2. Fills(k)'
    BY <1>1, FillsStep, OthersFill
  <2> QED
    BY <2>1, <2>2
<1> QED
  BY <1>2, <1>3, <1>4, <1>5, <1>6, <1>7

\* So does every step.
LEMMA TreesInductive == TreeInv /\ [TTNext]_ttVars => TreeInv'
<1> SUFFICES ASSUME TreeInv, [TTNext]_ttVars PROVE TreeInv'
  OBVIOUS
<1>1. CASE TTNext
  BY <1>1, TreesStep DEF TTNext, Step
<1>2. CASE UNCHANGED ttVars
  <2> USE <1>2 DEF ttVars, chainVars, claimVars, placeVars, lookVars, forkVars, TreeInv
  <2>1. OwnTypes' /\ PlaceTypes'
    BY DEF OwnTypes, PlaceTypes
  <2>2. Apart' /\ Excluded'
    BY DEF Apart, Active, Excluded, Claims, Cleared, Base, Staging, Mode
  <2>3. InPlace'
    BY DEF InPlace, Needs, Whole, Occupied, Base, Mode
  <2>4. \A l \in Starter : Numbered(l)' /\ Held(l)'
    BY DEF Numbered, Held, Occupied, Mode
  <2>5. \A l \in Starter : Followed(l)' /\ Outside(l)'
    BY DEF Followed, Outside, InHost, Occupied, Mode
  <2>6. \A l \in Starter : WrittenBy(l)' /\ Fills(l)'
    BY DEF WrittenBy, Wrote, Fills, Base, Staging, Mode
  <2> QED
    BY <2>1, <2>2, <2>3, <2>4, <2>5, <2>6
<1> QED
  BY <1>1, <1>2

\* The invariant of the trees holds throughout.
LEMMA TreesHold == TTSpec => []TreeInv
<1> QED
  BY TreesInitially, TreesInductive, PTL DEF TTSpec

-----------------------------------------------------------------------------
\* Every variable of the trees keeps its type.
THEOREM TreeTypesHold == TTSpec => [](OwnTypes /\ PlaceTypes)
<1>1. TreeInv => OwnTypes /\ PlaceTypes
  BY DEF TreeInv
<1> QED
  BY <1>1, TreesHold, PTL

\* What a launch started runs from the complete view that launch extracted.
THEOREM OwnTreesHold == TTSpec => []RunsFromOwnTree
<1>1. TreeInv => RunsFromOwnTree
  BY DEF TreeInv, InPlace, Needs, Whole, RunsFromOwnTree
<1> QED
  BY <1>1, TreesHold, PTL

\* A mode that is given up leaves no claim, mount or tree, and no namespace but those of
\* FUSE and of an attempt to enter one; the last one leaves nothing behind.
THEOREM NoTraceIsLeft == TTSpec => []LeavesNoTrace
<1>1. TreeInv => LeavesNoTrace
  <2> SUFFICES ASSUME TreeInv, NEW l \in Starter
               PROVE  /\ turn[l] = "trying" =>
                           /\ copies[l] = {} /\ ~stageHeld[l] /\ mountedOn[l] = NoName
                           /\ writer[Staging(l)] # l
                           /\ unshared[l] \subseteq (IF asked[l].setuid THEN {} ELSE {"fuse", "unmapped"})
                      /\ guard[l] = "gone" \/ (turn[l] = "failed" /\ tried[l] # 0) =>
                           \A n \in {Base(l), Staging(l)} : Mode(l) = "rundir" => writer[n] # l
    BY DEF LeavesNoTrace
  <2> USE DEF TreeInv
  <2>1. turn[l] # "idle" => Base(l) \in TreeName /\ Staging(l) \in TreeName
    BY NamesOfTrees DEF Numbered
  <2>2. CASE turn[l] = "trying"
    <3>1. copies[l] = {} /\ ~stageHeld[l]
      BY <2>2, ClaimsNothing DEF Early
    <3>2. mountedOn[l] = NoName
             /\ unshared[l] \subseteq (IF asked[l].setuid THEN {} ELSE {"fuse", "unmapped"})
      BY <2>2 DEF Outside, InHost, Early
    <3>3. writer[Staging(l)] # l
      BY <2>1, <2>2 DEF WrittenBy, Wrote
    <3>4. guard[l] = "none"
      BY <2>2 DEF Followed
    <3> QED
      BY <2>2, <3>1, <3>2, <3>3, <3>4
  <2>3. ASSUME guard[l] = "gone" \/ (turn[l] = "failed" /\ tried[l] # 0),
               NEW n \in {Base(l), Staging(l)}
        PROVE  writer[n] # l
    <3>1. turn[l] # "idle" /\ n \in TreeName
      BY <2>1, <2>3 DEF Followed
    <3>2. ~Wrote(l, n)
      BY <2>3 DEF Wrote
    <3> QED
      BY <3>1, <3>2 DEF WrittenBy
  <2> QED
    BY <2>2, <2>3
<1> QED
  BY <1>1, TreesHold, PTL
==============================================================================
