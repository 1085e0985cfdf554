------------------------------ MODULE Guardian ------------------------------
(***************************************************************************)
(* The lifetime guardian of one launch (crates/onelf-rt/src/guardian.rs):  *)
(* the invoking process becomes a proxy, its child the guardian holds the  *)
(* launch's lease and forks the application, and the guardian adopts       *)
(* whatever the application leaves behind.                                 *)
(*                                                                         *)
(* A signal is one of those the guardian forwards and comes once, so that  *)
(* a process has it pending or not.  Some process sends it on purpose, to  *)
(* one of the three or to their process group, or the terminal raises it   *)
(* for the whole group.                                                    *)
(***************************************************************************)
EXTENDS Naturals, FiniteSets

CONSTANTS
  Sent,      \* signals some process sends on purpose
  Raised,    \* signals the terminal raises
  Daemon,    \* descendants the application may leave behind
  MaxDeaths  \* bound: processes killed outright

ASSUME GuardianAssumption ==
  /\ Sent \cap Raised = {}
  /\ MaxDeaths \in Nat

VARIABLES
  inv,       \* where the invoking process is
  end,       \* how it ended
  grd,       \* where the guardian is
  aimed,     \* FOREGROUND in the guardian names the application
  group,     \* the guardian is still in the caller's process group
  report,    \* what the report pipe holds
  fore,      \* where the foreground is: the application
  status,    \* how it ended
  alive,     \* daemons that run
  orphan,    \* daemons that are the guardian's children
  zombie,    \* daemons that exited and have not been waited for
  recycled,  \* the application's pid is some other process's by now
  pending,   \* the signals pending at each of the three processes
  got,       \* how often the application got each signal
  stray,     \* signals that other process got
  sentTo,    \* the processes each signal was sent to, when it was
  deaths

callerVars == <<inv, end>>
guardVars  == <<grd, aimed, group, report>>
appVars    == <<fore, status, alive, orphan, zombie, recycled>>
signalVars == <<pending, got, stray, sentTo>>
guardianVars == <<callerVars, guardVars, appVars, signalVars, deaths>>

Signal == Sent \cup Raised
Process == {"invoker", "guardian", "app"}
Outcome == {"exit", "signal"}
InvPhase == {"ready", "forked", "proxying", "ended", "killed"}
GrdPhase ==
  {"none", "starting", "marked", "forwarding", "forked", "waiting", "reaped",
   "detached", "refused", "done", "killed"}
AppPhase == {"none", "blocked", "running", "zombie", "reaped"}

GuardianAlive == grd \notin {"none", "done", "killed"}
InvokerAlive == inv \in {"forked", "proxying"}
AppAlive == fore \in {"blocked", "running"}

\* The launch's claims are descriptors of the guardian's own.
LeaseHeld == GuardianAlive

GInit ==
  /\ inv = "ready" /\ end = "none"
  /\ grd = "none" /\ aimed = FALSE /\ group = TRUE /\ report = "empty"
  /\ fore = "none" /\ status = "none"
  /\ alive = {} /\ orphan = {} /\ zombie = {} /\ recycled = FALSE
  /\ pending = [p \in Process |-> {}]
  /\ got = [t \in Signal |-> 0]
  /\ stray = {} /\ sentTo = [t \in Signal |-> {}]
  /\ deaths = 0

-----------------------------------------------------------------------------
(* fork_guardian and supervise.                                            *)

\* The forwarded signals are blocked from here, in both processes.
ForkGuardian ==
  /\ inv = "ready"
  /\ inv' = "forked" /\ grd' = "starting"
  /\ UNCHANGED <<end, aimed, group, report, appVars, signalVars, deaths>>

MarkSubreaper ==
  /\ grd = "starting" /\ grd' = "marked"
  /\ UNCHANGED <<callerVars, aimed, group, report, appVars, signalVars, deaths>>

\* The attribute did not hold, or the application could not be forked: released
\* and reported at once.
Refuse ==
  /\ grd \in {"starting", "forwarding"}
  /\ grd' = "done" /\ report' = "unavailable"
  /\ UNCHANGED <<callerVars, aimed, group, appVars, signalVars, deaths>>

InstallForwarding ==
  /\ grd = "marked" /\ grd' = "forwarding"
  /\ UNCHANGED <<callerVars, aimed, group, report, appVars, signalVars, deaths>>

\* fork_foreground: nothing pending is inherited.
ForkForeground ==
  /\ grd = "forwarding"
  /\ grd' = "forked" /\ fore' = "blocked"
  /\ UNCHANGED <<callerVars, aimed, group, report, status, alive, orphan, zombie,
                 recycled, signalVars, deaths>>

\* The child is the target before the guardian unblocks.
AimLate == aimed' = aimed \* slip: unblocked without a target
Aim == aimed' = TRUE

Unblock ==
  /\ grd = "forked" /\ grd' = "waiting"
  /\ Aim
  /\ UNCHANGED <<callerVars, group, report, appVars, signalVars, deaths>>

\* wait returns the application: from here the kernel may give its pid away.
ReapForeground ==
  /\ grd = "waiting" /\ fore = "zombie"
  /\ grd' = "reaped" /\ fore' = "reaped"
  /\ UNCHANGED <<callerVars, aimed, group, report, status, alive, orphan, zombie,
                 recycled, signalVars, deaths>>

\* foreground_reaped: stop forwarding and leave the session, then report.
StopForwarding == aimed' = FALSE

Detach ==
  /\ grd = "reaped" /\ grd' = "detached"
  /\ StopForwarding /\ group' = FALSE
  /\ UNCHANGED <<callerVars, report, appVars, signalVars, deaths>>

OutcomeReadLate == "exit" \* slip: the wait status is not the foreground's
ReportedOutcome == status

ReportableAtTheEnd == grd = "detached" /\ orphan = {} \* slip: after the last wait
Reportable == grd = "detached"

Report ==
  /\ Reportable /\ report = "empty"
  /\ report' = ReportedOutcome
  /\ UNCHANGED <<callerVars, grd, aimed, group, appVars, signalVars, deaths>>

\* The guardian is in its wait.
WaitsForOne == grd = "waiting" \* slip: not once the foreground is reaped
Waits == grd = "waiting" \/ (grd = "detached" /\ report # "empty")

ReapOrphan(d) ==
  /\ Waits
  /\ d \in orphan \cap zombie
  /\ orphan' = orphan \ {d} /\ zombie' = zombie \ {d}
  /\ UNCHANGED <<callerVars, guardVars, fore, status, alive, recycled, signalVars,
                 deaths>>

\* ECHILD, the proof that the subtree is empty.
GroupIsEmpty == fore = "reaped" \* slip: waits for its process group only
SubtreeIsEmpty == fore = "reaped" /\ orphan = {}

Release ==
  /\ grd = "detached" /\ report # "empty"
  /\ SubtreeIsEmpty
  /\ grd' = "done"
  /\ UNCHANGED <<callerVars, aimed, group, report, appVars, signalVars, deaths>>

-----------------------------------------------------------------------------
(* proxy.                                                                  *)

Proxy ==
  /\ inv = "forked" /\ inv' = "proxying"
  /\ UNCHANGED <<end, guardVars, appVars, signalVars, deaths>>

\* The record arrived, or the pipe hung up without one.
Receive ==
  /\ inv = "proxying" /\ (report # "empty" \/ ~GuardianAlive)
  /\ inv' = "ended"
  /\ end' = IF report = "empty" THEN "missing" ELSE report
  /\ UNCHANGED <<guardVars, appVars, signalVars, deaths>>

-----------------------------------------------------------------------------
(* The application and what it leaves behind.                              *)

\* Default dispositions are back before it unblocks and execs.
Start ==
  /\ fore = "blocked" /\ fore' = "running"
  /\ UNCHANGED <<callerVars, guardVars, status, alive, orphan, zombie, recycled,
                 signalVars, deaths>>

Fork(d) ==
  /\ fore = "running" /\ d \notin alive \cup zombie
  /\ alive' = alive \cup {d}
  /\ UNCHANGED <<callerVars, guardVars, fore, status, orphan, zombie, recycled,
                 signalVars, deaths>>

\* A double fork: the parent in between exits, and the nearest subreaper adopts.
Daemonize(d) ==
  /\ d \in alive \ orphan /\ GuardianAlive
  /\ orphan' = orphan \cup {d}
  /\ UNCHANGED <<callerVars, guardVars, fore, status, alive, zombie, recycled,
                 signalVars, deaths>>

\* A daemon nobody but init has to wait for is gone at once.
DaemonExits(d) ==
  /\ d \in alive
  /\ alive' = alive \ {d}
  /\ zombie' = IF GuardianAlive THEN zombie \cup {d} ELSE zombie
  /\ UNCHANGED <<callerVars, guardVars, fore, status, orphan, recycled, signalVars,
                 deaths>>

\* The application waits for a child of its own.
Collect(d) ==
  /\ fore = "running" /\ d \in zombie \ orphan
  /\ zombie' = zombie \ {d}
  /\ UNCHANGED <<callerVars, guardVars, fore, status, alive, orphan, recycled,
                 signalVars, deaths>>

ForegroundExits(o) ==
  /\ fore \in {"blocked", "running"}
  /\ fore' = IF GuardianAlive THEN "zombie" ELSE "reaped"
  /\ status' = o
  /\ orphan' = IF GuardianAlive THEN alive \cup zombie ELSE {}
  /\ zombie' = IF GuardianAlive THEN zombie ELSE {}
  /\ pending' = [pending EXCEPT !["app"] = {}]
  /\ UNCHANGED <<callerVars, guardVars, alive, recycled, got, stray, sentTo, deaths>>

Recycle ==
  /\ fore = "reaped" /\ ~recycled
  /\ recycled' = TRUE
  /\ UNCHANGED <<callerVars, guardVars, fore, status, alive, orphan, zombie,
                 signalVars, deaths>>

-----------------------------------------------------------------------------
(* Signals.                                                                *)

InGroup(p) ==
  CASE p = "invoker" -> InvokerAlive
    [] p = "guardian" -> GuardianAlive /\ group
    [] p = "app" -> AppAlive

IsAlive(p) ==
  CASE p = "invoker" -> InvokerAlive
    [] p = "guardian" -> GuardianAlive
    [] p = "app" -> AppAlive

Reaches(t, who) ==
  /\ sentTo[t] = {} /\ who # {}
  /\ sentTo' = [sentTo EXCEPT ![t] = who]
  /\ pending' = [p \in Process |->
                   IF p \in who THEN pending[p] \cup {t} ELSE pending[p]]
  /\ UNCHANGED <<callerVars, guardVars, appVars, got, stray, deaths>>

TheGroup == {p \in Process : InGroup(p)}

\* kill(2), of one process.
SendTo(t, p) == t \in Sent /\ IsAlive(p) /\ Reaches(t, {p})

\* kill(2), of the process group.
SendToGroup(t) == t \in Sent /\ Reaches(t, TheGroup)

\* Ctrl-C, once the launch has begun and the signals are blocked.
Raise(t) == t \in Raised /\ InvokerAlive /\ Reaches(t, TheGroup)

\* sent_on_purpose: what the terminal raised reached the target already.  What was
\* sent to the group is not told apart from what was sent to this process.
ForwardsAll(t) == TRUE \* slip: a raised signal is forwarded too
Forwards(t) == t \in Sent

\* forward_to_foreground in the proxy.  Its guardian stays a zombie at least as
\* long as the proxy lives, so the pid is never another's.
ProxyHandles(t) ==
  /\ inv = "proxying" /\ t \in pending["invoker"]
  /\ pending' = [pending EXCEPT
       !["invoker"] = @ \ {t},
       !["guardian"] = IF Forwards(t) /\ GuardianAlive THEN @ \cup {t} ELSE @]
  /\ UNCHANGED <<callerVars, guardVars, appVars, got, stray, sentTo, deaths>>

\* forward_to_foreground in the guardian.
GuardianHandles(t) ==
  /\ grd \in {"waiting", "reaped", "detached"} /\ t \in pending["guardian"]
  /\ LET forward == Forwards(t) /\ aimed IN
     /\ pending' = [pending EXCEPT
          !["guardian"] = @ \ {t},
          !["app"] = IF forward /\ AppAlive THEN @ \cup {t} ELSE @]
     /\ stray' = IF forward /\ recycled THEN stray \cup {t} ELSE stray
  /\ UNCHANGED <<callerVars, guardVars, appVars, got, sentTo, deaths>>

AppHandles(t) ==
  /\ fore = "running" /\ t \in pending["app"]
  /\ pending' = [pending EXCEPT !["app"] = @ \ {t}]
  /\ got' = [got EXCEPT ![t] = @ + 1]
  /\ UNCHANGED <<callerVars, guardVars, appVars, stray, sentTo, deaths>>

-----------------------------------------------------------------------------
(* Killed outright.                                                        *)

KillInvoker ==
  /\ deaths < MaxDeaths /\ deaths' = deaths + 1
  /\ InvokerAlive /\ inv' = "killed"
  /\ pending' = [pending EXCEPT !["invoker"] = {}]
  /\ UNCHANGED <<end, guardVars, appVars, got, stray, sentTo>>

\* Its children go to init, which waits for them.
GuardianKilled ==
  /\ deaths < MaxDeaths /\ deaths' = deaths + 1
  /\ GuardianAlive /\ grd' = "killed"
  /\ fore' = IF fore = "zombie" THEN "reaped" ELSE fore
  /\ orphan' = {} /\ zombie' = zombie \ orphan
  /\ pending' = [pending EXCEPT !["guardian"] = {}]
  /\ UNCHANGED <<callerVars, aimed, group, report, status, alive, recycled, got,
                 stray, sentTo>>

-----------------------------------------------------------------------------
GuardianStep ==
  \/ MarkSubreaper \/ Refuse \/ InstallForwarding \/ ForkForeground \/ Unblock
  \/ ReapForeground \/ Detach \/ Report \/ (\E d \in Daemon : ReapOrphan(d))
  \/ Release

InvokerStep == ForkGuardian \/ Proxy \/ Receive

HandlerStep ==
  \E t \in Signal : ProxyHandles(t) \/ GuardianHandles(t) \/ AppHandles(t)

GNext ==
  \/ GuardianStep \/ InvokerStep \/ HandlerStep
  \/ Start \/ (\E o \in Outcome : ForegroundExits(o)) \/ Recycle
  \/ (\E d \in Daemon : Fork(d) \/ Daemonize(d) \/ DaemonExits(d) \/ Collect(d))
  \/ (\E t \in Signal : Raise(t) \/ SendToGroup(t) \/ \E p \in Process : SendTo(t, p))
  \/ KillInvoker \/ GuardianKilled

GSpec == GInit /\ [][GNext]_guardianVars

(***************************************************************************)
(* The processes of the launch keep running and the kernel delivers what   *)
(* is pending and unblocked, between any two of their steps.  Applications *)
(* and daemons are free to run forever.                                    *)
(***************************************************************************)
GFairness ==
  /\ WF_guardianVars(GuardianStep) /\ WF_guardianVars(InvokerStep)
  /\ WF_guardianVars(Start)
  /\ \A t \in Signal :
       /\ WF_guardianVars(ProxyHandles(t)) /\ WF_guardianVars(GuardianHandles(t))
       /\ WF_guardianVars(AppHandles(t))

GFairSpec == GSpec /\ GFairness

-----------------------------------------------------------------------------
(* Properties.                                                             *)

\* Every variable keeps its type, and FOREGROUND names the application only from
\* the fork until the guardian has seen it reaped.
GTypeOK ==
  /\ aimed => grd \in {"waiting", "reaped", "killed"}
  /\ inv \in InvPhase /\ end \in Outcome \cup {"none", "unavailable", "missing"}
  /\ grd \in GrdPhase /\ aimed \in BOOLEAN /\ group \in BOOLEAN
  /\ report \in Outcome \cup {"empty", "unavailable"}
  /\ fore \in AppPhase /\ status \in Outcome \cup {"none"}
  /\ alive \subseteq Daemon /\ orphan \subseteq Daemon /\ zombie \subseteq Daemon
  /\ recycled \in BOOLEAN
  /\ pending \in [Process -> SUBSET Signal]
  /\ got \in [Signal -> Nat]
  /\ stray \subseteq Signal /\ sentTo \in [Signal -> SUBSET Process]
  /\ deaths \in 0..MaxDeaths

\* The processes whose copy of a signal may end up with the application: those a
\* signal was sent to on purpose, and of a raised one the application's own.
Copies(t) == IF t \in Sent THEN sentTo[t] ELSE sentTo[t] \cap {"app"}

\* However a signal was aimed, the application receives at most as many of it as
\* were sent, and nothing of one that it was not meant for: one for a process a
\* signal is sent to, and its own of one the terminal raises for the group.
ReceivedAsSent == \A t \in Signal : got[t] <= Cardinality(Copies(t))

\* The launch's claims are held while anything it started runs, unless the
\* guardian itself was killed: a daemon that left the session or closed every
\* descriptor it had keeps its files.
LeaseCoversSubtree == AppAlive \/ alive # {} => LeaseHeld \/ grd = "killed"

\* The proxy ends the way the application did, and only after it; the guardian
\* has left the caller's session by then.
EndsAsTheApplication ==
  inv = "ended" =>
    \/ end \in Outcome /\ end = status /\ ~AppAlive /\ ~group
    \/ end = "unavailable" /\ fore = "none"
    \/ end = "missing" /\ grd = "killed"

\* The caller returns as soon as the application has ended, however long the
\* daemons it left run.  (An end is for good, here and below: what must follow it
\* holds again and again.)
CallerReturns == []<>(~AppAlive /\ fore # "none" => inv \in {"ended", "killed"})

\* A signal sent on purpose reaches the application, early or late, unless it
\* ends first or a process between them is killed.
SentArrives ==
  \A t \in Sent :
    []<>(sentTo[t] # {} =>
           \/ got[t] > 0 \/ fore \in {"zombie", "reaped"}
           \/ deaths > 0 \/ end = "unavailable" \/ report = "unavailable")

\* Once the last of the subtree has exited the claims are let go.
ClaimsReleased ==
  []<>(fore \in {"zombie", "reaped"} /\ alive = {} => ~LeaseHeld)

\* "Either way the application receives it once", a signal of the terminal's by
\* nature and one sent on purpose by forwarding.
ReceivedOnce == \A t \in Signal : got[t] <= 1

\* "Zero while there is no target, so a recycled pid never receives a stale
\* forward" (FOREGROUND).
NoStrayForward == stray = {}

\* "A signal the terminal raises reaches each of them already", and one arriving
\* before the proxy takes over "is delivered then instead of lost".
RaisedArrives ==
  \A t \in Raised :
    sentTo[t] # {} /\ fore = "running" => t \in pending["app"] \/ got[t] > 0
=============================================================================
