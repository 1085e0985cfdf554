------------------------------- MODULE ViewStore -------------------------------
(***************************************************************************)
(* The store of execution views: launches that reuse, replace or publish   *)
(* the view of their identity (crates/onelf-rt/src/links.rs, ensure_view), *)
(* beside the collectors that reclaim idle views (collect_views in         *)
(* crates/onelf-rt/src/cache.rs), which launches run too before they look. *)
(*                                                                         *)
(* A view is the set of parts its directory holds: the content, the        *)
(* configuration record with the environment input it hashes, and the      *)
(* ready record.  flock(2) does not promise that a lock changes its mode   *)
(* in one step, so a conversion here lets go first and locks after.        *)
(***************************************************************************)
EXTENDS Naturals, FiniteSets

CONSTANTS
  Launch,    \* cache-mode and development launches
  Sweeper,   \* runs of the command line's collector
  View,
  ViewOf,    \* the view each launch runs from
  NoView,
  MaxKills,  \* bound: processes killed
  MaxDamages \* bound: records lost from outside

Agent == Launch \cup Sweeper

ASSUME ViewStoreAssumption ==
  /\ ViewOf \in [Launch -> View]
  /\ Launch \cap Sweeper = {}
  /\ NoView \notin View
  /\ MaxKills \in Nat /\ MaxDamages \in Nat

VARIABLES
  pc,       \* where each launch is
  views,    \* views whose directory is at its name
  tree,     \* parts each view's directory holds
  staging,  \* launches whose staging tree is on disk
  used,     \* modification time of each lease file: "none", "fresh" or "old"
  clearing, \* the sweepers whose age limit is zero
  gc,       \* where each agent's sweep is
  gcView,   \* the view it is at
  todo,     \* the views it has still to visit
  torn,     \* history: views whose removal by a collector was cut short
  kills, damages

diskVars  == <<views, tree, staging, used>>
visitVars == <<clearing, gcView, todo>>
sweepVars == <<gc, visitVars>>
faultVars == <<torn, kills, damages>>
vars == <<pc, diskVars, sweepVars, faultVars>>

Part == {"content", "record", "ready"}

LaunchPhase ==
  {"start", "leased", "sweeping", "creating", "checking", "converting", "relocking",
   "removing", "regaining", "staging", "building", "sealed", "confirming",
   "running", "done", "failed", "killed"}

SweepPhase ==
  {"off", "begin", "visiting", "leased", "locked", "removing", "scratch", "done",
   "killed"}

-----------------------------------------------------------------------------
(* The locks.  Each lives on its descriptor alone, so holding one is a     *)
(* matter of how far its holder has come.                                  *)

\* The in-use lease, shared, from before the view is looked for to the end of
\* the last descendant of the application.
LeasePhase ==
  {"leased", "sweeping", "creating", "checking", "staging", "building", "sealed",
   "confirming", "running"}
Leases(v) == {l \in Launch : ViewOf[l] = v /\ pc[l] \in LeasePhase}

\* The lease, exclusive: a launch that replaces a damaged view, or a collector.
Replacing(v) == {l \in Launch : ViewOf[l] = v /\ pc[l] = "removing"}
ClaimPhase == {"leased", "locked", "removing", "scratch"}
Claiming(v) == {a \in Agent : gcView[a] = v /\ gc[a] \in ClaimPhase}

\* The creation mutex, of a creator and of a collector.
CreatePhase ==
  {"checking", "converting", "relocking", "removing", "regaining", "staging",
   "building", "sealed", "confirming"}
Creating(v) == {l \in Launch : ViewOf[l] = v /\ pc[l] \in CreatePhase}
Collecting(v) == {a \in Agent : gcView[a] = v /\ gc[a] \in ClaimPhase \ {"leased"}}

SharedFree(v) == Replacing(v) \cup Claiming(v) = {}
ExclusiveFree(v) == SharedFree(v) /\ Leases(v) = {}
MutexFree(v) == Creating(v) \cup Collecting(v) = {}

\* Ready, with the record of this identity and the environment it hashes.
Ready(v) == v \in views /\ "ready" \in tree[v]
Valid(v) == v \in views /\ {"record", "ready"} \subseteq tree[v]

-----------------------------------------------------------------------------
Init ==
  /\ pc = [l \in Launch |-> "start"]
  /\ views \in SUBSET View
  /\ tree = [v \in View |-> IF v \in views THEN Part ELSE {}]
  /\ staging = {}
  /\ used = [v \in View |-> IF v \in views THEN "fresh" ELSE "none"]
  /\ clearing \in SUBSET Sweeper
  /\ gc = [a \in Agent |-> IF a \in Sweeper THEN "begin" ELSE "off"]
  /\ gcView = [a \in Agent |-> NoView] /\ todo = [a \in Agent |-> {}]
  /\ torn = {} /\ kills = 0 /\ damages = 0

-----------------------------------------------------------------------------
(* A launch: the lease, the sweep, ensure_view.                            *)

Step(l, from, to) == pc[l] = from /\ pc' = [pc EXCEPT ![l] = to]

\* Opening a lease file that is not there makes it, with the present time.
OpenLease(v) ==
  used' = [used EXCEPT ![v] = IF @ = "none" THEN "fresh" ELSE @]
Stamp(v) == used' = [used EXCEPT ![v] = "fresh"]

TakeLease(l) ==
  /\ Step(l, "start", "leased")
  /\ SharedFree(ViewOf[l])
  /\ OpenLease(ViewOf[l])
  /\ UNCHANGED <<views, tree, staging, sweepVars, faultVars>>

\* auto_gc, before the view is looked for.
SweepFirst(l) ==
  /\ Step(l, "leased", "sweeping")
  /\ gc' = [gc EXCEPT ![l] = "begin"]
  /\ UNCHANGED <<diskVars, visitVars, faultVars>>

\* A development launch does not sweep, nor one whose age limit is zero.
SweepNot(l) ==
  /\ Step(l, "leased", "creating")
  /\ UNCHANGED <<diskVars, sweepVars, faultVars>>

SweepOver(l) ==
  /\ Step(l, "sweeping", "creating")
  /\ gc[l] = "done"
  /\ UNCHANGED <<diskVars, sweepVars, faultVars>>

\* slip: a second creator does not wait for the first.
LockCreationAtOnce(l) ==
  /\ Step(l, "creating", "checking")
  /\ UNCHANGED <<diskVars, sweepVars, faultVars>>

LockCreation(l) ==
  /\ Step(l, "creating", "checking")
  /\ MutexFree(ViewOf[l])
  /\ UNCHANGED <<diskVars, sweepVars, faultVars>>

Reuse(l) ==
  /\ Step(l, "checking", "running")
  /\ Valid(ViewOf[l]) /\ Stamp(ViewOf[l])
  /\ UNCHANGED <<views, tree, staging, sweepVars, faultVars>>

Others(l) == {m \in Launch : ViewOf[m] = ViewOf[l]}

\* A miss discards what dead creators staged.  What stands at the name has to
\* go first, and with it the shared lease.
MissNothing(l) ==
  /\ Step(l, "checking", "staging")
  /\ ViewOf[l] \notin views
  /\ staging' = staging \ Others(l)
  /\ UNCHANGED <<views, tree, used, sweepVars, faultVars>>

\* slip: what is damaged is removed under the shared lease.
MissRemoves(l) ==
  /\ Step(l, "checking", "removing")
  /\ ViewOf[l] \in views /\ ~Valid(ViewOf[l])
  /\ staging' = staging \ Others(l)
  /\ UNCHANGED <<views, tree, used, sweepVars, faultVars>>

MissDamaged(l) ==
  /\ Step(l, "checking", "converting")
  /\ ViewOf[l] \in views /\ ~Valid(ViewOf[l])
  /\ staging' = staging \ Others(l)
  /\ UNCHANGED <<views, tree, used, sweepVars, faultVars>>

\* replace_unleased: the conversion does not wait.
Convert(l) ==
  /\ Step(l, "converting", "removing")
  /\ ExclusiveFree(ViewOf[l])
  /\ UNCHANGED <<diskVars, sweepVars, faultVars>>

\* slip: the conversion waits.
BusyWaits(l) == pc[l] = "converting" /\ ~ExclusiveFree(ViewOf[l]) /\ UNCHANGED vars

Busy(l) ==
  /\ Step(l, "converting", "relocking")
  /\ ~ExclusiveFree(ViewOf[l])
  /\ UNCHANGED <<diskVars, sweepVars, faultVars>>

\* remove_dir_all goes through a directory in any order.
RemovePart(v) ==
  \E p \in tree[v] :
    tree' = [tree EXCEPT ![v] = @ \ {p}] /\ UNCHANGED <<views, staging, used>>
RemoveEmpty(v) ==
  /\ tree[v] = {} /\ views' = views \ {v} /\ torn' = torn \ {v}
  /\ UNCHANGED <<tree, staging, used, kills, damages>>

Unlink(l) ==
  /\ pc[l] = "removing" /\ RemovePart(ViewOf[l])
  /\ UNCHANGED <<pc, sweepVars, faultVars>>

\* Done, and the exclusive lease is let go of before the shared one is taken.
Removed(l) ==
  /\ Step(l, "removing", "regaining") /\ RemoveEmpty(ViewOf[l])
  /\ UNCHANGED sweepVars

RemoveFails(l) ==
  /\ Step(l, "removing", "relocking")
  /\ UNCHANGED <<diskVars, sweepVars, faultVars>>

Regain(l) ==
  /\ Step(l, "regaining", "staging")
  /\ SharedFree(ViewOf[l])
  /\ UNCHANGED <<diskVars, sweepVars, faultVars>>

\* The call fails once it has its shared lease back.
Relock(l) ==
  /\ Step(l, "relocking", "failed")
  /\ SharedFree(ViewOf[l])
  /\ UNCHANGED <<diskVars, sweepVars, faultVars>>

Stage(l) ==
  /\ Step(l, "staging", "building")
  /\ staging' = staging \cup {l}
  /\ UNCHANGED <<views, tree, used, sweepVars, faultVars>>

\* The build is through, the records are written and the tree is flushed.
Seal(l) ==
  /\ Step(l, "building", "sealed") /\ l \in staging
  /\ UNCHANGED <<diskVars, sweepVars, faultVars>>

\* rename(2) replaces a directory only when it is empty.
Publish(l) ==
  LET v == ViewOf[l] IN
  /\ Step(l, "sealed", "confirming")
  /\ l \in staging
  /\ v \in views => tree[v] = {}
  /\ views' = views \cup {v} /\ tree' = [tree EXCEPT ![v] = Part]
  /\ staging' = staging \ {l}
  /\ UNCHANGED <<used, sweepVars, faultVars>>

Confirm(l) ==
  /\ Step(l, "confirming", "running")
  /\ ViewOf[l] \in views /\ "record" \in tree[ViewOf[l]]
  /\ Stamp(ViewOf[l])
  /\ UNCHANGED <<views, tree, staging, sweepVars, faultVars>>

\* The record cannot be read back.
ConfirmFails(l) ==
  /\ Step(l, "confirming", "failed")
  /\ ~(ViewOf[l] \in views /\ "record" \in tree[ViewOf[l]])
  /\ UNCHANGED <<diskVars, sweepVars, faultVars>>

\* Discarding, staging, the build or the publication fails.  The staging tree goes.
Fail(l) ==
  /\ pc[l] \in {"checking", "staging", "building", "sealed"}
  /\ pc' = [pc EXCEPT ![l] = "failed"]
  /\ staging' = staging \ {l}
  /\ UNCHANGED <<views, tree, used, sweepVars, faultVars>>

\* The application and everything it started are gone.
End(l) ==
  /\ Step(l, "running", "done")
  /\ UNCHANGED <<diskVars, sweepVars, faultVars>>

-----------------------------------------------------------------------------
(* collect_views, by a launch or from the command line.                    *)

At(a, from, to) == gc[a] = from /\ gc' = [gc EXCEPT ![a] = to]

List(a) ==
  /\ At(a, "begin", "visiting")
  /\ todo' = [todo EXCEPT ![a] = views \cup {ViewOf[m] : m \in staging}]
  /\ UNCHANGED <<pc, diskVars, clearing, gcView, faultVars>>

\* Neither lock is waited for.  A launch's own lease counts against it.
ClaimLease(a, v) ==
  /\ At(a, "visiting", "leased") /\ v \in todo[a]
  /\ ExclusiveFree(v)
  /\ OpenLease(v) /\ gcView' = [gcView EXCEPT ![a] = v]
  /\ UNCHANGED <<pc, views, tree, staging, clearing, todo, faultVars>>

SkipLeased(a, v) ==
  /\ gc[a] = "visiting" /\ v \in todo[a]
  /\ ~ExclusiveFree(v)
  /\ OpenLease(v) /\ todo' = [todo EXCEPT ![a] = @ \ {v}]
  /\ UNCHANGED <<pc, views, tree, staging, clearing, gc, gcView, faultVars>>

ClaimMutex(a) ==
  /\ At(a, "leased", "locked")
  /\ MutexFree(gcView[a])
  /\ UNCHANGED <<pc, diskVars, visitVars, faultVars>>

\* The view is done with, and its locks are let go of.
NextView(a) ==
  /\ todo' = [todo EXCEPT ![a] = @ \ {gcView[a]}]
  /\ gcView' = [gcView EXCEPT ![a] = NoView]

SkipCreating(a) ==
  /\ At(a, "leased", "visiting")
  /\ ~MutexFree(gcView[a])
  /\ NextView(a)
  /\ UNCHANGED <<pc, diskVars, clearing, faultVars>>

Idle(a, v) == a \in clearing \/ used[v] = "old"
\* slip: the age is compared the wrong way round.
KeptIfOld(a, v) == Ready(v) /\ Idle(a, v)
Kept(a, v) == Ready(v) /\ ~Idle(a, v)

Keep(a) ==
  /\ At(a, "locked", "scratch")
  /\ gcView[a] \in views => Kept(a, gcView[a])
  /\ UNCHANGED <<pc, diskVars, visitVars, faultVars>>

Reclaim(a) ==
  /\ At(a, "locked", "removing")
  /\ gcView[a] \in views /\ ~Kept(a, gcView[a])
  /\ UNCHANGED <<pc, diskVars, visitVars, faultVars>>

Reclaiming(a) ==
  /\ gc[a] = "removing" /\ RemovePart(gcView[a])
  /\ UNCHANGED <<pc, sweepVars, faultVars>>

Reclaimed(a) ==
  /\ At(a, "removing", "scratch") /\ RemoveEmpty(gcView[a])
  /\ UNCHANGED <<pc, visitVars>>

\* An error ends the removal, not the visit.
ReclaimFails(a) ==
  /\ At(a, "removing", "scratch")
  /\ torn' = torn \cup {gcView[a]}
  /\ UNCHANGED <<pc, diskVars, visitVars, kills, damages>>

DropScratch(a) ==
  /\ At(a, "scratch", "visiting")
  /\ staging' = {m \in staging : ViewOf[m] # gcView[a]}
  /\ NextView(a)
  /\ UNCHANGED <<pc, views, tree, used, clearing, faultVars>>

SweepDone(a) ==
  /\ At(a, "visiting", "done") /\ todo[a] = {}
  /\ UNCHANGED <<pc, diskVars, visitVars, faultVars>>

-----------------------------------------------------------------------------
(* What the store does not do itself.                                      *)

Age(v) ==
  /\ used[v] = "fresh" /\ used' = [used EXCEPT ![v] = "old"]
  /\ UNCHANGED <<pc, views, tree, staging, sweepVars, faultVars>>

\* A record goes missing, or is another layout's, or no longer fits.
Damage(v) ==
  /\ damages < MaxDamages /\ damages' = damages + 1
  /\ v \in views /\ \E p \in tree[v] \cap {"record", "ready"} :
                      tree' = [tree EXCEPT ![v] = @ \ {p}]
  /\ UNCHANGED <<pc, views, staging, used, sweepVars, torn, kills>>

\* A killed process lets go of its locks and leaves what is on disk.
KillSweep(a) ==
  /\ gc[a] \notin {"off", "done", "killed"}
  /\ torn' = torn \cup (IF gc[a] = "removing" THEN {gcView[a]} ELSE {})
  /\ kills < MaxKills /\ kills' = kills + 1
  /\ gc' = [gc EXCEPT ![a] = "killed"]
  /\ gcView' = [gcView EXCEPT ![a] = NoView]
  /\ pc' = [l \in Launch |-> IF l = a THEN "killed" ELSE pc[l]]
  /\ UNCHANGED <<diskVars, clearing, todo, damages>>

KillLaunch(l) ==
  /\ pc[l] \notin {"start", "sweeping", "running", "done", "failed", "killed"}
  /\ kills < MaxKills /\ kills' = kills + 1
  /\ pc' = [pc EXCEPT ![l] = "killed"]
  /\ UNCHANGED <<diskVars, sweepVars, torn, damages>>

-----------------------------------------------------------------------------
LaunchStep(l) ==
  \/ TakeLease(l) \/ SweepFirst(l) \/ SweepNot(l) \/ SweepOver(l)
  \/ LockCreation(l) \/ Reuse(l) \/ MissNothing(l) \/ MissDamaged(l)
  \/ Convert(l) \/ Busy(l) \/ Unlink(l) \/ Removed(l) \/ Regain(l) \/ Relock(l)
  \/ Stage(l) \/ Seal(l) \/ Publish(l) \/ Confirm(l) \/ ConfirmFails(l)

SweepStep(a) ==
  \/ List(a) \/ ClaimMutex(a) \/ SkipCreating(a) \/ Keep(a) \/ Reclaim(a)
  \/ Reclaiming(a) \/ Reclaimed(a) \/ DropScratch(a) \/ SweepDone(a)
  \/ \E v \in View : ClaimLease(a, v) \/ SkipLeased(a, v)

Next ==
  \/ \E l \in Launch :
       LaunchStep(l) \/ RemoveFails(l) \/ Fail(l) \/ End(l) \/ KillLaunch(l)
  \/ \E a \in Agent : SweepStep(a) \/ ReclaimFails(a) \/ KillSweep(a)
  \/ \E v \in View : Age(v) \/ Damage(v)

\* Nobody is stopped: every launch and every sweep goes on while it can.  An
\* application need not end, and nobody need be killed.
Fairness ==
  /\ \A l \in Launch : WF_vars(LaunchStep(l))
  /\ \A a \in Agent : WF_vars(SweepStep(a))

Spec == Init /\ [][Next]_vars /\ Fairness

-----------------------------------------------------------------------------
\* The types, with: a directory that is not there holds nothing, a launch has not
\* swept before it gets there, and a sweep is at a view exactly while it holds a
\* lock on it, one that is there while the sweep removes it.
TypeOK ==
  /\ pc \in [Launch -> LaunchPhase]
  /\ views \subseteq View /\ tree \in [View -> SUBSET Part]
  /\ \A v \in View : v \notin views => tree[v] = {}
  /\ staging \subseteq Launch
  /\ used \in [View -> {"none", "fresh", "old"}]
  /\ clearing \subseteq Sweeper
  /\ gc \in [Agent -> SweepPhase] /\ todo \in [Agent -> SUBSET View]
  /\ gcView \in [Agent -> View \cup {NoView}]
  /\ \A a \in Agent : gcView[a] \in View <=> gc[a] \in ClaimPhase
  /\ \A a \in Agent : gc[a] = "removing" => gcView[a] \in views
  /\ \A l \in Launch : pc[l] \in {"start", "leased"} => gc[l] = "off"
  /\ torn \subseteq views
  /\ kills \in 0 .. MaxKills /\ damages \in 0 .. MaxDamages

\* An application runs from the whole view: nothing of its content is missing
\* when it starts, and nobody takes it away while it runs (ensure_view,
\* reclaim_view).  Only a removal that was cut short can have emptied it.
RunsWholeView ==
  \A l \in Launch :
    pc[l] = "running" =>
      /\ ViewOf[l] \in views
      /\ "content" \in tree[ViewOf[l]] \/ ViewOf[l] \in torn

\* A creator stages alone: its tree stays, no other tree of its view is there
\* beside it, and its view's name is clear for the rename (the creation mutex in
\* ensure_view, discard_staging and reclaim_view).
StagesAlone ==
  \A l \in Launch :
    pc[l] \in {"building", "sealed"} =>
      /\ staging \cap Others(l) = {l}
      /\ ViewOf[l] \notin views

\* No part of a view goes by removal while a launch leases it, whether it runs
\* from the view already or has still to look at it (replace_unleased,
\* reclaim_view).
LeasedStays ==
  [][\A v \in View :
       ("content" \in tree[v] \ tree'[v] \/ v \in views \ views') => Leases(v) = {}]_vars

\* Only a sweep without an age limit removes a view that is ready and was used
\* lately (the idle test in reclaim_view, stamp_use in ensure_view).
FreshStays ==
  [][\A v \in View :
       ("ready" \in tree[v] \ tree'[v] /\ used[v] = "fresh" /\ damages' = damages) =>
         \/ Collecting(v) \cap clearing # {}
         \/ ~Valid(v)]_vars

\* What carries the ready record and the record of its identity is whole, so
\* that reuse finds every file (ready and ensure_view).
ReadyIsWhole ==
  \A v \in View : Valid(v) /\ Collecting(v) = {} => "content" \in tree[v]

\* A launch that has its lease comes to a decision, and a sweep ends, whatever
\* the applications that run meanwhile do: the order of the locks has no cycle.
LaunchGetsView ==
  /\ []<>(\A l \in Launch : pc[l] \in {"start", "running", "done", "failed", "killed"})
  /\ []<>(\A a \in Agent : gc[a] \in {"off", "done", "killed"})
================================================================================
