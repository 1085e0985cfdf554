--------------------------- MODULE UpdateInstall ---------------------------
(***************************************************************************)
(* Self-update (crates/onelf-rt/src/update/mod.rs): processes that check   *)
(* for or apply an update of the package they run, beside each other, a    *)
(* server where releases are republished meanwhile, people who replace     *)
(* the executable by hand, kills and power cuts.                           *)
(*                                                                         *)
(* A file is named by whoever brought it: the one installed first, the one *)
(* an updater stages, one put there by hand, a rollback copy moved back.   *)
(* It holds a release, a mix of two, nothing yet, or what a power cut      *)
(* left.  A release that carries no revision has revision 0.               *)
(***************************************************************************)
EXTENDS Naturals, SequencesExt

CONSTANTS
  Updater,     \* processes started with an update flag
  Release,
  Revision,    \* of each release, 0 for none
  Policies,    \* which of the packages are looked at: "signed", "unsigned"
  MaxPublish,  \* bound: releases published while updates run
  MaxMishaps   \* bound: kills, power cuts, failed syncs and interference by hand

ASSUME UpdateAssumption ==
  /\ Revision \in [Release -> Nat]
  /\ {"original", "byhand", "restored", "none"} \cap Updater = {}
  /\ MaxPublish \in Nat /\ MaxMishaps \in Nat

VARIABLES
  policy,    \* whether the package names keys its updates are signed with
  served,    \* the release at the update URL
  signature, \* the release its detached signature is of
  published, \* releases published so far
  bin,       \* the file at the executable's path
  saved,     \* what the rollback copy beside it holds
  dirLog,    \* the directory as the disk may have it, the last as it is
  file,      \* what each file holds
  synced,    \* files forced to the disk
  unflushed, \* updaters whose sync of the staged file failed
  temps,     \* staging files and unfinished rollback copies
  up,        \* where each updater is
  flag,      \* what it was started to do
  exe,       \* the file it was started from
  opened,    \* the file its install lock is taken on
  own,       \* the release it takes for the installed one
  remote,    \* the release its probe saw
  keyed,     \* the release whose signature it fetched
  byHand,    \* somebody has replaced or removed the executable by hand
  mishaps

serverVars == <<served, signature, published>>
dirVars    == <<bin, saved, dirLog>>
diskVars   == <<dirVars, file, synced, unflushed, temps>>
ownVars    == <<flag, exe, opened, own, remote, keyed>>
updateVars == <<policy, serverVars, diskVars, up, ownVars, byHand, mishaps>>

File == Updater \cup {"original", "byhand", "restored"}
NoFile == "none"
NoRelease == "none"
Mix == "mix"
Torn == "torn"
Content == Release \cup {NoRelease, Mix, Torn}

UpdatePhase ==
  {"idle", "started", "resolved", "misled", "opened", "locked", "probing", "signing",
   "assembling", "fetching", "verified", "checked", "copying", "kept", "flushed",
   "renamed", "done", "killed"}

Ended(u) == up[u] \in {"idle", "done", "killed"}

-----------------------------------------------------------------------------
(* The gates.                                                              *)

\* revision_permits: a running package that carries a revision takes only a
\* strictly newer one, and none that carries no revision.
PermitsAnyNumbered(current, downloaded) == \* slip: compares nothing
  downloaded > 0 \/ current = 0
Permits(current, downloaded) ==
  current = 0 \/ (downloaded > 0 /\ downloaded > current)

\* verify: the signature over the staged bytes, or the package's own hashes.
Verifies(u, content) ==
  IF policy = "signed" THEN content = keyed[u] ELSE content \in Release

\* The install lock, on the file and not on its name.
Installing(u) ==
  /\ flag[u] = "apply"
  /\ ~Ended(u) /\ up[u] \notin {"started", "resolved", "misled", "opened"}
Locked(f) == \E u \in Updater : Installing(u) /\ opened[u] = f

Mishap == mishaps < MaxMishaps /\ mishaps' = mishaps + 1

\* A change of the directory, of which a power cut may leave any prefix.
LogEntry(b, s) ==
  bin' = b /\ saved' = s /\ dirLog' = Append(dirLog, <<b, s>>)

UInit ==
  /\ policy \in Policies
  /\ served \in Release /\ signature = served /\ published = 0
  /\ bin = "original" /\ saved = NoRelease
  /\ dirLog = << <<"original", NoRelease>> >>
  /\ file \in {[f \in File |-> IF f = "original" THEN r ELSE NoRelease] : r \in Release}
  /\ synced = {"original"} /\ unflushed = {} /\ temps = {}
  /\ up = [u \in Updater |-> "idle"]
  /\ flag \in [Updater -> {"apply", "check"}]
  /\ exe = [u \in Updater |-> NoFile] /\ opened = [u \in Updater |-> NoFile]
  /\ own = [u \in Updater |-> NoRelease] /\ remote = [u \in Updater |-> NoRelease]
  /\ keyed = [u \in Updater |-> NoRelease]
  /\ byHand = FALSE /\ mishaps = 0

-----------------------------------------------------------------------------
(* run, check and apply, up to the probe.                                  *)

Proceeds(u, from, to) == up[u] = from /\ up' = [up EXCEPT ![u] = to]

Start(u) ==
  /\ Proceeds(u, "idle", "started")
  /\ bin # NoFile /\ file[bin] \in Release
  /\ exe' = [exe EXCEPT ![u] = bin]
  /\ UNCHANGED <<policy, serverVars, diskVars, flag, opened, own, remote, keyed, byHand,
                 mishaps>>

\* self_path, a plain readlink: of a file that has been replaced, a name that leads
\* nowhere.
Resolve(u) ==
  /\ up[u] = "started"
  /\ up' = [up EXCEPT ![u] = IF bin = exe[u] THEN "resolved" ELSE "misled"]
  /\ UNCHANGED <<policy, serverVars, diskVars, ownVars, byHand, mishaps>>

\* Opened by name: it need not be the file that runs any more.
Opens(u) == IF up[u] = "misled" THEN NoFile ELSE bin

OpenBinary(u) ==
  /\ up[u] \in {"resolved", "misled"} /\ flag[u] = "apply"
  /\ up' = [up EXCEPT ![u] = IF Opens(u) = NoFile THEN "done" ELSE "opened"]
  /\ opened' = [opened EXCEPT ![u] = Opens(u)]
  /\ UNCHANGED <<policy, serverVars, diskVars, flag, exe, own, remote, keyed, byHand,
                 mishaps>>

Busy(f) == Locked(f)

LockBinary(u) ==
  /\ up[u] = "opened"
  /\ up' = [up EXCEPT ![u] = IF Busy(opened[u]) THEN "done" ELSE "locked"]
  /\ UNCHANGED <<policy, serverVars, diskVars, ownVars, byHand, mishaps>>

\* local_package_id reads the executable by name too.
ReadOwn(u) ==
  /\ up[u] \in (IF flag[u] = "check" THEN {"resolved", "misled"} ELSE {"locked"})
  /\ up' = [up EXCEPT ![u] = "probing"]
  /\ own' = [own EXCEPT ![u] = IF Opens(u) # NoFile /\ file[Opens(u)] \in Release
                               THEN file[Opens(u)] ELSE NoRelease]
  /\ UNCHANGED <<policy, serverVars, diskVars, flag, exe, opened, remote, keyed, byHand,
                 mishaps>>

\* The footer and the manifest, which must be of one release.  Equal to the
\* installed one, there is nothing to do; a check by a package that carries no
\* revision needs to know no more either.
Probe(u) ==
  /\ up[u] = "probing"
  /\ remote' = [remote EXCEPT ![u] = served]
  /\ up' = [up EXCEPT ![u] =
              IF served = own[u] \/ (flag[u] = "check" /\ Revision[file[exe[u]]] = 0)
              THEN "done" ELSE "signing"]
  /\ UNCHANGED <<policy, serverVars, diskVars, flag, exe, opened, own, keyed, byHand,
                 mishaps>>

\* The host does not serve ranges.
ProbeNothing(u) ==
  /\ Proceeds(u, "probing", "signing")
  /\ UNCHANGED <<policy, serverVars, diskVars, ownVars, byHand, mishaps>>

-----------------------------------------------------------------------------
(* fetch_verified.                                                         *)

\* The signature comes before anything else of the release; then a staging file
\* of this updater's own.
FetchSignature(u) ==
  /\ up[u] = "signing"
  /\ up' = [up EXCEPT ![u] = IF remote[u] = NoRelease THEN "fetching" ELSE "assembling"]
  /\ keyed' = IF policy = "signed" THEN [keyed EXCEPT ![u] = signature] ELSE keyed
  /\ temps' = temps \cup {<<u, "staged">>}
  /\ UNCHANGED <<policy, serverVars, dirVars, file, synced, unflushed, flag, exe, opened,
                 own, remote, byHand, mishaps>>

Stages(u, content, to) ==
  /\ file' = [file EXCEPT ![u] = content]
  /\ up' = [up EXCEPT ![u] = to]
  /\ temps' = IF to = "done" THEN temps \ {<<u, "staged">>} ELSE temps

\* write_plan: with the release still there the result is the release, unless what
\* was copied from the executable encodes differently; with another one there it is a
\* mix.
Assembled(u) == {Mix} \cup ({remote[u]} \cap {served})

\* A result that does not verify is downloaded in full, unless it is signed and no
\* byte of it was copied; so is the release when a range was refused, or when no
\* package opens at the executable's path.
Assemble(u) ==
  /\ up[u] = "assembling"
  /\ \/ \E content \in Assembled(u) :
          \/ Verifies(u, content) /\ Stages(u, content, "verified")
          \/ ~Verifies(u, content) /\ Stages(u, content, "fetching")
          \/ ~Verifies(u, content) /\ policy = "signed" /\ Stages(u, content, "done")
     \/ Stages(u, file[u], "fetching")
  /\ UNCHANGED <<policy, serverVars, dirVars, synced, unflushed, ownVars, byHand, mishaps>>

\* One request for the whole; the release may be replaced while it streams.
Download(u) ==
  /\ up[u] = "fetching"
  /\ \E content \in {Mix, served} :
       Stages(u, content, IF Verifies(u, content) THEN "verified" ELSE "done")
  /\ UNCHANGED <<policy, serverVars, dirVars, synced, unflushed, ownVars, byHand, mishaps>>

\* Every error from the probe to the rename ends alike: exit code 2, and the
\* staged file removed.
MayFail(u) ==
  up[u] \in {"probing", "signing", "fetching", "verified", "checked", "flushed"}

FailUpdate(u) ==
  /\ MayFail(u)
  /\ up' = [up EXCEPT ![u] = "done"]
  /\ temps' = temps \ {<<u, "staged">>}
  /\ UNCHANGED <<policy, serverVars, dirVars, file, synced, unflushed, ownVars, byHand, mishaps>>

-----------------------------------------------------------------------------
(* check_verdict and install_staged.                                       *)

Refused(u) ==
  file[u] = own[u] \/ ~Permits(Revision[file[exe[u]]], Revision[file[u]])

\* Whether offered or not, a check removes what it downloaded.
Verdict(u) ==
  /\ flag[u] = "check" /\ Proceeds(u, "verified", "done")
  /\ temps' = temps \ {<<u, "staged">>}
  /\ UNCHANGED <<policy, serverVars, dirVars, file, synced, unflushed, ownVars, byHand, mishaps>>

Refuse(u) ==
  /\ flag[u] = "apply" /\ Proceeds(u, "verified", "done") /\ Refused(u)
  /\ temps' = temps \ {<<u, "staged">>}
  /\ UNCHANGED <<policy, serverVars, dirVars, file, synced, unflushed, ownVars, byHand, mishaps>>

\* The name must still lead to the file that is locked.
StillLocked(u) == bin = opened[u]

CheckBinary(u) ==
  /\ flag[u] = "apply" /\ up[u] = "verified" /\ ~Refused(u)
  /\ up' = [up EXCEPT ![u] = IF StillLocked(u) THEN "checked" ELSE "done"]
  /\ temps' = IF StillLocked(u) THEN temps ELSE temps \ {<<u, "staged">>}
  /\ UNCHANGED <<policy, serverVars, dirVars, file, synced, unflushed, ownVars, byHand, mishaps>>

\* save_rollback: a copy of the locked file, synced, then renamed into place.
CopyRunning(u) ==
  /\ Proceeds(u, "checked", "copying")
  /\ temps' = temps \cup {<<u, "rollback">>}
  /\ UNCHANGED <<policy, serverVars, dirVars, file, synced, unflushed, ownVars, byHand, mishaps>>

KeepsNothing(u) == saved \* slip: the copy stays under its temporary name
Kept(u) == file[opened[u]]

KeepRunning(u) ==
  /\ Proceeds(u, "copying", "kept")
  /\ LogEntry(bin, Kept(u))
  /\ temps' = temps \ {<<u, "rollback">>}
  /\ UNCHANGED <<policy, serverVars, file, synced, unflushed, ownVars, byHand, mishaps>>

CopyFails(u) ==
  /\ Proceeds(u, "copying", "done")
  /\ temps' = temps \ {<<u, "rollback">>, <<u, "staged">>}
  /\ UNCHANGED <<policy, serverVars, dirVars, file, synced, unflushed, ownVars, byHand, mishaps>>

NeverFlushed(u) == synced \* slip: left to the page cache
Flushed(u) == synced \cup {u}

\* A failure to sync the staged file is a warning.
Flush(u) ==
  /\ Proceeds(u, "kept", "flushed")
  /\ \/ synced' = Flushed(u) /\ UNCHANGED <<unflushed, mishaps>>
     \/ Mishap /\ unflushed' = unflushed \cup {u} /\ UNCHANGED synced
  /\ UNCHANGED <<policy, serverVars, dirVars, file, temps, ownVars, byHand>>

RenameOver(u) ==
  /\ Proceeds(u, "flushed", "renamed")
  /\ LogEntry(u, saved)
  /\ temps' = temps \ {<<u, "staged">>}
  /\ UNCHANGED <<policy, serverVars, file, synced, unflushed, ownVars, byHand, mishaps>>

\* The rename failed and the executable is gone: the copy goes back.
Restore(u) ==
  /\ Proceeds(u, "flushed", "done") /\ bin = NoFile /\ saved # NoRelease
  /\ file' = [file EXCEPT !["restored"] = saved]
  /\ synced' = synced \cup {"restored"}
  /\ LogEntry("restored", NoRelease)
  /\ temps' = temps \ {<<u, "staged">>}
  /\ UNCHANGED <<policy, serverVars, unflushed, ownVars, byHand, mishaps>>

\* The directory's sync makes the rename last; without it, a warning.
SyncDirectory(u) ==
  /\ Proceeds(u, "renamed", "done")
  /\ \/ dirLog' = << Last(dirLog) >> /\ UNCHANGED mishaps
     \/ Mishap /\ UNCHANGED dirLog
  /\ UNCHANGED <<policy, serverVars, bin, saved, file, synced, unflushed, temps, ownVars, byHand>>

-----------------------------------------------------------------------------
(* The server, people and power.                                           *)

\* The release and its signature are two files, published one after the other.
PublishRelease ==
  /\ published < MaxPublish /\ published' = published + 1
  /\ served' \in Release \ {served}
  /\ UNCHANGED <<policy, signature, diskVars, up, ownVars, byHand, mishaps>>

PublishSignature ==
  /\ signature # served /\ signature' = served
  /\ UNCHANGED <<policy, served, published, diskVars, up, ownVars, byHand, mishaps>>

ReplaceByHand ==
  /\ Mishap /\ ~byHand /\ byHand' = TRUE
  /\ \E r \in Release : file' = [file EXCEPT !["byhand"] = r]
  /\ synced' = synced \cup {"byhand"}
  /\ LogEntry("byhand", saved)
  /\ UNCHANGED <<policy, serverVars, unflushed, temps, up, ownVars>>

RemoveByHand ==
  /\ Mishap /\ ~byHand /\ byHand' = TRUE
  /\ bin # NoFile /\ LogEntry(NoFile, saved)
  /\ UNCHANGED <<policy, serverVars, file, synced, unflushed, temps, up, ownVars>>

KillUpdater(u) ==
  /\ Mishap /\ ~Ended(u)
  /\ up' = [up EXCEPT ![u] = "killed"]
  /\ UNCHANGED <<policy, serverVars, diskVars, ownVars, byHand>>

\* The directory is some state it has had since it was synced; what was not
\* synced may be gone.
PowerCut ==
  /\ Mishap /\ \E u \in Updater : ~Ended(u)
  /\ up' = [u \in Updater |-> IF Ended(u) THEN up[u] ELSE "killed"]
  /\ \E i \in DOMAIN dirLog :
       /\ bin' = dirLog[i][1] /\ saved' = dirLog[i][2]
       /\ dirLog' = << dirLog[i] >>
  /\ \/ file' = file
     \/ file' = [f \in File |-> IF f \in synced THEN file[f] ELSE Torn]
  /\ UNCHANGED <<policy, serverVars, synced, unflushed, temps, ownVars, byHand>>

-----------------------------------------------------------------------------
UpdateStep(u) ==
  \/ Start(u) \/ Resolve(u) \/ OpenBinary(u) \/ LockBinary(u) \/ ReadOwn(u)
  \/ Probe(u) \/ ProbeNothing(u) \/ FetchSignature(u) \/ Assemble(u) \/ Download(u)
  \/ FailUpdate(u) \/ Verdict(u) \/ Refuse(u) \/ CheckBinary(u)
  \/ CopyRunning(u) \/ KeepRunning(u) \/ CopyFails(u) \/ Flush(u)
  \/ RenameOver(u) \/ Restore(u) \/ SyncDirectory(u)

UNext ==
  \/ \E u \in Updater : UpdateStep(u) \/ KillUpdater(u)
  \/ PublishRelease \/ PublishSignature
  \/ ReplaceByHand \/ RemoveByHand \/ PowerCut

USpec == UInit /\ [][UNext]_updateVars

-----------------------------------------------------------------------------
(* Properties.                                                             *)

\* Every variable keeps its type, and the directory is the last state logged.
UTypeOK ==
  /\ policy \in Policies
  /\ served \in Release /\ signature \in Release /\ published \in 0..MaxPublish
  /\ bin \in File \cup {NoFile} /\ saved \in Content
  /\ dirLog \in Seq((File \cup {NoFile}) \X Content)
  /\ dirLog # <<>> /\ Last(dirLog) = <<bin, saved>>
  /\ file \in [File -> Content] /\ synced \subseteq File /\ unflushed \subseteq Updater
  /\ temps \subseteq Updater \X {"staged", "rollback"}
  /\ up \in [Updater -> UpdatePhase] /\ flag \in [Updater -> {"apply", "check"}]
  /\ exe \in [Updater -> File \cup {NoFile}]
  /\ opened \in [Updater -> File \cup {NoFile}]
  /\ own \in [Updater -> Release \cup {NoRelease}]
  /\ remote \in [Updater -> Release \cup {NoRelease}]
  /\ keyed \in [Updater -> Release \cup {NoRelease}]
  /\ byHand \in BOOLEAN /\ mishaps \in 0..MaxMishaps

\* What is at the executable's path, and whatever a power cut could still put
\* there, is one whole verified release, on the disk already; only one whose own sync
\* failed, which is a warning, may tear, and the release before it is in the rollback
\* copy then (install_staged, "a power cut cannot leave a truncated binary").
BinaryWhole ==
  \A i \in DOMAIN dirLog :
    LET f == dirLog[i][1] IN
      f # NoFile =>
        \/ file[f] \in Release
           /\ (f \in synced \/ (f \in unflushed /\ dirLog[i][2] \in Release))
        \/ f \in unflushed \ synced /\ file[f] = Torn /\ dirLog[i][2] \in Release

\* An updater that replaces the executable has kept the release it replaces:
\* several of them lose none between them, whatever order their locks, checks and
\* renames come in.
NothingLost ==
  [][\A u \in Updater :
       RenameOver(u) /\ ~byHand => saved = file[bin] /\ saved \in Release]_updateVars

\* No updater installs what is not newer than the release it runs, once that
\* carries a revision, whatever the server publishes meanwhile
\* (revision_permits).
OnlyNewer ==
  [][\A u \in Updater :
       RenameOver(u) /\ Revision[file[exe[u]]] > 0
         => Revision[file[u]] > Revision[file[exe[u]]]]_updateVars

\* An updater that was not killed leaves no staging file beside the executable,
\* however it ended ("on failure nothing is left behind").
StagingRemoved ==
  \A u \in Updater :
    up[u] = "done" => <<u, "staged">> \notin temps /\ <<u, "rollback">> \notin temps

\* "Two concurrent applies would both pass the freshness gate and race their
\* renames, and the older release could win" (apply): with the lock, no update
\* replaces a numbered release by an older one.
OlderNeverWins ==
  [][\A u \in Updater :
       ~byHand /\ bin # u /\ bin' = u /\ Revision[file[bin]] > 0
         => Revision[file[u]] > Revision[file[bin]]]_updateVars
=============================================================================
