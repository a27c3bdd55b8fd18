------------------------------ MODULE SelfUpdate ------------------------------
(***************************************************************************)
(* The updater (src/internal/api/self_update.go) and what asks it to work: *)
(* the admin endpoint (server.go, handleSelfUpdate) and the GitHub release *)
(* webhook (github_webhook.go).  A request that is accepted starts a job   *)
(* in a goroutine of its own; the job downloads and checks a release,      *)
(* backs up the binary, replaces it, records the release in the state file *)
(* and has systemd restart the service.                                    *)
(*                                                                         *)
(* The process may die between any two steps of a job.  The binary is      *)
(* replaced by rename; backup, .new and state file are written in place,   *)
(* so a failing or interrupted write leaves the old content, or Torn.      *)
(*                                                                         *)
(* A tag stands for the release, its archive and the binary in it.         *)
(* Asset names, digests, signatures and secrets are left out: an archive   *)
(* arrives as published or not.  A backup is named by the second in which  *)
(* it is written, and replaces the one of the same second.  A request that *)
(* is turned down (busy, other repository, draft, other event) changes     *)
(* nothing and has no action.                                              *)
(***************************************************************************)
EXTENDS Naturals, FiniteSets

CONSTANTS
  Tag,          \* releases; the binary in use is one of them
  Prerelease,   \* those the webhook ignores
  First,        \* the release installed by hand
  Job,          \* goroutines that may run runRelease
  MaxAttempts,  \* selfUpdateMaxAttempts
  MaxSecond,    \* bound on the clock
  None,
  Torn          \* a file cut short

ASSUME TagAssumption == Prerelease \subseteq Tag /\ First \in Tag
ASSUME AttemptsAssumption == MaxAttempts \in Nat \ {0}
ASSUME ClockAssumption == MaxSecond \in Nat
ASSUME NoneAssumption == None \notin Tag /\ Torn \notin Tag /\ None # Torn

VARIABLES
  running,     \* buildinfo.Version of the process; None: it is not running
  binary,      \* the executable in the working directory
  staged,      \* the file beside it that ends in .new
  stateFile,   \* the tag in .self-update-state.json
  inProgress,  \* u.inProgress
  lastResult,  \* u.lastResult.Tag
  step,        \* where each job is
  target,      \* the tag it was asked for
  force,       \* whether it was told to ignore what is installed
  attempts,    \* failed attempts of the download under way
  restart,     \* whether the restart command still waits to run
  second,      \* the clock
  backups,     \* the backup of each second
  backupPath,  \* the second in the name of a job's backup
  replaced,    \* history: what the executable held before, and when that
               \* was backed up, unless a later backup has the same second
  unrecorded   \* history: replaced since the state file was last written

files == <<binary, staged, stateFile, backups>>
history == <<replaced, unrecorded>>
request == <<target, force>>
clock == <<second, backupPath>>
vars == <<running, files, inProgress, lastResult, step, request, attempts,
          restart, clock, history>>

Step == {"idle", "check", "release", "checksums", "archive", "backup", "stage",
         "replace", "save", "restart", "installed", "current", "failed"}
File == Tag \cup {None, Torn}
Second == 0 .. MaxSecond

TypeOK ==
  /\ running \in Tag \cup {None}
  /\ binary \in File /\ staged \in File /\ stateFile \in File
  /\ inProgress \in BOOLEAN
  /\ lastResult \in Tag \cup {None}
  /\ step \in [Job -> Step]
  /\ target \in [Job -> Tag]
  /\ force \in [Job -> BOOLEAN]
  /\ attempts \in [Job -> 0 .. MaxAttempts - 1]
  /\ restart \in {"none", "scheduled"}
  /\ second \in Second
  /\ backups \in [Second -> File]
  /\ backupPath \in [Job -> Second]
  /\ replaced \in SUBSET [content : File, at : Second]
  /\ unrecorded \in BOOLEAN

Idle == [j \in Job |-> "idle"]
NoTarget == [j \in Job |-> First]
NoForce == [j \in Job |-> FALSE]
NoBackup == [j \in Job |-> 0]

Init ==
  /\ running = First /\ binary = First
  /\ staged = None /\ stateFile = None
  /\ inProgress = FALSE /\ lastResult = None
  /\ step = Idle
  /\ target = NoTarget /\ force = NoForce
  /\ attempts = [j \in Job |-> 0]
  /\ restart = "none"
  /\ second = 0
  /\ backups = [t \in Second |-> None]
  /\ backupPath = NoBackup
  /\ replaced = {}
  /\ unrecorded = FALSE

-----------------------------------------------------------------------------
(* Requests *)

NeverBusy == TRUE \* mutant: a second request starts a second job
NotBusy == ~inProgress

StartRelease(j, t, f) ==
  /\ running # None
  /\ NotBusy
  /\ step[j] = "idle"
  /\ inProgress' = TRUE
  /\ lastResult' = None
  /\ step' = [step EXCEPT ![j] = "check"]
  /\ target' = [target EXCEPT ![j] = t]
  /\ force' = [force EXCEPT ![j] = f]
  /\ UNCHANGED <<running, files, attempts, restart, clock, history>>

SelfUpdateRequest(j) == \E t \in Tag, f \in BOOLEAN : StartRelease(j, t, f)
ReleaseWebhook(j) == \E t \in Tag \ Prerelease : StartRelease(j, t, FALSE)

-----------------------------------------------------------------------------
(* applyRelease, up to the checked archive *)

\* Job j ends its present step and goes on at s.
Goto(j, s) ==
  /\ running # None
  /\ step' = [step EXCEPT ![j] = s]
  /\ UNCHANGED <<running, inProgress, lastResult, request>>

\* loadState: a file that is missing or torn says nothing.
Recorded(j) == stateFile = target[j]
AlreadyCurrent(j) == ~force[j] /\ (running = target[j] \/ Recorded(j))

Check(j) ==
  /\ step[j] = "check"
  /\ Goto(j, IF AlreadyCurrent(j) THEN "current" ELSE "release")
  /\ UNCHANGED <<files, attempts, restart, clock, history>>

\* fetchRelease is tried once; a release may lack the assets for this machine.
FetchRelease(j) ==
  /\ step[j] = "release"
  /\ \E s \in {"checksums", "failed"} : Goto(j, s)
  /\ UNCHANGED <<files, attempts, restart, clock, history>>

MayRetry(j) == attempts[j] + 1 < MaxAttempts

DownloadOnceMore(j) == \* mutant: one attempt too many
  /\ step[j] \in {"checksums", "archive"}
  /\ \/ /\ attempts[j] < MaxAttempts
        /\ attempts' = [attempts EXCEPT ![j] = @ + 1]
        /\ Goto(j, step[j])
     \/ /\ attempts' = [attempts EXCEPT ![j] = 0]
        /\ Goto(j, "failed")
  /\ UNCHANGED <<files, restart, clock, history>>

\* download: what cannot be retried, and the last attempt, end the job.
DownloadFails(j) ==
  /\ step[j] \in {"checksums", "archive"}
  /\ \/ /\ MayRetry(j)
        /\ attempts' = [attempts EXCEPT ![j] = @ + 1]
        /\ Goto(j, step[j])
     \/ /\ attempts' = [attempts EXCEPT ![j] = 0]
        /\ Goto(j, "failed")
  /\ UNCHANGED <<files, restart, clock, history>>

\* checksumForAsset: the archive may be missing from the list.
ChecksumsRead(j) ==
  step[j] = "checksums" /\ \E s \in {"archive", "failed"} : Goto(j, s)

\* An archive that is not the published one, or has no binary in it, is turned
\* down.
ArchiveRead(j) ==
  step[j] = "archive" /\ \E s \in {"backup", "failed"} : Goto(j, s)

Downloaded(j) ==
  /\ ChecksumsRead(j) \/ ArchiveRead(j)
  /\ attempts' = [attempts EXCEPT ![j] = 0]
  /\ UNCHANGED <<files, restart, clock, history>>

-----------------------------------------------------------------------------
(* installRelease, saveState and scheduleRestart *)

\* The archive is stored and the executable copied; either write may fail.
\* The copy goes to the file named by the second, whatever that file holds.
BackUpIgnoresFailure(j) == \* mutant: the error of writing the backup is ignored
  /\ step[j] = "backup"
  /\ \E copy \in {binary, Torn, backups[second]} :
       backups' = [backups EXCEPT ![second] = copy]
  /\ replaced' = {r \in replaced : r.at # second}
  /\ backupPath' = [backupPath EXCEPT ![j] = second]
  /\ Goto(j, "stage")
  /\ UNCHANGED <<binary, staged, stateFile, attempts, restart, second, unrecorded>>

BackUp(j) ==
  /\ step[j] = "backup"
  /\ \/ /\ backups' = [backups EXCEPT ![second] = binary]
        /\ replaced' = {r \in replaced : r.at # second}
        /\ backupPath' = [backupPath EXCEPT ![j] = second]
        /\ Goto(j, "stage")
     \/ /\ backups' = [backups EXCEPT ![second] = Torn]
        /\ replaced' = {r \in replaced : r.at # second}
        /\ UNCHANGED backupPath
        /\ Goto(j, "failed")
     \/ /\ UNCHANGED <<backups, replaced, backupPath>>
        /\ Goto(j, "failed")
  /\ UNCHANGED <<binary, staged, stateFile, attempts, restart, second, unrecorded>>

StageInPlace(j) == \* mutant: the executable itself is written, not a .new file
  /\ step[j] = "stage"
  /\ \/ /\ staged' = target[j]
        /\ UNCHANGED binary
        /\ Goto(j, "replace")
     \/ /\ binary' \in {binary, Torn}
        /\ UNCHANGED staged
        /\ Goto(j, "failed")
  /\ UNCHANGED <<stateFile, backups, attempts, restart, clock, history>>

Stage(j) ==
  /\ step[j] = "stage"
  /\ \/ /\ staged' = target[j]
        /\ Goto(j, "replace")
     \/ /\ staged' \in {staged, Torn}
        /\ Goto(j, "failed")
  /\ UNCHANGED <<binary, stateFile, backups, attempts, restart, clock, history>>

\* A rename of a file that is gone fails; .new is then removed if it can be.
Replace(j) ==
  /\ step[j] = "replace"
  /\ \/ /\ staged # None
        /\ staged' = None
        /\ binary' = staged
        /\ replaced' = replaced \cup {[content |-> binary, at |-> backupPath[j]]}
        /\ unrecorded' = TRUE
        /\ Goto(j, "save")
     \/ /\ staged' \in {staged, None}
        /\ UNCHANGED <<binary, history>>
        /\ Goto(j, "failed")
  /\ UNCHANGED <<stateFile, backups, attempts, restart, clock>>

SaveState(j) ==
  /\ step[j] = "save"
  /\ \/ /\ stateFile' = target[j]
        /\ unrecorded' = FALSE
        /\ Goto(j, "restart")
     \/ /\ stateFile' \in {stateFile, Torn}
        /\ UNCHANGED unrecorded
        /\ Goto(j, "failed")
  /\ UNCHANGED <<binary, staged, backups, attempts, restart, clock, replaced>>

ScheduleRestart(j) ==
  /\ step[j] = "restart"
  /\ \/ /\ restart' = "scheduled"
        /\ Goto(j, "installed")
     \/ /\ UNCHANGED restart
        /\ Goto(j, "failed")
  /\ UNCHANGED <<files, attempts, clock, history>>

FinishForgetsFlag(j) == \* mutant: a job that failed leaves the flag up
  /\ running # None
  /\ step[j] \in {"installed", "current", "failed"}
  /\ step' = [step EXCEPT ![j] = "idle"]
  /\ inProgress' = (step[j] = "failed")
  /\ lastResult' = IF step[j] = "failed" THEN None ELSE target[j]
  /\ target' = [target EXCEPT ![j] = First]
  /\ force' = [force EXCEPT ![j] = FALSE]
  /\ backupPath' = [backupPath EXCEPT ![j] = 0]
  /\ UNCHANGED <<running, files, attempts, restart, second, history>>

\* The rest of runRelease.
Finish(j) ==
  /\ running # None
  /\ step[j] \in {"installed", "current", "failed"}
  /\ step' = [step EXCEPT ![j] = "idle"]
  /\ inProgress' = FALSE
  /\ lastResult' = IF step[j] = "failed" THEN None ELSE target[j]
  /\ target' = [target EXCEPT ![j] = First]
  /\ force' = [force EXCEPT ![j] = FALSE]
  /\ backupPath' = [backupPath EXCEPT ![j] = 0]
  /\ UNCHANGED <<running, files, attempts, restart, second, history>>

-----------------------------------------------------------------------------
(* The process and systemd *)

\* A restart command that still waits ends with the service's processes.
Stop ==
  /\ running # None
  /\ running' = None
  /\ inProgress' = FALSE /\ lastResult' = None
  /\ step' = Idle
  /\ target' = NoTarget /\ force' = NoForce
  /\ attempts' = [j \in Job |-> 0]
  /\ restart' = "none"
  /\ backupPath' = NoBackup
  /\ UNCHANGED <<files, second, history>>

Crash == Stop
Restart == restart = "scheduled" /\ Stop

\* The command runs in the background and nobody sees it fail.
RestartLost ==
  /\ restart = "scheduled"
  /\ restart' = "none"
  /\ UNCHANGED <<running, files, inProgress, lastResult, step, request,
                 attempts, clock, history>>

\* Only a whole executable can be started.
Start ==
  /\ running = None
  /\ binary \in Tag
  /\ running' = binary
  /\ UNCHANGED <<files, inProgress, lastResult, step, request, attempts,
                 restart, clock, history>>

Tick ==
  /\ second < MaxSecond
  /\ second' = second + 1
  /\ UNCHANGED <<running, files, inProgress, lastResult, step, request,
                 attempts, restart, backupPath, history>>

Advance(j) ==
  \/ Check(j) \/ FetchRelease(j) \/ DownloadFails(j) \/ Downloaded(j)
  \/ BackUp(j) \/ Stage(j) \/ Replace(j) \/ SaveState(j) \/ ScheduleRestart(j)
  \/ Finish(j)

Next ==
  \/ \E j \in Job : SelfUpdateRequest(j) \/ ReleaseWebhook(j) \/ Advance(j)
  \/ Crash
  \/ Restart
  \/ RestartLost
  \/ Start
  \/ Tick

Spec == Init /\ [][Next]_vars

\* Jobs keep going: each HTTP call ends after 60 s, the downloads together
\* after ten minutes (selfUpdateJobTimeout), and local writes end.
FairSpec == Spec /\ \A j \in Job : WF_vars(Advance(j))

-----------------------------------------------------------------------------
(* Properties *)

(* The executable is a whole release whatever fails and wherever a job is   *)
(* cut off: systemd can always start the service again (installRelease      *)
(* writes .new and renames it, self_update.go:488-495).                     *)
BinaryIsWhole == binary \in Tag

(* Every executable that was replaced can be put back, from the backup that *)
(* was made first, unless a later install wrote its backup in the same      *)
(* second: failing installs, crashes and two jobs at work spoil nothing     *)
(* else (self_update.go:477-486).                                           *)
ReplacedBinariesAreKept == \A r \in replaced : backups[r.at] = r.content

(* Once an update has been recorded, the record names what is installed,    *)
(* the next request's "already current" relies on it (self_update.go:272).  *)
RecordFollowsBinary == stateFile \in Tag /\ ~unrecorded => stateFile = binary

(* Every job ends, and lets the next one in, whatever GitHub and the disk   *)
(* answer (runRelease, self_update.go:232-256, and the bounded downloads).  *)
EveryJobEnds == inProgress ~> ~inProgress

(* README.md:20 says an update downloads the release of the tag and puts it *)
(* in the place of the current binary; a job that ended well should leave   *)
(* that release installed.  The code answers "already current" from the     *)
(* version that runs, or from a record, not from what is installed.         *)
UpdateTakesEffect == lastResult # None => binary = lastResult
=============================================================================
