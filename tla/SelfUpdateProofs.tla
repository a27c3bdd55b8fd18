--------------------------- MODULE SelfUpdateProofs ---------------------------
(***************************************************************************)
(* What SelfUpdate guarantees for any number of releases, requests and     *)
(* download attempts.                                                      *)
(***************************************************************************)
EXTENDS SelfUpdate, TLAPS

-----------------------------------------------------------------------------
(* The inductive invariant: one job at a time, and what it has done so far *)
(* at each of its steps.                                                   *)

OnlyOneJob ==
  \A i, j \in Job : step[i] # "idle" /\ step[j] # "idle" => i = j

JobsAreFlagged ==
  \A j \in Job : step[j] # "idle" => inProgress

BackedUpBeforeReplacing ==
  \A j \in Job : step[j] \in {"stage", "replace"} => backups[backupPath[j]] = binary

StagedIsWanted ==
  \A j \in Job : step[j] = "replace" => staged = target[j]

InstalledIsWanted ==
  \A j \in Job : step[j] = "save" => binary = target[j]

IInv ==
  /\ TypeOK
  /\ OnlyOneJob
  /\ JobsAreFlagged
  /\ BinaryIsWhole
  /\ BackedUpBeforeReplacing
  /\ StagedIsWanted
  /\ InstalledIsWanted
  /\ ReplacedBinariesAreKept
  /\ RecordFollowsBinary

-----------------------------------------------------------------------------
(* Lemmas about the steps of a job *)

\* A job that goes on stays the only one, and the others stay idle.
LEMMA GotoKeepsOneJob ==
  ASSUME IInv, NEW j \in Job, NEW s \in Step, step[j] # "idle", Goto(j, s)
  PROVE  /\ step' \in [Job -> Step]
         /\ OnlyOneJob' /\ JobsAreFlagged'
         /\ \A i \in Job : i # j => step'[i] = "idle"
         /\ step'[j] = s
<1>1. step' = [step EXCEPT ![j] = s] /\ inProgress' = inProgress
  BY DEF Goto
<1>2. \A i \in Job : i # j => step[i] = "idle"
  BY DEF IInv, OnlyOneJob
<1>3. step' \in [Job -> Step] /\ step'[j] = s
  BY <1>1 DEF IInv, TypeOK
<1>4. \A i \in Job : i # j => step'[i] = "idle"
  BY <1>1, <1>2 DEF IInv, TypeOK
<1>5. OnlyOneJob' /\ JobsAreFlagged'
  BY <1>1, <1>3, <1>4 DEF IInv, OnlyOneJob, JobsAreFlagged
<1> QED BY <1>3, <1>4, <1>5

\* A step that leaves the files alone and does not enter a step that relies
\* on them preserves the invariant.
LEMMA QuietStep ==
  ASSUME IInv, NEW j \in Job, NEW s \in Step, step[j] # "idle", Goto(j, s),
         s \notin {"stage", "replace", "save"},
         UNCHANGED <<files, clock, history>>,
         attempts' \in [Job -> 0 .. MaxAttempts - 1],
         restart' \in {"none", "scheduled"}
  PROVE  IInv'
<1>1. step' \in [Job -> Step] /\ OnlyOneJob' /\ JobsAreFlagged'
  BY GotoKeepsOneJob
<1>2. \A i \in Job : step'[i] \notin {"stage", "replace", "save"}
  BY GotoKeepsOneJob
<1>3. TypeOK'
  BY <1>1 DEF IInv, TypeOK, Goto, files, clock, history, request
<1>4. BackedUpBeforeReplacing' /\ StagedIsWanted' /\ InstalledIsWanted'
  BY <1>2 DEF BackedUpBeforeReplacing, StagedIsWanted, InstalledIsWanted
<1>5. BinaryIsWhole' /\ ReplacedBinariesAreKept' /\ RecordFollowsBinary'
  BY DEF IInv, BinaryIsWhole, ReplacedBinariesAreKept, RecordFollowsBinary,
         files, history
<1> QED BY <1>1, <1>3, <1>4, <1>5 DEF IInv

\* What a process without jobs starts from is well typed.
LEMMA NoJobs ==
  /\ Idle \in [Job -> Step] /\ \A j \in Job : Idle[j] = "idle"
  /\ NoTarget \in [Job -> Tag]
  /\ NoForce \in [Job -> BOOLEAN]
  /\ 0 \in Second /\ NoBackup \in [Job -> Second]
  /\ [j \in Job |-> 0] \in [Job -> 0 .. MaxAttempts - 1]
<1>1. Idle \in [Job -> Step] /\ \A j \in Job : Idle[j] = "idle"
  BY DEF Idle, Step
<1>2. NoTarget \in [Job -> Tag]
  BY TagAssumption DEF NoTarget
<1>3. NoForce \in [Job -> BOOLEAN]
  BY Zenon DEF NoForce
<1>4. [j \in Job |-> 0] \in [Job -> 0 .. MaxAttempts - 1]
  <2>1. 0 \in 0 .. MaxAttempts - 1
    BY AttemptsAssumption
  <2> QED BY <2>1
<1>5. 0 \in Second /\ NoBackup \in [Job -> Second]
  BY ClockAssumption DEF Second, NoBackup
<1> QED BY <1>1, <1>2, <1>3, <1>4, <1>5

-----------------------------------------------------------------------------
(* The invariant holds initially and every action preserves it. *)

LEMMA InitInvariant == Init => IInv
<1> SUFFICES ASSUME Init PROVE IInv
  OBVIOUS
<1> USE DEF Init
<1>1. TypeOK
  BY TagAssumption, NoJobs DEF TypeOK, File
<1>2. \A j \in Job : step[j] = "idle"
  BY NoJobs
<1>3. /\ OnlyOneJob /\ JobsAreFlagged /\ BackedUpBeforeReplacing
      /\ StagedIsWanted /\ InstalledIsWanted
  BY <1>2 DEF OnlyOneJob, JobsAreFlagged, BackedUpBeforeReplacing,
              StagedIsWanted, InstalledIsWanted
<1>4. BinaryIsWhole /\ ReplacedBinariesAreKept /\ RecordFollowsBinary
  BY TagAssumption, NoneAssumption
     DEF BinaryIsWhole, ReplacedBinariesAreKept, RecordFollowsBinary
<1> QED BY <1>1, <1>3, <1>4 DEF IInv

LEMMA StartReleaseInvariant ==
  ASSUME NEW j \in Job, NEW t \in Tag, NEW f \in BOOLEAN,
         IInv, StartRelease(j, t, f)
  PROVE  IInv'
<1> USE DEF IInv, StartRelease
<1>1. \A i \in Job : i # j => step'[i] = "idle"
  BY DEF NotBusy, JobsAreFlagged, TypeOK
<1>2. step'[j] = "check" /\ step' \in [Job -> Step]
  BY DEF TypeOK, Step
<1>3. TypeOK'
  BY <1>2 DEF TypeOK, files, clock, history
<1>4. OnlyOneJob' /\ JobsAreFlagged'
  BY <1>1, <1>2 DEF OnlyOneJob, JobsAreFlagged
<1>5. BackedUpBeforeReplacing' /\ StagedIsWanted' /\ InstalledIsWanted'
  BY <1>1, <1>2 DEF BackedUpBeforeReplacing, StagedIsWanted, InstalledIsWanted
<1>6. BinaryIsWhole' /\ ReplacedBinariesAreKept' /\ RecordFollowsBinary'
  BY DEF BinaryIsWhole, ReplacedBinariesAreKept, RecordFollowsBinary,
         files, history
<1> QED BY <1>3, <1>4, <1>5, <1>6

\* Everything before the backup, and the restart command.
LEMMA QuietStepsInvariant ==
  ASSUME NEW j \in Job, IInv,
         \/ Check(j) \/ FetchRelease(j) \/ DownloadFails(j) \/ Downloaded(j)
         \/ ScheduleRestart(j)
  PROVE  IInv'
<1>1. TypeOK
  BY DEF IInv
<1>2. 0 \in 0 .. MaxAttempts - 1
  BY AttemptsAssumption
<1>3. attempts' \in [Job -> 0 .. MaxAttempts - 1]
  <2>1. CASE DownloadFails(j)
    <3>1. attempts[j] \in 0 .. MaxAttempts - 1
      BY <1>1 DEF TypeOK
    <3>2. attempts[j] + 1 < MaxAttempts => attempts[j] + 1 \in 0 .. MaxAttempts - 1
      BY <3>1, AttemptsAssumption
    <3> QED BY <1>1, <1>2, <2>1, <3>2 DEF TypeOK, DownloadFails, MayRetry
  <2>2. CASE Downloaded(j)
    BY <1>1, <1>2, <2>2 DEF TypeOK, Downloaded
  <2>3. CASE Check(j) \/ FetchRelease(j) \/ ScheduleRestart(j)
    BY <1>1, <2>3 DEF TypeOK, Check, FetchRelease, ScheduleRestart
  <2> QED BY <2>1, <2>2, <2>3
<1>4. restart' \in {"none", "scheduled"}
  BY <1>1 DEF TypeOK, Check, FetchRelease, DownloadFails, Downloaded,
              ScheduleRestart
<1>5. PICK s \in Step : /\ Goto(j, s)
                        /\ s \notin {"stage", "replace", "save", "idle"}
  BY DEF Check, FetchRelease, DownloadFails, Downloaded, ChecksumsRead,
         ArchiveRead, ScheduleRestart, Step
<1>6. step[j] # "idle" /\ UNCHANGED <<files, clock, history>>
  BY DEF Check, FetchRelease, DownloadFails, Downloaded, ChecksumsRead,
         ArchiveRead, ScheduleRestart, history
<1> QED BY <1>3, <1>4, <1>5, <1>6, QuietStep

LEMMA BackUpInvariant ==
  ASSUME NEW j \in Job, IInv, BackUp(j)
  PROVE  IInv'
<1> USE DEF IInv, BackUp
<1>1. PICK s \in Step :
        /\ Goto(j, s)
        /\ \/ /\ s = "stage" /\ backups' = [backups EXCEPT ![second] = binary]
              /\ replaced' = {r \in replaced : r.at # second}
              /\ backupPath' = [backupPath EXCEPT ![j] = second]
           \/ /\ s = "failed" /\ backups' = [backups EXCEPT ![second] = Torn]
              /\ replaced' = {r \in replaced : r.at # second}
              /\ UNCHANGED backupPath
           \/ s = "failed" /\ UNCHANGED <<backups, replaced, backupPath>>
  BY DEF Step
<1>2. /\ step' \in [Job -> Step] /\ OnlyOneJob' /\ JobsAreFlagged'
      /\ \A i \in Job : i # j => step'[i] = "idle"
      /\ step'[j] = s
  BY <1>1, GotoKeepsOneJob
<1>3. /\ backups' \in [Second -> File] /\ backupPath' \in [Job -> Second]
      /\ replaced' \subseteq replaced
      /\ \A t \in Second \ {second} : backups'[t] = backups[t]
      /\ (\A r \in replaced' : r.at # second) \/ backups' = backups
  BY <1>1 DEF TypeOK, File
<1>4. TypeOK'
  <2>1. replaced' \in SUBSET [content : File, at : Second]
    BY <1>3 DEF TypeOK
  <2>2. UNCHANGED <<running, binary, staged, stateFile, inProgress, lastResult,
                    target, force, attempts, restart, second, unrecorded>>
    BY <1>1 DEF Goto, request
  <2> HIDE DEF BackUp
  <2> QED BY <1>2, <1>3, <2>1, <2>2 DEF TypeOK
<1>5. BackedUpBeforeReplacing'
  BY <1>1, <1>2 DEF BackedUpBeforeReplacing, TypeOK
<1>6. StagedIsWanted' /\ InstalledIsWanted'
  BY <1>1, <1>2 DEF StagedIsWanted, InstalledIsWanted
<1>7. ReplacedBinariesAreKept'
  BY <1>3 DEF TypeOK, ReplacedBinariesAreKept
<1>8. BinaryIsWhole' /\ RecordFollowsBinary'
  BY DEF BinaryIsWhole, RecordFollowsBinary
<1> QED BY <1>2, <1>4, <1>5, <1>6, <1>7, <1>8

LEMMA StageInvariant ==
  ASSUME NEW j \in Job, IInv, Stage(j)
  PROVE  IInv'
<1> USE DEF IInv, Stage
<1>1. PICK s \in Step :
        /\ Goto(j, s)
        /\ \/ s = "replace" /\ staged' = target[j]
           \/ s = "failed" /\ staged' \in {staged, Torn}
  BY DEF Step
<1>2. /\ step' \in [Job -> Step] /\ OnlyOneJob' /\ JobsAreFlagged'
      /\ \A i \in Job : i # j => step'[i] = "idle"
      /\ step'[j] = s
  BY <1>1, GotoKeepsOneJob
<1>3. TypeOK'
  BY <1>1, <1>2 DEF TypeOK, Goto, clock, history, request, File
<1>4. BackedUpBeforeReplacing'
  BY <1>1, <1>2 DEF BackedUpBeforeReplacing, clock
<1>5. StagedIsWanted' /\ InstalledIsWanted'
  BY <1>1, <1>2 DEF StagedIsWanted, InstalledIsWanted, Goto, request
<1>6. BinaryIsWhole' /\ ReplacedBinariesAreKept' /\ RecordFollowsBinary'
  BY DEF BinaryIsWhole, ReplacedBinariesAreKept, RecordFollowsBinary,
         history
<1> QED BY <1>2, <1>3, <1>4, <1>5, <1>6

LEMMA ReplaceInvariant ==
  ASSUME NEW j \in Job, IInv, Replace(j)
  PROVE  IInv'
<1> USE DEF IInv, Replace
<1>1. PICK s \in Step :
        /\ Goto(j, s)
        /\ \/ /\ s = "save" /\ binary' = staged
              /\ unrecorded' = TRUE
              /\ replaced' = replaced \cup {[content |-> binary, at |-> backupPath[j]]}
           \/ s = "failed" /\ UNCHANGED <<binary, history>>
  BY DEF Step
<1>2. /\ step' \in [Job -> Step] /\ OnlyOneJob' /\ JobsAreFlagged'
      /\ \A i \in Job : i # j => step'[i] = "idle"
      /\ step'[j] = s
  BY <1>1, GotoKeepsOneJob
<1>3. /\ staged = target[j] /\ target[j] \in Tag
      /\ backups[backupPath[j]] = binary /\ backupPath[j] \in Second
  BY DEF StagedIsWanted, BackedUpBeforeReplacing, TypeOK
<1>4. TypeOK'
  <2>1. [content |-> binary, at |-> backupPath[j]] \in [content : File, at : Second]
    BY <1>3 DEF TypeOK
  <2>2. replaced' \in SUBSET [content : File, at : Second] /\ unrecorded' \in BOOLEAN
    BY <1>1, <2>1 DEF TypeOK, history
  <2>3. binary' \in File /\ staged' \in File
    BY <1>1, <1>3 DEF TypeOK, File
  <2> QED BY <1>1, <1>2, <2>2, <2>3 DEF TypeOK, Goto, clock, request
<1>5. BackedUpBeforeReplacing' /\ StagedIsWanted'
  BY <1>1, <1>2 DEF BackedUpBeforeReplacing, StagedIsWanted
<1>6. InstalledIsWanted'
  BY <1>1, <1>2, <1>3 DEF InstalledIsWanted, Goto, request
<1>7. BinaryIsWhole' /\ ReplacedBinariesAreKept' /\ RecordFollowsBinary'
  BY <1>1, <1>3 DEF BinaryIsWhole, ReplacedBinariesAreKept,
                    RecordFollowsBinary, history
<1> QED BY <1>2, <1>4, <1>5, <1>6, <1>7

LEMMA SaveStateInvariant ==
  ASSUME NEW j \in Job, IInv, SaveState(j)
  PROVE  IInv'
<1> USE DEF IInv, SaveState
<1>1. PICK s \in Step :
        /\ Goto(j, s)
        /\ \/ s = "restart" /\ stateFile' = target[j] /\ unrecorded' = FALSE
           \/ /\ s = "failed" /\ stateFile' \in {stateFile, Torn}
              /\ unrecorded' = unrecorded
  BY DEF Step
<1>2. /\ step' \in [Job -> Step] /\ OnlyOneJob' /\ JobsAreFlagged'
      /\ \A i \in Job : i # j => step'[i] = "idle"
      /\ step'[j] = s
  BY <1>1, GotoKeepsOneJob
<1>3. binary = target[j] /\ target[j] \in Tag
  BY DEF InstalledIsWanted, TypeOK
<1>4. TypeOK'
  BY <1>1, <1>2, <1>3 DEF TypeOK, Goto, clock, request, File
<1>5. BackedUpBeforeReplacing' /\ StagedIsWanted' /\ InstalledIsWanted'
  BY <1>1, <1>2 DEF BackedUpBeforeReplacing, StagedIsWanted, InstalledIsWanted
<1>6. BinaryIsWhole' /\ ReplacedBinariesAreKept'
  BY DEF BinaryIsWhole, ReplacedBinariesAreKept
<1>7. RecordFollowsBinary'
  BY <1>1, <1>3, NoneAssumption DEF RecordFollowsBinary
<1> QED BY <1>2, <1>4, <1>5, <1>6, <1>7

LEMMA FinishInvariant ==
  ASSUME NEW j \in Job, IInv, Finish(j)
  PROVE  IInv'
<1> USE DEF IInv, Finish
<1>1. step[j] # "idle"
  OBVIOUS
<1>2. \A i \in Job : step'[i] = "idle"
  BY <1>1 DEF OnlyOneJob, TypeOK
<1>3. TypeOK'
  BY TagAssumption, NoJobs DEF TypeOK, Step, files, history
<1>4. OnlyOneJob' /\ JobsAreFlagged' /\ BackedUpBeforeReplacing'
  BY <1>2 DEF OnlyOneJob, JobsAreFlagged, BackedUpBeforeReplacing
<1>5. StagedIsWanted' /\ InstalledIsWanted'
  BY <1>2 DEF StagedIsWanted, InstalledIsWanted
<1>6. BinaryIsWhole' /\ ReplacedBinariesAreKept' /\ RecordFollowsBinary'
  BY DEF BinaryIsWhole, ReplacedBinariesAreKept, RecordFollowsBinary,
         files, history
<1> QED BY <1>3, <1>4, <1>5, <1>6

LEMMA ProcessInvariant ==
  ASSUME IInv, Stop \/ RestartLost \/ Start \/ Tick
  PROVE  IInv'
<1> USE DEF IInv
<1>1. BinaryIsWhole' /\ ReplacedBinariesAreKept' /\ RecordFollowsBinary'
  BY DEF BinaryIsWhole, ReplacedBinariesAreKept, RecordFollowsBinary, Stop,
         RestartLost, Start, Tick, files, history
<1>2. CASE Stop
  <2>1. TypeOK'
    BY <1>2, NoJobs DEF Stop, TypeOK, files, history
  <2>2. \A i \in Job : step'[i] = "idle"
    BY <1>2, NoJobs DEF Stop
  <2> QED BY <1>1, <2>1, <2>2
          DEF OnlyOneJob, JobsAreFlagged, BackedUpBeforeReplacing,
              StagedIsWanted, InstalledIsWanted
<1>3. CASE RestartLost \/ Start \/ Tick
  <2>1. TypeOK'
    <3>1. CASE RestartLost \/ Start
      BY <1>3, <3>1 DEF RestartLost, Start, TypeOK, files, request, clock, history
    <3>2. CASE Tick
      BY <3>2, ClockAssumption DEF Tick, TypeOK, Second, files, request, history
    <3> QED BY <1>3, <3>1, <3>2
  <2>2. UNCHANGED <<step, inProgress, files, request, backupPath>>
    BY <1>3 DEF RestartLost, Start, Tick, clock
  <2> QED BY <1>1, <2>1, <2>2
          DEF OnlyOneJob, JobsAreFlagged, BackedUpBeforeReplacing,
              StagedIsWanted, InstalledIsWanted, files, request
<1> QED BY <1>2, <1>3

LEMMA NextInvariant == IInv /\ [Next]_vars => IInv'
<1> SUFFICES ASSUME IInv, [Next]_vars PROVE IInv'
  OBVIOUS
<1>1. ASSUME NEW j \in Job, SelfUpdateRequest(j) PROVE IInv'
  BY <1>1, StartReleaseInvariant DEF SelfUpdateRequest
<1>2. ASSUME NEW j \in Job, ReleaseWebhook(j) PROVE IInv'
  BY <1>2, StartReleaseInvariant DEF ReleaseWebhook
<1>3. ASSUME NEW j \in Job, Advance(j) PROVE IInv'
  BY <1>3, QuietStepsInvariant, BackUpInvariant, StageInvariant,
     ReplaceInvariant, SaveStateInvariant, FinishInvariant DEF Advance
<1>4. CASE Crash \/ Restart \/ RestartLost \/ Start \/ Tick
  BY <1>4, ProcessInvariant DEF Crash, Restart
<1>5. CASE UNCHANGED vars
  BY <1>5 DEF vars, files, request, clock, history, IInv, TypeOK, OnlyOneJob, JobsAreFlagged, BinaryIsWhole,
              BackedUpBeforeReplacing, StagedIsWanted, InstalledIsWanted,
              ReplacedBinariesAreKept, RecordFollowsBinary
<1> QED BY <1>1, <1>2, <1>3, <1>4, <1>5 DEF Next

LEMMA Invariant == Spec => []IInv
BY InitInvariant, NextInvariant, PTL DEF Spec

-----------------------------------------------------------------------------
(* Theorems *)

(* The variables keep their types; no download is tried more often than     *)
(* selfUpdateMaxAttempts.                                                   *)
THEOREM TypeCorrect == Spec => []TypeOK
BY Invariant, PTL DEF IInv

(* At no instant is the executable anything but a whole release, so that a  *)
(* crash at any point leaves a service that starts.                         *)
THEOREM AlwaysStartable == Spec => []BinaryIsWhole
BY Invariant, PTL DEF IInv

(* The backup of every executable that was ever replaced is there and whole *)
(* unless a later one was written in the same second.                       *)
THEOREM EveryBinaryIsKept == Spec => []ReplacedBinariesAreKept
BY Invariant, PTL DEF IInv

(* A record written since the last replacement names what is installed.     *)
THEOREM RecordIsTrue == Spec => []RecordFollowsBinary
BY Invariant, PTL DEF IInv
=============================================================================
