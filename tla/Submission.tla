------------------------------ MODULE Submission ------------------------------
(***************************************************************************)
(* A feedback submission once its signature, body and rate limit have been *)
(* accepted (src/internal/api/server.go, handleCreateIssue from the        *)
(* duplicate check on), with everything it touches: the duplicate window,  *)
(* the moderation service, the archive of withheld texts, GitHub and the   *)
(* ticket store.  Requests run concurrently; the process may die between   *)
(* any two steps and is restarted on the files it left.                    *)
(*                                                                         *)
(* A request, the issue it creates, that issue's number and its ticket     *)
(* share one identity: GitHub numbers issues and no two requests share     *)
(* one.  ContentOf says which requests carry the same text from the same   *)
(* address.  Rendering, labels and tokens are left out.                    *)
(***************************************************************************)
EXTENDS FiniteSets, Naturals

CONSTANTS
  Request,           \* submissions
  Content,           \* address and text, what dedupeKey hashes
  ContentOf,         \* [Request -> Content]
  MaxRetries,        \* MODERATION_MAX_RETRIES
  RedisConfigured,   \* REDIS_ADDR is set and answered when the process started
  Torn               \* a ticket file that does not parse: no set of requests

ASSUME ContentAssumption == ContentOf \in [Request -> Content]
ASSUME RetriesAssumption == MaxRetries \in Nat \ {0}
ASSUME RedisAssumption == RedisConfigured \in BOOLEAN
ASSUME TornAssumption == Torn \notin SUBSET Request

VARIABLES
  up,          \* the process runs
  stage,       \* where each request is in handleCreateIssue
  attempts,    \* failed calls to the moderation service
  verdict,     \* what the moderation came to
  reply,       \* what the client was told
  records,     \* unexpired duplicate-window records, by store
  recent,      \* requests admitted less than DuplicateWindow ago
  admittedBy,  \* the store that admitted each of them
  archive,     \* review-blocked/archive-<id>.md
  issue,       \* what GitHub shows
  tickets,     \* TicketStore.records
  ticketFile   \* ticket_tokens.json

window == <<records, recent, admittedBy>>
progress == <<attempts, verdict>>
disk == <<archive, ticketFile>>
vars == <<up, stage, attempts, verdict, reply, records, recent, admittedBy,
          archive, issue, tickets, ticketFile>>

Stage == {"idle", "review", "archive", "archiving", "post", "ticket",
          "writing", "answer", "done"}
Reply == {"none", "ok", "duplicate", "archiveFailed", "githubFailed",
          "ticketFailed", "lost"}
Store == {"memory", "redis"}

TypeOK ==
  /\ up \in BOOLEAN
  /\ stage \in [Request -> Stage]
  /\ attempts \in [Request -> 0..MaxRetries]
  /\ verdict \in [Request -> {"none", "allow", "reject", "error"}]
  /\ reply \in [Request -> Reply]
  /\ records \in [Store -> SUBSET Request]
  /\ recent \in SUBSET Request
  /\ admittedBy \in [Request -> Store \cup {"nobody", "forgotten"}]
  /\ archive \in [Request -> {"none", "torn", "whole"}]
  /\ issue \in [Request -> {"none", "original", "placeholder"}]
  /\ tickets \in SUBSET Request
  /\ ticketFile \in (SUBSET Request) \cup {Torn}

Init ==
  /\ up = TRUE
  /\ stage = [r \in Request |-> "idle"]
  /\ attempts = [r \in Request |-> 0]
  /\ verdict = [r \in Request |-> "none"]
  /\ reply = [r \in Request |-> "none"]
  /\ records = [s \in Store |-> {}]
  /\ recent = {}
  /\ admittedBy = [r \in Request |-> "nobody"]
  /\ archive = [r \in Request |-> "none"]
  /\ issue = [r \in Request |-> "none"]
  /\ tickets = {}
  /\ ticketFile = {}

At(r, s) == up /\ stage[r] = s
Goto(r, s) == stage' = [stage EXCEPT ![r] = s] /\ UNCHANGED reply
Finish(r, code) ==
  /\ stage' = [stage EXCEPT ![r] = "done"]
  /\ reply' = [reply EXCEPT ![r] = code]

-----------------------------------------------------------------------------
(* The duplicate window *)

RecordedOnSuccess(s, r) == \* mutant: only answered submissions count
  \E q \in records[s] : ContentOf[q] = ContentOf[r] /\ reply[q] = "ok"
Seen(s, r) == \E q \in records[s] : ContentOf[q] = ContentOf[r]

Recorded(s, r) == [records EXCEPT ![s] = @ \cup {r}]

\* SeenRecently returns false: the submission goes on.
Admit(r, s) ==
  /\ Goto(r, "review")
  /\ recent' = recent \cup {r}
  /\ admittedBy' = [admittedBy EXCEPT ![r] = s]

\* SeenRecently returns true: 409.
Duplicate(r) ==
  /\ Finish(r, "duplicate")
  /\ UNCHANGED <<recent, admittedBy>>

\* The key is looked up and recorded in one step: SETNX on Redis, one
\* critical section in memory.
CheckDuplicate(r, s, before) ==
  \/ Seen(s, r) /\ Duplicate(r) /\ records' = before
  \/ ~Seen(s, r) /\ Admit(r, s) /\ records' = [before EXCEPT ![s] = @ \cup {r}]

\* A SETNX whose answer got lost is sent again by the client of main.go, which
\* keeps go-redis's retries, and finds the key it has set itself.
CheckRedis(r) ==
  /\ RedisConfigured
  /\ At(r, "idle")
  /\ \/ CheckDuplicate(r, "redis", records)
     \/ ~Seen("redis", r) /\ Duplicate(r) /\ records' = Recorded("redis", r)
  /\ UNCHANGED <<up, progress, disk, issue, tickets>>

\* Redis is not configured, or does not answer within its timeout; a SETNX
\* whose answer came too late has taken effect all the same.
CheckMemory(r) ==
  /\ At(r, "idle")
  /\ \/ CheckDuplicate(r, "memory", records)
     \/ /\ RedisConfigured /\ ~Seen("redis", r)
        /\ CheckDuplicate(r, "memory", Recorded("redis", r))
  /\ UNCHANGED <<up, progress, disk, issue, tickets>>

\* Ten minutes have passed since r was recorded.
WindowEnds(r) ==
  /\ r \in recent \cup UNION {records[s] : s \in Store}
  /\ records' = [s \in Store |-> records[s] \ {r}]
  /\ recent' = recent \ {r}
  /\ UNCHANGED <<up, stage, progress, reply, admittedBy, disk, issue, tickets>>

-----------------------------------------------------------------------------
(* Moderation, and the archive of what it withholds *)

RejectedOnly(v) == v = "reject" \* mutant: a failed review lets the text pass
Blocked(v) == v # "allow"       \* reviewErr != nil || !reviewDecision.Allow

ReviewFails(r) ==
  /\ At(r, "review")
  /\ attempts' = [attempts EXCEPT ![r] = @ + 1]
  /\ IF attempts[r] + 1 < MaxRetries
     THEN UNCHANGED <<verdict, stage, reply>>
     ELSE /\ verdict' = [verdict EXCEPT ![r] = "error"]
          /\ Goto(r, IF Blocked("error") THEN "archive" ELSE "post")
  /\ UNCHANGED <<up, window, disk, issue, tickets>>

ReviewDecides(r, v) ==
  /\ At(r, "review")
  /\ verdict' = [verdict EXCEPT ![r] = v]
  /\ Goto(r, IF Blocked(v) THEN "archive" ELSE "post")
  /\ UNCHANGED <<up, attempts, window, disk, issue, tickets>>

\* SaveMarkdown holds the archive's lock and writes the file in place.
ArchiveStarts(r) ==
  /\ At(r, "archive")
  /\ \A q \in Request : stage[q] # "archiving"
  /\ archive' = [archive EXCEPT ![r] = "torn"]
  /\ Goto(r, "archiving")
  /\ UNCHANGED <<up, progress, window, issue, tickets, ticketFile>>

ArchiveSaved(r) ==
  /\ At(r, "archiving")
  /\ archive' = [archive EXCEPT ![r] = "whole"]
  /\ Goto(r, "post")
  /\ UNCHANGED <<up, progress, window, issue, tickets, ticketFile>>

\* The file cannot be opened, or not be written to its end.
ArchiveErrorIgnored(r) == \* mutant: the placeholder is posted all the same
  /\ At(r, "archive") \/ At(r, "archiving")
  /\ Goto(r, "post")
  /\ UNCHANGED <<up, progress, window, disk, issue, tickets>>
ArchiveFails(r) ==
  /\ At(r, "archive") \/ At(r, "archiving")
  /\ Finish(r, "archiveFailed")
  /\ UNCHANGED <<up, progress, window, disk, issue, tickets>>

-----------------------------------------------------------------------------
(* GitHub *)

\* What is sent: the original, or a note that the text is withheld.
Rendered(r) == IF Blocked(verdict[r]) THEN "placeholder" ELSE "original"

IssueCreated(r) ==
  /\ At(r, "post")
  /\ issue' = [issue EXCEPT ![r] = Rendered(r)]
  /\ Goto(r, "ticket")
  /\ UNCHANGED <<up, progress, window, disk, tickets>>

TicketAnyway(r) == \* mutant: a ticket for an issue that was not created
  /\ At(r, "post")
  /\ Goto(r, "ticket")
  /\ UNCHANGED <<up, progress, window, disk, issue, tickets>>
IssueRefused(r) ==
  /\ At(r, "post")
  /\ Finish(r, "githubFailed")
  /\ UNCHANGED <<up, progress, window, disk, issue, tickets>>

\* GitHub creates the issue but its answer does not reach the proxy.
IssueAnswerLost(r) ==
  /\ At(r, "post")
  /\ issue' = [issue EXCEPT ![r] = Rendered(r)]
  /\ Finish(r, "githubFailed")
  /\ UNCHANGED <<up, progress, window, disk, tickets>>

-----------------------------------------------------------------------------
(* TicketStore.Set: under the lock, memory first, then the whole file in    *)
(* place.  os.WriteFile empties the file before it writes.                  *)

TicketLockLeaks == \* mutant: a failed save returns without unlocking
  \A q \in Request : stage[q] # "writing" /\ reply[q] # "ticketFailed"
TicketLockFree == \A q \in Request : stage[q] # "writing"

TicketStarts(r) ==
  /\ At(r, "ticket")
  /\ TicketLockFree
  /\ tickets' = tickets \cup {r}
  /\ ticketFile' = Torn
  /\ Goto(r, "writing")
  /\ UNCHANGED <<up, progress, window, archive, issue>>

OwnTicket(r) == {r}          \* mutant: the file holds the newest record
TicketPayload(r) == tickets  \* ticketFile{Records: s.records}

TicketWritten(r) ==
  /\ At(r, "writing")
  /\ ticketFile' = TicketPayload(r)
  /\ Goto(r, "answer")
  /\ UNCHANGED <<up, progress, window, archive, issue, tickets>>

\* The file cannot be opened and stays as it was, or the write stops short;
\* memory keeps the ticket nobody was told of.
TicketFails(r) ==
  /\ \/ At(r, "ticket") /\ TicketLockFree
     \/ At(r, "writing")
  /\ tickets' = tickets \cup {r}
  /\ Finish(r, "ticketFailed")
  /\ UNCHANGED <<up, progress, window, disk, issue>>

Answer(r) ==
  /\ At(r, "answer")
  /\ Finish(r, "ok")
  /\ UNCHANGED <<up, progress, window, disk, issue, tickets>>

-----------------------------------------------------------------------------
(* The process *)

\* Requests under way are never answered; memory is gone, Redis is not.
Crash ==
  /\ up
  /\ up' = FALSE
  /\ stage' = [r \in Request |-> IF stage[r] = "idle" THEN "idle" ELSE "done"]
  /\ reply' = [r \in Request |->
                 IF stage[r] \in {"idle", "done"} THEN reply[r] ELSE "lost"]
  /\ records' = [records EXCEPT !["memory"] = {}]
  /\ admittedBy' = [r \in Request |->
                      IF admittedBy[r] = "memory" THEN "forgotten" ELSE admittedBy[r]]
  /\ tickets' = {}
  /\ UNCHANGED <<recent, progress, disk, issue>>

\* A ticket file that does not parse ends the start with log.Fatalf.
AnyFile == TRUE                   \* mutant: the parse error is ignored
Loadable == ticketFile # Torn

Start ==
  /\ ~up
  /\ Loadable
  /\ up' = TRUE
  /\ tickets' = ticketFile
  /\ UNCHANGED <<stage, progress, reply, window, disk, issue>>

Review(r) == ReviewFails(r) \/ \E v \in {"allow", "reject"} : ReviewDecides(r, v)
Archive(r) == ArchiveStarts(r) \/ ArchiveSaved(r) \/ ArchiveFails(r)
Post(r) == IssueCreated(r) \/ IssueRefused(r) \/ IssueAnswerLost(r)
SaveTicket(r) == TicketStarts(r) \/ TicketWritten(r) \/ TicketFails(r)
Step(r) == Review(r) \/ Archive(r) \/ Post(r) \/ SaveTicket(r) \/ Answer(r)

Next ==
  \/ \E r \in Request : CheckRedis(r) \/ CheckMemory(r) \/ WindowEnds(r) \/ Step(r)
  \/ Crash
  \/ Start

Spec == Init /\ [][Next]_vars

\* A request under way goes on: every call it makes ends, by the timeouts of
\* the GitHub client (15 s) and of the reviewer (MODERATION_TIMEOUT_SECONDS),
\* and local writes end.
Fairness == \A r \in Request : WF_vars(Step(r))
FairSpec == Spec /\ Fairness

-----------------------------------------------------------------------------
(* Properties *)

(* A text stands on GitHub only if the moderation let it through; a review *)
(* that failed until its retries ran out withholds it (server.go:299).     *)
FailClosed ==
  \A r \in Request : issue[r] = "original" => verdict[r] = "allow"

(* Behind every placeholder lies the whole original, also when the process *)
(* died at any point since (server.go:315-352).                            *)
WithheldTextsAreKept ==
  \A r \in Request : issue[r] = "placeholder" => archive[r] = "whole"

(* Whenever the service runs, every client that was given a ticket can use *)
(* it, whatever writes failed and however often the process was restarted  *)
(* since (ticket_store.go:40-60, 82-93).                                   *)
AnsweredTicketsWork ==
  up => \A r \in Request : reply[r] = "ok" => r \in tickets

(* A ticket, in memory or in the file, belongs to an issue that exists.    *)
TicketsHaveIssues ==
  \A r \in Request :
    (r \in tickets \/ (ticketFile # Torn /\ r \in ticketFile)) => issue[r] # "none"

(* Two submissions of one text within the window are both admitted only    *)
(* when different stores judged them (Redis did not answer) or a restart   *)
(* emptied the memory in between (dedupe.go:19-39, redis_dedupe.go:30-47). *)
(* README.md:39 promises a 409 for ten minutes without these exceptions.   *)
TwinsNeedAnOutage ==
  \A q, r \in recent :
    (q # r /\ ContentOf[q] = ContentOf[r]) =>
      \/ admittedBy[q] # admittedBy[r]
      \/ admittedBy[q] = "forgotten"

(* Every submission that is under way comes to an answer or is cut off by  *)
(* the process ending: nothing waits for ever on a lock, a retry or a      *)
(* failed write.                                                           *)
EverySubmissionEnds ==
  \A r \in Request : stage[r] = "review" ~> stage[r] = "done"

-----------------------------------------------------------------------------
(* What the repository says and the code does not do *)

(* ticket_store.go:11 makes the ticket store responsible for the local     *)
(* persistence of issue numbers and tickets: when the process ends, the    *)
(* tickets clients hold are on disk.                                       *)
TicketsPersist ==
  ~up => \A r \in Request :
           reply[r] = "ok" => ticketFile # Torn /\ r \in ticketFile
=============================================================================
