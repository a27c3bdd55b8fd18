# Verification of els-feedback-proxy

The service is one Go process that sits between an app's users, GitHub, a moderation model,
optionally Redis, and a directory of files. It takes feedback and comments and posts them on
GitHub, runs anonymous surveys, publishes announcements and files, and replaces its own binary.
Every request runs in its own goroutine, every component protects its own state with its own lock,
and nothing spans two components. The hard part is therefore what happens *between* steps:
a request suspended on GitHub while others change what it has read, a write that fails after
memory changed, a process that ends between two steps and starts again on the files it left, a
cache that holds what is no longer so.

These modules model that behaviour, TLC checks them on small instances, and TLAPS proves every
invariant and action property of the passing runs for every value of the constants.

## 1. Inventory

| Component (source) | State | Operations | Talks to |
|---|---|---|---|
| Challenge manager (`security/challenge.go`) | challenges by id, blocked addresses | Issue, VerifySubmission, sweep | called by every posting endpoint |
| Duplicate detectors (`security/dedupe.go`, `redis_dedupe.go`) | keys with an expiry, in memory and on Redis | SeenRecently | Redis |
| Rate limiters (`security/ratelimit.go`, `redis_limiter.go`) | a window and a count per key | Allow | Redis |
| Moderation (`moderation/openai_reviewer.go`) | none | Review with retries, parsing of the verdict | an OpenAI-compatible service |
| GitHub client (`github/client.go`) | none | CreateIssue, CreateIssueComment, GetIssueStatus | GitHub |
| Issue submission (`api/server.go`, handleCreateIssue) | none of its own | the chain from challenge to ticket | all of the above, archive, tickets |
| Comments and status (`api/server.go`, `issue_status_cache.go`) | status entries with an expiry | handleCreateIssueComment, handleGetIssueStatus | challenge, duplicates, moderation, archive, GitHub |
| Ticket store (`store/ticket_store.go`) | tickets in memory, one file written in place | Set, Validate, load | – |
| Blocked archive (`store/blocked_archive_store.go`) | one file per withheld text | SaveMarkdown | – |
| Survey store (`store/survey_store.go`) | surveys and answers, two files replaced by rename | Create, Update, Delete, Submit, Results, lists, load | the results page |
| Distribution store (`store/distribution_store.go`) | entries, a manifest, files named by SHA-256 | Create, Update, Delete, PublicFile, load | – |
| Announcement store (`store/announcement_store.go`) | announcements, one file replaced by rename | Create, Update, Delete, lists, load | edge cache and clients, by ETag |
| Self-update (`api/self_update.go`, `github_webhook.go`) | job status, state file, the binary | start, run, install, restart, webhook | GitHub releases, systemd |
| Admin (`api/admin_ui.go`) | stateless signed session cookies | login, page session, requireAdmin, logout | rate limiter |
| Start (`cmd/server/main.go`) | – | loads every store; any failure ends the process | all stores |

Further parts hold no state that matters here: rendering and request types, configuration, the
admin command line (one HTTP request per command) and the web pages other than the survey results.
`PROJECT.json` lists them.

What makes each component correct, and what is hard about it:

- **Challenge**: a challenge pays once, in time, for the address it was issued to; failures lead to
  a block at exactly the threshold; a block holds for its duration, as long as the process lives. Hard:
  long interleavings of several clients, the boundaries of three durations, and a state that is in memory only.
- **Survey store**: definitions with answers never change; memory and files agree; the pair of files
  always loads; the results page adds up. Hard: two files, failing writes and a crash at any point,
  definitions replaced and surveys stopped and started before and after an answer.
- **Submission**: nothing is published that moderation did not let through, nothing is withheld
  without being archived, tickets given out work, duplicates are refused. Hard: seven fallible steps
  that touch four places, concurrently, with restarts.
- **Issue thread**: an answer is older than the cache's lifetime only by the time that its query took after
  reading the comments, and stale after a removal only by a race. Hard: read, write and removal of the entry
  exclude nothing, and a query goes on asking GitHub between what it reads and what it stores.
- **Distribution store**: the manifest never names a missing file, a listed file stays, and what is accepted
  loads again. Hard: files are shared between entries; removal, saving and downloading are separate steps; and
  the start checks again what the upload made of a name.
- **Rate limiters**: no stretch as long as a window lets twice the limit through one store, and only
  what was sent within the last window can have somebody turned down. Hard: the boundary of two windows, the
  sweep, and a Redis whose late or repeated answers count more than once.
- **Announcements**: files as for the surveys; no client uses a list older than the headers allow.
  Hard: two caches that renew what they hold by ETag, while the list changes and changes back.
- **Self-update**: one job at a time; the executable is whole, replaced ones are kept (unless two backups fall in
  one second), the record says what is installed, and a job always ends. Hard: crash and failure around
  replacement and restart.
- **Admin**: whoever is served shows the token or a session that was earned. Hard: the server keeps no
  sessions, copies of cookies outlive restarts and logouts, and tokens change.

The hazards, each at its line and with the properties that cover it, are listed in `PROJECT.json`.

## 2. Modules

| Module | What it is |
|---|---|
| `Challenge` | ChallengeManager; `MCChallenge` is its instance, `ChallengeProofs` its theorems |
| `SurveyData` | the data of surveys: constants, well-formed definitions, what the two files must satisfy |
| `SurveyLedger` | what the survey store promises: surveys and answers that change in one step or not at all |
| `SurveyStore` | the store: memory, two files, failing writes, crashes; implements `SurveyLedger`; `SurveyStoreProofs` |
| `ContentRules` | normalising and validating of announcements, survey definitions and answers, as operators; theorems about them in `SurveyStoreProofs` |
| `SurveyResults` | `SurveyStore`, its surveys and answers judged by an instance of `ContentRules`, seen through Results and the administrators' page; `MCSurveyStore`, `SurveyStoreProofs` |
| `Submission` | handleCreateIssue with duplicates, moderation, archive, GitHub, tickets; `MCSubmission`, `SubmissionProofs` |
| `IssueThread` | comments and status queries over the status cache; `MCIssueThread`, `IssueThreadProofs` |
| `DistributionStore` | manifest, shared files, downloads; `MCDistributionStore`, `DistributionStoreProofs` |
| `AnnouncementStore` | announcements in memory and in their file |
| `AnnouncementFeed` | the public list on its way through the edge's cache and the client's; `MCAnnouncementFeed` (contents from `ContentRules`), `AnnouncementFeedProofs` |
| `RateLimiter` | both limiters' windows and the fallback; `MCRateLimiter`, theorems in `AdminAccessProofs` |
| `AdminAccess` | extends `RateLimiter` by the login behind it, session cookies, requireAdmin; `MCAdminAccess`, `AdminAccessProofs` |
| `SelfUpdate` | requests, webhooks and the job up to the restart; `MCSelfUpdate`, `SelfUpdateProofs` |

**How state and actions correspond to the code.** Variables are the fields of the Go structs
(`records`, `blockedClientIP`, `tickets`, `inProgress`), the files, and for requests and jobs the place
they have reached (`stage`, `asking`, `download`, `step`). A method that holds its lock from start to end
and does nothing a crash could cut is one action (`Issue`, `Verify`, `Allow`). A method that
writes a file is cut at the points where the process may die: the check and the change of memory, then
the write that succeeds or fails, then what follows it. A handler is cut at each call that leaves
the process. Early returns that change nothing have no action; those a client sees in a way a
property depends on are answers (`duplicate`, `githubFailed`, ...). Definitions commented with
"mutant" are deliberate mistakes, used by nothing, which show that each property notices one.

**History variables** (`issuedAt`, `redeemed`, `failures`, `penalisedAt`, `forgotten`; `recent`, `admittedBy`;
`crossed`; `withdrawn`; `replaced`, `unrecorded`; `called`, `passed`; `proved`, `openedAt`; the field
`outdated` of a cached copy) record what the code does not keep but properties speak of. No guard reads them, except
that `issuedAt` keeps challenge identifiers unique. Those of the limiter hold the times of a key's last calls, the
latest first: the last `Limit` of all (what memory judged, and every run of the Redis script), and
the last `2 * Limit` that a store let through, so that both its bounds speak of one entry. What is older than a
window is forgotten, which changes neither bound; what the memory of a process that ended let through is forgotten
too, so that memory's bound is one for each life of the process. `forgotten` holds the clients whose penalty a restart
has lost; `replaced` the executables that were replaced, each with the second of its backup, less those whose backup
a later one of the same second was written over. `waited`, in `IssueThread`, is how long a query has taken since it
read the comments; `MaxWait` bounds it.

**Abstractions.** Secrets, digests and tokens are identities; an attempt carries the verdict its
proof and signature would get, a session's signature is the token it was made with, a downloaded
archive is the published one or not. A browser may show any cookie that was ever handed out, or none, so that
logging out, which changes nothing on the server, needs no action. Of a file's name there is what sanitising looks
at: a part before the last backslash or slash, and a space before the last part. Definitions, answers and file contents are atoms in the
stores; `ContentRules` says which are valid, over texts that are atoms with constants for trimming,
lower case and numbers. Time is a clock of few ticks (`Challenge`, `RateLimiter`, `AdminAccess`, `SelfUpdate`), the
age of entries and copies (`IssueThread`, `AnnouncementFeed`) or an event that ends a window
(`Submission`). A write that ends in a rename is atomic; `os.WriteFile` is not, and leaves `Torn` when
cut. A completed rename is taken as durable: losing power, as opposed to losing the process, is outside.

## 3. What TLC checks

Every passing run explores its instance completely.

| Run | Instance | Shows |
|---|---|---|
| `challenge` | 2 challenges, 2 clients, threshold 2, TTL 3, block 2, 6 instants, any restarts; identities symmetric | SingleUse, FailureBudget, BlockServedInFull, RedeemedInTime, BlockedClientsWait, SweptByEveryCall |
| `survey_store` | 3 survey keys of which 2 at a time, 3 answer keys of which 2; four definitions, two of them valid, eleven answers as they could be sent | StartNeverRefused, MemoryIsDurable, ResultsAddUp, AnsweredSurveysFrozen, ImplementsLedger |
| `submission` | 2 submissions of one text, 2 review attempts, Redis and its fallback | FailClosed, WithheldTextsAreKept, AnsweredTicketsWork, TicketsHaveIssues, TwinsNeedAnOutage, EverySubmissionEnds |
| `submission_tickets` | as above, 1 review attempt | TicketsPersist does **not** hold (finding 1) |
| `issue_thread` | 2 comments, 1 developer's message, 2 queries, TTL 2, up to 1 tick between reading and storing; comments and queries symmetric | WithheldCommentsAreKept, StaleOnlyByCrossing, AnswersAreRecent |
| `distribution_store` | 2 entries, 2 contents, 4 kinds of names, 1 download | OnlyNamesRefuseAStart, MemoryIsDurable, FilesStayWhileListed |
| `distribution_names` | the same | AcceptedNamesLoad does **not** hold (finding 3) |
| `self_update` | 3 releases, one a prerelease; 2 jobs; 2 download attempts; 2 seconds | BinaryIsWhole, ReplacedBinariesAreKept, RecordFollowsBinary, EveryJobEnds |
| `self_update_effect` | the same in one second | UpdateTakesEffect does **not** hold (finding 2) |
| `rate_limiter` | 2 keys, symmetric; limit 2, window 2, 4 ticks, Redis counts to 3 | BudgetHolds, RefusedOnlyAtLimit |
| `admin_access` | 2 tokens, symmetric; sessions of 2 ticks, one address with limit 1 and window 1, Redis counts to 2, clock to 3 | SessionsAreEarned |
| `announcement_feed` | 2 keys, symmetric, of which 1 at a time; two valid contents, one also typed untidily, one invalid; ages 2, 1 and 2 | MemoryIsDurable, SeenIsRecent |

Each passing run also checks its module's type invariant, except `admin_access`, whose types are a theorem
(`AccessTypeCorrect`).

**Why the bounds are enough.** Two challenges of one client are the least for a block that catches a
challenge other than its cause, two clients for one used from the wrong address; the clock runs
past an expiry and past the end of a block, and a restart may come at any of its instants. One survey can be changed while another is answered,
and each limit is reached with a key to spare; among the definitions and answers there is one for each
rule that can turn it down, and an answer that fits each survey only, or both. Two submissions
interleave at every step; the second may be concurrent, a retry, or come after the window; duplicate
checks, the archive lock and the ticket lock involve two parties at a time. One query crosses a removal
and another finds what it stored; TTL 2 tells fresh, ageing and expired apart, and a query that waits
a tick stores what is older than its entry. Two entries can share a content or not, and a replacement can go to a
new, a shared or the same content; every combination of what sanitising tells apart in a name is uploaded. Of three releases one
runs, one is installed and one is asked for; two jobs are the least that could overlap, and two seconds the least
in which backups can have one name or two. A limiter's clock
sees two whole windows and the sweep of an old one, and one key opens a window while the other's is over.
A session can outlive a window of the limiter and ends before the clock does, and a token can change
and change back. An announcement can be replaced and put back while a copy of either cache is old.

**Named bounds.** `MaxTime` bounds the clocks of `Challenge`, `RateLimiter` and `AdminAccess`, `MaxSecond` that of
`SelfUpdate`, `MaxWait` the time that the timeline's calls take (ten pages and a call per event, 15 s each, without
a common deadline), `MaxCount` a counter on Redis (which the code lets grow past the limit); `MaxSurveys`, `MaxResponses`,
`MaxRecords`, `MaxQuestions` and `MaxOptions` are the code's own limits, made small; `MaxRetries` is
`MODERATION_MAX_RETRIES`, `MaxAttempts` is `selfUpdateMaxAttempts`. Ages stop at `TTL` and `Oldest`, past
which the code does not tell them apart. Each of `Request`, `Comment`, `Query` and `Download` is one
request, and a retry is another member; a `Job` may run again.

**Fairness and why the code justifies it.** `EverySubmissionEnds` assumes that a submission under
way keeps going: the GitHub client gives up after 15 s (`client.go:29`), each review attempt after
`MODERATION_TIMEOUT_SECONDS`, and local writes end. `EveryJobEnds` assumes the same of an update job:
its requests end with the HTTP client's timeout and all of them with `selfUpdateJobTimeout`, which its
context carries (`self_update.go:233`). Only these steps are fair: a crash, a start, a new
request, an answer of systemd or the end of a window is never assumed.

**Deadlock** is checked except where the system really stops: in `MCSubmission`, when all submissions are done and
the ticket file is torn, and in `MCDistributionStore`, after a crash that leaves a name which the start refuses, the
process cannot run again.

### Findings

1. **The ticket file is not replaced atomically** (`ticket_store.go:89`). `os.WriteFile` empties the
   file before writing. A process that ends in between leaves a file that does not parse: all tickets
   are lost and every later start fails in `main.go:86-89`. The comment at `ticket_store.go:11` gives the
   store the local persistence of tickets; its siblings write a temporary file and rename it.
   `AnsweredTicketsWork` holds all the same: whenever the service does run, tickets work.
2. **An update that is answered well may install nothing** (`self_update.go:265`). "Already current" is
   judged by the version that runs, or the recorded one, not by what is installed. After an update and
   before the restart (or for good, when the restart command fails, which nobody sees), a request to go back to the
   release that still runs ends with `already_current`, and the next start runs the other one;
   `README.md:20` says that the release of the tag is downloaded and replaces the binary.
3. **An upload's name may keep the service from starting** (`distribution_store.go:444`). The name is trimmed before
   the directories are taken off, so ``dir\ name.json`` is stored as `` name.json``; the start sanitises it again,
   finds another name, refuses the manifest and ends in `log.Fatalf`. Nor can the file be downloaded before that, as
   `PublicFile` trims the name it is asked for. `distribution_store_test.go:28` uploads ``folder\provider.json``
   and starts again on what was stored. `OnlyNamesRefuseAStart` says that nothing else can make a start fail.

### What a restart forgets

Blocks, failure counts and outstanding challenges (`challenge.go:57`), and without Redis the duplicate window
(`dedupe.go:31`) and the limiters' windows (`ratelimit.go:16`), are in memory only, and the self-update restarts the
process as a matter of course. So `README.md:38`, which bans for ten minutes, and `README.md:39`, which answers a
repeated text with 409 for ten minutes, are kept only as long as the process lives. The modules have the restarts, and
the properties say what holds with them: `BlockServedInFull` and `BlockedClientsWait`, that nothing but a restart lifts a
block; `TwinsNeedAnOutage`, that twins pass only after a restart or when one was judged by Redis and the other by the
fallback; `BudgetHolds`, that Redis' budget goes on across restarts and memory's begins anew.

## 4. What is proved

Eight modules hold theorems; assumptions on constants are the named `ASSUME`s of the modules (durations are
natural numbers, thresholds are positive, `None` is no entry, sets of keys are finite where they are
counted, ...), which TLC evaluates in the runs. Each has one inductive invariant (`IInv`, in
`AnnouncementFeedProofs` `FeedInv`, for the limiter `LimiterInv`), one lemma per action, and one theorem per property. The properties are
hardly ever inductive alone; what the invariants add is:

- **Challenge** (`TypeCorrect`, `ChallengesAreSingleUse`, `FailuresStayInBudget`, `BlocksAreServedInFull`,
  `RedemptionIsInTime`, `BlocksHold`, `CallsSweep`): an outstanding challenge has paid for nothing, its count is the
  failures it was tried with, its expiry and issue fit together; a client's block in the
  table is the one that was imposed, or has run out, or was lost in a restart. That a call leaves nothing expired behind needs no invariant
  but the types: the sweep is part of every call, and what it adds lasts beyond it.
- **Survey store** (`TypeCorrect`, `FilesAlwaysLoad`, `MemoryAlwaysDurable`, `StoreImplementsLedger`,
  `AnsweredSurveysStayFrozen`): what files and memory are at each stage of an operation, equal when idle,
  differing by exactly the pending change while saving, with `undo` equal to the files. The refinement maps a
  successful write to the ledger's step and everything else to a stutter.
- **Survey results** (`PageAddsUp`): between operations every stored answer fits the definition that is stored
  *now* (that is `FilesAlwaysLoad`, and why definitions with answers are frozen), and `ContentRules` says what
  fitting means: one answer to a question, under a question there is, with options that are distinct. From it
  follow the three parts, that nothing is hidden, nobody skips what is required and bars do not overlap.
- **Content rules** (`NothingSelectedIsLost`, `NormalisingIsFinal`): the places of the texts that are kept are
  numbered without a gap (an injection into as many numbers is onto), so each selected identifier is kept
  exactly once; what was normalised is left as it is by the next start, which is what `AnnouncementStore`
  assumes of `Tidy`. `Trim` and `Lower` are any functions that do nothing twice and no harm to each other
  (`TextsAreStrings`), as Go's are. `Distinct` numbers what it keeps rather than folding over the texts, because
  what a fold computes is proved by induction over data.
- **Submission** (`TypeCorrect`, `NothingUnreviewedIsPublished`, `WithheldTextsStay`, `TicketsWork`,
  `TicketsBelongToIssues`, `TwinsMeanAnOutage`): nothing is on GitHub before the handler posts, and what it is
  about to post was let through or is on disk; a ticket given out, or about to be, is in memory and in every
  file that parses; whoever was admitted within the window is on record with the store that admitted him,
  unless a restart lost the record.
- **Issue thread** (`TypeCorrect`, `WithheldTextsAreKept`, `StaleEntriesCrossed`, `RecentAnswers`): every view
  that was read, stored or not, holds the comments whose removal its query did not cross, and lacks only
  messages that are no older than the view, which is as old as its entry and the wait of the query that read it.
- **Distribution store** (`TypeCorrect`, `FilesAreAlwaysThere`, `MemoryAlwaysDurable`, `ListedFilesStay`): the
  files of memory *and* manifest are there at every step; memory is ahead of the manifest only between the
  change and the save; a download under way has an entry in the manifest, or saw the last one go.
- **Announcements** (`TypeCorrect`, `AnnouncementsSurvive`, `ClientsAreRecent`): the three maps are such that
  a start accepts them and leaves them as they are; the edge's copy went out of date after it was fetched,
  and the client's at most the edge's whole age before it was.
- **Rate limiters** (`LimiterTypeCorrect`, `BudgetAlwaysHolds`, `RefusalsNeedTheLimit`): of a window that counts
  `n` calls (at most `Limit` of them matter), the `n`-th latest that its store let through came no later than
  the window opened, and the one `Limit` before that a whole window earlier, because the window before was over
  by then; while it lasts, the `n` latest of all sends came since it opened. So the entry `2 * Limit` back is
  always a window old, and a refusal finds `Limit` sends in the last window. The memory's windows and the
  counters of Redis, which count refused, late and repeated calls too, satisfy the same statement. Across restarts
  Redis' bound goes on and memory's begins anew.
- **Admin access** (`AccessTypeCorrect`, `OnlyEarnedSessionsAreServed`, `LoginsAreLimiterCalls`,
  `GuessesAreLimited`): to the limiter the admin interface is a client like any other, which is a refinement, so
  the limiter's bound is one on the guesses at the password that a store judges: Redis across restarts, memory in each
  life of the process. As to sessions, every cookie that was handed out was given for the password proved with its
  token, or while the pages stood open, and ends within a session's length of it.
- **Self-update** (`TypeCorrect`, `AlwaysStartable`, `EveryBinaryIsKept`, `RecordIsTrue`): there is at most one
  job; before it replaces the executable, the file of the second it took its copy in holds a complete copy of it, and
  the wanted release is beside it; of the executables replaced earlier, those whose second no later backup had are
  still in theirs.

**Only model-checked**: liveness (`EverySubmissionEnds`, `EveryJobEnds`), since liveness under fairness and `ENABLED`
are out of the prover's reach, and that the three properties of the findings do not hold. Induction over data and
`RECURSIVE` operators are out of its reach as well; no property needs them, after the limiter's history became the times of
its calls instead of counts per tick, and `Distinct` a numbering instead of a fold.

## 5. Plan

The plan of the first version is carried out for every component with state of its own: the challenge manager,
the stores, the two request chains, the limiters, the updater and the admin interface are modelled and have
proofs. What could follow, in this order:

1. A composition of the survey endpoint: challenge, limiter, duplicate check and `SurveyStore`, with a
   respondent who repeats an answer whose save failed. It waits for the repository to say what is promised there.
2. Atomic specifications of the announcement and distribution stores, as `SurveyLedger` is one, and that the
   stores implement them.
3. `hasLeadingZeroBits`, the status of an issue from labels and timeline, and the extraction of a verdict
   from the model's text, as operators against reference definitions.

## 6. Not modelled

- Wire formats, rendering and wording; HMAC, SHA-256 and the randomness of identifiers; the bit test of the proof of
  work; configuration parsing; the admin command line and the browser pages apart from the survey results.
- GitHub's paging (at most ten pages of comments are read) and the mapping of labels and timeline to a status;
  how a verdict is found in the text of the moderation model: an unreadable one is a failed attempt.
- The survey endpoints' own chain, which is that of `Submission` without its suspensions. Nothing
  promises that an answer whose save failed can be repeated at once; the duplicate window refuses it.
- The loss of a completed rename by power failure, and of Redis' data; `stale-if-error` of the announcement
  headers, which speaks of an origin that does not answer; a release webhook that comes while an update
  runs and is answered as ignored.
- The clock of the machine being set back, which could also give two backups one name.
- Nothing promises that only true duplicates are refused: when the answer to a SETNX is lost, go-redis sends it
  again, and a first submission is refused as its own duplicate. `Submission` has this step, and no property is
  about it.
- Reads that change nothing (`List`, `PublicList`, `Validate`) have no actions; properties state what they return.

A remark: `README.md:30` lists a limit of 60 queries per address, and `handleGetIssueStatus` has none; a test
expects it so, and no property is about it.
