--------------------------- MODULE SubmissionProofs ---------------------------
(***************************************************************************)
(* What the service promises of a submission, however requests interleave, *)
(* whatever fails and wherever the process dies: for any requests, texts   *)
(* and number of retries, with Redis or without.                           *)
(***************************************************************************)
EXTENDS Submission, TLAPS

\* Nothing is on GitHub before the handler posts, and it posts a text that was
\* let through, or a placeholder for one that is on disk.
HandlersInOrder ==
  \A r \in Request :
    /\ stage[r] = "idle" => attempts[r] = 0
    /\ stage[r] = "review" => attempts[r] < MaxRetries
    /\ stage[r] \in {"idle", "review", "archive", "archiving", "post"} =>
         issue[r] = "none"
    /\ stage[r] = "post" /\ verdict[r] # "allow" => archive[r] = "whole"
    /\ stage[r] \in {"ticket", "writing", "answer"} => issue[r] # "none"

\* A ticket the client has, or is about to get.
GivenOut(r) == stage[r] = "answer" \/ reply[r] = "ok"

\* Such a ticket is in memory while the process runs, and in every ticket file
\* that can be read.
TicketsInOrder ==
  /\ ~up => \A r \in Request : stage[r] \in {"idle", "done"}
  /\ \A r \in Request :
       /\ stage[r] = "writing" => r \in tickets
       /\ GivenOut(r) /\ up => r \in tickets
       /\ GivenOut(r) /\ ticketFile # Torn => r \in ticketFile

\* Who was admitted within the window is on record where this was decided,
\* unless the record is lost.
WindowInOrder ==
  \A r \in recent :
    /\ admittedBy[r] # "nobody"
    /\ \A s \in Store : admittedBy[r] = s => r \in records[s]

IInv ==
  /\ TypeOK
  /\ HandlersInOrder
  /\ FailClosed
  /\ WithheldTextsAreKept
  /\ TicketsInOrder
  /\ TicketsHaveIssues
  /\ WindowInOrder
  /\ TwinsNeedAnOutage

\* The parts that speak of the handlers, the archive and GitHub; of the
\* tickets; and of the window.
Published == HandlersInOrder /\ FailClosed /\ WithheldTextsAreKept
Ticketed == TicketsInOrder /\ TicketsHaveIssues
Windowed == WindowInOrder /\ TwinsNeedAnOutage

LEMMA Parts == IInv <=> TypeOK /\ Published /\ Ticketed /\ Windowed
BY DEF IInv, Published, Ticketed, Windowed

-----------------------------------------------------------------------------
(* The duplicate window *)

LEMMA WindowUnchanged ==
  ASSUME Windowed, UNCHANGED window
  PROVE  Windowed'
BY DEF Windowed, window, WindowInOrder, TwinsNeedAnOutage

\* A store admits nobody whose twin it has on record.
LEMMA AdmittingKeepsWindow ==
  ASSUME TypeOK, Windowed, NEW r \in Request, NEW s \in Store,
         ~Seen(s, r), recent' = recent \cup {r},
         admittedBy' = [admittedBy EXCEPT ![r] = s],
         r \in records'[s],
         \A t \in Store : records[t] \subseteq records'[t]
  PROVE  Windowed'
<1>1. admittedBy'[r] = s /\ \A q \in Request : q # r => admittedBy'[q] = admittedBy[q]
  BY DEF TypeOK
<1>2. recent \subseteq Request
  BY DEF TypeOK
<1>3. WindowInOrder'
  <2> SUFFICES ASSUME NEW q \in recent \cup {r}
               PROVE  /\ admittedBy'[q] # "nobody"
                      /\ \A t \in Store : admittedBy'[q] = t => q \in records'[t]
    BY DEF WindowInOrder
  <2>1. CASE q = r
    BY <1>1, <2>1 DEF Store
  <2>2. CASE q # r
    BY <1>1, <1>2, <2>2 DEF Windowed, WindowInOrder
  <2> QED BY <2>1, <2>2
<1>4. \A q \in recent : ContentOf[q] = ContentOf[r] => admittedBy[q] # s
  BY DEF Windowed, WindowInOrder, Seen
<1>5. TwinsNeedAnOutage'
  <2> SUFFICES ASSUME NEW p \in recent \cup {r}, NEW q \in recent \cup {r}, p # q,
                      ContentOf[p] = ContentOf[q]
               PROVE  admittedBy'[p] # admittedBy'[q] \/ admittedBy'[p] = "forgotten"
    BY DEF TwinsNeedAnOutage
  <2>1. CASE p = r \/ q = r
    BY <1>1, <1>2, <1>4, <2>1
  <2>2. CASE p # r /\ q # r
    BY <1>1, <1>2, <2>2 DEF Windowed, TwinsNeedAnOutage
  <2> QED BY <2>1, <2>2
<1> QED BY <1>3, <1>5 DEF Windowed

\* A refusal, whatever was recorded for it.
LEMMA RefusalKeepsInvariant ==
  ASSUME IInv, NEW r \in Request, NEW before \in [Store -> SUBSET Request],
         \A t \in Store : records[t] \subseteq before[t],
         At(r, "idle"), Duplicate(r), records' = before,
         UNCHANGED <<up, progress, disk, issue, tickets>>
  PROVE  IInv'
<1>1. /\ up /\ stage[r] = "idle"
      /\ UNCHANGED <<up, attempts, verdict, archive, ticketFile, issue, tickets>>
  BY DEF At, progress, disk
<1>2. /\ stage' = [stage EXCEPT ![r] = "done"]
      /\ reply' = [reply EXCEPT ![r] = "duplicate"]
      /\ UNCHANGED <<recent, admittedBy>>
  BY DEF Duplicate, Finish
<1>3. TypeOK'
  BY <1>1, <1>2 DEF IInv, TypeOK, Stage, Reply
<1>4. Published'
  BY <1>1, <1>2 DEF IInv, TypeOK, Published, HandlersInOrder, FailClosed, WithheldTextsAreKept
<1>5. Ticketed'
  BY <1>1, <1>2 DEF IInv, TypeOK, Ticketed, TicketsInOrder, GivenOut, TicketsHaveIssues
<1>6. Windowed'
  BY <1>2 DEF IInv, Windowed, WindowInOrder, TwinsNeedAnOutage
<1> QED BY <1>3, <1>4, <1>5, <1>6, Parts DEF IInv, Published, Ticketed, Windowed

\* Both verdicts of a check, by store s, which may have been preceded by a
\* record in another.
LEMMA CheckKeepsInvariant ==
  ASSUME IInv, NEW r \in Request, NEW s \in Store, NEW before \in [Store -> SUBSET Request],
         \A t \in Store : records[t] \subseteq before[t],
         At(r, "idle"), CheckDuplicate(r, s, before),
         UNCHANGED <<up, progress, disk, issue, tickets>>
  PROVE  IInv'
<1>1. /\ up /\ stage[r] = "idle"
      /\ UNCHANGED <<up, attempts, verdict, archive, ticketFile, issue, tickets>>
  BY DEF At, progress, disk
<1>2. CASE Seen(s, r) /\ Duplicate(r) /\ records' = before
  BY <1>2, RefusalKeepsInvariant
<1>3. CASE ~Seen(s, r) /\ Admit(r, s) /\ records' = [before EXCEPT ![s] = @ \cup {r}]
  <2>1. /\ stage' = [stage EXCEPT ![r] = "review"] /\ reply' = reply
        /\ recent' = recent \cup {r}
        /\ admittedBy' = [admittedBy EXCEPT ![r] = s]
        /\ records' = [before EXCEPT ![s] = before[s] \cup {r}]
    BY <1>3 DEF Admit, Goto
  <2>2. TypeOK'
    <3>1. records' \in [Store -> SUBSET Request]
      BY <2>1
    <3>2. recent' \in SUBSET Request /\ admittedBy' \in [Request -> Store \cup {"nobody", "forgotten"}]
      BY <2>1 DEF IInv, TypeOK
    <3> QED BY <1>1, <2>1, <3>1, <3>2 DEF IInv, TypeOK, Stage
  <2>3. Published'
    BY <1>1, <2>1, RetriesAssumption
       DEF IInv, TypeOK, Published, HandlersInOrder, FailClosed, WithheldTextsAreKept
  <2>4. Ticketed'
    BY <1>1, <2>1 DEF IInv, TypeOK, Ticketed, TicketsInOrder, GivenOut, TicketsHaveIssues
  <2>5. Windowed'
    <3>1. r \in records'[s] /\ \A t \in Store : records[t] \subseteq records'[t]
      BY <2>1
    <3> QED BY <1>3, <2>1, <3>1, AdmittingKeepsWindow DEF IInv, Windowed
  <2> QED BY <2>2, <2>3, <2>4, <2>5, Parts DEF IInv, Published, Ticketed, Windowed
<1> QED BY <1>2, <1>3 DEF CheckDuplicate

LEMMA ChecksKeepInvariant ==
  ASSUME IInv, NEW r \in Request, CheckRedis(r) \/ CheckMemory(r)
  PROVE  IInv'
<1>1. records \in [Store -> SUBSET Request]
  BY DEF IInv, TypeOK
<1>2. /\ Recorded("redis", r) \in [Store -> SUBSET Request]
      /\ \A t \in Store : records[t] \subseteq Recorded("redis", r)[t]
  BY <1>1 DEF Recorded
<1>3. "memory" \in Store /\ "redis" \in Store
  BY DEF Store
<1>4. CASE CheckRedis(r)
  BY <1>1, <1>2, <1>3, <1>4, CheckKeepsInvariant, RefusalKeepsInvariant DEF CheckRedis
<1>5. CASE CheckMemory(r)
  BY <1>1, <1>2, <1>3, <1>5, CheckKeepsInvariant DEF CheckMemory
<1> QED BY <1>4, <1>5

LEMMA WindowEndsKeepsInvariant ==
  ASSUME IInv, NEW r \in Request, WindowEnds(r)
  PROVE  IInv'
<1>1. /\ records' = [s \in Store |-> records[s] \ {r}] /\ recent' = recent \ {r}
      /\ UNCHANGED <<up, stage, attempts, verdict, reply, admittedBy, archive,
                     ticketFile, issue, tickets>>
  BY DEF WindowEnds, progress, disk
<1>2. TypeOK'
  BY <1>1 DEF IInv, TypeOK
<1>3. Published' /\ Ticketed'
  BY <1>1 DEF IInv, Published, HandlersInOrder, FailClosed, WithheldTextsAreKept,
     Ticketed, TicketsInOrder, GivenOut, TicketsHaveIssues
<1>4. Windowed'
  BY <1>1 DEF IInv, Windowed, WindowInOrder, TwinsNeedAnOutage
<1> QED BY <1>2, <1>3, <1>4 DEF IInv, Published, Ticketed, Windowed

-----------------------------------------------------------------------------
(* Moderation, archive and GitHub *)

\* A handler moves on, or ends, without giving a ticket out.
Moves(r) ==
  \/ \E s \in Stage \ {"answer", "writing"} : Goto(r, s)
  \/ \E c \in Reply \ {"ok"} : Finish(r, c)

LEMMA MovesAreTyped ==
  ASSUME TypeOK, NEW r \in Request, Moves(r)
  PROVE  stage' \in [Request -> Stage] /\ reply' \in [Request -> Reply]
BY DEF TypeOK, Moves, Goto, Finish, Stage

LEMMA MovesKeepTickets ==
  ASSUME IInv, NEW r \in Request, up, Moves(r),
         UNCHANGED <<up, tickets, ticketFile>>,
         \A q \in Request : issue[q] # "none" => issue'[q] # "none"
  PROVE  Ticketed'
<1>1. \A q \in Request : GivenOut(q)' => GivenOut(q)
  BY DEF IInv, TypeOK, Moves, Goto, Finish, GivenOut
<1>2. \A q \in Request : stage'[q] = "writing" => stage[q] = "writing"
  BY DEF IInv, TypeOK, Moves, Goto, Finish
<1>3. TicketsInOrder'
  BY <1>1, <1>2 DEF IInv, TicketsInOrder
<1>4. TicketsHaveIssues'
  BY DEF IInv, TicketsHaveIssues
<1> QED BY <1>3, <1>4 DEF Ticketed

LEMMA ReviewKeepsInvariant ==
  ASSUME IInv, NEW r \in Request, Review(r)
  PROVE  IInv'
<1>1. /\ up /\ stage[r] = "review"
      /\ UNCHANGED <<up, window, archive, ticketFile, issue, tickets>>
  BY DEF Review, ReviewFails, ReviewDecides, At, disk
<1>2. ASSUME NEW v \in {"allow", "reject", "error"},
             verdict' = [verdict EXCEPT ![r] = v],
             Goto(r, IF Blocked(v) THEN "archive" ELSE "post"),
             attempts' \in [Request -> 0..MaxRetries],
             \A q \in Request : q # r => attempts'[q] = attempts[q]
      PROVE  IInv'
  <2>1. Moves(r)
    BY <1>2 DEF Moves, Stage
  <2>2. TypeOK'
    BY <1>1, <1>2, <2>1, MovesAreTyped DEF IInv, TypeOK, window
  <2>3. Published'
    BY <1>1, <1>2 DEF IInv, TypeOK, Goto, Blocked, Published, HandlersInOrder,
       FailClosed, WithheldTextsAreKept
  <2>4. Ticketed'
    BY <1>1, <2>1, MovesKeepTickets
  <2>5. Windowed'
    BY <1>1, WindowUnchanged DEF IInv, Windowed
  <2> QED BY <2>2, <2>3, <2>4, <2>5 DEF IInv, Published, Ticketed, Windowed
<1>3. CASE ReviewFails(r)
  <2>1. /\ attempts[r] \in 0..MaxRetries /\ attempts[r] < MaxRetries
        /\ attempts' = [attempts EXCEPT ![r] = attempts[r] + 1]
    BY <1>1, <1>3 DEF ReviewFails, IInv, TypeOK, HandlersInOrder
  <2>2. /\ attempts' \in [Request -> 0..MaxRetries]
        /\ attempts'[r] = attempts[r] + 1
        /\ \A q \in Request : q # r => attempts'[q] = attempts[q]
    BY <2>1, RetriesAssumption DEF IInv, TypeOK
  <2>3. CASE attempts[r] + 1 < MaxRetries
    <3>1. UNCHANGED <<verdict, stage, reply>>
      BY <1>3, <2>3 DEF ReviewFails
    <3>2. TypeOK'
      BY <1>1, <2>2, <3>1 DEF IInv, TypeOK, window
    <3>3. Published'
      BY <1>1, <2>2, <2>3, <3>1 DEF IInv, Published, HandlersInOrder, FailClosed,
         WithheldTextsAreKept
    <3>4. Ticketed'
      BY <1>1, <3>1 DEF IInv, Ticketed, TicketsInOrder, GivenOut, TicketsHaveIssues
    <3>5. Windowed'
      BY <1>1, WindowUnchanged DEF IInv, Windowed
    <3> QED BY <3>2, <3>3, <3>4, <3>5 DEF IInv, Published, Ticketed, Windowed
  <2>4. CASE ~(attempts[r] + 1 < MaxRetries)
    BY <1>2, <1>3, <2>2, <2>4 DEF ReviewFails
  <2> QED BY <2>3, <2>4
<1>4. ASSUME NEW v \in {"allow", "reject"}, ReviewDecides(r, v) PROVE IInv'
  BY <1>2, <1>4 DEF ReviewDecides, IInv, TypeOK
<1> QED BY <1>3, <1>4 DEF Review

LEMMA ArchiveKeepsInvariant ==
  ASSUME IInv, NEW r \in Request, Archive(r)
  PROVE  IInv'
<1>1. /\ up /\ stage[r] \in {"archive", "archiving"} /\ Moves(r)
      /\ UNCHANGED <<up, attempts, verdict, window, issue, tickets, ticketFile>>
  BY DEF Archive, ArchiveStarts, ArchiveSaved, ArchiveFails, At, Moves, Stage, Reply,
     progress, disk
<1>2. TypeOK'
  <2>1. archive' \in [Request -> {"none", "torn", "whole"}]
    BY DEF Archive, ArchiveStarts, ArchiveSaved, ArchiveFails, disk, IInv, TypeOK
  <2> QED BY <1>1, <2>1, MovesAreTyped DEF IInv, TypeOK, window
<1>3. Published'
  BY <1>1 DEF Archive, ArchiveStarts, ArchiveSaved, ArchiveFails, At, Goto, Finish,
     disk, IInv, TypeOK, Published, HandlersInOrder, FailClosed, WithheldTextsAreKept
<1>4. Ticketed'
  BY <1>1, MovesKeepTickets
<1>5. Windowed'
  BY <1>1, WindowUnchanged DEF IInv, Windowed
<1> QED BY <1>2, <1>3, <1>4, <1>5 DEF IInv, Published, Ticketed, Windowed

LEMMA PostKeepsInvariant ==
  ASSUME IInv, NEW r \in Request, Post(r)
  PROVE  IInv'
<1>1. /\ up /\ stage[r] = "post" /\ Moves(r)
      /\ UNCHANGED <<up, attempts, verdict, archive, window, tickets, ticketFile>>
  BY DEF Post, IssueCreated, IssueRefused, IssueAnswerLost, At, Moves, Stage, Reply,
     progress, disk
<1>2. issue' = [issue EXCEPT ![r] = Rendered(r)] \/ issue' = issue
  BY DEF Post, IssueCreated, IssueRefused, IssueAnswerLost
<1>3. /\ Rendered(r) \in {"original", "placeholder"}
      /\ Rendered(r) = "original" => verdict[r] = "allow"
      /\ Rendered(r) = "placeholder" => archive[r] = "whole"
  BY <1>1 DEF Rendered, Blocked, IInv, HandlersInOrder
<1>4. TypeOK'
  BY <1>1, <1>2, <1>3, MovesAreTyped DEF IInv, TypeOK, window
<1>5. FailClosed' /\ WithheldTextsAreKept'
  BY <1>1, <1>2, <1>3 DEF IInv, TypeOK, FailClosed, WithheldTextsAreKept
<1>6. HandlersInOrder'
  BY <1>1, <1>3 DEF Post, IssueCreated, IssueRefused, IssueAnswerLost, Goto, Finish,
     IInv, TypeOK, HandlersInOrder
<1>7. Ticketed'
  BY <1>1, <1>2, <1>3, MovesKeepTickets DEF IInv, TypeOK
<1>8. Windowed'
  BY <1>1, WindowUnchanged DEF IInv, Windowed
<1> QED BY <1>4, <1>5, <1>6, <1>7, <1>8 DEF IInv, Ticketed, Windowed

-----------------------------------------------------------------------------
(* Tickets and the answer *)

\* Steps after the issue has been created.
LEMMA PublishedStays ==
  ASSUME IInv, NEW r \in Request, stage[r] \in {"ticket", "writing", "answer"},
         NEW s \in {"writing", "answer", "done"}, stage' = [stage EXCEPT ![r] = s],
         UNCHANGED <<attempts, verdict, archive, issue>>
  PROVE  Published'
BY DEF IInv, TypeOK, Published, HandlersInOrder, FailClosed, WithheldTextsAreKept

LEMMA TicketStartsKeepsInvariant ==
  ASSUME IInv, NEW r \in Request, TicketStarts(r)
  PROVE  IInv'
<1>1. /\ up /\ stage[r] = "ticket"
      /\ tickets' = tickets \cup {r} /\ ticketFile' = Torn
      /\ stage' = [stage EXCEPT ![r] = "writing"]
      /\ UNCHANGED <<up, attempts, verdict, reply, window, archive, issue>>
  BY DEF TicketStarts, At, Goto, progress
<1>2. TypeOK'
  BY <1>1 DEF IInv, TypeOK, window, Stage
<1>3. Published'
  BY <1>1, PublishedStays
<1>4. TicketsInOrder'
  BY <1>1 DEF IInv, TypeOK, TicketsInOrder, GivenOut
<1>5. TicketsHaveIssues'
  BY <1>1 DEF IInv, HandlersInOrder, TicketsHaveIssues
<1>6. Windowed'
  BY <1>1, WindowUnchanged DEF IInv, Windowed
<1> QED BY <1>2, <1>3, <1>4, <1>5, <1>6 DEF IInv, Published, Windowed

LEMMA TicketWrittenKeepsInvariant ==
  ASSUME IInv, NEW r \in Request, TicketWritten(r)
  PROVE  IInv'
<1>1. /\ up /\ stage[r] = "writing" /\ ticketFile' = tickets
      /\ stage' = [stage EXCEPT ![r] = "answer"]
      /\ UNCHANGED <<up, attempts, verdict, reply, window, archive, issue, tickets>>
  BY DEF TicketWritten, TicketPayload, At, Goto, progress
<1>2. TypeOK'
  BY <1>1 DEF IInv, TypeOK, window, Stage
<1>3. Published'
  BY <1>1, PublishedStays
<1>4. TicketsInOrder'
  BY <1>1 DEF IInv, TypeOK, TicketsInOrder, GivenOut
<1>5. TicketsHaveIssues'
  BY <1>1 DEF IInv, TicketsHaveIssues
<1>6. Windowed'
  BY <1>1, WindowUnchanged DEF IInv, Windowed
<1> QED BY <1>2, <1>3, <1>4, <1>5, <1>6 DEF IInv, Published, Windowed

LEMMA TicketFailsKeepsInvariant ==
  ASSUME IInv, NEW r \in Request, TicketFails(r)
  PROVE  IInv'
<1>1. /\ up /\ stage[r] \in {"ticket", "writing"} /\ tickets' = tickets \cup {r}
      /\ stage' = [stage EXCEPT ![r] = "done"]
      /\ reply' = [reply EXCEPT ![r] = "ticketFailed"]
      /\ UNCHANGED <<up, attempts, verdict, window, archive, ticketFile, issue>>
  BY DEF TicketFails, At, Finish, progress, disk
<1>2. TypeOK'
  BY <1>1 DEF IInv, TypeOK, window, Stage, Reply
<1>3. Published'
  BY <1>1, PublishedStays
<1>4. TicketsInOrder'
  BY <1>1 DEF IInv, TypeOK, TicketsInOrder, GivenOut
<1>5. TicketsHaveIssues'
  BY <1>1 DEF IInv, HandlersInOrder, TicketsHaveIssues
<1>6. Windowed'
  BY <1>1, WindowUnchanged DEF IInv, Windowed
<1> QED BY <1>2, <1>3, <1>4, <1>5, <1>6 DEF IInv, Published, Windowed

LEMMA AnswerKeepsInvariant ==
  ASSUME IInv, NEW r \in Request, Answer(r)
  PROVE  IInv'
<1>1. /\ up /\ stage[r] = "answer"
      /\ stage' = [stage EXCEPT ![r] = "done"] /\ reply' = [reply EXCEPT ![r] = "ok"]
      /\ UNCHANGED <<up, attempts, verdict, window, archive, ticketFile, issue, tickets>>
  BY DEF Answer, At, Finish, progress, disk
<1>2. TypeOK'
  BY <1>1 DEF IInv, TypeOK, window, Stage, Reply
<1>3. Published'
  BY <1>1, PublishedStays
<1>4. TicketsInOrder'
  BY <1>1 DEF IInv, TypeOK, TicketsInOrder, GivenOut
<1>5. TicketsHaveIssues'
  BY <1>1 DEF IInv, TicketsHaveIssues
<1>6. Windowed'
  BY <1>1, WindowUnchanged DEF IInv, Windowed
<1> QED BY <1>2, <1>3, <1>4, <1>5, <1>6 DEF IInv, Published, Windowed

-----------------------------------------------------------------------------
(* The process *)

LEMMA CrashKeepsInvariant ==
  ASSUME IInv, Crash
  PROVE  IInv'
<1>1. /\ ~up' /\ tickets' = {}
      /\ \A r \in Request :
           /\ stage'[r] = IF stage[r] = "idle" THEN "idle" ELSE "done"
           /\ reply'[r] = "ok" => reply[r] = "ok"
      /\ UNCHANGED <<recent, attempts, verdict, archive, ticketFile, issue>>
  BY DEF Crash, progress, disk
<1>2. /\ records' = [records EXCEPT !["memory"] = {}]
      /\ \A r \in Request :
           admittedBy'[r] = IF admittedBy[r] = "memory" THEN "forgotten" ELSE admittedBy[r]
  BY DEF Crash
<1>3. TypeOK'
  <2>1. stage' \in [Request -> Stage] /\ reply' \in [Request -> Reply]
    BY DEF Crash, IInv, TypeOK, Stage, Reply
  <2>2. records' \in [Store -> SUBSET Request]
    BY <1>2 DEF IInv, TypeOK
  <2>3. admittedBy' \in [Request -> Store \cup {"nobody", "forgotten"}]
    BY DEF Crash, IInv, TypeOK
  <2> QED BY <1>1, <2>1, <2>2, <2>3 DEF IInv, TypeOK, Crash
<1>4. Published'
  BY <1>1 DEF IInv, Published, HandlersInOrder, FailClosed, WithheldTextsAreKept
<1>5. Ticketed'
  BY <1>1 DEF IInv, Ticketed, TicketsInOrder, GivenOut, TicketsHaveIssues
<1>6. recent \subseteq Request
  BY DEF IInv, TypeOK
<1>7. WindowInOrder'
  BY <1>1, <1>2, <1>6 DEF IInv, TypeOK, WindowInOrder, Store
<1>8. TwinsNeedAnOutage'
  BY <1>1, <1>2, <1>6 DEF IInv, TwinsNeedAnOutage
<1> QED BY <1>3, <1>4, <1>5, <1>7, <1>8 DEF IInv, Published, Ticketed

LEMMA StartKeepsInvariant ==
  ASSUME IInv, Start
  PROVE  IInv'
<1>1. /\ ~up /\ up' /\ ticketFile # Torn /\ tickets' = ticketFile
      /\ UNCHANGED <<stage, attempts, verdict, reply, window, archive, ticketFile, issue>>
  BY DEF Start, Loadable, progress, disk
<1>2. TypeOK'
  BY <1>1 DEF IInv, TypeOK, window, Start
<1>3. Published'
  BY <1>1 DEF IInv, Published, HandlersInOrder, FailClosed, WithheldTextsAreKept
<1>4. Ticketed'
  BY <1>1 DEF IInv, Ticketed, TicketsInOrder, GivenOut, TicketsHaveIssues
<1>5. Windowed'
  BY <1>1, WindowUnchanged DEF IInv, Windowed
<1> QED BY <1>2, <1>3, <1>4, <1>5 DEF IInv, Published, Ticketed, Windowed

-----------------------------------------------------------------------------

LEMMA InitEstablishesInvariant == Init => IInv
<1> SUFFICES ASSUME Init PROVE IInv
  OBVIOUS
<1>1. TypeOK
  BY RetriesAssumption DEF Init, TypeOK, Stage, Reply
<1>2. Published /\ Ticketed
  BY RetriesAssumption DEF Init, Published, HandlersInOrder, FailClosed,
     WithheldTextsAreKept, Ticketed, TicketsInOrder, GivenOut, TicketsHaveIssues
<1>3. Windowed
  BY DEF Init, Windowed, WindowInOrder, TwinsNeedAnOutage
<1> QED BY <1>1, <1>2, <1>3, Parts

LEMMA StepKeepsInvariant == IInv /\ [Next]_vars => IInv'
<1> SUFFICES ASSUME IInv, [Next]_vars PROVE IInv'
  OBVIOUS
<1>1. ASSUME NEW r \in Request, Step(r) PROVE IInv'
  BY <1>1, ReviewKeepsInvariant, ArchiveKeepsInvariant, PostKeepsInvariant,
     TicketStartsKeepsInvariant, TicketWrittenKeepsInvariant,
     TicketFailsKeepsInvariant, AnswerKeepsInvariant DEF Step, SaveTicket
<1>2. CASE UNCHANGED vars
  BY <1>2 DEF IInv, TypeOK, HandlersInOrder, FailClosed, WithheldTextsAreKept,
     TicketsInOrder, GivenOut, TicketsHaveIssues, WindowInOrder, TwinsNeedAnOutage, vars
<1> QED BY <1>1, <1>2, ChecksKeepInvariant, WindowEndsKeepsInvariant,
        CrashKeepsInvariant, StartKeepsInvariant DEF Next

LEMMA Invariance == Spec => []IInv
BY InitEstablishesInvariant, StepKeepsInvariant, PTL DEF Spec

-----------------------------------------------------------------------------

\* Every reachable state is well typed; no review is tried more often than the
\* configuration allows.
THEOREM TypeCorrect == Spec => []TypeOK
<1>1. IInv => TypeOK
  BY DEF IInv
<1> QED BY <1>1, Invariance, PTL

\* A text stands on GitHub only if the moderation let it through (server.go:299).
THEOREM NothingUnreviewedIsPublished == Spec => []FailClosed
<1>1. IInv => FailClosed
  BY DEF IInv
<1> QED BY <1>1, Invariance, PTL

\* Behind every placeholder lies the whole original (server.go:315-352).
THEOREM WithheldTextsStay == Spec => []WithheldTextsAreKept
<1>1. IInv => WithheldTextsAreKept
  BY DEF IInv
<1> QED BY <1>1, Invariance, PTL

\* Whenever the service runs, the tickets it gave out work
\* (ticket_store.go:40-60, 82-93).
THEOREM TicketsWork == Spec => []AnsweredTicketsWork
<1>1. IInv => AnsweredTicketsWork
  BY DEF IInv, TicketsInOrder, GivenOut, AnsweredTicketsWork
<1> QED BY <1>1, Invariance, PTL

\* A ticket, in memory or in the file, belongs to an issue that exists.
THEOREM TicketsBelongToIssues == Spec => []TicketsHaveIssues
<1>1. IInv => TicketsHaveIssues
  BY DEF IInv
<1> QED BY <1>1, Invariance, PTL

\* Twins are both admitted only if different stores judged them or a restart
\* emptied the memory in between (dedupe.go:19-39, redis_dedupe.go:30-47).
THEOREM TwinsMeanAnOutage == Spec => []TwinsNeedAnOutage
<1>1. IInv => TwinsNeedAnOutage
  BY DEF IInv
<1> QED BY <1>1, Invariance, PTL
=============================================================================
