------------------------------ MODULE IssueThread ------------------------------
(***************************************************************************)
(* The thread of one issue: clients comment on it through the proxy        *)
(* (handleCreateIssueComment), developers write on GitHub directly, and    *)
(* status queries (handleGetIssueStatus, loadIssueStatus) read it through  *)
(* a cache whose entries live one hour (issue_status_cache.go).            *)
(*                                                                         *)
(* A query looks the cache up, asks GitHub if it misses, and stores what it *)
(* got; a comment removes the entry.  None of this excludes the others, so *)
(* an entry can be stored after the removal that should have covered it.   *)
(*                                                                         *)
(* Time is a count of Ticks since an entry was stored or a message posted. *)
(* It passes between any two steps of a query: after the comments it still *)
(* fetches the timeline and its commits, and an entry's hour starts only   *)
(* when it is stored.  The requests start behind the ticket, signature and *)
(* rate checks.  Texts, titles, labels and the timeline's content are left *)
(* out.                                                                    *)
(***************************************************************************)
EXTENDS Naturals, FiniteSets

CONSTANTS
  Comment,   \* comments clients send
  Outside,   \* messages developers post on GitHub
  Query,     \* status queries
  TTL,       \* the cache's ttl, in Ticks
  MaxWait,   \* the most Ticks the timeline's calls take: ten pages and a
             \* thousand commits, each call ended by the client's 15 s
  None

Message == Comment \cup Outside

ASSUME TTLAssumption == TTL \in Nat \ {0}
ASSUME WaitAssumption == MaxWait \in Nat
ASSUME DisjointAssumption == Comment \cap Outside = {}

VARIABLES
  stage,     \* where each comment is in its handler
  verdict,   \* what its moderation came to
  archive,   \* the withheld text kept on disk
  thread,    \* what GitHub shows of each message
  age,       \* Ticks since a message was posted
  asking,    \* where each query is in its handler
  answer,    \* what it read, from the cache or from GitHub
  waited,    \* Ticks between its reading the comments and storing them
  cache,     \* the entry of this issue
  crossed    \* history: queries asking GitHub when a comment removed
             \* the entry, None before

posting == <<stage, verdict, archive, crossed>>
reading == <<asking, answer, waited>>
vars == <<stage, verdict, archive, thread, age, asking, answer, waited, cache, crossed>>

Posted == {m \in Message : thread[m] # "absent"}
Entry == [view : SUBSET Message, age : 0..TTL, by : Query]

TypeOK ==
  /\ stage \in [Comment -> {"idle", "review", "archive", "archiving", "post",
                            "remove", "answer", "answerFirst", "removeLast", "done"}]
  /\ verdict \in [Comment -> {"none", "allow", "reject", "error"}]
  /\ archive \in [Comment -> {"none", "torn", "whole"}]
  /\ thread \in [Message -> {"absent", "original", "placeholder"}]
  /\ age \in [Message -> 0 .. TTL + MaxWait]
  /\ asking \in [Query -> {"idle", "asking", "read", "answered", "failed"}]
  /\ answer \in [Query -> SUBSET Message]
  /\ waited \in [Query -> 0..MaxWait]
  /\ cache \in Entry \cup {None}
  /\ crossed \in [Comment -> (SUBSET Query) \cup {None}]

Init ==
  /\ stage = [k \in Comment |-> "idle"]
  /\ verdict = [k \in Comment |-> "none"]
  /\ archive = [k \in Comment |-> "none"]
  /\ thread = [m \in Message |-> "absent"]
  /\ age = [m \in Message |-> 0]
  /\ asking = [q \in Query |-> "idle"]
  /\ answer = [q \in Query |-> {}]
  /\ waited = [q \in Query |-> 0]
  /\ cache = None
  /\ crossed = [k \in Comment |-> None]

-----------------------------------------------------------------------------
(* Status queries *)

ExpiredLate == cache.age > TTL \* mutant: an entry is served at its last instant
Expired == cache.age >= TTL    \* !entry.expiresAt.After(now)
Cached == cache # None /\ ~Expired

Hit(q) ==
  /\ asking[q] = "idle"
  /\ Cached
  /\ asking' = [asking EXCEPT ![q] = "answered"]
  /\ answer' = [answer EXCEPT ![q] = cache.view]
  /\ UNCHANGED <<posting, thread, age, waited, cache>>

Miss(q) ==
  /\ asking[q] = "idle"
  /\ ~Cached
  /\ asking' = [asking EXCEPT ![q] = "asking"]
  /\ cache' = None
  /\ UNCHANGED <<posting, thread, age, answer, waited>>

\* GitHub answers the last comments call with what the thread holds now; the
\* timeline and its commits follow.
Read(q) ==
  /\ asking[q] = "asking"
  /\ asking' = [asking EXCEPT ![q] = "read"]
  /\ answer' = [answer EXCEPT ![q] = Posted]
  /\ UNCHANGED <<posting, thread, age, waited, cache>>

\* statusCache.Set: the hour starts here, however long ago the thread was read.
Store(q) ==
  /\ asking[q] = "read"
  /\ asking' = [asking EXCEPT ![q] = "answered"]
  /\ cache' = [view |-> answer[q], age |-> 0, by |-> q]
  /\ UNCHANGED <<posting, thread, age, answer, waited>>

\* What a query that ends without an answer had read is gone.
Forget(qs) ==
  /\ answer' = [q \in Query |-> IF q \in qs THEN {} ELSE answer[q]]
  /\ waited' = [q \in Query |-> IF q \in qs THEN 0 ELSE waited[q]]

FailureCached(q) == \* mutant: the empty result is stored as well
  /\ asking[q] \in {"asking", "read"}
  /\ asking' = [asking EXCEPT ![q] = "failed"]
  /\ cache' = [view |-> {None}, age |-> 0, by |-> q]
  /\ UNCHANGED <<posting, thread, age, answer, waited>>
\* GitHub fails or times out: 502, and the cache is left alone.
AskFails(q) ==
  /\ asking[q] \in {"asking", "read"}
  /\ asking' = [asking EXCEPT ![q] = "failed"]
  /\ Forget({q})
  /\ UNCHANGED <<posting, thread, age, cache>>

-----------------------------------------------------------------------------
(* Comments *)

Goto(k, s) == stage' = [stage EXCEPT ![k] = s]

RejectedOnly(v) == v = "reject" \* mutant: a failed review lets the text pass
Blocked(v) == v # "allow"

\* The issue is looked up on GitHub, past the cache, and the duplicate window
\* asked; either turns the comment down with nothing posted.
Consider(k) ==
  /\ stage[k] = "idle"
  /\ Goto(k, "review") \/ Goto(k, "done")
  /\ UNCHANGED <<verdict, archive, crossed, thread, age, reading, cache>>

Review(k, v) ==
  /\ stage[k] = "review"
  /\ verdict' = [verdict EXCEPT ![k] = v]
  /\ Goto(k, IF Blocked(v) THEN "archive" ELSE "post")
  /\ UNCHANGED <<archive, crossed, thread, age, reading, cache>>

ArchiveStarts(k) ==
  /\ stage[k] = "archive"
  /\ \A j \in Comment : stage[j] # "archiving"
  /\ archive' = [archive EXCEPT ![k] = "torn"]
  /\ Goto(k, "archiving")
  /\ UNCHANGED <<verdict, crossed, thread, age, reading, cache>>

ArchiveSaved(k) ==
  /\ stage[k] = "archiving"
  /\ archive' = [archive EXCEPT ![k] = "whole"]
  /\ Goto(k, "post")
  /\ UNCHANGED <<verdict, crossed, thread, age, reading, cache>>

ArchiveFails(k) ==
  /\ stage[k] \in {"archive", "archiving"}
  /\ Goto(k, "done")
  /\ UNCHANGED <<verdict, archive, crossed, thread, age, reading, cache>>

\* An allowed comment removes the entry before it is answered, a withheld one
\* after.
AfterPost(k) == IF Blocked(verdict[k]) THEN "answerFirst" ELSE "remove"

PostSucceeds(k) ==
  /\ stage[k] = "post"
  /\ thread' = [thread EXCEPT
       ![k] = IF Blocked(verdict[k]) THEN "placeholder" ELSE "original"]
  /\ Goto(k, AfterPost(k))
  /\ UNCHANGED <<verdict, archive, crossed, age, reading, cache>>

\* 502, with the comment on GitHub or not: the answer may be what was lost.
PostFails(k) ==
  /\ stage[k] = "post"
  /\ Goto(k, "done")
  /\ \/ UNCHANGED thread
     \/ thread' = [thread EXCEPT
          ![k] = IF Blocked(verdict[k]) THEN "placeholder" ELSE "original"]
  /\ UNCHANGED <<verdict, archive, crossed, age, reading, cache>>

\* statusCache.Delete
RemoveExpired == IF Cached THEN cache ELSE None \* mutant: only expired entries go
Removed == None

Remove(k) ==
  /\ stage[k] \in {"remove", "removeLast"}
  /\ cache' = Removed
  /\ crossed' = [crossed EXCEPT ![k] = {q \in Query : asking[q] \in {"asking", "read"}}]
  /\ Goto(k, IF stage[k] = "remove" THEN "answer" ELSE "done")
  /\ UNCHANGED <<verdict, archive, thread, age, reading>>

Answer(k) ==
  /\ stage[k] \in {"answer", "answerFirst"}
  /\ Goto(k, IF stage[k] = "answer" THEN "done" ELSE "removeLast")
  /\ UNCHANGED <<verdict, archive, crossed, thread, age, reading, cache>>

-----------------------------------------------------------------------------
(* GitHub, the clock and the process *)

DeveloperPosts(m) ==
  /\ thread[m] = "absent"
  /\ thread' = [thread EXCEPT ![m] = "original"]
  /\ UNCHANGED <<posting, age, reading, cache>>

\* Time passes, also while queries wait for the rest of GitHub's answers.
Older(n, cap) == IF n < cap THEN n + 1 ELSE n
Tick ==
  /\ \A q \in Query : asking[q] = "read" => waited[q] < MaxWait
  /\ waited' = [q \in Query |->
                  IF asking[q] = "read" THEN waited[q] + 1 ELSE waited[q]]
  /\ age' = [m \in Message |->
               IF m \in Posted THEN Older(age[m], TTL + MaxWait) ELSE 0]
  /\ cache' = IF cache = None THEN None ELSE [cache EXCEPT !.age = Older(@, TTL)]
  /\ UNCHANGED <<posting, thread, asking, answer>>

\* The process ends and is started again: requests under way are cut off.
Restart ==
  /\ stage' = [k \in Comment |-> IF stage[k] = "idle" THEN "idle" ELSE "done"]
  /\ LET cutOff == {q \in Query : asking[q] \in {"asking", "read"}} IN
       /\ asking' = [q \in Query |-> IF q \in cutOff THEN "failed" ELSE asking[q]]
       /\ Forget(cutOff)
  /\ cache' = None
  /\ UNCHANGED <<verdict, archive, crossed, thread, age>>

Ask(q) == Hit(q) \/ Miss(q) \/ Read(q) \/ Store(q) \/ AskFails(q)
Post(k) ==
  \/ Consider(k)
  \/ \E v \in {"allow", "reject", "error"} : Review(k, v)
  \/ ArchiveStarts(k) \/ ArchiveSaved(k) \/ ArchiveFails(k)
  \/ PostSucceeds(k) \/ PostFails(k)
  \/ Remove(k) \/ Answer(k)

Next ==
  \/ \E q \in Query : Ask(q)
  \/ \E k \in Comment : Post(k)
  \/ \E m \in Outside : DeveloperPosts(m)
  \/ Tick
  \/ Restart

Spec == Init /\ [][Next]_vars

-----------------------------------------------------------------------------
(* Properties *)

(* A client's text stands in the thread only if moderation allowed it, and *)
(* a placeholder only if the whole text is on disk (server.go:539-619).    *)
WithheldCommentsAreKept ==
  \A k \in Comment :
    /\ thread[k] = "original" => verdict[k] = "allow"
    /\ thread[k] = "placeholder" => archive[k] = "whole"

(* Once a comment has removed the entry, an entry that lacks it can only   *)
(* come from a query that was asking GitHub at the moment of the removal   *)
(* (server.go:645-656 and 599-618).                                        *)
StaleOnlyByCrossing ==
  \A k \in Comment :
    (cache # None /\ crossed[k] # None) =>
      (k \in cache.view \/ cache.by \in crossed[k])

\* The query that read the thread for the answer q is about to get.
Source(q) == IF asking[q] = "idle" THEN cache.by ELSE q

(* However the cache, the removals and the queries interleave, and also    *)
(* for messages no removal covers, an answer lacks no message as old as    *)
(* the entry's hour and the time together that the query which filled it   *)
(* took from the comments to the end of the timeline: an entry is as stale *)
(* as what it was read from, not as its own age (client.go:260-265,        *)
(* server.go:645-656, issue_status_cache.go:32-56).                        *)
AnswersAreRecent ==
  [][\A q \in Query :
       (asking[q] # "answered" /\ asking'[q] = "answered") =>
         {m \in Posted : age[m] >= TTL + waited[Source(q)]} \subseteq answer'[q]]_vars

=============================================================================
