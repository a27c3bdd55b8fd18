-------------------------- MODULE IssueThreadProofs --------------------------
(***************************************************************************)
(* Withheld comments are kept, and answers through the cache are stale     *)
(* only as far as the removals and the lifetime of an entry allow, for any *)
(* comments, messages, queries and lifetime.                               *)
(***************************************************************************)
EXTENDS IssueThread, TLAPS

\* A comment that may be posted has been allowed or is on disk, and one that
\* may remove the entry stands in the thread.
CommentsInOrder ==
  \A k \in Comment :
    /\ stage[k] \in {"idle", "review", "archive", "archiving", "post"} =>
         thread[k] = "absent"
    /\ stage[k] = "post" => verdict[k] = "allow" \/ archive[k] = "whole"
    /\ stage[k] = "post" /\ verdict[k] # "allow" => archive[k] = "whole"
    /\ stage[k] \in {"remove", "answer", "answerFirst", "removeLast"} =>
         thread[k] # "absent"
    /\ crossed[k] # None => thread[k] # "absent"

\* What a view that q read must hold: the comments whose removal it did not
\* cross.
CoveredBy(view, q) ==
  \A k \in Comment : crossed[k] # None => k \in view \/ q \in crossed[k]

\* The messages a view of the given age lacks are no older than it.
AsRecentAs(view, n) == \A m \in Posted : m \in view \/ age[m] <= n

\* A query's view is as recent as its wait is long; an entry's, as its age and
\* the wait of its query together, until it expires.
ViewsFollow ==
  /\ \A q \in Query : asking[q] = "read" =>
       CoveredBy(answer[q], q) /\ AsRecentAs(answer[q], waited[q])
  /\ cache # None =>
       /\ CoveredBy(cache.view, cache.by)
       /\ asking[cache.by] = "answered"
       /\ ~Expired => AsRecentAs(cache.view, cache.age + waited[cache.by])

\* A query that is not past the comments has not waited.
UnreadIsNew == \A q \in Query : asking[q] \in {"idle", "asking"} => waited[q] = 0

AbsentIsNew == \A m \in Message : thread[m] = "absent" => age[m] = 0

IInv ==
  /\ TypeOK
  /\ CommentsInOrder
  /\ WithheldCommentsAreKept
  /\ ViewsFollow
  /\ UnreadIsNew
  /\ AbsentIsNew

-----------------------------------------------------------------------------
(* Queries *)

LEMMA PostedAreMessages == Posted \subseteq Message /\ Posted \in SUBSET Message
BY DEF Posted

LEMMA EntryIsWellTyped ==
  ASSUME IInv, cache # None
  PROVE  /\ cache.view \in SUBSET Message /\ cache.age \in 0..TTL
         /\ cache.by \in Query
         /\ waited[cache.by] \in 0..MaxWait
BY DEF IInv, TypeOK, Entry

\* Steps that leave the thread and the entry alone, or only evict the entry,
\* keep what its view holds.
LEMMA EntrySurvives ==
  ASSUME IInv,
         UNCHANGED <<crossed, thread, age>>,
         cache' \in {cache, None},
         \A p \in Query : asking[p] = "answered" =>
           asking'[p] = "answered" /\ waited'[p] = waited[p]
  PROVE  cache' # None =>
           /\ CoveredBy(cache.view, cache.by)'
           /\ asking'[cache'.by] = "answered"
           /\ ~Expired' => AsRecentAs(cache.view, cache.age + waited[cache.by])'
<1> SUFFICES ASSUME cache' # None, cache' = cache
             PROVE  /\ CoveredBy(cache.view, cache.by)'
                    /\ asking'[cache'.by] = "answered"
                    /\ ~Expired' => AsRecentAs(cache.view, cache.age + waited[cache.by])'
  OBVIOUS
<1>1. cache.by \in Query
  BY EntryIsWellTyped
<1>2. /\ CoveredBy(cache.view, cache.by)
      /\ asking[cache.by] = "answered"
      /\ ~Expired => AsRecentAs(cache.view, cache.age + waited[cache.by])
  BY DEF IInv, ViewsFollow
<1>3. waited'[cache.by] = waited[cache.by] /\ asking'[cache.by] = "answered"
  BY <1>1, <1>2
<1> QED BY <1>2, <1>3 DEF CoveredBy, AsRecentAs, Posted, Expired

\* ... and the views of the queries still reading with it.
LEMMA ViewsSurvive ==
  ASSUME IInv,
         UNCHANGED <<crossed, thread, age>>,
         cache' \in {cache, None},
         \A p \in Query :
           /\ asking[p] = "answered" => asking'[p] = "answered" /\ waited'[p] = waited[p]
           /\ asking'[p] = "read" =>
                asking[p] = "read" /\ answer'[p] = answer[p] /\ waited'[p] = waited[p]
           /\ asking'[p] \in {"idle", "asking"} =>
                asking[p] \in {"idle", "asking"} /\ waited'[p] = waited[p]
  PROVE  ViewsFollow' /\ UnreadIsNew'
<1>1. UnreadIsNew'
  BY DEF IInv, UnreadIsNew
<1>2. \A p \in Query : asking'[p] = "read" =>
        CoveredBy(answer[p], p)' /\ AsRecentAs(answer[p], waited[p])'
  BY DEF IInv, ViewsFollow, CoveredBy, AsRecentAs, Posted
<1> QED BY <1>1, <1>2, EntrySurvives DEF ViewsFollow

LEMMA HitKeepsInvariant ==
  ASSUME IInv, NEW q \in Query, Hit(q)
  PROVE  IInv'
<1>1. cache \in Entry /\ cache.view \in SUBSET Message
  BY DEF Hit, Cached, IInv, TypeOK, Entry
<1>2. TypeOK'
  BY <1>1 DEF IInv, TypeOK, Hit, posting
<1>3. CommentsInOrder' /\ WithheldCommentsAreKept' /\ AbsentIsNew'
  BY DEF IInv, Hit, posting, CommentsInOrder, WithheldCommentsAreKept, AbsentIsNew
<1>4. ViewsFollow' /\ UnreadIsNew'
  BY ViewsSurvive DEF Hit, posting, IInv, TypeOK
<1> QED BY <1>2, <1>3, <1>4 DEF IInv

LEMMA MissKeepsInvariant ==
  ASSUME IInv, NEW q \in Query, Miss(q)
  PROVE  IInv'
<1>1. TypeOK'
  BY DEF IInv, TypeOK, Miss, posting
<1>2. CommentsInOrder' /\ WithheldCommentsAreKept' /\ AbsentIsNew'
  BY DEF IInv, Miss, posting, CommentsInOrder, WithheldCommentsAreKept, AbsentIsNew
<1>3. ViewsFollow' /\ UnreadIsNew'
  BY ViewsSurvive DEF Miss, posting, IInv, TypeOK
<1> QED BY <1>1, <1>2, <1>3 DEF IInv

LEMMA ReadKeepsInvariant ==
  ASSUME IInv, NEW q \in Query, Read(q)
  PROVE  IInv'
<1>1. TypeOK'
  BY PostedAreMessages DEF IInv, TypeOK, Read, posting
<1>2. CommentsInOrder' /\ WithheldCommentsAreKept' /\ AbsentIsNew'
  BY DEF IInv, Read, posting, CommentsInOrder, WithheldCommentsAreKept, AbsentIsNew
<1>3. UNCHANGED <<crossed, thread, age, waited, cache>>
  BY DEF Read, posting
<1>4. \A p \in Query :
        /\ asking[p] = "answered" => asking'[p] = "answered"
        /\ asking'[p] \in {"idle", "asking"} => asking[p] \in {"idle", "asking"}
  BY DEF Read, IInv, TypeOK
<1>5. ViewsFollow'
  <2>1. \A p \in Query : asking'[p] = "read" =>
          \/ p = q
          \/ asking[p] = "read" /\ answer'[p] = answer[p]
    BY DEF Read, IInv, TypeOK
  <2>2. answer'[q] = Posted /\ waited[q] = 0
    BY DEF Read, IInv, TypeOK, UnreadIsNew
  <2>3. CoveredBy(Posted, q) /\ AsRecentAs(Posted, 0)
    BY DEF IInv, CommentsInOrder, CoveredBy, AsRecentAs, Posted, Message
  <2>4. \A p \in Query : asking'[p] = "read" =>
          CoveredBy(answer[p], p)' /\ AsRecentAs(answer[p], waited[p])'
    BY <1>3, <2>1, <2>2, <2>3 DEF IInv, ViewsFollow, CoveredBy, AsRecentAs, Posted
  <2> QED BY <1>3, <1>4, <2>4, EntrySurvives DEF ViewsFollow
<1>6. UnreadIsNew'
  BY <1>3, <1>4 DEF IInv, UnreadIsNew
<1> QED BY <1>1, <1>2, <1>5, <1>6 DEF IInv

LEMMA StoreKeepsInvariant ==
  ASSUME IInv, NEW q \in Query, Store(q)
  PROVE  IInv'
<1>1. /\ cache' \in Entry
      /\ cache'.view = answer[q] /\ cache'.age = 0 /\ cache'.by = q
  BY TTLAssumption DEF Store, IInv, TypeOK, Entry
<1>2. TypeOK'
  BY <1>1 DEF IInv, TypeOK, Store, posting
<1>3. CommentsInOrder' /\ WithheldCommentsAreKept' /\ AbsentIsNew'
  BY DEF IInv, Store, posting, CommentsInOrder, WithheldCommentsAreKept, AbsentIsNew
<1>4. /\ UNCHANGED <<crossed, thread, age, answer, waited>> /\ asking[q] = "read"
      /\ asking'[q] = "answered"
      /\ \A p \in Query : asking'[p] \in {"read", "idle", "asking"} => asking'[p] = asking[p]
  BY DEF Store, posting, IInv, TypeOK
<1>5. CoveredBy(answer[q], q) /\ AsRecentAs(answer[q], waited[q])
  BY <1>4 DEF IInv, ViewsFollow
<1>6. waited[q] \in Nat /\ 0 + waited[q] = waited[q]
  BY WaitAssumption DEF IInv, TypeOK
<1>7. ViewsFollow'
  <2>1. \A p \in Query : asking'[p] = "read" =>
          CoveredBy(answer[p], p)' /\ AsRecentAs(answer[p], waited[p])'
    BY <1>4 DEF IInv, ViewsFollow, CoveredBy, AsRecentAs, Posted
  <2>2. /\ CoveredBy(cache.view, cache.by)'
        /\ asking'[cache'.by] = "answered"
        /\ AsRecentAs(cache.view, cache.age + waited[cache.by])'
    BY <1>1, <1>4, <1>5, <1>6 DEF CoveredBy, AsRecentAs, Posted
  <2> QED BY <2>1, <2>2 DEF ViewsFollow
<1>8. UnreadIsNew'
  BY <1>4 DEF IInv, UnreadIsNew
<1> QED BY <1>2, <1>3, <1>7, <1>8 DEF IInv

LEMMA AskFailsKeepsInvariant ==
  ASSUME IInv, NEW q \in Query, AskFails(q)
  PROVE  IInv'
<1>1. TypeOK'
  BY WaitAssumption DEF IInv, TypeOK, AskFails, Forget, posting
<1>2. CommentsInOrder' /\ WithheldCommentsAreKept' /\ AbsentIsNew'
  BY DEF IInv, AskFails, posting, CommentsInOrder, WithheldCommentsAreKept, AbsentIsNew
<1>3. ViewsFollow' /\ UnreadIsNew'
  BY ViewsSurvive DEF AskFails, Forget, posting, IInv, TypeOK
<1> QED BY <1>1, <1>2, <1>3 DEF IInv

-----------------------------------------------------------------------------
(* Comments *)

\* Steps of a comment that touch neither the thread nor the entry.
LEMMA ViewsIgnoreHandlers ==
  ASSUME IInv, UNCHANGED <<crossed, thread, age, reading, cache>>
  PROVE  ViewsFollow' /\ UnreadIsNew' /\ AbsentIsNew'
<1>1. ViewsFollow' /\ UnreadIsNew'
  BY ViewsSurvive DEF reading
<1>2. AbsentIsNew'
  BY DEF IInv, AbsentIsNew
<1> QED BY <1>1, <1>2

LEMMA ConsiderKeepsInvariant ==
  ASSUME IInv, NEW k \in Comment, Consider(k)
  PROVE  IInv'
<1>1. TypeOK'
  BY DEF IInv, TypeOK, Consider, Goto, reading
<1>2. CommentsInOrder' /\ WithheldCommentsAreKept'
  BY DEF IInv, TypeOK, Consider, Goto, CommentsInOrder, WithheldCommentsAreKept
<1> QED BY <1>1, <1>2, ViewsIgnoreHandlers DEF IInv, Consider

LEMMA ReviewKeepsInvariant ==
  ASSUME IInv, NEW k \in Comment, NEW v \in {"allow", "reject", "error"}, Review(k, v)
  PROVE  IInv'
<1>1. TypeOK'
  BY DEF IInv, TypeOK, Review, Goto, reading
<1>2. CommentsInOrder' /\ WithheldCommentsAreKept'
  BY DEF IInv, TypeOK, Review, Goto, Blocked, CommentsInOrder, WithheldCommentsAreKept
<1> QED BY <1>1, <1>2, ViewsIgnoreHandlers DEF IInv, Review

LEMMA ArchiveStepsKeepInvariant ==
  ASSUME IInv, NEW k \in Comment, ArchiveStarts(k) \/ ArchiveSaved(k) \/ ArchiveFails(k)
  PROVE  IInv'
<1>1. TypeOK'
  BY DEF IInv, TypeOK, ArchiveStarts, ArchiveSaved, ArchiveFails, Goto, reading
<1>2. CommentsInOrder' /\ WithheldCommentsAreKept'
  BY DEF IInv, TypeOK, ArchiveStarts, ArchiveSaved, ArchiveFails, Goto,
         CommentsInOrder, WithheldCommentsAreKept
<1> QED BY <1>1, <1>2, ViewsIgnoreHandlers DEF IInv, ArchiveStarts, ArchiveSaved, ArchiveFails

\* A message that was absent appears: it is as new as can be.
LEMMA ViewsMayLackNewMessages ==
  ASSUME IInv, NEW m \in Message, thread[m] = "absent",
         NEW shown \in {"original", "placeholder"},
         thread' = [thread EXCEPT ![m] = shown],
         UNCHANGED <<crossed, age, reading, cache>>
  PROVE  ViewsFollow' /\ UnreadIsNew' /\ AbsentIsNew'
<1>1. Posted' = Posted \cup {m} /\ age'[m] = 0
  BY DEF IInv, TypeOK, AbsentIsNew, Posted
<1>2. \A view : \A n \in Nat : AsRecentAs(view, n) =>
        \A o \in Posted' : o \in view \/ age'[o] <= n
  BY <1>1 DEF AsRecentAs
<1>3. \A p \in Query : waited[p] \in Nat
  BY WaitAssumption DEF IInv, TypeOK
<1>4. cache # None => cache.age + waited[cache.by] \in Nat
  BY EntryIsWellTyped, TTLAssumption, WaitAssumption
<1>5. ViewsFollow'
  <2>1. \A p \in Query : asking'[p] = "read" =>
          CoveredBy(answer[p], p)' /\ AsRecentAs(answer[p], waited[p])'
    BY <1>2, <1>3 DEF IInv, ViewsFollow, CoveredBy, AsRecentAs, reading
  <2>2. cache # None =>
          /\ CoveredBy(cache.view, cache.by)'
          /\ asking'[cache'.by] = "answered"
          /\ ~Expired' => AsRecentAs(cache.view, cache.age + waited[cache.by])'
    BY <1>2, <1>4 DEF IInv, ViewsFollow, CoveredBy, AsRecentAs, Expired, reading
  <2> QED BY <2>1, <2>2 DEF ViewsFollow
<1>6. UnreadIsNew' /\ AbsentIsNew'
  BY DEF IInv, TypeOK, AbsentIsNew, UnreadIsNew, reading
<1> QED BY <1>5, <1>6

LEMMA PostStepsKeepInvariant ==
  ASSUME IInv, NEW k \in Comment, PostSucceeds(k) \/ PostFails(k)
  PROVE  IInv'
<1> DEFINE shown == IF Blocked(verdict[k]) THEN "placeholder" ELSE "original"
<1>1. /\ stage[k] = "post" /\ thread[k] = "absent"
      /\ UNCHANGED <<verdict, archive, crossed, age, reading, cache>>
      /\ stage' = [stage EXCEPT ![k] = AfterPost(k)] \/ stage' = [stage EXCEPT ![k] = "done"]
      /\ \/ thread' = [thread EXCEPT ![k] = shown]
         \/ thread' = thread /\ stage' = [stage EXCEPT ![k] = "done"]
  BY DEF PostSucceeds, PostFails, IInv, CommentsInOrder, Goto
<1>2. /\ k \in Message /\ shown \in {"original", "placeholder"}
      /\ AfterPost(k) \in {"remove", "answerFirst"}
  BY DEF Message, AfterPost
<1>3. /\ shown = "original" => verdict[k] = "allow"
      /\ shown = "placeholder" => archive[k] = "whole"
  BY <1>1 DEF Blocked, IInv, CommentsInOrder
<1> HIDE DEF shown
<1>4. TypeOK'
  BY <1>1, <1>2 DEF IInv, TypeOK, reading
<1>5. WithheldCommentsAreKept'
  BY <1>1, <1>2, <1>3 DEF IInv, TypeOK, WithheldCommentsAreKept, Message
<1>6. CommentsInOrder'
  BY <1>1, <1>2 DEF IInv, TypeOK, CommentsInOrder, Message
<1>7. ViewsFollow' /\ UnreadIsNew' /\ AbsentIsNew'
  BY <1>1, <1>2, ViewsIgnoreHandlers, ViewsMayLackNewMessages
<1> QED BY <1>4, <1>5, <1>6, <1>7 DEF IInv

LEMMA RemoveKeepsInvariant ==
  ASSUME IInv, NEW k \in Comment, Remove(k)
  PROVE  IInv'
<1> DEFINE under == {q \in Query : asking[q] \in {"asking", "read"}}
<1>1. /\ stage[k] \in {"remove", "removeLast"} /\ cache' = None
      /\ crossed' = [crossed EXCEPT ![k] = under]
      /\ stage' = [stage EXCEPT ![k] = IF stage[k] = "remove" THEN "answer" ELSE "done"]
      /\ UNCHANGED <<verdict, archive, thread, age, asking, answer, waited>>
  BY DEF Remove, Removed, Goto, reading
<1>2. TypeOK'
  BY <1>1 DEF IInv, TypeOK
<1>3. CommentsInOrder' /\ WithheldCommentsAreKept' /\ AbsentIsNew'
  BY <1>1 DEF IInv, TypeOK, CommentsInOrder, WithheldCommentsAreKept, AbsentIsNew
<1>4. ViewsFollow'
  <2> SUFFICES ASSUME NEW q \in Query, asking[q] = "read"
               PROVE  CoveredBy(answer[q], q)' /\ AsRecentAs(answer[q], waited[q])'
    BY <1>1 DEF ViewsFollow
  <2>1. q \in under
    OBVIOUS
  <2>2. CoveredBy(answer[q], q) /\ AsRecentAs(answer[q], waited[q])
    BY DEF IInv, ViewsFollow
  <2> HIDE DEF under
  <2>3. CoveredBy(answer[q], q)'
    BY <1>1, <2>1, <2>2 DEF IInv, TypeOK, CoveredBy
  <2>4. AsRecentAs(answer[q], waited[q])'
    BY <1>1, <2>2 DEF AsRecentAs, Posted
  <2> QED BY <2>3, <2>4
<1>5. UnreadIsNew'
  BY <1>1 DEF IInv, UnreadIsNew
<1> QED BY <1>2, <1>3, <1>4, <1>5 DEF IInv

LEMMA AnswerKeepsInvariant ==
  ASSUME IInv, NEW k \in Comment, Answer(k)
  PROVE  IInv'
<1>1. TypeOK'
  BY DEF IInv, TypeOK, Answer, Goto, reading
<1>2. CommentsInOrder' /\ WithheldCommentsAreKept'
  BY DEF IInv, TypeOK, Answer, Goto, CommentsInOrder, WithheldCommentsAreKept
<1> QED BY <1>1, <1>2, ViewsIgnoreHandlers DEF IInv, Answer

-----------------------------------------------------------------------------
(* GitHub, the clock and the process *)

LEMMA DeveloperKeepsInvariant ==
  ASSUME IInv, NEW m \in Outside, DeveloperPosts(m)
  PROVE  IInv'
<1>1. m \in Message /\ m \notin Comment
  BY DisjointAssumption DEF Message
<1>2. TypeOK'
  BY <1>1 DEF IInv, TypeOK, DeveloperPosts, posting, reading
<1>3. CommentsInOrder' /\ WithheldCommentsAreKept'
  BY <1>1 DEF IInv, TypeOK, DeveloperPosts, posting, CommentsInOrder,
     WithheldCommentsAreKept, Message
<1>4. ViewsFollow' /\ UnreadIsNew' /\ AbsentIsNew'
  BY <1>1, ViewsMayLackNewMessages DEF DeveloperPosts, posting
<1> QED BY <1>2, <1>3, <1>4 DEF IInv

LEMMA OlderCounts ==
  ASSUME NEW cap \in Nat, NEW n \in 0..cap
  PROVE  /\ Older(n, cap) \in 0..cap
         /\ Older(n, cap) <= n + 1
         /\ Older(n, cap) < cap => Older(n, cap) = n + 1
BY DEF Older

LEMMA TickKeepsInvariant ==
  ASSUME IInv, Tick
  PROVE  IInv'
<1>1. /\ \A q \in Query : asking[q] = "read" => waited[q] < MaxWait
      /\ waited' = [q \in Query |->
                     IF asking[q] = "read" THEN waited[q] + 1 ELSE waited[q]]
      /\ age' = [m \in Message |->
                  IF m \in Posted THEN Older(age[m], TTL + MaxWait) ELSE 0]
      /\ UNCHANGED <<stage, verdict, archive, crossed, thread, asking, answer>>
  BY DEF Tick, posting
<1>2. TTL \in Nat /\ MaxWait \in Nat /\ TTL + MaxWait \in Nat
  BY TTLAssumption, WaitAssumption
<1>3. cache = None => cache' = None
  BY DEF Tick
<1>4. cache # None =>
        cache' = [view |-> cache.view, age |-> Older(cache.age, TTL), by |-> cache.by]
  <2> SUFFICES ASSUME cache # None
               PROVE  cache' = [view |-> cache.view, age |-> Older(cache.age, TTL),
                                by |-> cache.by]
    OBVIOUS
  <2>1. cache \in [view : SUBSET Message, age : 0..TTL, by : Query]
    BY DEF IInv, TypeOK, Entry
  <2>2. cache' = [cache EXCEPT !.age = Older(cache.age, TTL)]
    BY DEF Tick
  <2>3. [cache EXCEPT !.age = Older(cache.age, TTL)]
          = [view |-> cache.view, age |-> Older(cache.age, TTL), by |-> cache.by]
    BY <2>1
  <2> QED BY <2>2, <2>3
<1>5. \A m \in Posted :
        /\ age[m] \in 0 .. TTL + MaxWait
        /\ age'[m] \in 0 .. TTL + MaxWait
        /\ age'[m] <= age[m] + 1
  <2> SUFFICES ASSUME NEW m \in Posted
               PROVE  /\ age[m] \in 0 .. TTL + MaxWait
                      /\ age'[m] \in 0 .. TTL + MaxWait
                      /\ age'[m] <= age[m] + 1
    OBVIOUS
  <2>1. age[m] \in 0 .. TTL + MaxWait /\ m \in Message
    BY DEF IInv, TypeOK, Posted
  <2>2. age'[m] = Older(age[m], TTL + MaxWait)
    BY <1>1, <2>1
  <2> QED BY <1>2, <2>1, <2>2, OlderCounts
<1>6. \A q \in Query :
        /\ waited[q] \in 0..MaxWait
        /\ waited'[q] \in 0..MaxWait
        /\ waited'[q] = IF asking[q] = "read" THEN waited[q] + 1 ELSE waited[q]
  BY <1>1, <1>2 DEF IInv, TypeOK
<1>7. TypeOK'
  <2>1. ASSUME NEW m \in Message PROVE age'[m] \in 0 .. TTL + MaxWait
    <3>1. m \in Posted \/ age'[m] = 0
      BY <1>1
    <3>2. 0 \in 0 .. TTL + MaxWait
      BY <1>2
    <3> QED BY <1>5, <3>1, <3>2
  <2>2. waited' \in [Query -> 0..MaxWait]
    BY <1>1, <1>6
  <2>3. ASSUME cache # None PROVE cache' \in Entry
    <3>1. /\ cache.view \in SUBSET Message /\ cache.by \in Query
          /\ Older(cache.age, TTL) \in 0..TTL
      BY <1>2, <2>3, EntryIsWellTyped, OlderCounts
    <3> QED BY <1>4, <2>3, <3>1 DEF Entry
  <2>4. age' \in [Message -> 0 .. TTL + MaxWait]
    BY <1>1, <2>1
  <2> QED BY <1>1, <1>3, <2>2, <2>3, <2>4 DEF IInv, TypeOK
<1>8. CommentsInOrder' /\ WithheldCommentsAreKept'
  BY <1>1 DEF IInv, CommentsInOrder, WithheldCommentsAreKept
<1>9. AbsentIsNew' /\ UnreadIsNew'
  BY <1>1, <1>6 DEF IInv, AbsentIsNew, UnreadIsNew, Posted
<1>10. ASSUME NEW q \in Query, asking[q] = "read"
       PROVE  CoveredBy(answer[q], q)' /\ AsRecentAs(answer[q], waited[q])'
  <2>1. CoveredBy(answer[q], q) /\ AsRecentAs(answer[q], waited[q])
    BY <1>10 DEF IInv, ViewsFollow
  <2>2. CoveredBy(answer[q], q)'
    BY <1>1, <2>1 DEF CoveredBy
  <2>3. AsRecentAs(answer[q], waited[q])'
    <3> SUFFICES ASSUME NEW m \in Posted, m \notin answer[q]
                 PROVE  age'[m] <= waited'[q]
      BY <1>1 DEF AsRecentAs, Posted
    <3>1. age[m] <= waited[q]
      BY <2>1 DEF AsRecentAs
    <3> QED BY <1>2, <1>5, <1>6, <1>10, <3>1
  <2> QED BY <2>2, <2>3
<1>11. ASSUME cache # None
       PROVE  /\ CoveredBy(cache.view, cache.by)'
              /\ asking'[cache'.by] = "answered"
              /\ ~Expired' => AsRecentAs(cache.view, cache.age + waited[cache.by])'
  <2>1. /\ cache'.view = cache.view /\ cache'.age = Older(cache.age, TTL)
        /\ cache'.by = cache.by
    BY <1>4, <1>11
  <2>2. /\ CoveredBy(cache.view, cache.by) /\ asking[cache.by] = "answered"
        /\ ~Expired => AsRecentAs(cache.view, cache.age + waited[cache.by])
    BY <1>11 DEF IInv, ViewsFollow
  <2>3. cache.by \in Query /\ cache.age \in 0..TTL
    BY <1>11, EntryIsWellTyped
  <2>4. CoveredBy(cache.view, cache.by)' /\ asking'[cache'.by] = "answered"
    BY <1>1, <2>1, <2>2 DEF CoveredBy
  <2>5. ASSUME ~Expired'
        PROVE  AsRecentAs(cache.view, cache.age + waited[cache.by])'
    <3>1. cache.age < TTL /\ cache'.age = cache.age + 1
      <4>1. ~(Older(cache.age, TTL) >= TTL)
        BY <2>1, <2>5 DEF Expired
      <4>2. /\ Older(cache.age, TTL) \in 0..TTL
            /\ Older(cache.age, TTL) < TTL => Older(cache.age, TTL) = cache.age + 1
        BY <1>2, <2>3, OlderCounts
      <4> QED BY <1>2, <2>1, <2>3, <4>1, <4>2
    <3>2. waited'[cache.by] = waited[cache.by] /\ waited[cache.by] \in Nat
      BY <1>2, <1>6, <2>2, <2>3
    <3> SUFFICES ASSUME NEW m \in Posted, m \notin cache.view
                 PROVE  age'[m] <= cache'.age + waited'[cache.by]
      BY <1>1, <2>1 DEF AsRecentAs, Posted
    <3>3. age[m] <= cache.age + waited[cache.by]
      BY <1>2, <2>2, <2>3, <3>1 DEF AsRecentAs, Expired
    <3> QED BY <1>2, <1>5, <2>3, <3>1, <3>2, <3>3
  <2> QED BY <2>4, <2>5
<1>12. ViewsFollow'
  BY <1>1, <1>3, <1>10, <1>11 DEF ViewsFollow
<1> QED BY <1>7, <1>8, <1>9, <1>12 DEF IInv

LEMMA RestartKeepsInvariant ==
  ASSUME IInv, Restart
  PROVE  IInv'
<1>1. TypeOK'
  BY WaitAssumption DEF IInv, TypeOK, Restart, Forget
<1>2. CommentsInOrder' /\ WithheldCommentsAreKept' /\ AbsentIsNew'
  BY DEF IInv, TypeOK, Restart, CommentsInOrder, WithheldCommentsAreKept, AbsentIsNew
<1>3. ViewsFollow' /\ UnreadIsNew'
  BY DEF IInv, TypeOK, Restart, Forget, ViewsFollow, UnreadIsNew
<1> QED BY <1>1, <1>2, <1>3 DEF IInv

-----------------------------------------------------------------------------

LEMMA InitEstablishesInvariant == Init => IInv
<1> SUFFICES ASSUME Init PROVE IInv
  OBVIOUS
<1>1. TypeOK
  BY TTLAssumption, WaitAssumption DEF Init, TypeOK
<1>2. /\ CommentsInOrder /\ WithheldCommentsAreKept
      /\ ViewsFollow /\ UnreadIsNew /\ AbsentIsNew
  BY DEF Init, CommentsInOrder, WithheldCommentsAreKept, ViewsFollow, UnreadIsNew,
     AbsentIsNew, Message
<1> QED BY <1>1, <1>2 DEF IInv

LEMMA StepKeepsInvariant == IInv /\ [Next]_vars => IInv'
<1> SUFFICES ASSUME IInv, [Next]_vars PROVE IInv'
  OBVIOUS
<1>1. ASSUME NEW q \in Query, Ask(q) PROVE IInv'
  BY <1>1, HitKeepsInvariant, MissKeepsInvariant, ReadKeepsInvariant,
     StoreKeepsInvariant, AskFailsKeepsInvariant DEF Ask
<1>2. ASSUME NEW k \in Comment, Post(k) PROVE IInv'
  BY <1>2, ConsiderKeepsInvariant, ReviewKeepsInvariant, ArchiveStepsKeepInvariant,
     PostStepsKeepInvariant, RemoveKeepsInvariant, AnswerKeepsInvariant DEF Post
<1>3. CASE UNCHANGED vars
  BY <1>3 DEF IInv, TypeOK, CommentsInOrder, WithheldCommentsAreKept, ViewsFollow,
     CoveredBy, AsRecentAs, Posted, Expired, UnreadIsNew, AbsentIsNew, vars
<1> QED BY <1>1, <1>2, <1>3, DeveloperKeepsInvariant, TickKeepsInvariant,
        RestartKeepsInvariant DEF Next

LEMMA Invariance == Spec => []IInv
BY InitEstablishesInvariant, StepKeepsInvariant, PTL DEF Spec

-----------------------------------------------------------------------------

\* Every reachable state of the thread and its cache is well typed.
THEOREM TypeCorrect == Spec => []TypeOK
<1>1. IInv => TypeOK
  BY DEF IInv
<1> QED BY <1>1, Invariance, PTL

\* A client's text stands in the thread only if moderation allowed it, and a
\* placeholder only if the whole text is on disk (server.go:539-619).
THEOREM WithheldTextsAreKept == Spec => []WithheldCommentsAreKept
<1>1. IInv => WithheldCommentsAreKept
  BY DEF IInv
<1> QED BY <1>1, Invariance, PTL

\* An entry lacks a comment that removed it only if its query was asking GitHub
\* at the removal (server.go:645-656 and 599-618).
THEOREM StaleEntriesCrossed == Spec => []StaleOnlyByCrossing
<1>1. IInv => StaleOnlyByCrossing
  BY DEF IInv, ViewsFollow, CoveredBy, StaleOnlyByCrossing
<1> QED BY <1>1, Invariance, PTL

\* No answer lacks a message as old as the entry's lifetime and the wait of the
\* query that filled it together (client.go:260-265, server.go:645-656,
\* issue_status_cache.go:32-56).
THEOREM RecentAnswers == Spec => AnswersAreRecent
<1> DEFINE Recent == \A q \in Query :
             (asking[q] # "answered" /\ asking'[q] = "answered") =>
               {m \in Posted : age[m] >= TTL + waited[Source(q)]} \subseteq answer'[q]
<1>1. IInv /\ [Next]_vars => [Recent]_vars
  <2> SUFFICES ASSUME IInv, Next PROVE Recent
    BY Zenon
  <2> SUFFICES ASSUME NEW q \in Query, asking[q] # "answered", asking'[q] = "answered",
                      NEW m \in Posted, age[m] >= TTL + waited[Source(q)]
               PROVE  m \in answer'[q]
    OBVIOUS
  <2>1. Hit(q) \/ Store(q)
    <3>1. ASSUME NEW p \in Query, Ask(p) PROVE Hit(q) \/ Store(q)
      BY <3>1 DEF Ask, Hit, Miss, Read, Store, AskFails, IInv, TypeOK
    <3>2. ASSUME NEW k \in Comment, Post(k) PROVE FALSE
      BY <3>2 DEF Post, Consider, Review, ArchiveStarts, ArchiveSaved, ArchiveFails,
         PostSucceeds, PostFails, Remove, Answer, reading
    <3>3. ASSUME NEW o \in Outside, DeveloperPosts(o) PROVE FALSE
      BY <3>3 DEF DeveloperPosts, reading
    <3>4. CASE Tick
      BY <3>4 DEF Tick
    <3>5. CASE Restart
      BY <3>5 DEF Restart, IInv, TypeOK
    <3> QED BY <3>1, <3>2, <3>3, <3>4, <3>5 DEF Next
  <2>2. /\ age[m] \in Nat /\ TTL \in Nat /\ TTL > 0
        /\ \A p \in Query : waited[p] \in Nat
    BY TTLAssumption, WaitAssumption DEF Posted, IInv, TypeOK
  <2>3. CASE Hit(q)
    <3>1. /\ cache # None /\ ~(cache.age >= TTL) /\ ~Expired
          /\ answer'[q] = cache.view /\ Source(q) = cache.by
      BY <2>3 DEF Hit, Cached, Expired, Source, IInv, TypeOK
    <3>2. cache.age \in Nat /\ cache.by \in Query
      BY <3>1, EntryIsWellTyped, TTLAssumption
    <3>3. m \in cache.view \/ age[m] <= cache.age + waited[cache.by]
      BY <3>1 DEF IInv, ViewsFollow, AsRecentAs
    <3> QED BY <2>2, <3>1, <3>2, <3>3
  <2>4. CASE Store(q)
    <3>1. answer'[q] = answer[q] /\ Source(q) = q
      BY <2>4 DEF Store, Source
    <3>2. m \in answer[q] \/ age[m] <= waited[q]
      BY <2>4 DEF Store, IInv, ViewsFollow, AsRecentAs
    <3> QED BY <2>2, <3>1, <3>2
  <2> QED BY <2>1, <2>3, <2>4
<1> QED BY <1>1, Invariance, PTL DEF Spec, AnswersAreRecent
=============================================================================
