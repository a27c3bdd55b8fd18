----------------------------- MODULE RateLimiter -----------------------------
(***************************************************************************)
(* The fixed-window limiters: FixedWindowLimiter in the process's memory   *)
(* (src/internal/security/ratelimit.go) and RedisFixedWindowLimiter, which *)
(* counts in Redis and falls back to memory when Redis does not answer     *)
(* (redis_limiter.go).  server.go's allowRate calls Allow before issuing a *)
(* challenge, taking a submission, a comment or an answer to a survey, and *)
(* the admin login does before it looks at the password.                   *)
(*                                                                         *)
(* Allow in memory holds the limiter's lock throughout and the Redis       *)
(* script runs alone in Redis, so each is atomic.  The client of main.go   *)
(* keeps go-redis's three retries: a script whose answer got lost is sent  *)
(* and counted again, and the call is judged by the last run, or by memory *)
(* when its 800 ms are over.                                               *)
(*                                                                         *)
(* A key is an action and a client's address.  Time is in ticks.  Redis    *)
(* itself is external: it keeps a counter until it expires.                *)
(***************************************************************************)
EXTENDS Integers

CONSTANTS
  Key,
  Limit,     \* calls a window lets through
  Window,    \* RATE_WINDOW
  MaxTime,   \* bound on the clock
  MaxCount,  \* bound on a counter in Redis
  None

ASSUME LimitsArePositive == Limit \in Nat \ {0} /\ Window \in Nat \ {0}
ASSUME BoundsAreNatural == MaxTime \in Nat /\ MaxCount \in Nat

MemoryRecord == [start : 0 .. MaxTime, count : 1 .. Limit]
RedisCounter == [expires : Nat, count : 1 .. MaxCount]
ASSUME NoneIsNoCount == None \notin MemoryRecord \cup RedisCounter

VARIABLES
  now,
  shared,    \* Redis answered the ping at start: main uses the Redis limiter
  memory,    \* l.records: key -> window start and count
  redis,     \* <prefix>:rate:<key> -> counter and its expiry
  \* History, the latest first.
  called,    \* for each key, when the last Limit sends came: calls that memory
             \* judged and runs of the Redis script
  passed     \* for each store and key, the last 2 * Limit calls let through, by
             \* memory since the process started

Store == {"memory", "redis"}

\* Long enough ago to make no difference.
Never == -Window
Quiet(n) == [i \in 1 .. n |-> Never]
Latest(history, n) == [i \in 1 .. n |-> IF i = 1 THEN now ELSE history[i - 1]]

vars == <<now, shared, memory, redis, called, passed>>

TypeOK ==
  /\ now \in 0 .. MaxTime
  /\ shared \in BOOLEAN
  /\ memory \in [Key -> MemoryRecord \cup {None}]
  /\ redis \in [Key -> RedisCounter \cup {None}]
  /\ called \in [Key -> [1 .. Limit -> Int]]
  /\ passed \in [Store -> [Key -> [1 .. 2 * Limit -> Int]]]

Init ==
  /\ now = 0
  /\ shared \in BOOLEAN
  /\ memory = [k \in Key |-> None]
  /\ redis = [k \in Key |-> None]
  /\ called = [k \in Key |-> Quiet(Limit)]
  /\ passed = [s \in Store |-> [k \in Key |-> Quiet(2 * Limit)]]

-----------------------------------------------------------------------------
(* FixedWindowLimiter.Allow *)

OverOneEarly(k) == now - memory[k].start >= Window - 1 \* mutant: off by one
IsOver(k) == now - memory[k].start >= Window
OpensWindow(k) == memory[k] = None \/ IsOver(k)

\* cleanupExpired, run whenever a window opens
Swept(m, k) ==
  [j \in Key |->
     IF m[j] # None /\ now - m[j].start >= 2 * Window THEN None ELSE m[j]]

AdmitsOneMore(k) == OpensWindow(k) \/ memory[k].count <= Limit \* mutant
Admits(k) == OpensWindow(k) \/ memory[k].count < Limit

Counted(k) ==
  IF OpensWindow(k)
  THEN Swept([memory EXCEPT ![k] = [start |-> now, count |-> 1]], k)
  ELSE [memory EXCEPT ![k].count = @ + 1]

\* One more send with this key.
Came(k) == called' = [called EXCEPT ![k] = Latest(@, Limit)]

\* The history of a call that store s judged.
Remember(s, k, ok) ==
  /\ Came(k)
  /\ passed' = [passed EXCEPT ![s][k] = IF ok THEN Latest(@, 2 * Limit) ELSE @]

JudgedByMemory(k, ok) ==
  /\ ok = Admits(k)
  /\ memory' = IF ok THEN Counted(k) ELSE memory
  /\ Remember("memory", k, ok)

-----------------------------------------------------------------------------
(* RedisFixedWindowLimiter.Allow *)

RedisCount(k) ==
  IF redis[k] = None \/ redis[k].expires <= now THEN 0 ELSE redis[k].count

\* mutant: every call prolongs the window
ExpiryProlonged(k) == now + Window
\* PEXPIRE, when INCR has created the counter
Expiry(k) == IF RedisCount(k) = 0 THEN now + Window ELSE redis[k].expires

\* fixedWindowAllowScript: calls that are turned down are counted too
Incremented(k) ==
  [redis EXCEPT ![k] = [expires |-> Expiry(k), count |-> RedisCount(k) + 1]]

JudgedByRedis(k, ok) ==
  /\ RedisCount(k) < MaxCount
  /\ ok = (RedisCount(k) + 1 <= Limit)
  /\ redis' = Incremented(k)
  /\ UNCHANGED memory
  /\ Remember("redis", k, ok)

\* Redis runs the script and the answer gets lost.  The client sends the script
\* again, or the timeout leaves the call to memory: steps of their own, between
\* which others' calls come.  How many such runs there are is not bounded by how
\* many calls have been judged, since any number of calls may be under way.
AnswerLost(k) ==
  /\ shared
  /\ RedisCount(k) < MaxCount
  /\ redis' = Incremented(k)
  /\ Came(k)
  /\ UNCHANGED <<now, shared, memory, passed>>

\* No answer within the timeout.
FallsBack(k, ok) ==
  /\ UNCHANGED redis
  /\ JudgedByMemory(k, ok)

Allow(k, ok) ==
  /\ \/ ~shared /\ JudgedByMemory(k, ok) /\ UNCHANGED redis
     \/ shared /\ JudgedByRedis(k, ok)
     \/ shared /\ FallsBack(k, ok)
  /\ UNCHANGED <<now, shared>>

-----------------------------------------------------------------------------

\* In the next tick the history forgets what is a window old.
Faded(history) ==
  [i \in DOMAIN history |->
     IF now + 1 - history[i] >= Window THEN Never ELSE history[i]]

Tick ==
  /\ now < MaxTime
  /\ now' = now + 1
  /\ called' = [k \in Key |-> Faded(called[k])]
  /\ passed' = [s \in Store |-> [k \in Key |-> Faded(passed[s][k])]]
  /\ UNCHANGED <<shared, memory, redis>>

\* The process ends and starts again: its memory is empty, and what it let
\* through before no longer counts; main asks once whether Redis answers.
Restart ==
  /\ memory' = [k \in Key |-> None]
  /\ passed' = [passed EXCEPT !["memory"] = [k \in Key |-> Quiet(2 * Limit)]]
  /\ shared' \in BOOLEAN
  /\ UNCHANGED <<now, redis, called>>

Next ==
  \/ \E k \in Key, ok \in BOOLEAN : Allow(k, ok)
  \/ \E k \in Key : AnswerLost(k)
  \/ Tick
  \/ Restart

Spec == Init /\ [][Next]_vars

-----------------------------------------------------------------------------
(* Properties *)

InLastWindow(time) == now - time < Window

(* Where two windows meet, one store still lets fewer than twice the limit *)
(* through within any stretch as long as a window, because a window opens  *)
(* with a call (ratelimit.go:34-48, redis_limiter.go:20-29): Redis however *)
(* the process restarts, memory from each start of the process on.         *)
BudgetHolds ==
  \A s \in Store, k \in Key : ~InLastWindow(passed[s][k][2 * Limit])

(* A call is turned down only when Limit sends came with its key within    *)
(* the last window before the one that decides: calls, whichever store     *)
(* judged them, and runs of the script whose answer got lost, earlier ones *)
(* of the same call among them.  No window turns a call down for what came *)
(* before it opened (ratelimit.go:34-43, redis_limiter.go:20-29, 44-64).   *)
RefusedOnlyAtLimit ==
  [][\A k \in Key : Allow(k, FALSE) => InLastWindow(called[k][Limit])]_vars
=============================================================================
