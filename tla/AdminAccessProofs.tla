-------------------------- MODULE AdminAccessProofs --------------------------
(***************************************************************************)
(* Two systems, for any limits, windows, tokens and length of a session.   *)
(* First the rate limiter by itself: it keeps its budget and turns nobody  *)
(* down without a reason.  Then the admin interface: requests are served   *)
(* only on the token or on a session that was earned, and its logins are   *)
(* calls of the limiter and nothing else, so that what is proved of the    *)
(* limiter holds behind the login as well.                                 *)
(***************************************************************************)
EXTENDS AdminAccess, TLAPS

-----------------------------------------------------------------------------
(* Histories: the times of the last calls, the latest first.               *)

IsHistory(h, n, time) ==
  /\ h \in [1 .. n -> Int]
  /\ \A i \in 1 .. n : h[i] <= time
  /\ \A i, j \in 1 .. n : i <= j => h[j] <= h[i]

Capped(count) == IF count < Limit THEN count ELSE Limit

\* A store's window that opened at start, set against the calls the store let
\* through (p) and all calls (q): what was let through before the window's
\* count came before the window, a further Limit before that a whole window
\* before it, and while the window lasts its calls are among the last ones.
Fits(p, q, start, count, time) ==
  /\ start \in Int /\ count \in Nat \ {0}
  /\ start <= time
  /\ p[Capped(count)] <= start
  /\ p[Capped(count) + Limit] <= start - Window
  /\ time - start < Window => start <= q[Capped(count)]

\* What was let through when a window opens.
Rested(p, time) == p[Limit] <= time - Window

InBudget(p, time) == p[2 * Limit] <= time - Window

LEMMA LatestIsHistory ==
  ASSUME NEW n \in Nat \ {0}, NEW h, now \in Int, IsHistory(h, n, now)
  PROVE  /\ IsHistory(Latest(h, n), n, now)
         /\ Latest(h, n)[1] = now
         /\ \A i \in 1 .. n : i > 1 => Latest(h, n)[i] = h[i - 1]
         /\ \A i \in 1 .. n : h[i] <= Latest(h, n)[i]
<1> DEFINE g == Latest(h, n)
<1>1. g = [i \in 1 .. n |-> IF i = 1 THEN now ELSE h[i - 1]]
  BY DEF Latest
<1>2. \A i \in 1 .. n : i > 1 => i - 1 \in 1 .. n
  OBVIOUS
<1>3. g \in [1 .. n -> Int] /\ g[1] = now
  BY <1>1, <1>2 DEF IsHistory
<1>4. \A i \in 1 .. n : i > 1 => g[i] = h[i - 1]
  BY <1>1
<1>5. \A i \in 1 .. n : g[i] <= now /\ h[i] <= g[i]
  BY <1>2, <1>3, <1>4 DEF IsHistory
<1>6. ASSUME NEW i \in 1 .. n, NEW j \in 1 .. n, i <= j PROVE g[j] <= g[i]
  <2>1. CASE i = 1
    BY <2>1, <1>3, <1>5
  <2>2. CASE i > 1
    BY <2>2, <1>2, <1>4, <1>6 DEF IsHistory
  <2> QED BY <2>1, <2>2
<1> QED BY <1>3, <1>4, <1>5, <1>6 DEF IsHistory

LEMMA FadedIsHistory ==
  ASSUME NEW n \in Nat \ {0}, NEW h, now \in Nat, IsHistory(h, n, now)
  PROVE  /\ IsHistory(Faded(h), n, now + 1)
         /\ \A i \in 1 .. n : now + 1 - h[i] < Window => Faded(h)[i] = h[i]
         /\ \A i \in 1 .. n : Faded(h)[i] \in {h[i], Never}
<1> DEFINE g == Faded(h)
<1>1. g = [i \in 1 .. n |->
             IF now + 1 - h[i] >= Window THEN Never ELSE h[i]]
  BY DEF Faded, IsHistory
<1>2. Never \in Int /\ Never < now
  BY LimitsArePositive DEF Never
<1>3. g \in [1 .. n -> Int] /\ \A i \in 1 .. n : g[i] <= now + 1
  BY <1>1, <1>2 DEF IsHistory
<1>4. ASSUME NEW i \in 1 .. n, NEW j \in 1 .. n, i <= j PROVE g[j] <= g[i]
  <2>1. h[i] \in Int /\ h[j] \in Int /\ h[j] <= h[i]
    BY <1>4 DEF IsHistory
  <2>2. CASE now + 1 - h[j] < Window
    BY <1>1, <2>1, <2>2, LimitsArePositive
  <2>3. CASE now + 1 - h[j] >= Window
    BY <1>1, <2>1, <2>3, LimitsArePositive DEF Never
  <2> QED BY <2>1, <2>2, <2>3, LimitsArePositive
<1>5. \A i \in 1 .. n : now + 1 - h[i] < Window => g[i] = h[i]
  BY <1>1, LimitsArePositive DEF IsHistory
<1>6. \A i \in 1 .. n : g[i] \in {h[i], Never}
  BY <1>1
<1> QED BY <1>3, <1>4, <1>5, <1>6 DEF IsHistory

-----------------------------------------------------------------------------
(* What one store's window makes of a call.                                *)

\* A window opens, and the call that opened it may not have passed: Redis
\* counts calls whose answer nobody waited for.
LEMMA OpeningFits ==
  ASSUME NEW p, NEW q, NEW r, now \in Nat,
         IsHistory(p, 2 * Limit, now), IsHistory(q, Limit, now),
         InBudget(p, now), Rested(p, now),
         r \in {p, Latest(p, 2 * Limit)}
  PROVE  /\ Fits(r, Latest(q, Limit), now, 1, now)
         /\ InBudget(r, now)
<1> USE LimitsArePositive, BoundsAreNatural, NoneIsNoCount
<1>1. 2 * Limit \in Nat \ {0} /\ Capped(1) = 1
  BY DEF Capped
<1>2. Latest(q, Limit)[1] = now
  BY LatestIsHistory
<1>3. /\ p \in [1 .. 2 * Limit -> Int] /\ p[1] <= now
      /\ p[1 + Limit] <= p[Limit] /\ p[2 * Limit] <= p[Limit]
      /\ p[2 * Limit - 1] <= p[Limit]
  BY DEF IsHistory
<1>4. CASE r = p
  BY <1>1, <1>2, <1>3, <1>4 DEF Fits, Rested, InBudget
<1>5. CASE r = Latest(p, 2 * Limit)
  <2>1. r[1] = now /\ r[1 + Limit] = p[Limit] /\ r[2 * Limit] = p[2 * Limit - 1]
    <3>1. /\ 1 + Limit \in 1 .. 2 * Limit /\ 2 * Limit \in 1 .. 2 * Limit
          /\ 1 + Limit > 1 /\ 2 * Limit > 1
      OBVIOUS
    <3> QED BY <1>1, <1>5, <3>1, LatestIsHistory
  <2> QED BY <1>1, <1>2, <1>3, <2>1 DEF Fits, Rested, InBudget
<1> QED BY <1>4, <1>5

\* Another call within the window, counted and let through.
LEMMA CountingFits ==
  ASSUME NEW p, NEW q, NEW start, NEW count, now \in Nat,
         IsHistory(p, 2 * Limit, now), IsHistory(q, Limit, now),
         Fits(p, q, start, count, now), now - start < Window, count < Limit
  PROVE  /\ Fits(Latest(p, 2 * Limit), Latest(q, Limit), start, count + 1, now)
         /\ InBudget(Latest(p, 2 * Limit), now)
<1> USE LimitsArePositive, BoundsAreNatural, NoneIsNoCount
<1> DEFINE r == Latest(p, 2 * Limit)
<1>1. 2 * Limit \in Nat \ {0} /\ Capped(count) = count /\ Capped(count + 1) = count + 1
  BY DEF Capped, Fits
<1>2. /\ count + 1 \in 1 .. Limit /\ count + 1 \in 1 .. 2 * Limit /\ count + 1 > 1
      /\ count + 1 + Limit \in 1 .. 2 * Limit /\ count + 1 + Limit > 1
      /\ 2 * Limit \in 1 .. 2 * Limit /\ 2 * Limit > 1
  BY DEF Fits
<1>3. r[count + 1] = p[count] /\ r[count + 1 + Limit] = p[count + Limit]
  BY <1>1, <1>2, LatestIsHistory DEF Fits
<1>4. Latest(q, Limit)[count + 1] = q[count]
  BY <1>2, LatestIsHistory DEF Fits
<1>5. r[2 * Limit] = p[2 * Limit - 1] /\ p[2 * Limit - 1] <= p[count + Limit]
  <2>1. r[2 * Limit] = p[2 * Limit - 1]
    BY <1>1, <1>2, LatestIsHistory
  <2>2. /\ count + Limit \in 1 .. 2 * Limit /\ 2 * Limit - 1 \in 1 .. 2 * Limit
        /\ count + Limit <= 2 * Limit - 1
    BY DEF Fits
  <2> QED BY <2>1, <2>2 DEF IsHistory
<1>6. Fits(r, Latest(q, Limit), start, count + 1, now)
  BY <1>1, <1>3, <1>4 DEF Fits
<1>7. InBudget(r, now)
  <2>1. p[2 * Limit - 1] \in Int /\ p[count + Limit] \in Int
    BY DEF IsHistory, Fits
  <2> QED BY <1>1, <1>5, <2>1 DEF Fits, InBudget
<1> QED BY <1>6, <1>7

\* A call that the store counts without letting it through, or does not count.
LEMMA OtherCallsFit ==
  ASSUME NEW p, NEW q, NEW start, NEW count, NEW more \in {count, count + 1}, now \in Nat,
         IsHistory(p, 2 * Limit, now), IsHistory(q, Limit, now),
         Fits(p, q, start, count, now)
  PROVE  Fits(p, Latest(q, Limit), start, more, now)
<1> USE LimitsArePositive, BoundsAreNatural, NoneIsNoCount
<1> DEFINE c == Capped(count)  d == Capped(more)
<1>1. /\ count \in Nat \ {0} /\ more \in Nat \ {0} /\ start \in Int
      /\ c \in 1 .. Limit /\ d \in {c, c + 1} /\ d \in 1 .. Limit
  BY DEF Capped, Fits
<1>2. p[d] <= p[c] /\ p[d + Limit] <= p[c + Limit] /\ p[c] \in Int /\ p[d] \in Int
      /\ p[d + Limit] \in Int /\ p[c + Limit] \in Int
  <2>1. /\ c \in 1 .. 2 * Limit /\ d \in 1 .. 2 * Limit /\ c <= d
        /\ c + Limit \in 1 .. 2 * Limit /\ d + Limit \in 1 .. 2 * Limit
        /\ c + Limit <= d + Limit
    BY <1>1
  <2> QED BY <2>1 DEF IsHistory
<1>3. now - start < Window => start <= Latest(q, Limit)[d]
  <2> SUFFICES ASSUME now - start < Window PROVE start <= Latest(q, Limit)[d]
    OBVIOUS
  <2>1. start <= q[c] /\ q[c] \in Int /\ q[d] \in Int
    BY <1>1 DEF Fits, IsHistory
  <2>2. Latest(q, Limit)[d] \in Int /\ q[d] <= Latest(q, Limit)[d]
    <3>1. /\ IsHistory(Latest(q, Limit), Limit, now)
          /\ q[d] <= Latest(q, Limit)[d]
      BY <1>1, LatestIsHistory
    <3> QED BY <1>1, <3>1 DEF IsHistory
  <2>3. CASE d = c
    BY <2>1, <2>2, <2>3, <1>1
  <2>4. CASE d = c + 1
    <3>1. d > 1 /\ d - 1 = c
      BY <1>1, <2>4
    <3>2. Latest(q, Limit)[d] = q[d - 1]
      BY <1>1, <3>1, LatestIsHistory
    <3> QED BY <2>1, <3>1, <3>2
  <2> QED BY <1>1, <2>3, <2>4
<1> QED BY <1>1, <1>2, <1>3 DEF Fits

\* Time passes.
LEMMA FadingFits ==
  ASSUME NEW p, NEW q, NEW start \in Nat, NEW count, now \in Nat,
         IsHistory(p, 2 * Limit, now), IsHistory(q, Limit, now),
         Fits(p, q, start, count, now)
  PROVE  Fits(Faded(p), Faded(q), start, count, now + 1)
<1> USE LimitsArePositive, BoundsAreNatural, NoneIsNoCount
<1> DEFINE c == Capped(count)
<1>1. /\ c \in 1 .. Limit /\ c \in 1 .. 2 * Limit /\ c + Limit \in 1 .. 2 * Limit
      /\ 2 * Limit \in Nat \ {0}
  BY DEF Capped, Fits
<1>2. /\ Faded(p)[c] \in {p[c], Never}
      /\ Faded(p)[c + Limit] \in {p[c + Limit], Never}
  BY <1>1, FadedIsHistory
<1>3. Never <= start - Window /\ Never <= start
  BY DEF Never
<1>4. Faded(p)[c] <= start /\ Faded(p)[c + Limit] <= start - Window
  BY <1>2, <1>3 DEF Fits
<1>5. now + 1 - start < Window => start <= Faded(q)[c]
  <2> SUFFICES ASSUME now + 1 - start < Window PROVE start <= Faded(q)[c]
    OBVIOUS
  <2>1. start <= q[c] /\ q[c] \in Int
    BY <1>1 DEF Fits, IsHistory
  <2>2. Faded(q)[c] = q[c]
    BY <1>1, <2>1, FadedIsHistory
  <2> QED BY <2>1, <2>2
<1> QED BY <1>4, <1>5 DEF Fits

LEMMA FadingRests ==
  ASSUME NEW p, now \in Nat, IsHistory(p, 2 * Limit, now)
  PROVE  /\ Rested(p, now) => Rested(Faded(p), now + 1)
         /\ InBudget(p, now) => InBudget(Faded(p), now + 1)
<1> USE LimitsArePositive, BoundsAreNatural, NoneIsNoCount
<1>1. Limit \in 1 .. 2 * Limit /\ 2 * Limit \in 1 .. 2 * Limit /\ 2 * Limit \in Nat \ {0}
  OBVIOUS
<1>2. /\ Faded(p)[Limit] \in {p[Limit], Never}
      /\ Faded(p)[2 * Limit] \in {p[2 * Limit], Never}
  BY <1>1, FadedIsHistory
<1>3. Never <= now + 1 - Window /\ p[Limit] \in Int /\ p[2 * Limit] \in Int
  BY <1>1 DEF Never, IsHistory
<1> QED BY <1>2, <1>3 DEF Rested, InBudget

\* A window that is over, kept or swept.
LEMMA OverIsRested ==
  ASSUME NEW p, NEW q, NEW start, NEW count, now \in Nat,
         IsHistory(p, 2 * Limit, now), Fits(p, q, start, count, now),
         now - start >= Window
  PROVE  Rested(p, now)
<1> USE LimitsArePositive, BoundsAreNatural, NoneIsNoCount
<1>1. /\ Capped(count) \in 1 .. Limit /\ Capped(count) \in 1 .. 2 * Limit
      /\ Limit \in 1 .. 2 * Limit /\ Capped(count) <= Limit
  BY DEF Capped, Fits
<1>2. p[Limit] <= p[Capped(count)] /\ p[Limit] \in Int /\ p[Capped(count)] \in Int
  BY <1>1 DEF IsHistory
<1> QED BY <1>2 DEF Rested, Fits

-----------------------------------------------------------------------------
(* The invariant of the limiter.                                           *)

KeyHistories(k) ==
  /\ IsHistory(called[k], Limit, now)
  /\ \A s \in Store :
       IsHistory(passed[s][k], 2 * Limit, now) /\ InBudget(passed[s][k], now)

MemoryFits(k) ==
  IF memory[k] = None THEN Rested(passed["memory"][k], now)
  ELSE Fits(passed["memory"][k], called[k], memory[k].start, memory[k].count, now)

RedisFits(k) ==
  IF redis[k] = None THEN Rested(passed["redis"][k], now)
  ELSE /\ redis[k].expires >= Window
       /\ Fits(passed["redis"][k], called[k], redis[k].expires - Window,
               redis[k].count, now)

LimiterInv ==
  /\ TypeOK
  /\ \A k \in Key : KeyHistories(k) /\ MemoryFits(k) /\ RedisFits(k)

LEMMA QuietIsHistory ==
  /\ IsHistory(Quiet(Limit), Limit, 0)
  /\ IsHistory(Quiet(2 * Limit), 2 * Limit, 0)
  /\ \A time \in Nat : /\ IsHistory(Quiet(2 * Limit), 2 * Limit, time)
                        /\ InBudget(Quiet(2 * Limit), time)
                        /\ Rested(Quiet(2 * Limit), time)
<1> USE LimitsArePositive, BoundsAreNatural, NoneIsNoCount DEF Quiet, Never
<1>1. Limit \in 1 .. 2 * Limit /\ 2 * Limit \in 1 .. 2 * Limit
  OBVIOUS
<1> QED BY <1>1 DEF IsHistory, InBudget, Rested

LEMMA LimiterInit == Init => LimiterInv
<1> SUFFICES ASSUME Init PROVE LimiterInv
  OBVIOUS
<1>1. /\ now = 0 /\ shared \in BOOLEAN
      /\ memory = [k \in Key |-> None] /\ redis = [k \in Key |-> None]
      /\ called = [k \in Key |-> Quiet(Limit)]
      /\ passed = [s \in Store |-> [k \in Key |-> Quiet(2 * Limit)]]
  BY DEF Init
<1>2. /\ Quiet(Limit) \in [1 .. Limit -> Int]
      /\ Quiet(2 * Limit) \in [1 .. 2 * Limit -> Int]
  BY QuietIsHistory DEF IsHistory
<1>3. TypeOK
  BY <1>1, <1>2, BoundsAreNatural DEF TypeOK
<1>4. ASSUME NEW k \in Key PROVE KeyHistories(k) /\ MemoryFits(k) /\ RedisFits(k)
  <2>1. /\ called[k] = Quiet(Limit) /\ memory[k] = None /\ redis[k] = None
        /\ \A s \in Store : passed[s][k] = Quiet(2 * Limit)
    BY <1>1
  <2>2. "memory" \in Store /\ "redis" \in Store
    BY DEF Store
  <2> QED BY <1>1, <2>1, <2>2, QuietIsHistory DEF KeyHistories, MemoryFits, RedisFits
<1> QED BY <1>3, <1>4 DEF LimiterInv

\* The memory's window of a key and what it let through, after a call it
\* let through.
LEMMA MemoryCounts ==
  ASSUME LimiterInv, NEW k \in Key, Admits(k)
  PROVE  /\ Counted(k)[k] \in MemoryRecord
         /\ Fits(Latest(passed["memory"][k], 2 * Limit), Latest(called[k], Limit),
                 Counted(k)[k].start, Counted(k)[k].count, now)
         /\ InBudget(Latest(passed["memory"][k], 2 * Limit), now)
<1> USE LimitsArePositive, BoundsAreNatural, NoneIsNoCount
<1> DEFINE p == passed["memory"][k]  q == called[k]  m == Counted(k)
<1>1. /\ now \in Nat /\ now \in 0 .. MaxTime
      /\ memory \in [Key -> MemoryRecord \cup {None}]
      /\ None \notin MemoryRecord
      /\ IsHistory(p, 2 * Limit, now) /\ IsHistory(q, Limit, now)
      /\ InBudget(p, now) /\ MemoryFits(k)
  BY DEF LimiterInv, TypeOK, KeyHistories, Store
<1>2. CASE OpensWindow(k)
  <2>1. m[k] = [start |-> now, count |-> 1]
    BY <1>1, <1>2 DEF Counted, Swept
  <2>2. Rested(p, now)
    <3>1. CASE memory[k] = None
      BY <1>1, <3>1 DEF MemoryFits
    <3>2. CASE memory[k] # None /\ now - memory[k].start >= Window
      BY <1>1, <3>2, OverIsRested DEF MemoryFits
    <3> QED BY <1>2, <3>1, <3>2 DEF OpensWindow, IsOver
  <2>3. /\ Fits(Latest(p, 2 * Limit), Latest(q, Limit), now, 1, now)
        /\ InBudget(Latest(p, 2 * Limit), now)
    BY <1>1, <2>2, OpeningFits
  <2> QED BY <1>1, <2>1, <2>3 DEF MemoryRecord
<1>3. CASE ~OpensWindow(k)
  <2>1. /\ memory[k] \in MemoryRecord /\ memory[k] # None
        /\ memory[k].start \in Nat /\ memory[k].count \in Nat
        /\ now - memory[k].start < Window /\ memory[k].count < Limit
    BY <1>1, <1>3 DEF OpensWindow, IsOver, Admits, MemoryRecord
  <2>2. m[k] = [memory[k] EXCEPT !.count = @ + 1]
    BY <1>1, <1>3 DEF Counted
  <2>3. /\ m[k] \in MemoryRecord
        /\ m[k].start = memory[k].start /\ m[k].count = memory[k].count + 1
    BY <2>1, <2>2 DEF MemoryRecord
  <2>4. Fits(p, q, memory[k].start, memory[k].count, now)
    BY <1>1, <2>1 DEF MemoryFits
  <2> QED BY <1>1, <2>1, <2>3, <2>4, CountingFits
<1> QED BY <1>2, <1>3

\* Redis' counter of a key and what it let through, after a call it counted:
\* it may have let it through only up to the limit.
LEMMA RedisCounts ==
  ASSUME LimiterInv, NEW k \in Key, NEW r,
         \/ r = passed["redis"][k]
         \/ /\ RedisCount(k) + 1 <= Limit
            /\ r = Latest(passed["redis"][k], 2 * Limit),
         RedisCount(k) < MaxCount
  PROVE  /\ Incremented(k)[k] \in RedisCounter
         /\ Incremented(k)[k].expires >= Window
         /\ Fits(r, Latest(called[k], Limit),
                 Incremented(k)[k].expires - Window, Incremented(k)[k].count, now)
         /\ InBudget(r, now)
<1> USE LimitsArePositive, BoundsAreNatural, NoneIsNoCount
<1> DEFINE p == passed["redis"][k]  q == called[k]  c == Incremented(k)[k]
<1>1. /\ now \in Nat
      /\ redis \in [Key -> RedisCounter \cup {None}]
      /\ None \notin RedisCounter
      /\ IsHistory(p, 2 * Limit, now) /\ IsHistory(q, Limit, now)
      /\ InBudget(p, now) /\ RedisFits(k)
  BY DEF LimiterInv, TypeOK, KeyHistories, Store
<1>2. c = [expires |-> Expiry(k), count |-> RedisCount(k) + 1]
  BY <1>1 DEF Incremented
<1>3. redis[k] # None => /\ redis[k].expires \in Nat
                         /\ redis[k].count \in 1 .. MaxCount
  BY <1>1 DEF RedisCounter
<1>4. CASE redis[k] = None \/ redis[k].expires <= now
  <2>1. RedisCount(k) = 0 /\ c = [expires |-> now + Window, count |-> 1]
    BY <1>2, <1>4 DEF RedisCount, Expiry
  <2>2. Rested(p, now)
    <3>1. CASE redis[k] = None
      BY <1>1, <3>1 DEF RedisFits
    <3>2. CASE redis[k] # None /\ redis[k].expires <= now
      BY <1>1, <1>3, <3>2, OverIsRested DEF RedisFits
    <3> QED BY <1>4, <3>1, <3>2
  <2>3. Fits(r, Latest(q, Limit), now, 1, now) /\ InBudget(r, now)
    BY <1>1, <2>2, OpeningFits
  <2>4. /\ c \in RedisCounter /\ c.expires >= Window
        /\ c.expires - Window = now /\ c.count = 1
    BY <1>1, <2>1 DEF RedisCounter
  <2> QED BY <2>3, <2>4
<1>5. CASE redis[k] # None /\ ~(redis[k].expires <= now)
  <2>1. /\ RedisCount(k) = redis[k].count /\ redis[k].count # 0
        /\ c = [expires |-> redis[k].expires, count |-> redis[k].count + 1]
    BY <1>2, <1>3, <1>5 DEF RedisCount, Expiry
  <2>2. /\ c \in RedisCounter /\ c.expires = redis[k].expires
        /\ c.count = redis[k].count + 1
    BY <1>3, <1>5, <2>1 DEF RedisCounter
  <2>3. /\ Fits(p, q, redis[k].expires - Window, redis[k].count, now)
        /\ redis[k].expires >= Window
        /\ now - (redis[k].expires - Window) < Window
    BY <1>1, <1>3, <1>5 DEF RedisFits
  <2>4. CASE r = p
    BY <1>1, <2>2, <2>3, <2>4, OtherCallsFit
  <2>5. CASE redis[k].count < Limit /\ r = Latest(p, 2 * Limit)
    BY <1>1, <2>2, <2>3, <2>5, CountingFits
  <2> QED BY <1>3, <1>5, <2>1, <2>4, <2>5
<1> QED BY <1>4, <1>5

\* What a call does to the memory's window of its key, to Redis' counter, and
\* to what each of them let through; ok says which store let it through.
MemorySide(k) ==
  \/ memory' = memory /\ passed'["memory"] = passed["memory"]
  \/ /\ Admits(k) /\ memory' = Counted(k)
     /\ passed'["memory"] =
          [passed["memory"] EXCEPT ![k] = Latest(@, 2 * Limit)]

RedisSide(k) ==
  \/ redis' = redis /\ passed'["redis"] = passed["redis"]
  \/ /\ RedisCount(k) < MaxCount /\ redis' = Incremented(k)
     /\ \/ passed'["redis"] = passed["redis"]
        \/ /\ RedisCount(k) + 1 <= Limit
           /\ passed'["redis"] =
                [passed["redis"] EXCEPT ![k] = Latest(@, 2 * Limit)]

LEMMA AllowSides ==
  ASSUME LimiterInv, NEW k \in Key, NEW ok \in BOOLEAN, Allow(k, ok)
  PROVE  /\ now' = now /\ shared' = shared
         /\ called' = [called EXCEPT ![k] = Latest(@, Limit)]
         /\ passed' \in [Store -> {passed'["memory"], passed'["redis"]}]
         /\ MemorySide(k) /\ RedisSide(k)
<1>1. /\ passed \in [Store -> [Key -> [1 .. 2 * Limit -> Int]]]
      /\ "memory" \in Store /\ "redis" \in Store
      /\ \A s \in Store : s = "memory" \/ s = "redis"
  BY DEF LimiterInv, TypeOK, Store
<1>2. ASSUME NEW s \in Store, Remember(s, k, ok)
      PROVE  /\ called' = [called EXCEPT ![k] = Latest(@, Limit)]
             /\ passed' \in [Store -> {passed'["memory"], passed'["redis"]}]
             /\ \A t \in Store \ {s} : passed'[t] = passed[t]
             /\ ok => passed'[s] = [passed[s] EXCEPT ![k] = Latest(@, 2 * Limit)]
             /\ ~ok => passed'[s] = passed[s]
  <2>1. /\ called' = [called EXCEPT ![k] = Latest(@, Limit)]
        /\ passed' = [passed EXCEPT ![s][k] =
                        IF ok THEN Latest(@, 2 * Limit) ELSE @]
    BY <1>2 DEF Remember, Came
  <2>2. ~ok => passed'[s] = passed[s]
    BY <1>1, <2>1
  <2>3. passed' \in [Store -> {passed'["memory"], passed'["redis"]}]
    BY <1>1, <2>1
  <2> QED BY <1>1, <2>1, <2>2, <2>3
<1>3. CASE ~shared /\ JudgedByMemory(k, ok) /\ UNCHANGED redis
  BY <1>1, <1>2, <1>3 DEF JudgedByMemory, Allow, MemorySide, RedisSide
<1>4. CASE shared /\ JudgedByRedis(k, ok)
  BY <1>1, <1>2, <1>4 DEF JudgedByRedis, Allow, MemorySide, RedisSide
<1>5. CASE shared /\ FallsBack(k, ok)
  BY <1>1, <1>2, <1>5
     DEF FallsBack, JudgedByMemory, Allow, MemorySide, RedisSide
<1> QED BY <1>3, <1>4, <1>5 DEF Allow

LEMMA LostSides ==
  ASSUME LimiterInv, NEW k \in Key, AnswerLost(k)
  PROVE  /\ now' = now /\ shared' = shared
         /\ called' = [called EXCEPT ![k] = Latest(@, Limit)]
         /\ passed' \in [Store -> {passed'["memory"], passed'["redis"]}]
         /\ MemorySide(k) /\ RedisSide(k)
<1>1. /\ passed' = passed /\ passed \in [Store -> [Key -> [1 .. 2 * Limit -> Int]]]
      /\ \A s \in Store : s = "memory" \/ s = "redis"
  BY DEF AnswerLost, LimiterInv, TypeOK, Store
<1>2. passed' \in [Store -> {passed'["memory"], passed'["redis"]}]
  BY <1>1
<1> QED BY <1>1, <1>2 DEF AnswerLost, Came, MemorySide, RedisSide

LEMMA AllowMemory ==
  ASSUME LimiterInv, NEW k \in Key, MemorySide(k), now' = now,
         called' = [called EXCEPT ![k] = Latest(@, Limit)]
  PROVE  /\ memory' \in [Key -> MemoryRecord \cup {None}]
         /\ passed'["memory"] \in [Key -> [1 .. 2 * Limit -> Int]]
         /\ \A j \in Key : MemoryFits(j)'
         /\ \A j \in Key : /\ IsHistory(passed'["memory"][j], 2 * Limit, now)
                           /\ InBudget(passed'["memory"][j], now)
<1> USE LimitsArePositive, BoundsAreNatural, NoneIsNoCount
<1>1. /\ now \in Nat /\ called \in [Key -> [1 .. Limit -> Int]]
      /\ memory \in [Key -> MemoryRecord \cup {None}]
      /\ None \notin MemoryRecord
      /\ passed["memory"] \in [Key -> [1 .. 2 * Limit -> Int]]
      /\ \A j \in Key : /\ IsHistory(passed["memory"][j], 2 * Limit, now)
                        /\ InBudget(passed["memory"][j], now)
                        /\ IsHistory(called[j], Limit, now) /\ MemoryFits(j)
  BY DEF LimiterInv, TypeOK, KeyHistories, Store
<1>2. /\ called'[k] = Latest(called[k], Limit)
      /\ \A j \in Key \ {k} : called'[j] = called[j]
  BY <1>1
<1>3. CASE memory' = memory /\ passed'["memory"] = passed["memory"]
  <2>1. MemoryFits(k)'
    <3>1. CASE memory[k] = None
      BY <1>1, <1>3, <3>1 DEF MemoryFits
    <3>2. CASE memory[k] # None
      <4>1. memory[k].count \in {memory[k].count, memory[k].count + 1}
        OBVIOUS
      <4>2. Fits(passed["memory"][k], Latest(called[k], Limit),
                 memory[k].start, memory[k].count, now)
        BY <1>1, <3>2, <4>1, OtherCallsFit DEF MemoryFits
      <4> QED BY <1>2, <1>3, <3>2, <4>2 DEF MemoryFits
    <3> QED BY <3>1, <3>2
  <2>2. \A j \in Key \ {k} : MemoryFits(j)'
    BY <1>1, <1>2, <1>3 DEF MemoryFits
  <2> QED BY <1>1, <1>3, <2>1, <2>2
<1>4. CASE /\ Admits(k) /\ memory' = Counted(k)
           /\ passed'["memory"] =
                [passed["memory"] EXCEPT ![k] = Latest(@, 2 * Limit)]
  <2>1. /\ passed'["memory"][k] = Latest(passed["memory"][k], 2 * Limit)
        /\ \A j \in Key \ {k} : passed'["memory"][j] = passed["memory"][j]
    BY <1>1, <1>4
  <2>2. /\ memory'[k] \in MemoryRecord
        /\ Fits(passed'["memory"][k], called'[k], memory'[k].start, memory'[k].count, now)
        /\ InBudget(passed'["memory"][k], now)
    BY <1>2, <1>4, <2>1, MemoryCounts
  <2>3. MemoryFits(k)'
    BY <1>1, <2>2 DEF MemoryFits
  <2>4. /\ IsHistory(passed'["memory"][k], 2 * Limit, now)
        /\ passed'["memory"][k] \in [1 .. 2 * Limit -> Int]
    <3>1. 2 * Limit \in Nat \ {0}
      OBVIOUS
    <3>2. IsHistory(passed'["memory"][k], 2 * Limit, now)
      BY <1>1, <2>1, <3>1, LatestIsHistory
    <3> QED BY <3>2 DEF IsHistory
  <2>5. /\ DOMAIN memory' = Key /\ memory' = [j \in Key |-> memory'[j]]
        /\ \A j \in Key \ {k} :
             \/ memory'[j] = memory[j]
             \/ /\ memory[j] # None /\ now - memory[j].start >= 2 * Window
                /\ memory'[j] = None
    BY <1>1, <1>4 DEF Counted, Swept
  <2>6. ASSUME NEW j \in Key \ {k} PROVE MemoryFits(j)'
    <3>1. CASE memory'[j] = memory[j]
      BY <1>1, <1>2, <2>1, <3>1 DEF MemoryFits
    <3>2. CASE /\ memory[j] # None /\ now - memory[j].start >= 2 * Window
               /\ memory'[j] = None
      <4>1. now - memory[j].start >= Window
        <5>1. memory[j].start \in Nat
          BY <1>1, <3>2 DEF MemoryRecord
        <5> QED BY <1>1, <3>2, <5>1
      <4>2. Rested(passed["memory"][j], now)
        BY <1>1, <3>2, <4>1, OverIsRested DEF MemoryFits
      <4> QED BY <2>1, <3>2, <4>2 DEF MemoryFits
    <3> QED BY <2>5, <3>1, <3>2
  <2>7. memory' \in [Key -> MemoryRecord \cup {None}]
    BY <1>1, <2>2, <2>5
  <2>8. passed'["memory"] \in [Key -> [1 .. 2 * Limit -> Int]]
    BY <1>1, <1>4, <2>1, <2>4
  <2> QED BY <1>1, <2>1, <2>2, <2>3, <2>4, <2>6, <2>7, <2>8
<1> QED BY <1>3, <1>4 DEF MemorySide

LEMMA AllowRedis ==
  ASSUME LimiterInv, NEW k \in Key, RedisSide(k), now' = now,
         called' = [called EXCEPT ![k] = Latest(@, Limit)]
  PROVE  /\ redis' \in [Key -> RedisCounter \cup {None}]
         /\ passed'["redis"] \in [Key -> [1 .. 2 * Limit -> Int]]
         /\ \A j \in Key : RedisFits(j)'
         /\ \A j \in Key : /\ IsHistory(passed'["redis"][j], 2 * Limit, now)
                           /\ InBudget(passed'["redis"][j], now)
<1> USE LimitsArePositive, BoundsAreNatural, NoneIsNoCount
<1>1. /\ now \in Nat /\ called \in [Key -> [1 .. Limit -> Int]]
      /\ redis \in [Key -> RedisCounter \cup {None}]
      /\ None \notin RedisCounter
      /\ passed["redis"] \in [Key -> [1 .. 2 * Limit -> Int]]
      /\ \A j \in Key : /\ IsHistory(passed["redis"][j], 2 * Limit, now)
                        /\ InBudget(passed["redis"][j], now)
                        /\ IsHistory(called[j], Limit, now) /\ RedisFits(j)
  BY DEF LimiterInv, TypeOK, KeyHistories, Store
<1>2. /\ called'[k] = Latest(called[k], Limit)
      /\ \A j \in Key \ {k} : called'[j] = called[j]
  BY <1>1
<1>3. CASE redis' = redis /\ passed'["redis"] = passed["redis"]
  <2>1. RedisFits(k)'
    <3>1. CASE redis[k] = None
      BY <1>1, <1>3, <3>1 DEF RedisFits
    <3>2. CASE redis[k] # None
      <4>1. redis[k].count \in {redis[k].count, redis[k].count + 1}
        OBVIOUS
      <4>2. Fits(passed["redis"][k], Latest(called[k], Limit),
                 redis[k].expires - Window, redis[k].count, now)
        BY <1>1, <3>2, <4>1, OtherCallsFit DEF RedisFits
      <4> QED BY <1>1, <1>2, <1>3, <3>2, <4>2 DEF RedisFits
    <3> QED BY <3>1, <3>2
  <2>2. \A j \in Key \ {k} : RedisFits(j)'
    BY <1>1, <1>2, <1>3 DEF RedisFits
  <2> QED BY <1>1, <1>3, <2>1, <2>2
<1>4. CASE /\ RedisCount(k) < MaxCount /\ redis' = Incremented(k)
           /\ \/ passed'["redis"] = passed["redis"]
              \/ /\ RedisCount(k) + 1 <= Limit
                 /\ passed'["redis"] =
                      [passed["redis"] EXCEPT ![k] = Latest(@, 2 * Limit)]
  <2>1. /\ \/ passed'["redis"][k] = passed["redis"][k]
           \/ /\ RedisCount(k) + 1 <= Limit
              /\ passed'["redis"][k] = Latest(passed["redis"][k], 2 * Limit)
        /\ \A j \in Key \ {k} : passed'["redis"][j] = passed["redis"][j]
        /\ passed'["redis"] = [j \in Key |-> passed'["redis"][j]]
    BY <1>1, <1>4
  <2>2. /\ redis'[k] \in RedisCounter /\ redis'[k].expires >= Window
        /\ Fits(passed'["redis"][k], called'[k], redis'[k].expires - Window,
                redis'[k].count, now)
        /\ InBudget(passed'["redis"][k], now)
    BY <1>2, <1>4, <2>1, RedisCounts
  <2>3. RedisFits(k)'
    BY <1>1, <2>2 DEF RedisFits
  <2>4. /\ IsHistory(passed'["redis"][k], 2 * Limit, now)
        /\ passed'["redis"][k] \in [1 .. 2 * Limit -> Int]
    <3>1. 2 * Limit \in Nat \ {0}
      OBVIOUS
    <3>2. IsHistory(passed'["redis"][k], 2 * Limit, now)
      BY <1>1, <2>1, <3>1, LatestIsHistory
    <3> QED BY <3>2 DEF IsHistory
  <2>5. /\ redis' = [j \in Key |-> redis'[j]]
        /\ \A j \in Key \ {k} : redis'[j] = redis[j]
    BY <1>1, <1>4 DEF Incremented
  <2>6. \A j \in Key \ {k} : RedisFits(j)'
    BY <1>1, <1>2, <2>1, <2>5 DEF RedisFits
  <2>7. redis' \in [Key -> RedisCounter \cup {None}]
    BY <1>1, <2>2, <2>5
  <2>8. passed'["redis"] \in [Key -> [1 .. 2 * Limit -> Int]]
    BY <1>1, <2>1, <2>4
  <2> QED BY <1>1, <2>1, <2>2, <2>3, <2>4, <2>6, <2>7, <2>8
<1> QED BY <1>3, <1>4 DEF RedisSide

LEMMA SendInvariant ==
  ASSUME LimiterInv, NEW k \in Key,
         AnswerLost(k) \/ \E ok \in BOOLEAN : Allow(k, ok)
  PROVE  LimiterInv'
<1> USE LimitsArePositive, BoundsAreNatural, NoneIsNoCount
<1>1. /\ now' = now /\ shared' = shared
      /\ called' = [called EXCEPT ![k] = Latest(@, Limit)]
      /\ passed' \in [Store -> {passed'["memory"], passed'["redis"]}]
      /\ MemorySide(k) /\ RedisSide(k)
  BY AllowSides, LostSides
<1>2. /\ now \in 0 .. MaxTime /\ now \in Nat /\ shared \in BOOLEAN
      /\ called \in [Key -> [1 .. Limit -> Int]]
      /\ \A j \in Key : IsHistory(called[j], Limit, now)
  BY DEF LimiterInv, TypeOK, KeyHistories
<1>3. \A j \in Key : IsHistory(called'[j], Limit, now)
  <2>1. IsHistory(called'[k], Limit, now)
    BY <1>1, <1>2, LatestIsHistory
  <2> QED BY <1>1, <1>2, <2>1
<1>4. called' \in [Key -> [1 .. Limit -> Int]]
  BY <1>1, <1>2, <1>3 DEF IsHistory
<1>5. /\ memory' \in [Key -> MemoryRecord \cup {None}]
      /\ passed'["memory"] \in [Key -> [1 .. 2 * Limit -> Int]]
      /\ \A j \in Key : MemoryFits(j)'
      /\ \A j \in Key : /\ IsHistory(passed'["memory"][j], 2 * Limit, now)
                        /\ InBudget(passed'["memory"][j], now)
  BY <1>1, AllowMemory
<1>6. /\ redis' \in [Key -> RedisCounter \cup {None}]
      /\ passed'["redis"] \in [Key -> [1 .. 2 * Limit -> Int]]
      /\ \A j \in Key : RedisFits(j)'
      /\ \A j \in Key : /\ IsHistory(passed'["redis"][j], 2 * Limit, now)
                        /\ InBudget(passed'["redis"][j], now)
  BY <1>1, AllowRedis
<1>7. TypeOK'
  BY <1>1, <1>2, <1>4, <1>5, <1>6 DEF TypeOK, MemoryRecord, RedisCounter
<1>8. \A j \in Key : KeyHistories(j)'
  BY <1>1, <1>3, <1>5, <1>6 DEF KeyHistories, Store
<1> QED BY <1>5, <1>6, <1>7, <1>8 DEF LimiterInv

LEMMA TickInvariant ==
  ASSUME LimiterInv, Tick
  PROVE  LimiterInv'
<1> USE LimitsArePositive, BoundsAreNatural, NoneIsNoCount
<1>1. /\ now \in Nat /\ now' = now + 1 /\ now' \in 0 .. MaxTime
      /\ UNCHANGED <<shared, memory, redis>>
      /\ called' = [k \in Key |-> Faded(called[k])]
      /\ passed' = [s \in Store |-> [k \in Key |-> Faded(passed[s][k])]]
  BY DEF LimiterInv, TypeOK, Tick
<1>2. ASSUME NEW k \in Key
      PROVE  /\ IsHistory(called'[k], Limit, now')
             /\ \A s \in Store : /\ IsHistory(passed'[s][k], 2 * Limit, now')
                                         /\ InBudget(passed'[s][k], now')
  <2>1. IsHistory(called[k], Limit, now)
    BY DEF LimiterInv, KeyHistories
  <2>2. IsHistory(called'[k], Limit, now')
    BY <1>1, <2>1, FadedIsHistory
  <2>3. ASSUME NEW s \in Store
        PROVE  IsHistory(passed'[s][k], 2 * Limit, now') /\ InBudget(passed'[s][k], now')
    <3>1. IsHistory(passed[s][k], 2 * Limit, now) /\ InBudget(passed[s][k], now)
      BY DEF LimiterInv, KeyHistories
    <3>2. 2 * Limit \in Nat \ {0} /\ passed'[s][k] = Faded(passed[s][k])
      BY <1>1
    <3> QED BY <1>1, <3>1, <3>2, FadedIsHistory, FadingRests
  <2> QED BY <2>2, <2>3
<1>3. TypeOK'
  <2>1. called' \in [Key -> [1 .. Limit -> Int]]
    BY <1>1, <1>2 DEF IsHistory
  <2>2. passed' \in [Store -> [Key -> [1 .. 2 * Limit -> Int]]]
    BY <1>1, <1>2 DEF IsHistory
  <2>3. /\ shared' \in BOOLEAN
        /\ memory' \in [Key -> MemoryRecord \cup {None}]
        /\ redis' \in [Key -> RedisCounter \cup {None}]
    BY <1>1 DEF LimiterInv, TypeOK
  <2> QED BY <1>1, <2>1, <2>2, <2>3
       DEF TypeOK, MemoryRecord, RedisCounter
<1>4. ASSUME NEW k \in Key PROVE MemoryFits(k)' /\ RedisFits(k)'
  <2>1. /\ IsHistory(called[k], Limit, now) /\ MemoryFits(k) /\ RedisFits(k)
        /\ IsHistory(passed["memory"][k], 2 * Limit, now)
        /\ IsHistory(passed["redis"][k], 2 * Limit, now)
    BY DEF LimiterInv, KeyHistories, Store
  <2>2. /\ called'[k] = Faded(called[k])
        /\ passed'["memory"][k] = Faded(passed["memory"][k])
        /\ passed'["redis"][k] = Faded(passed["redis"][k])
    BY <1>1 DEF Store
  <2>3. MemoryFits(k)'
    <3>1. CASE memory[k] = None
      BY <1>1, <2>1, <2>2, <3>1, FadingRests DEF MemoryFits
    <3>2. CASE memory[k] # None
      <4>1. memory[k].start \in Nat
        BY <3>2 DEF LimiterInv, TypeOK, MemoryRecord
      <4>2. Fits(passed["memory"][k], called[k], memory[k].start, memory[k].count, now)
        BY <2>1, <3>2 DEF MemoryFits
      <4>3. Fits(passed'["memory"][k], called'[k], memory[k].start, memory[k].count, now')
        BY <1>1, <2>1, <2>2, <4>1, <4>2, FadingFits
      <4> QED BY <1>1, <3>2, <4>3 DEF MemoryFits
    <3> QED BY <3>1, <3>2
  <2>4. RedisFits(k)'
    <3>1. CASE redis[k] = None
      BY <1>1, <2>1, <2>2, <3>1, FadingRests DEF RedisFits
    <3>2. CASE redis[k] # None
      <4>1. redis[k].expires \in Nat /\ redis[k].expires >= Window
        BY <2>1, <3>2 DEF LimiterInv, TypeOK, RedisCounter, RedisFits
      <4>2. Fits(passed["redis"][k], called[k], redis[k].expires - Window, redis[k].count, now)
        BY <2>1, <3>2 DEF RedisFits
      <4>3. redis[k].expires - Window \in Nat
        BY <4>1
      <4>4. Fits(passed'["redis"][k], called'[k], redis[k].expires - Window, redis[k].count, now')
        BY <1>1, <2>1, <2>2, <4>2, <4>3, FadingFits
      <4> QED BY <1>1, <3>2, <4>1, <4>4 DEF RedisFits
    <3> QED BY <3>1, <3>2
  <2> QED BY <2>3, <2>4
<1> QED BY <1>2, <1>3, <1>4 DEF LimiterInv, KeyHistories

LEMMA LimiterRestartInvariant ==
  ASSUME LimiterInv, Restart
  PROVE  LimiterInv'
<1> USE LimitsArePositive, BoundsAreNatural, NoneIsNoCount
<1>1. /\ now \in Nat /\ UNCHANGED <<now, redis, called>>
      /\ memory' = [k \in Key |-> None] /\ shared' \in BOOLEAN
      /\ passed' = [passed EXCEPT !["memory"] = [k \in Key |-> Quiet(2 * Limit)]]
      /\ passed \in [Store -> [Key -> [1 .. 2 * Limit -> Int]]]
      /\ "memory" \in Store /\ "redis" \in Store
      /\ \A s \in Store : s = "memory" \/ s = "redis"
  BY DEF LimiterInv, TypeOK, Restart, Store
<1>2. /\ passed'["memory"] = [k \in Key |-> Quiet(2 * Limit)]
      /\ passed'["redis"] = passed["redis"]
  BY <1>1
<1>3. /\ Quiet(2 * Limit) \in [1 .. 2 * Limit -> Int]
      /\ IsHistory(Quiet(2 * Limit), 2 * Limit, now)
      /\ InBudget(Quiet(2 * Limit), now)
      /\ Rested(Quiet(2 * Limit), now)
  BY <1>1, QuietIsHistory DEF IsHistory
<1>4. passed' \in [Store -> [Key -> [1 .. 2 * Limit -> Int]]]
  BY <1>1, <1>3
<1>5. TypeOK'
  BY <1>1, <1>4 DEF LimiterInv, TypeOK, MemoryRecord, RedisCounter
<1>6. ASSUME NEW k \in Key PROVE KeyHistories(k)' /\ MemoryFits(k)' /\ RedisFits(k)'
  <2>1. KeyHistories(k) /\ RedisFits(k)
    BY DEF LimiterInv
  <2>2. KeyHistories(k)'
    BY <1>1, <1>2, <1>3, <2>1 DEF KeyHistories
  <2>3. MemoryFits(k)' /\ RedisFits(k)'
    BY <1>1, <1>2, <1>3, <2>1 DEF MemoryFits, RedisFits
  <2> QED BY <2>2, <2>3
<1> QED BY <1>5, <1>6 DEF LimiterInv

LEMMA LimiterStep == LimiterInv /\ [Next]_vars => LimiterInv'
<1> SUFFICES ASSUME LimiterInv, [Next]_vars PROVE LimiterInv'
  OBVIOUS
<1>1. CASE \E k \in Key : AnswerLost(k) \/ \E ok \in BOOLEAN : Allow(k, ok)
  BY <1>1, SendInvariant
<1>2. CASE Tick
  BY <1>2, TickInvariant
<1>3. CASE Restart
  BY <1>3, LimiterRestartInvariant
<1>4. CASE UNCHANGED vars
  BY <1>4 DEF LimiterInv, KeyHistories, MemoryFits, RedisFits, vars,
              TypeOK, MemoryRecord, RedisCounter
<1> QED BY <1>1, <1>2, <1>3, <1>4 DEF Next

LEMMA LimiterInvariance == Spec => []LimiterInv
BY LimiterInit, LimiterStep, PTL DEF Spec

-----------------------------------------------------------------------------

\* Counts, expiries and histories stay within their types, restarts and a Redis
\* that comes and goes included.
THEOREM LimiterTypeCorrect == Spec => []TypeOK
<1>1. LimiterInv => TypeOK
  BY DEF LimiterInv
<1> QED BY <1>1, LimiterInvariance, PTL

LEMMA InvInBudget == LimiterInv => BudgetHolds
<1> SUFFICES ASSUME LimiterInv, NEW s \in Store, NEW k \in Key
             PROVE  ~InLastWindow(passed[s][k][2 * Limit])
  BY DEF BudgetHolds
<1>1. /\ now \in Nat /\ passed[s][k][2 * Limit] \in Int
      /\ InBudget(passed[s][k], now)
  BY LimitsArePositive DEF LimiterInv, TypeOK, KeyHistories, IsHistory
<1> QED BY <1>1, LimitsArePositive DEF InLastWindow, InBudget

\* One store lets fewer than twice the limit through in any stretch as long as
\* a window: Redis across restarts, memory since the process's last start
\* (ratelimit.go:34-48, redis_limiter.go:20-29).
THEOREM BudgetAlwaysHolds == Spec => []BudgetHolds
BY InvInBudget, LimiterInvariance, PTL

LEMMA RefusalsAtLimit ==
  ASSUME LimiterInv, NEW k \in Key, Allow(k, FALSE)
  PROVE  InLastWindow(called[k][Limit])
<1> USE LimitsArePositive, BoundsAreNatural, NoneIsNoCount
<1>1. /\ now \in Nat /\ MemoryFits(k) /\ RedisFits(k)
      /\ memory[k] # None => memory[k].start \in Nat /\ memory[k].count \in Nat
      /\ redis[k] # None => redis[k].expires \in Nat /\ redis[k].count \in Nat
      /\ called[k][Limit] \in Int
  BY DEF LimiterInv, TypeOK, MemoryRecord, RedisCounter
<1>2. CASE JudgedByMemory(k, FALSE)
  <2>1. /\ memory[k] # None /\ now - memory[k].start < Window
        /\ ~(memory[k].count < Limit)
    BY <1>1, <1>2
       DEF JudgedByMemory, Admits, OpensWindow, IsOver
  <2>2. Capped(memory[k].count) = Limit
    BY <2>1 DEF Capped
  <2>3. memory[k].start <= called[k][Limit]
    BY <1>1, <2>1, <2>2 DEF MemoryFits, Fits
  <2> QED BY <1>1, <2>1, <2>3 DEF InLastWindow
<1>3. CASE JudgedByRedis(k, FALSE)
  <2>1. ~(RedisCount(k) + 1 <= Limit)
    BY <1>3 DEF JudgedByRedis
  <2>2. /\ redis[k] # None /\ ~(redis[k].expires <= now)
        /\ ~(redis[k].count < Limit)
    BY <1>1, <2>1 DEF RedisCount
  <2>3. Capped(redis[k].count) = Limit
    BY <2>2 DEF Capped
  <2>4. redis[k].expires - Window <= called[k][Limit]
    BY <1>1, <2>2, <2>3 DEF RedisFits, Fits
  <2> QED BY <1>1, <2>2, <2>4 DEF InLastWindow
<1> QED BY <1>2, <1>3 DEF Allow, FallsBack

\* Whoever is turned down, by either store, had Limit sends counted within the
\* last window before, the client's repeats of a lost one included
\* (ratelimit.go:34-43, redis_limiter.go:20-29, 44-64).
THEOREM RefusalsNeedTheLimit == Spec => RefusedOnlyAtLimit
<1>1. LimiterInv => \A k \in Key : Allow(k, FALSE)
                                     => InLastWindow(called[k][Limit])
  BY RefusalsAtLimit
<1> QED BY <1>1, LimiterInvariance, PTL DEF RefusedOnlyAtLimit

-----------------------------------------------------------------------------
(* Sessions.                                                               *)

\* What a cookie was handed out for: its token as the password, or pages that
\* stood open.
FromPassword(c) ==
  proved[c.signedWith] # None /\ c.expires <= proved[c.signedWith] + TTL
FromOpenPages(c) == openedAt # None /\ c.expires <= openedAt + TTL

IInv ==
  /\ now \in Nat
  /\ token \in Token /\ webOpen \in BOOLEAN
  /\ cookies \subseteq Cookie
  /\ proved \in [Token -> Nat \cup {None}]
  /\ openedAt \in Nat \cup {None}
  /\ webOpen => openedAt = now
  /\ openedAt # None => openedAt <= now
  /\ \A t \in Token : proved[t] # None => proved[t] <= now
  /\ \A c \in cookies : FromPassword(c) \/ FromOpenPages(c)

-----------------------------------------------------------------------------

LEMMA SessionIsCookie ==
  ASSUME IInv
  PROVE  /\ Session(now + TTL) \in Cookie
         /\ Session(now + TTL).expires = now + TTL
         /\ Session(now + TTL).signedWith = token
BY SessionsLast DEF IInv, Session, Cookie

\* What earned a cookie still does when nothing is given up for later.
LEMMA CookiesStayEarned ==
  ASSUME IInv, NEW c \in cookies,
         openedAt' \in Nat \cup {None}, proved' \in [Token -> Nat \cup {None}],
         openedAt # None => openedAt' # None /\ openedAt <= openedAt',
         \A t \in Token : proved[t] # None => proved'[t] # None /\ proved[t] <= proved'[t]
  PROVE  FromPassword(c)' \/ FromOpenPages(c)'
<1>1. c.expires \in Nat /\ c.signedWith \in Token /\ TTL \in Nat
  BY SessionsLast DEF IInv, Cookie
<1>2. CASE FromPassword(c)
  <2>1. /\ proved[c.signedWith] \in Nat /\ proved'[c.signedWith] \in Nat
        /\ proved[c.signedWith] <= proved'[c.signedWith] /\ proved'[c.signedWith] # None
    BY <1>1, <1>2 DEF IInv, FromPassword
  <2> QED BY <1>1, <1>2, <2>1 DEF FromPassword
<1>3. CASE FromOpenPages(c)
  BY <1>1, <1>3 DEF IInv, FromOpenPages
<1> QED BY <1>2, <1>3 DEF IInv

\* A cookie set while the pages stand open.
LEMMA OpenPagesKeepInvariant ==
  ASSUME IInv, webOpen, SetCookie, UNCHANGED <<vars, settings, proved, openedAt>>
  PROVE  IInv'
<1> DEFINE new == Session(now + TTL)
<1>1. /\ cookies' = cookies \cup {new} /\ new \in Cookie /\ new.expires = now + TTL
      /\ UNCHANGED <<now, token, webOpen, proved, openedAt>>
  BY SessionIsCookie DEF SetCookie, vars, settings
<1>2. openedAt = now /\ openedAt # None
  BY NoneIsNothing DEF IInv
<1>3. ASSUME NEW c \in cookies'
      PROVE  FromPassword(c)' \/ FromOpenPages(c)'
  <2>1. CASE c \in cookies
    BY <1>1, <2>1 DEF IInv, FromPassword, FromOpenPages
  <2>2. CASE c \notin cookies
    <3>1. c.expires = now + TTL
      BY <1>1, <1>3, <2>2
    <3> QED BY <1>1, <1>2, <3>1, SessionsLast DEF FromOpenPages, IInv
  <2> QED BY <2>1, <2>2
<1>4. cookies' \subseteq Cookie
  BY <1>1 DEF IInv
<1> HIDE DEF new
<1> QED BY <1>1, <1>3, <1>4 DEF IInv

LEMMA LoginKeepsInvariant ==
  ASSUME IInv, NEW k \in Key, NEW password \in Token, Login(k, password)
  PROVE  IInv'
<1> DEFINE new == Session(now + TTL)
<1>1. now' = now /\ UNCHANGED <<token, webOpen, openedAt>>
  BY DEF Login, Allow, settings
<1>2. CASE UNCHANGED <<cookies, proved>>
  BY <1>1, <1>2 DEF IInv, FromPassword, FromOpenPages
<1>3. CASE SetCookie /\ proved' = [proved EXCEPT ![token] = now]
  <2>1. /\ cookies' = cookies \cup {new} /\ new \in Cookie
        /\ new.expires = now + TTL /\ new.signedWith = token
    BY <1>3, SessionIsCookie DEF SetCookie
  <2>2. /\ proved' \in [Token -> Nat \cup {None}] /\ proved'[token] = now
        /\ \A t \in Token \ {token} : proved'[t] = proved[t]
    BY <1>3 DEF IInv
  <2>3. /\ now # None
        /\ \A t \in Token : proved[t] # None =>
             proved'[t] # None /\ proved[t] <= proved'[t] /\ proved'[t] <= now
        /\ \A t \in Token : proved'[t] # None => proved'[t] <= now
    BY <2>2, NoneIsNothing DEF IInv
  <2>4. ASSUME NEW c \in cookies'
        PROVE  FromPassword(c)' \/ FromOpenPages(c)'
    <3>1. CASE c \in cookies
      BY <1>1, <2>2, <2>3, <3>1, CookiesStayEarned DEF IInv
    <3>2. CASE c \notin cookies
      <4>1. c.expires = now + TTL /\ c.signedWith = token
        BY <2>1, <2>4, <3>2
      <4>2. now \in Nat /\ token \in Token
        BY DEF IInv
      <4> QED BY <1>1, <2>2, <2>3, <4>1, <4>2, SessionsLast DEF FromPassword
    <3> QED BY <3>1, <3>2
  <2>5. cookies' \subseteq Cookie
    BY <2>1 DEF IInv
  <2> HIDE DEF new
  <2> QED BY <1>1, <2>1, <2>2, <2>3, <2>4, <2>5 DEF IInv
<1> QED BY <1>2, <1>3 DEF Login

\* Nothing happens that a session depends on.
LEMMA OthersKeepInvariant ==
  ASSUME IInv, UNCHANGED <<now, settings, cookies, proved, openedAt>>
  PROVE  IInv'
BY DEF IInv, FromPassword, FromOpenPages, settings

LEMMA TimeKeepsInvariant ==
  ASSUME IInv, TimePasses
  PROVE  IInv'
<1>1. /\ now' = now + 1
      /\ openedAt' = IF webOpen THEN now' ELSE openedAt
      /\ UNCHANGED <<token, webOpen, cookies, proved>>
  BY DEF TimePasses, Tick, settings
<1>2. /\ openedAt' \in Nat \cup {None}
      /\ openedAt' # None => openedAt' <= now'
      /\ openedAt # None => openedAt' # None /\ openedAt <= openedAt'
      /\ \A t \in Token : proved[t] # None => proved[t] \in Nat /\ proved[t] <= now'
  BY <1>1, NoneIsNothing DEF IInv
<1>3. \A c \in cookies : FromPassword(c)' \/ FromOpenPages(c)'
  BY <1>1, <1>2, CookiesStayEarned DEF IInv
<1> QED BY <1>1, <1>2, <1>3 DEF IInv

LEMMA RestartKeepsInvariant ==
  ASSUME IInv, Redeploy
  PROVE  IInv'
<1>1. /\ now' = now /\ token' \in Token /\ webOpen' \in BOOLEAN
      /\ openedAt' = IF webOpen' THEN now ELSE openedAt
      /\ UNCHANGED <<cookies, proved>>
  BY DEF Redeploy, Restart
<1>2. /\ openedAt' \in Nat \cup {None}
      /\ openedAt # None => openedAt' # None /\ openedAt <= openedAt'
      /\ \A t \in Token : proved[t] # None => proved[t] <= proved[t]
  BY <1>1, NoneIsNothing DEF IInv
<1>3. \A c \in cookies : FromPassword(c)' \/ FromOpenPages(c)'
  BY <1>1, <1>2, CookiesStayEarned DEF IInv
<1> QED BY <1>1, <1>2, <1>3 DEF IInv

LEMMA Invariance == AdminSpec => []IInv
<1>1. AdminInit => IInv
  BY DEF AdminInit, Init, IInv
<1>2. IInv /\ [AdminNext]_adminVars => IInv'
  <2> SUFFICES ASSUME IInv, [AdminNext]_adminVars PROVE IInv'
    OBVIOUS
  <2>1. CASE LoginWithoutPassword
    BY <2>1, OpenPagesKeepInvariant DEF LoginWithoutPassword
  <2>2. CASE \E k \in Key, password \in Token : Login(k, password)
    BY <2>2, LoginKeepsInvariant
  <2>3. CASE \E k \in Key : LoginSentAgain(k)
    BY <2>3, OthersKeepInvariant DEF LoginSentAgain, AnswerLost
  <2>4. CASE \E c \in cookies \cup {None} : OpenPage(c)
    BY <2>4, OpenPagesKeepInvariant, OthersKeepInvariant DEF OpenPage, vars
  <2>5. CASE TimePasses
    BY <2>5, TimeKeepsInvariant
  <2>6. CASE Redeploy
    BY <2>6, RestartKeepsInvariant
  <2>7. CASE UNCHANGED adminVars
    BY <2>7, OthersKeepInvariant DEF adminVars, vars, settings
  <2> QED BY <2>1, <2>2, <2>3, <2>4, <2>5, <2>6, <2>7 DEF AdminNext
<1> QED BY <1>1, <1>2, PTL DEF AdminSpec

-----------------------------------------------------------------------------

\* A session that counts was handed out less than its length ago, for today's
\* token or while the pages stood open (admin_ui.go:202-273).
LEMMA ValidSessionsAreEarned ==
  ASSUME IInv, NEW c \in cookies, SessionValid(c)
  PROVE  Earned
<1>1. now < c.expires /\ c.signedWith = token
  BY DEF SessionValid, Session
<1>2. c.expires \in Nat /\ TTL \in Nat
  BY SessionsLast DEF IInv, Cookie
<1>3. CASE FromPassword(c)
  BY <1>1, <1>2, <1>3 DEF IInv, FromPassword, Earned
<1>4. CASE FromOpenPages(c)
  BY <1>1, <1>2, <1>4 DEF IInv, FromOpenPages, Earned
<1> QED BY <1>3, <1>4 DEF IInv

\* Whoever is served on an admin route shows the token, or a session while one
\* was earned less than a session's length ago (admin_ui.go:142-187).
THEOREM OnlyEarnedSessionsAreServed == AdminSpec => []SessionsAreEarned
<1>1. IInv => SessionsAreEarned
  <2> SUFFICES ASSUME IInv, NEW bearer \in Token \cup {None},
                      NEW c \in cookies \cup {None}, NEW reads \in BOOLEAN,
                      NEW sameOrigin \in BOOLEAN, Served(bearer, c, reads, sameOrigin)
               PROVE  bearer = token \/ Earned
    BY DEF SessionsAreEarned
  <2>1. SessionValid(c) => c \in cookies
    BY DEF SessionValid
  <2> QED BY <2>1, ValidSessionsAreEarned DEF Served, BearerValid
<1> QED BY <1>1, Invariance, PTL

-----------------------------------------------------------------------------

LEMMA LimiterStepsOrStutters ==
  ASSUME [AdminNext]_adminVars
  PROVE  [Next]_vars
<1>1. CASE LoginWithoutPassword \/ \E c \in cookies \cup {None} : OpenPage(c)
  BY <1>1 DEF LoginWithoutPassword, OpenPage
<1>2. ASSUME NEW k \in Key, NEW password \in Token, Login(k, password)
      PROVE  Next
  BY <1>2 DEF Login, Next
<1>3. ASSUME NEW k \in Key, LoginSentAgain(k) PROVE Next
  BY <1>3 DEF LoginSentAgain, Next
<1>4. CASE TimePasses \/ Redeploy
  BY <1>4 DEF TimePasses, Redeploy, Next
<1>5. CASE UNCHANGED adminVars
  BY <1>5 DEF adminVars
<1> QED BY <1>1, <1>2, <1>3, <1>4, <1>5 DEF AdminNext

\* Whatever the admin interface does is, to the limiter, a call, time or a
\* restart, or nothing at all (admin_ui.go:142-187).
THEOREM LoginsAreLimiterCalls == AdminSpec => Spec
<1>1. AdminInit => Init
  BY DEF AdminInit
<1>2. [AdminNext]_adminVars => [Next]_vars
  BY LimiterStepsOrStutters
<1> QED BY <1>1, <1>2, PTL DEF AdminSpec, Spec

\* The login keeps the limiter's budget: Redis lets fewer than twice the limit's
\* guesses from an address through in any stretch as long as a window, whatever
\* restarts; the memory of a process does since that process started.  Guesses
\* that different stores, or memory before and after a restart, let through add
\* up to more.
THEOREM GuessesAreLimited == AdminSpec => []BudgetHolds
BY LoginsAreLimiterCalls, BudgetAlwaysHolds, PTL

\* Every reachable state is well typed, the limiter's part of it included.
THEOREM AccessTypeCorrect == AdminSpec => []AdminTypeOK
<1>1. IInv /\ TypeOK => AdminTypeOK
  BY DEF IInv, AdminTypeOK
<1> QED BY <1>1, Invariance, LoginsAreLimiterCalls, LimiterTypeCorrect, PTL
=============================================================================
