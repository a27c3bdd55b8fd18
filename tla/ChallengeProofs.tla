--------------------------- MODULE ChallengeProofs ---------------------------
(***************************************************************************)
(* What Challenge guarantees for any number of challenges and clients and  *)
(* any durations and threshold.                                            *)
(***************************************************************************)
EXTENDS Challenge, TLAPS

-----------------------------------------------------------------------------
(* The inductive invariant: what ties the maps to the history. *)

\* A record was issued, expires TTL later, has not paid for anything and
\* carries the number of failures it was tried with.
RecordsFollowHistory ==
  \A c \in ChallengeId :
    records[c] # None =>
      /\ issuedAt[c] \in 0 .. now
      /\ records[c].expiresAt = issuedAt[c] + TTL
      /\ redeemed[c] = 0
      /\ failures[c] = records[c].failCount

\* An identifier that was never drawn has no history.
UnissuedIsUnused ==
  \A c \in ChallengeId :
    issuedAt[c] = None => redeemed[c] = 0 /\ failures[c] = 0

IInv ==
  /\ TypeOK
  /\ RecordsFollowHistory
  /\ UnissuedIsUnused
  /\ SingleUse
  /\ BlockServedInFull
  /\ \A ip \in ClientIP : penalisedAt[ip] # None => penalisedAt[ip] <= now

-----------------------------------------------------------------------------
(* Lemmas about the operators *)

\* cleanup keeps the maps well typed and only ever removes entries.
LEMMA SweepOnlyRemoves ==
  ASSUME TypeOK
  PROVE  /\ CleanRecords \in [ChallengeId -> Record \cup {None}]
         /\ CleanBlocks \in [ClientIP -> Nat \cup {None}]
         /\ \A c \in ChallengeId :
              CleanRecords[c] # None =>
                CleanRecords[c] = records[c] /\ records[c].expiresAt >= now
         /\ \A ip \in ClientIP :
              CleanBlocks[ip] # None =>
                CleanBlocks[ip] = blockedClientIP[ip] /\ blockedClientIP[ip] >= now
         /\ \A ip \in ClientIP :
              blockedClientIP[ip] # None /\ blockedClientIP[ip] >= now =>
                CleanBlocks[ip] = blockedClientIP[ip]
<1>1. now \in Nat
  BY DurationsAreNatural DEF TypeOK, Time
<1>2. \A c \in ChallengeId :
        records[c] # None => records[c] \in Record /\ records[c].expiresAt \in Nat
  BY DEF TypeOK, Record
<1>3. \A ip \in ClientIP : blockedClientIP[ip] # None => blockedClientIP[ip] \in Nat
  BY DEF TypeOK
<1>4. CleanRecords \in [ChallengeId -> Record \cup {None}]
  BY <1>2 DEF CleanRecords
<1>5. CleanBlocks \in [ClientIP -> Nat \cup {None}]
  BY <1>3 DEF CleanBlocks
<1>6. \A c \in ChallengeId :
        CleanRecords[c] # None =>
          CleanRecords[c] = records[c] /\ records[c].expiresAt >= now
  BY <1>1, <1>2 DEF CleanRecords
<1> QED BY <1>1, <1>3, <1>4, <1>5, <1>6 DEF CleanBlocks

-----------------------------------------------------------------------------
(* The invariant holds initially and every action preserves it. *)

LEMMA InitInvariant == Init => IInv
BY NoneIsNoEntry, DurationsAreNatural
   DEF Init, IInv, TypeOK, Time, RecordsFollowHistory, UnissuedIsUnused,
       SingleUse, BlockServedInFull, Serving

LEMMA TickInvariant == IInv /\ Tick => IInv'
<1> SUFFICES ASSUME IInv, Tick PROVE IInv'
  OBVIOUS
<1> USE DEF IInv, Tick, history
<1>1. now \in Nat /\ now' = now + 1
  BY DurationsAreNatural DEF TypeOK, Time
<1>2. TypeOK'
  BY DurationsAreNatural DEF TypeOK, Time
<1>3. RecordsFollowHistory' /\ UnissuedIsUnused' /\ SingleUse'
  BY <1>1 DEF RecordsFollowHistory, UnissuedIsUnused, SingleUse
<1>4. BlockServedInFull'
  BY <1>1, NoneIsNoEntry, DurationsAreNatural DEF BlockServedInFull, Serving, TypeOK
<1>5. \A ip \in ClientIP : penalisedAt'[ip] # None => penalisedAt'[ip] <= now'
  BY <1>1, NoneIsNoEntry DEF TypeOK
<1> QED BY <1>2, <1>3, <1>4, <1>5

LEMMA IssueInvariant ==
  ASSUME NEW c \in ChallengeId, NEW ip \in ClientIP, NEW bits \in PoWBits,
         IInv, Issue(c, ip, bits)
  PROVE  IInv'
<1> USE DEF IInv, Issue
<1>1. now \in Nat /\ now' = now /\ TTL \in Nat
  BY DurationsAreNatural DEF TypeOK, Time
<1>2. NewRecord(ip, bits) \in Record
  BY <1>1, ThresholdIsPositive, DifficultiesAreNatural DEF NewRecord, Record
<1>3. TypeOK'
  BY <1>1, <1>2, SweepOnlyRemoves DEF TypeOK
<1>4. RecordsFollowHistory'
  <2> SUFFICES ASSUME NEW d \in ChallengeId, records'[d] # None
               PROVE  /\ issuedAt'[d] \in 0 .. now'
                      /\ records'[d].expiresAt = issuedAt'[d] + TTL
                      /\ redeemed'[d] = 0
                      /\ failures'[d] = records'[d].failCount
    BY DEF RecordsFollowHistory
  <2>1. CASE d = c
    BY <1>1, <2>1, SweepOnlyRemoves DEF UnissuedIsUnused, TypeOK, NewRecord
  <2>2. CASE d # c
    BY <1>1, <2>2, SweepOnlyRemoves DEF RecordsFollowHistory, TypeOK
  <2> QED BY <2>1, <2>2
<1>5. UnissuedIsUnused' /\ SingleUse'
  BY <1>1, NoneIsNoEntry DEF UnissuedIsUnused, SingleUse, TypeOK
<1>6. BlockServedInFull'
  BY <1>1, SweepOnlyRemoves, NoneIsNoEntry, DurationsAreNatural
     DEF BlockServedInFull, Serving, TypeOK
<1> QED BY <1>1, <1>3, <1>4, <1>5, <1>6

LEMMA RefusedInvariant ==
  ASSUME NEW c \in ChallengeId, NEW ip \in ClientIP, NEW ts \in Time,
         IInv, VerifyRefused(c, ip, ts)
  PROVE  IInv'
<1> USE DEF IInv, VerifyRefused, history
<1>1. now \in Nat /\ now' = now
  BY DurationsAreNatural DEF TypeOK, Time
<1>2. TypeOK'
  BY SweepOnlyRemoves DEF TypeOK
<1>3. RecordsFollowHistory' /\ UnissuedIsUnused' /\ SingleUse'
  BY SweepOnlyRemoves DEF RecordsFollowHistory, UnissuedIsUnused, SingleUse
<1>4. BlockServedInFull'
  BY <1>1, SweepOnlyRemoves, NoneIsNoEntry, DurationsAreNatural
     DEF BlockServedInFull, Serving, TypeOK
<1> QED BY <1>1, <1>2, <1>3, <1>4

LEMMA AcceptedInvariant ==
  ASSUME NEW c \in ChallengeId, NEW ip \in ClientIP, NEW ts \in Time,
         NEW pow \in PoWProof, NEW signed \in BOOLEAN,
         IInv, VerifyAccepted(c, ip, ts, pow, signed)
  PROVE  IInv'
<1> USE DEF IInv, VerifyAccepted, Consumed
<1>1. now \in Nat /\ now' = now
  BY DurationsAreNatural DEF TypeOK, Time
<1>2. records[c] # None
  BY SweepOnlyRemoves DEF Admissible
<1>3. TypeOK'
  BY SweepOnlyRemoves DEF TypeOK
<1>4. RecordsFollowHistory'
  BY SweepOnlyRemoves DEF RecordsFollowHistory, TypeOK
<1>5. UnissuedIsUnused' /\ SingleUse'
  BY <1>1, <1>2, NoneIsNoEntry
     DEF RecordsFollowHistory, UnissuedIsUnused, SingleUse, TypeOK
<1>6. BlockServedInFull'
  BY <1>1, SweepOnlyRemoves, NoneIsNoEntry, DurationsAreNatural
     DEF BlockServedInFull, Serving, TypeOK
<1> QED BY <1>1, <1>3, <1>4, <1>5, <1>6

LEMMA FailedInvariant ==
  ASSUME NEW c \in ChallengeId, NEW ip \in ClientIP, NEW ts \in Time,
         NEW pow \in PoWProof, NEW signed \in BOOLEAN,
         IInv, VerifyFailed(c, ip, ts, pow, signed)
  PROVE  IInv'
<1> DEFINE n == CleanRecords[c].failCount + 1
<1> USE DEF IInv, VerifyFailed
<1>1. now \in Nat /\ now' = now /\ now + BlockDuration \in Nat
  BY DurationsAreNatural DEF TypeOK, Time
<1>2. /\ records[c] # None
      /\ CleanRecords[c] = records[c]
      /\ records[c] \in Record
      /\ failures[c] + 1 = n
      /\ n \in Nat
  BY SweepOnlyRemoves, ThresholdIsPositive
     DEF Admissible, TypeOK, RecordsFollowHistory, Record
<1>3. UnissuedIsUnused' /\ SingleUse'
  BY <1>1, <1>2, NoneIsNoEntry
     DEF RecordsFollowHistory, UnissuedIsUnused, SingleUse, TypeOK
<1>4. CASE ReachesThreshold(n)
  <2> USE <1>4 DEF RegisterFailure, Withdrawn, BlockEnd
  <2>1. TypeOK'
    BY <1>1, <1>2, SweepOnlyRemoves DEF TypeOK
  <2>2. RecordsFollowHistory'
    BY <1>1, <1>2, SweepOnlyRemoves DEF RecordsFollowHistory, TypeOK
  <2>3. BlockServedInFull'
    BY <1>1, SweepOnlyRemoves, NoneIsNoEntry, DurationsAreNatural
       DEF BlockServedInFull, Serving, TypeOK
  <2>4. \A q \in ClientIP : penalisedAt'[q] # None => penalisedAt'[q] <= now'
    BY <1>1 DEF TypeOK
  <2> QED BY <1>3, <2>1, <2>2, <2>3, <2>4
<1>5. CASE ~ReachesThreshold(n)
  <2> USE <1>5 DEF RegisterFailure
  <2>1. [records[c] EXCEPT !.failCount = n] \in Record
    BY <1>2, ThresholdIsPositive DEF Record, ReachesThreshold
  <2>2. records' = [CleanRecords EXCEPT ![c] = [records[c] EXCEPT !.failCount = n]]
    BY <1>2
  <2>3. TypeOK'
    BY <1>1, <1>2, <2>1, <2>2, SweepOnlyRemoves DEF TypeOK
  <2>4. RecordsFollowHistory'
    <3> SUFFICES ASSUME NEW d \in ChallengeId, records'[d] # None
                 PROVE  /\ issuedAt'[d] \in 0 .. now'
                        /\ records'[d].expiresAt = issuedAt'[d] + TTL
                        /\ redeemed'[d] = 0
                        /\ failures'[d] = records'[d].failCount
      BY DEF RecordsFollowHistory
    <3>1. CASE d = c
      <4>1. records'[c] = [records[c] EXCEPT !.failCount = n]
        BY <2>2, SweepOnlyRemoves
      <4>2. /\ records'[c].expiresAt = records[c].expiresAt
            /\ records'[c].failCount = n
        BY <1>2, <4>1 DEF Record
      <4>3. failures'[c] = failures[c] + 1
        BY DEF TypeOK
      <4> QED BY <1>1, <1>2, <3>1, <4>2, <4>3 DEF RecordsFollowHistory
    <3>2. CASE d # c
      BY <1>1, <2>2, <3>2, SweepOnlyRemoves DEF RecordsFollowHistory, TypeOK
    <3> QED BY <3>1, <3>2
  <2>5. BlockServedInFull'
    BY <1>1, SweepOnlyRemoves, NoneIsNoEntry, DurationsAreNatural
       DEF BlockServedInFull, Serving, TypeOK
  <2> QED BY <1>1, <1>3, <2>3, <2>4, <2>5
<1> QED BY <1>4, <1>5

LEMMA RestartInvariant == IInv /\ Restart => IInv'
<1> SUFFICES ASSUME IInv, Restart PROVE IInv'
  OBVIOUS
<1> USE DEF IInv, Restart
<1>1. TypeOK'
  BY DEF TypeOK
<1>2. RecordsFollowHistory' /\ UnissuedIsUnused' /\ SingleUse'
  BY DEF RecordsFollowHistory, UnissuedIsUnused, SingleUse
<1>3. \A ip \in ClientIP : ~Serving(ip)'
  BY DEF Serving
<1>4. BlockServedInFull'
  BY <1>3 DEF BlockServedInFull
<1> QED BY <1>1, <1>2, <1>4

LEMMA NextInvariant == IInv /\ [Next]_vars => IInv'
<1> SUFFICES ASSUME IInv, [Next]_vars PROVE IInv'
  OBVIOUS
<1>1. CASE Tick
  BY <1>1, TickInvariant
<1>2. ASSUME NEW c \in ChallengeId, NEW ip \in ClientIP, NEW bits \in PoWBits,
             Issue(c, ip, bits)
      PROVE  IInv'
  BY <1>2, IssueInvariant
<1>3. ASSUME NEW c \in ChallengeId, NEW ip \in ClientIP, NEW ts \in Time,
             NEW pow \in PoWProof, NEW signed \in BOOLEAN,
             Verify(c, ip, ts, pow, signed)
      PROVE  IInv'
  BY <1>3, RefusedInvariant, FailedInvariant, AcceptedInvariant DEF Verify
<1>4. CASE UNCHANGED vars
  BY <1>4 DEF vars, IInv, TypeOK, RecordsFollowHistory, UnissuedIsUnused,
              SingleUse, BlockServedInFull, Serving
<1>5. CASE Restart
  BY <1>5, RestartInvariant
<1> QED BY <1>1, <1>2, <1>3, <1>4, <1>5 DEF Next

-----------------------------------------------------------------------------
(* The theorems *)

\* IInv holds in every reachable state.
LEMMA Invariance == Spec => []IInv
<1>1. IInv /\ [Next]_vars => IInv'
  BY NextInvariant
<1> QED BY InitInvariant, <1>1, PTL DEF Spec

\* Every variable keeps its type; in particular no stored challenge is marked
\* used or has reached the threshold.
THEOREM TypeCorrect == Spec => []TypeOK
<1>1. IInv => TypeOK
  BY DEF IInv
<1> QED BY <1>1, Invariance, PTL

\* VerifySubmission lets each challenge pay for at most one submission, for
\* every interleaving of any number of clients and challenges.
THEOREM ChallengesAreSingleUse == Spec => []SingleUse
<1>1. IInv => SingleUse
  BY DEF IInv
<1> QED BY <1>1, Invariance, PTL

\* registerFailure: a challenge still held has failed fewer than FailThreshold
\* times in all.
THEOREM FailuresStayInBudget == Spec => []FailureBudget
<1>1. IInv => FailureBudget
  <2> SUFFICES ASSUME IInv, NEW c \in ChallengeId, records[c] # None
               PROVE  failures[c] < FailThreshold
    BY DEF FailureBudget
  <2>1. failures[c] = records[c].failCount
    BY DEF IInv, RecordsFollowHistory
  <2>2. records[c].failCount \in 0 .. FailThreshold - 1
    BY DEF IInv, TypeOK, Record
  <2> QED BY <2>1, <2>2, ThresholdIsPositive
<1> QED BY <1>1, Invariance, PTL

\* registerFailure and cleanup: a block stands for its full length, as long as
\* the process that imposed it lives.
THEOREM BlocksAreServedInFull == Spec => []BlockServedInFull
<1>1. IInv => BlockServedInFull
  BY DEF IInv
<1> QED BY <1>1, Invariance, PTL

\* VerifySubmission: what is redeemed was issued at most TTL before.
THEOREM RedemptionIsInTime == Spec => RedeemedInTime
<1> DEFINE Timely ==
      \A c \in ChallengeId :
        redeemed'[c] > redeemed[c] =>
          /\ issuedAt[c] # None
          /\ now <= issuedAt[c] + TTL
<1>1. IInv /\ [Next]_vars => [Timely]_vars
  <2> SUFFICES ASSUME IInv, Next, NEW d \in ChallengeId, redeemed'[d] > redeemed[d]
               PROVE  issuedAt[d] # None /\ now <= issuedAt[d] + TTL
    OBVIOUS
  <2>1. redeemed[d] \in Nat /\ now \in Nat
    BY DurationsAreNatural DEF IInv, TypeOK, Time
  <2>2. PICK c \in ChallengeId, ip \in ClientIP, ts \in Time, pow \in PoWProof,
             signed \in BOOLEAN : VerifyAccepted(c, ip, ts, pow, signed)
    BY <2>1 DEF Next, Tick, Restart, Issue, Verify, VerifyRefused, VerifyFailed, history
  <2>3. d = c
    BY <2>1, <2>2 DEF VerifyAccepted, IInv, TypeOK
  <2>4. records[c] # None /\ records[c].expiresAt >= now
    BY <2>2, SweepOnlyRemoves DEF VerifyAccepted, Admissible, IInv
  <2> QED BY <2>1, <2>3, <2>4, NoneIsNoEntry DEF IInv, RecordsFollowHistory
<1> QED BY <1>1, Invariance, PTL DEF Spec, RedeemedInTime

\* VerifySubmission: a client gets nothing through while it is under a block of
\* the process that runs, and nothing it tries counts against it.
THEOREM BlocksHold == Spec => BlockedClientsWait
<1> DEFINE Waits ==
      \A c \in ChallengeId, ip \in ClientIP :
        /\ records[c] # None /\ records[c].ip = ip
        /\ Serving(ip)
        /\ now < penalisedAt[ip] + BlockDuration
        => redeemed'[c] = redeemed[c] /\ failures'[c] = failures[c]
<1>1. IInv /\ [Next]_vars => [Waits]_vars
  <2> SUFFICES ASSUME IInv, Next, NEW d \in ChallengeId, NEW q \in ClientIP,
                      records[d] # None, records[d].ip = q, Serving(q),
                      now < penalisedAt[q] + BlockDuration
               PROVE  redeemed'[d] = redeemed[d] /\ failures'[d] = failures[d]
    OBVIOUS
  <2>1. now \in Nat /\ penalisedAt[q] \in Nat
    BY DurationsAreNatural DEF IInv, TypeOK, Time, Serving
  <2>2. IsBlocked(q)
    BY <2>1, SweepOnlyRemoves, NoneIsNoEntry, DurationsAreNatural
       DEF IsBlocked, IInv, BlockServedInFull, Serving
  <2>3. \A ip \in ClientIP, ts \in Time : ~Admissible(d, ip, ts)
    BY <2>2, SweepOnlyRemoves DEF Admissible, IInv
  <2>4. CASE Tick \/ Restart
    BY <2>4 DEF Tick, Restart, history
  <2>5. ASSUME NEW c \in ChallengeId, NEW ip \in ClientIP, NEW bits \in PoWBits,
               Issue(c, ip, bits)
        PROVE  redeemed'[d] = redeemed[d] /\ failures'[d] = failures[d]
    BY <2>5 DEF Issue
  <2>6. ASSUME NEW c \in ChallengeId, NEW ip \in ClientIP, NEW ts \in Time,
               NEW pow \in PoWProof, NEW signed \in BOOLEAN,
               Verify(c, ip, ts, pow, signed)
        PROVE  redeemed'[d] = redeemed[d] /\ failures'[d] = failures[d]
    <3>1. CASE VerifyRefused(c, ip, ts)
      BY <3>1 DEF VerifyRefused, history
    <3>2. CASE VerifyFailed(c, ip, ts, pow, signed)
      BY <2>3, <3>2 DEF VerifyFailed, IInv, TypeOK
    <3>3. CASE VerifyAccepted(c, ip, ts, pow, signed)
      BY <2>3, <3>3 DEF VerifyAccepted, IInv, TypeOK
    <3> QED BY <2>6, <3>1, <3>2, <3>3 DEF Verify
  <2> QED BY <2>4, <2>5, <2>6 DEF Next
<1> QED BY <1>1, Invariance, PTL DEF Spec, BlockedClientsWait

\* What the sweep of a call leaves has not expired.
LEMMA SweepIsThorough ==
  ASSUME TypeOK
  PROVE  /\ \A c \in ChallengeId :
              CleanRecords[c] # None => CleanRecords[c].expiresAt >= now
         /\ \A ip \in ClientIP :
              CleanBlocks[ip] # None => CleanBlocks[ip] >= now
<1>1. /\ now \in Nat
      /\ \A c \in ChallengeId : records[c] # None => records[c].expiresAt \in Nat
      /\ \A ip \in ClientIP : blockedClientIP[ip] # None => blockedClientIP[ip] \in Nat
  BY DurationsAreNatural DEF TypeOK, Time, Record
<1> QED BY <1>1 DEF CleanRecords, CleanBlocks

\* cleanup: whatever a call adds to what it swept ends later than it, so that
\* the maps hold nothing that was over when somebody last called.
THEOREM CallsSweep == Spec => SweptByEveryCall
<1> DEFINE Swept ==
      now' = now =>
        /\ \A c \in ChallengeId :
             records'[c] # None => records'[c].expiresAt >= now
        /\ \A ip \in ClientIP :
             blockedClientIP'[ip] # None => blockedClientIP'[ip] >= now
<1>1. IInv /\ [Next]_vars => [Swept]_vars
  <2> SUFFICES ASSUME IInv, Next, now' = now
               PROVE  /\ \A c \in ChallengeId :
                           records'[c] # None => records'[c].expiresAt >= now
                      /\ \A ip \in ClientIP :
                           blockedClientIP'[ip] # None => blockedClientIP'[ip] >= now
    OBVIOUS
  <2>1. /\ now \in Nat /\ CleanRecords \in [ChallengeId -> Record \cup {None}]
        /\ CleanBlocks \in [ClientIP -> Nat \cup {None}]
        /\ \A c \in ChallengeId :
             CleanRecords[c] # None => CleanRecords[c].expiresAt >= now
        /\ \A ip \in ClientIP : CleanBlocks[ip] # None => CleanBlocks[ip] >= now
    BY SweepIsThorough, SweepOnlyRemoves, DurationsAreNatural DEF IInv, TypeOK, Time
  <2>2. CASE Tick \/ Restart
    BY <2>1, <2>2 DEF Tick, Restart
  <2>3. ASSUME NEW c \in ChallengeId, NEW ip \in ClientIP, NEW bits \in PoWBits,
               Issue(c, ip, bits)
        PROVE  /\ \A d \in ChallengeId :
                    records'[d] # None => records'[d].expiresAt >= now
               /\ blockedClientIP' = CleanBlocks
    BY <2>1, <2>3, DurationsAreNatural DEF Issue, NewRecord
  <2>4. ASSUME NEW c \in ChallengeId, NEW ip \in ClientIP, NEW ts \in Time,
               NEW pow \in PoWProof, NEW signed \in BOOLEAN,
               VerifyRefused(c, ip, ts) \/ VerifyAccepted(c, ip, ts, pow, signed)
        PROVE  /\ \A d \in ChallengeId : records'[d] \in {CleanRecords[d], None}
               /\ blockedClientIP' = CleanBlocks
    BY <2>1, <2>4 DEF VerifyRefused, VerifyAccepted, Consumed
  <2>5. ASSUME NEW c \in ChallengeId, NEW ip \in ClientIP, NEW ts \in Time,
               NEW pow \in PoWProof, NEW signed \in BOOLEAN,
               VerifyFailed(c, ip, ts, pow, signed)
        PROVE  /\ \A d \in ChallengeId :
                    records'[d] # None => records'[d].expiresAt >= now
               /\ \A q \in ClientIP :
                    blockedClientIP'[q] # None => blockedClientIP'[q] >= now
    <3> DEFINE n == CleanRecords[c].failCount + 1
    <3>1. CleanRecords[c] \in Record
      BY <2>1, <2>5 DEF VerifyFailed, Admissible
    <3>2. CASE ReachesThreshold(n)
      <4>1. /\ records' = [CleanRecords EXCEPT ![c] = None]
            /\ blockedClientIP' = [CleanBlocks EXCEPT ![ip] = now + BlockDuration]
        BY <2>5, <3>2 DEF VerifyFailed, RegisterFailure, Withdrawn, BlockEnd
      <4> QED BY <2>1, <4>1, DurationsAreNatural
    <3>3. CASE ~ReachesThreshold(n)
      <4>1. /\ records' = [CleanRecords EXCEPT ![c].failCount = n]
            /\ blockedClientIP' = CleanBlocks
        BY <2>5, <3>3 DEF VerifyFailed, RegisterFailure
      <4>2. records'[c].expiresAt = CleanRecords[c].expiresAt
        BY <2>1, <3>1, <4>1 DEF Record
      <4>3. CleanRecords[c] # None
        BY <2>5 DEF VerifyFailed, Admissible
      <4> QED BY <2>1, <4>1, <4>2, <4>3
    <3> QED BY <3>2, <3>3
  <2> QED BY <2>1, <2>2, <2>3, <2>4, <2>5 DEF Next, Verify
<1> QED BY <1>1, Invariance, PTL DEF Spec, SweptByEveryCall
=============================================================================
