------------------------------ MODULE Challenge ------------------------------
(***************************************************************************)
(* ChallengeManager (src/internal/security/challenge.go): one-time         *)
(* challenges that a client must redeem, with a proof of work and a        *)
(* signature, to post an issue, a comment or a survey answer.              *)
(*                                                                         *)
(* Issue and VerifySubmission each hold the manager's mutex from their     *)
(* first to their last line and read the clock once, under the mutex, so   *)
(* each is one action.  Requests of any number of clients interleave at    *)
(* the grain of these actions.  What the manager knows is in memory only:  *)
(* a restart of the process empties it, blocks included.                   *)
(*                                                                         *)
(* Abstracted: a challenge's secret, nonce and salt are its identity; the  *)
(* HMAC and the SHA-256 digest are the verdicts "valid" and "invalid" an   *)
(* attempt carries; a duration is a number of clock ticks.                 *)
(***************************************************************************)
EXTENDS Integers

CONSTANTS
  ChallengeId,    \* identifiers randomHex can return; never drawn twice
  ClientIP,
  PoWBits,        \* difficulties a challenge can be issued with; 0: none asked
  TTL,            \* CHALLENGE_TTL_SECONDS
  Skew,           \* TIMESTAMP_SKEW_SECONDS
  FailThreshold,  \* CHALLENGE_FAIL_THRESHOLD
  BlockDuration,  \* CHALLENGE_BLOCK_SECONDS
  MaxTime,        \* bound on the clock
  None            \* an absent map entry

ASSUME DurationsAreNatural ==
  TTL \in Nat /\ Skew \in Nat /\ BlockDuration \in Nat /\ MaxTime \in Nat
ASSUME ThresholdIsPositive == FailThreshold \in Nat \ {0}
ASSUME DifficultiesAreNatural == PoWBits \subseteq Nat

Time == 0 .. MaxTime

\* challengeRecord: what the server keeps about an outstanding challenge.
Record ==
  [ip : ClientIP, powBits : PoWBits, expiresAt : Nat, used : BOOLEAN,
   failCount : 0 .. FailThreshold - 1]

ASSUME NoneIsNoEntry == None \notin Record /\ None \notin Nat

\* What the X-ELS-PoW-* headers of an attempt amount to.
PoWProof == {"missing", "oversized", "tooWeak", "hashMismatch", "valid"}

VARIABLES
  now,             \* the server's clock
  records,         \* m.records: challenge id -> record
  blockedClientIP, \* m.blockedClientIP: client IP -> end of its block
  \* History, read by no action's guard except that issuedAt keeps ids unique.
  issuedAt,        \* when each challenge was issued
  redeemed,        \* how many submissions each challenge has paid for
  failures,        \* how many bad proofs each challenge has been tried with
  penalisedAt,     \* when each client last reached the failure threshold
  forgotten        \* the clients of which a restart has lost that penalty

history == <<issuedAt, redeemed, failures, penalisedAt, forgotten>>
vars == <<now, records, blockedClientIP, issuedAt, redeemed, failures, penalisedAt,
          forgotten>>

TypeOK ==
  /\ now \in Time
  /\ records \in [ChallengeId -> Record \cup {None}]
  /\ blockedClientIP \in [ClientIP -> Nat \cup {None}]
  /\ issuedAt \in [ChallengeId -> Nat \cup {None}]
  /\ redeemed \in [ChallengeId -> Nat]
  /\ failures \in [ChallengeId -> Nat]
  /\ penalisedAt \in [ClientIP -> Nat \cup {None}]
  /\ forgotten \subseteq ClientIP

Init ==
  /\ now = 0
  /\ records = [c \in ChallengeId |-> None]
  /\ blockedClientIP = [ip \in ClientIP |-> None]
  /\ issuedAt = [c \in ChallengeId |-> None]
  /\ redeemed = [c \in ChallengeId |-> 0]
  /\ failures = [c \in ChallengeId |-> 0]
  /\ penalisedAt = [ip \in ClientIP |-> None]
  /\ forgotten = {}

-----------------------------------------------------------------------------
(* cleanup: every call first drops expired challenges and lifted blocks. *)

SweepNothing == records \* mutant: expired challenges pile up
CleanRecords ==
  [c \in ChallengeId |->
     IF records[c] # None /\ records[c].expiresAt < now THEN None ELSE records[c]]

CleanBlocks ==
  [ip \in ClientIP |->
     IF blockedClientIP[ip] # None /\ now > blockedClientIP[ip]
     THEN None ELSE blockedClientIP[ip]]

-----------------------------------------------------------------------------
(* Issue *)

NewRecordLenient(ip, bits) == \* mutant: the skew is added to the lifetime
  [ip |-> ip, powBits |-> bits, expiresAt |-> now + TTL + Skew, used |-> FALSE,
   failCount |-> 0]
NewRecord(ip, bits) ==
  [ip |-> ip, powBits |-> bits, expiresAt |-> now + TTL, used |-> FALSE,
   failCount |-> 0]

\* A challenge is handed to anyone who asks: Issue does not look at blocks.
Issue(c, ip, bits) ==
  /\ issuedAt[c] = None
  /\ records' = [CleanRecords EXCEPT ![c] = NewRecord(ip, bits)]
  /\ blockedClientIP' = CleanBlocks
  /\ issuedAt' = [issuedAt EXCEPT ![c] = now]
  /\ UNCHANGED <<now, redeemed, failures, penalisedAt, forgotten>>

-----------------------------------------------------------------------------
(* VerifySubmission *)

BlockIgnored(ip) == FALSE \* mutant
IsBlocked(ip) == CleanBlocks[ip] # None /\ now < CleanBlocks[ip]

\* The client's clock may be ahead of the server's or behind it.
TimestampFresh(ts) == ts - now <= Skew /\ now - ts <= Skew

\* The checks that end the call without holding it against the client.
Admissible(c, ip, ts) ==
  /\ ~IsBlocked(ip)
  /\ CleanRecords[c] # None
  /\ ~CleanRecords[c].used
  /\ CleanRecords[c].expiresAt >= now
  /\ CleanRecords[c].ip = ip
  /\ TimestampFresh(ts)

\* The checks that count as a failed proof; PoW is looked at only when asked for.
ProofValid(c, pow, signed) ==
  /\ CleanRecords[c].powBits > 0 => pow = "valid"
  /\ signed

\* Blocked, missing, used, expired, another client's, or a stale timestamp.
\* (The record of an expired challenge is gone once CleanRecords has run.)
VerifyRefused(c, ip, ts) ==
  /\ ~Admissible(c, ip, ts)
  /\ records' = CleanRecords
  /\ blockedClientIP' = CleanBlocks
  /\ UNCHANGED <<now, history>>

\* registerFailure: the challenge that reaches the threshold is withdrawn and
\* its client blocked.
ReachesLate(n) == n > FailThreshold \* mutant: off by one
ReachesThreshold(n) == n >= FailThreshold

BlockFromIssue(c) == issuedAt[c] + BlockDuration \* mutant: counted from the issue
BlockEnd(c) == now + BlockDuration

KeptOnBlock(c, n) == [CleanRecords EXCEPT ![c].failCount = n] \* mutant
Withdrawn(c, n) == [CleanRecords EXCEPT ![c] = None]

RegisterFailure(c, ip) ==
  LET n == CleanRecords[c].failCount + 1 IN
    IF ReachesThreshold(n)
    THEN /\ blockedClientIP' = [CleanBlocks EXCEPT ![ip] = BlockEnd(c)]
         /\ records' = Withdrawn(c, n)
         /\ penalisedAt' = [penalisedAt EXCEPT ![ip] = now]
         /\ forgotten' = forgotten \ {ip}
    ELSE /\ records' = [CleanRecords EXCEPT ![c].failCount = n]
         /\ blockedClientIP' = CleanBlocks
         /\ UNCHANGED <<penalisedAt, forgotten>>

VerifyFailed(c, ip, ts, pow, signed) ==
  /\ Admissible(c, ip, ts)
  /\ ~ProofValid(c, pow, signed)
  /\ RegisterFailure(c, ip)
  /\ failures' = [failures EXCEPT ![c] = @ + 1]
  /\ UNCHANGED <<now, issuedAt, redeemed>>

NotConsumed(c) == CleanRecords \* mutant
Consumed(c) == [CleanRecords EXCEPT ![c] = None]

VerifyAccepted(c, ip, ts, pow, signed) ==
  /\ Admissible(c, ip, ts)
  /\ ProofValid(c, pow, signed)
  /\ records' = Consumed(c)
  /\ blockedClientIP' = CleanBlocks
  /\ redeemed' = [redeemed EXCEPT ![c] = @ + 1]
  /\ UNCHANGED <<now, issuedAt, failures, penalisedAt, forgotten>>

Verify(c, ip, ts, pow, signed) ==
  \/ VerifyRefused(c, ip, ts)
  \/ VerifyFailed(c, ip, ts, pow, signed)
  \/ VerifyAccepted(c, ip, ts, pow, signed)

-----------------------------------------------------------------------------

Tick ==
  /\ now < MaxTime
  /\ now' = now + 1
  /\ UNCHANGED <<records, blockedClientIP, history>>

\* The process ends and starts again: NewChallengeManager makes empty maps.
Restart ==
  /\ records' = [c \in ChallengeId |-> None]
  /\ blockedClientIP' = [ip \in ClientIP |-> None]
  /\ forgotten' = {ip \in ClientIP : penalisedAt[ip] # None}
  /\ UNCHANGED <<now, issuedAt, redeemed, failures, penalisedAt>>

Next ==
  \/ Tick
  \/ Restart
  \/ \E c \in ChallengeId, ip \in ClientIP, bits \in PoWBits : Issue(c, ip, bits)
  \/ \E c \in ChallengeId, ip \in ClientIP, ts \in Time, pow \in PoWProof,
        signed \in BOOLEAN : Verify(c, ip, ts, pow, signed)

Spec == Init /\ [][Next]_vars

-----------------------------------------------------------------------------
(* Properties *)

\* VerifySubmission: however many requests race with the same challenge, at
\* most one of them is let through.
SingleUse == \A c \in ChallengeId : redeemed[c] <= 1

\* registerFailure: however the failures are spread over time and requests, a
\* challenge the server still holds has been tried with fewer than
\* FailThreshold bad proofs in all.
FailureBudget ==
  \A c \in ChallengeId :
    records[c] # None => failures[c] < FailThreshold

\* A block the process still has to serve: a restart loses the others.
Serving(ip) == penalisedAt[ip] # None /\ ip \notin forgotten

\* registerFailure/cleanup: from the moment a client reaches the threshold the
\* map holds its block, to its full length, until the block is over or the
\* process restarts: no sweep, no other request, no second challenge and no
\* restart before it shortens it.
\* README.md:38 promises a ban of ten minutes without the exception of a restart,
\* after which the code lets a blocked client in at once.
BlockServedInFull ==
  \A ip \in ClientIP :
    Serving(ip) /\ now <= penalisedAt[ip] + BlockDuration
      => blockedClientIP[ip] = penalisedAt[ip] + BlockDuration

\* VerifySubmission: a submission is let through only with a challenge issued
\* at most TTL ago.
RedeemedInTime ==
  [][\A c \in ChallengeId :
       redeemed'[c] > redeemed[c] =>
         /\ issuedAt[c] # None
         /\ now <= issuedAt[c] + TTL]_vars

\* VerifySubmission: while a client's block runs in the process that imposed it,
\* none of the challenges issued to it pays for a submission and none of its
\* failures is counted, so that insisting cannot prolong the block either.
BlockedClientsWait ==
  [][\A c \in ChallengeId, ip \in ClientIP :
       /\ records[c] # None /\ records[c].ip = ip
       /\ Serving(ip)
       /\ now < penalisedAt[ip] + BlockDuration
       => redeemed'[c] = redeemed[c] /\ failures'[c] = failures[c]]_vars

\* cleanup: a call, like a start, leaves no expired challenge and no lifted block
\* behind, so that the maps hold nothing older than the last call.
SweptByEveryCall ==
  [][now' = now =>
       /\ \A c \in ChallengeId :
            records'[c] # None => records'[c].expiresAt >= now
       /\ \A ip \in ClientIP :
            blockedClientIP'[ip] # None => blockedClientIP'[ip] >= now]_vars
=============================================================================
