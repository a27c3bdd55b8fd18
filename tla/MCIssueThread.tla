----------------------------- MODULE MCIssueThread -----------------------------
(* Two comments, one message of a developer and two queries: one query can *)
(* cross a removal and the other find what it stored.  With TTL = 2 an     *)
(* entry can be fresh, ageing or expired; with MaxWait = 1 a message can   *)
(* appear while the timeline is fetched and outlive the hour of an entry.  *)
EXTENDS IssueThread, TLC

Identities == Permutations(Comment) \cup Permutations(Query)
=============================================================================
