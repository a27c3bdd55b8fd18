----------------------------- MODULE MCChallenge -----------------------------
(* The instance of Challenge that TLC checks. *)
EXTENDS Challenge, TLC

Identities == Permutations(ChallengeId) \cup Permutations(ClientIP)
=============================================================================
