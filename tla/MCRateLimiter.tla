---------------------------- MODULE MCRateLimiter ----------------------------
EXTENDS RateLimiter, TLC

Clients == Permutations(Key)
=============================================================================
