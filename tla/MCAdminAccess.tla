---------------------------- MODULE MCAdminAccess ----------------------------
\* One address: its sessions are those of any other.
EXTENDS AdminAccess, TLC

Tokens == Permutations(Token)
=============================================================================
