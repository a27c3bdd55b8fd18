---------------------------- MODULE MCSelfUpdate ----------------------------
\* Three releases, one of them a prerelease, two jobs, two download attempts.
EXTENDS SelfUpdate
=============================================================================
