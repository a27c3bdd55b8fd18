----------------------------- MODULE AdminAccess -----------------------------
(***************************************************************************)
(* Access to the admin interface (src/internal/api/admin_ui.go): the login *)
(* behind its rate limit, the signed session cookie, and requireAdmin,     *)
(* which guards every route under /v1/admin of announcements, distribution *)
(* and surveys.  The server keeps no sessions: a cookie carries its expiry *)
(* and a signature made with the admin token, so it outlives a restart and *)
(* only a new token or the expiry ends it.                                 *)
(*                                                                         *)
(* The signature is the token it was made with.  A request may show any    *)
(* cookie that was ever handed out, or none: browsers (external) are many, *)
(* keep copies and drop cookies as they like.  A logout                    *)
(* (handleAnnouncementAdminLogout) asks one browser to drop its cookie,    *)
(* changes nothing on the server and is no action here: the cookie stays   *)
(* as good as before.  Logins come from several addresses, the keys of the *)
(* limiter.                                                                *)
(***************************************************************************)
EXTENDS RateLimiter

CONSTANTS
  Token,  \* ANNOUNCEMENT_ADMIN_TOKEN, as configured at a start
  TTL     \* announcementAdminSessionTTL

ASSUME SessionsLast == TTL \in Nat \ {0}

VARIABLES
  token,     \* cfg.AnnouncementAdminToken
  webOpen,   \* cfg.AdminWebAuthDisabled
  cookies,   \* the session cookies handed out
  \* History.
  proved,    \* when each token was last given as the password
  openedAt   \* when the web pages last stood open without a password

settings == <<token, webOpen>>
adminVars == <<vars, token, webOpen, cookies, proved, openedAt>>

Cookie == [expires : Nat, signedWith : Token]
ASSUME NoneIsNothing == None \notin Nat \cup Cookie

AdminTypeOK ==
  /\ TypeOK
  /\ token \in Token /\ webOpen \in BOOLEAN
  /\ cookies \subseteq Cookie
  /\ proved \in [Token -> Nat \cup {None}]
  /\ openedAt \in Nat \cup {None}

AdminInit ==
  /\ Init
  /\ token \in Token /\ webOpen \in BOOLEAN
  /\ cookies = {}
  /\ proved = [t \in Token |-> None]
  /\ openedAt = IF webOpen THEN 0 ELSE None

-----------------------------------------------------------------------------
(* Sessions *)

\* makeAdminSession
Session(expires) == [expires |-> expires, signedWith |-> token]

\* adminSessionIsValid
SessionValid(c) ==
  c # None /\ now < c.expires /\ c = Session(c.expires)

\* setAdminSessionCookie
SetCookie == cookies' = cookies \cup {Session(now + TTL)}

\* handleAnnouncementAdminLogin
LoginWithoutPassword ==
  /\ webOpen
  /\ SetCookie
  /\ UNCHANGED <<vars, settings, proved, openedAt>>

Login(k, password) ==
  /\ ~webOpen
  /\ \E ok \in BOOLEAN :
       /\ Allow(k, ok)
       /\ \/ /\ ~ok \/ password # token
             /\ UNCHANGED <<cookies, proved>>
          \/ /\ ok /\ password = token
             /\ SetCookie
             /\ proved' = [proved EXCEPT ![token] = now]
  /\ UNCHANGED <<settings, openedAt>>

\* The limiter's Redis counts a login whose answer gets lost.
LoginSentAgain(k) ==
  /\ ~webOpen
  /\ AnswerLost(k)
  /\ UNCHANGED <<settings, cookies, proved, openedAt>>

OpenPageProlongs(c) == \* mutant: every page renews the session
  /\ \/ /\ SessionValid(c) \/ webOpen
        /\ SetCookie
     \/ /\ ~SessionValid(c) /\ ~webOpen
        /\ UNCHANGED cookies
  /\ UNCHANGED <<vars, settings, proved, openedAt>>

\* prepareAdminPageSession, for each of the pages
OpenPage(c) ==
  /\ \/ /\ SessionValid(c) \/ ~webOpen
        /\ UNCHANGED cookies
     \/ /\ ~SessionValid(c) /\ webOpen
        /\ SetCookie
  /\ UNCHANGED <<vars, settings, proved, openedAt>>

\* adminBearerIsValid; without the header the bearer is None.
BearerValid(bearer) == bearer = token

\* requireAdmin; reads are GET and HEAD.
Served(bearer, c, reads, sameOrigin) ==
  BearerValid(bearer) \/ (SessionValid(c) /\ (reads \/ sameOrigin))

-----------------------------------------------------------------------------

TimePasses ==
  /\ Tick
  /\ openedAt' = IF webOpen THEN now' ELSE openedAt
  /\ UNCHANGED <<settings, cookies, proved>>

\* The process starts again, perhaps with other settings.
Redeploy ==
  /\ Restart
  /\ token' \in Token /\ webOpen' \in BOOLEAN
  /\ openedAt' = IF webOpen' THEN now ELSE openedAt
  /\ UNCHANGED <<cookies, proved>>

AdminNext ==
  \/ LoginWithoutPassword
  \/ \E k \in Key, password \in Token : Login(k, password)
  \/ \E k \in Key : LoginSentAgain(k)
  \/ \E c \in cookies \cup {None} : OpenPage(c)
  \/ TimePasses
  \/ Redeploy

AdminSpec == AdminInit /\ [][AdminNext]_adminVars

-----------------------------------------------------------------------------
(* Properties *)

\* What must have happened for a session to count.
Earned ==
  \/ proved[token] # None /\ now < proved[token] + TTL
  \/ openedAt # None /\ now < openedAt + TTL

(* An admin request is served only to a bearer of the token, or with a     *)
(* session while one was earned less than a session's length ago, with     *)
(* today's token or because the pages stood open; renewals, restarts,      *)
(* tokens that change and change back and copies kept of old cookies do    *)
(* not stretch it (admin_ui.go:142-187, 202-273).                          *)
SessionsAreEarned ==
  \A bearer \in Token \cup {None}, c \in cookies \cup {None}, reads, sameOrigin \in BOOLEAN :
    Served(bearer, c, reads, sameOrigin) => bearer = token \/ Earned
=============================================================================
