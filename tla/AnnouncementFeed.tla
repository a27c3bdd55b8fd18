--------------------------- MODULE AnnouncementFeed ---------------------------
(***************************************************************************)
(* How an announcement reaches a client: handleListAnnouncements           *)
(* (src/internal/api/announcements.go) over the store, the cache at the    *)
(* edge and the client's own copy.  The handler marshals one snapshot of   *)
(* the public list and takes body and ETag from it.                        *)
(*                                                                         *)
(* The caches are external and do what the response headers tell them: the *)
(* edge keeps a response for EdgeAge and may serve it for Grace more while *)
(* it asks again; the client keeps it for ClientAge.  Either then asks     *)
(* with If-None-Match, and a 304 renews what it holds.  stale-if-error is  *)
(* left out: it only speaks of an origin that does not answer.             *)
(*                                                                         *)
(* Time is in ticks; a copy carries its age.                               *)
(***************************************************************************)
EXTENDS AnnouncementStore

CONSTANTS
  EdgeAge,    \* Cloudflare-CDN-Cache-Control: max-age (cacheMaxAge)
  Grace,      \* stale-while-revalidate
  ClientAge   \* Cache-Control: max-age

ASSUME AgesAssumption ==
  EdgeAge \in Nat \ {0} /\ Grace \in Nat /\ ClientAge \in Nat \ {0}

VARIABLES
  edge,    \* the edge's copy: body, ETag, age
  client   \* the client's copy

vars == <<store, edge, client>>

Body == [Key -> Content \cup {None}]

Oldest == EdgeAge + Grace + ClientAge

\* outdated is history: for how many ticks the body has not been the list on
\* disk.  Both counters stop at Oldest.
Copy == [body : Body, etag : Body, age : 0 .. Oldest, outdated : 0 .. Oldest]

FeedTypeOK ==
  /\ TypeOK
  /\ edge \in Copy \cup {None}
  /\ client \in Copy \cup {None}

Recounted(copy, age, outdated) ==
  [body |-> copy.body, etag |-> copy.etag, age |-> age, outdated |-> outdated]

FeedInit == Init /\ edge = None /\ client = None

-----------------------------------------------------------------------------
(* The handler *)

\* mutant: the ETag tells which announcements there are, not what they say
EtagOfKeys(body) ==
  [k \in Key |-> IF body[k] = None THEN None ELSE CHOOSE c \in Content : TRUE]
\* payloadETag: a digest of the marshalled list
Etag(body) == body

\* etagMatches: the request carries the ETag of the copy, if there is one.
NotModified(have, etag) == have # None /\ have.etag = etag

\* A copy that was told it is still good: by one whose body is out of date for
\* so long, if the bodies agree.
Renewed(copy, body, outdated) ==
  Recounted(copy, 0, IF copy.body = body THEN outdated ELSE copy.outdated)

Fresh(body) == [body |-> body, etag |-> Etag(body), age |-> 0, outdated |-> 0]

\* handleListAnnouncements, called by the edge when its copy is missing or over;
\* PublicList waits for the lock.
EdgeAsks ==
  /\ LockFree
  /\ edge # None => edge.age >= EdgeAge
  /\ edge' = IF NotModified(edge, Etag(Public(records)))
             THEN Renewed(edge, Public(records), 0)
             ELSE Fresh(Public(records))
  /\ UNCHANGED <<store, client>>

-----------------------------------------------------------------------------
(* The caches and time *)

EdgeMayServe == edge # None /\ edge.age < EdgeAge + Grace

ClientAsks ==
  /\ EdgeMayServe
  /\ client # None => client.age >= ClientAge
  /\ client' = IF NotModified(client, edge.etag)
               THEN Renewed(client, edge.body, edge.outdated)
               ELSE Recounted(edge, 0, edge.outdated)
  /\ UNCHANGED <<store, edge>>

Evict ==
  /\ \/ edge' = None /\ UNCHANGED client
     \/ client' = None /\ UNCHANGED edge
  /\ UNCHANGED store

Older(n) == IF n < Oldest THEN n + 1 ELSE n

Aged(copy) ==
  IF copy = None THEN None
  ELSE Recounted(copy, Older(copy.age),
                 IF copy.body = Public(file) THEN 0 ELSE Older(copy.outdated))

Tick ==
  /\ edge' = Aged(edge)
  /\ client' = Aged(client)
  /\ UNCHANGED store

FeedNext ==
  \/ Next /\ UNCHANGED <<edge, client>>
  \/ EdgeAsks
  \/ ClientAsks
  \/ Evict
  \/ Tick

FeedSpec == FeedInit /\ [][FeedNext]_vars

-----------------------------------------------------------------------------
(* Properties *)

(* A copy the client may still use was the published list less than the    *)
(* three ages together ago, however changes, failed writes, restarts,      *)
(* revalidations of either cache and a list that comes back to an earlier  *)
(* state interleave (announcements.go:36-67).                              *)
SeenIsRecent ==
  client # None /\ client.age < ClientAge => client.outdated < Oldest
=============================================================================
