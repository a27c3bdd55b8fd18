------------------------ MODULE AnnouncementFeedProofs ------------------------
(***************************************************************************)
(* What the announcement store and its caches guarantee for any number of  *)
(* announcements and any ages of the copies.                               *)
(***************************************************************************)
EXTENDS AnnouncementFeed, FiniteSetTheorems, TLAPS

-----------------------------------------------------------------------------
(* The inductive invariant *)

\* A map that load accepts and leaves as it is.
Sound(m) ==
  /\ m \in Records
  /\ Cardinality(Held(m)) <= MaxRecords
  /\ \A k \in Held(m) :
       m[k].content \in Valid /\ Tidy[m[k].content] = m[k].content

StoreInv ==
  /\ up \in BOOLEAN /\ saving \in BOOLEAN
  /\ Sound(records) /\ Sound(undo) /\ Sound(file)
  /\ saving => up /\ undo = file
  /\ LockFree => records = file

\* The edge's copy went out of date after it was fetched, the client's while
\* it was here or before, in the time the edge may keep one.
CachesInv ==
  /\ edge # None => /\ edge \in Copy
                    /\ edge.etag = edge.body
                    /\ edge.outdated <= edge.age
  /\ client # None => /\ client \in Copy
                      /\ client.etag = client.body
                      /\ client.outdated < client.age + EdgeAge + Grace

FeedInv == StoreInv /\ CachesInv

-----------------------------------------------------------------------------
(* Lemmas about the store *)

LEMMA HeldIsFinite ==
  ASSUME NEW m \in Records
  PROVE  IsFiniteSet(Held(m)) /\ Cardinality(Held(m)) \in Nat
<1>1. Held(m) \subseteq Key
  BY DEF Held
<1> QED BY <1>1, KeysAreFinite, FS_Subset, FS_CardinalityType

LEMMA EmptyIsSound == Sound(NoRecords)
<1>1. NoRecords \in Records
  BY DEF NoRecords, Records
<1>2. Held(NoRecords) = {}
  BY DEF NoRecords, Held
<1> QED BY <1>1, <1>2, FS_EmptySet, MaxRecordsAssumption DEF Sound

LEMMA EntryIsTidy ==
  ASSUME NEW c \in Content, NEW enabled \in BOOLEAN, Tidy[c] \in Valid
  PROVE  /\ Entry(c, enabled) \in Announcement /\ Entry(c, enabled) # None
         /\ Entry(c, enabled).content \in Valid
         /\ Tidy[Entry(c, enabled).content] = Entry(c, enabled).content
BY TidyAssumption, NoneAssumption DEF Entry, Announcement

\* Whatever Create and Update store is sound.
LEMMA StoredIsSound ==
  ASSUME NEW m, Sound(m), NEW k \in Key, NEW c \in Content, NEW enabled \in BOOLEAN,
         Tidy[c] \in Valid,
         m[k] # None \/ Cardinality(Held(m)) < MaxRecords
  PROVE  Sound([m EXCEPT ![k] = Entry(c, enabled)])
<1> DEFINE v == Entry(c, enabled)
<1> DEFINE w == [m EXCEPT ![k] = v]
<1>1. v \in Announcement /\ v # None /\ v.content \in Valid
      /\ Tidy[v.content] = v.content
  BY EntryIsTidy
<1> HIDE DEF v
<1>2. m \in Records /\ Cardinality(Held(m)) <= MaxRecords
  BY DEF Sound
<1>3. w \in Records /\ w[k] = v /\ \A q \in Key : q # k => w[q] = m[q]
  BY <1>1, <1>2 DEF Records
<1>4. Held(w) = Held(m) \cup {k}
  BY <1>1, <1>3 DEF Held
<1>5. Cardinality(Held(w)) <= MaxRecords
  <2>1. CASE m[k] # None
    <3>1. Held(w) = Held(m)
      BY <1>4, <2>1 DEF Held
    <3> QED BY <1>2, <3>1
  <2>2. CASE m[k] = None
    <3>1. k \notin Held(m)
      BY <2>2 DEF Held
    <3>2. Cardinality(Held(w)) = Cardinality(Held(m)) + 1
      BY <1>2, <1>4, <3>1, HeldIsFinite, FS_AddElement
    <3> QED BY <1>2, <2>2, <3>2, HeldIsFinite, MaxRecordsAssumption
  <2> QED BY <2>1, <2>2
<1>6. \A q \in Held(w) :
        w[q].content \in Valid /\ Tidy[w[q].content] = w[q].content
  BY <1>1, <1>3, <1>4 DEF Sound, Held
<1>7. Sound(w)
  BY <1>3, <1>5, <1>6 DEF Sound
<1> QED BY <1>7 DEF v

LEMMA RemainderIsSound ==
  ASSUME NEW m, Sound(m), NEW k \in Key
  PROVE  Sound([m EXCEPT ![k] = None])
<1> DEFINE w == [m EXCEPT ![k] = None]
<1>1. m \in Records /\ Cardinality(Held(m)) <= MaxRecords
  BY DEF Sound
<1>2. w \in Records /\ w[k] = None /\ \A q \in Key : q # k => w[q] = m[q]
  BY <1>1 DEF Records
<1>3. Held(w) \subseteq Held(m)
  BY <1>2 DEF Held
<1>4. /\ Cardinality(Held(w)) <= Cardinality(Held(m))
      /\ Cardinality(Held(w)) \in Nat /\ Cardinality(Held(m)) \in Nat
  BY <1>1, <1>2, <1>3, HeldIsFinite, FS_Subset
<1>5. \A q \in Held(w) :
        w[q].content \in Valid /\ Tidy[w[q].content] = w[q].content
  BY <1>2, <1>3 DEF Sound, Held
<1>6. Cardinality(Held(w)) <= MaxRecords
  BY <1>1, <1>4, MaxRecordsAssumption
<1> QED BY <1>2, <1>5, <1>6 DEF Sound

\* A restart reads a sound file as it is, and is not refused.
LEMMA SoundIsReadAsItIs ==
  ASSUME NEW m, Sound(m)
  PROVE  Reread(m) = m
<1>1. m \in Records
  BY DEF Sound
<1>2. ASSUME NEW k \in Key, m[k] # None
      PROVE  [m[k] EXCEPT !.content = Tidy[@]] = m[k]
  <2>1. k \in Held(m) /\ m[k] \in Announcement
    BY <1>1, <1>2 DEF Held, Records
  <2>2. Tidy[m[k].content] = m[k].content
    BY <2>1 DEF Sound
  <2> QED BY <2>1, <2>2 DEF Announcement
<1>3. Reread(m) = [k \in Key |-> m[k]]
  BY <1>2 DEF Reread
<1> QED BY <1>1, <1>3 DEF Records

-----------------------------------------------------------------------------
(* The store's steps *)

LEMMA StoreInit == Init => StoreInv
BY EmptyIsSound DEF Init, StoreInv, LockFree

LEMMA StoreNext == StoreInv /\ [Next]_store => StoreInv'
<1> SUFFICES ASSUME StoreInv, [Next]_store PROVE StoreInv'
  OBVIOUS
<1> USE DEF StoreInv
<1>1. ASSUME NEW m, Sound(m), Writing(m) PROVE StoreInv'
  BY <1>1 DEF Writing, LockFree
<1>2. ASSUME NEW k \in Key, NEW c \in Content, NEW enabled \in BOOLEAN,
             Create(k, c, enabled) \/ Update(k, c, enabled)
      PROVE  StoreInv'
  <2>1. Sound([records EXCEPT ![k] = Entry(c, enabled)])
    BY <1>2, StoredIsSound DEF Create, Update
  <2> QED BY <1>1, <1>2, <2>1 DEF Create, Update
<1>3. ASSUME NEW k \in Key, Delete(k) PROVE StoreInv'
  BY <1>1, <1>3, RemainderIsSound DEF Delete
<1>4. CASE SaveSucceeds
  BY <1>4, EmptyIsSound DEF SaveSucceeds, LockFree
<1>5. CASE SaveFails
  BY <1>5, EmptyIsSound DEF SaveFails, LockFree
<1>6. CASE Crash
  BY <1>6, EmptyIsSound DEF Crash, LockFree
<1>7. CASE Start
  BY <1>7, SoundIsReadAsItIs DEF Start, LockFree
<1>8. CASE UNCHANGED store
  BY <1>8 DEF store, LockFree
<1> QED BY <1>2, <1>3, <1>4, <1>5, <1>6, <1>7, <1>8 DEF Next

LEMMA StoreInvIsDurable == StoreInv => MemoryIsDurable
<1> SUFFICES ASSUME StoreInv PROVE MemoryIsDurable
  OBVIOUS
<1>1. Reread(file) = file
  BY SoundIsReadAsItIs DEF StoreInv
<1>2. Loadable
  BY DEF StoreInv, Sound, Loadable
<1> QED BY <1>1, <1>2 DEF StoreInv, MemoryIsDurable

-----------------------------------------------------------------------------
(* The caches' steps *)

LEMMA PublicIsBody ==
  ASSUME NEW m, Sound(m)
  PROVE  Public(m) \in Body
BY DEF Sound, Records, Public, Body, Announcement

LEMMA OldestIsNatural ==
  /\ EdgeAge \in Nat /\ Grace \in Nat /\ ClientAge \in Nat /\ Oldest \in Nat
  /\ EdgeAge > 0 /\ ClientAge > 0 /\ Oldest = EdgeAge + Grace + ClientAge
BY AgesAssumption DEF Oldest

\* A copy with other counters is a copy.
LEMMA RecountedCopy ==
  ASSUME NEW copy \in Copy, NEW a \in 0 .. Oldest, NEW o \in 0 .. Oldest
  PROVE  /\ Recounted(copy, a, o) \in Copy
         /\ Recounted(copy, a, o).body = copy.body
         /\ Recounted(copy, a, o).etag = copy.etag
         /\ Recounted(copy, a, o).age = a
         /\ Recounted(copy, a, o).outdated = o
BY DEF Recounted, Copy

LEMMA Bounds == 0 \in 0 .. Oldest
BY OldestIsNatural

LEMMA EdgeAsksInv == FeedInv /\ EdgeAsks => CachesInv'
<1> SUFFICES ASSUME FeedInv, EdgeAsks PROVE CachesInv'
  OBVIOUS
<1>1. Public(records) \in Body
  BY PublicIsBody DEF FeedInv, StoreInv
<1>2. client' = client
  BY DEF EdgeAsks
<1>3. CASE NotModified(edge, Etag(Public(records)))
  <2>1. edge # None /\ edge \in Copy /\ edge.body = Public(records)
        /\ edge.etag = edge.body
    BY <1>3 DEF NotModified, Etag, FeedInv, CachesInv
  <2>2. edge' = Recounted(edge, 0, 0)
    BY <1>3, <2>1 DEF EdgeAsks, Renewed
  <2>3. /\ edge' \in Copy /\ edge'.etag = edge.etag /\ edge'.body = edge.body
        /\ edge'.outdated = 0 /\ edge'.age = 0
    BY <2>1, <2>2, Bounds, RecountedCopy
  <2> QED BY <1>2, <2>1, <2>3 DEF FeedInv, CachesInv
<1>4. CASE ~NotModified(edge, Etag(Public(records)))
  <2>1. edge' = Fresh(Public(records))
    BY <1>4 DEF EdgeAsks
  <2> QED BY <1>1, <1>2, <2>1, OldestIsNatural
          DEF FeedInv, CachesInv, Copy, Fresh, Etag
<1> QED BY <1>3, <1>4

LEMMA ClientAsksInv == FeedInv /\ ClientAsks => CachesInv'
<1> SUFFICES ASSUME FeedInv, ClientAsks PROVE CachesInv'
  OBVIOUS
<1>1. /\ edge' = edge /\ edge # None /\ edge \in Copy /\ edge.etag = edge.body
      /\ edge.outdated <= edge.age /\ edge.age < EdgeAge + Grace
  BY DEF ClientAsks, EdgeMayServe, FeedInv, CachesInv
<1>2. edge.outdated \in 0 .. Oldest /\ edge.outdated < EdgeAge + Grace
  BY <1>1, OldestIsNatural DEF Copy
<1>3. CASE NotModified(client, edge.etag)
  <2>1. client # None /\ client \in Copy /\ client.body = edge.body
        /\ client.etag = client.body
    BY <1>1, <1>3 DEF NotModified, FeedInv, CachesInv
  <2>2. client' = Recounted(client, 0, edge.outdated)
    BY <1>3, <2>1 DEF ClientAsks, Renewed
  <2>3. /\ client' \in Copy /\ client'.etag = client.etag
        /\ client'.body = client.body
        /\ client'.outdated = edge.outdated /\ client'.age = 0
    BY <1>2, <2>1, <2>2, Bounds, RecountedCopy
  <2> QED BY <1>1, <1>2, <2>1, <2>3, OldestIsNatural DEF FeedInv, CachesInv
<1>4. CASE ~NotModified(client, edge.etag)
  <2>1. client' = Recounted(edge, 0, edge.outdated)
    BY <1>4 DEF ClientAsks
  <2>2. /\ client' \in Copy /\ client'.etag = edge.etag
        /\ client'.body = edge.body
        /\ client'.outdated = edge.outdated /\ client'.age = 0
    BY <1>1, <1>2, <2>1, Bounds, RecountedCopy
  <2> QED BY <1>1, <1>2, <2>2, OldestIsNatural DEF FeedInv, CachesInv
<1> QED BY <1>3, <1>4

\* Both counters of a copy grow by one tick, the second at most.
LEMMA AgedCopy ==
  ASSUME NEW copy \in Copy, copy # None
  PROVE  /\ Aged(copy) \in Copy
         /\ Aged(copy).body = copy.body /\ Aged(copy).etag = copy.etag
         /\ Aged(copy).age = Older(copy.age)
         /\ Aged(copy).outdated \in {0, Older(copy.outdated)}
<1>1. copy.age \in 0 .. Oldest /\ copy.outdated \in 0 .. Oldest
  BY DEF Copy
<1>2. Older(copy.age) \in 0 .. Oldest /\ Older(copy.outdated) \in 0 .. Oldest
  BY <1>1, OldestIsNatural DEF Older
<1>3. CASE copy.body = Public(file)
  <2>1. Aged(copy) = Recounted(copy, Older(copy.age), 0)
    BY <1>3 DEF Aged
  <2>2. Older(copy.age) \in 0 .. Oldest /\ 0 \in 0 .. Oldest
    BY <1>2, Bounds
  <2>3. /\ Aged(copy) \in Copy
        /\ Aged(copy).body = copy.body /\ Aged(copy).etag = copy.etag
        /\ Aged(copy).age = Older(copy.age) /\ Aged(copy).outdated = 0
    BY <2>1, <2>2, RecountedCopy
  <2> QED BY <2>3
<1>4. CASE copy.body # Public(file)
  <2>1. Aged(copy) = Recounted(copy, Older(copy.age), Older(copy.outdated))
    BY <1>4 DEF Aged
  <2> QED BY <1>2, <2>1, RecountedCopy
<1> QED BY <1>3, <1>4

LEMMA TickInv == FeedInv /\ Tick => CachesInv'
<1> SUFFICES ASSUME FeedInv, Tick PROVE CachesInv'
  OBVIOUS
<1>1. edge' # None => /\ edge' \in Copy /\ edge'.etag = edge'.body
                      /\ edge'.outdated <= edge'.age
  <2> SUFFICES ASSUME edge' # None
               PROVE  /\ edge' \in Copy /\ edge'.etag = edge'.body
                      /\ edge'.outdated <= edge'.age
    OBVIOUS
  <2>1. edge' = Aged(edge) /\ edge # None
    BY DEF Tick, Aged
  <2>2. edge \in Copy /\ edge.etag = edge.body /\ edge.outdated <= edge.age
    BY <2>1 DEF FeedInv, CachesInv
  <2>3. edge.age \in 0 .. Oldest /\ edge.outdated \in 0 .. Oldest
    BY <2>2 DEF Copy
  <2>4. Older(edge.outdated) <= Older(edge.age) /\ 0 <= Older(edge.age)
    BY <2>2, <2>3, OldestIsNatural DEF Older
  <2> QED BY <2>1, <2>2, <2>4, AgedCopy
<1>2. client' # None => /\ client' \in Copy /\ client'.etag = client'.body
                        /\ client'.outdated < client'.age + EdgeAge + Grace
  <2> SUFFICES ASSUME client' # None
               PROVE  /\ client' \in Copy /\ client'.etag = client'.body
                      /\ client'.outdated < client'.age + EdgeAge + Grace
    OBVIOUS
  <2>1. client' = Aged(client) /\ client # None
    BY DEF Tick, Aged
  <2>2. /\ client \in Copy /\ client.etag = client.body
        /\ client.outdated < client.age + EdgeAge + Grace
    BY <2>1 DEF FeedInv, CachesInv
  <2>3. client.age \in 0 .. Oldest /\ client.outdated \in 0 .. Oldest
    BY <2>2 DEF Copy
  <2>4. /\ Older(client.outdated) < Older(client.age) + EdgeAge + Grace
        /\ 0 < Older(client.age) + EdgeAge + Grace
    BY <2>2, <2>3, OldestIsNatural DEF Older
  <2> QED BY <2>1, <2>2, <2>4, AgedCopy
<1> QED BY <1>1, <1>2 DEF CachesInv

LEMMA FeedInvariant == FeedSpec => []FeedInv
<1>1. FeedInit => FeedInv
  BY StoreInit DEF FeedInit, FeedInv, CachesInv
<1>2. FeedInv /\ [FeedNext]_vars => FeedInv'
  <2> SUFFICES ASSUME FeedInv, [FeedNext]_vars PROVE FeedInv'
    OBVIOUS
  <2>1. StoreInv'
    BY StoreNext DEF FeedInv, FeedNext, EdgeAsks, ClientAsks, Evict, Tick, vars
  <2>2. CachesInv'
    <3>1. CASE EdgeAsks
      BY <3>1, EdgeAsksInv
    <3>2. CASE ClientAsks
      BY <3>2, ClientAsksInv
    <3>3. CASE Tick
      BY <3>3, TickInv
    <3>4. CASE Evict
      BY <3>4 DEF Evict, FeedInv, CachesInv
    <3>5. CASE UNCHANGED <<edge, client>>
      BY <3>5 DEF FeedInv, CachesInv
    <3> QED BY <3>1, <3>2, <3>3, <3>4, <3>5 DEF FeedNext, vars
  <2> QED BY <2>1, <2>2 DEF FeedInv
<1> QED BY <1>1, <1>2, PTL DEF FeedSpec

-----------------------------------------------------------------------------
(* Theorems *)

\* Every reachable state of the store and the caches is well typed.
THEOREM TypeCorrect == FeedSpec => []FeedTypeOK
<1>1. FeedInv => FeedTypeOK
  BY DEF FeedInv, StoreInv, Sound, CachesInv, FeedTypeOK, TypeOK
<1> QED BY <1>1, FeedInvariant, PTL

(* What a restart would read is what is served, and it is never refused.   *)
THEOREM AnnouncementsSurvive == FeedSpec => []MemoryIsDurable
<1>1. FeedInv => MemoryIsDurable
  BY StoreInvIsDurable DEF FeedInv
<1> QED BY <1>1, FeedInvariant, PTL

(* No client uses a list that was replaced longer ago than the ages that   *)
(* the headers allow together.                                             *)
THEOREM ClientsAreRecent == FeedSpec => []SeenIsRecent
<1>1. FeedInv => SeenIsRecent
  <2> SUFFICES ASSUME FeedInv, client # None, client.age < ClientAge
               PROVE  client.outdated < Oldest
    BY DEF SeenIsRecent
  <2>1. /\ client \in Copy
        /\ client.outdated < client.age + EdgeAge + Grace
    BY DEF FeedInv, CachesInv
  <2>2. client.age \in 0 .. Oldest /\ client.outdated \in 0 .. Oldest
    BY <2>1 DEF Copy
  <2> QED BY <2>1, <2>2, OldestIsNatural
<1> QED BY <1>1, FeedInvariant, PTL
=============================================================================
