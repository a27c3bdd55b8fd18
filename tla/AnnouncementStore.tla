-------------------------- MODULE AnnouncementStore --------------------------
(***************************************************************************)
(* AnnouncementStore (src/internal/store/announcement_store.go): the       *)
(* announcements, enabled or not, in memory and in one JSON file that is   *)
(* replaced as a whole by a synced temporary file and a rename.            *)
(*                                                                         *)
(* A mutation keeps the lock while it changes memory, writes the file and, *)
(* when the write fails, takes the change back: two actions, the request   *)
(* and the end of the write, between which only a crash can come.          *)
(* Requests that are turned down change nothing and have no action.        *)
(*                                                                         *)
(* The fields of an announcement are an atom; normalising maps it to its   *)
(* tidy form.  Timestamps are left out: the order of the public list is a  *)
(* function of what it holds.                                              *)
(***************************************************************************)
EXTENDS FiniteSets, Naturals

CONSTANTS
  Key,         \* random keys, one of them per record
  Content,     \* fields as admins type them
  Tidy,        \* normalizeAnnouncementRecord: Content -> Content
  Valid,       \* tidy contents validateAnnouncementRecord accepts
  MaxRecords,  \* maxAnnouncementRecords
  None

ASSUME TidyAssumption ==
  /\ Tidy \in [Content -> Content]
  /\ Valid \subseteq Content
  /\ \A c \in Content : Tidy[Tidy[c]] = Tidy[c]
ASSUME KeysAreFinite == IsFiniteSet(Key)
ASSUME MaxRecordsAssumption == MaxRecords \in Nat

VARIABLES
  up,       \* the process runs
  records,  \* s.records
  saving,   \* an operation holds the lock and is writing
  undo,     \* the records before that operation
  file      \* announcements.json

store == <<up, records, saving, undo, file>>

Announcement == [content : Content, enabled : BOOLEAN]
ASSUME NoneAssumption == None \notin Announcement

Records == [Key -> Announcement \cup {None}]
NoRecords == [k \in Key |-> None]
Held(m) == {k \in Key : m[k] # None}

TypeOK ==
  /\ up \in BOOLEAN /\ saving \in BOOLEAN
  /\ records \in Records /\ undo \in Records /\ file \in Records

Init ==
  /\ up = FALSE /\ saving = FALSE
  /\ records = NoRecords /\ undo = NoRecords
  /\ file = NoRecords  \* no file yet

LockFree == up /\ ~saving

\* The change m is in memory; the write of the file begins.
Writing(m) ==
  /\ LockFree
  /\ records' = m
  /\ undo' = records
  /\ saving' = TRUE
  /\ UNCHANGED <<up, file>>

Stateless(c, enabled) == [content |-> Tidy[c]] \* mutant: the state is dropped
Entry(c, enabled) == [content |-> Tidy[c], enabled |-> enabled]

Create(k, c, enabled) ==
  /\ Tidy[c] \in Valid
  /\ Cardinality(Held(records)) < MaxRecords
  /\ records[k] = None
  /\ Writing([records EXCEPT ![k] = Entry(c, enabled)])

Update(k, c, enabled) ==
  /\ Tidy[c] \in Valid
  /\ records[k] # None
  /\ Writing([records EXCEPT ![k] = Entry(c, enabled)])

Delete(k) ==
  /\ records[k] # None
  /\ Writing([records EXCEPT ![k] = None])

-----------------------------------------------------------------------------
(* saveLocked *)

SaveSucceeds ==
  /\ saving
  /\ file' = records
  /\ saving' = FALSE /\ undo' = NoRecords
  /\ UNCHANGED <<up, records>>

SaveFailsQuietly == \* mutant: the change stays in memory
  /\ saving
  /\ saving' = FALSE /\ undo' = NoRecords
  /\ UNCHANGED <<up, records, file>>
\* Any step before the rename fails.
SaveFails ==
  /\ saving
  /\ records' = undo
  /\ saving' = FALSE /\ undo' = NoRecords
  /\ UNCHANGED <<up, file>>

-----------------------------------------------------------------------------
(* The process *)

Crash ==
  /\ up
  /\ up' = FALSE /\ saving' = FALSE
  /\ records' = NoRecords /\ undo' = NoRecords
  /\ UNCHANGED file

\* What load reads: every record is normalised again.
Reread(m) ==
  [k \in Key |-> IF m[k] = None THEN None
                 ELSE [m[k] EXCEPT !.content = Tidy[@]]]

Loadable ==
  /\ Cardinality(Held(file)) <= MaxRecords
  /\ \A k \in Held(file) : Tidy[file[k].content] \in Valid

\* NewAnnouncementStore; main ends when it fails.
Start ==
  /\ ~up
  /\ Loadable
  /\ up' = TRUE
  /\ records' = Reread(file)
  /\ UNCHANGED <<saving, undo, file>>

Next ==
  \/ \E k \in Key, c \in Content, enabled \in BOOLEAN :
       Create(k, c, enabled) \/ Update(k, c, enabled)
  \/ \E k \in Key : Delete(k)
  \/ SaveSucceeds
  \/ SaveFails
  \/ Crash
  \/ Start

Spec == Init /\ [][Next]_store

-----------------------------------------------------------------------------

\* PublicList
Public(m) ==
  [k \in Key |-> IF m[k] # None /\ m[k].enabled THEN m[k].content ELSE None]

(* Whenever the lock is free, what is served is what a restart would read, *)
(* failed writes included, and the restart is not refused                  *)
(* (announcement_store.go:100-263).                                        *)
MemoryIsDurable ==
  /\ Loadable
  /\ LockFree => records = Reread(file) /\ file = Reread(file)
=============================================================================
