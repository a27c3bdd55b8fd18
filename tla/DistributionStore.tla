--------------------------- MODULE DistributionStore ---------------------------
(***************************************************************************)
(* DistributionStore (src/internal/store/distribution_store.go): a list of *)
(* published files in distribution.json and, beside it, one immutable file *)
(* per content, named by its SHA-256, that several entries may share.      *)
(*                                                                         *)
(* A mutation holds the lock throughout.  It stores the content, changes   *)
(* memory, replaces the manifest, and only then removes the content no     *)
(* entry uses any more.  The process may die between any two of these      *)
(* steps.  Downloads look the entry up under the read lock and open the    *)
(* file after releasing it.                                                *)
(*                                                                         *)
(* A content stands for its SHA-256 and its bytes.  Of a file's name there *)
(* is what sanitising looks at: whether directories come before its last   *)
(* part, and whether that part begins with a space.  The other fields are  *)
(* left out: load checks them too, but an entry gets key, checksum, size   *)
(* and times from the server, and display name and destination normalised, *)
(* which normalising again does not change.                                *)
(*                                                                         *)
(* Contents and the manifest are replaced by rename, so either is there as *)
(* a whole or not at all; failing before the rename leaves nothing, and a  *)
(* failure to store the content ends the operation with nothing changed,   *)
(* which needs no action.                                                  *)
(***************************************************************************)
EXTENDS FiniteSets, Naturals

CONSTANTS
  Key,         \* entries
  Blob,        \* contents
  Download,    \* downloads in the life of the model
  MaxRecords,  \* maxDistributionRecords
  None

ASSUME MaxAssumption == MaxRecords \in Nat
ASSUME NoneAssumption == None \notin Blob

VARIABLES
  up,         \* the process runs
  records,    \* s.records, by key
  blobs,      \* the contents in distribution-files
  manifest,   \* distribution.json
  phase,      \* what the operation holding the lock does next
  before,     \* memory before that operation
  added,      \* the content to remove if the save fails
  retired,    \* the content to remove if it succeeds
  download,   \* where each download is
  wanted,     \* the content it asked for
  withdrawn   \* history: that content lost its last entry meanwhile

operation == <<phase, before, added, retired>>
downloads == <<download, wanted, withdrawn>>
vars == <<up, records, blobs, manifest, operation, downloads>>

FileName == [inDir : BOOLEAN, spaced : BOOLEAN]
Record == [blob : Blob, name : FileName, enabled : BOOLEAN]
Catalogue == [Key -> Record \cup {None}]
Empty == [k \in Key |-> None]
Held(m) == {k \in Key : m[k] # None}
Uses(m, b) == \E k \in Held(m) : m[k].blob = b

TypeOK ==
  /\ up \in BOOLEAN
  /\ records \in Catalogue /\ manifest \in Catalogue /\ before \in Catalogue
  /\ blobs \in SUBSET Blob
  /\ phase \in {"idle", "save", "clean"}
  /\ added \in Blob \cup {None} /\ retired \in Blob \cup {None}
  /\ download \in [Download -> {"idle", "found", "sent", "gone", "cut"}]
  /\ wanted \in [Download -> Blob \cup {None}]
  /\ withdrawn \in SUBSET Download

Init ==
  /\ up = FALSE
  /\ records = Empty /\ manifest = Empty /\ before = Empty
  /\ blobs = {}
  /\ phase = "idle"
  /\ added = None /\ retired = None
  /\ download = [d \in Download |-> "idle"]
  /\ wanted = [d \in Download |-> None]
  /\ withdrawn = {}

LockFree == up /\ phase = "idle"

\* Memory changes and the manifest is next.
Change(m, new, old) ==
  /\ records' = m
  /\ phase' = "save"
  /\ before' = records
  /\ added' = new
  /\ retired' = old
  /\ UNCHANGED <<up, manifest, downloads>>

-----------------------------------------------------------------------------
(* File names *)

\* strings.TrimSpace, at the ends of the whole name only, and path.Base.
Trimmed(n) == [n EXCEPT !.spaced = n.inDir /\ n.spaced]
Base(n) == [n EXCEPT !.inDir = FALSE]

\* sanitizeDistributionFileName
Sanitized(n) == Base(Trimmed(n))

-----------------------------------------------------------------------------
(* Mutations; n is the name an upload came with. *)

Create(k, b, n, enabled) ==
  /\ LockFree
  /\ records[k] = None
  /\ Cardinality(Held(records)) < MaxRecords
  /\ blobs' = blobs \cup {b}
  /\ Change([records EXCEPT ![k] = [blob |-> b, name |-> Sanitized(n), enabled |-> enabled]],
            b, None)

\* The content stays; nothing is removed whatever becomes of the save.
Rename(k, enabled) ==
  /\ LockFree
  /\ records[k] # None
  /\ UNCHANGED blobs
  /\ Change([records EXCEPT ![k].enabled = enabled], None, None)

Replace(k, b, n, enabled) ==
  /\ LockFree
  /\ records[k] # None
  /\ blobs' = blobs \cup {b}
  /\ LET same == b = records[k].blob
     IN Change([records EXCEPT ![k] = [blob |-> b, name |-> Sanitized(n), enabled |-> enabled]],
               IF same THEN None ELSE b,
               IF same THEN None ELSE records[k].blob)

DeleteFileFirst(k) == \* mutant: the file goes before the manifest is saved
  /\ LockFree
  /\ records[k] # None
  /\ LET m == [records EXCEPT ![k] = None]
     IN /\ blobs' = blobs \ {b \in Blob : ~Uses(m, b)}
        /\ Change(m, None, None)
Delete(k) ==
  /\ LockFree
  /\ records[k] # None
  /\ UNCHANGED blobs
  /\ Change([records EXCEPT ![k] = None], None, records[k].blob)

-----------------------------------------------------------------------------
(* saveLocked, and the content no longer needed *)

SaveSucceeds ==
  /\ up /\ phase = "save"
  /\ manifest' = records
  /\ phase' = "clean"
  /\ added' = None
  /\ withdrawn' = withdrawn \cup
       {d \in Download : download[d] = "found" /\ ~Uses(records, wanted[d])}
  /\ UNCHANGED <<up, records, blobs, before, retired, download, wanted>>

KeepChange == records \* mutant: memory is not rolled back
ZeroedSlot == \* mutant: a failed Create leaves a blank entry in the list
  [k \in Key |-> IF records[k] # None /\ before[k] = None
                 THEN [blob |-> None, name |-> None, enabled |-> FALSE] ELSE before[k]]
RolledBack == before

SaveFails ==
  /\ up /\ phase = "save"
  /\ records' = RolledBack
  /\ phase' = "clean"
  /\ retired' = None
  /\ UNCHANGED <<up, blobs, manifest, before, added, downloads>>

UnpublishedIgnored(b) == \* mutant: entries switched off do not count
  ~\E k \in Held(records) : records[k].blob = b /\ records[k].enabled
Unused(b) == ~Uses(records, b)

\* removeBlobIfUnusedLocked; a failing os.Remove is ignored.
Clean ==
  /\ up /\ phase = "clean"
  /\ \/ UNCHANGED blobs
     \/ \E b \in {added, retired} \ {None} : Unused(b) /\ blobs' = blobs \ {b}
  /\ phase' = "idle"
  /\ before' = Empty
  /\ added' = None /\ retired' = None
  /\ UNCHANGED <<up, records, manifest, downloads>>

-----------------------------------------------------------------------------
(* handleDistributionFile *)

\* PublicFile trims the name asked for, the last part of a path.
LookUp(d, b) ==
  /\ LockFree
  /\ download[d] = "idle"
  /\ \E k \in Held(records), n \in FileName :
       ~n.inDir /\ records[k] = [blob |-> b, name |-> Trimmed(n), enabled |-> TRUE]
  /\ download' = [download EXCEPT ![d] = "found"]
  /\ wanted' = [wanted EXCEPT ![d] = b]
  /\ UNCHANGED <<up, records, blobs, manifest, operation, withdrawn>>

\* c.File opens the path; a file that is gone by then is a 404.  Once open,
\* the file can be read to its end whatever happens to its name.
Open(d) ==
  /\ up
  /\ download[d] = "found"
  /\ download' = [download EXCEPT ![d] = IF wanted[d] \in blobs THEN "sent" ELSE "gone"]
  /\ UNCHANGED <<up, records, blobs, manifest, operation, wanted, withdrawn>>

-----------------------------------------------------------------------------
(* The process *)

Crash ==
  /\ up
  /\ up' = FALSE
  /\ records' = Empty
  /\ phase' = "idle"
  /\ before' = Empty
  /\ added' = None /\ retired' = None
  /\ download' = [d \in Download |-> IF download[d] = "found" THEN "cut" ELSE download[d]]
  /\ UNCHANGED <<blobs, manifest, wanted, withdrawn>>

NamesValid ==
  \A k \in Held(manifest) : Sanitized(manifest[k].name) = manifest[k].name
FilesThere ==
  /\ Cardinality(Held(manifest)) <= MaxRecords
  /\ \A k \in Held(manifest) : manifest[k].blob \in blobs

\* load accepts the manifest, or the process ends with log.Fatalf.
Start ==
  /\ ~up
  /\ NamesValid
  /\ FilesThere
  /\ up' = TRUE
  /\ records' = manifest
  /\ UNCHANGED <<blobs, manifest, operation, downloads>>

Mutate ==
  \E k \in Key :
    \/ \E b \in Blob, n \in FileName, e \in BOOLEAN : Create(k, b, n, e) \/ Replace(k, b, n, e)
    \/ \E e \in BOOLEAN : Rename(k, e)
    \/ Delete(k)
Finish == SaveSucceeds \/ SaveFails \/ Clean

Next ==
  \/ Mutate
  \/ Finish
  \/ \E d \in Download : Open(d) \/ \E b \in Blob : LookUp(d, b)
  \/ Crash
  \/ Start

Spec == Init /\ [][Next]_vars

-----------------------------------------------------------------------------
(* Properties *)

(* Wherever the process dies, the manifest it leaves names only files that *)
(* are there, although contents are shared and removed along the way: what *)
(* can make the next start fail is a file's name, and nothing else         *)
(* (distribution_store.go:261-286).                                        *)
OnlyNamesRefuseAStart == FilesThere

(* The names that Create and Update accepted, load accepts: the test that  *)
(* uploads folder\provider.json starts again on what it stored             *)
(* (distribution_store_test.go:28, 96-99).  The code breaks this.          *)
AcceptedNamesLoad == up \/ NamesValid

(* Between operations what is served is what a restart would serve.        *)
MemoryIsDurable == LockFree => records = manifest

(* A download that was found ends in 404 only if the last entry for its    *)
(* content was removed for good meanwhile; failed or rolled back changes   *)
(* of other entries cannot take a file away (distribution.go:94-115).      *)
FilesStayWhileListed ==
  \A d \in Download : download[d] = "gone" => d \in withdrawn
=============================================================================
