------------------------ MODULE DistributionStoreProofs ------------------------
(***************************************************************************)
(* The manifest names only files that are there, memory is what it says,   *)
(* and downloads find what is listed, for any keys, contents, downloads    *)
(* and limit.                                                              *)
(***************************************************************************)
EXTENDS DistributionStore, FiniteSetTheorems, TLAPS

\* Every file the catalogue m names is there, and m is not too long.
Backed(m, files) ==
  /\ \A k \in Held(m) : m[k].blob \in files
  /\ IsFiniteSet(Held(m))
  /\ Cardinality(Held(m)) <= MaxRecords

\* Memory is ahead of the manifest only between the change and the save, and
\* then the manifest is what it goes back to.
InStep ==
  /\ ~up => phase = "idle" /\ records = Empty
  /\ up /\ phase # "save" => records = manifest
  /\ phase = "save" => before = manifest

\* A download under way still finds its entry, or has seen the last one go.
DownloadsFollow ==
  \A d \in Download :
    /\ download[d] = "found" => d \in withdrawn \/ Uses(manifest, wanted[d])
    /\ download[d] = "gone" => d \in withdrawn

IInv ==
  /\ TypeOK
  /\ Backed(records, blobs)
  /\ Backed(manifest, blobs)
  /\ InStep
  /\ DownloadsFollow

-----------------------------------------------------------------------------
(* Catalogues *)

LEMMA EntriesAreRecords ==
  ASSUME NEW m \in Catalogue
  PROVE  \A k \in Held(m) : k \in Key /\ m[k] \in Record /\ m[k].blob \in Blob
BY DEF Catalogue, Held, Record

LEMMA EmptyIsBacked ==
  ASSUME NEW files
  PROVE  Empty \in Catalogue /\ Backed(Empty, files)
<1>1. Held(Empty) = {}
  BY DEF Held, Empty
<1>2. IsFiniteSet({}) /\ Cardinality({}) = 0
  BY FS_EmptySet
<1> QED BY <1>1, <1>2, MaxAssumption DEF Backed, Catalogue, Empty

LEMMA BackedByMore ==
  ASSUME NEW m, NEW files, NEW more, files \subseteq more, Backed(m, files)
  PROVE  Backed(m, more)
BY DEF Backed

LEMMA SanitizedIsName ==
  ASSUME NEW n \in FileName
  PROVE  Sanitized(n) \in FileName
BY DEF FileName, Sanitized, Trimmed, Base

LEMMA BackedWithEntry ==
  ASSUME NEW m \in Catalogue, NEW files, NEW k \in Key, NEW b \in files,
         NEW n \in FileName, NEW e \in BOOLEAN, b \in Blob, Backed(m, files),
         m[k] # None \/ Cardinality(Held(m)) < MaxRecords
  PROVE  LET w == [m EXCEPT ![k] = [blob |-> b, name |-> n, enabled |-> e]]
         IN w \in Catalogue /\ Backed(w, files)
<1> DEFINE v == [blob |-> b, name |-> n, enabled |-> e]
           w == [m EXCEPT ![k] = v]
<1>1. v \in Record /\ v.blob = b
  BY DEF Record
<1> HIDE DEF v
<1>2. w \in Catalogue
  BY <1>1 DEF Catalogue
<1>3. Held(w) \subseteq Held(m) \cup {k}
  BY DEF Held, Catalogue
<1>4. \A q \in Held(w) : w[q].blob \in files
  <2> SUFFICES ASSUME NEW q \in Held(w) PROVE w[q].blob \in files
    OBVIOUS
  <2>1. CASE q = k
    BY <1>1, <2>1 DEF Catalogue
  <2>2. CASE q # k
    <3>1. w[q] = m[q] /\ q \in Held(m)
      BY <1>3, <2>2 DEF Catalogue, Held
    <3> QED BY <3>1 DEF Backed
  <2> QED BY <2>1, <2>2
<1>5. IsFiniteSet(Held(m) \cup {k}) /\ IsFiniteSet(Held(w))
  BY <1>3, FS_AddElement, FS_Subset DEF Backed
<1>6. Cardinality(Held(w)) <= MaxRecords
  <2>1. Cardinality(Held(w)) <= Cardinality(Held(m) \cup {k})
    BY <1>3, <1>5, FS_Subset
  <2>2. Cardinality(Held(m)) \in Nat /\ Cardinality(Held(w)) \in Nat
    BY <1>5, FS_CardinalityType DEF Backed
  <2>3. Cardinality(Held(m) \cup {k}) = IF k \in Held(m) THEN Cardinality(Held(m))
                                         ELSE Cardinality(Held(m)) + 1
    BY FS_AddElement DEF Backed
  <2>4. m[k] # None => k \in Held(m)
    BY DEF Held
  <2>5. Cardinality(Held(m)) <= MaxRecords
    BY DEF Backed
  <2> HIDE DEF w
  <2> QED BY <2>1, <2>2, <2>3, <2>4, <2>5, MaxAssumption
<1>7. w \in Catalogue /\ Backed(w, files)
  BY <1>2, <1>4, <1>5, <1>6 DEF Backed
<1> QED BY <1>7 DEF v

LEMMA BackedWithoutEntry ==
  ASSUME NEW m \in Catalogue, NEW files, NEW k \in Key, Backed(m, files)
  PROVE  LET w == [m EXCEPT ![k] = None]
         IN w \in Catalogue /\ Backed(w, files)
<1> DEFINE w == [m EXCEPT ![k] = None]
<1>1. w \in Catalogue
  BY DEF Catalogue
<1>2. Held(w) \subseteq Held(m) /\ \A q \in Held(w) : w[q] = m[q]
  BY DEF Held, Catalogue
<1>3. IsFiniteSet(Held(m)) /\ Cardinality(Held(m)) <= MaxRecords
  BY DEF Backed
<1>4. /\ IsFiniteSet(Held(w)) /\ Cardinality(Held(w)) <= Cardinality(Held(m))
      /\ Cardinality(Held(m)) \in Nat /\ Cardinality(Held(w)) \in Nat
  BY <1>2, <1>3, FS_Subset, FS_CardinalityType
<1>5. Cardinality(Held(w)) <= MaxRecords
  <2> HIDE DEF w
  <2> QED BY <1>3, <1>4, MaxAssumption
<1>6. \A q \in Held(w) : w[q].blob \in files
  BY <1>2 DEF Backed
<1> QED BY <1>1, <1>4, <1>5, <1>6 DEF Backed

-----------------------------------------------------------------------------
(* Mutations *)

\* What every mutation does, apart from which catalogue it makes.
LEMMA ChangeKeepsInvariant ==
  ASSUME IInv, LockFree, NEW m \in Catalogue, NEW new \in Blob \cup {None},
         NEW old \in Blob \cup {None}, Change(m, new, old),
         blobs' \subseteq Blob, blobs \subseteq blobs', Backed(m, blobs')
  PROVE  IInv'
<1>1. TypeOK'
  BY DEF IInv, TypeOK, Change, downloads
<1>2. Backed(records, blobs)'
  BY DEF Change
<1>3. Backed(manifest, blobs)'
  BY BackedByMore DEF Change, IInv
<1>4. InStep'
  BY DEF IInv, InStep, Change, LockFree
<1>5. DownloadsFollow'
  BY DEF IInv, DownloadsFollow, Change, downloads
<1> QED BY <1>1, <1>2, <1>3, <1>4, <1>5 DEF IInv

LEMMA CreateKeepsInvariant ==
  ASSUME IInv, NEW k \in Key, NEW b \in Blob, NEW n \in FileName,
         NEW e \in BOOLEAN, Create(k, b, n, e)
  PROVE  IInv'
<1> DEFINE m == [records EXCEPT ![k] = [blob |-> b, name |-> Sanitized(n), enabled |-> e]]
<1>1. Backed(records, blobs \cup {b})
  BY BackedByMore DEF IInv
<1>2. m \in Catalogue /\ Backed(m, blobs \cup {b})
  BY <1>1, SanitizedIsName, BackedWithEntry DEF IInv, TypeOK, Create
<1>3. /\ LockFree /\ Change(m, b, None) /\ blobs' = blobs \cup {b}
      /\ blobs' \subseteq Blob /\ blobs \subseteq blobs'
  BY DEF Create, IInv, TypeOK
<1> HIDE DEF m
<1> QED BY <1>2, <1>3, ChangeKeepsInvariant

LEMMA RenameKeepsInvariant ==
  ASSUME IInv, NEW k \in Key, NEW e \in BOOLEAN, Rename(k, e)
  PROVE  IInv'
<1> DEFINE b == records[k].blob
           n == records[k].name
           m == [records EXCEPT ![k] = [blob |-> b, name |-> n, enabled |-> e]]
<1>1. records \in Catalogue /\ records[k] \in Record
  BY DEF IInv, TypeOK, Rename, Catalogue
<1>2. [records[k] EXCEPT !.enabled = e] = [blob |-> b, name |-> n, enabled |-> e]
  BY <1>1 DEF Record
<1>3. [records EXCEPT ![k].enabled = e] = m
  BY <1>2, Zenon
<1>4. b \in blobs /\ b \in Blob /\ n \in FileName
  BY <1>1 DEF IInv, Backed, Rename, Held, Record
<1>5. m \in Catalogue /\ Backed(m, blobs)
  BY <1>1, <1>4, BackedWithEntry DEF IInv, Rename
<1>6. LockFree /\ Change(m, None, None) /\ blobs' = blobs
  BY <1>3 DEF Rename
<1>7. blobs \subseteq Blob
  BY DEF IInv, TypeOK
<1> HIDE DEF m
<1> QED BY <1>5, <1>6, <1>7, ChangeKeepsInvariant

LEMMA ReplaceKeepsInvariant ==
  ASSUME IInv, NEW k \in Key, NEW b \in Blob, NEW n \in FileName,
         NEW e \in BOOLEAN, Replace(k, b, n, e)
  PROVE  IInv'
<1> DEFINE m == [records EXCEPT ![k] = [blob |-> b, name |-> Sanitized(n), enabled |-> e]]
           same == b = records[k].blob
           new == IF same THEN None ELSE b
           old == IF same THEN None ELSE records[k].blob
<1>1. Backed(records, blobs \cup {b})
  BY BackedByMore DEF IInv
<1>2. m \in Catalogue /\ Backed(m, blobs \cup {b})
  BY <1>1, SanitizedIsName, BackedWithEntry DEF IInv, TypeOK, Replace
<1>3. records[k].blob \in Blob
  BY DEF Replace, IInv, TypeOK, Catalogue, Record
<1>4. /\ LockFree /\ Change(m, new, old) /\ blobs' = blobs \cup {b}
      /\ blobs' \subseteq Blob /\ blobs \subseteq blobs'
  BY DEF Replace, IInv, TypeOK
<1>5. new \in Blob \cup {None} /\ old \in Blob \cup {None}
  BY <1>3
<1> HIDE DEF m, new, old
<1> QED BY <1>2, <1>4, <1>5, ChangeKeepsInvariant

LEMMA DeleteKeepsInvariant ==
  ASSUME IInv, NEW k \in Key, Delete(k)
  PROVE  IInv'
<1> DEFINE m == [records EXCEPT ![k] = None]
<1>1. m \in Catalogue /\ Backed(m, blobs)
  BY BackedWithoutEntry DEF IInv, TypeOK
<1>2. records[k].blob \in Blob
  BY DEF Delete, IInv, TypeOK, Catalogue, Record
<1>3. LockFree /\ Change(m, None, records[k].blob) /\ blobs' = blobs
  BY DEF Delete
<1>4. blobs \subseteq Blob
  BY DEF IInv, TypeOK
<1> HIDE DEF m
<1> QED BY <1>1, <1>2, <1>3, <1>4, ChangeKeepsInvariant

-----------------------------------------------------------------------------
(* The save and what follows it *)

LEMMA SaveSucceedsKeepsInvariant ==
  ASSUME IInv, SaveSucceeds
  PROVE  IInv'
<1>1. TypeOK'
  BY DEF IInv, TypeOK, SaveSucceeds
<1>2. Backed(records, blobs)' /\ Backed(manifest, blobs)'
  BY DEF IInv, SaveSucceeds
<1>3. InStep'
  BY DEF IInv, InStep, SaveSucceeds
<1>4. DownloadsFollow'
  <2> SUFFICES ASSUME NEW d \in Download
               PROVE  /\ download[d] = "found" => d \in withdrawn' \/ Uses(records, wanted[d])
                      /\ download[d] = "gone" => d \in withdrawn'
    BY DEF DownloadsFollow, SaveSucceeds, Uses, Held
  <2>1. withdrawn' = withdrawn \cup
          {x \in Download : download[x] = "found" /\ ~Uses(records, wanted[x])}
    BY DEF SaveSucceeds
  <2> QED BY <2>1 DEF IInv, DownloadsFollow
<1> QED BY <1>1, <1>2, <1>3, <1>4 DEF IInv

LEMMA SaveFailsKeepsInvariant ==
  ASSUME IInv, SaveFails
  PROVE  IInv'
<1>1. records' = manifest
  BY DEF IInv, InStep, SaveFails, RolledBack
<1>2. TypeOK'
  BY <1>1 DEF IInv, TypeOK, SaveFails, downloads
<1>3. Backed(records, blobs)' /\ Backed(manifest, blobs)'
  BY <1>1 DEF IInv, SaveFails
<1>4. InStep'
  BY <1>1 DEF IInv, InStep, SaveFails
<1>5. DownloadsFollow'
  BY DEF IInv, DownloadsFollow, SaveFails, downloads
<1> QED BY <1>2, <1>3, <1>4, <1>5 DEF IInv

LEMMA CleanKeepsInvariant ==
  ASSUME IInv, Clean
  PROVE  IInv'
<1>1. /\ records' = records /\ manifest' = manifest /\ records = manifest
      /\ up' = up /\ up /\ phase' = "idle"
  BY DEF IInv, InStep, Clean
<1>2. blobs' \subseteq blobs /\ \A b \in blobs \ blobs' : ~Uses(records, b)
  BY DEF Clean, Unused
<1>3. TypeOK'
  BY <1>1, <1>2, EmptyIsBacked DEF IInv, TypeOK, Clean, downloads
<1>4. \A k \in Held(records) : records[k].blob \in blobs'
  BY <1>2 DEF IInv, Backed, Uses
<1>5. Backed(records, blobs)' /\ Backed(manifest, blobs)'
  BY <1>1, <1>4 DEF IInv, Backed
<1>6. InStep'
  BY <1>1 DEF InStep
<1>7. DownloadsFollow'
  BY DEF IInv, DownloadsFollow, Clean, downloads
<1> QED BY <1>3, <1>5, <1>6, <1>7 DEF IInv

-----------------------------------------------------------------------------
(* Downloads and the process *)

LEMMA LookUpKeepsInvariant ==
  ASSUME IInv, NEW d \in Download, NEW b \in Blob, LookUp(d, b)
  PROVE  IInv'
<1>1. TypeOK'
  BY DEF IInv, TypeOK, LookUp, operation
<1>2. Backed(records, blobs)' /\ Backed(manifest, blobs)' /\ InStep'
  BY DEF IInv, LookUp, InStep, operation
<1>3. Uses(manifest, b)
  BY DEF LookUp, LockFree, IInv, InStep, Uses
<1>4. DownloadsFollow'
  <2> SUFFICES ASSUME NEW x \in Download
               PROVE  /\ download'[x] = "found" => x \in withdrawn \/ Uses(manifest, wanted'[x])
                      /\ download'[x] = "gone" => x \in withdrawn
    BY DEF DownloadsFollow, LookUp, Uses, Held
  <2>1. CASE x = d
    BY <1>3, <2>1 DEF LookUp, IInv, TypeOK
  <2>2. CASE x # d
    BY <2>2 DEF LookUp, IInv, TypeOK, DownloadsFollow
  <2> QED BY <2>1, <2>2
<1> QED BY <1>1, <1>2, <1>4 DEF IInv

LEMMA OpenKeepsInvariant ==
  ASSUME IInv, NEW d \in Download, Open(d)
  PROVE  IInv'
<1>1. TypeOK'
  BY DEF IInv, TypeOK, Open, operation
<1>2. Backed(records, blobs)' /\ Backed(manifest, blobs)' /\ InStep'
  BY DEF IInv, Open, InStep, operation
<1>3. wanted[d] \notin blobs => d \in withdrawn
  BY DEF IInv, DownloadsFollow, Backed, Uses, Open
<1>4. DownloadsFollow'
  <2> SUFFICES ASSUME NEW x \in Download
               PROVE  /\ download'[x] = "found" => x \in withdrawn \/ Uses(manifest, wanted[x])
                      /\ download'[x] = "gone" => x \in withdrawn
    BY DEF DownloadsFollow, Open, Uses, Held
  <2>1. CASE x = d
    BY <1>3, <2>1 DEF Open, IInv, TypeOK
  <2>2. CASE x # d
    BY <2>2 DEF Open, IInv, TypeOK, DownloadsFollow
  <2> QED BY <2>1, <2>2
<1> QED BY <1>1, <1>2, <1>4 DEF IInv

LEMMA CrashKeepsInvariant ==
  ASSUME IInv, Crash
  PROVE  IInv'
<1>1. TypeOK'
  BY EmptyIsBacked DEF IInv, TypeOK, Crash
<1>2. Backed(records, blobs)' /\ Backed(manifest, blobs)'
  BY EmptyIsBacked DEF IInv, Crash
<1>3. InStep'
  BY DEF InStep, Crash
<1>4. DownloadsFollow'
  BY DEF IInv, TypeOK, DownloadsFollow, Crash
<1> QED BY <1>1, <1>2, <1>3, <1>4 DEF IInv

LEMMA StartKeepsInvariant ==
  ASSUME IInv, Start
  PROVE  IInv'
BY DEF IInv, TypeOK, Start, operation, downloads, InStep, DownloadsFollow

-----------------------------------------------------------------------------
(* The invariant *)

LEMMA Invariance == Spec => []IInv
<1>1. Init => IInv
  BY EmptyIsBacked DEF Init, IInv, TypeOK, InStep, DownloadsFollow
<1>2. IInv /\ [Next]_vars => IInv'
  <2> SUFFICES ASSUME IInv, [Next]_vars PROVE IInv'
    OBVIOUS
  <2>1. CASE Mutate
    BY <2>1, CreateKeepsInvariant, RenameKeepsInvariant, ReplaceKeepsInvariant,
       DeleteKeepsInvariant DEF Mutate
  <2>2. CASE Finish
    BY <2>2, SaveSucceedsKeepsInvariant, SaveFailsKeepsInvariant,
       CleanKeepsInvariant DEF Finish
  <2>3. CASE \E d \in Download : Open(d) \/ \E b \in Blob : LookUp(d, b)
    BY <2>3, OpenKeepsInvariant, LookUpKeepsInvariant
  <2>4. CASE Crash
    BY <2>4, CrashKeepsInvariant
  <2>5. CASE Start
    BY <2>5, StartKeepsInvariant
  <2>6. CASE UNCHANGED vars
    BY <2>6 DEF IInv, TypeOK, vars, operation, downloads, InStep, DownloadsFollow
  <2> QED BY <2>1, <2>2, <2>3, <2>4, <2>5, <2>6 DEF Next
<1> QED BY <1>1, <1>2, PTL DEF Spec

-----------------------------------------------------------------------------
(* Theorems *)

\* Every reachable state of the store is well typed.
THEOREM TypeCorrect == Spec => []TypeOK
<1>1. IInv => TypeOK
  BY DEF IInv
<1> QED BY <1>1, Invariance, PTL

\* Wherever the process dies, the manifest names only files that are there and
\* is not too long: nothing but a file's name can make load refuse it
\* (distribution_store.go:261-286).
THEOREM FilesAreAlwaysThere == Spec => []OnlyNamesRefuseAStart
<1>1. IInv => OnlyNamesRefuseAStart
  BY DEF IInv, Backed, OnlyNamesRefuseAStart, FilesThere
<1> QED BY <1>1, Invariance, PTL

\* Between operations, failed ones included, memory is what the manifest says.
THEOREM MemoryAlwaysDurable == Spec => []MemoryIsDurable
<1>1. IInv => MemoryIsDurable
  BY DEF IInv, InStep, MemoryIsDurable, LockFree
<1> QED BY <1>1, Invariance, PTL

\* A download that was found is a 404 only if the last entry for its content
\* was removed for good meanwhile (distribution.go:94-115).
THEOREM ListedFilesStay == Spec => []FilesStayWhileListed
<1>1. IInv => FilesStayWhileListed
  BY DEF IInv, DownloadsFollow, FilesStayWhileListed
<1> QED BY <1>1, Invariance, PTL
=============================================================================
