-------------------------- MODULE SurveyStoreProofs --------------------------
(***************************************************************************)
(* SurveyStore implements SurveyLedger and its files can always be loaded, *)
(* for any keys, definitions, answers and limits; the results page adds    *)
(* up; and the rules normalise a text only once.                           *)
(***************************************************************************)
EXTENDS SurveyResults, FiniteSetTheorems, TLAPS

-----------------------------------------------------------------------------
(* How many entries a map holds *)

LEMMA HeldIsFinite ==
  ASSUME NEW m, IsFiniteSet(DOMAIN m)
  PROVE  IsFiniteSet(Held(m)) /\ Cardinality(Held(m)) \in Nat
<1>1. Held(m) \subseteq DOMAIN m
  BY DEF Held
<1> QED BY <1>1, FS_Subset, FS_CardinalityType

LEMMA HeldAfterAdding ==
  ASSUME NEW m, IsFiniteSet(DOMAIN m), NEW x \in DOMAIN m, m[x] = None,
         NEW v, v # None
  PROVE  Cardinality(Held([m EXCEPT ![x] = v])) = Cardinality(Held(m)) + 1
<1>1. Held([m EXCEPT ![x] = v]) = Held(m) \cup {x}
  BY DEF Held
<1>2. x \notin Held(m)
  BY DEF Held
<1> QED BY <1>1, <1>2, HeldIsFinite, FS_AddElement

LEMMA HeldAfterChanging ==
  ASSUME NEW m, NEW x \in DOMAIN m, m[x] # None, NEW v, v # None
  PROVE  Held([m EXCEPT ![x] = v]) = Held(m)
BY DEF Held

LEMMA HeldAfterRemoving ==
  ASSUME NEW m, IsFiniteSet(DOMAIN m), NEW x \in DOMAIN m
  PROVE  Cardinality(Held([m EXCEPT ![x] = None])) <= Cardinality(Held(m))
<1>1. Held([m EXCEPT ![x] = None]) \subseteq Held(m)
  BY DEF Held
<1> QED BY <1>1, HeldIsFinite, FS_Subset

-----------------------------------------------------------------------------
(* A step of the ledger keeps its two maps loadable. *)

\* The ledger's helpers are the store's.
LEMMA SameHelpers ==
  ASSUME NEW m
  PROVE  /\ Ledger!Held(m) = Held(m)
         /\ Ledger!Cardinality(m) = Cardinality(m)
<1>1. Ledger!Held(m) = Held(m)
  BY DEF Ledger!Held, Held
<1>2. Ledger!Cardinality(m) = Cardinality(m)
  BY ZenonT(30) DEF Ledger!Cardinality, Cardinality
<1> QED BY <1>1, <1>2

-----------------------------------------------------------------------------
(* A step of the ledger keeps its two maps loadable. *)

LedgerTypeOK == surveysFile \in SurveyMap /\ responsesFile \in ResponseMap

\* What the maps' types say of their entries.
LEMMA EntriesAreTyped ==
  ASSUME LedgerTypeOK
  PROVE  /\ DOMAIN surveysFile = SurveyKey /\ DOMAIN responsesFile = ResponseKey
         /\ \A k \in Held(surveysFile) : surveysFile[k] \in Survey
         /\ \A r \in Held(responsesFile) :
              responsesFile[r] \in Response /\ responsesFile[r].survey \in SurveyKey
         /\ Cardinality(Held(surveysFile)) \in Nat
         /\ Cardinality(Held(responsesFile)) \in Nat
<1>1. DOMAIN surveysFile = SurveyKey /\ DOMAIN responsesFile = ResponseKey
  BY DEF LedgerTypeOK, SurveyMap, ResponseMap
<1>2. \A k \in Held(surveysFile) : surveysFile[k] \in Survey
  BY DEF LedgerTypeOK, SurveyMap, Held
<1>3. \A r \in Held(responsesFile) :
        responsesFile[r] \in Response /\ responsesFile[r].survey \in SurveyKey
  BY DEF LedgerTypeOK, ResponseMap, Held, Response
<1>4. /\ Cardinality(Held(surveysFile)) \in Nat
      /\ Cardinality(Held(responsesFile)) \in Nat
  BY <1>1, KeysAreFinite, HeldIsFinite
<1> QED BY <1>1, <1>2, <1>3, <1>4

\* Answers stay loadable when the surveys they are for keep their definition.
LEMMA AnswersStayLoadable ==
  ASSUME LedgerTypeOK, StartNeverRefused, responsesFile' = responsesFile,
         \A r \in Held(responsesFile) :
           LET k == responsesFile[r].survey IN
             surveysFile'[k] # None
             /\ surveysFile'[k].definition = surveysFile[k].definition
  PROVE  ValidResponses(surveysFile', responsesFile')
BY DEF StartNeverRefused, ValidResponses

LEMMA OpenKeepsLoadable ==
  ASSUME LedgerTypeOK, StartNeverRefused,
         NEW k \in SurveyKey, NEW d \in Definition, NEW enabled \in BOOLEAN,
         Ledger!Open(k, d, enabled)
  PROVE  LedgerTypeOK' /\ StartNeverRefused'
<1> DEFINE v == [definition |-> d, enabled |-> enabled]
<1>1. v \in Survey /\ v # None /\ v.definition = d
  BY NoneIsNoRecord DEF Survey
<1>2. /\ surveysFile[k] = None /\ d \in WellFormed
      /\ surveysFile' = [surveysFile EXCEPT ![k] = v]
      /\ responsesFile' = responsesFile
      /\ Cardinality(Held(surveysFile)) < MaxSurveys
  BY SameHelpers DEF Ledger!Open
<1> HIDE DEF v
<1>3. LedgerTypeOK'
  BY <1>1, <1>2 DEF LedgerTypeOK, SurveyMap
<1>4. \A q \in SurveyKey : q # k => surveysFile'[q] = surveysFile[q]
  BY <1>2, EntriesAreTyped
<1>5. surveysFile'[k] = v
  BY <1>2, EntriesAreTyped
<1>6. ValidDefinitions(surveysFile')
  <2>1. Cardinality(Held(surveysFile')) = Cardinality(Held(surveysFile)) + 1
    BY <1>1, <1>2, EntriesAreTyped, KeysAreFinite, HeldAfterAdding
  <2>2. \A q \in Held(surveysFile') : surveysFile'[q].definition \in WellFormed
    BY <1>1, <1>2, <1>4, <1>5, EntriesAreTyped
       DEF StartNeverRefused, ValidDefinitions, Held
  <2>3. Cardinality(Held(surveysFile')) <= MaxSurveys
    <3> HIDE DEF v
    <3> QED BY <1>2, <2>1, EntriesAreTyped, LimitsAreNatural
  <2> QED BY <2>2, <2>3 DEF ValidDefinitions
<1>7. ValidResponses(surveysFile', responsesFile')
  <2>1. \A r \in Held(responsesFile) : surveysFile[responsesFile[r].survey] # None
    BY DEF StartNeverRefused, ValidResponses
  <2> QED BY <1>2, <1>4, <2>1, EntriesAreTyped, AnswersStayLoadable
<1> QED BY <1>3, <1>6, <1>7 DEF StartNeverRefused

LEMMA ReviseKeepsLoadable ==
  ASSUME LedgerTypeOK, StartNeverRefused,
         NEW k \in SurveyKey, NEW d \in Definition, NEW enabled \in BOOLEAN,
         Ledger!Revise(k, d, enabled)
  PROVE  LedgerTypeOK' /\ StartNeverRefused'
<1> DEFINE v == [definition |-> d, enabled |-> enabled]
<1>1. v \in Survey /\ v # None /\ v.definition = d
  BY NoneIsNoRecord DEF Survey
<1>2. /\ surveysFile[k] # None /\ d \in WellFormed
      /\ surveysFile' = [surveysFile EXCEPT ![k] = v]
      /\ responsesFile' = responsesFile
  BY DEF Ledger!Revise
<1>3. \A r \in Held(responsesFile) :
        responsesFile[r].survey = k => d = surveysFile[k].definition
  BY SameHelpers DEF Ledger!Revise, Ledger!ResponsesTo
<1> HIDE DEF v
<1>4. LedgerTypeOK'
  BY <1>1, <1>2 DEF LedgerTypeOK, SurveyMap
<1>5. \A q \in SurveyKey : q # k => surveysFile'[q] = surveysFile[q]
  BY <1>2, EntriesAreTyped
<1>6. surveysFile'[k] = v
  BY <1>2, EntriesAreTyped
<1>7. ValidDefinitions(surveysFile')
  <2>1. Held(surveysFile') = Held(surveysFile)
    BY <1>1, <1>2, EntriesAreTyped, HeldAfterChanging
  <2>2. \A q \in Held(surveysFile') : surveysFile'[q].definition \in WellFormed
    BY <1>1, <1>2, <1>5, <1>6, EntriesAreTyped
       DEF StartNeverRefused, ValidDefinitions, Held
  <2> QED BY <2>1, <2>2 DEF StartNeverRefused, ValidDefinitions
<1>8. ValidResponses(surveysFile', responsesFile')
  <2>1. \A r \in Held(responsesFile) : surveysFile[responsesFile[r].survey] # None
    BY DEF StartNeverRefused, ValidResponses
  <2> QED BY <1>1, <1>2, <1>3, <1>5, <1>6, <2>1, EntriesAreTyped, AnswersStayLoadable
<1> QED BY <1>4, <1>7, <1>8 DEF StartNeverRefused

LEMMA WithdrawKeepsLoadable ==
  ASSUME LedgerTypeOK, StartNeverRefused,
         NEW k \in SurveyKey, Ledger!Withdraw(k)
  PROVE  LedgerTypeOK' /\ StartNeverRefused'
<1>1. /\ surveysFile' = [surveysFile EXCEPT ![k] = None]
      /\ responsesFile' = responsesFile
  BY DEF Ledger!Withdraw
<1>2. \A r \in Held(responsesFile) : responsesFile[r].survey # k
  BY SameHelpers DEF Ledger!Withdraw, Ledger!ResponsesTo
<1>3. LedgerTypeOK'
  BY <1>1 DEF LedgerTypeOK, SurveyMap
<1>4. \A q \in SurveyKey : q # k => surveysFile'[q] = surveysFile[q]
  BY <1>1, EntriesAreTyped
<1>5. ValidDefinitions(surveysFile')
  <2>1. Cardinality(Held(surveysFile')) <= Cardinality(Held(surveysFile))
    BY <1>1, EntriesAreTyped, KeysAreFinite, HeldAfterRemoving
  <2>2. Cardinality(Held(surveysFile')) \in Nat
    BY <1>1, EntriesAreTyped, KeysAreFinite, HeldIsFinite
  <2>3. \A q \in Held(surveysFile') : surveysFile'[q].definition \in WellFormed
    BY <1>1, <1>4, EntriesAreTyped DEF StartNeverRefused, ValidDefinitions, Held
  <2> QED BY <2>1, <2>2, <2>3, EntriesAreTyped, LimitsAreNatural
          DEF StartNeverRefused, ValidDefinitions
<1>6. ValidResponses(surveysFile', responsesFile')
  <2>1. \A r \in Held(responsesFile) : surveysFile[responsesFile[r].survey] # None
    BY DEF StartNeverRefused, ValidResponses
  <2> QED BY <1>1, <1>2, <1>4, <2>1, EntriesAreTyped, AnswersStayLoadable
<1> QED BY <1>3, <1>5, <1>6 DEF StartNeverRefused

LEMMA AnswerKeepsLoadable ==
  ASSUME LedgerTypeOK, StartNeverRefused,
         NEW r \in ResponseKey, NEW k \in SurveyKey, NEW a \in Answers,
         Ledger!Answer(r, k, a)
  PROVE  LedgerTypeOK' /\ StartNeverRefused'
<1> DEFINE v == [survey |-> k, answers |-> a]
<1>1. v \in Response /\ v # None /\ v.survey = k /\ v.answers = a
  BY NoneIsNoRecord DEF Response
<1>2. /\ responsesFile[r] = None
      /\ surveysFile[k] # None /\ <<surveysFile[k].definition, a>> \in Fits
      /\ responsesFile' = [responsesFile EXCEPT ![r] = v]
      /\ surveysFile' = surveysFile
      /\ Cardinality(Held(responsesFile)) < MaxResponses
  BY SameHelpers DEF Ledger!Answer
<1> HIDE DEF v
<1>3. LedgerTypeOK'
  BY <1>1, <1>2 DEF LedgerTypeOK, ResponseMap
<1>4. /\ \A q \in ResponseKey : q # r => responsesFile'[q] = responsesFile[q]
      /\ responsesFile'[r] = v
      /\ DOMAIN responsesFile' = ResponseKey
  BY <1>2, EntriesAreTyped
<1>5. ValidDefinitions(surveysFile')
  BY <1>2 DEF StartNeverRefused
<1>6. ValidResponses(surveysFile', responsesFile')
  <2>1. Cardinality(Held(responsesFile')) = Cardinality(Held(responsesFile)) + 1
    BY <1>1, <1>2, EntriesAreTyped, KeysAreFinite, HeldAfterAdding
  <2>2. Cardinality(Held(responsesFile')) <= MaxResponses
    BY <1>2, <2>1, EntriesAreTyped, LimitsAreNatural
  <2>3. ASSUME NEW q \in Held(responsesFile')
        PROVE  /\ surveysFile'[responsesFile'[q].survey] # None
               /\ <<surveysFile'[responsesFile'[q].survey].definition,
                    responsesFile'[q].answers>> \in Fits
    <3>1. CASE q = r
      BY <1>1, <1>2, <1>4, <3>1
    <3>2. CASE q # r
      <4>1. q \in Held(responsesFile) /\ responsesFile'[q] = responsesFile[q]
        BY <1>4, <3>2, <2>3, EntriesAreTyped DEF Held
      <4> QED BY <1>2, <4>1 DEF StartNeverRefused, ValidResponses
    <3> QED BY <3>1, <3>2
  <2> QED BY <2>2, <2>3 DEF ValidResponses
<1> QED BY <1>3, <1>5, <1>6 DEF StartNeverRefused

-----------------------------------------------------------------------------
(* The inductive invariant *)

\* Memory is ahead of the files by one change the ledger allows.
AnsweredOnDisk(k) == \E r \in Held(responsesFile) : responsesFile[r].survey = k

PendingCreate(k, d, enabled) ==
  /\ surveysFile[k] = None
  /\ Cardinality(Held(surveysFile)) < MaxSurveys
  /\ d \in WellFormed
  /\ surveys = [surveysFile EXCEPT ![k] = Record(d, enabled)]

PendingUpdate(k, d, enabled) ==
  /\ surveysFile[k] # None
  /\ d \in WellFormed
  /\ AnsweredOnDisk(k) => d = surveysFile[k].definition
  /\ surveys = [surveysFile EXCEPT ![k] = Record(d, enabled)]

PendingDelete(k) ==
  /\ surveysFile[k] # None
  /\ ~AnsweredOnDisk(k)
  /\ surveys = [surveysFile EXCEPT ![k] = None]

PendingSubmit(r, k, a) ==
  /\ surveysFile[k] # None
  /\ surveysFile[k].enabled
  /\ <<surveysFile[k].definition, a>> \in Fits
  /\ Cardinality(Held(responsesFile)) < MaxResponses
  /\ responsesFile[r] = None
  /\ responses = [responsesFile EXCEPT ![r] = [survey |-> k, answers |-> a]]

SavingSurveys ==
  /\ up
  /\ undo = <<surveysFile, responsesFile>>
  /\ responses = responsesFile
  /\ \/ \E k \in SurveyKey, d \in Definition, enabled \in BOOLEAN :
          PendingCreate(k, d, enabled) \/ PendingUpdate(k, d, enabled)
     \/ \E k \in SurveyKey : PendingDelete(k)

SavingResponses ==
  /\ up
  /\ undo = <<surveysFile, responsesFile>>
  /\ surveys = surveysFile
  /\ \E r \in ResponseKey, k \in SurveyKey, a \in Answers : PendingSubmit(r, k, a)

IInv ==
  /\ TypeOK
  /\ StartNeverRefused
  /\ MemoryIsDurable
  /\ saving = "surveys" => SavingSurveys
  /\ saving = "responses" => SavingResponses

-----------------------------------------------------------------------------
(* A completed write is a step of the ledger; nothing else touches the files. *)

LEMMA SaveIsLedgerStep == IInv /\ SaveSucceeds => Ledger!Next
<1> SUFFICES ASSUME IInv, SaveSucceeds PROVE Ledger!Next
  OBVIOUS
<1>1. CASE saving = "surveys"
  <2> USE <1>1 DEF SaveSucceeds
  <2>1. /\ SavingSurveys
        /\ surveysFile' = surveys
        /\ responsesFile' = responsesFile
    BY DEF IInv
  <2>2. ASSUME NEW k \in SurveyKey, NEW d \in Definition, NEW enabled \in BOOLEAN,
               PendingCreate(k, d, enabled)
        PROVE  Ledger!Open(k, d, enabled)
    BY <2>1, <2>2, SameHelpers DEF PendingCreate, Record, Ledger!Open
  <2>3. ASSUME NEW k \in SurveyKey, NEW d \in Definition, NEW enabled \in BOOLEAN,
               PendingUpdate(k, d, enabled)
        PROVE  Ledger!Revise(k, d, enabled)
    BY <2>1, <2>3, SameHelpers
       DEF PendingUpdate, AnsweredOnDisk, Record, Ledger!Revise, Ledger!ResponsesTo
  <2>4. ASSUME NEW k \in SurveyKey, PendingDelete(k)
        PROVE  Ledger!Withdraw(k)
    BY <2>1, <2>4, SameHelpers
       DEF PendingDelete, AnsweredOnDisk, Ledger!Withdraw, Ledger!ResponsesTo
  <2> QED BY <2>1, <2>2, <2>3, <2>4 DEF SavingSurveys, Ledger!Next
<1>2. CASE saving = "responses"
  <2> USE <1>2 DEF SaveSucceeds
  <2>1. /\ SavingResponses
        /\ responsesFile' = responses
        /\ surveysFile' = surveysFile
    BY DEF IInv
  <2>2. ASSUME NEW r \in ResponseKey, NEW k \in SurveyKey, NEW a \in Answers,
               PendingSubmit(r, k, a)
        PROVE  Ledger!Answer(r, k, a)
    BY <2>1, <2>2, SameHelpers DEF PendingSubmit, Ledger!Answer
  <2> QED BY <2>1, <2>2 DEF SavingResponses, Ledger!Next
<1> QED BY <1>1, <1>2 DEF SaveSucceeds, IInv, TypeOK

LEMMA LedgerStepKeepsLoadable ==
  ASSUME LedgerTypeOK, StartNeverRefused, Ledger!Next
  PROVE  LedgerTypeOK' /\ StartNeverRefused'
BY OpenKeepsLoadable, ReviseKeepsLoadable, WithdrawKeepsLoadable,
   AnswerKeepsLoadable DEF Ledger!Next

LEMMA OthersLeaveTheFiles ==
  ASSUME [Next]_vars, ~SaveSucceeds
  PROVE  UNCHANGED files
BY DEF Next, vars, files, Create, Update, Delete, Submit, Writing, SaveFails,
       Crash, Start

-----------------------------------------------------------------------------
(* The invariant holds initially and every action preserves it. *)

LEMMA InitInvariant == Init => IInv
<1> SUFFICES ASSUME Init PROVE IInv
  OBVIOUS
<1>1. /\ Held(surveysFile) = {} /\ Held(responsesFile) = {}
  BY DEF Init, Held, NoSurveys, NoResponses
<1>2. StartNeverRefused
  BY <1>1, FS_EmptySet, LimitsAreNatural
     DEF StartNeverRefused, ValidDefinitions, ValidResponses
<1>3. TypeOK
  BY DEF Init, TypeOK, NoSurveys, NoResponses, SurveyMap, ResponseMap
<1> QED BY <1>2, <1>3 DEF Init, IInv, MemoryIsDurable, LockFree

\* An operation begins: the files are as they were, memory gets one change.
LEMMA BeginInvariant ==
  ASSUME IInv, LockFree, UNCHANGED <<up, files>>,
         undo' = <<surveys, responses>>,
         surveys' \in SurveyMap, responses' \in ResponseMap,
         \/ saving' = "surveys" /\ SavingSurveys'
         \/ saving' = "responses" /\ SavingResponses'
  PROVE  IInv'
<1>1. TypeOK'
  BY DEF IInv, TypeOK, files
<1>2. StartNeverRefused'
  BY DEF IInv, StartNeverRefused, ValidDefinitions, ValidResponses, files
<1> QED BY <1>1, <1>2 DEF IInv, MemoryIsDurable, LockFree

LEMMA CreateInvariant ==
  ASSUME IInv, NEW k \in SurveyKey, NEW d \in Definition, NEW enabled \in BOOLEAN,
         Create(k, d, enabled)
  PROVE  IInv'
<1> USE DEF Create, Writing
<1>1. surveys = surveysFile /\ responses = responsesFile
  BY DEF IInv, MemoryIsDurable
<1>2. surveys' \in SurveyMap /\ responses' \in ResponseMap
  BY DEF IInv, TypeOK, SurveyMap, Survey, Record
<1>3. PendingCreate(k, d, enabled)'
  BY <1>1 DEF PendingCreate, files
<1>4. SavingSurveys'
  BY <1>1, <1>3 DEF SavingSurveys, files, LockFree
<1> QED BY <1>2, <1>4, BeginInvariant

LEMMA UpdateInvariant ==
  ASSUME IInv, NEW k \in SurveyKey, NEW d \in Definition, NEW enabled \in BOOLEAN,
         Update(k, d, enabled)
  PROVE  IInv'
<1> USE DEF Update, Writing
<1>1. surveys = surveysFile /\ responses = responsesFile
  BY DEF IInv, MemoryIsDurable
<1>2. surveys' \in SurveyMap /\ responses' \in ResponseMap
  BY DEF IInv, TypeOK, SurveyMap, Survey, Record
<1>3. PendingUpdate(k, d, enabled)'
  BY <1>1 DEF PendingUpdate, AnsweredOnDisk, Answered, files
<1>4. SavingSurveys'
  BY <1>1, <1>3 DEF SavingSurveys, files, LockFree
<1> QED BY <1>2, <1>4, BeginInvariant

LEMMA DeleteInvariant ==
  ASSUME IInv, NEW k \in SurveyKey, Delete(k)
  PROVE  IInv'
<1> USE DEF Delete, Writing
<1>1. surveys = surveysFile /\ responses = responsesFile
  BY DEF IInv, MemoryIsDurable
<1>2. surveys' \in SurveyMap /\ responses' \in ResponseMap
  BY DEF IInv, TypeOK, SurveyMap
<1>3. PendingDelete(k)'
  BY <1>1 DEF PendingDelete, AnsweredOnDisk, Answered, files
<1>4. SavingSurveys'
  BY <1>1, <1>3 DEF SavingSurveys, files, LockFree
<1> QED BY <1>2, <1>4, BeginInvariant

LEMMA SubmitInvariant ==
  ASSUME IInv, NEW r \in ResponseKey, NEW k \in SurveyKey, NEW a \in Answers,
         Submit(r, k, a)
  PROVE  IInv'
<1> USE DEF Submit, Accepting, Writing
<1>1. surveys = surveysFile /\ responses = responsesFile
  BY DEF IInv, MemoryIsDurable
<1>2. surveys' \in SurveyMap /\ responses' \in ResponseMap
  BY DEF IInv, TypeOK, ResponseMap, Response
<1>3. PendingSubmit(r, k, a)'
  BY <1>1 DEF PendingSubmit, files
<1>4. SavingResponses'
  BY <1>1, <1>3 DEF SavingResponses, files, LockFree
<1> QED BY <1>2, <1>4, BeginInvariant

LEMMA SaveSucceedsInvariant == IInv /\ SaveSucceeds => IInv'
<1> SUFFICES ASSUME IInv, SaveSucceeds PROVE IInv'
  OBVIOUS
<1>1. StartNeverRefused'
  BY SaveIsLedgerStep, LedgerStepKeepsLoadable DEF IInv, TypeOK, LedgerTypeOK
<1>2. surveysFile' = surveys /\ responsesFile' = responses
  BY DEF IInv, TypeOK, SaveSucceeds, SavingSurveys, SavingResponses
<1>3. TypeOK'
  BY <1>2 DEF IInv, TypeOK, SaveSucceeds, memory
<1>4. MemoryIsDurable'
  BY <1>2 DEF MemoryIsDurable, SaveSucceeds, memory
<1> QED BY <1>1, <1>3, <1>4 DEF IInv, SaveSucceeds

LEMMA SaveFailsInvariant == IInv /\ SaveFails => IInv'
<1> SUFFICES ASSUME IInv, SaveFails PROVE IInv'
  OBVIOUS
<1>1. undo = <<surveysFile, responsesFile>>
  BY DEF IInv, TypeOK, SaveFails, SavingSurveys, SavingResponses
<1>2. surveys' = surveysFile /\ responses' = responsesFile
  BY <1>1 DEF SaveFails, Rollback
<1>3. TypeOK'
  BY <1>2 DEF IInv, TypeOK, SaveFails, files
<1>4. StartNeverRefused'
  BY DEF IInv, SaveFails, files, StartNeverRefused, ValidDefinitions, ValidResponses
<1> QED BY <1>2, <1>3, <1>4 DEF IInv, SaveFails, files, MemoryIsDurable

LEMMA NextInvariant == IInv /\ [Next]_vars => IInv'
<1> SUFFICES ASSUME IInv, [Next]_vars PROVE IInv'
  OBVIOUS
<1>1. CASE Crash
  <2>1. TypeOK'
    BY <1>1 DEF Crash, files, IInv, TypeOK, NoSurveys, NoResponses, SurveyMap,
                ResponseMap
  <2>2. StartNeverRefused'
    BY <1>1 DEF Crash, files, IInv, StartNeverRefused, ValidDefinitions,
                ValidResponses
  <2> QED BY <1>1, <2>1, <2>2 DEF Crash, IInv, MemoryIsDurable, LockFree
<1>2. CASE Start
  <2>1. TypeOK' /\ saving' = saving
    BY <1>2 DEF Start, files, IInv, TypeOK
  <2>2. StartNeverRefused'
    BY <1>2 DEF Start, files, IInv, StartNeverRefused, ValidDefinitions,
                ValidResponses
  <2>3. saving = "nothing"
    BY <1>2 DEF Start, IInv, TypeOK, SavingSurveys, SavingResponses
  <2> QED BY <1>2, <2>1, <2>2, <2>3 DEF Start, files, IInv, MemoryIsDurable
<1>3. CASE UNCHANGED vars
  <2> USE <1>3 DEF vars
  <2>1. TypeOK' /\ StartNeverRefused' /\ MemoryIsDurable'
    BY DEF IInv, TypeOK, StartNeverRefused, ValidDefinitions, ValidResponses,
           MemoryIsDurable, LockFree
  <2>2. SavingSurveys => SavingSurveys'
    BY DEF SavingSurveys, PendingCreate, PendingUpdate, PendingDelete, AnsweredOnDisk
  <2>3. SavingResponses => SavingResponses'
    <3>1. ASSUME NEW r \in ResponseKey, NEW k \in SurveyKey, NEW a \in Answers,
                 PendingSubmit(r, k, a)
          PROVE  PendingSubmit(r, k, a)'
      BY <3>1 DEF PendingSubmit
    <3> QED BY <3>1 DEF SavingResponses
  <2> QED BY <2>1, <2>2, <2>3 DEF IInv
<1> QED BY <1>1, <1>2, <1>3, CreateInvariant, UpdateInvariant, DeleteInvariant,
           SubmitInvariant, SaveSucceedsInvariant, SaveFailsInvariant DEF Next

-----------------------------------------------------------------------------
(* The theorems *)

\* IInv holds in every reachable state.
LEMMA Invariance == Spec => []IInv
<1>1. IInv /\ [Next]_vars => IInv'
  BY NextInvariant
<1> QED BY InitInvariant, <1>1, PTL DEF Spec

\* Memory, files, lock and rollback copy keep their types.
THEOREM TypeCorrect == Spec => []TypeOK
<1>1. IInv => TypeOK
  BY DEF IInv
<1> QED BY <1>1, Invariance, PTL

\* NewSurveyStore accepts the files of every reachable state, a crash at any
\* point of any operation included.
THEOREM FilesAlwaysLoad == Spec => []StartNeverRefused
<1>1. IInv => StartNeverRefused
  BY DEF IInv
<1> QED BY <1>1, Invariance, PTL

\* Whenever no mutation is under way, memory and files agree.
THEOREM MemoryAlwaysDurable == Spec => []MemoryIsDurable
<1>1. IInv => MemoryIsDurable
  BY DEF IInv
<1> QED BY <1>1, Invariance, PTL

\* The files take the ledger's steps and no others: the store with its memory,
\* its failing writes and its crashes implements the atomic ledger.
THEOREM StoreImplementsLedger == Spec => ImplementsLedger
<1>1. Init => Ledger!Init
  BY DEF Init, Ledger!Init, NoSurveys, NoResponses, Ledger!NoSurveys,
         Ledger!NoResponses
<1>2. IInv /\ [Next]_vars => [Ledger!Next]_(Ledger!ledgerVars)
  <2> SUFFICES ASSUME IInv, [Next]_vars, ~SaveSucceeds
               PROVE  UNCHANGED Ledger!ledgerVars
    BY SaveIsLedgerStep
  <2> QED BY OthersLeaveTheFiles DEF files, Ledger!ledgerVars
<1> QED BY <1>1, <1>2, Invariance, PTL DEF Spec, ImplementsLedger, Ledger!Spec

\* Update and Delete: a survey with an answer on disk keeps its definition.
THEOREM AnsweredSurveysStayFrozen == Spec => AnsweredSurveysFrozen
<1> DEFINE Frozen ==
      \A r \in Held(responsesFile) :
        LET k == responsesFile[r].survey IN
          /\ surveysFile'[k] # None
          /\ surveysFile'[k].definition = surveysFile[k].definition
<1>1. IInv /\ [Next]_vars => [Frozen]_vars
  <2> SUFFICES ASSUME IInv, [Next]_vars, NEW r \in Held(responsesFile),
                      NEW q, q = responsesFile[r].survey
               PROVE  /\ surveysFile'[q] # None
                      /\ surveysFile'[q].definition = surveysFile[q].definition
    OBVIOUS
  <2>1. LedgerTypeOK
    BY DEF IInv, TypeOK, LedgerTypeOK
  <2>2. q \in SurveyKey /\ surveysFile[q] # None
    BY <2>1, EntriesAreTyped DEF IInv, StartNeverRefused, ValidResponses
  <2>3. DOMAIN surveysFile = SurveyKey
    BY <2>1, EntriesAreTyped
  <2>4. CASE ~SaveSucceeds
    BY <2>2, <2>4, OthersLeaveTheFiles DEF files
  <2>5. ASSUME NEW k \in SurveyKey, NEW d \in Definition, NEW enabled \in BOOLEAN,
               Ledger!Open(k, d, enabled)
        PROVE  surveysFile'[q] = surveysFile[q]
    BY <2>2, <2>3, <2>5 DEF Ledger!Open
  <2>6. ASSUME NEW k \in SurveyKey, NEW d \in Definition, NEW enabled \in BOOLEAN,
               Ledger!Revise(k, d, enabled)
        PROVE  /\ surveysFile'[q] # None
               /\ surveysFile'[q].definition = surveysFile[q].definition
    <3> DEFINE v == [definition |-> d, enabled |-> enabled]
    <3>1. surveysFile' = [surveysFile EXCEPT ![k] = v]
      BY <2>6 DEF Ledger!Revise
    <3>2. v \in Survey /\ v # None /\ v.definition = d
      BY NoneIsNoRecord DEF Survey
    <3>3. q = k => d = surveysFile[q].definition
      BY <2>6, SameHelpers DEF Ledger!Revise, Ledger!ResponsesTo
    <3> HIDE DEF v
    <3>4. CASE q = k
      BY <2>3, <3>1, <3>2, <3>3, <3>4
    <3>5. CASE q # k
      BY <2>2, <2>3, <3>1, <3>5
    <3> QED BY <3>4, <3>5
  <2>7. ASSUME NEW k \in SurveyKey, Ledger!Withdraw(k)
        PROVE  surveysFile'[q] = surveysFile[q]
    <3>1. q # k
      BY <2>7, SameHelpers DEF Ledger!Withdraw, Ledger!ResponsesTo
    <3> QED BY <2>2, <2>3, <2>7, <3>1 DEF Ledger!Withdraw
  <2>8. ASSUME NEW s \in ResponseKey, NEW k \in SurveyKey, NEW a \in Answers,
               Ledger!Answer(s, k, a)
        PROVE  surveysFile'[q] = surveysFile[q]
    BY <2>8 DEF Ledger!Answer
  <2>9. CASE SaveSucceeds
    <3>1. Ledger!Next
      BY <2>9, SaveIsLedgerStep
    <3> QED BY <2>2, <2>5, <2>6, <2>7, <2>8, <3>1 DEF Ledger!Next
  <2> QED BY <2>4, <2>9
<1> QED BY <1>1, Invariance, PTL DEF Spec, AnsweredSurveysFrozen

-----------------------------------------------------------------------------
(* The results page *)

\* A survey in memory whose definition and answers follow the rules.
Sound(k) ==
  /\ surveys[k].definition \in WellFormed
  /\ \A r \in GivenTo(k) :
       /\ responses[r].answers \in Seq(Answer)
       /\ <<surveys[k].definition, responses[r].answers>> \in Fits

\* What a valid answer sheet is, question by question.
LEMMA AnswersFollowTheRules ==
  ASSUME NEW d, NEW a, d \in WellFormed, a \in Seq(Answer), <<d, a>> \in Fits
  PROVE  /\ d.questions \in Seq(Question)
         /\ \A i, n \in DOMAIN a : a[i].question = a[n].question => i = n
         /\ \A i \in DOMAIN a : \E j \in DOMAIN d.questions :
              a[i].question = d.questions[j].id
         /\ \A j \in DOMAIN d.questions : d.questions[j].required =>
              \E i \in DOMAIN a : a[i].question = d.questions[j].id
         /\ \A j \in DOMAIN d.questions : \A i \in DOMAIN a :
              a[i].question = d.questions[j].id =>
                Rules!AnswerFits(d.questions[j], a[i])
<1>1. Rules!ValidResponse(d, a)
  BY RulesAreApplied
<1>2. \A i, n \in DOMAIN a : a[i].question = a[n].question => i = n
  BY <1>1 DEF Rules!ValidResponse, Rules!OncePerQuestion, Rules!IsInjective
<1> QED BY <1>1, <1>2, RecordsAreTyped DEF Rules!ValidResponse, Rules!IsAbout

\* The page shows an answer under the question it is about.
LEMMA PageShowsAnswers ==
  ASSUME NEW k, Sound(k), NEW r \in GivenTo(k),
         NEW j \in DOMAIN Questions(k), NEW i \in DOMAIN responses[r].answers,
         responses[r].answers[i].question = Questions(k)[j].id
  PROVE  Shown(Questions(k)[j], r) = responses[r].answers[i]
<1>1. \A n, m \in DOMAIN responses[r].answers :
        responses[r].answers[n].question = responses[r].answers[m].question => n = m
  BY AnswersFollowTheRules DEF Sound
<1>2. About(Questions(k)[j], r) = {i}
  BY <1>1 DEF About
<1>3. i \in Int
  BY DEF Sound
<1>4. (CHOOSE n \in {i} : \A m \in {i} : n <= m) = i
  BY <1>3
<1> QED BY <1>2, <1>4 DEF Shown

\* The types of an answer.
LEMMA AnswersAreTyped ==
  ASSUME NEW k, Sound(k), NEW r \in GivenTo(k), NEW i \in DOMAIN responses[r].answers
  PROVE  LET a == responses[r].answers[i]
         IN  a \in Answer /\ a # None /\ a.selected \in Seq(Text)
<1>1. responses[r].answers[i] \in Answer
  <2>1. responses[r].answers \in Seq(Answer)
    BY DEF Sound
  <2> QED BY <2>1
<1>2. responses[r].answers[i].selected \in Seq(Text)
  BY <1>1 DEF Answer
<1> QED BY <1>1, <1>2, RecordsAreTyped

\* What the page shows is what was answered.
LEMMA ShownWasAnswered ==
  ASSUME NEW k, Sound(k), NEW r \in GivenTo(k), NEW j \in DOMAIN Questions(k),
         Shown(Questions(k)[j], r) # None
  PROVE  \E i \in DOMAIN responses[r].answers :
           /\ responses[r].answers[i].question = Questions(k)[j].id
           /\ Shown(Questions(k)[j], r) = responses[r].answers[i]
<1>1. About(Questions(k)[j], r) # {}
  BY DEF Shown
<1>2. PICK i \in DOMAIN responses[r].answers :
        responses[r].answers[i].question = Questions(k)[j].id
  BY <1>1 DEF About
<1> QED BY <1>2, PageShowsAnswers

LEMMA SoundIsShown ==
  ASSUME NEW k, Sound(k)
  PROVE  AllIsShown(k)
<1> SUFFICES ASSUME NEW r \in GivenTo(k), NEW i \in DOMAIN responses[r].answers
             PROVE  \E j \in DOMAIN Questions(k) :
                      /\ Shown(Questions(k)[j], r) = responses[r].answers[i]
                      /\ \A o \in DOMAIN responses[r].answers[i].selected :
                           \E p \in DOMAIN Questions(k)[j].options :
                             Questions(k)[j].options[p]
                               = responses[r].answers[i].selected[o]
  BY DEF AllIsShown
<1> DEFINE a == responses[r].answers[i]
<1>1. PICK j \in DOMAIN Questions(k) : a.question = Questions(k)[j].id
  BY AnswersFollowTheRules DEF Sound, Questions
<1>2. Shown(Questions(k)[j], r) = a
  BY <1>1, PageShowsAnswers
<1>3. Rules!AnswerFits(Questions(k)[j], a)
  BY <1>1, AnswersFollowTheRules DEF Sound, Questions
<1>4. Rules!ToSet(a.selected) \subseteq Rules!ToSet(Questions(k)[j].options)
  BY <1>3 DEF Rules!AnswerFits
<1>5. \A o \in DOMAIN a.selected : \E p \in DOMAIN Questions(k)[j].options :
        Questions(k)[j].options[p] = a.selected[o]
  BY <1>4 DEF Rules!ToSet
<1> QED BY <1>2, <1>5

LEMMA SoundIsComplete ==
  ASSUME NEW k, Sound(k)
  PROVE  NoneSkipped(k)
<1> SUFFICES ASSUME NEW j \in DOMAIN Questions(k), Questions(k)[j].required,
                    NEW r \in GivenTo(k)
             PROVE  LET a == Shown(Questions(k)[j], r)
                    IN a # None /\ (Len(a.selected) > 0 \/ a.other # "")
  BY DEF NoneSkipped, Answering
<1>1. PICK i \in DOMAIN responses[r].answers :
        responses[r].answers[i].question = Questions(k)[j].id
  BY AnswersFollowTheRules DEF Sound, Questions
<1> DEFINE a == responses[r].answers[i]
<1>2. Shown(Questions(k)[j], r) = a
  BY <1>1, PageShowsAnswers
<1>3. a # None /\ a.selected \in Seq(Text)
  BY AnswersAreTyped
<1>4. Rules!AnswerFits(Questions(k)[j], a)
  BY <1>1, AnswersFollowTheRules DEF Sound, Questions
<1>5. a.selected # <<>> \/ a.other # ""
  BY <1>4 DEF Rules!AnswerFits, Rules!Empty
<1>6. a.selected # <<>> => Len(a.selected) > 0
  BY <1>3
<1> QED BY <1>2, <1>3, <1>5, <1>6

LEMMA SoundIsSingle ==
  ASSUME NEW k, Sound(k)
  PROVE  ChoicesAreSingle(k)
<1> SUFFICES ASSUME NEW j \in DOMAIN Questions(k),
                    Questions(k)[j].type = "single_select",
                    NEW o \in DOMAIN Questions(k)[j].options,
                    NEW p \in DOMAIN Questions(k)[j].options,
                    NEW r \in GivenTo(k), Shown(Questions(k)[j], r) # None,
                    Selects(Shown(Questions(k)[j], r), Questions(k)[j].options[o]),
                    Selects(Shown(Questions(k)[j], r), Questions(k)[j].options[p])
             PROVE  o = p
  BY DEF ChoicesAreSingle, Bar
<1>1. PICK i \in DOMAIN responses[r].answers :
        /\ responses[r].answers[i].question = Questions(k)[j].id
        /\ Shown(Questions(k)[j], r) = responses[r].answers[i]
  BY ShownWasAnswered
<1> DEFINE a == responses[r].answers[i]
<1>2. Rules!AnswerFits(Questions(k)[j], a)
  BY <1>1, AnswersFollowTheRules DEF Sound, Questions
<1>3. a.selected \in Seq(Text) /\ Len(a.selected) <= 1
  BY <1>2, AnswersAreTyped DEF Rules!AnswerFits
<1>4. Questions(k)[j].options[o] = Questions(k)[j].options[p]
  <2>1. PICK m \in DOMAIN a.selected : a.selected[m] = Questions(k)[j].options[o]
    BY <1>1 DEF Selects
  <2>2. PICK n \in DOMAIN a.selected : a.selected[n] = Questions(k)[j].options[p]
    BY <1>1 DEF Selects
  <2>3. m = n
    BY <1>3
  <2> QED BY <2>1, <2>2, <2>3
<1>5. Rules!ValidSurvey(surveys[k].definition)
  BY RulesAreApplied DEF Sound
<1>6. Rules!IsInjective(Questions(k)[j].options)
  BY <1>5 DEF Rules!ValidSurvey, Rules!ValidQuestion, Rules!Identifiers, Questions
<1> QED BY <1>4, <1>6 DEF Rules!IsInjective

\* Results: whatever was created, changed, stopped, answered, undone or read
\* back before, the page shows all that was answered, nobody skipped a required
\* question, and the bars of a single choice are of different people.
THEOREM PageAddsUp == Spec => []ResultsAddUp
<1>1. IInv => ResultsAddUp
  <2> SUFFICES ASSUME IInv, LockFree, NEW k \in Held(surveys)
               PROVE  AllIsShown(k) /\ NoneSkipped(k) /\ ChoicesAreSingle(k)
    BY DEF ResultsAddUp
  <2>1. /\ surveys = surveysFile /\ responses = responsesFile
        /\ ValidDefinitions(surveys) /\ ValidResponses(surveys, responses)
        /\ responses \in ResponseMap
    BY DEF IInv, TypeOK, MemoryIsDurable, StartNeverRefused
  <2>2. Sound(k)
    <3>1. surveys[k].definition \in WellFormed
      BY <2>1 DEF ValidDefinitions
    <3>2. ASSUME NEW r \in GivenTo(k)
          PROVE  /\ responses[r].answers \in Seq(Answer)
                 /\ <<surveys[k].definition, responses[r].answers>> \in Fits
      <4>1. r \in Held(responses) /\ responses[r].survey = k
        BY DEF GivenTo
      <4>2. responses[r] \in Response
        BY <2>1, <4>1 DEF Held, ResponseMap
      <4> QED BY <2>1, <4>1, <4>2, RecordsAreTyped DEF ValidResponses, Response
    <3> QED BY <3>1, <3>2 DEF Sound
  <2> QED BY <2>2, SoundIsShown, SoundIsComplete, SoundIsSingle
<1> QED BY <1>1, Invariance, PTL

-----------------------------------------------------------------------------
(* The rules: what was normalised stays as it is.  Distinct numbers the      *)
(* places it keeps, so that most of the work is to show that every number is *)
(* taken once.                                                               *)

\* The instance of the rules has a Cardinality of its own.
LEMMA SameCardinality == \A S : Rules!Cardinality(S) = Cardinality(S)
BY Zenon DEF Rules!Cardinality, Cardinality

LEMMA KeptIsFinite ==
  ASSUME NEW ids \in Seq(Text)
  PROVE  /\ Rules!Kept(ids) \subseteq 1 .. Len(ids)
         /\ IsFiniteSet(Rules!Kept(ids))
         /\ Cardinality(Rules!Kept(ids)) \in Nat
<1>1. DOMAIN ids = 1 .. Len(ids) /\ Len(ids) \in Nat
  OBVIOUS
<1>2. Rules!Kept(ids) \subseteq 1 .. Len(ids)
  BY <1>1 DEF Rules!Kept
<1>3. IsFiniteSet(1 .. Len(ids))
  BY <1>1, FS_Interval
<1> QED BY <1>2, <1>3, FS_Subset, FS_CardinalityType

\* The places that are kept are numbered from 1 on, in their order.
LEMMA RanksInOrder ==
  ASSUME NEW ids \in Seq(Text), NEW i \in Rules!Kept(ids)
  PROVE  /\ Rules!Rank(ids, i) \in 1 .. Cardinality(Rules!Kept(ids))
         /\ \A j \in Rules!Kept(ids) : i < j => Rules!Rank(ids, i) < Rules!Rank(ids, j)
<1> DEFINE K == Rules!Kept(ids)
           UpTo(n) == {j \in K : j <= n}
<1>1. K \subseteq 1 .. Len(ids) /\ IsFiniteSet(K) /\ Cardinality(K) \in Nat
  BY KeptIsFinite
<1>2. K \subseteq Int
  BY <1>1
<1>3. \A n \in K : /\ IsFiniteSet(UpTo(n)) /\ Cardinality(UpTo(n)) \in Nat
                   /\ Cardinality(UpTo(n)) <= Cardinality(K)
                   /\ Rules!Rank(ids, n) = Cardinality(UpTo(n))
  <2> SUFFICES ASSUME NEW n \in K
               PROVE  /\ IsFiniteSet(UpTo(n)) /\ Cardinality(UpTo(n)) \in Nat
                      /\ Cardinality(UpTo(n)) <= Cardinality(K)
                      /\ Rules!Rank(ids, n) = Cardinality(UpTo(n))
    OBVIOUS
  <2>1. UpTo(n) \in SUBSET K
    OBVIOUS
  <2>2. IsFiniteSet(UpTo(n)) /\ Cardinality(UpTo(n)) <= Cardinality(K)
    BY <1>1, <2>1, FS_Subset
  <2>3. Cardinality(UpTo(n)) \in Nat
    BY <2>2, FS_CardinalityType
  <2> QED BY <2>2, <2>3, SameCardinality DEF Rules!Rank
<1>4. Cardinality(UpTo(i)) # 0
  <2>1. i \in UpTo(i)
    BY <1>2
  <2> QED BY <1>3, <2>1, FS_EmptySet
<1>5. ASSUME NEW j \in K, i < j PROVE Cardinality(UpTo(i)) < Cardinality(UpTo(j))
  <2>1. UpTo(i) \subseteq UpTo(j) /\ j \in UpTo(j) /\ j \notin UpTo(i)
    BY <1>2, <1>5
  <2>2. /\ IsFiniteSet(UpTo(j)) /\ UpTo(i) # UpTo(j)
        /\ Cardinality(UpTo(i)) \in Nat /\ Cardinality(UpTo(j)) \in Nat
    BY <1>3, <1>5, <2>1
  <2> HIDE DEF UpTo
  <2>3. /\ Cardinality(UpTo(i)) <= Cardinality(UpTo(j))
        /\ Cardinality(UpTo(i)) # Cardinality(UpTo(j))
    BY <2>1, <2>2, FS_Subset
  <2> QED BY <2>2, <2>3
<1> HIDE DEF UpTo, K
<1>6. i \in K
  BY DEF K
<1>7. Rules!Rank(ids, i) \in 1 .. Cardinality(K)
  BY <1>1, <1>3, <1>4, <1>6
<1>8. ASSUME NEW j \in K, i < j PROVE Rules!Rank(ids, i) < Rules!Rank(ids, j)
  BY <1>3, <1>5, <1>6, <1>8
<1> QED BY <1>7, <1>8 DEF K

LEMMA RanksAreTaken ==
  ASSUME NEW ids \in Seq(Text), NEW n \in 1 .. Cardinality(Rules!Kept(ids))
  PROVE  \E i \in Rules!Kept(ids) : Rules!Rank(ids, i) = n
<1> DEFINE K == Rules!Kept(ids)
           rank == [i \in K |-> Rules!Rank(ids, i)]
<1>1. K \subseteq Int /\ IsFiniteSet(K) /\ Cardinality(K) \in Nat
  BY KeptIsFinite
<1>2. \A i \in K : Rules!Rank(ids, i) \in 1 .. Cardinality(K)
  BY RanksInOrder
<1>3. \A i, j \in K : Rules!Rank(ids, i) = Rules!Rank(ids, j) => i = j
  BY <1>1, <1>2, RanksInOrder
<1>4. rank \in Injection(K, 1 .. Cardinality(K))
  BY <1>2, <1>3 DEF Injection, IsInjective
<1>5. /\ IsFiniteSet(1 .. Cardinality(K))
      /\ Cardinality(1 .. Cardinality(K)) = Cardinality(K)
  BY <1>1, FS_Interval
<1>6. rank \in Surjection(K, 1 .. Cardinality(K))
  BY <1>4, <1>5, FS_Injection
<1> QED BY <1>6 DEF Surjection

\* Where the n-th text that is kept stands.
Place(ids, n) == CHOOSE i \in Rules!Kept(ids) : Rules!Rank(ids, i) = n

LEMMA PlacesAreKept ==
  ASSUME NEW ids \in Seq(Text), NEW n \in 1 .. Cardinality(Rules!Kept(ids))
  PROVE  /\ Place(ids, n) \in Rules!Kept(ids)
         /\ Rules!Rank(ids, Place(ids, n)) = n
BY RanksAreTaken DEF Place

LEMMA RanksHavePlaces ==
  ASSUME NEW ids \in Seq(Text), NEW i \in Rules!Kept(ids)
  PROVE  Place(ids, Rules!Rank(ids, i)) = i
<1> DEFINE n == Rules!Rank(ids, i)
<1>1. n \in 1 .. Cardinality(Rules!Kept(ids))
  BY RanksInOrder
<1>2. Place(ids, n) \in Rules!Kept(ids) /\ Rules!Rank(ids, Place(ids, n)) = n
  BY <1>1, PlacesAreKept
<1>3. Rules!Kept(ids) \subseteq Int
  BY KeptIsFinite
<1>4. ~(Place(ids, n) < i) /\ ~(i < Place(ids, n))
  BY <1>1, <1>2, RanksInOrder
<1> QED BY <1>2, <1>3, <1>4

LEMMA DistinctIsKept ==
  ASSUME NEW ids \in Seq(Text)
  PROVE  /\ Rules!Distinct(ids)
              = [n \in 1 .. Cardinality(Rules!Kept(ids)) |-> ids[Place(ids, n)]]
         /\ Rules!Distinct(ids) \in Seq(Text)
         /\ Len(Rules!Distinct(ids)) = Cardinality(Rules!Kept(ids))
<1> DEFINE d == Rules!Distinct(ids)
           c == Cardinality(Rules!Kept(ids))
<1>1. d = [n \in 1 .. c |-> ids[Place(ids, n)]]
  BY SameCardinality, Zenon DEF Rules!Distinct, Place
<1>2. c \in Nat
  BY KeptIsFinite
<1>3. \A n \in 1 .. c : ids[Place(ids, n)] \in Text
  <2>1. \A n \in 1 .. c : Place(ids, n) \in 1 .. Len(ids)
    BY PlacesAreKept, KeptIsFinite
  <2> QED BY <2>1
<1> HIDE DEF c
<1>4. d \in Seq(Text) /\ Len(d) = c
  BY <1>1, <1>2, <1>3
<1> QED BY <1>1, <1>4 DEF c

\* Every identifier that was selected is kept, once and at the place where it
\* came first; only the empty one is dropped (survey_store.go:504-517).
THEOREM NothingSelectedIsLost ==
  ASSUME NEW ids \in Seq(Text)
  PROVE  /\ Rules!IsInjective(Rules!Distinct(ids))
         /\ Rules!ToSet(Rules!Distinct(ids)) = Rules!ToSet(ids) \ {""}
<1> DEFINE d == Rules!Distinct(ids)
           K == Rules!Kept(ids)
           c == Cardinality(K)
<1>1. d = [n \in 1 .. c |-> ids[Place(ids, n)]]
  BY DistinctIsKept
<1>2. K \subseteq 1 .. Len(ids) /\ c \in Nat /\ DOMAIN ids = 1 .. Len(ids)
  BY KeptIsFinite
<1>3. \A n \in 1 .. c : Place(ids, n) \in K /\ Rules!Rank(ids, Place(ids, n)) = n
  BY PlacesAreKept
<1>4. \A i, j \in K : ids[i] = ids[j] => i = j
  <2> SUFFICES ASSUME NEW i \in K, NEW j \in K, i < j, ids[i] = ids[j] PROVE FALSE
    BY <1>2
  <2>1. i \in 1 .. (j - 1)
    BY <1>2
  <2> QED BY <2>1 DEF Rules!Kept
<1>5. Rules!IsInjective(d)
  BY <1>1, <1>3, <1>4 DEF Rules!IsInjective
<1>6. ASSUME NEW t \in Rules!ToSet(ids), t # "" PROVE t \in Rules!ToSet(d)
  <2> DEFINE T == {i \in 1 .. Len(ids) : ids[i] = t}
  <2>1. PICK k \in 1 .. Len(ids) : ids[k] = t
    BY <1>2, <1>6 DEF Rules!ToSet
  <2>2. T # {} /\ T \subseteq Nat
    BY <2>1
  <2>3. PICK i \in T : \A j \in T : ~ (<<j, i>> \in OpToRel(<, Nat))
    BY <2>2, WFMin, NatLessThanWellFounded
  <2>4. i \in K
    <3>1. ASSUME NEW j \in 1 .. (i - 1) PROVE ids[j] # ids[i]
      <4>1. j \in T => <<j, i>> \in OpToRel(<, Nat)
        BY <2>2 DEF OpToRel
      <4>2. j \in 1 .. Len(ids)
        BY <1>2
      <4> QED BY <2>3, <4>1, <4>2
    <3> QED BY <1>2, <1>6, <3>1 DEF Rules!Kept
  <2>5. Rules!Rank(ids, i) \in 1 .. c /\ Place(ids, Rules!Rank(ids, i)) = i
    BY <2>4, RanksInOrder, RanksHavePlaces
  <2>6. d[Rules!Rank(ids, i)] = t
    BY <1>1, <2>5
  <2> QED BY <1>1, <2>5, <2>6 DEF Rules!ToSet
<1>7. ASSUME NEW t \in Rules!ToSet(d) PROVE t \in Rules!ToSet(ids) /\ t # ""
  <2>1. PICK n \in 1 .. c : t = ids[Place(ids, n)]
    BY <1>1 DEF Rules!ToSet
  <2>2. Place(ids, n) \in K
    BY <1>3
  <2> QED BY <1>2, <2>1, <2>2 DEF Rules!ToSet, Rules!Kept
<1> QED BY <1>5, <1>6, <1>7

LEMMA SequenceShape ==
  ASSUME NEW S, NEW s \in Seq(S)
  PROVE  /\ Len(s) \in Nat /\ DOMAIN s = 1 .. Len(s)
         /\ s = [i \in 1 .. Len(s) |-> s[i]]
OBVIOUS

LEMMA Intervals == \A n \in Nat : Cardinality(1 .. n) = n
BY FS_Interval

LEMMA Earlier ==
  ASSUME NEW n \in Nat, NEW i \in 1 .. n
  PROVE  /\ i \in Nat
         /\ \A j \in 1 .. (i - 1) : j \in 1 .. n /\ j # i
         /\ {j \in 1 .. n : j <= i} = 1 .. i
OBVIOUS

\* Identifiers that are distinct and not empty stay as they are.
LEMMA DistinctStays ==
  ASSUME NEW ids \in Seq(Text), Rules!IsInjective(ids), "" \notin Rules!ToSet(ids)
  PROVE  Rules!Distinct(ids) = ids
<1>1. /\ Len(ids) \in Nat /\ DOMAIN ids = 1 .. Len(ids)
      /\ ids = [i \in 1 .. Len(ids) |-> ids[i]]
  BY SequenceShape
<1>2. \A i \in 1 .. Len(ids) : ids[i] # ""
  BY <1>1 DEF Rules!ToSet
<1>3. \A i, j \in 1 .. Len(ids) : ids[i] = ids[j] => i = j
  BY <1>1 DEF Rules!IsInjective
<1>4. Rules!Kept(ids) = 1 .. Len(ids)
  <2>1. ASSUME NEW i \in 1 .. Len(ids), NEW j \in 1 .. (i - 1) PROVE ids[j] # ids[i]
    <3>1. j \in 1 .. Len(ids) /\ j # i
      BY <1>1, Earlier
    <3> QED BY <1>3, <3>1
  <2> QED BY <1>1, <1>2, <2>1 DEF Rules!Kept
<1>5. Cardinality(Rules!Kept(ids)) = Len(ids)
  BY <1>1, <1>4, Intervals
<1>6. ASSUME NEW i \in 1 .. Len(ids) PROVE Rules!Rank(ids, i) = i
  <2>1. {j \in 1 .. Len(ids) : j <= i} = 1 .. i /\ i \in Nat
    BY <1>1, Earlier, Zenon
  <2>2. Cardinality(1 .. i) = i
    BY <2>1, Intervals
  <2> QED BY <1>4, <2>1, <2>2, SameCardinality DEF Rules!Rank
<1>7. ASSUME NEW i \in 1 .. Len(ids) PROVE Place(ids, i) = i
  BY <1>4, <1>6, RanksHavePlaces
<1>8. Rules!Distinct(ids) = [i \in 1 .. Len(ids) |-> ids[Place(ids, i)]]
  BY <1>5, DistinctIsKept
<1> QED BY <1>1, <1>7, <1>8

LEMMA TrimmedSequences ==
  ASSUME NEW ids \in Seq(Text)
  PROVE  LET trimmed == [i \in DOMAIN ids |-> Trim[ids[i]]]
         IN  /\ trimmed \in Seq(Text) /\ DOMAIN trimmed = DOMAIN ids
             /\ \A i \in DOMAIN trimmed : trimmed[i] = Trim[trimmed[i]]
<1>1. /\ DOMAIN ids = 1 .. Len(ids) /\ Len(ids) \in Nat
      /\ \A i \in 1 .. Len(ids) : ids[i] \in Text
  OBVIOUS
<1>2. [i \in DOMAIN ids |-> Trim[ids[i]]] \in [1 .. Len(ids) -> Text]
  BY <1>1, TextsAreStrings
<1>3. [i \in DOMAIN ids |-> Trim[ids[i]]] \in Seq(Text)
  BY <1>1, <1>2
<1>4. \A i \in DOMAIN ids : Trim[Trim[ids[i]]] = Trim[ids[i]]
  BY <1>1, TextsAreStrings
<1> QED BY <1>3, <1>4

LEMMA LowerAndTrimmed ==
  ASSUME NEW t \in Text
  PROVE  /\ Lower[Trim[t]] \in Text
         /\ Lower[Trim[Lower[Trim[t]]]] = Lower[Trim[t]]
<1>1. Trim[t] \in Text
  BY TextsAreStrings
<1>2. Lower[Trim[t]] \in Text
  BY <1>1, TextsAreStrings
<1>3. Trim[Lower[Trim[t]]] = Lower[Trim[t]]
  BY TextsAreStrings
<1>4. Lower[Lower[Trim[t]]] = Lower[Trim[t]]
  BY <1>1, TextsAreStrings
<1> QED BY <1>2, <1>3, <1>4

LEMMA PlatformsStay ==
  ASSUME NEW t \in Text
  PROVE  /\ Rules!NormalizePlatform(t) \in Text
         /\ Rules!NormalizePlatform(Rules!NormalizePlatform(t))
              = Rules!NormalizePlatform(t)
<1> USE TextsAreStrings
<1>1. CASE Lower[Trim[t]] = "ios"
  <2>1. Rules!NormalizePlatform(t) = "iOS"
    BY <1>1 DEF Rules!NormalizePlatform
  <2> QED BY <2>1 DEF Rules!NormalizePlatform
<1>2. CASE Lower[Trim[t]] = "watchos"
  <2>1. Rules!NormalizePlatform(t) = "watchOS"
    BY <1>2 DEF Rules!NormalizePlatform
  <2> QED BY <2>1 DEF Rules!NormalizePlatform
<1>3. CASE Lower[Trim[t]] \notin {"ios", "watchos"}
  <2>1. Rules!NormalizePlatform(t) = Trim[t]
    BY <1>3 DEF Rules!NormalizePlatform
  <2>2. Trim[t] \in Text /\ Trim[Trim[t]] = Trim[t]
    OBVIOUS
  <2> QED BY <1>3, <2>1, <2>2 DEF Rules!NormalizePlatform
<1> QED BY <1>1, <1>2, <1>3

\* What comes in over the wire, before it is normalised.
AnnouncementInput ==
  [id : Int, type : Text, min : Text, max : Text, platform : Text, body : Text]
SurveyInput ==
  [id : Int, min : Text, max : Text, platform : Text, questions : Seq(Question)]

LEMMA AnnouncementsStay ==
  ASSUME NEW r \in AnnouncementInput
  PROVE  LET n == Rules!NormalizeAnnouncement(r)
         IN  Rules!NormalizeAnnouncement(n) = n
<1> DEFINE n == Rules!NormalizeAnnouncement(r)
<1>1. /\ r.type \in Text /\ r.min \in Text /\ r.max \in Text
      /\ r.platform \in Text /\ r.body \in Text
  BY DEF AnnouncementInput
<1>2. /\ n.id = r.id /\ n.type = Lower[Trim[r.type]] /\ n.min = Trim[r.min]
      /\ n.max = Trim[r.max] /\ n.body = Trim[r.body]
      /\ n.platform = Rules!NormalizePlatform(r.platform)
      /\ n = [id |-> n.id, type |-> n.type, min |-> n.min, max |-> n.max,
              platform |-> n.platform, body |-> n.body]
  BY DEF Rules!NormalizeAnnouncement
<1>3. Lower[Trim[n.type]] = n.type
  BY <1>1, <1>2, LowerAndTrimmed
<1>4. Trim[n.min] = n.min /\ Trim[n.max] = n.max /\ Trim[n.body] = n.body
  BY <1>1, <1>2, TextsAreStrings
<1>5. Rules!NormalizePlatform(n.platform) = n.platform
  BY <1>1, <1>2, PlatformsStay
<1>6. Rules!NormalizeAnnouncement(n) =
        [id |-> n.id, type |-> Lower[Trim[n.type]], min |-> Trim[n.min],
         max |-> Trim[n.max], platform |-> Rules!NormalizePlatform(n.platform),
         body |-> Trim[n.body]]
  BY DEF Rules!NormalizeAnnouncement
<1> QED BY <1>2, <1>3, <1>4, <1>5, <1>6

NormalizeQuestion(q) ==
  [id |-> Trim[q.id], type |-> Lower[Trim[q.type]],
   options |-> [o \in DOMAIN q.options |-> Trim[q.options[o]]],
   allowOther |-> q.allowOther, required |-> q.required]

LEMMA QuestionsStay ==
  ASSUME NEW q \in Question
  PROVE  /\ NormalizeQuestion(q) \in Question
         /\ NormalizeQuestion(NormalizeQuestion(q)) = NormalizeQuestion(q)
<1> DEFINE n == NormalizeQuestion(q)
<1>1. /\ q.id \in Text /\ q.type \in Text /\ q.options \in Seq(Text)
      /\ q.allowOther \in BOOLEAN /\ q.required \in BOOLEAN
  BY DEF Question
<1>2. /\ n.id = Trim[q.id] /\ n.type = Lower[Trim[q.type]]
      /\ n.options = [o \in DOMAIN q.options |-> Trim[q.options[o]]]
      /\ n.allowOther = q.allowOther /\ n.required = q.required
      /\ n = [id |-> n.id, type |-> n.type, options |-> n.options,
              allowOther |-> n.allowOther, required |-> n.required]
  BY DEF NormalizeQuestion
<1>3. n.id \in Text /\ Trim[n.id] = n.id
  BY <1>1, <1>2, TextsAreStrings
<1>4. n.type \in Text /\ Lower[Trim[n.type]] = n.type
  BY <1>1, <1>2, LowerAndTrimmed
<1>5. /\ n.options \in Seq(Text)
      /\ [o \in DOMAIN n.options |-> Trim[n.options[o]]] = n.options
  <2>1. /\ n.options \in Seq(Text)
        /\ \A o \in DOMAIN n.options : n.options[o] = Trim[n.options[o]]
    BY <1>1, <1>2, TrimmedSequences
  <2>2. n.options = [o \in DOMAIN n.options |-> n.options[o]]
    BY <1>2
  <2> QED BY <2>1, <2>2
<1>6. n \in Question
  BY <1>1, <1>2, <1>3, <1>4, <1>5 DEF Question
<1>7. NormalizeQuestion(n) =
        [id |-> Trim[n.id], type |-> Lower[Trim[n.type]],
         options |-> [o \in DOMAIN n.options |-> Trim[n.options[o]]],
         allowOther |-> n.allowOther, required |-> n.required]
  BY DEF NormalizeQuestion
<1> QED BY <1>2, <1>3, <1>4, <1>5, <1>6, <1>7

LEMMA SurveysStay ==
  ASSUME NEW s \in SurveyInput
  PROVE  LET n == Rules!NormalizeSurvey(s)
         IN  Rules!NormalizeSurvey(n) = n
<1> DEFINE n == Rules!NormalizeSurvey(s)
<1>1. /\ s.min \in Text /\ s.max \in Text /\ s.platform \in Text
      /\ s.questions \in Seq(Question)
  BY DEF SurveyInput
<1>2. \A t : Rules!NormalizeSurvey(t) =
        [id |-> t.id, min |-> Trim[t.min], max |-> Trim[t.max],
         platform |-> Rules!NormalizePlatform(t.platform),
         questions |-> [i \in DOMAIN t.questions |-> NormalizeQuestion(t.questions[i])]]
  BY DEF Rules!NormalizeSurvey, NormalizeQuestion
<1>3. /\ n.id = s.id /\ n.min = Trim[s.min] /\ n.max = Trim[s.max]
      /\ n.platform = Rules!NormalizePlatform(s.platform)
      /\ n.questions = [i \in DOMAIN s.questions |-> NormalizeQuestion(s.questions[i])]
      /\ n = [id |-> n.id, min |-> n.min, max |-> n.max, platform |-> n.platform,
              questions |-> n.questions]
  BY <1>2
<1>4. Trim[n.min] = n.min /\ Trim[n.max] = n.max
  BY <1>1, <1>3, TextsAreStrings
<1>5. Rules!NormalizePlatform(n.platform) = n.platform
  BY <1>1, <1>3, PlatformsStay
<1>6. [i \in DOMAIN n.questions |-> NormalizeQuestion(n.questions[i])] = n.questions
  <2>1. \A i \in DOMAIN s.questions : s.questions[i] \in Question
    BY <1>1
  <2>2. \A i \in DOMAIN n.questions : NormalizeQuestion(n.questions[i]) = n.questions[i]
    BY <1>3, <2>1, QuestionsStay
  <2>3. n.questions = [i \in DOMAIN n.questions |-> n.questions[i]]
    BY <1>3
  <2> QED BY <2>2, <2>3
<1> QED BY <1>2, <1>3, <1>4, <1>5, <1>6

LEMMA AnswersStay ==
  ASSUME NEW a \in Answer
  PROVE  Rules!NormalizeAnswer(Rules!NormalizeAnswer(a)) = Rules!NormalizeAnswer(a)
<1> DEFINE n == Rules!NormalizeAnswer(a)
           trimmed == [i \in DOMAIN a.selected |-> Trim[a.selected[i]]]
<1>1. a.question \in Text /\ a.selected \in Seq(Text) /\ a.other \in Text
  BY DEF Answer
<1>2. \A b : Rules!NormalizeAnswer(b) =
        [question |-> Trim[b.question],
         selected |-> Rules!Distinct([i \in DOMAIN b.selected |-> Trim[b.selected[i]]]),
         other |-> Trim[b.other]]
  BY DEF Rules!NormalizeAnswer
<1>3. /\ n.question = Trim[a.question] /\ n.other = Trim[a.other]
      /\ n.selected = Rules!Distinct(trimmed)
      /\ n = [question |-> n.question, selected |-> n.selected, other |-> n.other]
  BY <1>2
<1>4. Trim[n.question] = n.question /\ Trim[n.other] = n.other
  BY <1>1, <1>3, TextsAreStrings
<1>5. /\ trimmed \in Seq(Text)
      /\ \A i \in DOMAIN trimmed : trimmed[i] = Trim[trimmed[i]]
  BY <1>1, TrimmedSequences
<1> HIDE DEF trimmed
<1>6. /\ n.selected \in Seq(Text) /\ Rules!IsInjective(n.selected)
      /\ Rules!ToSet(n.selected) = Rules!ToSet(trimmed) \ {""}
  BY <1>3, <1>5, DistinctIsKept, NothingSelectedIsLost
<1>7. \A i \in DOMAIN n.selected : Trim[n.selected[i]] = n.selected[i]
  <2>1. \A t \in Rules!ToSet(trimmed) : Trim[t] = t
    BY <1>5 DEF Rules!ToSet
  <2>2. \A i \in DOMAIN n.selected : n.selected[i] \in Rules!ToSet(n.selected)
    BY DEF Rules!ToSet
  <2> QED BY <1>6, <2>1, <2>2
<1>8. [i \in DOMAIN n.selected |-> Trim[n.selected[i]]] = n.selected
  <2>1. n.selected = [i \in DOMAIN n.selected |-> n.selected[i]]
    BY <1>6, SequenceShape
  <2> QED BY <1>7, <2>1
<1>9. Rules!Distinct(n.selected) = n.selected
  BY <1>6, DistinctStays
<1> QED BY <1>2, <1>3, <1>4, <1>8, <1>9

\* A start normalises what it reads once more, and an update what it was sent:
\* neither changes what was normalised before it was stored
\* (announcement_store.go:275-284, survey_store.go:473-537).
THEOREM NormalisingIsFinal ==
  /\ \A r \in AnnouncementInput :
       Rules!NormalizeAnnouncement(Rules!NormalizeAnnouncement(r))
         = Rules!NormalizeAnnouncement(r)
  /\ \A s \in SurveyInput :
       Rules!NormalizeSurvey(Rules!NormalizeSurvey(s)) = Rules!NormalizeSurvey(s)
  /\ \A answers \in Seq(Answer) :
       Rules!NormalizeAnswers(Rules!NormalizeAnswers(answers))
         = Rules!NormalizeAnswers(answers)
<1>1. ASSUME NEW answers \in Seq(Answer)
      PROVE  Rules!NormalizeAnswers(Rules!NormalizeAnswers(answers))
               = Rules!NormalizeAnswers(answers)
  <2>1. \A i \in DOMAIN answers : answers[i] \in Answer
    OBVIOUS
  <2> QED BY <2>1, AnswersStay DEF Rules!NormalizeAnswers
<1> QED BY <1>1, AnnouncementsStay, SurveysStay
=============================================================================
