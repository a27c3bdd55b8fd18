----------------------------- MODULE SurveyStore -----------------------------
(***************************************************************************)
(* SurveyStore (src/internal/store/survey_store.go): survey definitions    *)
(* and anonymous answers, kept in memory and in two JSON files, each file  *)
(* replaced as a whole by writing a temporary file and renaming it.        *)
(*                                                                         *)
(* A mutation holds the store's lock while it changes memory, writes the   *)
(* file and, if the write fails, takes the change back.  The write is where *)
(* the process can die, so a mutation is two actions: the first checks the *)
(* request and changes memory, the second is the write succeeding, failing *)
(* or being cut short by a crash.  No other operation runs in between.     *)
(* Requests the store turns down change nothing and have no action.        *)
(*                                                                         *)
(* Abstracted: a definition and a respondent's answers are atoms; which    *)
(* definitions are valid and which answers fit them is given by the        *)
(* constants of SurveyData.  Timestamps and list order are left out.       *)
(***************************************************************************)
EXTENDS SurveyData

VARIABLES
  up,             \* the process runs
  surveys,        \* s.records
  responses,      \* s.responses
  saving,         \* which file the operation holding the lock is writing
  undo,           \* what memory held before that operation
  surveysFile,    \* surveys.json
  responsesFile   \* survey-responses.json

memory == <<surveys, responses>>
files == <<surveysFile, responsesFile>>
vars == <<up, surveys, responses, saving, undo, surveysFile, responsesFile>>

\* The promise, kept by the files: a crash loses memory, never a file.
Ledger == INSTANCE SurveyLedger WITH surveys <- surveysFile,
                                     responses <- responsesFile

TypeOK ==
  /\ up \in BOOLEAN
  /\ surveys \in SurveyMap /\ surveysFile \in SurveyMap
  /\ responses \in ResponseMap /\ responsesFile \in ResponseMap
  /\ saving \in {"nothing", "surveys", "responses"}
  /\ undo \in (SurveyMap \X ResponseMap) \cup {None}

Init ==
  /\ up = FALSE
  /\ surveys = NoSurveys /\ surveysFile = NoSurveys
  /\ responses = NoResponses /\ responsesFile = NoResponses
  /\ saving = "nothing"
  /\ undo = None

\* mu.Lock is free and the process runs.
LockFree == up /\ saving = "nothing"

\* The operation leaves its change in memory and goes on to write the file.
Writing(file) ==
  /\ saving' = file
  /\ undo' = <<surveys, responses>>
  /\ UNCHANGED <<up, files>>

\* mutant: only the answers to a running survey count
AnsweredWhileRunning(k) ==
  surveys[k].enabled /\ \E r \in Held(responses) : responses[r].survey = k
\* responseCountLocked(key) > 0
Answered(k) == \E r \in Held(responses) : responses[r].survey = k

Record(d, enabled) == [definition |-> d, enabled |-> enabled]

Create(k, d, enabled) ==
  /\ LockFree
  /\ d \in WellFormed
  /\ Cardinality(Held(surveys)) < MaxSurveys
  /\ surveys[k] = None
  /\ surveys' = [surveys EXCEPT ![k] = Record(d, enabled)]
  /\ UNCHANGED responses
  /\ Writing("surveys")

Update(k, d, enabled) ==
  /\ LockFree
  /\ d \in WellFormed
  /\ surveys[k] # None
  /\ Answered(k) => d = surveys[k].definition
  /\ surveys' = [surveys EXCEPT ![k] = Record(d, enabled)]
  /\ UNCHANGED responses
  /\ Writing("surveys")

DeleteAnyway(k) == \* mutant: answers do not hold a survey back
  /\ LockFree
  /\ surveys[k] # None
  /\ surveys' = [surveys EXCEPT ![k] = None]
  /\ UNCHANGED responses
  /\ Writing("surveys")
Delete(k) ==
  /\ LockFree
  /\ surveys[k] # None
  /\ ~Answered(k)
  /\ surveys' = [surveys EXCEPT ![k] = None]
  /\ UNCHANGED responses
  /\ Writing("surveys")

AcceptingWhenStopped(k) == surveys[k] # None \* mutant
Accepting(k) == surveys[k] # None /\ surveys[k].enabled

Submit(r, k, a) ==
  /\ LockFree
  /\ Accepting(k)
  /\ <<surveys[k].definition, a>> \in Fits
  /\ Cardinality(Held(responses)) < MaxResponses
  /\ responses[r] = None
  /\ responses' = [responses EXCEPT ![r] = [survey |-> k, answers |-> a]]
  /\ UNCHANGED surveys
  /\ Writing("responses")

-----------------------------------------------------------------------------
(* writeSurveyJSONAtomically *)

\* os.Rename puts the new content in place; the operation returns.
SaveSucceeds ==
  /\ saving # "nothing"
  /\ surveysFile' = IF saving = "surveys" THEN surveys ELSE surveysFile
  /\ responsesFile' = IF saving = "responses" THEN responses ELSE responsesFile
  /\ saving' = "nothing"
  /\ undo' = None
  /\ UNCHANGED <<up, memory>>

\* Any step up to the rename fails: the file is untouched and the operation
\* takes its change back before it reports the error.
ForgetUndo == UNCHANGED memory \* mutant: memory keeps what the file lacks
ZeroedSlot == \* mutant: a failed Create leaves a blank record in the list
  /\ surveys' = [k \in SurveyKey |->
                   IF surveys[k] # None /\ undo[1][k] = None
                   THEN [definition |-> None, enabled |-> FALSE] ELSE undo[1][k]]
  /\ responses' = undo[2]
Rollback ==
  /\ surveys' = undo[1]
  /\ responses' = undo[2]

SaveFails ==
  /\ saving # "nothing"
  /\ Rollback
  /\ saving' = "nothing"
  /\ undo' = None
  /\ UNCHANGED <<up, files>>

-----------------------------------------------------------------------------
(* The process *)

\* The process dies, possibly in the middle of a write: a temporary file may
\* be left behind, which nothing ever reads.
Crash ==
  /\ up
  /\ up' = FALSE
  /\ surveys' = NoSurveys
  /\ responses' = NoResponses
  /\ saving' = "nothing"
  /\ undo' = None
  /\ UNCHANGED files

\* NewSurveyStore.  When it returns an error, main ends the process.
Start ==
  /\ ~up
  /\ ValidDefinitions(surveysFile)
  /\ ValidResponses(surveysFile, responsesFile)
  /\ up' = TRUE
  /\ surveys' = surveysFile
  /\ responses' = responsesFile
  /\ UNCHANGED <<saving, undo, files>>

Next ==
  \/ \E k \in SurveyKey, d \in Definition, enabled \in BOOLEAN :
       Create(k, d, enabled) \/ Update(k, d, enabled)
  \/ \E k \in SurveyKey : Delete(k)
  \/ \E r \in ResponseKey, k \in SurveyKey, a \in Answers : Submit(r, k, a)
  \/ SaveSucceeds
  \/ SaveFails
  \/ Crash
  \/ Start

Spec == Init /\ [][Next]_vars

-----------------------------------------------------------------------------
(* Properties *)

\* loadDefinitions and loadResponses: the two files, written at different times
\* by different operations, agree at every instant, so that a process that dies
\* anywhere finds files it starts from.
StartNeverRefused ==
  /\ ValidDefinitions(surveysFile)
  /\ ValidResponses(surveysFile, responsesFile)

\* Create, Update, Delete and Submit: whenever the lock is free, what is served
\* from memory is what a restart would bring back, failed writes included.
MemoryIsDurable ==
  LockFree => surveys = surveysFile /\ responses = responsesFile

\* Update and Delete: once an answer is on disk, its survey keeps its
\* definition and stays, across crashes, failed writes and restarts.
AnsweredSurveysFrozen ==
  [][\A r \in Held(responsesFile) :
       LET k == responsesFile[r].survey IN
         /\ surveysFile'[k] # None
         /\ surveysFile'[k].definition = surveysFile[k].definition]_vars

\* The files go through the steps of SurveyLedger and no others: a mutation
\* takes effect entirely or not at all, under the ledger's conditions, and an
\* answer that was recorded stays as it was given.
ImplementsLedger == Ledger!Spec
=============================================================================
