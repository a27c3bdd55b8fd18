----------------------------- MODULE SurveyLedger -----------------------------
(***************************************************************************)
(* What the survey store promises to its administrators and respondents:   *)
(* surveys can be opened, revised, started, stopped and withdrawn until    *)
(* the first answer comes in; from then on only started and stopped; and   *)
(* an answer, once recorded, stays and fits the survey it answers.         *)
(*                                                                         *)
(* Every operation is one atomic step on two maps.  There is no memory, no *)
(* file, no crash and no failing disk: that SurveyStore, which has all of  *)
(* them, implements this module says they cannot be told from here.        *)
(***************************************************************************)
EXTENDS SurveyData

VARIABLES
  surveys,    \* survey key -> its definition and whether it is published
  responses   \* response key -> the survey it answers and the answers

ledgerVars == <<surveys, responses>>

ResponsesTo(k, answered) == {r \in Held(answered) : answered[r].survey = k}

TypeOK ==
  /\ surveys \in SurveyMap
  /\ responses \in ResponseMap

Init ==
  /\ surveys = NoSurveys
  /\ responses = NoResponses

Open(k, d, enabled) ==
  /\ surveys[k] = None
  /\ Cardinality(Held(surveys)) < MaxSurveys
  /\ d \in WellFormed
  /\ surveys' = [surveys EXCEPT ![k] = [definition |-> d, enabled |-> enabled]]
  /\ UNCHANGED responses

\* An answered survey keeps its definition: it can only be started or stopped.
Revise(k, d, enabled) ==
  /\ surveys[k] # None
  /\ d \in WellFormed
  /\ ResponsesTo(k, responses) # {} => d = surveys[k].definition
  /\ surveys' = [surveys EXCEPT ![k] = [definition |-> d, enabled |-> enabled]]
  /\ UNCHANGED responses

Withdraw(k) ==
  /\ surveys[k] # None
  /\ ResponsesTo(k, responses) = {}
  /\ surveys' = [surveys EXCEPT ![k] = None]
  /\ UNCHANGED responses

Answer(r, k, a) ==
  /\ surveys[k] # None
  /\ surveys[k].enabled
  /\ <<surveys[k].definition, a>> \in Fits
  /\ responses[r] = None
  /\ Cardinality(Held(responses)) < MaxResponses
  /\ responses' = [responses EXCEPT ![r] = [survey |-> k, answers |-> a]]
  /\ UNCHANGED surveys

Next ==
  \/ \E k \in SurveyKey, d \in Definition, enabled \in BOOLEAN :
       Open(k, d, enabled) \/ Revise(k, d, enabled)
  \/ \E k \in SurveyKey : Withdraw(k)
  \/ \E r \in ResponseKey, k \in SurveyKey, a \in Answers : Answer(r, k, a)

Spec == Init /\ [][Next]_ledgerVars
=============================================================================
