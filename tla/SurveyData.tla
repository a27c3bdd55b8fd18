------------------------------ MODULE SurveyData ------------------------------
(***************************************************************************)
(* The data of the survey store (src/internal/store/survey_store.go), as   *)
(* far as its states can be told apart: which definitions are valid, which *)
(* answers fit which definition, and how much the store may hold.          *)
(***************************************************************************)
EXTENDS Naturals, FiniteSets

CONSTANTS
  SurveyKey,     \* keys newSurveyKey can draw for surveys
  ResponseKey,   \* keys newSurveyKey can draw for answers
  Definition,    \* everything sameSurveyDefinition compares
  Answers,       \* what a respondent sends
  WellFormed,    \* definitions validateSurveyRecord accepts
  Fits,          \* pairs <<definition, answers>> validateSurveyResponse accepts
  MaxSurveys,    \* maxSurveyRecords
  MaxResponses,  \* maxSurveyResponses
  None           \* an absent map entry

ASSUME KeysAreFinite == IsFiniteSet(SurveyKey) /\ IsFiniteSet(ResponseKey)
ASSUME RulesAreTyped ==
  /\ WellFormed \subseteq Definition
  /\ Fits \subseteq Definition \X Answers
ASSUME LimitsAreNatural == MaxSurveys \in Nat /\ MaxResponses \in Nat

Survey == [definition : Definition, enabled : BOOLEAN]
Response == [survey : SurveyKey, answers : Answers]

ASSUME NoneIsNoRecord == None \notin Survey /\ None \notin Response

SurveyMap == [SurveyKey -> Survey \cup {None}]
ResponseMap == [ResponseKey -> Response \cup {None}]
NoSurveys == [k \in SurveyKey |-> None]
NoResponses == [r \in ResponseKey |-> None]

\* The keys a map holds an entry for.
Held(map) == {x \in DOMAIN map : map[x] # None}

\* What loadDefinitions accepts: as many surveys as Create allows, all valid.
ValidDefinitions(surveyMap) ==
  /\ Cardinality(Held(surveyMap)) <= MaxSurveys
  /\ \A k \in Held(surveyMap) : surveyMap[k].definition \in WellFormed

\* What loadResponses accepts: as many answers as Submit allows, each to a
\* survey that exists and whose questions it fits.
ValidResponses(surveyMap, responseMap) ==
  /\ Cardinality(Held(responseMap)) <= MaxResponses
  /\ \A r \in Held(responseMap) :
       LET k == responseMap[r].survey IN
         /\ surveyMap[k] # None
         /\ <<surveyMap[k].definition, responseMap[r].answers>> \in Fits
=============================================================================
