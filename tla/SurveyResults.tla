---------------------------- MODULE SurveyResults ----------------------------
(***************************************************************************)
(* What administrators see of the answers: Results of SurveyStore, counted *)
(* up by the results page (src/internal/api/web/survey.js, renderResults). *)
(*                                                                         *)
(* Definitions and answers are the records of ContentRules.  The page goes *)
(* through the questions of the definition it is given, takes each         *)
(* respondent's first answer to it, and counts its options.                *)
(***************************************************************************)
EXTENDS SurveyStore, Sequences

CONSTANTS
  Trim, Lower, Atoi, Identifier, TooLong, MaxQuestions, MaxOptions \* the rules'

Rules == INSTANCE ContentRules

Text == DOMAIN Trim
Question == [id : Text, type : Text, options : Seq(Text),
             allowOther : BOOLEAN, required : BOOLEAN]
Answer == [question : Text, selected : Seq(Text), other : Text]

ASSUME RecordsAreTyped ==
  /\ \A d \in WellFormed : d.questions \in Seq(Question)
  /\ Answers \subseteq Seq(Answer)
  /\ None \notin Answer
\* What Go's strings do to a text: neither does it twice, no letter in lower
\* case is white space, and so with the names of the platforms.
ASSUME TextsAreStrings ==
  /\ Trim \in [Text -> Text] /\ Lower \in [Text -> Text]
  /\ \A t \in Text :
       /\ Trim[Trim[t]] = Trim[t] /\ Lower[Lower[t]] = Lower[t]
       /\ Trim[Lower[Trim[t]]] = Lower[Trim[t]]
  /\ {"", "iOS", "watchOS"} \subseteq Text
  /\ Trim["iOS"] = "iOS" /\ Trim["watchOS"] = "watchOS"
  /\ Lower["iOS"] = "ios" /\ Lower["watchOS"] = "watchos"
\* Create, Update, Submit and both loads validate.
ASSUME RulesAreApplied ==
  /\ \A d \in WellFormed : Rules!ValidSurvey(d)
  /\ \A fit \in Fits : Rules!ValidResponse(fit[1], fit[2])

Questions(k) == surveys[k].definition.questions

\* Results: the answers to a survey
GivenTo(k) == {r \in Held(responses) : responses[r].survey = k}

About(q, r) ==
  {i \in DOMAIN responses[r].answers : responses[r].answers[i].question = q.id}

\* The respondent's answer on the page, if there is one.
Shown(q, r) ==
  IF About(q, r) = {} THEN None
  ELSE LET first == CHOOSE i \in About(q, r) : \A j \in About(q, r) : i <= j
       IN responses[r].answers[first]

Selects(a, option) == \E i \in DOMAIN a.selected : a.selected[i] = option

\* answeredCount counts these respondents, the others skipped the question.
Answering(q, k) ==
  {r \in GivenTo(k) :
     LET a == Shown(q, r) IN a # None /\ (Len(a.selected) > 0 \/ a.other # "")}

\* optionCount counts these, one bar for each option.
Bar(q, option, k) ==
  {r \in GivenTo(k) : LET a == Shown(q, r) IN a # None /\ Selects(a, option)}

-----------------------------------------------------------------------------

\* Whatever became of the definition since an answer was given, the page shows
\* all of it.
AllIsShown(k) ==
  \A r \in GivenTo(k) : \A i \in DOMAIN responses[r].answers :
    LET a == responses[r].answers[i] IN
      \E j \in DOMAIN Questions(k) :
        /\ Shown(Questions(k)[j], r) = a
        /\ \A o \in DOMAIN a.selected :
             \E p \in DOMAIN Questions(k)[j].options :
               Questions(k)[j].options[p] = a.selected[o]

\* Nobody skipped what had to be answered.
NoneSkipped(k) ==
  \A j \in DOMAIN Questions(k) :
    Questions(k)[j].required => Answering(Questions(k)[j], k) = GivenTo(k)

\* The bars of a single choice do not overlap.
ChoicesAreSingle(k) ==
  \A j \in DOMAIN Questions(k) :
    LET q == Questions(k)[j] IN
      q.type = "single_select" =>
        \A o, p \in DOMAIN q.options :
          o # p => Bar(q, q.options[o], k) \cap Bar(q, q.options[p], k) = {}

(* The results page of every survey adds up: it hides no part of an answer, *)
(* nobody skips a required question and the bars of a single choice are of  *)
(* different people, although definitions are replaced, surveys stopped,    *)
(* writes fail and the process restarts in between (survey_store.go:194-    *)
(* 227, 256-318, 604-665).                                                  *)
ResultsAddUp ==
  LockFree =>
    \A k \in Held(surveys) :
      AllIsShown(k) /\ NoneSkipped(k) /\ ChoicesAreSingle(k)
=============================================================================
