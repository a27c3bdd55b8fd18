---------------------------- MODULE ContentRules ----------------------------
(***************************************************************************)
(* What announcements, surveys and answers must look like to be taken: the *)
(* normalising and validating functions of announcement_store.go and       *)
(* survey_store.go.  Texts are atoms; constants say how Go's strings and   *)
(* strconv treat them.  Texts with no rule but their length (title, body,  *)
(* description, wording, labels, versions) are one text each, or left out. *)
(***************************************************************************)
EXTENDS Integers, FiniteSets, SequencesExt

CONSTANTS
  Trim,        \* strings.TrimSpace, a function on the texts
  Lower,       \* strings.ToLower
  Atoi,        \* strconv.Atoi, a function on the texts it can read
  Identifier,  \* texts validSurveyIdentifier accepts
  TooLong,     \* texts longer than the field allows
  MaxQuestions, MaxOptions

-----------------------------------------------------------------------------
(* Both stores *)

NormalizePlatform(t) ==
  CASE Lower[Trim[t]] = "ios" -> "iOS"
    [] Lower[Trim[t]] = "watchos" -> "watchOS"
    [] OTHER -> Trim[t]

IsBuild(t) == t = "" \/ (t \in DOMAIN Atoi /\ Atoi[t] >= 0)

ValidBuildRange(min, max) ==
  /\ IsBuild(min) /\ IsBuild(max)
  /\ min # "" /\ max # "" => Atoi[min] <= Atoi[max]

ValidPlatform(t) == t \in {"", "iOS", "watchOS"}
Filled(t) == t # "" /\ t \notin TooLong

-----------------------------------------------------------------------------
(* announcement_store.go *)

NormalizeAnnouncement(r) ==
  [id |-> r.id, type |-> Lower[Trim[r.type]],
   min |-> Trim[r.min], max |-> Trim[r.max],
   platform |-> NormalizePlatform(r.platform), body |-> Trim[r.body]]

ValidAnnouncement(r) ==
  /\ r.id > 0
  /\ r.type \in {"info", "warning", "blocking"}
  /\ ValidBuildRange(r.min, r.max)
  /\ ValidPlatform(r.platform)
  /\ Filled(r.body)

-----------------------------------------------------------------------------
(* survey_store.go: definitions.  An option is its identifier.             *)

NormalizeSurvey(s) ==
  [id |-> s.id, min |-> Trim[s.min], max |-> Trim[s.max],
   platform |-> NormalizePlatform(s.platform),
   questions |->
     [i \in DOMAIN s.questions |->
        [id |-> Trim[s.questions[i].id],
         type |-> Lower[Trim[s.questions[i].type]],
         options |-> [o \in DOMAIN s.questions[i].options |->
                        Trim[s.questions[i].options[o]]],
         allowOther |-> s.questions[i].allowOther,
         required |-> s.questions[i].required]]]

Ids(questions) == [i \in DOMAIN questions |-> questions[i].id]

\* Valid and distinct.
Identifiers(ids) == ToSet(ids) \subseteq Identifier /\ IsInjective(ids)

ValidQuestion(q) ==
  /\ q.type \in {"single_select", "multi_select"}
  /\ Len(q.options) \in 1 .. MaxOptions
  /\ Identifiers(q.options)

ValidSurvey(s) ==
  /\ s.id > 0
  /\ ValidBuildRange(s.min, s.max)
  /\ ValidPlatform(s.platform)
  /\ Len(s.questions) \in 1 .. MaxQuestions
  /\ Identifiers(Ids(s.questions))
  /\ \A i \in DOMAIN s.questions : ValidQuestion(s.questions[i])

-----------------------------------------------------------------------------
(* survey_store.go: answers, a sequence of [question, selected, other].    *)
(* The platform they come from follows ValidPlatform and is left out.      *)

\* Where a text that is kept comes first: empty and repeated ones are dropped.
Kept(ids) ==
  {i \in DOMAIN ids : ids[i] # "" /\ \A j \in 1 .. (i - 1) : ids[j] # ids[i]}

\* How many are kept up to a place.
Rank(ids, i) == Cardinality({j \in Kept(ids) : j <= i})

Distinct(ids) ==
  [n \in 1 .. Cardinality(Kept(ids)) |->
     ids[CHOOSE i \in Kept(ids) : Rank(ids, i) = n]]

NormalizeAnswer(a) ==
  [question |-> Trim[a.question],
   selected |-> Distinct([i \in DOMAIN a.selected |-> Trim[a.selected[i]]]),
   other |-> Trim[a.other]]

NormalizeAnswers(answers) ==
  [i \in DOMAIN answers |-> NormalizeAnswer(answers[i])]

Empty(a) == a.selected = <<>> /\ a.other = ""

IsAbout(a, q) == a.question = q.id

AnswerFits(q, a) ==
  /\ q.type = "single_select" => Len(a.selected) <= 1
  /\ a.other # "" => q.allowOther
  /\ a.other \notin TooLong
  /\ ToSet(a.selected) \subseteq ToSet(q.options)
  /\ q.required => ~Empty(a)

AnyNumberOfTimes(answers) == TRUE \* mutant: questions may be answered twice
OncePerQuestion(answers) ==
  IsInjective([i \in DOMAIN answers |-> answers[i].question])

ValidResponse(s, answers) ==
  /\ Len(answers) <= Len(s.questions)
  /\ OncePerQuestion(answers)
  /\ \A j \in DOMAIN s.questions :
       \A i \in DOMAIN answers :
         IsAbout(answers[i], s.questions[j]) =>
           AnswerFits(s.questions[j], answers[i])
  /\ \A j \in DOMAIN s.questions :
       s.questions[j].required =>
         \E i \in DOMAIN answers : IsAbout(answers[i], s.questions[j])
  /\ \A i \in DOMAIN answers :
       \E j \in DOMAIN s.questions : IsAbout(answers[i], s.questions[j])
=============================================================================
