---------------------------- MODULE MCSurveyStore ----------------------------
\* Two valid surveys, the shorter asking for less, and an invalid one; answers
\* that fit one of them, both, or none, for each rule that can turn them down.
EXTENDS SurveyResults, Integers, TLC

Texts == {"", " ", "x", " x", "y", "a", " a", "b", "c", "?", "5", "-5", "9",
          "Single_Select", "single_select", "multi_select", "ios", "iOS", "watchos",
          "watchOS", "long"}
Trimmed ==
  (" " :> "") @@ (" x" :> "x") @@ (" a" :> "a") @@ [t \in Texts |-> t]
Lowered ==
  ("Single_Select" :> "single_select") @@ ("iOS" :> "ios") @@
  ("watchOS" :> "watchos") @@ [t \in Texts |-> t]
Numbers == "5" :> 5 @@ "-5" :> -5 @@ "9" :> 9

Identifiers == {"x", "y", "a", "b", "c", "5", "9", "long"}

Must(id) == [id |-> id, type |-> "Single_Select", options |-> <<"x", "y">>,
             allowOther |-> FALSE, required |-> TRUE]
May(id) == [id |-> id, type |-> "multi_select", options |-> <<" x", "y">>,
            allowOther |-> TRUE, required |-> FALSE]
Asking(questions, max) ==
  [id |-> 1, min |-> "5", max |-> max, platform |-> "ios",
   questions |-> questions]

Typed == {Asking(<<Must(" a")>>, "9"), Asking(<<Must("a"), May("b")>>, " "),
          Asking(<<Must("a"), May(" a")>>, "9"), Asking(<<Must("a")>>, "-5")}

To(question, selected, other) ==
  [question |-> question, selected |-> selected, other |-> other]
Sent == {<<To("a", <<" x", "x">>, " ")>>,
         <<To("a", <<"y">>, ""), To("b", <<"", "y", "x", "y">>, "c")>>,
         <<To("b", <<>>, ""), To("a", <<"x">>, "")>>,
         <<To("a", <<"x">>, ""), To("a", <<"y">>, "")>>,
         <<To("a", <<"x", "y">>, "")>>,
         <<To("a", <<>>, "c")>>,
         <<To("a", <<"?">>, "")>>,
         <<To("a", <<>>, "")>>,
         <<To("b", <<"x">>, "")>>,
         <<To("a", <<"x">>, ""), To("b", <<>>, "long")>>,
         <<To("a", <<"x">>, ""), To("c", <<"x">>, "")>>}

Definitions == {Rules!NormalizeSurvey(s) : s \in Typed}
SoundDefinitions == {s \in Definitions : Rules!ValidSurvey(s)}
Replies == {Rules!NormalizeAnswers(answers) : answers \in Sent}
Fitting ==
  {f \in SoundDefinitions \X Replies : Rules!ValidResponse(f[1], f[2])}

\* A start normalises what it reads once more.
ASSUME NormalisedOnce ==
  /\ \A s \in Definitions : Rules!NormalizeSurvey(s) = s
  /\ \A answers \in Replies : Rules!NormalizeAnswers(answers) = answers
\* Two of the surveys are valid and each of the first three answers fits one.
ASSUME CasesAreMet ==
  Cardinality(SoundDefinitions) = 2 /\ Cardinality(Fitting) >= 4
=============================================================================
