-------------------------- MODULE MCAnnouncementFeed --------------------------
\* Two announcements, one of them typed in two ways, and one that breaks each of
\* the rules.
EXTENDS AnnouncementFeed, Integers, TLC

Texts == {"", " ", "5", " 5 ", "9", "-5", "1.2", "info", " Info", "blocking",
          "news", "ios", "iOS", "android", "hello", "long"}
Trimmed == (" " :> "") @@ (" 5 " :> "5") @@ (" Info" :> "Info") @@ [t \in Texts |-> t]
Lowered ==
  ("Info" :> "info") @@ ("iOS" :> "ios") @@ [t \in Texts |-> t]
Numbers == "5" :> 5 @@ "9" :> 9 @@ "-5" :> -5

Rules == INSTANCE ContentRules WITH
  Trim <- Trimmed, Lower <- Lowered, Atoi <- Numbers,
  Identifier <- {}, TooLong <- {"long"}, MaxQuestions <- 0, MaxOptions <- 0

From(id, type, min, max, platform, body) ==
  [id |-> id, type |-> type, min |-> min, max |-> max, platform |-> platform,
   body |-> body]

Typed ==
  "tidy" :> From(1, "info", "5", "9", "iOS", "hello") @@
  "untidy" :> From(1, " Info", " 5 ", "9", "ios", "hello") @@
  "other" :> From(2, "blocking", "", "", "", "hello") @@
  "no type" :> From(1, "news", "", "", "", "hello")
Broken ==
  {From(0, "info", "", "", "", "hello"),
   From(1, "info", "9", "5", "", "hello"),
   From(1, "info", "", "-5", "", "hello"),
   From(1, "info", "1.2", "", "", "hello"),
   From(1, "info", "", "", "android", "hello"),
   From(1, "info", "", "", "", " "),
   From(1, "info", "", "", "", "long")}

\* The announcements go by their names: states hold no fields.
MCContent == {"tidy", "untidy", "other", "no type"}
MCTidy == [c \in MCContent |-> IF c = "untidy" THEN "tidy" ELSE c]
MCValid == {"tidy", "other"}

Keys == Permutations(Key)

ASSUME NamesAreApt ==
  \A c \in MCContent :
    /\ Typed[MCTidy[c]] = Rules!NormalizeAnnouncement(Typed[c])
    /\ c \in MCValid => Rules!ValidAnnouncement(Typed[c])
    /\ MCTidy[c] \notin MCValid => ~Rules!ValidAnnouncement(Typed[MCTidy[c]])
ASSUME BrokenAreRefused ==
  \A r \in Broken : ~Rules!ValidAnnouncement(Rules!NormalizeAnnouncement(r))
=============================================================================
