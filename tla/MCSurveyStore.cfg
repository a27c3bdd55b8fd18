\* Two surveys at a time, so that one can be deleted or changed while the other is
\* answered, and two answers, with a third key each: both limits are reached with
\* a key to spare.
CONSTANTS
  SurveyKey = {k1, k2, k3}
  ResponseKey = {r1, r2, r3}
  Definition <- Definitions
  Answers <- Replies
  WellFormed <- SoundDefinitions
  Fits <- Fitting
  MaxSurveys = 2
  MaxResponses = 2
  None = None
  Trim <- Trimmed
  Lower <- Lowered
  Atoi <- Numbers
  Identifier <- Identifiers
  TooLong = {"long"}
  MaxQuestions = 2
  MaxOptions = 2
SPECIFICATION Spec
INVARIANTS TypeOK StartNeverRefused MemoryIsDurable ResultsAddUp
PROPERTIES AnsweredSurveysFrozen ImplementsLedger
