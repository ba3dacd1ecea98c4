CONSTANTS
  q1 = q1
  q2 = q2
  q3 = q3
  Queries = {q1, q2, q3}
SPECIFICATION FinishingSpec
INVARIANTS
  TypeOK
  AnsweredIsSettled
  WaitingIsDue
PROPERTIES
  AnswersOnce
  EveryQueryAnswered
CHECK_DEADLOCK FALSE
