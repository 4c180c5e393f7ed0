CONSTANTS
  Run = {q1, q2}
  NoReq = noreq
  MaxHosts = 2
  MaxHooks = 1
  Programs <- MCPrograms
SPECIFICATION FairSpec
CHECK_DEADLOCK FALSE
INVARIANTS
  AnswerTellsHosts
  OutcomeIsRecorded
PROPERTIES
  ConnectionEnds
