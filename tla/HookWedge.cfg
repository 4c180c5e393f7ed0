CONSTANTS
  Run = {q1}
  NoReq = noreq
  MaxHosts = 2
  MaxHooks = 1
  Programs <- MCForking
SPECIFICATION FairSpec
CHECK_DEADLOCK FALSE
PROPERTIES
  HardTimeout
