CONSTANTS
  flat = flat
  bundle = bundle
  Message = {flat, bundle}
  Attached = {bundle}
  Split = {}
  Session = {s1, s2}
  Client = {c1}
  Requests <- MCRequests
  NoOne = free
  NoMessage = none
  MaxStem = 4
  MaxTries = 2
  MaxRequests = 1
  MaxFaults = 1
  MaxRestarts = 0
  MaxEvents = 2
  MaxLapses = 0
SPECIFICATION FairSpec
CHECK_DEADLOCK FALSE
PROPERTIES
  DeliveryEnds
  HooksCatchUp
