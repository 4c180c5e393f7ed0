CONSTANTS
  flat = flat
  bundle = bundle
  Message = {flat, bundle}
  Attached = {bundle}
  Split = {}
  Session = {s1, s2}
  Client = {c1}
  Requests <- MCRequests
  NoOne = free
  NoMessage = none
  MaxStem = 4
  MaxTries = 2
  MaxRequests = 1
  MaxFaults = 1
  MaxRestarts = 1
  MaxEvents = 3
  MaxLapses = 1
SYMMETRY Symmetry
SPECIFICATION Spec
CHECK_DEADLOCK FALSE
INVARIANTS
  StoredOnce
PROPERTIES
  MailIntact
  ImplementsAtomicInbox
