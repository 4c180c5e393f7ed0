CONSTANTS
  ann = ann
  bob = bob
  Session = {s1, s2}
  Name = {ann, bob}
  Catchall = catchall
  NoBox = nobox
  NoName = noname
  Snapshots <- MCSnapshots
  HasTls = TRUE
  MaxCommands = 6
  MaxLetters = 1
  MaxChanges = 1
  MaxConnections = 1
  MaxPermits = 1
  MaxCommandsRun = 2
  MaxCuts = 1
SPECIFICATION MCSpec
CHECK_DEADLOCK FALSE
INVARIANTS
  NoStrayRecipient
PROPERTIES
  AckedIsStored
  PermitsComeBack
  SigtermEnds
  PassedMeansReached
  CheckEnds
  GateReopens
