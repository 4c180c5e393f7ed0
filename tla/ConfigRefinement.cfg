CONSTANTS
  m1 = m1
  m2 = m2
  u1 = u1
  u2 = u2
  h1 = h1
  Mailbox = {m1, m2}
  User = {u1, u2}
  Root = root
  NoOwner = none
  Hook = {h1}
  Slot = {r1, r2, r3}
  NoSlot = free
  Ops <- WriterOps
  Starts <- MCStarts
  MaxReloads = 0
  MaxEdits = 0
  MaxRmdirs = 0
  MaxCrashes = 1
SPECIFICATION HSpec
PROPERTIES
  ImplementsAtomicConfig
  EveryRequestEnds
