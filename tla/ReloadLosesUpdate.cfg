CONSTANTS
  m1 = m1
  m2 = m2
  u1 = u1
  u2 = u2
  h1 = h1
  Mailbox = {m1, m2}
  User = {u1, u2}
  Root = root
  NoOwner = none
  Hook = {h1}
  Slot = {r1, r2}
  NoSlot = free
  Ops <- MailboxOps
  Starts <- MCStarts
  MaxReloads = 1
  MaxEdits = 0
  MaxRmdirs = 0
  MaxCrashes = 0
SYMMETRY Symmetry
SPECIFICATION Spec
PROPERTY NoUpdateLostToReload
