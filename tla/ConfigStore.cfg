CONSTANTS
  m1 = m1
  m2 = m2
  u1 = u1
  u2 = u2
  h1 = h1
  Mailbox = {m1, m2}
  User = {u1, u2}
  Root = root
  NoOwner = none
  Hook = {h1}
  Slot = {r1, r2}
  NoSlot = free
  Ops <- AllOps
  Starts <- MCStarts
  MaxReloads = 1
  MaxEdits = 1
  MaxRmdirs = 1
  MaxCrashes = 1
  Arrival = {a1}
  Sender <- MCSender
  Lower <- MCLower
  Pattern <- MCPattern
  Glob <- MCGlob
  Hooks <- MCHooks
  Files <- MCFiles
  Mails <- MCMails
  MaxChanges = 3
SYMMETRY Symmetry
SPECIFICATION MCSpec
INVARIANTS
  ServedHooksUnique
  OwnersPinned
  NoHalfMailbox
  HooksAsJudged
PROPERTIES
  HooksCommittedByOwner
