SPECIFICATION MCSpec
CONSTANTS
  UserNames = {"u"}
  MaxBody = 80
  MaxSource = 8
  Codec <- MCCodec
  Asks <- MCAsks
  Foreign <- MCForeign
  Letters <- MCLetters
  Signatures <- MCSignatures
  MaxLetters = 2
  m1 = m1
  m2 = m2
  u1 = u1
  u2 = u2
  h1 = h1
  Root = root
  NoOwner = NoOwner
  NoCopy = NoCopy
  c1 = c1
  c2 = c2
  Mailbox = {m1, m2}
  User = {u1, u2}
  Hook = {h1}
  Client = {c1, c2}
  Commands <- MCCommands
  Starts <- MCStarts
  Letter = {1, 2, 3}
  Limit = 2
  MaxStarts = 2
CHECK_DEADLOCK FALSE
INVARIANTS
  LoadableFile
  ToldTruth
  PagingMissesNothing
  ActedAsAsked
  ToldAsAnswered
  LetterArrives
  ThreadsAgree
