SPECIFICATION FairSpec
CONSTANTS
  p1 = p1  p2 = p2
  u1 = u1
  b1 = b1  b2 = b2
  Post = {p1, p2}
  Rule = {u1}
  Body = {b1, b2}
  OpId <- MixedIds
  Ops <- MixedOps
  Intents <- MixedIntents
  NoRow = NoRow
  NoOp = NoOp
  Node = {n1, n2}
  Request = {t1, t2}
  Seed <- SeedTables
  NoRequest = NoRequest
INVARIANTS ValidatedAtLabel RefusedOnlyWhenStale SuccessIsRealized
PROPERTIES EveryRequestReturns
