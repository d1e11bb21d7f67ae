SPECIFICATION FairSpec
CONSTANTS
  r1 = r1  r2 = r2
  p1 = p1  p2 = p2 
  u1 = u1
  b1 = b1  b2 = b2
  Replica = {r1, r2}
  Post = {p1}
  Rule = {u1}
  Body = {b1, b2}
  OpId <- ReplicationIds
  Ops <- ReplicationOps
  NoRow = NoRow
  NoOp = NoOp
  MaxLog = 3
  Evidence = {p1}
  Faulty = {r1}
INVARIANTS MaterializationIsPrefix NoSpuriousFailure IdempotencyComplete
PROPERTIES PositionNeverRegresses RestartKeepsEvidence ImplementsPromise Converges
