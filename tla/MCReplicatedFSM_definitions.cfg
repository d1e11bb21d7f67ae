SPECIFICATION Spec
CONSTANTS
  r1 = r1  r2 = r2
  p1 = p1  p2 = p2 
  u1 = u1
  b1 = b1  b2 = b2
  Replica = {r1}
  Post = {p1, p2}
  Rule = {u1}
  Body = {b1, b2}
  OpId <- DefinitionIds
  Ops <- DefinitionOps
  NoRow = NoRow
  NoOp = NoOp
  MaxLog = 5
  Evidence = {p2}
  Faulty = {}
INVARIANTS DefinitionsIntegrity
