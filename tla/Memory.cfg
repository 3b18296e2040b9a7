SPECIFICATION MemorySpec
CONSTANTS
  aliceIn1 = aliceIn1
  bobIn1 = bobIn1
  aliceIn2 = aliceIn2
  m1 = m1
  m2 = m2
  None = None
  Forged = Forged
  Sessions = {aliceIn1, bobIn1, aliceIn2}
  Items = {i1, i2, i3}
  Messages = {m1}
  MaxDepth <- DepthOf
  Claims <- ForgedClaims
  User <- UserOf
  Org <- OrgOf
  IsAdmin <- AdminOf
  MessageOrg <- OrgOfMessage
  MessageUser <- UserOfMessage
SYMMETRY MemorySymmetry
INVARIANTS TraceIsVisible TraceIsLineage DigestsVerify
