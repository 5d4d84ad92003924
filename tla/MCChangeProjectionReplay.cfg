CONSTANTS
  s1 = s1
  s2 = s2
  t1 = t1
  t2 = t2
  opA = opA
  opB = opB
  opC = opC
  h1 = h1
  h2 = h2
  NoOp = NoOp
  NoRev = NoRev
  CreateOp = CreateOp
  None = None
  Writers = {s1, s2}
  Items = {t1, t2}
  Ops = {opA, opB, opC}
  Hashes = {h1, h2}
  Requests <- MCRequests
  MaxCalls = 3
  MaxAudit = 2
SPECIFICATION Spec
PROPERTY ReplayIsPublished
SYMMETRY Sessions
