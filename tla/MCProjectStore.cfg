CONSTANTS
  s1 = s1
  w1 = w1
  t1 = t1
  t2 = t2
  opA = opA
  h1 = h1
  NoOp = NoOp
  NoRev = NoRev
  CreateOp = CreateOp
  RebuildOp = RebuildOp
  None = None
  Writers = {s1}
  RawWriters = {w1}
  Items = {t1, t2}
  Ops = {opA}
  Hashes = {h1}
  Requests <- MCRequests
  MaxCalls = 1
  MaxAudit = 2
SPECIFICATION StoreSpec
PROPERTY MutationsSurvive
