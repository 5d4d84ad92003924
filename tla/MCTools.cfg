CONSTANTS
  s1 = s1
  s2 = s2
  e1 = e1
  e2 = e2
  i1 = i1
  x1 = x1
  x2 = x2
  None = None
  Shell = Shell
  Sessions = {s1, s2}
  MaxFlocks = 3
  MaxHead = 1
  MaxEdits = 1
  Epics = {e1, e2}
  EntryIds = {i1}
  Changes = {x1, x2}
  MaxEpicCalls = 4
  Tasks = {x1, x2}
  MaxCheckpoints = 3
  MaxRevision = 1
  MaxStrays = 1
  MaxSaves = 1
SPECIFICATION Spec
SYMMETRY Symmetry
INVARIANTS
  ToolsTypeOK
  FlockExclusive
  FlockReclaimsDead
  RemovalUnderLease
  MembershipBacked
  RetiredChangesDone
  DoneWorkCommitted
  RecordKept
PROPERTIES
  UncommittedWorkKept
  RemovedAsJudged
  EpicKept
  CompletionKept
  SoundStaysActive
  RepairSaved
CHECK_DEADLOCK FALSE
