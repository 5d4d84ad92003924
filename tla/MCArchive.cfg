SPECIFICATION Spec
CONSTANTS
  s1 = s1
  s2 = s2
  Sessions <- MCSessions
  None = None
  MaxTip = 2
  MaxPr = 1
  MaxCalls = 2
SYMMETRY MCSymmetry
INVARIANTS
  ArchiveTypeOK
  ReleasedUnlessStaleProof
  SourceKeptUntilTerminal
  AcceptedUnlessOvertaken
PROPERTIES
  TerminalStays
  ArchivedInOrder
CHECK_DEADLOCK FALSE
