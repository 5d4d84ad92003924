SPECIFICATION Spec
CONSTANTS
  s1 = s1
  s2 = s2
  t1 = t1
  Sessions <- MCSessions
  Tasks <- MCTasks
  RunLimit <- MCRunLimit
  None = None
INVARIANT GatesInSequence
