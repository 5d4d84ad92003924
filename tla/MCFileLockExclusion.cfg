CONSTANTS
  c1 = c1
  c2 = c2
  c3 = c3
  p1 = p1
  p2 = p2
  alice = alice
  None = None
  Callers <- MCCallers
  Pids <- MCPids
  PidOf <- MCPidOf
  UserOf <- MCUserOf
  MortalPids <- MCMortalPids
  MaxAttempts = 2
SPECIFICATION Spec
INVARIANT MutualExclusion
