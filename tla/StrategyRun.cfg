SPECIFICATION Spec
CONSTANTS
  None = None
  Jobs = {j1, j2}
  Kinds = {"auto", "check"}
  Asked = {2}
  MaxThreads = 2
  PlanLen = 1
  Callers = {c1}
  Faults = {"crash", "disturb", "shutdown"}
  MaxFaults = 1
SYMMETRY Symmetry
INVARIANTS SandboxSafe JobRecord IsolatedSuccess
