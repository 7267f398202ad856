SPECIFICATION Spec
CONSTANTS
  Run = {r1, r2}
  Request = {q1}
  NoRun = NoRun
  Faults = {}
CHECK_DEADLOCK FALSE
INVARIANT RunAgain
