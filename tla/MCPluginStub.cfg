SPECIFICATION MCSpec
CONSTANTS
  Run = {r1, r2}
  Request = {q1, q2}
  NoRun = NoRun
  Faults = {"reject", "eof", "reset", "epipe"}
  MaxBytes = 3
  HijackFaults = {"refuse", "timeout", "shutdown", "conn"}
  LaunchFaults = {"socketpair", "fileconn", "start"}
  Var = {"A", "B"}
  Ref = {"r1"}
  Plain = {"p1"}
  MaxFiles = 1
  MaxSignals = 2
  Sent = {"INT", "TERM", "QUIT"}
CHECK_DEADLOCK FALSE
INVARIANTS ProcessTypeOK OneRegisteredSession RunEndsCleanly ConnectionIsWhole RunIsTransparent
PROPERTIES GracefulStop RunReturns SignalsReachChild
