CONSTANTS
  w1 = w1  w2 = w2  w3 = w3  admin = admin
  t1 = t1  j1 = j1  j2 = j2  r1 = r1  r2 = r2  Unused = Unused
  MaxAttempts = 3
  LastBeat = 2
SPECIFICATION LiveSpec
INVARIANTS
  BeatsAreBounded StoppedIsSilent NotLeftRunning
PROPERTIES
  ExecutionsEnd StopEndsRun
CHECK_DEADLOCK FALSE
