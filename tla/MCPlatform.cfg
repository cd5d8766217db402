CONSTANTS
  w1 = w1  w2 = w2  admin1 = admin1  admin2 = admin2  technician = technician
  text1 = text1  l1 = l1  r1 = r1  r2 = r2  e1 = e1  e2 = e2  t1 = t1  t2 = t2
  d1 = d1  d2 = d2  n1 = n1  n2 = n2
  Workers <- TwoWorkers
  Users <- Team
  Grants <- RoleGrants
  Nobody = Nobody
  Summaries <- OneText
  NoSummary = NoSummary
  Levels <- OneLevel
  NoLevel = NoLevel
  Receivers <- TwoReceivers
  MaxTime = 2
  MaxStatus = 3
  Enrollers <- TwoEnrollers
  Tokens <- TwoTokens
  Devices <- TwoDevices
  NoDevice = none
  AgentNames <- TwoNames
SPECIFICATION PlatformSpec
SYMMETRY Symmetry
INVARIANTS
  TypeOK ClosureIsRecorded
  MigrationsApply SchemaMatchesVersion SeenIsStored
  TokenPaysForAgent OneAgentPerDevice
PROPERTIES
  StartIsNeverSkipped UndoingNeedsOverlap
  MigrationsKeepDecisions TimestampsNeedOverlap
