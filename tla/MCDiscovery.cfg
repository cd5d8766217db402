CONSTANTS
  w1 = w1  w2 = w2  t1 = t1  t2 = t2  j1 = j1  j2 = j2  j3 = j3
  Workers <- TwoWorkers
  NoJob = NoJob
  NoTarget = NoTarget
  Targets <- TwoTargets
  Jobs <- ThreeJobs
  MayCrash = TRUE
SPECIFICATION Spec
SYMMETRY Symmetry
INVARIANTS TypeOK RepliesAreTrue DuplicatesNeedOverlap
PROPERTY LifecycleSpec
