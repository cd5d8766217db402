CONSTANTS
  w1 = w1  w2 = w2  w3 = w3  w4 = w4
  Workers <- FourWorkers
  MayCrash = TRUE
SPECIFICATION Spec
SYMMETRY Symmetry
INVARIANTS TypeOK RepliesAreFinal
PROPERTY LifecycleSpec
