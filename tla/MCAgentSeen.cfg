CONSTANTS
  w1 = w1  w2 = w2  c1 = c1  c2 = c2  c3 = c3  c4 = c4
  Workers <- TwoWorkers
  Credentials <- FourCredentials
  NoCredential = NoCredential
  MaxTime = 2
SPECIFICATION Spec
PROPERTY NewestSeenPreserved
