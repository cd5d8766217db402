CONSTANTS
  w1 = w1  w2 = w2  admin = admin  technician = technician
  Workers <- TwoWorkers
  Users <- Team
  Grants <- RoleGrants
  Nobody = Nobody
  NoPlan = NoPlan
  MayCrash = TRUE
SPECIFICATION Spec
SYMMETRY Symmetry
INVARIANTS TypeOK ApprovedBeforeUse ExecutedBeforeVerification OnePlanPerRecommendation
PROPERTY GateSpec
