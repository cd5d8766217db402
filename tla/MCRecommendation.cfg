CONSTANTS
  w1 = w1  w2 = w2  v1 = v1  v2 = v2  r1 = r1  r2 = r2
  Workers <- TwoWorkers
  Clerks <- TwoClerks
  Checks <- TwoChecks
  Results <- TwoResults
  MaxEvidence = 1
  MayCrash = TRUE
SPECIFICATION PipelineSpec
SYMMETRY Symmetry
INVARIANTS PipelineTypeOK OutcomeIsRecorded RepliesAreFinal
  RecommendationsAreFounded GenerationCovers AuditAccountsForRows NoCircularWait
PROPERTY LifecycleSpec ReviewOrder
