CONSTANTS
  w1 = w1  w2 = w2  admin1 = admin1  admin2 = admin2
  text1 = text1  l1 = l1
  Workers <- TwoWorkers
  Grants <- AllGrants
  Nobody = Nobody
  Summaries <- OneText
  NoSummary = NoSummary
  NoLevel = NoLevel
  Users <- Admins
  Levels <- OneLevel
SPECIFICATION Spec
PROPERTY TransitionsFollowOrder
