SPECIFICATION Spec
CONSTANTS
  s1 = s1
  s2 = s2
  l1 = l1
  l2 = l2
  Servers <- TwoServers
  Worlds <- FewAndMore
  Levels <- OneLevel
  MaxRequests = 2
  MaxServersForLevels = 1
  None = None
\* A crash is the end.
CHECK_DEADLOCK FALSE
INVARIANTS TypeOK RefreshShowsTruth SearchAnswersLayer WaitingIsAnswered
