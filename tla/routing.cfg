SPECIFICATION RequestSpec
CONSTANTS
  RoutePrefixes <- MCPrefixes
  MaxUnits = 5
  V4 = 2
  V6 = 3
  MappedHigh = 1
  Requests <- MCRequests
  Proxies <- MCProxies
  Answers <- MCAnswers
  PlainHosts <- MCPlainHosts
  Folded <- MCFolded
  MaxHops = 3
INVARIANTS
  RoutedByMeaning
  UpstreamsAgree
  StripLeavesTheRest
  TrustIsByRange
  OriginIsTheEdges
  TargetIsRecoverable
  ForwardedIsTheJourney
  OneRequestId
CHECK_DEADLOCK FALSE
