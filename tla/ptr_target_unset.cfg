\* A record whose direction is unset, with the target name wanted.
CONSTANTS
  w1 = w1
  w2 = w2
  ipA = ipA
  ipB = ipB
  NULL = NULL
  Workers <- MC_Workers
  Ips <- MC_Ips
  PtrAnswer <- MC_PtrAnswer
  Flows <- MC_Flows
  Directions <- MC_Directions
  WantClient = TRUE
  WantTarget = TRUE
  NoName <- NULL
  TTL = 2
  NegTTL = 1
  Deadline = 1
SPECIFICATION Spec
INVARIANT TargetNameNeedsDirection
