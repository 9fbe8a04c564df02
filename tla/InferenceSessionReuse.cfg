SPECIFICATION InferenceSpec
CONSTANTS
  s1 = s1
  s2 = s2
  NoMessage = NoMessage
  Tokens = {"a", "b"}
  NumBlocks = 2
  Servers <- MCServers
  Serves <- MCReplicas
  MaxLength = 2
  MaxFailures = 2
  ReuseAfterError = TRUE
INVARIANTS
  OutputsRight
CHECK_DEADLOCK FALSE
