SPECIFICATION InferenceFairSpec
CONSTANTS
  s1 = s1
  s2 = s2
  NoMessage = NoMessage
  Tokens = {"a", "b"}
  NumBlocks = 2
  Servers <- MCServers
  Serves <- MCReplicas
  MaxLength = 3
  MaxFailures = 2
  ReuseAfterError = FALSE
INVARIANTS
  OutputsRight
  CachesCoherent
PROPERTIES
  MisplacedNeverSteps
  FirstStepCompletes
CHECK_DEADLOCK FALSE
