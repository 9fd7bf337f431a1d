SPECIFICATION DeployFairSpec
CONSTANTS
  Phase3 <- MCPhase3
  Phase4 <- MCPhase4
  Bonds = {"MA-2030"}
  ToAgent = 2
  Ether = 8
  MaxMishaps = 2
CHECK_DEADLOCK FALSE
INVARIANT RecordedIsReal
INVARIANT SpentOnce
PROPERTY ReadyInTheEnd
