SPECIFICATION Spec
CONSTANTS
  System <- TwoNodes
  SceneList <- TwoScenes
  Others = {"h1"}
  Blinds = {2}
  Scenarios <- AppAndUsers
  MaxSid = 6
  MaxOwed = 2
INVARIANTS
  TypeOK
  QuietOperation
  ResultsAreTrue
  LoadIsExact
  AuthenticatedFirst
PROPERTY
  PauseEnds
