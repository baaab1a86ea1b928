SPECIFICATION Spec
CONSTANTS
  Session = {s1, s2}
  s1 = s1
  s2 = s2
  TextId = {"plain", "attack"}
  Attacks = {"attack"}
  MaxTurns = 2
  MaxCalls = 2
  NoAssertion = NoAssertion
  Nobody = Nobody
  Nowhere = Nowhere
  Environments <- MCEnvironments
  Files <- MCFiles
  Requests <- MCRequests
INVARIANT
  RecordTellsItsTurn
CHECK_DEADLOCK FALSE
