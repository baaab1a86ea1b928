SPECIFICATION Spec
CONSTANTS
  Blank = Blank
  None = None
  Nobody = Nobody
  service = service
  cli = cli
  w1 = w1
  w2 = w2
  w3 = w3
  Fold <- MCFold
  Process = {service, cli}
  Worker = {w1, w2, w3}
  Home <- MCHome
  Now = 20260801
  MaxRequests = 2
  MaxDeaths = 1
INVARIANTS
  StoresTypeOK
  ContactsFollowTheSeed
  RulesAreWhole
  RacesEndWhole
PROPERTIES
  RequestsEnd
CHECK_DEADLOCK FALSE
