SPECIFICATION Spec
CONSTANTS
  Blank = Blank
  None = None
  op1 = op1
  op2 = op2
  brand = brand
  group = group
  Fold <- MCFold
  Operator = {op1, op2}
  Customers = {brand, group}
  Subjects = {101, 104, 201}
  Channels = {"email"}
  Heard = {101}
  Now = 20260801
  MaxWrites = 1
  MaxDeaths = 1
SYMMETRY MCSymmetry
INVARIANTS
  ManagedTypeOK
  ContactsFollowTheManifest
  RefusalsSurviveLoads
CHECK_DEADLOCK FALSE
