SPECIFICATION Spec
CONSTANTS
  ada = ada
  ben = ben
  b1 = b1
  b2 = b2
  ci = ci
  never = never
  Person = {ada, ben}
  Browser = {b1, b2}
  ALLOW_REGISTRATION = TRUE
  ATTEMPT_LIFE = 1
  SESSION_LIFE = 2
  TokenName = {ci}
  Never = never
  Asked = {"guest", "admin"}
  MaxTime = 2
  MaxStates = 2
  MaxChanges = 2
  MaxFailures = 1
SYMMETRY Alike
INVARIANTS OneCallbackPerState SignedInByItsOwn AdministratorStays
PROPERTY HousekeepingChangesNoAnswer
CHECK_DEADLOCK FALSE
