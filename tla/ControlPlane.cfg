\* Two requests on any route, and the job on three accounts.
CONSTANTS
  MaxRequests = 2
  StepUpModes = {"five_minutes"}
  RouteIds <- AllRouteIds
  Superadmins = {"r1", "r2"}
  Others = {"u"}
  SuspendChoices = {0, 1}
  DeactivateChoices = {0, 1}
  Wall = 1
  Margin = 1
  Interval = 1
  BatchSize = 1
  MaxChanges = 3
SPECIFICATION PlaneSpec
INVARIANTS  OnlyRestoreRuns SettingsAndSuperadminKept
PROPERTIES GateReopens IdleAccountsEnd
CHECK_DEADLOCK FALSE
