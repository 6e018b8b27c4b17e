CONSTANTS
  MaxRequests = 2
  StepUpModes = {"five_minutes"}
  RouteIds <- AllRouteIds
SPECIFICATION Spec
INVARIANT GrantedIsServed
CHECK_DEADLOCK FALSE
