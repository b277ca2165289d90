SPECIFICATION Spec
CONSTANTS
  Card = {1}
  MaxAlarms = 2
  MaxFailures = 0
  MaxDeaths = 0
INVARIANT
  OnlyPushedAlarmsDeleted
CHECK_DEADLOCK FALSE
