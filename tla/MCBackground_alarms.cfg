SPECIFICATION FairSpec
CONSTANTS
  Card = {1}
  MaxAlarms = 2
  MaxFailures = 1
  MaxDeaths = 1
INVARIANTS
  TypeOK
  TriedBeforeDeleted
  MailedAgainForReason
  TokenReadIsNewest
PROPERTIES
  EveryAlarmGoes
CHECK_DEADLOCK FALSE
