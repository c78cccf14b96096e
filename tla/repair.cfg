SPECIFICATION FairSpec
CONSTANTS
  Layout <- MCLayout
  Objects = {"a", "b", "c"}
  Stubborn = {"b"}
  Runners = {"cron", "boot", "admin"}
  RepairMaxBatch = 1
  RepairMaxRetries = 1
  MaxHistory = 1
  MaxIssues = 1
  MaxManual = 1
  MaxFaults = 1
INVARIANTS
  RepairTypeOK
  SingleFlight
PROPERTIES
  DamageRepaired
