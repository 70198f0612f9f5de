SPECIFICATION AuditSpec
CONSTANTS
  Temps <- MCTemps
  Cpus <- MCCpus
  CpuEnter = 70
  CpuExit = 50
  ThermalEnter = 75
  ThermalExit = 70
  CriticalEnter = 82
  CriticalExit = 76
  MinHold = 2
  Cooldown = 4
  AdjustWindow = 8
  MaxAdjustments = 1
  Gaps <- MCGaps
INVARIANTS
  TypeOK
  CooldownHonoured
  SlidingBudget
PROPERTIES
  ImplementsModes
  HealthyReturnsToNormal
  HeatIsThrottled
