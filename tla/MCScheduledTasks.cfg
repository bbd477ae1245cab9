SPECIFICATION TaskSpec
CONSTRAINT Scope
CONSTANTS
  Tasks = {cron, once}
  Cron = {cron}
  None = None
  MaxRuns = 2
  MaxFaults = 2
  MaxRestarts = 1
INVARIANTS
  OncePerLife
  DeletedStaysDeleted
  AlwaysArmed
PROPERTIES
  OneRunAtATime
