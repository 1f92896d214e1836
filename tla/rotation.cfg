SPECIFICATION Spec
CONSTANTS
  NumSessions = 2
  Files = {f1}
  FileOf <- InFirst
  Links = {l1}
  Jobs = {j1}
  Writers = {w1}
  Admins = {a1}
  BatchSize = 1
  MaxFailures = 1
  NoJob = NoJob
  NoCell = NoCell
INVARIANTS TypeOK CheckpointSound
PROPERTY ImplementsMigration
