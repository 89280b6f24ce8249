SPECIFICATION Spec
CONSTANTS
  Sources <- MCSources
  Code <- Code_
  Revisions <- MCRevisions
  Targets = {"cpu", "ve"}
  Queues = {q1}
  MaxBuilds = 2
  None = None
INVARIANTS
  TypeOK
  ExitZeroFresh
  RunsItsSource
  QueueOnTarget
  ProcessLives
CHECK_DEADLOCK FALSE
