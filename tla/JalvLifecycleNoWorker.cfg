\* A plugin with a worker.
SPECIFICATION Spec
CONSTANTS
  Frontends = {"batch"}
  Exits = {}
  HasWork = TRUE
  MaxSignals = 2
  MaxCommands = 2
  MaxResizes = 2
INVARIANTS
  WorkerLaunched
