\* Every way to run, every error exit, a plugin with a worker.
SPECIFICATION Spec
CONSTANTS
  Frontends = {"console", "batch", "ui"}
  Exits = {"args", "load", "plugin", "ports", "backend", "features", "instance"}
  HasWork = TRUE
  MaxSignals = 2
  MaxCommands = 2
  MaxResizes = 2
INVARIANTS
  CycleIsSafe
  OwnedOnce
PROPERTIES
  AskedEnds
