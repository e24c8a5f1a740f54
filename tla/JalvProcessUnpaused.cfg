\* One preset, for a plugin whose restore() is not thread-safe.
SPECIFICATION SafeSpec
CONSTANTS
  NumPorts = 1
  Values = {0, 1}
  RingSize = 64
  EventSize = 4
  BufferSize = 64
  MidiBytes = {0}
  SafeRestore = FALSE
  ControlIn = FALSE
  MaxCommands = 1
  MaxResizes = 0
INVARIANTS
  RestoreRunsAlone
