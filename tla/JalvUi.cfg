\* A custom UI that fills both rings of 63 usable bytes; the rings replaced once.
SPECIFICATION UiSpec
CONSTANTS
  NumPorts = 1
  Values = {0, 1}
  RingSize = 64
  EventSize = 32
  BufferSize = 96
  MidiBytes = {0}
  SafeRestore = FALSE
  ControlIn = FALSE
  MaxCommands = 2
  MaxResizes = 1
  Latencies = {0, 1}
  Modes = {capture}
  UpdateCycles = 1
  MaxOutputs = 2
INVARIANTS
  LatestWins
  LatencyTold
  UiEventsInOrder
PROPERTIES
  LatencySettles
