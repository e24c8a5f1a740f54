\* A console with presets that need a pause, or a custom UI; a buffer size change; fair threads.
SPECIFICATION Spec
CONSTANTS
  NumPorts = 2
  Values = {0, 1}
  RingSize = 64
  EventSize = 4
  BufferSize = 64
  MidiBytes = {0, 24}
  SafeRestore = FALSE
  ControlIn = FALSE
  MaxCommands = 3
  MaxResizes = 1
INVARIANTS
  IInv
  RestoreIsPaused
  EventsReachPlugin
PROPERTIES
  PauseOutcome
  ApplyCompletes
