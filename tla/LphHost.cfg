\* Three instances of a plugin with two ports.
SPECIFICATION HostSpec
CONSTANTS
  Instances = {a, b, c}
  NPorts = 2
  None = None
INVARIANTS
  StackIsLive
  CycleIsSetUp
PROPERTIES
  InstanceStarts
  QuitEnds
