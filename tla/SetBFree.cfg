\* The trigger, a preset, the random drawbars and a drawbar of each of two manuals, which share
\* a controller number.
SPECIFICATION Spec
CONSTANTS
  Turned = {2, 3, 6, 18, 27}
  Capacity = 45
INVARIANTS
  IInv
  InSync
PROPERTIES
  ConfigurationIsWhole
  StayingIsRead
