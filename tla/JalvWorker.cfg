\* Two-slot rings that fill up, three requests, two restores.
SPECIFICATION Spec
CONSTANTS
  RingSlots = 2
  MaxRequests = 3
  MaxReplies = 2
  MaxRestores = 2
INVARIANTS
  IInv
  WorkExclusive
  RepliesInOrder
PROPERTIES
  ExitCompletes
  ImplementsService
