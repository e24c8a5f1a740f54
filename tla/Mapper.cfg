\* Two threads on one table; the main thread unmaps without the lock.
SPECIFICATION MapperSpec
CONSTANTS
  Threads = {main, worker}
  Unlocked = {main}
  Symbols = {1, 2, 3}
  Garbage = 9
  MaxCalls = 4
INVARIANTS
  MapperInv
  AnswersAreRight
PROPERTIES
  ImplementsInterner
