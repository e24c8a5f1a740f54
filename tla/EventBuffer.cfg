\* 80: room for four events without a body or two with one, and four that are
\* offered: the buffer is full, with and without bytes that are left.  44: no
\* multiple of eight, two events take the sequence past it and the third beyond the
\* memory.  4: there is no room for any, and the test lets all through.
SPECIFICATION Spec
CONSTANTS
  Capacities = {4, 44, 80}
  Sizes = {0, 3, 9}
  NFrames = 2
  MaxEvents = 4
INVARIANTS
  IInv
  ReadsBack
