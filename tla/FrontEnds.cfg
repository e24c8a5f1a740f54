\* One setting, a request for everything or one of it, two posts, fluidsynth as slow as it likes.
CONSTANTS
  Controls = {gain}
  Verbose = {}
  Values = {low, high}
  MaxRequests = 1
  MaxHangups = 1
  MaxPosts = 2
SPECIFICATION Spec
INVARIANTS ReadsAreCurrent
PROPERTIES OrderKept RequestsAnswered PostsEnd
CHECK_DEADLOCK FALSE
