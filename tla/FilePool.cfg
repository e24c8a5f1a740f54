\* One sample, any number of promises, two of them under way at once.
SPECIFICATION Spec
CONSTANTS
  Files = {"a"}
  Chunks = 1
  MaxRequests = 2
  Capacity = 1
  Threads = 2
  MaxVoices = 1
  MaxReaders = 1
  MaxPosts = 1
INVARIANTS
  DataOutlivesJobs
  OneWriter
  AvailableIsFilled
  NothingLost
PROPERTIES
  PromiseIsKept
  CallsReturn
