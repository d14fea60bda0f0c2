SPECIFICATION Spec
CONSTANTS
  Ids <- SomeIds
  Expire = 2
  MaxPublish = 2
  MaxConnects = 2
  Window = 2
INVARIANTS QueuedIsUnsent
PROPERTIES GoneOnlyIfDone
