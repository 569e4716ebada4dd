SPECIFICATION Spec
CONSTANTS
  Operations = {"save", "restore", "delete"}
  Locks = TRUE
  Crashes = TRUE
  MaxAttempts = 3
  Retention = 2
  MaxCalls = 6
PROPERTIES
  ImplementsStore
  DeletedIsKept
CHECK_DEADLOCK FALSE
