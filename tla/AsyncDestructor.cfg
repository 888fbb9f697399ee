\* the destructor called while the cache is full
SPECIFICATION Spec
CONSTANTS
  MaxModels = 1
  MaxGenerated = 2
PROPERTIES
  DestructorTerminatesThread
CHECK_DEADLOCK FALSE
