SPECIFICATION Spec
CONSTANTS
  Irqs <- Devices
  Exceptions <- SomeExceptions
  MaxEvents = 5
INVARIANTS
  OwnIrqFound
PROPERTIES
  EndsOwn
  ReturnsExactly
  Served
CHECK_DEADLOCK FALSE
