CONSTANT MaxTicks = 3
SPECIFICATION Spec
INVARIANTS
  TypeOK
  NoTornReport
  NoLostWakeup
  NoWriteToClosedFd
PROPERTIES
  Implements
  ShutdownCompletes
  SetupAnswered
  NewestDelivered
