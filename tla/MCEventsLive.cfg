SPECIFICATION FairSpec
CONSTANTS
  v1 = v1
  a1 = a1
  JVMs = {v1}
  ATs = {a1}
  Types = {"MouseReleased", "PropertyChildChange", "JavaShutdown"}
  MaxEvents = 1
  MaxRequests = 2
INVARIANTS TypeOK RegistrationsAddUp ShutdownIsLast NothingLost
PROPERTIES EventuallyListens EventuallyReleased
CHECK_DEADLOCK FALSE
