\* One JVM and two ATs, read queues fairly; the abstract specification.
CONSTANTS
    JVMs = {j1}
    ATs = {a1, a2}
SPECIFICATION FairSpec
PROPERTIES EventuallyLinked EventuallyForgotten ImplementsNeighbourhood
CHECK_DEADLOCK FALSE
