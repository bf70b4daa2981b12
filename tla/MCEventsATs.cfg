SPECIFICATION Spec
CONSTANTS
  v1 = v1
  a1 = a1
  a2 = a2
  JVMs = {v1}
  ATs = {a1, a2}
  Types = {"FocusGained", "PropertyDescriptionChange"}
  MaxEvents = 1
  MaxRequests = 2
SYMMETRY Symmetry
INVARIANTS RegistrationsAddUp NoUseAfterRelease
CHECK_DEADLOCK FALSE
