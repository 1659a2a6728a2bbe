SPECIFICATION Spec
CONSTANTS
  Docs = {d1}
  MaxEvents = 5
  MaxResets = 0
  MaxFails = 0
PROPERTY DroppedByReopen
