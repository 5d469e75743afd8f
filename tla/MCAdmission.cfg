\* One card read at a door and at a device that toggles its mark, while the
\* lists change and are saved one change at a time.
SPECIFICATION AdmissionSpec
CONSTANTS
  Cards = {c1}
  Messages = {text, blank}
  Blank = blank
  NotListed = NotListed
  Writers = {w1}
  Size <- MCSize
  Junk = Junk
  Doors = {d1}
  Devices = {v1}
  DeniesMarked = {d1}
  ModeOf <- MCModeOf
INVARIANTS
  AdmissionTypeOK
  AdmittedWasNotBarred
CHECK_DEADLOCK FALSE
