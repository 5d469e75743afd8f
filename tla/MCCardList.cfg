\* One card that two saves at a time, of texts of different lengths, are about.
SPECIFICATION Spec
CONSTANTS
  Cards = {c1}
  Messages = {text, blank}
  Blank = blank
  NotListed = NotListed
  Writers = {w1, w2}
  Size <- MCSize
  Junk = Junk
INVARIANTS
  TypeOK
  LastChangeIsSaved
PROPERTIES
  RestartsFromPast
SYMMETRY Symmetry
CHECK_DEADLOCK FALSE
