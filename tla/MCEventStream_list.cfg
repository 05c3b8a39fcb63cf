\* Two windows follow one sermon through short channels and a break or crash.
SPECIFICATION Spec
CONSTANTS
  Sermons = {s1}
  Windows = {w1, w2}
  BufferSize = 1
  Asking = {"upload", "scriptures"}
  MaxVersion = 3
  MaxBreaks = 1
  Look <- Recurring
SYMMETRY Symmetry
CHECK_DEADLOCK FALSE
INVARIANTS
  TypeOK
  NothingMissed
  DeletedStaysAway
