SPECIFICATION AdaptersSpec
CONSTANTS
  Publisher = publisher
  Pollers = {p1, p2}
  NoOne = noOne
  Orphan = orphan
  Shapes <- AllShapes
  Faults = 3
  FirstUpload = publisher
  Resumes = {r1, r2}
  Chunk = 2
  Files <- AllFiles
  Breaks = 2
  Drafts <- AllDrafts
  Mishaps = 3
INVARIANTS OnePost Whole
PROPERTIES Truthful Settles Completes
CHECK_DEADLOCK FALSE
