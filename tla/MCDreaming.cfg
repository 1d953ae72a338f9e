SPECIFICATION MemorySpec
CONSTANTS
  Names <- TwoFiles
  DefaultFiles <- Default
  UserTexts <- Written
  ClaudeTexts <- Rewritten
  Requests = {r1, r2}
  Prefaces <- SomePrefaces
  Absent = Absent
  MaxSpawns = 2
  MaxDreams = 2
INVARIANTS
  MemoryTypeOK
  SavesWhatWasMeant
  NoWriteLost
SYMMETRY Symmetry
CHECK_DEADLOCK FALSE
