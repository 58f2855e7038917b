SPECIFICATION Spec
CONSTANTS
  Texts <- MCTexts
  Heading = heading
  MaxTokens = 5
  OverlapTokens = 2
  MinTokens = 3
  Lines = 4
  LineWords = 7
  Chars = 5
  TextMax = 4
  NameMax = 3
  Capacity = 2
  AlertKinds <- MCAlertKinds
  Filters <- MCFilters
  Minutes <- MCMinutes
  MaxBursts = 3
  Plain <- MCPlain
INVARIANTS ReadsBack LeastPenaltyWins ChunksCover NotesCleaned AlertsPinned
CHECK_DEADLOCK FALSE
