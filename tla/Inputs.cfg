\* Command lines, texts, tool lists and settings up to their bounds.
SPECIFICATION Spec
CONSTANTS
  Stopwords <- CommonWords
  MaxScan = 5
  MaxPieces = 3
  MaxQuoted = 3
  MaxText = 5
  MaxList = 3
  MaxGiven = 2
INVARIANTS SplitReadsBack TermsFound TokensCounted TruncateBounded
  CompressedReadsBack PassFollowsTiers StatsAddUp ConfigSafe
CHECK_DEADLOCK FALSE
