SPECIFICATION Spec
CONSTANTS
  Shapes = {"words", "numbers", "operators", "angles", "comments", "quotes"}
  Sources <- MCSources
  keywords <- MCkeywords
  TailWidth = 1
  NonAscii <- MCNonAscii
  countl_one <- MCcountl_one
  XidStart <- MCXidStart
  XidContinue <- MCXidContinue
  source_size_max = 100
INVARIANTS
  KeywordsExact
  WordsWhole
  NumbersWhole
  MaximalMunch
  CommentsBalanced
  QuotesClosed
