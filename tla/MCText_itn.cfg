SPECIFICATION TextSpec
CONSTANTS
  None = None
  nemotron = nemotron
  zipformer = zipformer
  path = path
  Models <- MCModels
  Registry <- MCRegistry
  Punctuating <- MCPunctuating
  DefaultModel <- MCDefault
  Offered <- MCChoices
  Texts <- MCLooseTexts
  ContextWords = 2
  MaxUtterances = 2
  Labels = {"A", "B", "C"}
  Truth <- MCTruth
  Middles = {1, 3, 7}
  Exhaustive = 2
  MaxEvents = 5
  MaxWords = 3
  Vocabulary <- MCVocabulary
  MaxFigures = 4
INVARIANTS
  SeparateValuesStay
CHECK_DEADLOCK FALSE
