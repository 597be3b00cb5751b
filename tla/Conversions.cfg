SPECIFICATION Spec
CONSTANTS
  Null = Null
  Empty = Empty
  Garbage = Garbage
  Naive = Naive
  Float = Float
  NoInput = NoInput
  Nil = Nil
  Blank = Blank
  Bad = Bad
  Unset = Unset
  Now = 50
  AzureMap <- MCAzureMap
  GcpMap <- MCGcpMap
  AwsMap <- MCAwsMap
  Within <- MCWithin
  Scale = 10
  TaskPrefix = "task:"
  Price <- MCPrice
  NonProdRgs <- MCNonProd
  MaxAgeDays = 180
  Second = 2
  Day = 4
  Month = 160
  ListLimit = 4
  ExportLimit = 5
  GroupLimit = 4
  Rates <- MCRates
  AzureRows <- MCAzureRows
  GcpUsages <- MCGcpUsages
  AwsGroups <- MCAwsGroups
  LlmRows <- MCLlmRows
  Costs <- MCCosts
  EcbTables <- MCEcbTables
  RawResources <- MCResources
  Spellings <- MCSpellings
  Tables <- MCTables
  Ends <- MCEnds
CHECK_DEADLOCK FALSE
INVARIANTS
  GcpModesAgree
  RowsAreConserved
  RefundCancels
  RatesAreConsistent
  RescanFindsTheSame
  RemedyClears
  AnswersAgree
  PeriodsTile
