CONSTANTS
  None = None
  Body <- MCBody
  Summary <- MCSummary
  MaxLines = 4
  OcrCandidates <- MCOcrCandidates
  MaxCandidates = 3
  BasePrices <- MCBasePrices
  PriceReadings <- MCPriceReadings
  DatePasses <- MCDatePasses
  HeaderPasses <- MCHeaderPasses
  MaxPasses = 3
  Rows = 3
  Columns = 2
  Weights <- MCWeights
  OrderRows <- MCOrderRows
  Receipts <- MCReceipts
  Windows <- MCWindows
  CategoryOf <- MCCategoryOf
  MaxRows = 2
  Printed <- MCPrinted
  Files = {1, 2}
  OrderOn <- MCOrderOn
  Verified <- MCVerified
  Ruled <- MCRuled
  Budget = {"home"}
  Default = "home"
  BatchSize = 1
  MaxCalls = 2
  MaxErrors = 1
  MaxPrinted = 3
  HeaderLines <- MCHeaderLines
  Footers <- MCFooters
  Reports <- MCReports
  Hints <- MCHints
  Retailers = {"mart"}
  MaxHeader = 3
  MaxReports = 2
  MaxColumn = 6
SPECIFICATION MCSpec
INVARIANTS  CoherentHeaderWins PassesAreNotVotes PricesFindTheirRows OrderLinesAddUp SpendPreserved SellerPrinted
CHECK_DEADLOCK FALSE
