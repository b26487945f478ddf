CONSTANTS
  cad = cad
  usd = usd
  e1 = e1
  e2 = e2
  None = None
  Transactions <- MCTransactions
  Amount <- MCAmount
  Kind <- MCKind
  Receipts <- MCReceipts
  Expenses <- MCExpenses
  Editors <- MCEditors
  Sizes <- MCSizes
  MaxRows = 2
  MaxSaves = 2
  MaxMoves = 2
  Lines <- MCLines
  Products = {"jar", "towel"}
  Categories = {"food", "home", "old"}
  ActiveCategories = {"food", "home"}
  Keyword <- MCKeyword
  Section <- MCSection
  Mentions <- MCMentions
  Supported <- MCSupported
  Corrected <- MCCorrected
  SavedRules <- MCSavedRules
  MaxLines = 2
  MaxIds = 3
  MaxRules = 1
  MaxEdits = 2
SPECIFICATION MCSpec
PROPERTIES SeenReplaced LinksStand ReviewStands
SYMMETRY MCSymmetry
CHECK_DEADLOCK FALSE
