SPECIFICATION Spec
CONSTANTS
    i1 = i1
    c1 = c1
    None = None
    Receipts <- MCReceipts
    Orders <- MCOrders
    StoreOrders <- MCStoreOrders
    Similar <- MCSimilar
    Identical <- MCIdentical
    MaxDecisions = 2
PROPERTY RefreshBooksNothing
CHECK_DEADLOCK FALSE
