SPECIFICATION Spec
CONSTANTS
    i1 = i1
    c1 = c1
    None = None
    Receipts <- MCReceipts
    Orders <- MCOrders
    StoreOrders <- MCStoreOrders
    Similar <- MCSimilar
    Identical <- MCIdentical
    MaxDecisions = 2

    
    
PROPERTIES
    HumanDecisionStands
    OperatorWorkStands
CHECK_DEADLOCK FALSE
