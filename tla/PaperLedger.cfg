SPECIFICATION Spec
CONSTANTS
    planA = planA  planB = planB  symbolA = symbolA  b1 = b1  b2 = b2  s1 = s1  s2 = s2
    Signals = {b1, b2, s1, s2}
    Sessions = {z1}
    Scopes = {{planA, planB}}
    Plans = {planA, planB}
    Symbols = {symbolA}
    SymbolOf <- MCSymbolOf
    PlanOf <- MCPlanOf
    SideOf <- MCSideOf
    QtyOf <- MCQtyOf
    CapOf <- MCCapOf
    Limits = {b2, s2}
    Lot = 2
    Capital = 13
    MinimumCommission = 1
    CommissionRate = 500
    StampRate = 250
    TransferRate = 125
    Shanghai = {symbolA}
    Participation = 50
    Shapes <- MCShapes
    Close = 2
    MaxDay = 2
    None = None
CONSTRAINT SessionOrSecondSale
INVARIANTS TypeOK Covered SellsBacked TPlusOne CostsForeseen AnswersFinal PeakCoversBasis
CHECK_DEADLOCK FALSE
