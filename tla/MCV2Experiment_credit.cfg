\* The facility starts with the sum of the credit lines, as _make_initial_condition sets it.
CONSTANTS
    Agents <- MCAgents
    Financing = "credit"
    StartCash <- MCCash
    StartShares <- MCShares
    CreditLimit <- MCCredit
    FacilityCash <- MCFacility
    StartPrice = 2
    Limits = {1, 2, 3, 4}
    Quantities = {1, 2, 3, 4, 5, 6, 7, 8, 9}
    Rounds = 2
    StartBasis <- MCBasis
    MaxOffset = 4000
SPECIFICATION CellSpec
INVARIANTS
    SettlementNeverFails
    RecordsFollowAccounts
PROPERTY ImplementsMarket
