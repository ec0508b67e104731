\* Two rounds; the facility holds less than the credit lines promise, and most
\* ticks lie strictly between the prices the auction looks at.
CONSTANTS
    Agents <- TraderAgents
    Financing = "credit"
    StartCash <- TraderCash
    StartShares <- TraderShares
    CreditLimit <- TraderCredit
    FacilityCash = 4
    StartPrice = 2
    Limits = {1, 4}
    Quantities = {3}
    Rounds = 2
SPECIFICATION Spec
INVARIANTS
    Conserved
    OnlyFacilityFails
    FillsAreFair
    VolumeIsMaximal

