\* Three candidates; limits scaled so that three of them reach each.
\* The build ends: no deadlock check.
SPECIFICATION Spec
CONSTANTS
    MaxCandidates = 3
    Sectors = {unknown, energy}
    KellySizes <- TwoKellySizes
    Factors <- TwoFactors
    DefaultSize = 3
    TopCandidates = 3
    MaxPicks = 3
    MaxPosition = 5
    MaxGross = 9
    MaxNetLong = 10
    MaxNetShort = 6
    MaxSector = 5
    MaxWeight = 8
    Investable = 100
    Tolerance = 1
INVARIANTS TypeOK WithinLimits PortfolioLimits FullyInvested
SYMMETRY SectorSymmetry
CHECK_DEADLOCK FALSE
