\* At most two trades, two phantoms and four reports; two processes or threads on the book and the errors.
CONSTANTS
    Prices = {99, 101, 102}
    Plans <- MCPlans
    Checkers = {worker}
    MaxTrades = 2
    MaxHold = 1
    Updaters = {main, job}
    Regimes = {bull}
    NoRegime = none
    MaxPhantoms = 2
    HoldDays = 1
    HealthDays = 2
    EvidenceDays = 3
    MinHealth = 2
    MinEvidence = 2
    Writers = {w1, w2}
    MaxReports = 4
SPECIFICATION Spec
SYMMETRY MCSymmetry
CHECK_DEADLOCK FALSE
INVARIANTS TypeOK ErrorsCounted TargetsTold TradesOnGains
PROPERTY OutcomesStand
