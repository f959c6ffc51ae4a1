\* Two threads; calls are tried twice; a pause longer than a call.
SPECIFICATION Spec
CONSTANTS
    Threads = {t1, t2}
    Sources = {"fmp", "finnhub", "yfinance"}
    MaxRetries = 2
    Burst = 2
    Cooldown = 3
    Debt = 1
INVARIANTS
    TypeOK
    RateKept
    PauseBoundsRequests
PROPERTIES
    SomeoneIsServed
