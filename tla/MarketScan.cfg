\* Five tickers, four markets, three lists of picks; the lists of the code are scaled down.
CONSTANTS
    t1 = t1
    t2 = t2
    t3 = t3
    t4 = t4
    t5 = t5
    Universe <- MCUniverse
    Settings <- MCSettings
    Indicators = {"yield_curve", "oil", "vix_term", "credit_spread", "breadth"}
    ZScores <- MCZScores
    MaxUnpriced = 1
    RotateTop = 3
    DarkPoolTop = 4
    FlowTop = 4
    DarkPoolScores = {20, 50, 90}
    Picks <- MCPicks
    MinPicks = 2
    ScanTop = 2
    Surprises <- MCSurprises
    Gaps <- MCGaps
    Backgrounds = {10, 40}
    Revisions <- MCRevisions
    InsiderScores = {20, 30}
    Moods = {10, 50, 90}
    Industries <- MCIndustries
    MaxPairs = 2
    Histories = {100, 300}
    HalfLives = {1, 10}
    SweepFeeds <- MCSweepFeeds
    CachedNews <- MCCachedNews
    MaxFromNews = 1
SPECIFICATION MarketSpec
CHECK_DEADLOCK FALSE
INVARIANTS ExposureBounded PlansStand
