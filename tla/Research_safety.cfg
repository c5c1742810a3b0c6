SPECIFICATION ResearchSpec
CONSTANTS
    Securities = {1, 2, 3}
    Profiles = {1, 2, 3, 4, 5, 6, 7, 8, 9, 10, 11}
    Figures <- Chosen
    TopN = {2}
    MinCap = 2
    NoValue = NoValue
    Tickers = {a, b, c}
    PortfolioSize = 2
    InitialCapital = 16384
    Prices = {1, 2}
    TradingDays = {1, 2, 3, 5, 6}
    RawReviews = {2, 4, 6, 7}
    LoserAge = 2
    WinnerAge = 3
    Threads = {t1, t2, t3}
    MaxCalls = 2
    Window = 3
    LongestNap = 2
    MaxAttempts = 2
    LimiterEnd = 6
    FetchJobs = {j1, j2}
    FetchTickers = {1, 2}
    Ttl = 0
    FetchEnd = 1
    Attempts = {a1, a2}
    DefaultProvider = "yahoo"
    DefaultFallback = "alpha_vantage"
    NoProvider = NoProvider
INVARIANTS ResearchTypeOK WindowBounded SnapshotsAccounted BooksBalance RankedOnMerit RunIsOneAttempts
SYMMETRY ResearchSymmetry
CHECK_DEADLOCK FALSE
