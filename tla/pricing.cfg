CONSTANTS
    wA = wA
    wB = wB
    mu = mu
    private = private
    alice = alice
    Alice = Alice
    None = None
    Workers = {wA, wB}
    Tiers = {mu, private}
    Rates <- MCRates
    DefaultRates <- MCDefaultRates
    Users = {alice}
    Names = {alice, Alice}
    UserOf <- MCUserOf
    Natural <- MCNatural
    Jobs <- MCJobs
    Taxes <- MCTaxes
    MaxRequests = 4
SYMMETRY Symmetry
SPECIFICATION Spec
INVARIANTS
    TypeOK
    SettingsAreAsSaved
    PricedAtRatesInForce
    BooksMatchReceipt
CHECK_DEADLOCK FALSE
