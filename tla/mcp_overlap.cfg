SPECIFICATION McpSpec
CONSTANTS
    Issuer = issuer
    agent = agent  mA = mA  mB = mB
    Agents = {agent}
    Merchants = {mA, mB}
    InitialMerchant = mA
    Nobody = nobody
    Payments = {p1}
    Invoices = {i1}
    Empty = Empty
    Deposits = {}
    Prices = {2}
    Limits = {}
    FlatFees = {}
    Rates = {}
    MaxSafe = 7
    MaxUint64 = 16
    MaxTime = 1
    MaxQuotes = 1
    MaxGenerations = 1
    Slots = {slot1, slot2}
    MerchantA = mA
    MerchantB = mB
    Agent = agent
    DemoReserve = 7
    DemoLimit = 4
    SmallPrice = 2
    LargePrice = 3
    Withdrawal = 3
    DemoFees = {1}
    DemoRates = {0, 1}
    SeedSteps = {5}
    Lag = 1
SYMMETRY Symmetry
CHECK_DEADLOCK FALSE
INVARIANTS
    CompensatedOnce
