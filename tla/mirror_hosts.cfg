SPECIFICATION HostSpec
CONSTANTS
    Issuer = issuer
    agent = agent  mA = mA  mB = mB
    Agents = {agent}
    Merchants = {mA, mB}
    InitialMerchant = mA
    Nobody = nobody
    Payments = {p1}
    Invoices = {i1}
    Empty = Empty
    Deposits = {4, 5}
    Prices = {2}
    Limits = {3}
    FlatFees = {1}
    Rates = {0}
    MaxSafe = 7
    MaxUint64 = 16
    MaxTime = 1
    MaxQuotes = 1
    MaxGenerations = 2
    Slots = {slot1}
    MerchantA = mA
    MerchantB = mB
    Agent = agent
    DemoReserve = 7
    DemoLimit = 4
    SmallPrice = 2
    LargePrice = 3
    Withdrawal = 3
    DemoFees = {0}
    DemoRates = {1}
    SeedSteps = {5, 18}
    Lag = 1
CHECK_DEADLOCK FALSE
INVARIANTS
    RecordsOpenLedger
PROPERTIES
    MirrorFollowsContract
