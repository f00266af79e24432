SPECIFICATION Spec
CONSTANTS
    Issuer = issuer
    a1 = a1  a2 = a2  m1 = m1  m2 = m2
    Agents = {a1, a2}
    Merchants = {m1, m2}
    InitialMerchant = m1
    Payments = {p1, p2}
    Invoices = {i1}
    Empty = Empty
    Deposits = {4}
    Prices = {2}
    Limits = {4}
    FlatFees = {0}
    Rates = {0, 2500}
    MaxUint64 = 4
    MaxTime = 1
    MaxQuotes = 2
    MaxGenerations = 2
SYMMETRY Symmetry
INVARIANTS TypeOK ReserveSolvent ReserveAccounting BorrowerConservation DebtBackedByClaims ClaimsNeverStuck QuoteDrawnOnce PaymentUsedOnce FeeAsQuoted
PROPERTIES ImplementsEscrow ClaimSurvives NoDebtForgiven
CHECK_DEADLOCK FALSE
