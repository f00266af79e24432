SPECIFICATION profileSpec
CONSTANTS
    Issuer = issuer
    a1 = a1  a2 = a2  m1 = m1  m2 = m2
    Agents = {a1, a2}
    Merchants = {m1, m2}
    InitialMerchant = m1
    Payments = {p1, p2}
    Invoices = {i1}
    Empty = Empty
    Deposits = {4}
    Prices = {1}
    Limits = {4}
    FlatFees = {1}
    Rates = {0}
    MaxUint64 = 5
    MaxTime = 1
    MaxQuotes = 2
    MaxGenerations = 1
    Recipients = {r1, r2}
    Borrowers = {a1, a2}
    Suppliers = {m1}
    MaxBooks = 5
    MaxEnrollments = 2
    MaxReopened = 2
SYMMETRY Symmetry
INVARIANTS CustodyBacksClaims MerchantsPaid OrgClaimsNeverStuck OneBookCarriesTheDebt
PROPERTIES ImplementsCustodyEscrow ImplementsPrivateEscrow
CHECK_DEADLOCK FALSE
