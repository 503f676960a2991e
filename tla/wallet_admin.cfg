\* Every handler, two handlers racing, on one wallet.
CONSTANTS
    Procs = {p1, p2}
    Wallets = {w1}
    RequestIds = {r1}
    NoRid = NoRid
    Null = Null
    Amounts <- MCAmounts
    LimitChoices <- MCLimits
    Ops <- AllHandlers
    MaxRequests <- MCMaxRequests
    MaxDay <- MCMaxDay
    Cent = 1
SYMMETRY ProcSymmetry
SPECIFICATION Spec
INVARIANT TypeOK
INVARIANT OutboxMirrorsJournal
