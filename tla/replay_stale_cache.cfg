CONSTANTS
    Procs = {p1}
    Wallets = {w1}
    RequestIds = {r1}
    NoRid = NoRid
    Null = Null
    Amounts <- MCAmounts
    LimitChoices <- MCLimits
    Ops <- MoneyPath
    MaxRequests <- MCMaxRequests
    MaxDay <- MCMaxDay
    Cent = 1
SPECIFICATION Spec
INVARIANT QuiescentCacheFresh
