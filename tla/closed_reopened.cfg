CONSTANTS
    Procs = {p1, p2}
    Wallets = {w1}
    RequestIds = {r1}
    NoRid = NoRid
    Null = Null
    Amounts = {1}
    LimitChoices <- MCLimits
    Ops <- CloseRace
    MaxRequests <- MCMaxRequestsLong
    MaxDay <- MCMaxDay
    Cent = 1
SPECIFICATION Spec
PROPERTY ClosedIsPermanent
