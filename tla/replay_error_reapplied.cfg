\* One client, no concurrency and no lock expiry: a withdrawal sent with a
\* request id is refused, the client deposits, and the retry with the same
\* request id is applied.
CONSTANTS
    Procs = {p1}
    Wallets = {w1}
    RequestIds = {r1}
    NoRid = NoRid
    Null = Null
    Amounts <- MCAmounts
    LimitChoices <- MCLimits
    Ops <- MoneyPath
    MaxRequests <- MCMaxRequests
    MaxDay <- MCMaxDay
    Cent = 1
    Requests <- RetriedWithdrawals
SPECIFICATION Spec
INVARIANT ReplayAnswersAlike
