\* Concurrent deposits and withdrawals (with and without request ids) on
\* one wallet across a date change.
CONSTANTS
    Procs = {p1, p2}
    Wallets = {w1}
    RequestIds = {r1}
    NoRid = NoRid
    Null = Null
    Amounts <- MCAmounts
    LimitChoices <- MCLimits
    Ops <- MoneyPath
    MaxRequests <- MCMaxRequests
    MaxDay <- MCMaxDay
    Cent = 1
SYMMETRY ProcSymmetry
SPECIFICATION Spec
INVARIANT BalanceMatchesJournal
INVARIANT DailyTotalMatchesJournal
PROPERTY RefinesAbstract
