\* One client, amounts of half a cent and one cent: the entity does the
\* arithmetic on JS numbers and the DECIMAL(20,2) columns round on save.
CONSTANTS
    Procs = {p1}
    Wallets = {w1}
    RequestIds = {r1}
    NoRid = NoRid
    Null = Null
    Amounts <- MCSubCentAmounts
    LimitChoices <- MCNoLimit
    Ops <- MoneyPath
    MaxRequests <- MCMaxRequests
    MaxDay <- MCMaxDay
    Cent <- MCSubCent
SPECIFICATION Spec
INVARIANT BalanceMatchesJournal
