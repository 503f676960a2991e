\* No failure of any kind; two equal withdrawals in the same millisecond.
\* generateIdempotencyKey hashes walletId, eventType, timestamp and amount
\* only, so the second withdrawal is taken for a copy of the first.
CONSTANTS
    e1 = e1
    e2 = e2
    e3 = e3
    EventIds <- MCTwoWithdrawals
    Payload <- MCSameInstant
    Relays = {r1}
    Consumers = {c1}
    BatchSize = 1
    MaxAttempts = 3
    Threshold = 10
    MaxWithdrawals = 1
    Window = 5
    FaultKinds <- NoFaults
    MaxFaults = 0
    TopologyAtStart <- StartBound
SPECIFICATION Spec
INVARIANT WithdrawalNeverDropped
