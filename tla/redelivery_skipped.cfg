CONSTANTS
    e1 = e1
    e2 = e2
    e3 = e3
    EventIds <- MCTwoWithdrawals
    Payload <- MCPayload
    Relays = {r1}
    Consumers = {c1}
    BatchSize = 1
    MaxAttempts = 3
    Threshold = 10
    MaxWithdrawals = 1
    Window = 5
    FaultKinds <- CrashFaults
    MaxFaults = 1
    TopologyAtStart <- StartBound
SPECIFICATION Spec
INVARIANT WithdrawalNeverDropped
