\* One relay replica, two fraud workers, every kind of failure (two).
CONSTANTS
    e1 = e1
    e2 = e2
    e3 = e3
    EventIds <- MCTwoWithdrawals
    Payload <- MCPayload
    Relays = {r1}
    Consumers = {c1, c2}
    BatchSize = 1
    MaxAttempts = 3
    Threshold = 10
    MaxWithdrawals = 1
    Window = 5
    FaultKinds <- AllFaults
    MaxFaults = 2
    TopologyAtStart <- StartFresh
SPECIFICATION Spec
INVARIANT TypeOK
INVARIANT AtMostOneAlertPerRule
