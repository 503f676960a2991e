\* Two relay replicas, one fraud worker, one failure of any kind.
CONSTANTS
    e1 = e1
    e2 = e2
    e3 = e3
    EventIds <- MCTwoWithdrawals
    Payload <- MCPayload
    Relays = {r1, r2}
    Consumers = {c1}
    BatchSize = 1
    MaxAttempts = 3
    Threshold = 10
    MaxWithdrawals = 1
    Window = 5
    FaultKinds <- AllFaults
    MaxFaults = 1
    TopologyAtStart <- StartFresh
SPECIFICATION Spec
PROPERTY EveryEventReachesBroker
PROPERTY QueuesDrain
