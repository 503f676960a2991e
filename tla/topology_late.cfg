\* A fresh broker, no failure of any kind: a withdrawal committed before
\* the first worker's setupTopology has bound the fraud queue is accepted by
\* the exchange, dropped, marked published by the relay, and never checked.
CONSTANTS
    e1 = e1
    e2 = e2
    e3 = e3
    EventIds <- MCTwoWithdrawals
    Payload <- MCPayload
    Relays = {r1}
    Consumers = {c1}
    BatchSize = 1
    MaxAttempts = 3
    Threshold = 10
    MaxWithdrawals = 1
    Window = 5
    FaultKinds <- NoFaults
    MaxFaults = 0
    TopologyAtStart <- StartUnbound
SPECIFICATION Spec
INVARIANT WithdrawalNeverDropped
