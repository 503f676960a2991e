\* Two opposite transfers and one recovery replica; requests and the
\* replica crash in every window recovery is meant to cover, one Redis or
\* broker call the catch blocks handle throws; an admin client freezes,
\* unfreezes and closes wallets from rows read while the legs run.
CONSTANTS
    w1 = w1
    w2 = w2
    s1 = s1
    s2 = s2
    Wallets <- MCWallets
    Sagas <- MCSagas
    Transfer <- MCTransfer
    InitBalance <- MCInitBalance
    Recoverers = {r1}
    CrashPoints <- RecoverableCrashes
    FaultPoints <- HandledFaults
    MaxFaults = 1
    LegsOutliveThreshold = FALSE
    MaxAdmin = 3
    MaxCrashes = 2
SPECIFICATION Spec
INVARIANT TypeOK
INVARIANT EachTransferAppliedOnce
PROPERTY DebitedSagaResolvedOnceUsable
