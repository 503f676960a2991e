\* One transfer, no crashes or faults: a freeze reads the source, the
\* debit leg commits, and the freeze saves the balance it read.
CONSTANTS
    w1 = w1
    w2 = w2
    s1 = s1
    s2 = s2
    Wallets <- MCWallets
    Transfer <- MCTransfer
    InitBalance <- MCInitBalance
    Sagas <- MCOneSaga
    Recoverers = {r1}
    CrashPoints <- NoCrashes
    FaultPoints <- NoFaults
    MaxFaults = 0
    LegsOutliveThreshold = FALSE
    MaxAdmin = 1
    MaxCrashes = 0
SPECIFICATION Spec
PROPERTY RefinesTransferAbstract
