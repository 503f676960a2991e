-------------------------- MODULE MC_TransferSaga --------------------------
(* Two wallets and two opposite transfers between them for TransferSaga.  *)
EXTENDS TransferSaga, TLC

CONSTANTS w1, w2, s1, s2

MCWallets == {w1, w2}
MCSagas == {s1, s2}
\* w2 starts empty: s2 succeeds only after s1 has credited it, and either
\* wallet can be closed (balance 0) while a saga on it is in flight.
MCTransfer ==
    s1 :> [from |-> w1, to |-> w2, amt |-> 1]
 @@ s2 :> [from |-> w2, to |-> w1, amt |-> 1]
MCInitBalance == w1 :> 1 @@ w2 :> 0
MCOneSaga == {s1}

\* Crash windows that recovery is meant to cover, for the request and for
\* a recovery replica: before the saga row is inserted, between two sagas
\* of a tick, before the credit leg and before compensation.
RecoverableCrashes == {"start", "next", "credit", "compensate"}
\* The request or a replica dies after the credit leg committed, before
\* the COMPLETED save.
CrashAfterCredit == {"complete"}
\* The request dies with the saga still PENDING.
CrashBeforeDebit == {"initiate", "debit"}
NoCrashes == {}

\* Throwing Redis and broker calls the catch blocks handle: the cache DEL
\* after the debit (compensated), the TRANSFER_COMPLETED publish (the
\* money has moved).
HandledFaults == {"delAfterDebit", "publishCompleted"}
\* The cache DEL after a committed credit leg throws.
DelAfterCreditFault == {"delAfterCredit"}
\* The TRANSFER_COMPLETED publish throws.
PublishCompletedFault == {"publishCompleted"}
\* The TRANSFER_INITIATED publish throws.
PublishInitiatedFault == {"publishInitiated"}
NoFaults == {}
=============================================================================
