------------------------- MODULE MC_OutboxPipeline -------------------------
(* Model values and small payloads for OutboxPipeline.                     *)
EXTENDS OutboxPipeline, TLC

CONSTANTS e1, e2, e3

\* Two withdrawals of one wallet, one above the threshold, and a deposit
\* (published but not bound to the fraud queue).
MCPayload ==
    e1 :> [w |-> "w1", type |-> "FUNDS_WITHDRAWN", amt |-> 20, ts |-> 1]
 @@ e2 :> [w |-> "w1", type |-> "FUNDS_WITHDRAWN", amt |-> 5, ts |-> 2]
 @@ e3 :> [w |-> "w1", type |-> "FUNDS_DEPOSITED", amt |-> 5, ts |-> 3]

\* Two withdrawals of the same amount from one wallet committed within
\* the same millisecond: their payloads carry the same timestamp.
MCSameInstant ==
    e1 :> [w |-> "w1", type |-> "FUNDS_WITHDRAWN", amt |-> 20, ts |-> 1]
 @@ e2 :> [w |-> "w1", type |-> "FUNDS_WITHDRAWN", amt |-> 20, ts |-> 1]
 @@ e3 :> [w |-> "w1", type |-> "FUNDS_DEPOSITED", amt |-> 5, ts |-> 3]

MCEvents == {e1, e2, e3}
MCTwoWithdrawals == {e1, e2}
AllFaults == {"broker", "store", "redis", "crash"}
RedisFaults == {"redis"}
CrashFaults == {"crash"}
StoreFaults == {"store"}

\* The broker may be fresh (no fraud queue yet) or may keep the durable
\* queue and bindings of an earlier run.
StartFresh == {FALSE, TRUE}
\* The queue and bindings already exist.
StartBound == {TRUE}
\* A fresh broker, and no failures at all.
StartUnbound == {FALSE}
NoFaults == {}
=============================================================================
