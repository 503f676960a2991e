--------------------------- MODULE OutboxPipeline ---------------------------
(***************************************************************************)
(* The way from a committed outbox row to the fraud rules:                 *)
(*  - TransactionManager.execute commits the outbox rows and then, fire    *)
(*    and forget, publishes them (publishEventsAsync);                     *)
(*  - OutboxRelayService.handleCron, on every replica, fetches unpublished *)
(*    rows, publishes them one by one and marks the successes published;   *)
(*  - EventPublisher.publish routes a payload through the topic exchange   *)
(*    with routing key wallet.<event_type_lowercase>;                      *)
(*  - FraudDetectionConsumer, on every worker, takes one message at a time *)
(*    (prefetch 1), deduplicates it with SET processed_event:<key> NX,     *)
(*    runs the rapid-withdrawal and high-value rules, and on an error      *)
(*    republishes it to a TTL wait queue or dead-letters it.               *)
(*                                                                         *)
(* Messages are kept in bags: the broker delivers at least once and, with  *)
(* redeliveries and several workers, in any order.  Failures of Redis, of  *)
(* the broker and of the store, and crashes of relays and workers, are     *)
(* drawn from a shared budget of MaxFaults.                                *)
(***************************************************************************)
EXTENDS Naturals, Sequences, FiniteSets, Bags, BagsExt

CONSTANTS
    EventIds,       \* outbox rows the wallet service will commit (model values)
    Payload,        \* EventIds -> [w, type, amt, ts]: the row's payload
    Relays,         \* replicas running the outbox relay cron
    Consumers,      \* fraud consumer workers
    BatchSize,      \* findUnpublished(100)
    MaxAttempts,    \* FRAUD_CONSTANTS.RETRY.MAX_ATTEMPTS
    Threshold,      \* fraudDetectionThreshold
    MaxWithdrawals, \* fraudDetectionMaxWithdrawals
    Window,         \* fraudDetectionTimeWindowMinutes, in timestamp units
    FaultKinds,     \* the failures the environment may inject
    MaxFaults,      \* bound on injected failures and crashes
    TopologyAtStart \* subset of BOOLEAN: does the broker already hold the
                    \* fraud queue and its bindings when the service starts?

ASSUME BatchSize \in Nat \ {0} /\ MaxAttempts \in Nat /\ MaxFaults \in Nat
\* "broker": a publish fails; "store": a store write fails; "redis": a
\* Redis command fails; "crash": a relay replica or a worker dies.
ASSUME FaultKinds \subseteq {"broker", "store", "redis", "crash"}

VARIABLES
    outbox,      \* outbox_events rows, in commit order (created_at order)
    published,   \* rows with published = true
    postCommit,  \* rows whose post-commit publish has not run yet
    relay,       \* per replica: isProcessing / the fetched batch / publishedIds
    mainQ,       \* the fraud queue: bag of [ev, retry]
    waitQ,       \* the wait queues: bag of [ev, retry, q] (q indexes DELAYS)
    dlq,         \* the dead-letter queue: bag of [ev, retry]
    consumer,    \* per worker: the unacked message and where the handler is
    processed,   \* Redis processed_event:<key> keys
    zset,        \* Redis withdrawals:<walletId>: the timestamps recorded
    alerts,      \* fraud_alerts rows: bag of [ev, rule]
    accepted,    \* events the exchange has accepted at least once
    evaluated,   \* events whose fraud checks ran to the end
    faults,      \* failures and crashes injected so far
    bound        \* the fraud queue and its bindings exist on the broker

vars == <<outbox, published, postCommit, relay, mainQ, waitQ, dlq, consumer,
          processed, zset, alerts, accepted, evaluated, faults, bound>>

Wallets == {Payload[e].w : e \in EventIds}
Committed == {outbox[i] : i \in DOMAIN outbox}
Withdrawals == {e \in EventIds : Payload[e].type = "FUNDS_WITHDRAWN"}

-----------------------------------------------------------------------------
(* The broker topology                                                     *)

\* EventPublisher.publish: routing key wallet.<eventType.toLowerCase()>.
RoutingKey(type) ==
    CASE type = "FUNDS_WITHDRAWN"    -> "wallet.funds_withdrawn"
      [] type = "FUNDS_DEPOSITED"    -> "wallet.funds_deposited"
      [] type = "TRANSFER_COMPLETED" -> "wallet.transfer_completed"

\* setupTopology binds the fraud queue to the main exchange with exactly
\* the two routing keys of FRAUD_CONSTANTS.ROUTING_KEYS.
MainBindings == {"wallet.funds_withdrawn", "wallet.transfer_completed"}

\* handleProcessingError publishes a retry with sendToQueue, i.e. through
\* the default exchange with the wait queue's name as routing key; the
\* dead-lettering on TTL expiry keeps that routing key.
WaitQueueKey(q) == <<"fraud.wait", q>>

Routed(rk) == rk \in MainBindings

\* generateIdempotencyKey: SHA-256 of walletId, eventType, timestamp and
\* amount, taken here as injective on those fields.
Key(e) == <<Payload[e].w, Payload[e].type, Payload[e].ts, Payload[e].amt>>

\* Publishing a payload to the main exchange: a copy lands in the fraud
\* queue when the queue is bound under its routing key; the topic exchange
\* drops it otherwise (no mandatory flag, no alternate exchange).
Deliver(e, retry) ==
    IF bound /\ Routed(RoutingKey(Payload[e].type))
    THEN mainQ' = BagAdd(mainQ, [ev |-> e, retry |-> retry])
    ELSE UNCHANGED mainQ

Fault(kind) == kind \in FaultKinds /\ faults < MaxFaults /\ faults' = faults + 1

\* A worker with no message.
Idle == [pc |-> "idle", msg |-> <<>>]

\* A worker whose channel has not run its setup yet (onModuleInit starts
\* the connection without waiting for it).
Unset == [pc |-> "setup", msg |-> <<>>]

-----------------------------------------------------------------------------
Init ==
    /\ outbox = <<>>
    /\ published = {}
    /\ postCommit = {}
    /\ relay = [r \in Relays |-> [pc |-> "idle", batch |-> <<>>, sent |-> {}]]
    /\ mainQ = EmptyBag
    /\ waitQ = EmptyBag
    /\ dlq = EmptyBag
    /\ consumer = [c \in Consumers |-> Unset]
    /\ processed = {}
    /\ zset = [w \in Wallets |-> {}]
    /\ alerts = EmptyBag
    /\ accepted = {}
    /\ evaluated = {}
    /\ faults = 0
    /\ bound \in TopologyAtStart

-----------------------------------------------------------------------------
(* Producer: TransactionManager.execute                                    *)

\* A wallet transaction commits its outbox row and schedules the
\* fire-and-forget publish.  The row lock orders each wallet's events by
\* their timestamps.
Commit(e) ==
    /\ e \notin Committed
    /\ \A f \in EventIds \ Committed :
          Payload[f].w = Payload[e].w => Payload[e].ts <= Payload[f].ts
    /\ outbox' = Append(outbox, e)
    /\ postCommit' = postCommit \cup {e}
    /\ UNCHANGED <<published, relay, mainQ, waitQ, dlq, consumer, processed,
                   zset, alerts, accepted, evaluated, faults, bound>>

\* publishEventsAsync: one publish per event; a failure (or the process
\* dying first) is logged and swallowed, and the row stays unpublished.
PostCommitPublish(e) ==
    /\ e \in postCommit
    /\ postCommit' = postCommit \ {e}
    /\ \/ /\ Deliver(e, 0)
          /\ accepted' = accepted \cup {e}
          /\ UNCHANGED faults
       \/ /\ Fault("broker")
          /\ UNCHANGED <<mainQ, accepted>>
    /\ UNCHANGED <<outbox, published, relay, waitQ, dlq, consumer, processed,
                   zset, alerts, evaluated, bound>>

-----------------------------------------------------------------------------
(* OutboxRelayService.handleCron, per replica                              *)

\* findUnpublished(limit): the oldest unpublished rows, at most limit.
Unpublished == SelectSeq(outbox, LAMBDA e : e \notin published)

FindUnpublished(limit) ==
    IF Len(Unpublished) <= limit THEN Unpublished
    ELSE SubSeq(Unpublished, 1, limit)

\* Mutant: the early return for an empty batch leaves isProcessing set.
RelayTickFlagLeak(r) ==
    LET batch == FindUnpublished(BatchSize) IN
    /\ relay[r].pc = "idle"
    /\ IF batch = <<>>
       THEN relay' = [relay EXCEPT ![r].pc = "stuck"]
       ELSE relay' = [relay EXCEPT ![r] = [pc |-> "publishing", batch |-> batch,
                                           sent |-> {}]]
    /\ UNCHANGED <<outbox, published, postCommit, mainQ, waitQ, dlq, consumer,
                   processed, zset, alerts, accepted, evaluated, faults, bound>>

\* A cron tick that finds isProcessing false fetches a batch; with nothing
\* to publish it returns at once and the finally block clears the flag.
RelayTick(r) ==
    LET batch == FindUnpublished(BatchSize) IN
    /\ relay[r].pc = "idle"
    /\ IF batch = <<>>
       THEN UNCHANGED relay
       ELSE relay' = [relay EXCEPT ![r] = [pc |-> "publishing", batch |-> batch,
                                           sent |-> {}]]
    /\ UNCHANGED <<outbox, published, postCommit, mainQ, waitQ, dlq, consumer,
                   processed, zset, alerts, accepted, evaluated, faults, bound>>

\* The loop body: publish the next row; a success joins publishedIds, a
\* failure is logged and the loop goes on.
RelayPublish(r) ==
    LET e == Head(relay[r].batch) IN
    /\ relay[r].pc = "publishing"
    /\ relay[r].batch # <<>>
    /\ \/ /\ Deliver(e, 0)
          /\ accepted' = accepted \cup {e}
          /\ relay' = [relay EXCEPT ![r].batch = Tail(@), ![r].sent = @ \cup {e}]
          /\ UNCHANGED faults
       \/ /\ Fault("broker")
          /\ relay' = [relay EXCEPT ![r].batch = Tail(@)]
          /\ UNCHANGED <<mainQ, accepted>>
    /\ UNCHANGED <<outbox, published, postCommit, waitQ, dlq, consumer,
                   processed, zset, alerts, evaluated, bound>>

\* markAsPublished(publishedIds) in one UPDATE (an error is logged and the
\* rows stay unpublished), then the finally block clears isProcessing.
RelayMark(r) ==
    /\ relay[r].pc = "publishing"
    /\ relay[r].batch = <<>>
    /\ \/ /\ published' = published \cup relay[r].sent
          /\ UNCHANGED faults
       \/ /\ relay[r].sent # {}
          /\ Fault("store")
          /\ UNCHANGED published
    /\ relay' = [relay EXCEPT ![r] = [pc |-> "idle", batch |-> <<>>, sent |-> {}]]
    /\ UNCHANGED <<outbox, postCommit, mainQ, waitQ, dlq, consumer, processed,
                   zset, alerts, accepted, evaluated, bound>>

\* The replica dies mid-tick and restarts: the batch, publishedIds and the
\* in-memory isProcessing flag are gone; the rows stay as they are.
RelayCrash(r) ==
    /\ relay[r].pc = "publishing"
    /\ Fault("crash")
    /\ relay' = [relay EXCEPT ![r] = [pc |-> "idle", batch |-> <<>>, sent |-> {}]]
    /\ UNCHANGED <<outbox, published, postCommit, mainQ, waitQ, dlq, consumer,
                   processed, zset, alerts, accepted, evaluated, bound>>


-----------------------------------------------------------------------------
(* FraudDetectionConsumer, per worker (prefetch 1)                          *)

\* The channel's setup callback, setupTopology: DLX, DLQ, main exchange,
\* the fraud queue, the wait queues, the two bindings, prefetch 1, consume.
\* Every declaration is idempotent; from here on the worker consumes.
ConsumerSetup(c) ==
    /\ consumer[c].pc = "setup"
    /\ bound' = TRUE
    /\ consumer' = [consumer EXCEPT ![c] = Idle]
    /\ UNCHANGED <<outbox, published, postCommit, relay, mainQ, waitQ, dlq,
                   processed, zset, alerts, accepted, evaluated, faults>>

\* The channel hands the worker one message of the fraud queue.
Receive(c) ==
    /\ consumer[c].pc = "idle"
    /\ \E m \in BagToSet(mainQ) :
          /\ mainQ' = BagRemove(mainQ, m)
          /\ consumer' = [consumer EXCEPT ![c] = [pc |-> "dedup", msg |-> m]]
    /\ UNCHANGED <<outbox, published, postCommit, relay, waitQ, dlq, processed,
                   zset, alerts, accepted, evaluated, faults, bound>>

\* Mutant: a GET decides whether the event is new and nothing records it.
DedupCheckOnly(c) ==
    LET e == consumer[c].msg.ev IN
    /\ consumer[c].pc = "dedup"
    /\ \/ /\ Key(e) \in processed
          /\ consumer' = [consumer EXCEPT ![c] = Idle]
       \/ /\ Key(e) \notin processed
          /\ consumer' = [consumer EXCEPT ![c].pc = "zadd"]
    /\ UNCHANGED <<outbox, published, postCommit, relay, mainQ, waitQ, dlq,
                   processed, zset, alerts, accepted, evaluated, faults, bound>>

\* Mutant: the duplicate branch returns without channel.ack(msg); with
\* prefetch 1 the worker never gets another message.
DedupNoAckOnDuplicate(c) ==
    LET e == consumer[c].msg.ev IN
    /\ consumer[c].pc = "dedup"
    /\ \/ /\ Key(e) \in processed
          /\ consumer' = [consumer EXCEPT ![c].pc = "unacked"]
          /\ UNCHANGED <<processed, evaluated, faults>>
       \/ /\ Key(e) \notin processed
          /\ processed' = processed \cup {Key(e)}
          /\ consumer' = [consumer EXCEPT ![c].pc = "zadd"]
          /\ UNCHANGED <<evaluated, faults>>
    /\ UNCHANGED <<outbox, published, postCommit, relay, mainQ, waitQ, dlq,
                   zset, alerts, accepted, bound>>

\* acquireLock: SET processed_event:<key> 'true' EX 86400 NX.  A key that
\* exists means a copy was seen before: ack and return.  A new key leads to
\* processFraudChecks, which only looks at FUNDS_WITHDRAWN events.
Dedup(c) ==
    LET e == consumer[c].msg.ev IN
    /\ consumer[c].pc = "dedup"
    /\ \/ /\ Key(e) \in processed
          /\ consumer' = [consumer EXCEPT ![c] = Idle]
          /\ UNCHANGED <<processed, evaluated, faults>>
       \/ /\ Key(e) \notin processed
          /\ processed' = processed \cup {Key(e)}
          /\ IF e \in Withdrawals
             THEN /\ consumer' = [consumer EXCEPT ![c].pc = "zadd"]
                  /\ UNCHANGED evaluated
             ELSE /\ consumer' = [consumer EXCEPT ![c] = Idle]
                  /\ evaluated' = evaluated \cup {e}
          /\ UNCHANGED faults
       \/ /\ Fault("redis")
          /\ consumer' = [consumer EXCEPT ![c].pc = "error"]
          /\ UNCHANGED <<processed, evaluated>>
    /\ UNCHANGED <<outbox, published, postCommit, relay, mainQ, waitQ, dlq,
                   zset, alerts, accepted, bound>>

\* detectRapidWithdrawals, first call: ZADD withdrawals:<w> ts ts.  The
\* member is the timestamp itself.
RapidRecord(c) ==
    LET e == consumer[c].msg.ev IN
    /\ consumer[c].pc = "zadd"
    /\ \/ /\ zset' = [zset EXCEPT ![Payload[e].w] = @ \cup {Payload[e].ts}]
          /\ consumer' = [consumer EXCEPT ![c].pc = "count"]
          /\ UNCHANGED faults
       \/ /\ Fault("redis")
          /\ consumer' = [consumer EXCEPT ![c].pc = "error"]
          /\ UNCHANGED zset
    /\ UNCHANGED <<outbox, published, postCommit, relay, mainQ, waitQ, dlq,
                   processed, alerts, accepted, evaluated, bound>>

\* ZREMRANGEBYSCORE -inf (ts - window), EXPIRE, ZCARD; more than
\* maxWithdrawals members left raises a RAPID_WITHDRAWALS alert.
RapidCount(c) ==
    LET e    == consumer[c].msg.ev
        w    == Payload[e].w
        kept == {t \in zset[w] : t > Payload[e].ts - Window}
    IN
    /\ consumer[c].pc = "count"
    /\ \/ /\ zset' = [zset EXCEPT ![w] = kept]
          /\ consumer' = [consumer EXCEPT ![c].pc =
                            IF Cardinality(kept) > MaxWithdrawals
                            THEN "saveRapid" ELSE "highValue"]
          /\ UNCHANGED faults
       \/ /\ Fault("redis")
          /\ consumer' = [consumer EXCEPT ![c].pc = "error"]
          /\ UNCHANGED zset
    /\ UNCHANGED <<outbox, published, postCommit, relay, mainQ, waitQ, dlq,
                   processed, alerts, accepted, evaluated, bound>>

\* saveFraudAlert: a store error is logged and swallowed.
SaveAlert(e, rule) ==
    \/ /\ alerts' = BagAdd(alerts, [ev |-> e, rule |-> rule])
       /\ UNCHANGED faults
    \/ /\ Fault("store")
       /\ UNCHANGED alerts

SaveRapidAlert(c) ==
    /\ consumer[c].pc = "saveRapid"
    /\ SaveAlert(consumer[c].msg.ev, "RAPID_WITHDRAWALS")
    /\ consumer' = [consumer EXCEPT ![c].pc = "highValue"]
    /\ UNCHANGED <<outbox, published, postCommit, relay, mainQ, waitQ, dlq,
                   processed, zset, accepted, evaluated, bound>>

\* detectHighValueTransaction (amount > threshold saves an alert), then
\* processFraudChecks returns and the message is acked.
HighValue(c) ==
    LET e == consumer[c].msg.ev IN
    /\ consumer[c].pc = "highValue"
    /\ IF Payload[e].amt > Threshold
       THEN SaveAlert(e, "HIGH_VALUE_TRANSACTION")
       ELSE UNCHANGED <<alerts, faults>>
    /\ consumer' = [consumer EXCEPT ![c] = Idle]
    /\ evaluated' = evaluated \cup {e}
    /\ UNCHANGED <<outbox, published, postCommit, relay, mainQ, waitQ, dlq,
                   processed, zset, accepted, bound>>

\* handleProcessingError: below MaxAttempts the payload goes to the wait
\* queue DELAYS[retryCount] with x-retry-count + 1 and the original is
\* acked; otherwise it is nacked without requeue, to the DLQ.
HandleError(c) ==
    LET m == consumer[c].msg IN
    /\ consumer[c].pc = "error"
    /\ IF m.retry < MaxAttempts
       THEN /\ waitQ' = BagAdd(waitQ, [ev |-> m.ev, retry |-> m.retry + 1,
                                       q |-> m.retry])
            /\ UNCHANGED dlq
       ELSE /\ dlq' = BagAdd(dlq, m)
            /\ UNCHANGED waitQ
    /\ consumer' = [consumer EXCEPT ![c] = Idle]
    /\ UNCHANGED <<outbox, published, postCommit, relay, mainQ, processed,
                   zset, alerts, accepted, evaluated, faults, bound>>

\* The worker dies holding an unacked message: the broker requeues it, and
\* the restarted worker runs its channel setup again.
ConsumerCrash(c) ==
    /\ consumer[c].pc \notin {"idle", "setup"}
    /\ Fault("crash")
    /\ mainQ' = BagAdd(mainQ, consumer[c].msg)
    /\ consumer' = [consumer EXCEPT ![c] = Unset]
    /\ UNCHANGED <<outbox, published, postCommit, relay, waitQ, dlq, processed,
                   zset, alerts, accepted, evaluated, bound>>

\* A wait queue's TTL expires: the message is dead-lettered to the main
\* exchange under the routing key it was published with.
WaitExpire ==
    /\ \E m \in BagToSet(waitQ) :
          /\ waitQ' = BagRemove(waitQ, m)
          /\ IF Routed(WaitQueueKey(m.q))
             THEN mainQ' = BagAdd(mainQ, [ev |-> m.ev, retry |-> m.retry])
             ELSE UNCHANGED mainQ
    /\ UNCHANGED <<outbox, published, postCommit, relay, dlq, consumer,
                   processed, zset, alerts, accepted, evaluated, faults, bound>>

-----------------------------------------------------------------------------
Next ==
    \/ \E e \in EventIds : Commit(e) \/ PostCommitPublish(e)
    \/ \E r \in Relays :
          RelayTick(r) \/ RelayPublish(r) \/ RelayMark(r) \/ RelayCrash(r)
    \/ \E c \in Consumers :
          \/ ConsumerSetup(c) \/ Receive(c) \/ Dedup(c) \/ RapidRecord(c) \/ RapidCount(c)
          \/ SaveRapidAlert(c) \/ HighValue(c) \/ HandleError(c)
          \/ ConsumerCrash(c)
    \/ WaitExpire

\* The crons fire every few seconds, the broker delivers and expires
\* messages, a worker's channel setup runs once amqp-connection-manager
\* (which reconnects without end) reaches the broker, and a worker with a
\* message keeps running its handler: weak fairness on each of those
\* steps.  Commits are the clients' choice.
Fairness ==
    /\ \A e \in EventIds : WF_vars(PostCommitPublish(e))
    /\ \A r \in Relays :
          WF_vars(RelayTick(r)) /\ WF_vars(RelayPublish(r)) /\ WF_vars(RelayMark(r))
    /\ \A c \in Consumers :
          /\ WF_vars(ConsumerSetup(c)) /\ WF_vars(Receive(c)) /\ WF_vars(Dedup(c))
          /\ WF_vars(RapidRecord(c)) /\ WF_vars(RapidCount(c)) /\ WF_vars(SaveRapidAlert(c))
          /\ WF_vars(HighValue(c)) /\ WF_vars(HandleError(c))
    /\ WF_vars(WaitExpire)

Spec == Init /\ [][Next]_vars /\ Fairness

-----------------------------------------------------------------------------
(* Properties                                                              *)

Msgs == [ev : EventIds, retry : 0..MaxAttempts]
Rules == {"RAPID_WITHDRAWALS", "HIGH_VALUE_TRANSACTION"}
ConsumerPcs == {"idle", "dedup", "zadd", "count", "saveRapid", "highValue",
                "error"}

TypeOK ==
    /\ outbox \in Seq(EventIds)
    /\ published \subseteq Committed
    /\ postCommit \subseteq Committed
    /\ \A r \in Relays :
          /\ relay[r].pc \in {"idle", "publishing"}
          /\ relay[r].batch \in Seq(EventIds)
          /\ relay[r].sent \subseteq Committed
    /\ IsABag(mainQ) /\ BagToSet(mainQ) \subseteq Msgs
    /\ IsABag(waitQ)
    /\ BagToSet(waitQ) \subseteq [ev : EventIds, retry : 1..MaxAttempts,
                                  q : 0..MaxAttempts - 1]
    /\ IsABag(dlq) /\ BagToSet(dlq) \subseteq Msgs
    /\ \A c \in Consumers :
          \/ consumer[c] \in {Idle, Unset}
          \/ consumer[c].pc \in ConsumerPcs \ {"idle"} /\ consumer[c].msg \in Msgs
    /\ processed \subseteq {Key(e) : e \in Committed}
    /\ IsABag(alerts) /\ BagToSet(alerts) \subseteq [ev : EventIds, rule : Rules]
    /\ accepted \subseteq Committed
    /\ evaluated \subseteq Committed
    /\ faults \in 0..MaxFaults
    /\ bound \in BOOLEAN

\* The fraud consumer is idempotent (spec: publishing the same event
\* payload N times produces at most one alert per rule): although every
\* event is published by publishEventsAsync and again by the relay, and
\* redelivered after crashes and retries, no rule raises two alerts for
\* one event.
AtMostOneAlertPerRule ==
    \A e \in EventIds, rule \in Rules :
        CopiesIn([ev |-> e, rule |-> rule], alerts) <= 1

\* The outbox guarantee: every committed row is eventually accepted by the
\* exchange, whichever of the post-commit publish and the relay replicas
\* fail or crash.
EveryEventReachesBroker ==
    \A e \in EventIds : e \in Committed ~> e \in accepted

\* Every message the fraud queue or a wait queue receives is eventually
\* settled (acked, nacked or dropped): no worker stays blocked on a message.
QueuesDrain ==
    <>[](/\ mainQ = EmptyBag /\ waitQ = EmptyBag
         /\ \A c \in Consumers : consumer[c] = Idle)

\* The at-least-once consumer never loses a withdrawal: a committed
\* FUNDS_WITHDRAWN event has had its fraud checks run, or a copy of it is
\* still on its way (not yet relayed, queued, being handled, or in the DLQ
\* for an operator).
InFlight(e) ==
    \/ e \in postCommit
    \/ e \notin published
    \/ \E m \in BagToSet(mainQ) \cup BagToSet(waitQ) \cup BagToSet(dlq) : m.ev = e
    \/ \E c \in Consumers : consumer[c].msg # <<>> /\ consumer[c].msg.ev = e

WithdrawalNeverDropped ==
    \A e \in Withdrawals \cap Committed : e \in evaluated \/ InFlight(e)

\* A withdrawal above the threshold whose checks ran has its
\* HIGH_VALUE_TRANSACTION alert (spec scenario 6).
HighValueAlerted ==
    \A e \in evaluated :
        e \in Withdrawals /\ Payload[e].amt > Threshold =>
            CopiesIn([ev |-> e, rule |-> "HIGH_VALUE_TRANSACTION"], alerts) = 1

=============================================================================
