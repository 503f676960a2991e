---------------------------- MODULE TransferSaga ----------------------------
(***************************************************************************)
(* The transfer saga: a transfer between two wallets is a PENDING saga row *)
(* and separate transactions (debit leg, credit leg), then a COMPLETED     *)
(* save; a failure after the debit is caught and compensated, and a       *)
(* recovery cron resumes sagas left DEBITED.                              *)
(*                                                                         *)
(* The saga row's state machine is transfer-saga.entity.ts; the service  *)
(* that runs the legs, TransferSagaService, is the second part of         *)
(* transfer-saga.entity.spec.ts; the recovery loop is SagaRecoveryService *)
(* (fraud-detection.constants.ts).                                         *)
(*                                                                         *)
(* Each leg is one transaction under the wallet's row lock, so it is one   *)
(* atomic step; every other await (saga reload, saga save, Redis DEL,     *)
(* broker publish) is a step boundary. The request may die before any    *)
(* step in CrashPoints; the Redis or broker call that ends a step may     *)
(* throw (FaultPoints). Time is abstracted to a per-saga flag "stale":    *)
(* updatedAt is older than the stuck threshold. Events and outbox rows    *)
(* are left out (OutboxPipeline models them); the ghost counters          *)
(* debits/credits/refunds record how many times each amount was moved.   *)
(***************************************************************************)
EXTENDS Naturals, FiniteSets

LOCAL INSTANCE FiniteSetsExt

CONSTANTS
    Wallets,        \* wallet ids
    Sagas,          \* transfer requests, one saga each
    Transfer,       \* [Sagas -> [from: Wallets, to: Wallets, amt: Nat]]
    InitBalance,    \* [Wallets -> Nat]
    Recoverers,     \* service replicas, each running the recovery cron
    CrashPoints,    \* steps before which a request or a recovery replica may die
    FaultPoints,    \* Redis and broker calls that may throw (see CallOutcomes)
    LegsOutliveThreshold, \* TRUE: a live leg may take longer than the threshold
    MaxAdmin,       \* bound on admin freeze/unfreeze/close operations
    MaxCrashes,     \* bound on request crashes and replica restarts
    MaxFaults       \* bound on thrown Redis and broker calls

ASSUME \A s \in Sagas : Transfer[s].from # Transfer[s].to /\ Transfer[s].amt > 0

VARIABLES
    bal,        \* wallet balance
    status,     \* wallet status: ACTIVE, FROZEN, CLOSED
    state,      \* saga row state, "NONE" before it is inserted
    stale,      \* updatedAt < now - sagaStuckThreshold
    pc,         \* the request running the saga
    rec,        \* recovery loop per replica: [pc, todo, cur]
    debits, credits, refunds, \* ghost: legs applied per saga
    admin,      \* admin operations performed
    adm,        \* the admin request in flight: the row it read, the status it sets
    crashes,    \* crashes and restarts so far
    faults      \* Redis and broker calls that threw so far

vars == <<bal, status, state, stale, pc, rec, debits, credits, refunds, admin, adm, crashes, faults>>

SagaStates == {"PENDING", "DEBITED", "COMPLETED", "COMPENSATED", "FAILED"}
Terminal == {"COMPLETED", "COMPENSATED", "FAILED"}
From(s) == Transfer[s].from
To(s) == Transfer[s].to
Amt(s) == Transfer[s].amt

\* Entity transitions. markAsDebited/Completed/Compensated throw unless
\* the row is in the required state; markAsFailed has no guard.
MarkAsDebitedOK(s) == state[s] = "PENDING"
MarkAsCompletedOK(s) == state[s] = "DEBITED"
MarkAsCompensatedOK(s) == state[s] = "DEBITED"

\* Saving the row moves updatedAt to now.
SetState(s, st) ==
    /\ state' = [state EXCEPT ![s] = st]
    /\ stale' = [stale EXCEPT ![s] = FALSE]

\* Wallet.credit: validatePositiveAmount, then ensureWalletActive.
CanCredit(w) == status[w] = "ACTIVE"

\* The call that ends a step: the publish of TRANSFER_INITIATED, the
\* cache DEL after the debit or the credit leg, or the publish of
\* TRANSFER_COMPLETED (with the idempotency save after it). TRUE: it threw.
CallOutcomes(call) ==
    IF call \in FaultPoints /\ faults < MaxFaults THEN BOOLEAN ELSE {FALSE}

CountFault(failed) == faults' = IF failed THEN faults + 1 ELSE faults

-----------------------------------------------------------------------------
(* The legs, shared by the request and by recovery. Each is one           *)
(* executeTransactionalStep: lock the wallet, apply the entity method,    *)
(* save it, reload the saga and apply updateSaga, all in one transaction; *)
(* a thrown error rolls the whole of it back.                             *)

\* Credit leg: Wallet.credit on the destination; no updateSaga.
ApplyCredit(s) ==
    /\ bal' = [bal EXCEPT ![To(s)] = @ + Amt(s)]
    /\ credits' = [credits EXCEPT ![s] = @ + 1]

\* compensate(): Wallet.credit on the source, which throws unless the
\* source is ACTIVE, then DEBITED -> COMPENSATED, which throws unless the
\* row is DEBITED; either throw rolls the refund back and leaves the row
\* as it was. The TRANSFER_FAILED publish after it changes nothing here.
Compensate(s) ==
    IF CanCredit(From(s)) /\ MarkAsCompensatedOK(s)
    THEN /\ bal' = [bal EXCEPT ![From(s)] = @ + Amt(s)]
         /\ refunds' = [refunds EXCEPT ![s] = @ + 1]
         /\ SetState(s, "COMPENSATED")
    ELSE UNCHANGED <<bal, refunds, state, stale>>

\* No admin request in flight.
AdminOps == {"freeze", "unfreeze", "close"}
AdmIdle == [pc |-> "idle", w |-> CHOOSE w \in Wallets : TRUE, bal |-> 0, status |-> "ACTIVE"]

-----------------------------------------------------------------------------
Init ==
    /\ bal = InitBalance
    /\ status = [w \in Wallets |-> "ACTIVE"]
    /\ state = [s \in Sagas |-> "NONE"]
    /\ stale = [s \in Sagas |-> FALSE]
    /\ pc = [s \in Sagas |-> "start"]
    /\ rec = [r \in Recoverers |-> [pc |-> "idle", todo |-> {}, cur |-> {}]]
    /\ debits = [s \in Sagas |-> 0]
    /\ credits = [s \in Sagas |-> 0]
    /\ refunds = [s \in Sagas |-> 0]
    /\ admin = 0
    /\ adm = AdmIdle
    /\ crashes = 0
    /\ faults = 0

Goto(s, l) == pc' = [pc EXCEPT ![s] = l]

ReqUnchanged == UNCHANGED <<status, rec, admin, adm, crashes>>

\* executeTransfer up to the insert: the wallets are distinct and exist,
\* and the PENDING saga is saved.
CreateSaga(s) ==
    /\ pc[s] = "start"
    /\ state' = [state EXCEPT ![s] = "PENDING"]
    /\ Goto(s, "initiate")
    /\ UNCHANGED <<bal, stale, debits, credits, refunds, faults>> /\ ReqUnchanged

\* The TRANSFER_INITIATED publish runs before the try block: when it
\* throws, the error reaches the caller and the saga is left PENDING.
PublishInitiated(s) ==
    /\ pc[s] = "initiate"
    /\ \E failed \in CallOutcomes("publishInitiated") :
         /\ CountFault(failed)
         /\ Goto(s, IF failed THEN "done" ELSE "debit")
    /\ UNCHANGED <<bal, state, stale, debits, credits, refunds>> /\ ReqUnchanged

\* debitFromSender: Wallet.withdraw on the locked source (ACTIVE, funds)
\* and PENDING -> DEBITED in one transaction, then the cache DEL. Any
\* throw goes to the catch block.
Debitable(s) ==
    status[From(s)] = "ACTIVE" /\ bal[From(s)] >= Amt(s) /\ MarkAsDebitedOK(s)

\* Mutant: the debit leg without the balance check.
DebitLegNoFundsCheck(s) ==
    /\ pc[s] = "debit"
    /\ IF status[From(s)] = "ACTIVE" /\ MarkAsDebitedOK(s)
       THEN /\ bal' = [bal EXCEPT ![From(s)] = @ - Amt(s)]
            /\ debits' = [debits EXCEPT ![s] = @ + 1]
            /\ SetState(s, "DEBITED")
            /\ \E failed \in CallOutcomes("delAfterDebit") :
                 CountFault(failed) /\ Goto(s, IF failed THEN "catch" ELSE "credit")
       ELSE Goto(s, "catch") /\ UNCHANGED <<bal, debits, state, stale, faults>>
    /\ UNCHANGED <<credits, refunds>> /\ ReqUnchanged

DebitLeg(s) ==
    /\ pc[s] = "debit"
    /\ IF Debitable(s)
       THEN /\ bal' = [bal EXCEPT ![From(s)] = @ - Amt(s)]
            /\ debits' = [debits EXCEPT ![s] = @ + 1]
            /\ SetState(s, "DEBITED")
            /\ \E failed \in CallOutcomes("delAfterDebit") :
                 CountFault(failed) /\ Goto(s, IF failed THEN "catch" ELSE "credit")
       ELSE Goto(s, "catch") /\ UNCHANGED <<bal, debits, state, stale, faults>>
    /\ UNCHANGED <<credits, refunds>> /\ ReqUnchanged

\* Mutant: a failed credit is swallowed and the request goes on.
CreditLegErrorIgnored(s) ==
    /\ pc[s] = "credit"
    /\ IF CanCredit(To(s)) THEN ApplyCredit(s) ELSE UNCHANGED <<bal, credits>>
    /\ Goto(s, "complete")
    /\ UNCHANGED <<state, stale, debits, refunds, faults>> /\ ReqUnchanged

\* creditToReceiver after the reload: Wallet.credit on the locked
\* destination in one transaction (the saga row is not touched), then the
\* cache DEL. Any throw goes to the catch block.
CreditLeg(s) ==
    /\ pc[s] = "credit"
    /\ IF CanCredit(To(s))
       THEN /\ ApplyCredit(s)
            /\ \E failed \in CallOutcomes("delAfterCredit") :
                 CountFault(failed) /\ Goto(s, IF failed THEN "catch" ELSE "complete")
       ELSE Goto(s, "catch") /\ UNCHANGED <<bal, credits, faults>>
    /\ UNCHANGED <<state, stale, debits, refunds>> /\ ReqUnchanged

\* Reload the saga and call markAsCompleted on the copy in memory; it
\* throws unless the row read is DEBITED.
CompleteSaga(s) ==
    /\ pc[s] = "complete"
    /\ Goto(s, IF MarkAsCompletedOK(s) THEN "save" ELSE "catch")
    /\ UNCHANGED <<bal, state, stale, debits, credits, refunds, faults>> /\ ReqUnchanged

\* Save the copy (COMPLETED, whatever the row holds now), then publish
\* TRANSFER_COMPLETED and store the idempotency key; a throw in either
\* goes to the catch block.
SaveCompleted(s) ==
    /\ pc[s] = "save"
    /\ SetState(s, "COMPLETED")
    /\ \E failed \in CallOutcomes("publishCompleted") :
         CountFault(failed) /\ Goto(s, IF failed THEN "catch" ELSE "done")
    /\ UNCHANGED <<bal, debits, credits, refunds>> /\ ReqUnchanged

\* The catch block reloads the saga: a DEBITED row is compensated, any
\* other row is marked FAILED.
CatchError(s) ==
    /\ pc[s] = "catch"
    /\ Goto(s, IF state[s] = "DEBITED" THEN "compensate" ELSE "fail")
    /\ UNCHANGED <<bal, state, stale, debits, credits, refunds, faults>> /\ ReqUnchanged

\* markAsFailed on the reloaded copy and save it.
MarkFailed(s) ==
    /\ pc[s] = "fail"
    /\ SetState(s, "FAILED")
    /\ Goto(s, "done")
    /\ UNCHANGED <<bal, debits, credits, refunds, faults>> /\ ReqUnchanged

\* Compensation run by the request; if it throws the error reaches the
\* caller and the saga is left as it is.
CompensateSaga(s) ==
    /\ pc[s] = "compensate"
    /\ Compensate(s)
    /\ Goto(s, "done")
    /\ UNCHANGED <<debits, credits, faults>> /\ ReqUnchanged

\* The request's process dies before the step at pc[s].
RequestCrash(s) ==
    /\ pc[s] \in CrashPoints
    /\ crashes < MaxCrashes
    /\ crashes' = crashes + 1
    /\ Goto(s, "dead")
    /\ UNCHANGED <<bal, status, state, stale, rec, debits, credits, refunds, admin, adm, faults>>

\* The stuck threshold passes for a DEBITED row. With legs shorter than the
\* threshold this only happens once no request is working on the saga.
TimePasses(s) ==
    /\ state[s] = "DEBITED"
    /\ ~stale[s]
    /\ LegsOutliveThreshold \/ pc[s] \in {"dead", "done"}
    /\ stale' = [stale EXCEPT ![s] = TRUE]
    /\ UNCHANGED <<bal, status, state, pc, rec, debits, credits, refunds, admin, adm, crashes, faults>>

-----------------------------------------------------------------------------
(* SagaRecoveryService.processStuckSagas, one replica per r: the           *)
(* isRecovering flag is rec[r].pc # "idle"; each recoverSaga call is split *)
(* at its awaits (reload, credit leg, COMPLETED save, compensation).       *)

RecUnchanged == UNCHANGED <<status, pc, debits, admin, adm, crashes>>

SetRec(r, p, todo, cur) == rec' = [rec EXCEPT ![r] = [pc |-> p, todo |-> todo, cur |-> cur]]

\* Cron tick: find DEBITED rows older than the threshold. An empty result
\* returns at once and resets the flag, which leaves nothing changed.
RecoveryTick(r) ==
    /\ rec[r].pc = "idle"
    /\ LET stuck == {s \in Sagas : state[s] = "DEBITED" /\ stale[s]}
       IN IF stuck = {} THEN UNCHANGED rec
          ELSE SetRec(r, "next", stuck, {})
    /\ UNCHANGED <<bal, status, state, stale, pc, debits, credits, refunds, admin, adm, crashes, faults>>

\* recoverSaga(id): reload the row and skip it unless it is DEBITED. The
\* finally clause resets the flag after the last one.
RecoverNext(r) ==
    /\ rec[r].pc = "next"
    /\ IF rec[r].todo = {} THEN SetRec(r, "idle", {}, {})
       ELSE \E s \in rec[r].todo :
              IF state[s] = "DEBITED"
              THEN SetRec(r, "credit", rec[r].todo \ {s}, {s})
              ELSE SetRec(r, "next", rec[r].todo \ {s}, {})
    /\ UNCHANGED <<bal, status, state, stale, pc, debits, credits, refunds, admin, adm, crashes, faults>>

\* Mutant: recovery logs a refused credit and leaves the saga DEBITED.
RecoverCreditNoCompensate(r) ==
    /\ rec[r].pc = "credit"
    /\ \E s \in rec[r].cur :
         IF CanCredit(To(s))
         THEN /\ ApplyCredit(s)
              /\ \E failed \in CallOutcomes("delAfterCredit") :
                   CountFault(failed) /\ SetRec(r, IF failed THEN "compensate" ELSE "complete", rec[r].todo, {s})
         ELSE SetRec(r, "next", rec[r].todo, {}) /\ UNCHANGED <<bal, credits, faults>>
    /\ UNCHANGED <<state, stale, refunds>> /\ RecUnchanged

\* creditToReceiver; a throw, from the leg or from the cache DEL after
\* it, is caught and compensated.
RecoverCredit(r) ==
    /\ rec[r].pc = "credit"
    /\ \E s \in rec[r].cur :
         IF CanCredit(To(s))
         THEN /\ ApplyCredit(s)
              /\ \E failed \in CallOutcomes("delAfterCredit") :
                   CountFault(failed) /\ SetRec(r, IF failed THEN "compensate" ELSE "complete", rec[r].todo, {s})
         ELSE SetRec(r, "compensate", rec[r].todo, {s}) /\ UNCHANGED <<bal, credits, faults>>
    /\ UNCHANGED <<state, stale, refunds>> /\ RecUnchanged

\* markAsCompleted on the copy read before the credit (DEBITED, so it
\* never throws) and save it over the row; then publish
\* TRANSFER_COMPLETED, whose throw is caught and compensated.
RecoverComplete(r) ==
    /\ rec[r].pc = "complete"
    /\ \E s \in rec[r].cur :
         /\ SetState(s, "COMPLETED")
         /\ \E failed \in CallOutcomes("publishCompleted") :
              CountFault(failed) /\ SetRec(r, IF failed THEN "compensate" ELSE "next", rec[r].todo, IF failed THEN {s} ELSE {})
    /\ UNCHANGED <<bal, credits, refunds>> /\ RecUnchanged

\* compensate() from recoverSaga's catch block; its throw is logged by
\* the loop, which moves on.
RecoverCompensate(r) ==
    /\ rec[r].pc = "compensate"
    /\ \E s \in rec[r].cur : Compensate(s)
    /\ SetRec(r, "next", rec[r].todo, {})
    /\ UNCHANGED <<credits, faults>> /\ RecUnchanged

\* A replica restarts before the step at rec[r].pc: the in-memory flag
\* starts false again and the loop's place is lost.
RecoveryCrash(r) ==
    /\ rec[r].pc \in CrashPoints
    /\ crashes < MaxCrashes
    /\ crashes' = crashes + 1
    /\ SetRec(r, "idle", {}, {})
    /\ UNCHANGED <<bal, status, state, stale, pc, debits, credits, refunds, admin, adm, faults>>

-----------------------------------------------------------------------------
(* freezeWallet / unfreezeWallet / closeWallet: executeStateChange reads  *)
(* the wallet with findById, outside the transaction's lock, applies the *)
(* entity method to that copy, and saves the whole row inside the         *)
(* transaction. A leg that commits between the read and the save is       *)
(* overwritten. One admin client issues the requests, one at a time.      *)

\* Wallet.freeze / unfreeze / close on the copy read: the status it
\* leaves, or "throws". unfreeze of a wallet that is not FROZEN is a no-op.
AdminResult(op, b, st) ==
    CASE op = "freeze"   -> IF st = "CLOSED" THEN "throws" ELSE "FROZEN"
      [] op = "unfreeze" -> IF st = "FROZEN" THEN "ACTIVE" ELSE st
      [] op = "close"    -> IF b # 0 THEN "throws" ELSE "CLOSED"

AdminUnchanged == UNCHANGED <<state, stale, pc, rec, debits, credits, refunds, crashes, faults>>

\* findById and the entity method; a throw ends the request unsaved.
AdminRead(w, op) ==
    /\ adm.pc = "idle"
    /\ admin < MaxAdmin
    /\ LET st == AdminResult(op, bal[w], status[w]) IN
         adm' = IF st = "throws" THEN AdmIdle
                ELSE [pc |-> "save", w |-> w, bal |-> bal[w], status |-> st]
    /\ admin' = admin + 1
    /\ UNCHANGED <<bal, status>> /\ AdminUnchanged

\* saveWithEvent: the copy, with its balance as read, replaces the row.
AdminSave ==
    /\ adm.pc = "save"
    /\ bal' = [bal EXCEPT ![adm.w] = adm.bal]
    /\ status' = [status EXCEPT ![adm.w] = adm.status]
    /\ adm' = AdmIdle
    /\ UNCHANGED admin /\ AdminUnchanged

AdminStep == (\E w \in Wallets, op \in AdminOps : AdminRead(w, op)) \/ AdminSave

-----------------------------------------------------------------------------
RequestStep(s) ==
    \/ CreateSaga(s) \/ PublishInitiated(s) \/ DebitLeg(s) \/ CreditLeg(s)
    \/ CompleteSaga(s) \/ SaveCompleted(s) \/ CatchError(s) \/ MarkFailed(s)
    \/ CompensateSaga(s)

RecoveryStep(r) ==
    \/ RecoveryTick(r) \/ RecoverNext(r) \/ RecoverCredit(r)
    \/ RecoverComplete(r) \/ RecoverCompensate(r)

Next ==
    \/ \E s \in Sagas : RequestStep(s) \/ RequestCrash(s) \/ TimePasses(s)
    \/ \E r \in Recoverers : RecoveryStep(r) \/ RecoveryCrash(r)
    \/ AdminStep

\* A live request runs its awaits to the end; the cron fires every 10 s;
\* time passes; an admin request that has read the row saves it. Crashes,
\* faults and new admin requests may never happen.
Fairness ==
    /\ \A s \in Sagas : WF_vars(RequestStep(s)) /\ WF_vars(TimePasses(s))
    /\ \A r \in Recoverers : WF_vars(RecoveryStep(r))
    /\ WF_vars(AdminSave)

Spec == Init /\ [][Next]_vars /\ Fairness

-----------------------------------------------------------------------------
TypeOK ==
    /\ bal \in [Wallets -> Nat]
    /\ status \in [Wallets -> {"ACTIVE", "FROZEN", "CLOSED"}]
    /\ state \in [Sagas -> SagaStates \cup {"NONE"}]
    /\ stale \in [Sagas -> BOOLEAN]
    /\ pc \in [Sagas -> {"start", "initiate", "debit", "credit", "complete", "save",
                         "catch", "fail", "compensate", "done", "dead"}]
    /\ \A r \in Recoverers :
         /\ rec[r].pc \in {"idle", "next", "credit", "complete", "compensate"}
         /\ rec[r].todo \subseteq Sagas /\ rec[r].cur \subseteq Sagas
    /\ admin \in 0..MaxAdmin
    /\ adm.pc \in {"idle", "save"} /\ adm.w \in Wallets /\ adm.bal \in Nat
    /\ adm.status \in {"ACTIVE", "FROZEN", "CLOSED"}
    /\ crashes \in 0..MaxCrashes
    /\ faults \in 0..MaxFaults

\* Money is moved once per transfer (spec section 8, conservation): the
\* source is debited at most once, the debited amount leaves the saga at
\* most once (credited to the destination or refunded to the source), and
\* a saga's final state agrees with where the money went.
EachTransferAppliedOnce ==
    \A s \in Sagas :
        /\ debits[s] <= 1
        /\ credits[s] + refunds[s] <= debits[s]
        /\ state[s] = "COMPLETED" => credits[s] = 1
        /\ state[s] = "COMPENSATED" => refunds[s] = 1 /\ credits[s] = 0

\* The saga row only moves along the edges spec section 3 declares
\* (PENDING->DEBITED->COMPLETED|COMPENSATED, PENDING|DEBITED->FAILED,
\* COMPENSATED->FAILED); COMPLETED and FAILED are never left.
SagaEdges ==
    {<<"NONE", "PENDING">>, <<"PENDING", "DEBITED">>, <<"PENDING", "FAILED">>,
     <<"DEBITED", "COMPLETED">>, <<"DEBITED", "COMPENSATED">>, <<"DEBITED", "FAILED">>,
     <<"COMPENSATED", "FAILED">>}

SagaMovesAlongEdges ==
    [][\A s \in Sagas : state'[s] # state[s] => <<state[s], state'[s]>> \in SagaEdges]_state

Open == {"PENDING", "DEBITED"}

\* Spec section 1, "eventual recovery of any operation interrupted
\* mid-flight": every saga that is inserted reaches a terminal state,
\* through the request or through recovery.
SagaTerminates ==
    \A s \in Sagas : state[s] \in Open ~> state[s] \in Terminal

\* Recovery selects DEBITED rows only (fraud-detection.constants.ts
\* 78-84), so what it can promise is about those: once the source or the
\* destination stays ACTIVE, a saga that has been debited - its request
\* finished, threw or died after the debit - is eventually COMPLETED,
\* COMPENSATED or FAILED, by the request or by the cron's retries of the
\* credit leg and of compensation. (A saga left PENDING is not covered:
\* saga_pending_stuck.cfg and saga_initiated_unpublished.cfg show it.)
DebitedSagaResolvedOnceUsable ==
    \A s \in Sagas :
        <>[](CanCredit(From(s)) \/ CanCredit(To(s))) =>
            (state[s] = "DEBITED" ~> state[s] \in Terminal)

-----------------------------------------------------------------------------
(* Refinement of TransferAbstract. A debited amount that has neither      *)
(* reached the destination nor been refunded, in a saga not yet FAILED,   *)
(* is held in escrow and still counts as the source's money; the transfer *)
(* is decided when the credit or the refund commits, or when it ends      *)
(* FAILED. A FAILED saga that kept its debit maps to "forfeited", which   *)
(* TransferAbstract does not allow.                                       *)

InEscrow(s) ==
    debits[s] = 1 /\ credits[s] = 0 /\ refunds[s] = 0 /\ state[s] # "FAILED"

Escrowed(w) ==
    MapThenSumSet(Amt, {s \in Sagas : From(s) = w /\ InEscrow(s)})

Outcome(s) ==
    CASE state[s] = "NONE"                    -> "none"
      [] credits[s] >= 1                      -> "moved"
      [] refunds[s] >= 1                      -> "cancelled"
      [] state[s] = "FAILED" /\ debits[s] = 1 -> "forfeited"
      [] state[s] = "FAILED"                  -> "cancelled"
      [] OTHER                                -> "open"

AbsTransfer == INSTANCE TransferAbstract
                 WITH absBal <- [w \in Wallets |-> bal[w] + Escrowed(w)],
                      absState <- [s \in Sagas |-> Outcome(s)]

\* Whatever the interleaving of requests, recovery, crashes and admin
\* requests, the saga legs, recovery cron and compensation together
\* behave as a transfer decided in one step: money is moved or returned,
\* once, never more than the source held, and no other wallet balance
\* changes. executeStateChange's save of a row read before a leg committed
\* (part_003:207) changes a balance outside any transfer, so this does not
\* hold: saga_admin_refinement.cfg shows it.
RefinesTransferAbstract == AbsTransfer!AbsSpec
=============================================================================
