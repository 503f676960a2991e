---------------------------- MODULE WalletEngine ----------------------------
(***************************************************************************)
(* The single-wallet state-change path of the wallet service:              *)
(* WalletService (deposit, withdraw, freeze, unfreeze, close,              *)
(* setDailyWithdrawalLimit, getBalance), the Wallet entity rules, the      *)
(* WalletRepository row lock / getOrCreate / saveWithEvent, the            *)
(* TransactionManager (request lock, outbox rows committed with the        *)
(* business writes) and the Redis balance cache.                           *)
(*                                                                         *)
(* Every request is a process that runs the handler step by step; a step   *)
(* ends at each await on the store or on Redis.  A store transaction that  *)
(* holds the wallet row lock (SELECT ... FOR UPDATE) from its first read   *)
(* to its commit is one atomic step; the admin operations read the wallet  *)
(* with a plain findById outside any lock, so their read and their commit  *)
(* are two steps.                                                          *)
(***************************************************************************)
EXTENDS Naturals, Sequences, FiniteSets, SequencesExt

CONSTANTS
    Procs,          \* concurrent request handlers (model values)
    Wallets,        \* wallet ids (model values)
    RequestIds,     \* client X-Request-ID values (model values)
    NoRid,          \* a request sent without X-Request-ID
    Null,           \* absent row / absent cache key / null column
    Amounts,        \* request amounts (the DTO only admits positive ones)
    LimitChoices,   \* arguments of setDailyWithdrawalLimit, Null included
    Ops,            \* the handlers the clients may call in this model
    MaxRequests,    \* bound on the number of requests issued
    MaxDay,         \* bound on the UTC calendar date
    Cent            \* model units per cent: amounts, balances and limits
                    \* are whole multiples of 1/Cent of a cent

ASSUME Amounts \subseteq Nat \ {0}
ASSUME Null \in LimitChoices
ASSUME MaxRequests \in Nat /\ MaxDay \in Nat /\ Cent \in Nat \ {0}

VARIABLES
    wallet,     \* wallets table: Wallets -> wallet row or Null
    journal,    \* wallet_events, in insertion order
    outbox,     \* outbox_events, in insertion order
    idem,       \* idempotency_keys: RequestIds -> stored response or Null
    reqLock,    \* Redis keys lock:req:<rid> currently set
    cache,      \* Redis keys wallet:balance:<id>: Wallets -> Nat or Null
    today,      \* the current UTC date
    issued,     \* number of requests issued so far
    pc,         \* program counter of each handler
    req,        \* the request each handler is serving
    snap,       \* wallet row a handler read and still holds in memory
    resp,       \* answer a handler computed: a response or a rejection
    answered    \* history: the requests sent with each request id and the
                \* final answers they got

vars == <<wallet, journal, outbox, idem, reqLock, cache, today, issued,
          pc, req, snap, resp, answered>>

Statuses == {"ACTIVE", "FROZEN", "CLOSED"}
Days == 0..MaxDay

\* The state of the Wallet entity (wallet.entity.ts); version and
\* timestamps are written by TypeORM and never read by the handlers.
WalletRows == [balance : Nat, status : Statuses, limit : Nat \cup {Null},
               total : Nat, lastDay : Days \cup {Null}]

\* new Wallet(id): balance 0, ACTIVE, no limit, nothing withdrawn.
NewWallet == [balance |-> 0, status |-> "ACTIVE", limit |-> Null,
              total |-> 0, lastDay |-> Null]

MoneyOps == {"deposit", "withdraw"}
AdminOps == {"freeze", "unfreeze", "close", "setLimit"}

Requests ==
    [op : MoneyOps, w : Wallets, arg : Amounts, rid : RequestIds \cup {NoRid}]
    \cup [op : AdminOps \ {"setLimit"}, w : Wallets, arg : {0}, rid : {NoRid}]
    \cup [op : {"setLimit"}, w : Wallets, arg : LimitChoices, rid : {NoRid}]
    \cup [op : {"getBalance"}, w : Wallets, arg : {0}, rid : {NoRid}]

Responses == [w : Wallets, balance : Nat]

Events == [w : Wallets, type : STRING, amt : Nat, rid : RequestIds \cup {NoRid},
           day : Days]

-----------------------------------------------------------------------------
(* Wallet entity rules                                                     *)

\* The exceptions of wallet.exceptions.ts, all DomainExceptions.
DomainErrors == {"InsufficientFundsError", "WalletNotActiveError",
                 "WithdrawalLimitExceededError", "InvalidAmountError",
                 "WalletClosedError", "NonZeroBalanceError"}

\* WalletExceptionFilter answers a DomainException with 422 and the
\* exception's class name as type; Nest answers its ConflictException with
\* 409 and any other error (a plain Error) with 500.
Rejection(err) ==
    [status |-> CASE err \in DomainErrors        -> 422
                  [] err = "ConflictException" -> 409
                  [] OTHER                     -> 500,
     type |-> err]

Rejections == {Rejection(e) : e \in DomainErrors \cup {"ConflictException", "Error"}}

\* deposit(amount) / credit(amount): validatePositiveAmount, then
\* ensureWalletActive; the first that throws names the error.
DepositError(wal, amt) ==
    CASE amt <= 0               -> "InvalidAmountError"
      [] wal.status # "ACTIVE" -> "WalletNotActiveError"
      [] OTHER                  -> Null

CanDeposit(wal, amt) == DepositError(wal, amt) = Null

Deposited(wal, amt) == [wal EXCEPT !.balance = @ + amt]

\* Mutant: the daily total is never reset on a new day.
ResetIfNewDayNever(wal, day) == wal

\* resetDailyLimitIfNewDay: the total restarts when the last withdrawal was
\* not made today (a null date counts as another day).
ResetIfNewDay(wal, day) ==
    IF wal.lastDay = day THEN wal ELSE [wal EXCEPT !.total = 0]

\* validateDailyLimit: with a limit set, the day's total after the
\* withdrawal must not exceed it.
WithinDailyLimit(wal, amt) == wal.limit = Null \/ wal.total + amt <= wal.limit

\* withdraw(amount): validatePositiveAmount, ensureWalletActive, the reset,
\* validateDailyLimit, then the balance check; the first that throws
\* names the error.
WithdrawError(wal, amt, day) ==
    LET w2 == ResetIfNewDay(wal, day) IN
    CASE amt <= 0                   -> "InvalidAmountError"
      [] wal.status # "ACTIVE"     -> "WalletNotActiveError"
      [] ~WithinDailyLimit(w2, amt) -> "WithdrawalLimitExceededError"
      [] w2.balance < amt           -> "InsufficientFundsError"
      [] OTHER                      -> Null

\* Mutant: the balance check is dropped.
CanWithdrawNoFundsCheck(wal, amt, day) ==
    WithdrawError(wal, amt, day) \in {Null, "InsufficientFundsError"}

CanWithdraw(wal, amt, day) == WithdrawError(wal, amt, day) = Null

\* The balance drops and trackWithdrawal adds to the day's total.
Withdrawn(wal, amt, day) ==
    LET w2 == ResetIfNewDay(wal, day) IN
    [w2 EXCEPT !.balance = @ - amt, !.total = @ + amt, !.lastDay = day]

\* freeze / unfreeze / close / setDailyWithdrawalLimit: what each throws.
AdminError(op, wal, arg) ==
    CASE op = "freeze" /\ wal.status = "CLOSED"           -> "WalletClosedError"
      [] op = "close" /\ wal.balance # 0                  -> "NonZeroBalanceError"
      [] op = "setLimit" /\ arg # Null /\ arg <= 0        -> "InvalidAmountError"
      [] OTHER                                            -> Null

AdminAllowed(op, wal, arg) == AdminError(op, wal, arg) = Null

\* ... and the row it leaves in memory.
AdminApplied(op, wal, arg) ==
    CASE op = "freeze"   -> [wal EXCEPT !.status = "FROZEN"]
      [] op = "unfreeze" -> IF wal.status = "FROZEN"
                            THEN [wal EXCEPT !.status = "ACTIVE"] ELSE wal
      [] op = "close"    -> [wal EXCEPT !.status = "CLOSED"]
      [] op = "setLimit" -> [wal EXCEPT !.limit = arg]

\* The wallet event type each admin handler journals.  setDailyWithdrawalLimit
\* reuses WALLET_UNFROZEN for a removed limit and WALLET_FROZEN for a set one.
AdminEventType(op, arg) ==
    CASE op = "freeze"   -> "WALLET_FROZEN"
      [] op = "unfreeze" -> "WALLET_UNFROZEN"
      [] op = "close"    -> "WALLET_CLOSED"
      [] op = "setLimit" -> IF arg = Null THEN "WALLET_UNFROZEN"
                            ELSE "WALLET_FROZEN"

Event(w, type, amt, rid) ==
    [w |-> w, type |-> type, amt |-> amt, rid |-> rid, day |-> today]

\* A DECIMAL(20,2) column: the entity hands TypeORM a JS number and
\* PostgreSQL rounds it to two decimals, half away from zero; reading the
\* row back (parseFloat) gives the rounded value.  The values here are
\* never negative.
Numeric2(x) == ((x + Cent \div 2) \div Cent) * Cent

\* The row as saved: balance, daily_withdrawal_total and
\* daily_withdrawal_limit are DECIMAL(20,2).
StoredRow(wal) ==
    [wal EXCEPT !.balance = Numeric2(@), !.total = Numeric2(@),
                !.limit = IF @ = Null THEN Null ELSE Numeric2(@)]

\* The wallet_events row as saved: amount is DECIMAL(20,2).  The outbox
\* payload is jsonb and keeps the amount as the client sent it.
StoredEvent(ev) == [ev EXCEPT !.amt = Numeric2(@)]

\* Mutant: the wallet is provisioned with save(new Wallet(id)), which
\* overwrites an existing row instead of ON CONFLICT DO NOTHING.
GetOrCreateOverwrites(w) == NewWallet

\* getOrCreate: the locked row, or a fresh row inserted with
\* ON CONFLICT DO NOTHING when the wallet does not exist.
GetOrCreate(w) == IF wallet[w] = Null THEN NewWallet ELSE wallet[w]

\* The WALLET_CREATED event getOrCreate writes when it inserted the row and
\* the journal has no event for the wallet yet.
CreatedEvents(w) ==
    IF wallet[w] = Null /\ \A i \in DOMAIN journal : journal[i].w # w
    THEN <<Event(w, "WALLET_CREATED", 0, NoRid)>>
    ELSE <<>>

-----------------------------------------------------------------------------
Init ==
    /\ wallet = [w \in Wallets |-> Null]
    /\ journal = <<>>
    /\ outbox = <<>>
    /\ idem = [r \in RequestIds |-> Null]
    /\ reqLock = {}
    /\ cache = [w \in Wallets |-> Null]
    /\ today = 0
    /\ issued = 0
    /\ pc = [p \in Procs |-> "idle"]
    /\ req = [p \in Procs |-> Null]
    /\ snap = [p \in Procs |-> Null]
    /\ resp = [p \in Procs |-> Null]
    /\ answered = [r \in RequestIds |-> {}]

\* A client calls a handler (controller or admin caller).
Start(p) ==
    /\ pc[p] = "idle"
    /\ issued < MaxRequests
    /\ \E r \in Requests :
        /\ r.op \in Ops
        /\ req' = [req EXCEPT ![p] = r]
        /\ pc' = [pc EXCEPT ![p] =
                    CASE r.op \in MoneyOps  -> "idem"
                      [] r.op \in AdminOps  -> "read"
                      [] r.op = "getBalance" -> "getCache"]
    /\ issued' = issued + 1
    /\ snap' = [snap EXCEPT ![p] = Null]
    /\ resp' = [resp EXCEPT ![p] = Null]
    /\ UNCHANGED <<wallet, journal, outbox, idem, reqLock, cache, today, answered>>

-----------------------------------------------------------------------------
(* deposit / withdraw: executeIdempotentTransaction, then setBalanceCache  *)

\* idempotencyRepository.findByRequestId, before any lock: a stored response
\* is returned as it is, and the caller still writes it to the cache.
IdemLookup(p) ==
    LET r == req[p] IN
    /\ pc[p] = "idem"
    /\ IF r.rid # NoRid /\ idem[r.rid] # Null
       THEN /\ resp' = [resp EXCEPT ![p] = idem[r.rid]]
            /\ pc' = [pc EXCEPT ![p] = "cache"]
       ELSE /\ pc' = [pc EXCEPT ![p] = "lock"]
            /\ UNCHANGED resp
    /\ UNCHANGED <<wallet, journal, outbox, idem, reqLock, cache, today,
                   issued, req, snap, answered>>

\* TransactionManager.execute step 1: SET lock:req:<rid> NX EX 60, or a
\* ConflictException (409) when the key is already set.
AcquireReqLock(p) ==
    LET r == req[p] IN
    /\ pc[p] = "lock"
    /\ \/ /\ r.rid = NoRid
          /\ pc' = [pc EXCEPT ![p] = "tx"]
          /\ UNCHANGED <<reqLock, resp>>
       \/ /\ r.rid # NoRid /\ r.rid \notin reqLock
          /\ reqLock' = reqLock \cup {r.rid}
          /\ pc' = [pc EXCEPT ![p] = "tx"]
          /\ UNCHANGED resp
       \/ /\ r.rid # NoRid /\ r.rid \in reqLock
          /\ pc' = [pc EXCEPT ![p] = "idle"]
          /\ resp' = [resp EXCEPT ![p] = Rejection("ConflictException")]
          /\ UNCHANGED reqLock
    /\ UNCHANGED <<wallet, journal, outbox, idem, cache, today, issued,
                   req, snap, answered>>

\* Mutant: the response (and the stored idempotency record) carries the
\* balance of the row as loaded, before the deposit was applied.
DepositTxStaleResponse(p) ==
    LET r   == req[p]
        wal == GetOrCreate(r.w)
        new == Deposited(wal, r.arg)
        res == [w |-> r.w, balance |-> wal.balance]
        ev  == Event(r.w, "FUNDS_DEPOSITED", r.arg, r.rid)
    IN
    IF CanDeposit(wal, r.arg)
    THEN /\ wallet' = [wallet EXCEPT ![r.w] = StoredRow(new)]
         /\ journal' = journal \o CreatedEvents(r.w) \o <<StoredEvent(ev)>>
         /\ outbox' = Append(outbox, ev)
         /\ idem' = IF r.rid = NoRid THEN idem ELSE [idem EXCEPT ![r.rid] = res]
         /\ resp' = [resp EXCEPT ![p] = res]
    ELSE /\ resp' = [resp EXCEPT ![p] = Rejection(DepositError(wal, r.arg))]
         /\ UNCHANGED <<wallet, journal, outbox, idem>>

\* The transaction of a deposit: getOrCreate under the row lock,
\* wallet.deposit, saveWithEvent, the outbox row, the idempotency row, commit.
\* Any thrown error rolls all of it back, the inserted wallet included.
DepositTx(p) ==
    LET r   == req[p]
        wal == GetOrCreate(r.w)
        new == Deposited(wal, r.arg)
        res == [w |-> r.w, balance |-> new.balance]
        ev  == Event(r.w, "FUNDS_DEPOSITED", r.arg, r.rid)
    IN
    IF CanDeposit(wal, r.arg)
    THEN /\ wallet' = [wallet EXCEPT ![r.w] = StoredRow(new)]
         /\ journal' = journal \o CreatedEvents(r.w) \o <<StoredEvent(ev)>>
         /\ outbox' = Append(outbox, ev)
         /\ idem' = IF r.rid = NoRid THEN idem ELSE [idem EXCEPT ![r.rid] = res]
         /\ resp' = [resp EXCEPT ![p] = res]
    ELSE /\ resp' = [resp EXCEPT ![p] = Rejection(DepositError(wal, r.arg))]
         /\ UNCHANGED <<wallet, journal, outbox, idem>>

\* findByIdWithLock finds no row: a plain Error; else what withdraw throws.
WithdrawFailure(r, wal) ==
    IF wal = Null THEN "Error" ELSE WithdrawError(wal, r.arg, today)

\* Mutant: the outbox row is written even when the withdrawal is refused.
WithdrawTxOutboxOnError(p) ==
    LET r   == req[p]
        wal == wallet[r.w]
        new == Withdrawn(wal, r.arg, today)
        res == [w |-> r.w, balance |-> new.balance]
        ev  == Event(r.w, "FUNDS_WITHDRAWN", r.arg, r.rid)
    IN
    IF wal # Null /\ CanWithdraw(wal, r.arg, today)
    THEN /\ wallet' = [wallet EXCEPT ![r.w] = StoredRow(new)]
         /\ journal' = Append(journal, StoredEvent(ev))
         /\ outbox' = Append(outbox, ev)
         /\ idem' = IF r.rid = NoRid THEN idem ELSE [idem EXCEPT ![r.rid] = res]
         /\ resp' = [resp EXCEPT ![p] = res]
    ELSE /\ outbox' = Append(outbox, ev)
         /\ resp' = [resp EXCEPT ![p] = Rejection(WithdrawFailure(r, wal))]
         /\ UNCHANGED <<wallet, journal, idem>>

\* The transaction of a withdrawal: findByIdWithLock (not found is an
\* error), wallet.withdraw, saveWithEvent, outbox row, idempotency row.
WithdrawTx(p) ==
    LET r   == req[p]
        wal == wallet[r.w]
        new == Withdrawn(wal, r.arg, today)
        res == [w |-> r.w, balance |-> new.balance]
        ev  == Event(r.w, "FUNDS_WITHDRAWN", r.arg, r.rid)
    IN
    IF wal # Null /\ CanWithdraw(wal, r.arg, today)
    THEN /\ wallet' = [wallet EXCEPT ![r.w] = StoredRow(new)]
         /\ journal' = Append(journal, StoredEvent(ev))
         /\ outbox' = Append(outbox, ev)
         /\ idem' = IF r.rid = NoRid THEN idem ELSE [idem EXCEPT ![r.rid] = res]
         /\ resp' = [resp EXCEPT ![p] = res]
    ELSE /\ resp' = [resp EXCEPT ![p] = Rejection(WithdrawFailure(r, wal))]
         /\ UNCHANGED <<wallet, journal, outbox, idem>>

CommitMoney(p) ==
    /\ pc[p] = "tx"
    /\ IF req[p].op = "deposit" THEN DepositTx(p) ELSE WithdrawTx(p)
    /\ pc' = [pc EXCEPT ![p] = "release"]
    /\ UNCHANGED <<reqLock, cache, today, issued, req, snap, answered>>

\* The client of request p receives its answer (history only).
Answer(p) ==
    IF req[p].rid = NoRid THEN UNCHANGED answered
    ELSE answered' = [answered EXCEPT ![req[p].rid] = @ \cup {<<req[p], resp[p]>>}]

\* The finally block: DEL lock:req:<rid> (whoever holds it now), then the
\* result goes back to the service, or the error to the exception filter
\* and the client.
ReleaseReqLock(p) ==
    /\ pc[p] = "release"
    /\ reqLock' = IF req[p].rid = NoRid THEN reqLock ELSE reqLock \ {req[p].rid}
    /\ IF resp[p] \in Responses
       THEN pc' = [pc EXCEPT ![p] = "cache"] /\ UNCHANGED answered
       ELSE pc' = [pc EXCEPT ![p] = "idle"] /\ Answer(p)
    /\ UNCHANGED <<wallet, journal, outbox, idem, cache, today, issued,
                   req, snap, resp>>

\* setBalanceCache(walletId, result.balance) with a 30 s TTL, then the
\* controller answers.
SetBalanceCache(p) ==
    /\ pc[p] = "cache"
    /\ cache' = [cache EXCEPT ![req[p].w] = resp[p].balance]
    /\ pc' = [pc EXCEPT ![p] = "idle"]
    /\ Answer(p)
    /\ UNCHANGED <<wallet, journal, outbox, idem, reqLock, today, issued,
                   req, snap, resp>>

-----------------------------------------------------------------------------
(* freeze / unfreeze / close: executeStateChange, then invalidate;         *)
(* setDailyWithdrawalLimit: the same shape, without the invalidation.      *)

\* walletRepository.findById: a plain read, no row lock; no row is a
\* plain Error.
ReadWallet(p) ==
    /\ pc[p] = "read"
    /\ IF wallet[req[p].w] = Null
       THEN /\ pc' = [pc EXCEPT ![p] = "idle"]
            /\ resp' = [resp EXCEPT ![p] = Rejection("Error")]
            /\ UNCHANGED snap
       ELSE /\ snap' = [snap EXCEPT ![p] = wallet[req[p].w]]
            /\ pc' = [pc EXCEPT ![p] = "commit"]
            /\ UNCHANGED resp
    /\ UNCHANGED <<wallet, journal, outbox, idem, reqLock, cache, today,
                   issued, req, answered>>

\* Mutant: the outbox row is written even when the operation throws.
CommitAdminOutboxOnError(p) ==
    LET r  == req[p]
        ev == Event(r.w, AdminEventType(r.op, r.arg), 0, NoRid)
    IN
    /\ pc[p] = "commit"
    /\ outbox' = Append(outbox, ev)
    /\ IF AdminAllowed(r.op, snap[p], r.arg)
       THEN /\ wallet' = [wallet EXCEPT ![r.w] = StoredRow(AdminApplied(r.op, snap[p], r.arg))]
            /\ journal' = Append(journal, StoredEvent(ev))
            /\ pc' = [pc EXCEPT ![p] = IF r.op = "setLimit" THEN "idle"
                                       ELSE "invalidate"]
            /\ UNCHANGED resp
       ELSE /\ pc' = [pc EXCEPT ![p] = "idle"]
            /\ resp' = [resp EXCEPT ![p] = Rejection(AdminError(r.op, snap[p], r.arg))]
            /\ UNCHANGED <<wallet, journal>>
    /\ UNCHANGED <<idem, reqLock, cache, today, issued, req, snap, answered>>

\* operation(wallet) on the row read earlier, saveWithEvent writes that row
\* back, publishEvent adds the outbox row, commit.
CommitAdmin(p) ==
    LET r  == req[p]
        ev == Event(r.w, AdminEventType(r.op, r.arg), 0, NoRid)
    IN
    /\ pc[p] = "commit"
    /\ IF AdminAllowed(r.op, snap[p], r.arg)
       THEN /\ wallet' = [wallet EXCEPT ![r.w] = StoredRow(AdminApplied(r.op, snap[p], r.arg))]
            /\ journal' = Append(journal, StoredEvent(ev))
            /\ outbox' = Append(outbox, ev)
            /\ pc' = [pc EXCEPT ![p] = IF r.op = "setLimit" THEN "idle"
                                       ELSE "invalidate"]
            /\ UNCHANGED resp
       ELSE /\ pc' = [pc EXCEPT ![p] = "idle"]
            /\ resp' = [resp EXCEPT ![p] = Rejection(AdminError(r.op, snap[p], r.arg))]
            /\ UNCHANGED <<wallet, journal, outbox>>
    /\ UNCHANGED <<idem, reqLock, cache, today, issued, req, snap, answered>>

\* invalidateBalanceCache: DEL wallet:balance:<id>.
InvalidateCache(p) ==
    /\ pc[p] = "invalidate"
    /\ cache' = [cache EXCEPT ![req[p].w] = Null]
    /\ pc' = [pc EXCEPT ![p] = "idle"]
    /\ UNCHANGED <<wallet, journal, outbox, idem, reqLock, today, issued,
                   req, snap, resp, answered>>

-----------------------------------------------------------------------------
(* getBalance: read-through cache                                          *)

GetCached(p) ==
    /\ pc[p] = "getCache"
    /\ pc' = [pc EXCEPT ![p] = IF cache[req[p].w] # Null THEN "idle" ELSE "load"]
    /\ UNCHANGED <<wallet, journal, outbox, idem, reqLock, cache, today,
                   issued, req, snap, resp, answered>>

\* findById; a missing wallet answers balance 0 and fills nothing.
LoadBalance(p) ==
    /\ pc[p] = "load"
    /\ IF wallet[req[p].w] = Null
       THEN /\ pc' = [pc EXCEPT ![p] = "idle"]
            /\ UNCHANGED snap
       ELSE /\ snap' = [snap EXCEPT ![p] = wallet[req[p].w]]
            /\ pc' = [pc EXCEPT ![p] = "fill"]
    /\ UNCHANGED <<wallet, journal, outbox, idem, reqLock, cache, today,
                   issued, req, resp, answered>>

FillCache(p) ==
    /\ pc[p] = "fill"
    /\ cache' = [cache EXCEPT ![req[p].w] = snap[p].balance]
    /\ pc' = [pc EXCEPT ![p] = "idle"]
    /\ UNCHANGED <<wallet, journal, outbox, idem, reqLock, today, issued,
                   req, snap, resp, answered>>

-----------------------------------------------------------------------------
(* Time                                                                    *)

\* A wallet:balance key reaches its 30 s TTL.
CacheExpires(w) ==
    /\ cache[w] # Null
    /\ cache' = [cache EXCEPT ![w] = Null]
    /\ UNCHANGED <<wallet, journal, outbox, idem, reqLock, today, issued,
                   pc, req, snap, resp, answered>>

\* A lock:req key reaches its 60 s TTL while its holder is still running.
ReqLockExpires(rid) ==
    /\ rid \in reqLock
    /\ reqLock' = reqLock \ {rid}
    /\ UNCHANGED <<wallet, journal, outbox, idem, cache, today, issued,
                   pc, req, snap, resp, answered>>

\* The UTC date changes.
NewDay ==
    /\ today < MaxDay
    /\ today' = today + 1
    /\ UNCHANGED <<wallet, journal, outbox, idem, reqLock, cache, issued,
                   pc, req, snap, resp, answered>>

\* Every request has been served: the system is idle for good.
Finished ==
    /\ issued = MaxRequests
    /\ \A p \in Procs : pc[p] = "idle"
    /\ UNCHANGED vars

Next ==
    \/ \E p \in Procs :
        \/ Start(p)
        \/ IdemLookup(p) \/ AcquireReqLock(p) \/ CommitMoney(p)
        \/ ReleaseReqLock(p) \/ SetBalanceCache(p)
        \/ ReadWallet(p) \/ CommitAdmin(p) \/ InvalidateCache(p)
        \/ GetCached(p) \/ LoadBalance(p) \/ FillCache(p)
    \/ \E w \in Wallets : CacheExpires(w)
    \/ \E rid \in RequestIds : ReqLockExpires(rid)
    \/ NewDay
    \/ Finished

Spec == Init /\ [][Next]_vars

-----------------------------------------------------------------------------
(* Properties                                                              *)

TypeOK ==
    /\ wallet \in [Wallets -> WalletRows \cup {Null}]
    /\ journal \in Seq(Events)
    /\ outbox \in Seq(Events)
    /\ idem \in [RequestIds -> Responses \cup {Null}]
    /\ reqLock \subseteq RequestIds
    /\ cache \in [Wallets -> Nat \cup {Null}]
    /\ today \in Days
    /\ issued \in 0..MaxRequests
    /\ pc \in [Procs -> {"idle", "idem", "lock", "tx", "release", "cache",
                         "read", "commit", "invalidate", "getCache", "load",
                         "fill"}]
    /\ req \in [Procs -> Requests \cup {Null}]
    /\ snap \in [Procs -> WalletRows \cup {Null}]
    /\ resp \in [Procs -> Responses \cup Rejections \cup {Null}]
    /\ answered \in [RequestIds -> SUBSET (Requests \X (Responses \cup Rejections))]

\* The events of wallet w, in journal order.
EventsOf(w) == SelectSeq(journal, LAMBDA e : e.w = w)

\* The balance the journal of w accounts for: deposits minus withdrawals.
JournalBalance(w) ==
    FoldLeft(LAMBDA b, e : CASE e.type = "FUNDS_DEPOSITED" -> b + e.amt
                             [] e.type = "FUNDS_WITHDRAWN" -> b - e.amt
                             [] OTHER -> b,
             0, EventsOf(w))

\* The amount withdrawn from w on day d according to the journal.
JournalWithdrawnOn(w, d) ==
    FoldLeft(LAMBDA s, e : IF e.type = "FUNDS_WITHDRAWN" /\ e.day = d
                           THEN s + e.amt ELSE s,
             0, EventsOf(w))

\* Every balance is what replaying the wallet's journal gives: each
\* committed change to the balance was journaled exactly once, in the same
\* transaction, and nothing else moved it (spec: balance = deposits minus
\* successful withdrawals).
BalanceMatchesJournal ==
    \A w \in Wallets : wallet[w] # Null =>
        wallet[w].balance = JournalBalance(w)

\* The daily_withdrawal_total the limit check relies on is the sum of the
\* withdrawals journaled on last_withdrawal_date: the reset on a new day and
\* trackWithdrawal keep it exact across days and concurrent withdrawals.
DailyTotalMatchesJournal ==
    \A w \in Wallets : wallet[w] # Null /\ wallet[w].lastDay # Null =>
        wallet[w].total = JournalWithdrawnOn(w, wallet[w].lastDay)

\* The transactional outbox: the outbox rows are exactly the journaled
\* events other than WALLET_CREATED, in the same order; a rolled-back
\* handler leaves neither.
OutboxMirrorsJournal ==
    outbox = SelectSeq(journal, LAMBDA e : e.type # "WALLET_CREATED")

\* Idempotency: a request id is applied at most once, however often and
\* however concurrently the client sends it.
AtMostOnceApplication ==
    \A rid \in RequestIds :
        Cardinality({i \in DOMAIN journal : journal[i].rid = rid}) <= 1

\* Spec section 7: on an idempotent replay the stored response is returned
\* unchanged, even if the first answer was an error envelope, so that a
\* retry never re-applies a request. Every client that sends the same
\* X-Request-ID with the same request gets the same final answer (a 409
\* for an attempt still in flight is not a final answer).
ReplayAnswersAlike ==
    \A rid \in RequestIds : \A x, y \in answered[rid] :
        /\ x[1] = y[1]
        /\ Rejection("ConflictException") \notin {x[2], y[2]}
        => x[2] = y[2]

\* A CLOSED wallet stays CLOSED ("close is a status transition", never
\* undone by a later freeze or unfreeze).
ClosedIsPermanent ==
    [][\A w \in Wallets :
          wallet[w] # Null /\ wallet[w].status = "CLOSED" =>
              wallet'[w].status = "CLOSED"]_wallet

\* The status a reader of the journal derives (last FROZEN / UNFROZEN /
\* CLOSED event) is the wallet's status.
JournalStatus(w) ==
    FoldLeft(LAMBDA s, e : CASE e.type = "WALLET_FROZEN"   -> "FROZEN"
                             [] e.type = "WALLET_UNFROZEN" -> "ACTIVE"
                             [] e.type = "WALLET_CLOSED"   -> "CLOSED"
                             [] OTHER -> s,
             "ACTIVE", EventsOf(w))

JournalStatusMatches ==
    \A w \in Wallets : wallet[w] # Null => wallet[w].status = JournalStatus(w)

\* Once no handler is running, a cached balance is the stored balance.
QuiescentCacheFresh ==
    (\A p \in Procs : pc[p] = "idle") =>
        \A w \in Wallets : cache[w] = Null \/
            (wallet[w] # Null /\ cache[w] = wallet[w].balance)

-----------------------------------------------------------------------------
(* Refinement: the engine, with its handler steps, request locks and      *)
(* cache, implements the atomic wallet of WalletAbstract. The wallet rows, *)
(* the journal, the stored responses and the date are mapped to           *)
(* themselves; every other step of the engine must leave them unchanged.  *)
Abstract == INSTANCE WalletAbstract

\* Every step of deposit/withdraw that changes a wallet, the journal or an
\* idempotency record is one whole abstract deposit or withdrawal allowed
\* by the entity rules, with its events and the response it stores, and
\* the locks, cache and split handler steps never expose a half-done one.
RefinesAbstract == Abstract!AbsSpec

=============================================================================
