--------------------------- MODULE WalletAbstract ---------------------------
(***************************************************************************)
(* What the wallet engine promises on its money path (spec 4.2): every     *)
(* deposit and withdrawal is one indivisible change of one wallet, made    *)
(* only when the wallet rules allow it, and it is journalled - and its     *)
(* response stored under the request id, when there is one - in that same *)
(* change. Nothing here says how: no locks, no handler steps, no cache.    *)
(* WalletEngine is checked to implement this specification.                *)
(*                                                                         *)
(* It does not promise that a request id is applied at most once: the     *)
(* engine does not keep that promise (see AtMostOnceApplication).          *)
(***************************************************************************)
EXTENDS Naturals, Sequences

CONSTANTS Wallets, RequestIds, NoRid, Null, Amounts, MaxDay

VARIABLES wallet, journal, idem, today

absVars == <<wallet, journal, idem, today>>

\* A wallet as the spec describes it: balance, status, optional daily
\* limit, the day's withdrawn total and the date of the last withdrawal.
Row(bal, st, lim, tot, last) ==
    [balance |-> bal, status |-> st, limit |-> lim, total |-> tot, lastDay |-> last]

Fresh == Row(0, "ACTIVE", Null, 0, Null)

Ev(w, type, amt, rid) ==
    [w |-> w, type |-> type, amt |-> amt, rid |-> rid, day |-> today]

\* The response of a successful request, stored under its id if it has one.
Store(rid, w, bal) ==
    IF rid = NoRid THEN idem
    ELSE [idem EXCEPT ![rid] = [w |-> w, balance |-> bal]]

AbsInit ==
    /\ wallet = [w \in Wallets |-> Null]
    /\ journal = <<>>
    /\ idem = [r \in RequestIds |-> Null]
    /\ today = 0

\* deposit: a missing wallet is provisioned (WALLET_CREATED) in the same
\* change; the wallet must be ACTIVE; balance += amount.
AbsDeposit(w, a, rid) ==
    LET old == IF wallet[w] = Null THEN Fresh ELSE wallet[w]
        created == IF wallet[w] = Null THEN <<Ev(w, "WALLET_CREATED", 0, NoRid)>>
                   ELSE <<>>
    IN
    /\ old.status = "ACTIVE"
    /\ wallet' = [wallet EXCEPT ![w] =
                    Row(old.balance + a, old.status, old.limit, old.total, old.lastDay)]
    /\ journal' = journal \o created \o <<Ev(w, "FUNDS_DEPOSITED", a, rid)>>
    /\ idem' = Store(rid, w, old.balance + a)
    /\ UNCHANGED today

\* withdraw: the wallet exists and is ACTIVE; the day's total restarts on a
\* new UTC date; a set limit must not be exceeded; balance >= amount.
AbsWithdraw(w, a, rid) ==
    LET old == wallet[w]
        tot == IF old.lastDay = today THEN old.total ELSE 0
    IN
    /\ old # Null
    /\ old.status = "ACTIVE"
    /\ old.limit = Null \/ tot + a <= old.limit
    /\ a <= old.balance
    /\ wallet' = [wallet EXCEPT ![w] =
                    Row(old.balance - a, old.status, old.limit, tot + a, today)]
    /\ journal' = Append(journal, Ev(w, "FUNDS_WITHDRAWN", a, rid))
    /\ idem' = Store(rid, w, old.balance - a)
    /\ UNCHANGED today

\* The UTC date moves on.
AbsNewDay ==
    /\ today < MaxDay
    /\ today' = today + 1
    /\ UNCHANGED <<wallet, journal, idem>>

AbsNext ==
    \/ \E w \in Wallets, a \in Amounts, rid \in RequestIds \cup {NoRid} :
          AbsDeposit(w, a, rid) \/ AbsWithdraw(w, a, rid)
    \/ AbsNewDay

AbsSpec == AbsInit /\ [][AbsNext]_absVars
=============================================================================
