-------------------------- MODULE MC_WalletEngine --------------------------
(* Instantiates WalletEngine for TLC: the handler and wallet sets are model *)
(* values given in the .cfg files; the bounds are definitions here.        *)
EXTENDS WalletEngine, TLC

\* Two handlers racing is what every hazard of this path needs.
MCAmounts == {1, 2}
MCLimits == {Null, 1}
MCMaxRequests == 3
MCMaxDay == 1

\* Deposits and withdrawals only: the row-locked path.
MoneyPath == {"deposit", "withdraw"}
\* Every handler.
AllHandlers == {"deposit", "withdraw", "freeze", "unfreeze", "close",
                "setLimit", "getBalance"}

\* Reaching a closed wallet takes a deposit, a withdrawal of it and a close.
MCMaxRequestsLong == 5
CloseRace == {"deposit", "withdraw", "close", "freeze"}

\* A careful client: only withdrawals carry a request id, one per
\* withdrawal it means; deposits carry none.
RetriedWithdrawals ==
    [op : {"withdraw"}, w : Wallets, arg : Amounts, rid : RequestIds]
    \cup [op : {"deposit"}, w : Wallets, arg : Amounts, rid : {NoRid}]

\* Amounts in tenths of a cent: 0.005 and 0.01, both admitted by the
\* DTO's @IsNumber() @IsPositive().
MCSubCent == 10
MCSubCentAmounts == {5, 10}
MCNoLimit == {Null}

ProcSymmetry == Permutations(Procs)
=============================================================================
