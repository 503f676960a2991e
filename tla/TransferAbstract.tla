-------------------------- MODULE TransferAbstract --------------------------
(***************************************************************************)
(* What a transfer promises (spec sections 4.3, 4.4 and 8), with no legs,  *)
(* no saga row and no recovery: once requested, a transfer is decided in   *)
(* one indivisible step, in one of two ways -                              *)
(*   moved:     the amount leaves the source and reaches the destination; *)
(*   cancelled: no balance changes (debit refused, or debit refunded).     *)
(* Spec 4.3 also lets a transfer from a source closed before compensation *)
(* end FAILED with the amount kept. The code never does this: its refund  *)
(* to a CLOSED source rolls back and the saga stays DEBITED. So the       *)
(* abstraction has no such outcome, and a saga that keeps a debit in a    *)
(* FAILED row does not implement it.                                      *)
(* A transfer never takes more than the source holds, and is decided at   *)
(* most once. TransferSaga is checked to implement this specification.    *)
(***************************************************************************)
EXTENDS Naturals

CONSTANTS Wallets, Sagas, Transfer, InitBalance

VARIABLES absBal, absState

absVars == <<absBal, absState>>

Src(s) == Transfer[s].from
Dst(s) == Transfer[s].to
Amount(s) == Transfer[s].amt

\* Take a from the source and give b to the destination of transfer s.
Shift(s, a, b) ==
    absBal' = [w \in Wallets |->
                 absBal[w] - (IF w = Src(s) THEN a ELSE 0)
                           + (IF w = Dst(s) THEN b ELSE 0)]

AbsInit ==
    /\ absBal = InitBalance
    /\ absState = [s \in Sagas |-> "none"]

Request(s) ==
    /\ absState[s] = "none"
    /\ absState' = [absState EXCEPT ![s] = "open"]
    /\ UNCHANGED absBal

Decide(s, outcome) ==
    /\ absState[s] = "open"
    /\ absState' = [absState EXCEPT ![s] = outcome]

Move(s) ==
    /\ Decide(s, "moved")
    /\ absBal[Src(s)] >= Amount(s)
    /\ Shift(s, Amount(s), Amount(s))

Cancel(s) ==
    /\ Decide(s, "cancelled")
    /\ UNCHANGED absBal

AbsNext == \E s \in Sagas : Request(s) \/ Move(s) \/ Cancel(s)

AbsSpec == AbsInit /\ [][AbsNext]_absVars
=============================================================================
