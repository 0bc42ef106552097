---------------------------- MODULE LedgerRules ----------------------------
(***************************************************************************)
(* The accounting rules of the bankroll ledger, as pure operators over     *)
(* integer cents: movementEffect and planEntry of ledger.service.ts, and   *)
(* what one append does to an account.  No state: Ledger and OrderPipeline *)
(* both build on these definitions.                                        *)
(***************************************************************************)
EXTENDS Integers

EntryTypes == {"RESERVE", "RELEASE", "SETTLE", "ADJUSTMENT"}

(* A movement names a stake and, for SETTLE, the gross payout; an          *)
(* ADJUSTMENT carries its signed amount in `paid`.                         *)
ValidMovement(type, stake, paid) ==
    \/ type \in {"RESERVE", "RELEASE"} /\ stake > 0
    \/ type = "SETTLE" /\ stake > 0 /\ paid >= 0
    \/ type = "ADJUSTMENT" /\ paid # 0

(* What an entry adds to the available and to the reserved balance.        *)
MovementEffect(type, stake, paid) ==
    CASE type = "RESERVE"    -> [amount |-> -stake, delta |-> stake]
      [] type = "RELEASE"    -> [amount |-> stake,  delta |-> -stake]
      [] type = "SETTLE"     -> [amount |-> paid,   delta |-> -stake]
      [] type = "ADJUSTMENT" -> [amount |-> paid,   delta |-> 0]

After(balances, effect) ==
    [available |-> balances.available + effect.amount,
     reserved  |-> balances.reserved + effect.delta]

(* planEntry: a reservation needs the money, a release or a settlement     *)
(* needs the reserve, and no balance may end below zero.                   *)
Plannable(type, balances, effect) ==
    /\ type = "RESERVE" => balances.available >= -effect.amount
    /\ type \in {"RELEASE", "SETTLE"} => balances.reserved >= -effect.delta
    /\ After(balances, effect).available >= 0
    /\ After(balances, effect).reserved >= 0

=============================================================================
