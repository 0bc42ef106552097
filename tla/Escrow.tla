------------------------------- MODULE Escrow -------------------------------
(***************************************************************************)
(* What the order pipeline promises about money, without callers, runs,    *)
(* rows or entries: the stake of an order is tied up once, in full, and    *)
(* leaves the escrow once, either returned, or paid into a bet of at most  *)
(* that stake and then settled.  OrderPipeline implements this with ledger *)
(* entries keyed by order and an order row that follows them.              *)
(***************************************************************************)
EXTENDS Integers

CONSTANTS
    Orders,    \* one escrow each
    StakeOf    \* the stake of each order, in cents, positive

VARIABLES phase,   \* where each order stands
          tied     \* the money each order ties up, in cents

escrow == <<phase, tied>>

Phases == {"none", "pending", "placed", "paid", "returned", "disputed"}

Init ==
    /\ phase = [o \in Orders |-> "none"]
    /\ tied = [o \in Orders |-> 0]

Step(o, from, to, amount) ==
    /\ phase[o] = from
    /\ phase' = [phase EXCEPT ![o] = to]
    /\ tied' = [tied EXCEPT ![o] = amount]

(* Reserve the stake, or refuse to.                                        *)
Reserve(o) == Step(o, "none", "pending", StakeOf[o])
Refuse(o)  == Step(o, "none", "returned", 0)

(* The order was not taken: the whole stake is free again.                 *)
Return(o) == Step(o, "pending", "returned", 0)

(* Nobody can tell what was taken: the whole stake stays tied up.          *)
Dispute(o) == Step(o, "pending", "disputed", StakeOf[o])

(* The operator took part of the stake, or all; the rest is free again.    *)
Place(o) == \E part \in 1 .. StakeOf[o] : Step(o, "pending", "placed", part)

(* The bet is settled: its stake is gone, its payout is available.         *)
Pay(o) == Step(o, "placed", "paid", 0)

Next == \E o \in Orders :
    Reserve(o) \/ Refuse(o) \/ Return(o) \/ Dispute(o) \/ Place(o) \/ Pay(o)

Spec == Init /\ [][Next]_escrow

=============================================================================
