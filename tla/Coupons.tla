------------------------------ MODULE Coupons ------------------------------
(***************************************************************************)
(* The history of suggested bets (smart-suggestions.service.ts): what each *)
(* sync of FixtureSync makes of the rules, the coupons it records, their   *)
(* resolution after every sync and every two minutes, and the purge of     *)
(* what can no longer be known (cleanup.service.ts).  No lock and no       *)
(* transaction: each query is a step.                                      *)
(*                                                                         *)
(* An evaluation uses the place of the sync that started it; two of them   *)
(* run at once when two syncs may.                                         *)
(***************************************************************************)
EXTENDS FixtureSync

CONSTANTS
    Bets,         \* the bets a coupon may be about
    Cron,         \* the resolution every two minutes, or POST /recommendations/resolve
    PurgeAfter,   \* 24 h
    EvalTime,     \* bound: from reading the match to recording the coupons
    MaxCrashes    \* bound: restarts of the program

ASSUME PurgeAssumption == /\ {PurgeAfter, EvalTime, MaxCrashes} \subseteq Nat
                          /\ StaleAfter < PurgeAfter /\ PurgeAfter < MaxAge
ASSUME CronAssumption == Cron \notin Syncs
ASSUME BetsAssumption == Bets \subseteq [market : Markets, side : Sides]

VARIABLES
    coupons,      \* smart_coupons rows
    eval,         \* where each evaluation and the cron are
    purging,      \* the purge has found the match stale
    crashes

vars == <<syncVars, coupons, eval, purging, crashes>>

Evaluators == Syncs \cup {Cron}

NoEval == [at |-> "idle", age |-> 0, bets |-> {}, todo |-> {}]

Coupon(id, bet, status) == [id |-> id, bet |-> bet, status |-> status]
Pending == {c \in coupons : c.status = "PENDING"}

Init ==
    /\ InitSync
    /\ coupons = {}
    /\ eval = [p \in Evaluators |-> NoEval]
    /\ purging = FALSE
    /\ crashes = 0

-----------------------------------------------------------------------------
(* Suggestions *)

(* Which half of the match a market is suggested in.  The status does not  *)
(* always tell; the minute does, and the score at half time stands for it. *)
Opens(m) ==
    LET second == \E s \in Sides : m.ht[s] # Unknown
    IN  (IF m.status \in FirstHalf /\ ~second THEN {Half1, Full} ELSE {})
            \cup (IF m.status \in SecondHalf /\ second THEN {Half2} ELSE {})

(* Mutant: the age of the row is not asked for.                            *)
AnyRowOpens(r) == IF r = NoRow THEN {} ELSE {b \in Bets : b.market \in Opens(r.data)}

(* A row that was synchronised lately, in the half of the market.          *)
Suggestible(r) ==
    IF r = NoRow \/ IsStale(r.syncedAt) THEN {}
    ELSE {b \in Bets : b.market \in Opens(r.data)}

(* evaluateLiveSignals, attachExecutableQuotes: those of the bets whose    *)
(* thresholds are met and that somebody quotes, here any of them.          *)
Suggest(s) ==
    /\ sync[s].at = "evaluating" /\ eval[s].at = "idle"
    /\ \E found \in SUBSET Suggestible(row) :
           eval' = [eval EXCEPT ![s] = IF found = {} THEN [NoEval EXCEPT !.at = "pending"]
                                       ELSE [NoEval EXCEPT !.at = "existing", !.bets = found]]
    /\ UNCHANGED <<syncVars, coupons, purging, crashes>>

(* The recommendations are replaced; then the bets that have a coupon, in  *)
(* whatever status, are left out.                                          *)
FindExisting(s) ==
    /\ eval[s].at = "existing"
    /\ eval' = [eval EXCEPT ![s].at = "insert", ![s].bets = @ \ {c.bet : c \in coupons}]
    /\ UNCHANGED <<syncVars, coupons, purging, crashes>>

Known  == coupons \cup UNION {eval[p].todo : p \in Evaluators}
Unused == (1 .. Cardinality(Known) + Cardinality(Bets)) \ {c.id : c \in Known}

InsertCoupons(s) ==
    /\ eval[s].at = "insert"
    /\ LET ids == CHOOSE f \in [eval[s].bets -> Unused] : IsInjective(f)
       IN  coupons' = coupons \cup {Coupon(ids[b], b, "PENDING") : b \in eval[s].bets}
    /\ eval' = [eval EXCEPT ![s] = [NoEval EXCEPT !.at = "pending"]]
    /\ UNCHANGED <<syncVars, purging, crashes>>

(* Whatever fails before, the resolution follows.                          *)
EvaluationFails(s) ==
    /\ eval[s].at \in {"existing", "insert"} \/ (sync[s].at = "evaluating" /\ eval[s].at = "idle")
    /\ eval' = [eval EXCEPT ![s] = [NoEval EXCEPT !.at = "pending"]]
    /\ UNCHANGED <<syncVars, coupons, purging, crashes>>

-----------------------------------------------------------------------------
(* Resolution *)

BeginCron ==
    /\ eval[Cron].at = "idle"
    /\ eval' = [eval EXCEPT ![Cron].at = "pending"]
    /\ UNCHANGED <<syncVars, coupons, purging, crashes>>

(* The place of an evaluation is free again when it ends.                  *)
Leave(p) ==
    /\ eval' = [eval EXCEPT ![p] = NoEval]
    /\ sync' = IF p \in Syncs THEN [sync EXCEPT ![p] = NoSync] ELSE sync

FindPending(p) ==
    /\ eval[p].at = "pending"
    /\ IF Pending = {} THEN Leave(p)
       ELSE /\ eval' = [eval EXCEPT ![p].at = "rows", ![p].todo = Pending]
            /\ UNCHANGED sync
    /\ UNCHANGED <<match, over, row, stored, job, reading, cache, coupons, purging, crashes>>

CouponOutcome(bet) == ResolveOutcome(row.data, bet)

(* The rows of the matches, and what they decide: the other coupons are    *)
(* passed over.                                                            *)
ReadRows(p) ==
    /\ eval[p].at = "rows"
    /\ eval' = [eval EXCEPT ![p].at = "save",
                           ![p].todo = {[c EXCEPT !.status = CouponOutcome(c.bet)] :
                                           c \in {d \in @ : CouponOutcome(d.bet) # "OPEN"}}]
    /\ UNCHANGED <<syncVars, coupons, purging, crashes>>

(* save() writes the coupon as it was read, with its status: one deleted   *)
(* meanwhile comes back.  They are read in no particular order.            *)
SaveCoupon(p) ==
    /\ eval[p].at = "save"
    /\ \E c \in eval[p].todo :
           /\ eval' = [eval EXCEPT ![p].todo = @ \ {c}]
           /\ coupons' = {d \in coupons : d.id # c.id} \cup {c}
    /\ UNCHANGED <<syncVars, purging, crashes>>

ResolutionEnds(p) ==
    /\ eval[p].at = "save" /\ eval[p].todo = {}
    /\ Leave(p)
    /\ UNCHANGED <<match, over, row, stored, job, reading, cache, coupons, purging, crashes>>

(* A query fails: the rest of the coupons waits for the next resolution.   *)
ResolutionFails(p) ==
    /\ eval[p].at \in {"pending", "rows", "save"}
    /\ Leave(p)
    /\ UNCHANGED <<match, over, row, stored, job, reading, cache, coupons, purging, crashes>>

-----------------------------------------------------------------------------
(* The purge of every hour *)

FindStale ==
    /\ ~purging
    /\ row # NoRow /\ row.syncedAt > PurgeAfter
    /\ purging' = TRUE
    /\ UNCHANGED <<syncVars, coupons, eval, crashes>>

(* Mutant: the coupons are left.                                           *)
PurgeRecommendations ==
    /\ purging
    /\ purging' = FALSE
    /\ UNCHANGED <<syncVars, coupons, eval, crashes>>

PurgeCoupons ==
    /\ purging
    /\ coupons' = coupons \ Pending
    /\ purging' = FALSE
    /\ UNCHANGED <<syncVars, eval, crashes>>

-----------------------------------------------------------------------------
(* The program stops and starts again: only the rows are left.             *)
Crash ==
    /\ crashes < MaxCrashes
    /\ crashes' = crashes + 1
    /\ RestartSync
    /\ eval' = [p \in Evaluators |-> NoEval]
    /\ purging' = FALSE
    /\ UNCHANGED coupons

(* Time passes; recording coupons takes no longer than its bound.          *)
Wait ==
    /\ \A p \in Evaluators : eval[p].at \in {"existing", "insert"} => eval[p].age < EvalTime
    /\ AgeSync
    /\ eval' = [p \in Evaluators |-> IF eval[p].at \in {"existing", "insert"}
                                     THEN [eval[p] EXCEPT !.age = @ + 1] ELSE eval[p]]
    /\ UNCHANGED <<coupons, purging, crashes>>

Resolution(p) == FindPending(p) \/ ReadRows(p) \/ SaveCoupon(p) \/ ResolutionEnds(p)

Next ==
    \/ NextSync /\ UNCHANGED <<coupons, eval, purging, crashes>>
    \/ \E s \in Syncs : Suggest(s) \/ FindExisting(s) \/ InsertCoupons(s) \/ EvaluationFails(s)
    \/ BeginCron
    \/ \E p \in Evaluators : Resolution(p) \/ ResolutionFails(p)
    \/ FindStale \/ PurgeCoupons
    \/ Crash
    \/ Wait

Spec == Init /\ [][Next]_vars

(* Timers fire, queries and calls end, matches go on.  The provider may    *)
(* fail for ever, and so may the database under the cron.                  *)
Fairness ==
    /\ WF_vars(Wait)
    /\ WF_vars(Resume /\ UNCHANGED <<coupons, eval, purging, crashes>>)
    /\ WF_vars(\E next \in Course[match.status] : match' = [match EXCEPT !.status = next,
                     !.ht = IF next = "HT" THEN match.score ELSE @]
                 /\ PlayOn /\ UNCHANGED <<coupons, eval, purging, crashes>>)
    /\ \A s \in Syncs :
           /\ WF_vars((Throttled(s) \/ SyncStep(s)) /\ UNCHANGED <<coupons, eval, purging, crashes>>)
           /\ WF_vars(Suggest(s) \/ FindExisting(s) \/ InsertCoupons(s))
           /\ WF_vars(Resolution(s))
    /\ \A k \in Kinds : WF_vars(/\ (\E p \in PartNames : ReadPart(k, p)) \/ EndRead(k)
                               /\ UNCHANGED <<coupons, eval, purging, crashes>>)
    /\ WF_vars(FindStale) /\ WF_vars(PurgeCoupons)

FairSpec == Spec /\ Fairness

-----------------------------------------------------------------------------
(* Properties *)

(* A match that is played to its end, with statuses that tell its halves   *)
(* apart: it is not interrupted, called off or awarded to a side.          *)
PlayedThrough ==
    /\ KickOff = "1H" /\ Course["1H"] \subseteq {"HT"}
    /\ \A s \in PostHalf \ Finished : Course[s] \subseteq PostHalf \ {"HT", "WO"}
    /\ \A s \in Finished : Course[s] \subseteq Finished \ {"WO"}

(* What a coupon was resolved to while its match went on, from rows of any *)
(* age, is what the finished match says.                                   *)
CouponsAreTrue ==
    match.status \in Finished =>
        \A c \in coupons : c.status # "PENDING" => c.status = ResolveOutcome(match, c.bet)

(* No bet is suggested on a match that ended longer ago than the delays    *)
(* add up to, although the program never hears of the end of a match.      *)
SuggestedInPlay ==
    [][{c \in coupons' \ coupons : c.status = "PENDING"} # {} =>
         over <= SyncTime + StaleAfter + EvalTime]_vars

(* A coupon does not stay pending: it is resolved, or purged when its      *)
(* match is not synchronised any more.                                     *)
CouponsEnd == \A b \in Bets : (\E c \in Pending : c.bet = b) ~> ~(\E c \in Pending : c.bet = b)
=============================================================================
