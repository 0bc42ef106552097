---------------------------- MODULE FixtureSync ----------------------------
(***************************************************************************)
(* The synchronisation of a live match: the calls to the provider          *)
(* (api-football.client.ts), their storage (fixtures-ingestion.service.ts),*)
(* the circuit breaker of the scheduler (fixtures-sync.scheduler.ts, and   *)
(* the same one per phase in odds-sync.scheduler.ts) and the cached reads. *)
(*                                                                         *)
(* A sync asks for the live matches once, then stores the match and, call  *)
(* by call, its parts; no transaction holds that together.  Ticks of the   *)
(* scheduler, syncs asked for over HTTP and reads interleave at every      *)
(* await.  Times are ages: how long ago, up to MaxAge, which stands for    *)
(* "longer than any delay of the program".  Of a part, the events say, only*)
(* the ages of its rows are kept: how long ago the provider gave them.     *)
(***************************************************************************)
EXTENDS MatchRules, FiniteSets, Sequences

CONSTANTS
    Ticks,        \* ticks of the scheduler that may be under way at once
    Requests,     \* POST /fixtures/sync that may be under way at once
    Parts,        \* the parts of a match, in the order they are fetched
    Kinds,        \* kinds of cached answers, one per method that keeps its answer
    RetryMax,     \* RETRY_MAX
    MaxFailures,  \* SCHEDULER_MAX_CONSECUTIVE_FAILURES
    PauseTime,    \* SCHEDULER_PAUSE_DURATION_MS
    CacheTtl,     \* LIVE_READ_CACHE_TTL_MS
    StaleAfter,   \* 120 s
    MaxAge,       \* where ages stop counting
    SyncTime,     \* bound: from an answer to a sync to the last write of it
    ReadTime,     \* bound: duration of a read
    Scorers,      \* bound: the sides that score
    Scores,       \* goals a side may have
    KickOff,      \* the status a match begins with
    Course        \* which status may follow a status

ASSUME DelaysAssumption ==
    /\ {RetryMax, MaxFailures, PauseTime, CacheTtl, StaleAfter, MaxAge, SyncTime, ReadTime}
           \subseteq Nat
    /\ MaxFailures > 0
    /\ 2 * SyncTime + StaleAfter + CacheTtl < MaxAge /\ ReadTime + CacheTtl < MaxAge
ASSUME ActorsAssumption == Ticks \cap Requests = {}
ASSUME PartsAssumption ==
    /\ Parts \in Seq({"events", "statistics", "lineups", "players"})
    /\ Kinds \subseteq {"list", "summary", "detail", "events", "statistics", "lineups", "players"}
ASSUME MatchAssumption ==
    Scores \subseteq Nat /\ KickOff \in FirstHalf /\ Course \in [Statuses -> SUBSET Statuses]

VARIABLES
    match,     \* the match as the provider knows it
    over,      \* how long ago it ended
    row,       \* its fixtures row: data, age of the data, age of lastSyncedAt
    stored,    \* of each part: the ages of its rows, the age of its last write,
               \* and, as history, whether a sync wrote the row and not the part since
    job,       \* the breaker: running, paused, failures, time left of the pause
    sync,      \* where each sync is
    reading,   \* the read under way, by kind
    cache      \* answers, with the time they have left

syncVars == <<match, over, row, stored, job, sync, reading, cache>>

Syncs == Ticks \cup Requests

PartNames == {Parts[i] : i \in DOMAIN Parts}
Replaced  == {"events", "lineups"}    \* deleted, then inserted; the others are added to
Flagging  == {"list", "summary"}      \* the answers that have isStale

(* What an answer needs of the parts besides the row of the match.         *)
PartsOf(k) == {p \in PartNames : k \in {"summary", "detail", p}}

NoRow    == [data |-> [status |-> "NONE"], asOf |-> 0, syncedAt |-> 0]
NoPart   == [ages |-> {}, since |-> MaxAge, behind |-> FALSE]
NoSync   == [at |-> "idle", try |-> 0, part |-> 0, got |-> {}, seen |-> NoRow]
NoAnswer == [flagged |-> FALSE, asOf |-> 0, syncedAt |-> 0, left |-> 0, stage |-> "none",
             todo |-> {}, shown |-> [p \in PartNames |-> [ages |-> {}, behind |-> FALSE]]]

Older(age) == IF age < MaxAge THEN age + 1 ELSE MaxAge

Live == {"1H", "HT", "2H", "ET", "BT", "P", "LIVE", "SUSP", "INT"}

InitSync ==
    /\ match = [status |-> KickOff, score |-> [s \in Sides |-> 0], ht |-> [s \in Sides |-> Unknown]]
    /\ over = 0
    /\ row = NoRow
    /\ stored = [p \in PartNames |-> NoPart]
    /\ job = [running |-> FALSE, paused |-> FALSE, failures |-> 0, left |-> 0]
    /\ sync = [s \in Syncs |-> NoSync]
    /\ reading = [k \in Kinds |-> NoAnswer]
    /\ cache = [k \in Kinds |-> NoAnswer]

-----------------------------------------------------------------------------
(* The scheduler and its breaker *)

(* Mutant: the failures that led to the pause prolong it.                  *)
ResumeIfHealthy ==
    /\ ~job.running /\ job.paused /\ job.left = 0
    /\ job.failures < MaxFailures
    /\ job' = [job EXCEPT !.paused = FALSE]
    /\ UNCHANGED <<match, over, row, stored, sync, reading, cache>>

(* tryResume: the tick that finds the pause over does nothing else.        *)
Resume ==
    /\ ~job.running /\ job.paused /\ job.left = 0
    /\ job' = [job EXCEPT !.paused = FALSE, !.failures = 0]
    /\ UNCHANGED <<match, over, row, stored, sync, reading, cache>>

(* A tick that is not skipped awaits the count of the budget.              *)
BeginTick(t) ==
    /\ sync[t].at = "idle"
    /\ ~job.running /\ ~job.paused
    /\ sync' = [sync EXCEPT ![t].at = "budget"]
    /\ UNCHANGED <<match, over, row, stored, job, reading, cache>>

(* hasBudget: calls of everybody in the last minute, here any number.      *)
Throttled(t) ==
    /\ sync[t].at = "budget"
    /\ sync' = [sync EXCEPT ![t] = NoSync]
    /\ UNCHANGED <<match, over, row, stored, job, reading, cache>>

(* Only now is the flag set that makes other ticks skip.                   *)
StartSync(t) ==
    /\ sync[t].at = "budget"
    /\ sync' = [sync EXCEPT ![t].at = "live"]
    /\ job' = [job EXCEPT !.running = TRUE]
    /\ UNCHANGED <<match, over, row, stored, reading, cache>>

(* POST /fixtures/sync: neither flag, nor breaker, nor budget.             *)
RequestSync(s) ==
    /\ sync[s].at = "idle"
    /\ sync' = [sync EXCEPT ![s].at = "live"]
    /\ UNCHANGED <<match, over, row, stored, job, reading, cache>>

(* onSyncSuccess, then the finally of the tick.                            *)
Succeeded(s) == IF s \in Requests THEN job ELSE [job EXCEPT !.running = FALSE, !.failures = 0]

(* onSyncFailure, then the finally of the tick.                            *)
Failed(s) ==
    LET n == job.failures + 1
    IN  IF s \in Requests THEN job
        ELSE IF n >= MaxFailures
        THEN [running |-> FALSE, paused |-> TRUE, failures |-> n, left |-> PauseTime]
        ELSE [job EXCEPT !.running = FALSE, !.failures = n]

-----------------------------------------------------------------------------
(* The calls *)

Calling(s) == sync[s].at \in {"live", "teams", "part"}

(* An attempt fails and is worth another: no answer, 429, 5xx, or the      *)
(* usage of a successful call could not be logged.                         *)
Retry(s) ==
    \E n \in 1 .. RetryMax :
        /\ Calling(s)
        /\ sync[s].try = n - 1
        /\ sync' = [sync EXCEPT ![s].try = n]
        /\ UNCHANGED <<match, over, row, stored, job, reading, cache>>

(* The call, or a write, fails for good: the rest of the sync is dropped,  *)
(* the cache keeps what it has.                                            *)
SyncFails(s) ==
    /\ sync[s].at \notin {"idle", "budget", "evaluating"}
    /\ sync' = [sync EXCEPT ![s] = NoSync]
    /\ job' = Failed(s)
    /\ UNCHANGED <<match, over, row, stored, reading, cache>>

Answered(s, at) == [sync[s] EXCEPT !.at = at, !.try = 0]

(* fetchLiveFixtures.  A match that has ended is not in the list; neither  *)
(* is any in an answer that is not a list, an error body for instance.     *)
FetchLive(s) ==
    /\ sync[s].at = "live"
    /\ \/ /\ match.status \in Live
          /\ sync' = [sync EXCEPT ![s] = [Answered(s, "store") EXCEPT
                                            !.seen = [data |-> match, asOf |-> 0, syncedAt |-> 0]]]
       \/ sync' = [sync EXCEPT ![s] = Answered(s, "finish")]
    /\ UNCHANGED <<match, over, row, stored, job, reading, cache>>

(* upsertFixture: lastSyncedAt is the time of this write, which leaves the *)
(* parts behind until theirs.                                              *)
StoreMatch(s) ==
    /\ sync[s].at = "store"
    /\ row' = [sync[s].seen EXCEPT !.syncedAt = 0]
    /\ stored' = [p \in PartNames |-> [stored[p] EXCEPT !.behind = TRUE]]
    /\ sync' = [sync EXCEPT ![s] = [@ EXCEPT !.at = "teams", !.seen = NoRow]]
    /\ UNCHANGED <<match, over, job, reading, cache>>

(* The parts are fetched and stored one by one.                            *)
ToPart(s, n) ==
    IF n <= Len(Parts) THEN [Answered(s, "part") EXCEPT !.part = n, !.got = {}]
    ELSE [Answered(s, "finish") EXCEPT !.part = 0, !.got = {}]

Part(s) == Parts[sync[s].part]

(* upsertTeamsByLeague, fillFixtureTeamsFromRepository: names and badges.  *)
StoreTeams(s) ==
    /\ sync[s].at = "teams"
    /\ sync' = [sync EXCEPT ![s] = ToPart(s, 1)]
    /\ UNCHANGED <<match, over, row, stored, job, reading, cache>>

(* The answer may be empty, as that of a provider without this part or an  *)
(* error body is; the rows of a part that is added to then stay.           *)
FetchPart(s) ==
    /\ sync[s].at = "part"
    /\ \E got \in {{}, {0}} :
           sync' = [sync EXCEPT ![s] =
                       CASE Part(s) \in Replaced -> [Answered(s, "clear") EXCEPT !.got = got]
                         [] Part(s) \notin Replaced /\ got # {} -> [Answered(s, "insert") EXCEPT !.got = got]
                         [] OTHER -> ToPart(s, sync[s].part + 1)]
    /\ UNCHANGED <<match, over, row, stored, job, reading, cache>>

(* replaceFixtureEvents, replaceFixtureLineups: the rows are deleted, by a *)
(* query of its own.                                                       *)
ClearPart(s) ==
    /\ sync[s].at = "clear"
    /\ stored' = [stored EXCEPT ![Part(s)] = [@ EXCEPT !.ages = {}, !.since = 0]]
    /\ sync' = [sync EXCEPT ![s] = IF sync[s].got = {} THEN ToPart(s, sync[s].part + 1)
                                   ELSE [@ EXCEPT !.at = "insert"]]
    /\ UNCHANGED <<match, over, row, job, reading, cache>>

(* The rows are inserted, next to those another sync has inserted since    *)
(* the delete.  Of a part that is added to, the latest snapshot is read.   *)
InsertPart(s) ==
    /\ sync[s].at = "insert"
    /\ stored' = [stored EXCEPT ![Part(s)] =
                     [ages |-> sync[s].got \cup (IF Part(s) \in Replaced THEN @.ages ELSE {}),
                      since |-> 0, behind |-> FALSE]]
    /\ sync' = [sync EXCEPT ![s] = ToPart(s, sync[s].part + 1)]
    /\ UNCHANGED <<match, over, row, job, reading, cache>>

(* invalidateReadCache; the evaluation of the rules follows.               *)
FinishSync(s) ==
    /\ sync[s].at = "finish"
    /\ cache' = [k \in Kinds |-> NoAnswer]
    /\ sync' = [sync EXCEPT ![s] = [NoSync EXCEPT !.at = "evaluating"]]
    /\ job' = Succeeded(s)
    /\ UNCHANGED <<match, over, row, stored, reading>>

-----------------------------------------------------------------------------
(* Cached reads *)

Hit(k) == cache[k].stage = "cached"

IsStale(syncedAt) == syncedAt > StaleAfter

(* The row of the match is read first.                                     *)
BeginRead(k) ==
    /\ reading[k] = NoAnswer /\ ~Hit(k)
    /\ row # NoRow
    /\ reading' = [reading EXCEPT ![k] = [NoAnswer EXCEPT !.asOf = row.asOf, !.syncedAt = row.syncedAt,
                                                          !.left = ReadTime, !.stage = "reading",
                                                          !.todo = PartsOf(k)]]
    /\ cache' = [cache EXCEPT ![k] = NoAnswer]
    /\ UNCHANGED <<match, over, row, stored, job, sync>>

(* The parts it needs are asked for at once and come in any order.         *)
ReadPart(k, p) ==
    /\ p \in reading[k].todo
    /\ reading' = [reading EXCEPT ![k].todo = @ \ {p},
                                  ![k].shown[p] = [ages |-> stored[p].ages, behind |-> stored[p].behind]]
    /\ UNCHANGED <<match, over, row, stored, job, sync, cache>>

(* The answer is put together and kept, whatever was invalidated meanwhile.*)
(* Its flag, when it has one, is about the row alone.                      *)
EndRead(k) ==
    /\ reading[k].stage = "reading" /\ reading[k].todo = {}
    /\ cache' = [cache EXCEPT ![k] =
                    [reading[k] EXCEPT !.flagged = k \in Flagging /\ IsStale(reading[k].syncedAt),
                                       !.syncedAt = 0, !.left = CacheTtl, !.stage = "cached"]]
    /\ reading' = [reading EXCEPT ![k] = NoAnswer]
    /\ UNCHANGED <<match, over, row, stored, job, sync>>

-----------------------------------------------------------------------------
(* The world *)

(* External: the match goes on, a side scores, a period ends.              *)
MatchGoesOn ==
    \/ /\ \E next \in Course[match.status] :
              match' = [match EXCEPT !.status = next,
                                     !.ht = IF next = "HT" THEN match.score ELSE @]
    \/ /\ match.status \in FirstHalf \cup SecondHalf
       /\ \E s \in Scorers : /\ match.score[s] + 1 \in Scores
                             /\ match' = [match EXCEPT !.score[s] = @ + 1]

PlayOn == MatchGoesOn /\ UNCHANGED <<over, row, stored, job, sync, reading, cache>>

AgedRow(r) == IF r = NoRow THEN r ELSE [r EXCEPT !.asOf = Older(@), !.syncedAt = Older(@)]

AgedPart(r) == [r EXCEPT !.ages = {Older(age) : age \in @}, !.since = Older(@)]

AgedShown(shown) ==
    [p \in PartNames |-> [shown[p] EXCEPT !.ages = {Older(age) : age \in @}]]

Aged(a) == [a EXCEPT !.asOf = Older(@), !.left = @ - 1, !.shown = AgedShown(@)]

(* Mutant: an entry is extended while it is asked for.                     *)
KeptWarm(a) == IF a = NoAnswer THEN a ELSE [Aged(a) EXCEPT !.left = IF a.left = 0 THEN CacheTtl ELSE @]

(* An entry counts until its time is over.                                 *)
Kept(a) == IF a.left = 0 THEN NoAnswer ELSE Aged(a)

(* Time passes; answers and reads take no longer than their bounds.        *)
AgeSync ==
    /\ \A s \in Syncs : /\ sync[s].at = "store" => sync[s].seen.asOf < SyncTime
                        /\ \A age \in sync[s].got : age < SyncTime
    /\ \A k \in Kinds : reading[k].stage = "reading" => reading[k].left > 0
    /\ over' = IF match.status \in Live THEN over ELSE Older(over)
    /\ row' = AgedRow(row)
    /\ stored' = [p \in PartNames |-> AgedPart(stored[p])]
    /\ sync' = [s \in Syncs |-> [sync[s] EXCEPT !.seen = AgedRow(@), !.got = {Older(age) : age \in @}]]
    /\ reading' = [k \in Kinds |-> IF reading[k] = NoAnswer THEN NoAnswer
                                   ELSE [Aged(reading[k]) EXCEPT !.syncedAt = Older(@)]]
    /\ cache' = [k \in Kinds |-> Kept(cache[k])]
    /\ job' = [job EXCEPT !.left = IF @ > 0 THEN @ - 1 ELSE 0]
    /\ UNCHANGED match

SyncStep(s) ==
    \/ Retry(s) \/ SyncFails(s) \/ FetchLive(s) \/ StoreMatch(s) \/ StoreTeams(s)
    \/ FetchPart(s) \/ ClearPart(s) \/ InsertPart(s) \/ FinishSync(s)

(* What the module does but for the passing of time and what follows a     *)
(* sync, which Coupons adds.                                               *)
NextSync ==
    \/ Resume
    \/ \E t \in Ticks : BeginTick(t) \/ Throttled(t) \/ StartSync(t)
    \/ \E s \in Requests : RequestSync(s)
    \/ \E s \in Syncs : SyncStep(s)
    \/ \E k \in Kinds : BeginRead(k) \/ (\E p \in PartNames : ReadPart(k, p)) \/ EndRead(k)
    \/ PlayOn

(* What follows a sync, on its own; Coupons says what it does.             *)
Evaluated(s) ==
    /\ sync[s].at = "evaluating"
    /\ sync' = [sync EXCEPT ![s] = NoSync]
    /\ UNCHANGED <<match, over, row, stored, job, reading, cache>>

(* The program stops and starts again: only the rows are left.             *)
RestartSync ==
    /\ job' = [running |-> FALSE, paused |-> FALSE, failures |-> 0, left |-> 0]
    /\ sync' = [s \in Syncs |-> NoSync]
    /\ reading' = [k \in Kinds |-> NoAnswer]
    /\ cache' = [k \in Kinds |-> NoAnswer]
    /\ UNCHANGED <<match, over, row, stored>>

Feed ==
    \/ NextSync
    \/ \E s \in Syncs : Evaluated(s)
    \/ RestartSync
    \/ AgeSync

FeedSpec == InitSync /\ [][Feed]_syncVars

(* Timers fire and awaited calls end, well or not.                         *)
FairFeed ==
    /\ FeedSpec
    /\ WF_syncVars(AgeSync) /\ WF_syncVars(Resume)
    /\ \A s \in Syncs : WF_syncVars(Throttled(s) \/ SyncStep(s) \/ Evaluated(s))
    /\ \A k \in Kinds : WF_syncVars((\E p \in PartNames : ReadPart(k, p)) \/ EndRead(k))

-----------------------------------------------------------------------------
(* Properties *)

(* What isStale = false is worth: the row was the provider's word at most  *)
(* the sum of the delays ago, and so was every part but those a sync left  *)
(* behind.  The flag is taken from lastSyncedAt, which is written before   *)
(* the parts: when a sync fails after it or gets nothing for a part, that  *)
(* part may be of any age in an answer that does not call itself stale.    *)
FlagsAreHonest ==
    \A k \in Kinds \cap Flagging : Hit(k) /\ ~cache[k].flagged =>
        /\ cache[k].asOf <= SyncTime + StaleAfter + CacheTtl
        /\ \A p \in PartsOf(k) : ~cache[k].shown[p].behind =>
              \A age \in cache[k].shown[p].ages : age <= 2 * SyncTime + StaleAfter + CacheTtl

(* Any answer differs from the rows only while their last change is recent,*)
(* even when that change invalidated the cache, or failed to, while the    *)
(* answer was being put together from them.                                *)
AnswersFollowTheRows ==
    \A k \in Kinds : Hit(k) =>
        /\ cache[k].asOf # row.asOf => row.syncedAt <= ReadTime + CacheTtl
        /\ \A p \in PartsOf(k) :
              cache[k].shown[p].ages # stored[p].ages => stored[p].since <= ReadTime + CacheTtl

(* What a cached answer shows is of a bounded age: by its flag, if it has  *)
(* one, and next to the rows, whichever it is.                             *)
AnswersAreFresh == FlagsAreHonest /\ AnswersFollowTheRows

(* A pause ends, whatever syncs still fail when it begins.                 *)
PausesEnd == job.paused ~> ~job.paused
=============================================================================
