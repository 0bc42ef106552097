--------------------------- MODULE CouponsProofs ---------------------------
(***************************************************************************)
(* Cached answers are as fresh as the delays allow, and the coupons of a   *)
(* match that is played through say what its result says and are made      *)
(* while it goes on, for any syncs, bets and delays.  The synchronisation  *)
(* is treated by itself first: Coupons is shown to take only its steps.    *)
(***************************************************************************)
EXTENDS Coupons, TLAPS

Ages    == 0 .. MaxAge
Matches == [status : Statuses, score : [Sides -> Nat], ht : [Sides -> Nat \cup {Unknown}]]
Rows    == {NoRow} \cup [data : Matches, asOf : Ages, syncedAt : Ages]
Places  == {"idle", "budget", "live", "store", "teams", "part", "clear", "insert", "finish",
            "evaluating"}
Jobs    == [running : BOOLEAN, paused : BOOLEAN, failures : Nat, left : Nat]
Running == [at : Places, try : Nat, part : Nat, got : SUBSET Ages, seen : Rows]
Storage == [PartNames -> [ages : SUBSET Ages, since : Ages, behind : BOOLEAN]]
Shown   == [PartNames -> [ages : SUBSET Ages, behind : BOOLEAN]]
Answers == [flagged : BOOLEAN, asOf : Ages, syncedAt : Ages, left : Nat,
            stage : {"none", "reading", "cached"}, todo : SUBSET PartNames, shown : Shown]

FeedTypes ==
    /\ match \in Matches
    /\ over \in Ages
    /\ row \in Rows
    /\ stored \in Storage
    /\ job \in Jobs
    /\ sync \in [Syncs -> Running]
    /\ reading \in [Kinds -> Answers]
    /\ cache \in [Kinds -> Answers]

LEMMA ConstantsAreTyped ==
    /\ RetryMax \in Nat /\ MaxFailures \in Nat /\ PauseTime \in Nat /\ CacheTtl \in Nat
    /\ StaleAfter \in Nat /\ MaxAge \in Nat /\ SyncTime \in Nat /\ ReadTime \in Nat
    /\ Len(Parts) \in Nat
BY DelaysAssumption, PartsAssumption

LEMMA AgesGrow ==
    ASSUME NEW age \in Ages
    PROVE  /\ Older(age) \in Ages
           /\ age <= Older(age) /\ Older(age) <= age + 1
           /\ \A a \in Ages : a <= age => Older(a) <= Older(age)
BY ConstantsAreTyped DEF Ages, Older

(* Two ages keep their distance, or come closer at MaxAge.                 *)
LEMMA AgeTogether ==
    ASSUME NEW a \in Ages, NEW b \in Ages, NEW n \in Nat, a <= b + n
    PROVE  Older(a) <= Older(b) + n
BY ConstantsAreTyped DEF Ages, Older

(* NoRow cannot be mistaken for a row of a match.                          *)
LEMMA NoRowIsNone ==
    /\ NoRow \in Rows
    /\ \A r \in [data : Matches, asOf : Ages, syncedAt : Ages] : r # NoRow
<1>1. "NONE" \notin Statuses
  BY DEF Statuses, FirstHalf, PostHalf, Voided, Finished
<1> QED
  BY <1>1 DEF NoRow, Rows, Matches

LEMMA RowsAge ==
    ASSUME NEW r \in Rows
    PROVE  /\ AgedRow(r) \in Rows
           /\ (AgedRow(r) = NoRow) <=> (r = NoRow)
           /\ r # NoRow => /\ AgedRow(r).data = r.data
                           /\ AgedRow(r).asOf = Older(r.asOf)
                           /\ AgedRow(r).syncedAt = Older(r.syncedAt)
<1>1. CASE r = NoRow
  BY <1>1 DEF AgedRow
<1>2. CASE r # NoRow
  <2>1. r \in [data : Matches, asOf : Ages, syncedAt : Ages]
    BY <1>2 DEF Rows
  <2>2. AgedRow(r) = [data |-> r.data, asOf |-> Older(r.asOf), syncedAt |-> Older(r.syncedAt)]
    BY <1>2, <2>1 DEF AgedRow
  <2>3. AgedRow(r) \in [data : Matches, asOf : Ages, syncedAt : Ages]
    BY <2>1, <2>2, AgesGrow
  <2> QED
    BY <1>2, <2>2, <2>3, NoRowIsNone DEF Rows
<1> QED
  BY <1>1, <1>2

LEMMA NoSyncIsTyped ==
    /\ NoSync \in Running
    /\ NoSync.at = "idle" /\ NoSync.got = {}
BY NoRowIsNone DEF NoSync, Places, Running

LEMMA NoAnswerIsTyped == NoAnswer \in Answers /\ NoAnswer.stage = "none"
BY ConstantsAreTyped DEF NoAnswer, Answers, Ages, Shown

LEMMA FirstStateIsTyped == InitSync => FeedTypes
<1> SUFFICES ASSUME InitSync PROVE FeedTypes
  OBVIOUS
<1>1. match \in Matches
  BY MatchAssumption DEF InitSync, Matches, Statuses, Unknown
<1>2. over \in Ages /\ 0 \in Ages /\ MaxAge \in Ages
  BY ConstantsAreTyped DEF InitSync, Ages
<1>3. sync \in [Syncs -> Running]
  BY NoSyncIsTyped DEF InitSync
<1>4. reading \in [Kinds -> Answers] /\ cache \in [Kinds -> Answers]
  BY NoAnswerIsTyped DEF InitSync
<1>5. job \in Jobs
  BY DEF InitSync, Jobs
<1>6. row \in Rows
  BY NoRowIsNone DEF InitSync
<1>7. stored \in Storage
  BY <1>2 DEF InitSync, NoPart, Storage
<1> QED
  BY <1>1, <1>2, <1>3, <1>4, <1>5, <1>6, <1>7 DEF FeedTypes

(* The match: a status follows, or a side scores.                          *)
LEMMA MatchStaysTyped ==
    ASSUME match \in Matches, MatchGoesOn
    PROVE  match' \in Matches
<1>1. CASE \E next \in Course[match.status] :
              match' = [match EXCEPT !.status = next,
                                     !.ht = IF next = "HT" THEN match.score ELSE @]
  <2>1. PICK next \in Course[match.status] :
              match' = [match EXCEPT !.status = next,
                                     !.ht = IF next = "HT" THEN match.score ELSE @]
    BY <1>1
  <2>2. next \in Statuses
    BY MatchAssumption DEF Matches
  <2>3. (IF next = "HT" THEN match.score ELSE match.ht) \in [Sides -> Nat \cup {Unknown}]
    <3>1. match.score \in [Sides -> Nat] /\ match.ht \in [Sides -> Nat \cup {Unknown}]
      BY DEF Matches
    <3> QED
      BY <3>1
  <2> QED
    BY <2>1, <2>2, <2>3 DEF Matches
<1>2. CASE \E s \in Scorers : /\ match.score[s] + 1 \in Scores
                              /\ match' = [match EXCEPT !.score[s] = @ + 1]
  <2>1. PICK s \in Scorers : /\ match.score[s] + 1 \in Scores
                             /\ match' = [match EXCEPT !.score[s] = @ + 1]
    BY <1>2
  <2>2. match.score[s] + 1 \in Nat
    BY <2>1, MatchAssumption
  <2>3. [match.score EXCEPT ![s] = match.score[s] + 1] \in [Sides -> Nat]
    BY <2>2 DEF Matches
  <2> QED
    BY <2>1, <2>3 DEF Matches
<1> QED
  BY <1>1, <1>2 DEF MatchGoesOn

-----------------------------------------------------------------------------
(* The inductive invariant of the synchronisation: how old what it has in  *)
(* hand may be, from an answer of the provider to an answer it gives.      *)
RowIsFresh == row.asOf <= row.syncedAt + SyncTime

(* A part is as fresh as the row since a sync stored it after the row.     *)
PartsAreFresh ==
    row # NoRow => \A p \in PartNames : ~stored[p].behind =>
                      \A age \in stored[p].ages : age <= row.syncedAt + 2 * SyncTime

SeenIsFresh ==
    \A s \in Syncs : sync[s].at = "store" =>
        sync[s].seen # NoRow /\ sync[s].seen.asOf <= SyncTime

GotIsFresh ==
    \A s \in Syncs : /\ sync[s].at = "insert" => sync[s].got # {}
                    /\ \A age \in sync[s].got : age <= SyncTime

(* What is found between the delete and the insert of a sync was stored by *)
(* others after that delete.                                               *)
ClearedIsFresh ==
    \A s \in Syncs : \A p \in PartNames :
        sync[s].at = "insert" /\ p = Part(s) /\ p \in Replaced =>
            \A got \in sync[s].got : \A age \in stored[p].ages : age <= got + SyncTime

(* What an answer shows differs from the rows only so long.                *)
NextTo(k, a, bound) ==
    /\ a.asOf # row.asOf => row.syncedAt + a.left <= bound
    /\ \A p \in PartsOf(k) \ a.todo :
          a.shown[p].ages # stored[p].ages => stored[p].since + a.left <= bound

Reads(k) ==
    /\ reading[k].stage = "reading" /\ reading[k].left <= ReadTime
    /\ row # NoRow /\ row.syncedAt <= reading[k].syncedAt
    /\ reading[k].asOf <= reading[k].syncedAt + SyncTime
    /\ \A p \in PartNames : ~reading[k].shown[p].behind =>
          \A age \in reading[k].shown[p].ages : age <= reading[k].syncedAt + 2 * SyncTime
    /\ NextTo(k, reading[k], ReadTime)

Keeps(k) ==
    /\ cache[k].stage = "cached" /\ cache[k].left <= CacheTtl
    /\ cache[k].todo = {} /\ row # NoRow
    /\ NextTo(k, cache[k], ReadTime + CacheTtl)
    /\ k \in Flagging /\ ~cache[k].flagged =>
          /\ cache[k].asOf + cache[k].left <= SyncTime + StaleAfter + CacheTtl
          /\ \A p \in PartNames : ~cache[k].shown[p].behind =>
                \A age \in cache[k].shown[p].ages :
                    age + cache[k].left <= 2 * SyncTime + StaleAfter + CacheTtl

ReadingsAreFresh == \A k \in Kinds : reading[k] # NoAnswer => Reads(k)

AnswersKeep == \A k \in Kinds : cache[k] # NoAnswer => Keeps(k)

RowsInv == RowIsFresh /\ PartsAreFresh /\ SeenIsFresh /\ GotIsFresh /\ ClearedIsFresh

FeedInv == FeedTypes /\ RowsInv /\ ReadingsAreFresh /\ AnswersKeep

LEMMA FreshAtFirst == InitSync => FeedInv
<1> SUFFICES ASSUME InitSync PROVE FeedInv
  OBVIOUS
<1>1. RowIsFresh
  BY ConstantsAreTyped DEF InitSync, RowIsFresh, NoRow
<1>2. PartsAreFresh
  BY DEF InitSync, PartsAreFresh
<1>3. SeenIsFresh /\ GotIsFresh /\ ClearedIsFresh
  BY NoSyncIsTyped DEF InitSync, SeenIsFresh, GotIsFresh, ClearedIsFresh
<1> QED
  BY <1>1, <1>2, <1>3, FirstStateIsTyped DEF FeedInv, RowsInv, InitSync, ReadingsAreFresh, AnswersKeep

(* The breaker keeps its types whatever it is told.                        *)
LEMMA BreakerIsTyped ==
    ASSUME FeedTypes, NEW s
    PROVE  Succeeded(s) \in Jobs /\ Failed(s) \in Jobs
<1> DEFINE n == job.failures + 1
<1>1. job \in Jobs /\ n \in Nat
  BY DEF FeedTypes, Jobs
<1>2. /\ [job EXCEPT !.running = FALSE, !.failures = 0] \in Jobs
      /\ [job EXCEPT !.running = FALSE, !.failures = n] \in Jobs
  <2> HIDE DEF n
  <2> QED
    BY <1>1 DEF Jobs
<1>3. [running |-> FALSE, paused |-> TRUE, failures |-> n, left |-> PauseTime] \in Jobs
  BY <1>1, ConstantsAreTyped DEF Jobs
<1> QED
  BY <1>1, <1>2, <1>3 DEF Succeeded, Failed

(* A step of one sync that leaves the rows alone: only its place and what  *)
(* it has seen matter.                                                     *)
LEMMA SyncMoves ==
    ASSUME FeedInv, NEW s \in Syncs, NEW next \in Running,
           next.at = "store" => next.seen # NoRow /\ next.seen.asOf <= SyncTime,
           next.at = "insert" => next.got # {} /\ Parts[next.part] \notin Replaced,
           \A age \in next.got : age <= SyncTime,
           sync' = [sync EXCEPT ![s] = next],
           job' \in Jobs,
           UNCHANGED <<match, over, row, stored, reading, cache>>
    PROVE  FeedInv'
<1>1. FeedTypes'
  BY DEF FeedInv, FeedTypes
<1>2. sync \in [Syncs -> Running]
  BY DEF FeedInv, FeedTypes
<1>3. SeenIsFresh' /\ GotIsFresh'
  BY <1>2 DEF FeedInv, RowsInv, SeenIsFresh, GotIsFresh
<1>4. ClearedIsFresh'
  BY <1>2 DEF FeedInv, RowsInv, ClearedIsFresh, Part
<1>5. ReadingsAreFresh' /\ AnswersKeep'
  BY DEF FeedInv, ReadingsAreFresh, AnswersKeep, Reads, Keeps, NextTo
<1> QED
  BY <1>1, <1>3, <1>4, <1>5 DEF FeedInv, RowsInv, RowIsFresh, PartsAreFresh

(* A write makes the answers that differ from the rows differ from now on. *)
LEMMA AnswersFollowWrites ==
    ASSUME FeedInv, row' \in Rows, stored' \in Storage,
           row' = row \/ (row' # NoRow /\ row'.syncedAt = 0),
           \A p \in PartNames : \/ stored'[p].since = 0
                               \/ /\ stored'[p].since = stored[p].since
                                  /\ stored'[p].ages = stored[p].ages,
           UNCHANGED <<reading, cache>>
    PROVE  ReadingsAreFresh' /\ AnswersKeep'
<1>1. ASSUME NEW k, NEW a \in Answers, NEW bound \in Nat, a.left <= bound, NextTo(k, a, bound)
      PROVE  /\ a.asOf # row'.asOf => row'.syncedAt + a.left <= bound
             /\ \A p \in PartsOf(k) \ a.todo :
                   a.shown[p].ages # stored'[p].ages => stored'[p].since + a.left <= bound
  <2>1. a.left \in Nat
    BY DEF Answers
  <2>2. a.asOf # row'.asOf => row'.syncedAt + a.left <= bound
    BY <1>1, <2>1 DEF NextTo
  <2>3. ASSUME NEW p \in PartsOf(k) \ a.todo, a.shown[p].ages # stored'[p].ages
        PROVE  stored'[p].since + a.left <= bound
    BY <1>1, <2>1, <2>3 DEF NextTo, PartsOf
  <2> QED
    BY <2>2, <2>3
<1>2. \A k \in Kinds : reading[k] \in Answers /\ cache[k] \in Answers
  BY DEF FeedInv, FeedTypes
<1>3. ASSUME NEW k \in Kinds, reading[k] # NoAnswer
      PROVE  Reads(k)'
  <2>1. Reads(k)
    BY <1>3 DEF FeedInv, ReadingsAreFresh
  <2>2. NextTo(k, reading[k], ReadTime)'
    BY <1>1, <1>2, <2>1, ConstantsAreTyped DEF Reads, NextTo
  <2>3. row' # NoRow /\ row'.syncedAt <= reading[k].syncedAt
    BY <1>2, <2>1, ConstantsAreTyped DEF Reads, Answers, Ages
  <2> QED
    BY <2>1, <2>2, <2>3 DEF Reads
<1>4. ASSUME NEW k \in Kinds, cache[k] # NoAnswer
      PROVE  Keeps(k)'
  <2>1. Keeps(k)
    BY <1>4 DEF FeedInv, AnswersKeep
  <2>2. cache[k].left <= ReadTime + CacheTtl /\ ReadTime + CacheTtl \in Nat
    BY <1>2, <2>1, ConstantsAreTyped DEF Keeps, Answers
  <2>3. NextTo(k, cache[k], ReadTime + CacheTtl)'
    BY <1>1, <1>2, <2>1, <2>2, ConstantsAreTyped DEF Keeps, NextTo
  <2>4. row' # NoRow
    BY <2>1 DEF Keeps
  <2> QED
    BY <2>1, <2>3, <2>4 DEF Keeps
<1> QED
  BY <1>3, <1>4 DEF ReadingsAreFresh, AnswersKeep

LEMMA ScheduleKeepsFresh ==
    ASSUME FeedInv, NEW s \in Syncs,
           BeginTick(s) \/ Throttled(s) \/ StartSync(s) \/ RequestSync(s) \/ Evaluated(s)
    PROVE  FeedInv'
<1>1. sync[s] \in Running /\ \A age \in sync[s].got : age <= SyncTime
  BY DEF FeedInv, FeedTypes, RowsInv, GotIsFresh
<1>2. job \in Jobs
  BY DEF FeedInv, FeedTypes
<1>3. CASE Throttled(s) \/ Evaluated(s)
  BY <1>2, <1>3, NoSyncIsTyped, SyncMoves DEF Throttled, Evaluated
<1>4. CASE BeginTick(s)
  <2> DEFINE next == [sync[s] EXCEPT !.at = "budget"]
  <2>1. next \in Running /\ next.at = "budget" /\ next.got = sync[s].got
    BY <1>1 DEF Places, Running
  <2>2. sync' = [sync EXCEPT ![s] = next]
    BY <1>4 DEF BeginTick
  <2> HIDE DEF next
  <2> QED
    BY <1>1, <1>2, <1>4, <2>1, <2>2, SyncMoves DEF BeginTick
<1>5. CASE StartSync(s) \/ RequestSync(s)
  <2> DEFINE next == [sync[s] EXCEPT !.at = "live"]
  <2>1. next \in Running /\ next.at = "live" /\ next.got = sync[s].got
    BY <1>1 DEF Places, Running
  <2>2. sync' = [sync EXCEPT ![s] = next]
    BY <1>5 DEF StartSync, RequestSync
  <2>3. job' \in Jobs
    BY <1>2, <1>5 DEF StartSync, RequestSync, Jobs
  <2> HIDE DEF next
  <2> QED
    BY <1>1, <1>5, <2>1, <2>2, <2>3, SyncMoves DEF StartSync, RequestSync
<1> QED
  BY <1>3, <1>4, <1>5

LEMMA ToPartIsTyped ==
    ASSUME NEW s \in Syncs, sync[s] \in Running, NEW n \in Nat
    PROVE  /\ ToPart(s, n) \in Running
           /\ ToPart(s, n).at \in {"part", "finish"} /\ ToPart(s, n).got = {}
<1>1. /\ Answered(s, "part") \in Running /\ Answered(s, "part").at = "part"
      /\ Answered(s, "finish") \in Running /\ Answered(s, "finish").at = "finish"
  BY DEF Answered, Running, Places
<1> QED
  BY <1>1 DEF ToPart, Running

(* A sync stores the match as it saw it, in time.                          *)
LEMMA StoreKeepsFresh ==
    ASSUME FeedInv, NEW s \in Syncs, StoreMatch(s)
    PROVE  FeedInv'
<1>1. sync \in [Syncs -> Running] /\ sync[s] \in Running /\ stored \in Storage
  BY DEF FeedInv, FeedTypes
<1>2. sync[s].seen \in Rows /\ sync[s].seen # NoRow /\ sync[s].seen.asOf <= SyncTime
  BY <1>1 DEF StoreMatch, FeedInv, RowsInv, SeenIsFresh, Running
<1>3. sync[s].seen \in [data : Matches, asOf : Ages, syncedAt : Ages]
  BY <1>2 DEF Rows
<1>4. row' \in [data : Matches, asOf : Ages, syncedAt : Ages] /\ row'.asOf = sync[s].seen.asOf
      /\ row'.syncedAt = 0
  BY <1>3, ConstantsAreTyped DEF StoreMatch, Ages
<1>5. row' \in Rows /\ row' # NoRow
  BY <1>4, NoRowIsNone DEF Rows
<1>6. \A p \in PartNames : /\ stored'[p].ages = stored[p].ages /\ stored'[p].since = stored[p].since
                           /\ stored'[p].behind = TRUE
  BY <1>1 DEF StoreMatch, Storage
<1>7. stored' \in Storage
  BY <1>1 DEF StoreMatch, Storage
<1> DEFINE next == [sync[s] EXCEPT !.at = "teams", !.seen = NoRow]
<1>8. next \in Running /\ next.at = "teams" /\ next.got = sync[s].got /\ next.part = sync[s].part
  BY <1>1, NoRowIsNone DEF Places, Running
<1>9. sync' = [sync EXCEPT ![s] = next]
  BY DEF StoreMatch
<1> HIDE DEF next
<1>10. FeedTypes'
  BY <1>5, <1>7, <1>8, <1>9 DEF FeedInv, FeedTypes, StoreMatch
<1>11. SeenIsFresh' /\ GotIsFresh'
  BY <1>1, <1>8, <1>9 DEF FeedInv, RowsInv, SeenIsFresh, GotIsFresh
<1>12. ClearedIsFresh'
  BY <1>1, <1>6, <1>8, <1>9 DEF FeedInv, RowsInv, ClearedIsFresh, Part
<1>13. RowIsFresh' /\ PartsAreFresh'
  BY <1>2, <1>4, <1>6, ConstantsAreTyped DEF RowIsFresh, PartsAreFresh
<1>14. ReadingsAreFresh' /\ AnswersKeep'
  BY <1>4, <1>5, <1>6, <1>7, AnswersFollowWrites DEF StoreMatch
<1> QED
  BY <1>10, <1>11, <1>12, <1>13, <1>14 DEF FeedInv, RowsInv

(* A sync deletes the rows of a part: until it inserts what it got, there  *)
(* are only those others store.                                            *)
LEMMA ClearKeepsFresh ==
    ASSUME FeedInv, NEW s \in Syncs, ClearPart(s)
    PROVE  FeedInv'
<1>1. /\ sync \in [Syncs -> Running] /\ sync[s] \in Running /\ stored \in Storage
      /\ row \in Rows /\ 0 \in Ages /\ job \in Jobs
  BY ConstantsAreTyped DEF FeedInv, FeedTypes, Ages
<1>2. \A p \in PartNames :
          /\ p = Part(s) => stored'[p].ages = {} /\ stored'[p].since = 0
          /\ p # Part(s) => stored'[p] = stored[p]
          /\ stored'[p].behind = stored[p].behind
  BY <1>1 DEF ClearPart, Storage
<1>3. stored' \in Storage
  BY <1>1 DEF ClearPart, Storage
<1> DEFINE next == IF sync[s].got = {} THEN ToPart(s, sync[s].part + 1)
                   ELSE [sync[s] EXCEPT !.at = "insert"]
<1>4. /\ next \in Running /\ next.at # "store" /\ next.got = sync[s].got
      /\ next.at = "insert" => next.part = sync[s].part /\ next.got # {}
  <2>1. sync[s].part + 1 \in Nat
    BY <1>1 DEF Running
  <2>2. CASE sync[s].got = {}
    BY <1>1, <2>1, <2>2, ToPartIsTyped
  <2>3. CASE sync[s].got # {}
    BY <1>1, <2>3 DEF Running, Places
  <2> QED
    BY <2>2, <2>3
<1>5. sync' = [sync EXCEPT ![s] = next]
  BY DEF ClearPart
<1> HIDE DEF next
<1>6. FeedTypes'
  BY <1>3, <1>4, <1>5 DEF FeedInv, FeedTypes, ClearPart
<1>7. SeenIsFresh' /\ GotIsFresh'
  BY <1>1, <1>4, <1>5 DEF FeedInv, RowsInv, SeenIsFresh, GotIsFresh
<1>8. ClearedIsFresh'
  BY <1>1, <1>2, <1>4, <1>5 DEF FeedInv, RowsInv, ClearedIsFresh, Part
<1>9. RowIsFresh' /\ PartsAreFresh'
  BY <1>2 DEF FeedInv, RowsInv, RowIsFresh, PartsAreFresh, ClearPart
<1>10. ReadingsAreFresh' /\ AnswersKeep'
  BY <1>1, <1>2, <1>3, AnswersFollowWrites DEF ClearPart
<1> QED
  BY <1>6, <1>7, <1>8, <1>9, <1>10 DEF FeedInv, RowsInv

(* What a sync inserts it got lately; so did those whose rows are there.   *)
LEMMA InsertKeepsFresh ==
    ASSUME FeedInv, NEW s \in Syncs, InsertPart(s)
    PROVE  FeedInv'
<1>1. /\ sync \in [Syncs -> Running] /\ sync[s] \in Running /\ stored \in Storage
      /\ row \in Rows /\ 0 \in Ages /\ job \in Jobs
  BY ConstantsAreTyped DEF FeedInv, FeedTypes, Ages
<1>2. sync[s].got \subseteq Ages /\ \A age \in sync[s].got : age <= SyncTime
  BY <1>1 DEF FeedInv, RowsInv, GotIsFresh, Running
<1> DEFINE kept == IF Part(s) \in Replaced THEN stored[Part(s)].ages ELSE {}
           new  == [ages |-> sync[s].got \cup kept, since |-> 0, behind |-> FALSE]
<1>3. stored' = [stored EXCEPT ![Part(s)] = new]
  BY DEF InsertPart
<1>4. ASSUME Part(s) \in PartNames
      PROVE  /\ new \in [ages : SUBSET Ages, since : Ages, behind : BOOLEAN]
             /\ \A age \in new.ages : age <= 2 * SyncTime
             /\ \A age \in new.ages : age <= SyncTime \/ age \in stored[Part(s)].ages
  <2>1. kept \subseteq Ages
    BY <1>1, <1>4 DEF Storage
  <2>2. new \in [ages : SUBSET Ages, since : Ages, behind : BOOLEAN]
    BY <1>1, <1>2, <2>1
  <2>3. PICK got \in sync[s].got : got \in Ages /\ got <= SyncTime
    BY <1>2 DEF InsertPart, FeedInv, RowsInv, GotIsFresh
  <2>4. \A age \in kept : age <= got + SyncTime
    BY <1>4 DEF FeedInv, RowsInv, ClearedIsFresh, InsertPart
  <2> QED
    BY <1>2, <2>1, <2>2, <2>3, <2>4, ConstantsAreTyped DEF Ages
<1> HIDE DEF new
<1>5. \A p \in PartNames : stored'[p] = IF p = Part(s) THEN new ELSE stored[p]
  BY <1>1, <1>3 DEF Storage
<1>6. stored' \in Storage
  BY <1>1, <1>3, <1>4 DEF Storage
<1> DEFINE next == ToPart(s, sync[s].part + 1)
<1>7. next \in Running /\ next.at \in {"part", "finish"} /\ next.got = {}
  <2>1. sync[s].part + 1 \in Nat
    BY <1>1 DEF Running
  <2> QED
    BY <1>1, <2>1, ToPartIsTyped
<1>8. sync' = [sync EXCEPT ![s] = next]
  BY DEF InsertPart
<1> HIDE DEF next
<1>9. FeedTypes'
  BY <1>6, <1>7, <1>8 DEF FeedInv, FeedTypes, InsertPart
<1>10. SeenIsFresh' /\ GotIsFresh'
  BY <1>1, <1>7, <1>8 DEF FeedInv, RowsInv, SeenIsFresh, GotIsFresh
<1>11. ClearedIsFresh'
  <2> SUFFICES ASSUME NEW r \in Syncs, NEW p \in PartNames,
                      sync'[r].at = "insert", p = Parts[sync'[r].part], p \in Replaced,
                      NEW got \in sync'[r].got, NEW age \in stored'[p].ages
               PROVE  age <= got + SyncTime
    BY DEF ClearedIsFresh, Part
  <2>1. r # s /\ sync'[r] = sync[r]
    BY <1>1, <1>7, <1>8
  <2>2. age \in stored[p].ages => age <= got + SyncTime
    BY <2>1 DEF FeedInv, RowsInv, ClearedIsFresh, Part
  <2>3. got \in Ages
    BY <1>1, <2>1 DEF Running
  <2>4. age <= SyncTime \/ age \in stored[p].ages
    BY <1>4, <1>5
  <2>5. age \in Ages
    BY <1>6 DEF Storage
  <2> QED
    BY <2>2, <2>3, <2>4, <2>5, ConstantsAreTyped DEF Ages
<1>12. PartsAreFresh'
  <2> SUFFICES ASSUME row # NoRow, NEW p \in PartNames, ~stored'[p].behind,
                      NEW age \in stored'[p].ages
               PROVE  age <= row.syncedAt + 2 * SyncTime
    BY DEF PartsAreFresh, InsertPart
  <2>1. row.syncedAt \in Ages /\ age \in Ages
    BY <1>1, <1>6 DEF Rows, Storage
  <2>2. CASE p = Part(s)
    BY <1>4, <1>5, <2>1, <2>2, ConstantsAreTyped DEF Ages
  <2>3. CASE p # Part(s)
    BY <1>5, <2>3 DEF FeedInv, RowsInv, PartsAreFresh
  <2> QED
    BY <2>2, <2>3
<1>13. RowIsFresh'
  BY DEF InsertPart, FeedInv, RowsInv, RowIsFresh
<1>14. \A p \in PartNames : \/ stored'[p].since = 0
                            \/ /\ stored'[p].since = stored[p].since
                               /\ stored'[p].ages = stored[p].ages
  BY <1>5 DEF new
<1>15. ReadingsAreFresh' /\ AnswersKeep'
  BY <1>1, <1>6, <1>14, AnswersFollowWrites DEF InsertPart
<1> QED
  BY <1>9, <1>10, <1>11, <1>12, <1>13, <1>15 DEF FeedInv, RowsInv

(* The other steps of a sync leave the rows alone.                         *)
LEMMA SyncKeepsFresh ==
    ASSUME FeedInv, NEW s \in Syncs, SyncStep(s)
    PROVE  FeedInv'
<1>1. sync[s] \in Running /\ \A age \in sync[s].got : age <= SyncTime
  BY DEF FeedInv, FeedTypes, RowsInv, GotIsFresh
<1>2. job \in Jobs /\ 0 \in Ages /\ 0 <= SyncTime
  BY ConstantsAreTyped DEF FeedInv, FeedTypes, Ages
<1>3. CASE Retry(s)
  <2>1. PICK n \in 1 .. RetryMax :
            /\ Calling(s)
            /\ sync' = [sync EXCEPT ![s].try = n]
            /\ UNCHANGED <<match, over, row, stored, job, reading, cache>>
    BY <1>3 DEF Retry
  <2> DEFINE next == [sync[s] EXCEPT !.try = n]
  <2>2. next \in Running /\ next.at \in {"live", "teams", "part"} /\ next.got = sync[s].got
    BY <1>1, <2>1 DEF Running, Calling
  <2>3. sync' = [sync EXCEPT ![s] = next]
    BY <2>1
  <2> HIDE DEF next
  <2> QED
    BY <1>1, <1>2, <2>1, <2>2, <2>3, SyncMoves
<1>4. CASE SyncFails(s)
  BY <1>4, NoSyncIsTyped, BreakerIsTyped, SyncMoves DEF SyncFails, FeedInv
<1>5. CASE FetchLive(s)
  <2> DEFINE seen == [data |-> match, asOf |-> 0, syncedAt |-> 0]
  <2>1. seen \in Rows /\ seen # NoRow /\ seen.asOf <= SyncTime
    <3>1. seen \in [data : Matches, asOf : Ages, syncedAt : Ages]
      BY ConstantsAreTyped DEF FeedInv, FeedTypes, Ages
    <3> QED
      BY <3>1, NoRowIsNone, ConstantsAreTyped DEF Rows
  <2> HIDE DEF seen
  <2>2. CASE sync' = [sync EXCEPT ![s] = [Answered(s, "store") EXCEPT !.seen = seen]]
    <3> DEFINE next == [Answered(s, "store") EXCEPT !.seen = seen]
    <3>1. next \in Running /\ next.at = "store" /\ next.got = sync[s].got /\ next.seen = seen
      BY <1>1, <2>1 DEF Answered, Places, Running
    <3> HIDE DEF next
    <3>2. sync' = [sync EXCEPT ![s] = next]
      BY <2>2 DEF next
    <3> QED
      BY <1>1, <1>2, <1>5, <2>1, <3>1, <3>2, SyncMoves DEF FetchLive
  <2>3. CASE sync' = [sync EXCEPT ![s] = Answered(s, "finish")]
    <3>1. /\ Answered(s, "finish") \in Running /\ Answered(s, "finish").at = "finish"
          /\ Answered(s, "finish").got = sync[s].got
      BY <1>1 DEF Answered, Places, Running
    <3> QED
      BY <1>1, <1>2, <1>5, <2>3, <3>1, SyncMoves DEF FetchLive
  <2> QED
    BY <1>5, <2>2, <2>3 DEF FetchLive, seen
<1>6. CASE StoreMatch(s)
  BY <1>6, StoreKeepsFresh
<1>7. CASE StoreTeams(s)
  BY <1>1, <1>2, <1>7, ToPartIsTyped, SyncMoves DEF StoreTeams
<1>8. CASE FetchPart(s)
  <2>1. PICK got \in {{}, {0}} :
           sync' = [sync EXCEPT ![s] =
                       CASE Part(s) \in Replaced -> [Answered(s, "clear") EXCEPT !.got = got]
                         [] Part(s) \notin Replaced /\ got # {} -> [Answered(s, "insert") EXCEPT !.got = got]
                         [] OTHER -> ToPart(s, sync[s].part + 1)]
    BY <1>8 DEF FetchPart
  <2>2. ASSUME NEW at \in {"clear", "insert"}
        PROVE  /\ [Answered(s, at) EXCEPT !.got = got] \in Running
               /\ [Answered(s, at) EXCEPT !.got = got].at = at
               /\ [Answered(s, at) EXCEPT !.got = got].got = got
               /\ [Answered(s, at) EXCEPT !.got = got].part = sync[s].part
    <3>1. at \in Places /\ got \in SUBSET Ages
      BY <1>2 DEF Places
    <3> QED
      BY <1>1, <3>1 DEF Answered, Running
  <2>3. sync[s].part + 1 \in Nat
    BY <1>1 DEF Running
  <2>4. PICK next \in Running :
           /\ sync' = [sync EXCEPT ![s] = next]
           /\ next.at # "store" /\ next.got \in {{}, {0}}
           /\ next.at = "insert" => next.got # {} /\ Parts[next.part] \notin Replaced
    <3>1. CASE Part(s) \in Replaced
      BY <2>1, <2>2, <3>1
    <3>2. CASE Part(s) \notin Replaced /\ got # {}
      <4>1. sync' = [sync EXCEPT ![s] = [Answered(s, "insert") EXCEPT !.got = got]]
        BY <2>1, <3>2
      <4> QED
        BY <2>2, <3>2, <4>1 DEF Part
    <3>3. CASE Part(s) \notin Replaced /\ got = {}
      <4>1. sync' = [sync EXCEPT ![s] = ToPart(s, sync[s].part + 1)]
        BY <2>1, <3>3
      <4> QED
        BY <1>1, <2>3, <4>1, ToPartIsTyped
    <3> QED
      BY <3>1, <3>2, <3>3
  <2> QED
    BY <1>2, <1>8, <2>4, SyncMoves DEF FetchPart
<1>9. CASE ClearPart(s)
  BY <1>9, ClearKeepsFresh
<1>10. CASE InsertPart(s)
  BY <1>10, InsertKeepsFresh
<1>11. CASE FinishSync(s)
  <2> DEFINE next == [NoSync EXCEPT !.at = "evaluating"]
  <2>1. next \in Running /\ next.at = "evaluating" /\ next.got = {}
    BY NoRowIsNone DEF NoSync, Places, Running
  <2>2. sync' = [sync EXCEPT ![s] = next]
    BY <1>11 DEF FinishSync
  <2> HIDE DEF next
  <2>3. job' \in Jobs
    BY <1>11, BreakerIsTyped DEF FinishSync, FeedInv
  <2>4. cache' = [k \in Kinds |-> NoAnswer]
    BY <1>11 DEF FinishSync
  <2>5. FeedTypes'
    BY <1>11, <2>1, <2>2, <2>3, <2>4, NoAnswerIsTyped DEF FeedInv, FeedTypes, FinishSync
  <2>6. sync \in [Syncs -> Running]
    BY DEF FeedInv, FeedTypes
  <2>7. SeenIsFresh' /\ GotIsFresh'
    BY <2>1, <2>2, <2>6 DEF FeedInv, RowsInv, SeenIsFresh, GotIsFresh
  <2>8. ClearedIsFresh'
    BY <1>11, <2>1, <2>2, <2>6 DEF FeedInv, RowsInv, ClearedIsFresh, Part, FinishSync
  <2>9. RowIsFresh' /\ PartsAreFresh'
    BY <1>11 DEF FeedInv, RowsInv, RowIsFresh, PartsAreFresh, FinishSync
  <2>10. ReadingsAreFresh'
    BY <1>11 DEF FeedInv, ReadingsAreFresh, Reads, NextTo, FinishSync
  <2>11. AnswersKeep'
    BY <2>4 DEF AnswersKeep
  <2> QED
    BY <2>5, <2>7, <2>8, <2>9, <2>10, <2>11 DEF FeedInv, RowsInv
<1> QED
  BY <1>3, <1>4, <1>5, <1>6, <1>7, <1>8, <1>9, <1>10, <1>11 DEF SyncStep

-----------------------------------------------------------------------------
(* A read keeps the age of what it read, and says so when it is done.      *)
LEMMA BeginReadKeepsFresh ==
    ASSUME FeedInv, NEW k \in Kinds, BeginRead(k)
    PROVE  FeedInv'
<1>1. /\ reading \in [Kinds -> Answers] /\ cache \in [Kinds -> Answers]
      /\ row.asOf \in Ages /\ row.syncedAt \in Ages
  BY NoAnswerIsTyped, ConstantsAreTyped DEF FeedInv, FeedTypes, Rows, NoRow, Ages
<1> DEFINE begun == [NoAnswer EXCEPT !.asOf = row.asOf, !.syncedAt = row.syncedAt,
                                     !.left = ReadTime, !.stage = "reading", !.todo = PartsOf(k)]
<1>2. reading' = [reading EXCEPT ![k] = begun] /\ cache' = [cache EXCEPT ![k] = NoAnswer]
  BY DEF BeginRead
<1>3. begun \in Answers
  BY <1>1, NoAnswerIsTyped, ConstantsAreTyped DEF Answers, PartsOf
<1>4. /\ begun.stage = "reading" /\ begun.left = ReadTime
      /\ begun.asOf = row.asOf /\ begun.syncedAt = row.syncedAt /\ begun.todo = PartsOf(k)
      /\ begun.shown = [p \in PartNames |-> [ages |-> {}, behind |-> FALSE]]
  BY DEF NoAnswer
<1> HIDE DEF begun
<1>5. FeedTypes'
  BY <1>2, <1>3, NoAnswerIsTyped DEF FeedInv, FeedTypes, BeginRead
<1>6. Reads(k)'
  <2>1. reading'[k] = begun
    BY <1>1, <1>2
  <2>2. row' = row /\ row # NoRow /\ row.syncedAt \in Nat
    BY <1>1, ConstantsAreTyped DEF BeginRead, Ages
  <2>3. NextTo(k, reading[k], ReadTime)'
    BY <1>4, <2>1, <2>2 DEF NextTo
  <2> QED
    BY <1>4, <2>1, <2>2, <2>3, ConstantsAreTyped DEF Reads, FeedInv, RowsInv, RowIsFresh, NextTo
<1>7. ReadingsAreFresh'
  <2> SUFFICES ASSUME NEW j \in Kinds, j # k, reading'[j] # NoAnswer PROVE Reads(j)'
    BY <1>6 DEF ReadingsAreFresh
  <2> QED
    BY <1>1, <1>2 DEF FeedInv, ReadingsAreFresh, Reads, NextTo, BeginRead
<1>8. AnswersKeep'
  <2> SUFFICES ASSUME NEW j \in Kinds, cache'[j] # NoAnswer PROVE Keeps(j)'
    BY DEF AnswersKeep
  <2>1. j # k /\ cache'[j] = cache[j]
    BY <1>1, <1>2
  <2> QED
    BY <2>1 DEF FeedInv, AnswersKeep, Keeps, NextTo, BeginRead
<1>9. RowsInv'
  BY DEF FeedInv, RowsInv, RowIsFresh, PartsAreFresh, SeenIsFresh, GotIsFresh, ClearedIsFresh, Part,
         BeginRead
<1> QED
  BY <1>5, <1>7, <1>8, <1>9 DEF FeedInv

(* A part is read no earlier than the row, which is only fresher by then.  *)
LEMMA ReadPartKeepsFresh ==
    ASSUME FeedInv, NEW k \in Kinds, NEW p \in PartNames, ReadPart(k, p)
    PROVE  FeedInv'
<1>1. /\ reading \in [Kinds -> Answers] /\ reading[k] \in Answers
      /\ stored \in Storage /\ row \in Rows
  BY DEF FeedInv, FeedTypes
<1> DEFINE part  == [ages |-> stored[p].ages, behind |-> stored[p].behind]
           shown == [reading[k].shown EXCEPT ![p] = part]
           next  == [reading[k] EXCEPT !.todo = @ \ {p}, !.shown = shown]
<1>2. part \in [ages : SUBSET Ages, behind : BOOLEAN]
  BY <1>1 DEF Storage
<1>3. shown \in Shown /\ \A q \in PartNames : shown[q] = IF q = p THEN part ELSE reading[k].shown[q]
  BY <1>1, <1>2 DEF Answers, Shown
<1>4. reading' = [reading EXCEPT ![k] = next]
  BY DEF ReadPart
<1> HIDE DEF shown
<1>5. /\ next \in Answers
      /\ next.stage = reading[k].stage /\ next.left = reading[k].left
      /\ next.asOf = reading[k].asOf /\ next.syncedAt = reading[k].syncedAt
      /\ next.todo = reading[k].todo \ {p} /\ next.shown = shown
  BY <1>1, <1>3 DEF Answers
<1> HIDE DEF next
<1>6. reading'[k] = next /\ \A j \in Kinds : j # k => reading'[j] = reading[j]
  BY <1>1, <1>4
<1>7. FeedTypes'
  BY <1>4, <1>5 DEF FeedInv, FeedTypes, ReadPart
<1>8. Reads(k) /\ reading[k].todo # {}
  <2>1. reading[k].todo # {}
    BY DEF ReadPart
  <2> QED
    BY <2>1 DEF NoAnswer, FeedInv, ReadingsAreFresh
<1>9. row.syncedAt \in Nat /\ reading[k].syncedAt \in Nat /\ reading[k].left \in Nat
  BY <1>1, <1>8, ConstantsAreTyped DEF Rows, Ages, Answers, Reads
<1>10. ASSUME NEW q \in PartNames, ~shown[q].behind, NEW age \in shown[q].ages
       PROVE  age <= reading[k].syncedAt + 2 * SyncTime
  <2>1. CASE q = p
    <3>1. ~stored[p].behind /\ age \in stored[p].ages /\ age \in Nat
      BY <1>1, <1>3, <1>10, <2>1, ConstantsAreTyped DEF Storage, Ages
    <3>2. age <= row.syncedAt + 2 * SyncTime
      BY <1>8, <3>1 DEF Reads, FeedInv, RowsInv, PartsAreFresh
    <3> QED
      BY <1>8, <1>9, <3>1, <3>2, ConstantsAreTyped DEF Reads
  <2>2. CASE q # p
    BY <1>3, <1>8, <1>10, <2>2 DEF Reads
  <2> QED
    BY <2>1, <2>2
<1>11. NextTo(k, reading[k], ReadTime)'
  <2>1. row' = row /\ stored' = stored
    BY DEF ReadPart
  <2>2. next.asOf # row.asOf => row.syncedAt + next.left <= ReadTime
    BY <1>5, <1>8 DEF Reads, NextTo
  <2>3. ASSUME NEW q \in PartsOf(k) \ next.todo, next.shown[q].ages # stored[q].ages
        PROVE  stored[q].since + next.left <= ReadTime
    <3>1. q # p
      BY <1>3, <1>5, <2>3
    <3> QED
      BY <1>3, <1>5, <1>8, <2>3, <3>1 DEF Reads, NextTo, PartsOf
  <2> QED
    BY <1>6, <2>1, <2>2, <2>3 DEF NextTo
<1>12. Reads(k)'
  BY <1>5, <1>6, <1>8, <1>10, <1>11 DEF Reads, ReadPart
<1>13. ReadingsAreFresh'
  <2> SUFFICES ASSUME NEW j \in Kinds, j # k, reading'[j] # NoAnswer PROVE Reads(j)'
    BY <1>12 DEF ReadingsAreFresh
  <2> QED
    BY <1>6 DEF FeedInv, ReadingsAreFresh, Reads, NextTo, ReadPart
<1>14. AnswersKeep'
  BY DEF FeedInv, AnswersKeep, Keeps, NextTo, ReadPart
<1>15. RowsInv'
  BY DEF FeedInv, RowsInv, RowIsFresh, PartsAreFresh, SeenIsFresh, GotIsFresh, ClearedIsFresh, Part,
         ReadPart
<1> QED
  BY <1>7, <1>13, <1>14, <1>15 DEF FeedInv

LEMMA EndReadKeepsFresh ==
    ASSUME FeedInv, NEW k \in Kinds, EndRead(k)
    PROVE  FeedInv'
<1>1. /\ reading \in [Kinds -> Answers] /\ reading[k] \in Answers
      /\ cache \in [Kinds -> Answers] /\ stored \in Storage
  BY DEF FeedInv, FeedTypes
<1>2. Reads(k) /\ reading[k].todo = {}
  BY NoAnswerIsTyped DEF EndRead, FeedInv, ReadingsAreFresh
<1> DEFINE flag == k \in Flagging /\ IsStale(reading[k].syncedAt)
           kept == [reading[k] EXCEPT !.flagged = flag, !.syncedAt = 0,
                                      !.left = CacheTtl, !.stage = "cached"]
<1>3. reading' = [reading EXCEPT ![k] = NoAnswer] /\ cache' = [cache EXCEPT ![k] = kept]
  BY DEF EndRead
<1>4. flag \in BOOLEAN /\ 0 \in Ages
  BY ConstantsAreTyped DEF IsStale, Ages
<1>5. k \in Flagging /\ ~flag => reading[k].syncedAt <= StaleAfter
  BY <1>1, ConstantsAreTyped DEF IsStale, Answers, Ages
<1> HIDE DEF flag
<1>6. /\ kept \in Answers
      /\ kept.stage = "cached" /\ kept.left = CacheTtl /\ kept.flagged = flag
      /\ kept.asOf = reading[k].asOf /\ kept.todo = {} /\ kept.shown = reading[k].shown
  BY <1>1, <1>2, <1>4, ConstantsAreTyped DEF Answers
<1> HIDE DEF kept
<1>7. FeedTypes'
  BY <1>3, <1>6, NoAnswerIsTyped DEF FeedInv, FeedTypes, EndRead
<1>8. cache'[k] = kept /\ \A j \in Kinds : j # k => cache'[j] = cache[j]
  BY <1>1, <1>3
<1>9. reading[k].asOf \in Nat /\ reading[k].syncedAt \in Nat /\ reading[k].left \in Nat
  BY <1>1, ConstantsAreTyped DEF Answers, Ages
<1>10. NextTo(k, kept, ReadTime + CacheTtl)
  <2>1. row.syncedAt \in Nat
    BY ConstantsAreTyped DEF FeedInv, FeedTypes, Rows, NoRow, Ages
  <2>2. \A p \in PartsOf(k) : stored[p].since \in Nat
    BY <1>1, ConstantsAreTyped DEF Storage, PartsOf, Ages
  <2> QED
    BY <1>2, <1>6, <1>9, <2>1, <2>2, ConstantsAreTyped DEF Reads, NextTo
<1>11. ASSUME k \in Flagging, ~kept.flagged
       PROVE  /\ kept.asOf + kept.left <= SyncTime + StaleAfter + CacheTtl
              /\ \A p \in PartNames : ~kept.shown[p].behind =>
                    \A age \in kept.shown[p].ages :
                        age + kept.left <= 2 * SyncTime + StaleAfter + CacheTtl
  <2>1. reading[k].syncedAt <= StaleAfter
    BY <1>5, <1>6, <1>11
  <2>2. kept.asOf + kept.left <= SyncTime + StaleAfter + CacheTtl
    BY <1>2, <1>6, <1>9, <2>1, ConstantsAreTyped DEF Reads
  <2>3. ASSUME NEW p \in PartNames, ~kept.shown[p].behind, NEW age \in kept.shown[p].ages
        PROVE  age + kept.left <= 2 * SyncTime + StaleAfter + CacheTtl
    <3>1. age <= reading[k].syncedAt + 2 * SyncTime
      BY <1>2, <1>6, <2>3 DEF Reads
    <3>2. age \in Nat
      BY <1>1, <1>6, <2>3, ConstantsAreTyped DEF Answers, Shown, Ages
    <3> QED
      BY <1>6, <1>9, <2>1, <3>1, <3>2, ConstantsAreTyped
  <2> QED
    BY <2>2, <2>3
<1>12. Keeps(k)'
  <2>1. NextTo(k, cache[k], ReadTime + CacheTtl)'
    BY <1>8, <1>10 DEF NextTo, EndRead
  <2>2. kept.left <= CacheTtl
    BY <1>6, ConstantsAreTyped
  <2> QED
    BY <1>2, <1>6, <1>8, <1>11, <2>1, <2>2 DEF Keeps, Reads, EndRead
<1>13. AnswersKeep'
  <2> SUFFICES ASSUME NEW j \in Kinds, j # k, cache'[j] # NoAnswer PROVE Keeps(j)'
    BY <1>12 DEF AnswersKeep
  <2> QED
    BY <1>8 DEF FeedInv, AnswersKeep, Keeps, NextTo, EndRead
<1>14. ReadingsAreFresh'
  <2> SUFFICES ASSUME NEW j \in Kinds, reading'[j] # NoAnswer PROVE Reads(j)'
    BY DEF ReadingsAreFresh
  <2>1. j # k /\ reading'[j] = reading[j]
    BY <1>1, <1>3
  <2> QED
    BY <2>1 DEF FeedInv, ReadingsAreFresh, Reads, NextTo, EndRead
<1>15. RowsInv'
  BY DEF FeedInv, RowsInv, RowIsFresh, PartsAreFresh, SeenIsFresh, GotIsFresh, ClearedIsFresh, Part,
         EndRead
<1> QED
  BY <1>7, <1>13, <1>14, <1>15 DEF FeedInv

(* What ages, and what has its time run out.                               *)
LEMMA AgesOfRows ==
    ASSUME NEW ages \in SUBSET Ages
    PROVE  {Older(age) : age \in ages} \in SUBSET Ages
BY AgesGrow

LEMMA AnswersAge ==
    ASSUME NEW a \in Answers
    PROVE  /\ a.left > 0 => Aged(a) \in Answers
           /\ Aged(a).asOf = Older(a.asOf) /\ Aged(a).left = a.left - 1
           /\ Aged(a).stage = a.stage /\ Aged(a).flagged = a.flagged
           /\ Aged(a).syncedAt = a.syncedAt /\ Aged(a).todo = a.todo
           /\ \A p \in PartNames : /\ Aged(a).shown[p].behind = a.shown[p].behind
                                   /\ Aged(a).shown[p].ages = {Older(age) : age \in a.shown[p].ages}
           /\ a.asOf \in Ages /\ a.syncedAt \in Ages /\ a.left \in Nat
           /\ \A p \in PartNames : a.shown[p].ages \in SUBSET Ages
<1> DEFINE shown == AgedShown(a.shown)
<1>1. a.asOf \in Ages /\ a.left \in Nat /\ a.syncedAt \in Ages
  BY DEF Answers
<1>2. Older(a.asOf) \in Ages
  BY <1>1, AgesGrow
<1>3. a.left > 0 => a.left - 1 \in Nat
  BY <1>1
<1>4. \A p \in PartNames : a.shown[p] \in [ages : SUBSET Ages, behind : BOOLEAN]
  BY DEF Answers, Shown
<1>5. \A p \in PartNames : /\ shown[p] \in [ages : SUBSET Ages, behind : BOOLEAN]
                           /\ shown[p].behind = a.shown[p].behind
                           /\ shown[p].ages = {Older(age) : age \in a.shown[p].ages}
  <2> TAKE p \in PartNames
  <2>1. {Older(age) : age \in a.shown[p].ages} \in SUBSET Ages
    BY <1>4, AgesOfRows
  <2> QED
    BY <1>4, <2>1 DEF AgedShown
<1>6. shown \in Shown
  BY <1>5 DEF Shown, AgedShown
<1>7. Aged(a) = [a EXCEPT !.asOf = Older(@), !.left = @ - 1, !.shown = shown]
  BY DEF Aged
<1> HIDE DEF shown
<1> QED
  BY <1>1, <1>2, <1>3, <1>4, <1>5, <1>6, <1>7 DEF Answers

(* Rows and what was read of them age alike.                               *)
LEMMA NextToAges ==
    ASSUME FeedInv, AgeSync, NEW k \in Kinds, row # NoRow,
           NEW a \in Answers, a.left > 0, NEW b \in Answers,
           b.left = a.left - 1, b.asOf = Older(a.asOf), b.todo = a.todo,
           \A p \in PartNames : b.shown[p].ages = {Older(age) : age \in a.shown[p].ages},
           NEW bound \in Nat, NextTo(k, a, bound)
    PROVE  /\ b.asOf # row'.asOf => row'.syncedAt + b.left <= bound
           /\ \A p \in PartsOf(k) \ b.todo :
                 b.shown[p].ages # stored'[p].ages => stored'[p].since + b.left <= bound
<1>1. /\ row \in [data : Matches, asOf : Ages, syncedAt : Ages] /\ stored \in Storage
      /\ a.left \in Nat
  BY DEF FeedInv, FeedTypes, Rows, Answers
<1>2. row'.asOf = Older(row.asOf) /\ row'.syncedAt = Older(row.syncedAt)
  BY <1>1, RowsAge DEF AgeSync, Rows
<1>3. b.asOf # row'.asOf => row'.syncedAt + b.left <= bound
  <2>1. row.syncedAt \in Nat /\ Older(row.syncedAt) \in Nat /\ Older(row.syncedAt) <= row.syncedAt + 1
    BY <1>1, ConstantsAreTyped DEF Ages, Older
  <2> QED
    BY <1>1, <1>2, <2>1 DEF NextTo
<1>4. ASSUME NEW p \in PartsOf(k) \ b.todo, b.shown[p].ages # stored'[p].ages
      PROVE  stored'[p].since + b.left <= bound
  <2>1. p \in PartNames
    BY DEF PartsOf
  <2>2. stored'[p].ages = {Older(age) : age \in stored[p].ages} /\ stored'[p].since = Older(stored[p].since)
    BY <1>1, <2>1 DEF AgeSync, AgedPart, Storage
  <2>3. stored[p].since \in Nat /\ Older(stored[p].since) \in Nat
        /\ Older(stored[p].since) <= stored[p].since + 1
    BY <1>1, <2>1, ConstantsAreTyped DEF Storage, Ages, Older
  <2>4. a.shown[p].ages # stored[p].ages
    BY <1>4, <2>1, <2>2
  <2>5. stored[p].since + a.left <= bound
    BY <1>4, <2>4 DEF NextTo
  <2> QED
    BY <1>1, <2>2, <2>3, <2>5
<1> QED
  BY <1>3, <1>4

LEMMA AgeKeepsRows ==
    ASSUME FeedInv, AgeSync
    PROVE  RowsInv' /\ row' \in Rows /\ stored' \in Storage /\ sync' \in [Syncs -> Running]
<1>1. row' = AgedRow(row) /\ row \in Rows /\ stored \in Storage
  BY DEF AgeSync, FeedInv, FeedTypes
<1>2. RowIsFresh'
  <2>1. CASE row = NoRow
    BY <1>1, <2>1, ConstantsAreTyped DEF AgedRow, RowIsFresh, NoRow
  <2>2. CASE row # NoRow
    <3>1. row.asOf \in Ages /\ row.syncedAt \in Ages
      BY <1>1, <2>2 DEF Rows
    <3>2. row'.asOf = Older(row.asOf) /\ row'.syncedAt = Older(row.syncedAt)
      BY <1>1, <2>2, RowsAge
    <3> QED
      BY <3>1, <3>2, AgeTogether, ConstantsAreTyped DEF FeedInv, RowsInv, RowIsFresh
  <2> QED
    BY <2>1, <2>2
<1>3. \A p \in PartNames : /\ stored'[p] \in [ages : SUBSET Ages, since : Ages, behind : BOOLEAN]
                           /\ stored'[p].ages = {Older(age) : age \in stored[p].ages}
                           /\ stored'[p].behind = stored[p].behind
  <2> TAKE p \in PartNames
  <2>1. stored[p] \in [ages : SUBSET Ages, since : Ages, behind : BOOLEAN]
    BY <1>1 DEF Storage
  <2>2. {Older(age) : age \in stored[p].ages} \in SUBSET Ages /\ Older(stored[p].since) \in Ages
    BY <2>1, AgesOfRows, AgesGrow
  <2>3. stored'[p] = AgedPart(stored[p])
    BY DEF AgeSync
  <2> QED
    BY <2>1, <2>2, <2>3 DEF AgedPart
<1>4. stored' \in Storage
  BY <1>3 DEF AgeSync, Storage
<1>5. PartsAreFresh'
  <2> SUFFICES ASSUME row' # NoRow, NEW p \in PartNames, ~stored'[p].behind,
                      NEW old \in stored'[p].ages
               PROVE  old <= row'.syncedAt + 2 * SyncTime
    BY DEF PartsAreFresh
  <2>1. row # NoRow /\ row'.syncedAt = Older(row.syncedAt) /\ row.syncedAt \in Ages
    BY <1>1, RowsAge DEF Rows
  <2>2. PICK age \in stored[p].ages : old = Older(age)
    BY <1>3
  <2>3. age \in Ages /\ ~stored[p].behind
    BY <1>1, <1>3, <2>2 DEF Storage
  <2>4. age <= row.syncedAt + 2 * SyncTime /\ 2 * SyncTime \in Nat
    BY <2>1, <2>2, <2>3, ConstantsAreTyped DEF FeedInv, RowsInv, PartsAreFresh
  <2> QED
    BY <2>1, <2>2, <2>3, <2>4, AgeTogether
<1>6. \A s \in Syncs : sync[s] \in Running
  BY DEF FeedInv, FeedTypes
<1>7. \A s \in Syncs : /\ sync'[s] \in Running
                       /\ sync'[s].at = sync[s].at /\ sync'[s].part = sync[s].part
                       /\ sync'[s].seen = AgedRow(sync[s].seen)
                       /\ sync'[s].got = {Older(age) : age \in sync[s].got}
  <2> TAKE s \in Syncs
  <2>1. sync[s] \in Running
    BY <1>6
  <2>2. AgedRow(sync[s].seen) \in Rows /\ {Older(age) : age \in sync[s].got} \in SUBSET Ages
    BY <2>1, RowsAge, AgesOfRows DEF Running
  <2>3. sync'[s] = [sync[s] EXCEPT !.seen = AgedRow(@), !.got = {Older(age) : age \in @}]
    BY DEF AgeSync
  <2> QED
    BY <2>1, <2>2, <2>3 DEF Running
<1>8. sync' \in [Syncs -> Running]
  BY <1>7 DEF AgeSync
<1>9. SeenIsFresh'
  <2> SUFFICES ASSUME NEW s \in Syncs, sync'[s].at = "store"
               PROVE  sync'[s].seen # NoRow /\ sync'[s].seen.asOf <= SyncTime
    BY DEF SeenIsFresh
  <2>1. sync[s].at = "store" /\ sync[s].seen \in Rows
    BY <1>6, <1>7 DEF Running
  <2>2. sync[s].seen # NoRow /\ sync[s].seen.asOf < SyncTime
    BY <2>1 DEF FeedInv, RowsInv, SeenIsFresh, AgeSync
  <2>3. sync[s].seen.asOf \in Ages
    BY <2>1, <2>2 DEF Rows
  <2>4. Older(sync[s].seen.asOf) <= SyncTime
    BY <2>2, <2>3, ConstantsAreTyped DEF Older, Ages
  <2> QED
    BY <1>7, <2>1, <2>2, <2>4, RowsAge
<1>10. GotIsFresh'
  <2> SUFFICES ASSUME NEW s \in Syncs
               PROVE  /\ sync'[s].at = "insert" => sync'[s].got # {}
                      /\ \A old \in sync'[s].got : old <= SyncTime
    BY DEF GotIsFresh
  <2>1. sync'[s].at = "insert" => sync'[s].got # {}
    BY <1>7 DEF FeedInv, RowsInv, GotIsFresh
  <2>2. ASSUME NEW age \in sync[s].got
        PROVE  Older(age) <= SyncTime
    <3>1. age < SyncTime /\ age \in Ages
      BY <1>6, <2>2 DEF AgeSync, Running
    <3> QED
      BY <3>1, ConstantsAreTyped DEF Older, Ages
  <2> QED
    BY <1>7, <2>1, <2>2
<1>11. ClearedIsFresh'
  <2> SUFFICES ASSUME NEW s \in Syncs, NEW p \in PartNames,
                      sync'[s].at = "insert", p = Parts[sync'[s].part], p \in Replaced,
                      NEW oldGot \in sync'[s].got, NEW old \in stored'[p].ages
               PROVE  old <= oldGot + SyncTime
    BY DEF ClearedIsFresh, Part
  <2>1. PICK got \in sync[s].got : oldGot = Older(got)
    BY <1>7
  <2>2. PICK age \in stored[p].ages : old = Older(age)
    BY <1>3
  <2>3. age <= got + SyncTime
    BY <1>7 DEF FeedInv, RowsInv, ClearedIsFresh, Part
  <2>4. got \in Ages /\ age \in Ages
    BY <1>1, <1>6 DEF Running, Storage
  <2> QED
    BY <2>1, <2>2, <2>3, <2>4, AgeTogether, ConstantsAreTyped
<1> QED
  BY <1>1, <1>2, <1>4, <1>5, <1>8, <1>9, <1>10, <1>11, RowsAge DEF RowsInv

LEMMA AgeKeepsReadings ==
    ASSUME FeedInv, AgeSync
    PROVE  reading' \in [Kinds -> Answers] /\ ReadingsAreFresh'
<1>1. \A k \in Kinds : reading[k] \in Answers
  BY DEF FeedInv, FeedTypes
<1>2. \A k \in Kinds : reading'[k] = IF reading[k] = NoAnswer THEN NoAnswer
                                     ELSE [Aged(reading[k]) EXCEPT !.syncedAt = Older(@)]
  BY DEF AgeSync
<1>3. ASSUME NEW k \in Kinds, reading[k] # NoAnswer
      PROVE  reading'[k] \in Answers /\ Reads(k)'
  <2>1. Reads(k)
    BY <1>3 DEF FeedInv, ReadingsAreFresh
  <2>2. reading[k].left > 0
    BY <2>1 DEF Reads, AgeSync
  <2> DEFINE aged == Aged(reading[k])
             next == reading'[k]
  <2>3. /\ aged \in Answers
        /\ aged.asOf = Older(reading[k].asOf) /\ aged.left = reading[k].left - 1
        /\ aged.stage = reading[k].stage /\ aged.todo = reading[k].todo
        /\ aged.syncedAt = reading[k].syncedAt
        /\ \A p \in PartNames :
              /\ aged.shown[p].behind = reading[k].shown[p].behind
              /\ aged.shown[p].ages = {Older(age) : age \in reading[k].shown[p].ages}
        /\ reading[k].asOf \in Ages /\ reading[k].syncedAt \in Ages /\ reading[k].left \in Nat
        /\ \A p \in PartNames : reading[k].shown[p].ages \in SUBSET Ages
    BY <1>1, <2>2, AnswersAge
  <2>4. next = [aged EXCEPT !.syncedAt = Older(reading[k].syncedAt)]
    BY <1>2, <1>3, <2>3
  <2> HIDE DEF aged
  <2>5. Older(reading[k].syncedAt) \in Ages
    BY <2>3, AgesGrow
  <2> HIDE DEF next
  <2>6. /\ next \in Answers
        /\ next.asOf = aged.asOf /\ next.left = aged.left /\ next.stage = aged.stage
        /\ next.todo = aged.todo /\ next.syncedAt = Older(reading[k].syncedAt)
        /\ next.shown = aged.shown
    BY <2>3, <2>4, <2>5 DEF Answers
  <2>7. /\ row # NoRow /\ row' # NoRow /\ row.syncedAt \in Ages
        /\ row'.syncedAt = Older(row.syncedAt)
    BY <2>1, RowsAge DEF Reads, AgeSync, FeedInv, FeedTypes, Rows
  <2>8. row'.syncedAt <= next.syncedAt
    BY <2>1, <2>3, <2>6, <2>7, AgesGrow DEF Reads
  <2>9. next.asOf <= next.syncedAt + SyncTime
    BY <2>1, <2>3, <2>6, AgeTogether, ConstantsAreTyped DEF Reads
  <2>10. ASSUME NEW p \in PartNames, ~next.shown[p].behind, NEW old \in next.shown[p].ages
         PROVE  old <= next.syncedAt + 2 * SyncTime
    <3>1. PICK age \in reading[k].shown[p].ages : old = Older(age)
      BY <2>3, <2>6, <2>10
    <3>2. age \in Ages /\ age <= reading[k].syncedAt + 2 * SyncTime /\ 2 * SyncTime \in Nat
      BY <2>1, <2>3, <2>6, <2>10, <3>1, ConstantsAreTyped DEF Reads
    <3> QED
      BY <2>3, <2>6, <3>1, <3>2, AgeTogether
  <2>11. next.stage = "reading" /\ next.left <= ReadTime
    BY <2>1, <2>3, <2>6, ConstantsAreTyped DEF Reads
  <2>12. NextTo(k, reading[k], ReadTime)'
    <3>1. NextTo(k, reading[k], ReadTime)
      BY <2>1 DEF Reads
    <3>2. \A p \in PartNames : next.shown[p].ages = {Older(age) : age \in reading[k].shown[p].ages}
      BY <2>3, <2>6
    <3>3. /\ next.asOf # row'.asOf => row'.syncedAt + next.left <= ReadTime
          /\ \A p \in PartsOf(k) \ next.todo :
                next.shown[p].ages # stored'[p].ages => stored'[p].since + next.left <= ReadTime
      BY <1>1, <2>2, <2>3, <2>6, <2>7, <3>1, <3>2, NextToAges, ConstantsAreTyped
    <3> QED
      BY <3>3 DEF NextTo, next
  <2> QED
    BY <2>6, <2>7, <2>8, <2>9, <2>10, <2>11, <2>12 DEF Reads, next
<1>4. \A k \in Kinds : reading'[k] \in Answers
  BY <1>2, <1>3, NoAnswerIsTyped
<1>5. reading' = [k \in Kinds |-> reading'[k]]
  BY DEF AgeSync
<1> QED
  BY <1>2, <1>3, <1>4, <1>5 DEF ReadingsAreFresh

LEMMA AgeKeepsAnswers ==
    ASSUME FeedInv, AgeSync
    PROVE  cache' \in [Kinds -> Answers] /\ AnswersKeep'
<1>1. \A k \in Kinds : cache[k] \in Answers
  BY DEF FeedInv, FeedTypes
<1>2. \A k \in Kinds : cache'[k] = Kept(cache[k])
  BY DEF AgeSync
<1>3. \A k \in Kinds : cache'[k] \in Answers
  BY <1>1, <1>2, AnswersAge, NoAnswerIsTyped DEF Kept, Answers
<1>4. cache' = [k \in Kinds |-> cache'[k]]
  BY DEF AgeSync
<1>5. ASSUME NEW k \in Kinds, cache'[k] # NoAnswer
      PROVE  Keeps(k)'
  <2> DEFINE a == cache[k]
             b == cache'[k]
  <2>1. a.left # 0 /\ b = Aged(a) /\ a \in Answers
    BY <1>1, <1>2, <1>5 DEF Kept
  <2>2. a # NoAnswer
    BY <2>1 DEF NoAnswer
  <2>3. Keeps(k)
    BY <2>2 DEF FeedInv, AnswersKeep
  <2>4. a.left > 0
    BY <2>1 DEF Answers
  <2>5. /\ b \in Answers
        /\ b.asOf = Older(a.asOf) /\ b.left = a.left - 1
        /\ b.stage = a.stage /\ b.todo = a.todo /\ b.flagged = a.flagged
        /\ \A p \in PartNames : /\ b.shown[p].behind = a.shown[p].behind
                                /\ b.shown[p].ages = {Older(age) : age \in a.shown[p].ages}
        /\ a.asOf \in Ages /\ a.left \in Nat
        /\ \A p \in PartNames : a.shown[p].ages \in SUBSET Ages
    BY <2>1, <2>4, AnswersAge
  <2>6. NextTo(k, a, ReadTime + CacheTtl) /\ row # NoRow /\ row' # NoRow
    BY <2>3, RowsAge DEF Keeps, AgeSync, FeedInv, FeedTypes
  <2> HIDE DEF a, b
  <2>7. /\ b.asOf # row'.asOf => row'.syncedAt + b.left <= ReadTime + CacheTtl
        /\ \A p \in PartsOf(k) \ b.todo :
              b.shown[p].ages # stored'[p].ages => stored'[p].since + b.left <= ReadTime + CacheTtl
    <3>1. ReadTime + CacheTtl \in Nat
      BY ConstantsAreTyped
    <3> QED
      BY <2>1, <2>4, <2>5, <2>6, <3>1, NextToAges
  <2>8. ASSUME k \in Flagging, ~b.flagged
        PROVE  /\ b.asOf + b.left <= SyncTime + StaleAfter + CacheTtl
               /\ \A p \in PartNames : ~b.shown[p].behind =>
                     \A old \in b.shown[p].ages :
                         old + b.left <= 2 * SyncTime + StaleAfter + CacheTtl
    <3>1. /\ a.asOf + a.left <= SyncTime + StaleAfter + CacheTtl
          /\ \A p \in PartNames : ~a.shown[p].behind =>
                \A age \in a.shown[p].ages : age + a.left <= 2 * SyncTime + StaleAfter + CacheTtl
      BY <2>3, <2>5, <2>8 DEF Keeps, a
    <3>2. b.asOf + b.left <= SyncTime + StaleAfter + CacheTtl
      BY <2>5, <3>1, ConstantsAreTyped DEF Ages, Older
    <3>3. ASSUME NEW p \in PartNames, ~b.shown[p].behind, NEW old \in b.shown[p].ages
          PROVE  old + b.left <= 2 * SyncTime + StaleAfter + CacheTtl
      <4>1. PICK age \in a.shown[p].ages : old = Older(age)
        BY <2>5, <3>3
      <4>2. age \in Ages /\ age + a.left <= 2 * SyncTime + StaleAfter + CacheTtl
        BY <2>5, <3>1, <3>3, <4>1
      <4> QED
        BY <2>5, <4>1, <4>2, ConstantsAreTyped DEF Ages, Older
    <3> QED
      BY <3>2, <3>3
  <2>9. b.stage = "cached" /\ b.left <= CacheTtl /\ b.todo = {}
    BY <2>3, <2>5, ConstantsAreTyped DEF Keeps, a
  <2> QED
    BY <2>6, <2>7, <2>8, <2>9 DEF Keeps, NextTo, b
<1> QED
  BY <1>3, <1>4, <1>5 DEF AnswersKeep

LEMMA AgeKeepsFresh ==
    ASSUME FeedInv, AgeSync
    PROVE  FeedInv'
<1>1. over' \in Ages /\ match' \in Matches
  BY AgesGrow DEF AgeSync, FeedInv, FeedTypes
<1>2. job' \in Jobs
  <2>1. job' = [job EXCEPT !.left = IF @ > 0 THEN @ - 1 ELSE 0] /\ job \in Jobs
    BY DEF AgeSync, FeedInv, FeedTypes
  <2>2. (IF job.left > 0 THEN job.left - 1 ELSE 0) \in Nat
    BY <2>1 DEF Jobs
  <2> QED
    BY <2>1, <2>2 DEF Jobs
<1> QED
  BY <1>1, <1>2, AgeKeepsRows, AgeKeepsReadings, AgeKeepsAnswers DEF FeedInv, FeedTypes

LEMMA StepKeepsFresh == FeedInv /\ [Feed]_syncVars => FeedInv'
<1> SUFFICES ASSUME FeedInv, [Feed]_syncVars PROVE FeedInv'
  OBVIOUS
<1>1. CASE Resume
  <2>1. job' \in Jobs
    BY <1>1 DEF Resume, FeedInv, FeedTypes, Jobs
  <2> QED
    BY <1>1, <2>1 DEF Resume, FeedInv, FeedTypes, RowsInv, RowIsFresh, PartsAreFresh, SeenIsFresh,
                      GotIsFresh, ClearedIsFresh, Part, ReadingsAreFresh, AnswersKeep, Reads, Keeps, NextTo
<1>2. CASE \E t \in Ticks : BeginTick(t) \/ Throttled(t) \/ StartSync(t)
  BY <1>2, ScheduleKeepsFresh DEF Syncs
<1>3. CASE \E s \in Requests : RequestSync(s)
  BY <1>3, ScheduleKeepsFresh DEF Syncs
<1>4. CASE \E s \in Syncs : SyncStep(s)
  BY <1>4, SyncKeepsFresh
<1>5. CASE \E k \in Kinds : BeginRead(k) \/ (\E p \in PartNames : ReadPart(k, p)) \/ EndRead(k)
  BY <1>5, BeginReadKeepsFresh, ReadPartKeepsFresh, EndReadKeepsFresh
<1>6. CASE PlayOn
  <2>1. match' \in Matches
    BY <1>6, MatchStaysTyped DEF PlayOn, FeedInv, FeedTypes
  <2> QED
    BY <1>6, <2>1 DEF PlayOn, FeedInv, FeedTypes, RowsInv, RowIsFresh, PartsAreFresh, SeenIsFresh,
                      GotIsFresh, ClearedIsFresh, Part, ReadingsAreFresh, AnswersKeep, Reads, Keeps, NextTo
<1>7. CASE \E s \in Syncs : Evaluated(s)
  BY <1>7, ScheduleKeepsFresh
<1>8. CASE RestartSync
  <2>1. FeedTypes'
    BY <1>8, NoSyncIsTyped, NoAnswerIsTyped DEF RestartSync, FeedInv, FeedTypes, Jobs
  <2>2. SeenIsFresh' /\ GotIsFresh' /\ ClearedIsFresh'
    BY <1>8, NoSyncIsTyped DEF RestartSync, SeenIsFresh, GotIsFresh, ClearedIsFresh
  <2> QED
    BY <1>8, <2>1, <2>2 DEF RestartSync, FeedInv, RowsInv, RowIsFresh, PartsAreFresh, ReadingsAreFresh,
                            AnswersKeep
<1>9. CASE AgeSync
  BY <1>9, AgeKeepsFresh
<1>10. CASE UNCHANGED syncVars
  BY <1>10 DEF syncVars, FeedInv, FeedTypes, RowsInv, RowIsFresh, PartsAreFresh, SeenIsFresh,
               GotIsFresh, ClearedIsFresh, Part, ReadingsAreFresh, AnswersKeep, Reads, Keeps, NextTo
<1> QED
  BY <1>1, <1>2, <1>3, <1>4, <1>5, <1>6, <1>7, <1>8, <1>9, <1>10 DEF Feed, NextSync

(* isStale, getFromCache, setCache, invalidateReadCache.  An answer of a   *)
(* list or a summary that does not call itself stale has the row no older  *)
(* than a sync takes, the age from which a row is stale and the time an    *)
(* answer is cached, and each part that was stored since the row was no    *)
(* older than one sync more;                                               *)
(* and an answer of any kind differs from the rows only as long after a    *)
(* write as a read and the cache take: however syncs, reads, failures and  *)
(* restarts interleave.                                                    *)
THEOREM FreshAnswers == FeedSpec => []AnswersAreFresh
<1>1. FeedInv => FlagsAreHonest
  <2> SUFFICES ASSUME FeedInv, NEW k \in Kinds \cap Flagging, Hit(k), ~cache[k].flagged
               PROVE  /\ cache[k].asOf <= SyncTime + StaleAfter + CacheTtl
                      /\ \A p \in PartsOf(k) : ~cache[k].shown[p].behind =>
                            \A age \in cache[k].shown[p].ages :
                                age <= 2 * SyncTime + StaleAfter + CacheTtl
    BY DEF FlagsAreHonest
  <2>1. Keeps(k) /\ cache[k] \in Answers
    BY NoAnswerIsTyped DEF Hit, FeedInv, FeedTypes, AnswersKeep
  <2>2. cache[k].asOf \in Nat /\ cache[k].left \in Nat
    BY <2>1, ConstantsAreTyped DEF Answers, Ages
  <2>3. \A p \in PartsOf(k) : p \in PartNames /\ cache[k].shown[p].ages \subseteq Nat
    BY <2>1, ConstantsAreTyped DEF Answers, Shown, Ages, PartsOf
  <2> QED
    BY <2>1, <2>2, <2>3, ConstantsAreTyped DEF Keeps
<1>2. FeedInv => AnswersFollowTheRows
  <2> SUFFICES ASSUME FeedInv, NEW k \in Kinds, Hit(k)
               PROVE  /\ cache[k].asOf # row.asOf => row.syncedAt <= ReadTime + CacheTtl
                      /\ \A p \in PartsOf(k) : cache[k].shown[p].ages # stored[p].ages =>
                            stored[p].since <= ReadTime + CacheTtl
    BY DEF AnswersFollowTheRows
  <2>1. Keeps(k) /\ cache[k] \in Answers /\ stored \in Storage
    BY NoAnswerIsTyped DEF Hit, FeedInv, FeedTypes, AnswersKeep
  <2>2. cache[k].left \in Nat /\ row.syncedAt \in Nat
    BY <2>1, ConstantsAreTyped DEF Answers, FeedInv, FeedTypes, Rows, NoRow, Ages
  <2>3. \A p \in PartsOf(k) : stored[p].since \in Nat
    BY <2>1, ConstantsAreTyped DEF Storage, Ages, PartsOf
  <2> QED
    BY <2>1, <2>2, <2>3, ConstantsAreTyped DEF Keeps, NextTo
<1> QED
  BY <1>1, <1>2, FreshAtFirst, StepKeepsFresh, PTL DEF FeedSpec, AnswersAreFresh

-----------------------------------------------------------------------------
(* What is recorded of suggested bets, and by whom.                        *)
IsCoupon(c) ==
    /\ c = Coupon(c.id, c.bet, c.status)
    /\ c.bet \in Bets
    /\ c.status \in {"PENDING", "WON", "LOST"}

EvalPlaces == {"idle", "existing", "insert", "pending", "rows", "save"}

IsEval(e) ==
    /\ e = [at |-> e.at, age |-> e.age, bets |-> e.bets, todo |-> e.todo]
    /\ e.at \in EvalPlaces
    /\ e.age \in 0 .. EvalTime
    /\ e.bets \subseteq Bets
    /\ \A c \in e.todo : IsCoupon(c)

CouponTypes ==
    /\ \A c \in coupons : IsCoupon(c)
    /\ eval = [p \in Evaluators |-> eval[p]]
    /\ \A p \in Evaluators : IsEval(eval[p])
    /\ purging \in BOOLEAN
    /\ crashes \in Nat

(* An evaluation holds the place of its sync until it has resolved.        *)
EvalsInPlace == \A s \in Syncs : eval[s].at # "idle" => sync[s].at = "evaluating"

CouponInv == FeedInv /\ CouponTypes /\ EvalsInPlace

LEMMA NoEvalIsTyped ==
    /\ IsEval(NoEval) /\ NoEval.at = "idle"
    /\ IsEval([NoEval EXCEPT !.at = "pending"]) /\ [NoEval EXCEPT !.at = "pending"].at = "pending"
<1>1. 0 \in 0 .. EvalTime
  BY PurgeAssumption
<1>2. [NoEval EXCEPT !.at = "pending"] = [at |-> "pending", age |-> 0, bets |-> {}, todo |-> {}]
  BY DEF NoEval
<1> QED
  BY <1>1, <1>2 DEF NoEval, IsEval, EvalPlaces

LEMMA CouponsAtFirst == Init => CouponInv
<1> SUFFICES ASSUME Init PROVE CouponInv
  OBVIOUS
<1>1. FeedInv
  BY FreshAtFirst DEF Init
<1>2. \A p \in Evaluators : eval[p] = NoEval
  BY DEF Init
<1> QED
  BY <1>1, <1>2, NoEvalIsTyped DEF Init, CouponInv, CouponTypes, EvalsInPlace, Evaluators

(* No step of a sync takes place while it is evaluated.                    *)
LEMMA FeedLeavesEvaluations ==
    ASSUME FeedInv, NextSync \/ AgeSync, NEW s \in Syncs, sync[s].at = "evaluating"
    PROVE  sync'[s].at = "evaluating"
<1>1. sync \in [Syncs -> [at : Places, try : Nat, part : Nat, got : SUBSET Ages, seen : Rows]]
  BY DEF FeedInv, FeedTypes, Running
<1>2. CASE AgeSync
  BY <1>1, <1>2 DEF AgeSync
<1>3. CASE NextSync
  <2>1. CASE sync' = sync
    BY <2>1
  <2>2. CASE \E t \in Ticks : BeginTick(t) \/ Throttled(t) \/ StartSync(t)
    BY <1>1, <2>2 DEF BeginTick, Throttled, StartSync
  <2>3. CASE \E r \in Requests : RequestSync(r)
    BY <1>1, <2>3 DEF RequestSync
  <2>4. CASE \E r \in Syncs : SyncStep(r)
    <3>1. PICK r \in Syncs : SyncStep(r)
      BY <2>4
    <3>2. CASE r = s
      BY <1>1, <3>1, <3>2 DEF SyncStep, Retry, Calling, SyncFails, FetchLive, StoreMatch,
                              StoreTeams, FetchPart, ClearPart, InsertPart, FinishSync, NoSync
    <3>3. CASE r # s
      <4>1. PICK next : sync' = [sync EXCEPT ![r] = next]
        BY <3>1 DEF SyncStep, Retry, SyncFails, FetchLive, StoreMatch, StoreTeams, FetchPart, ClearPart, InsertPart,
                    FinishSync
      <4> QED
        BY <1>1, <3>3, <4>1
    <3> QED
      BY <3>2, <3>3
  <2>5. CASE \E k \in Kinds : BeginRead(k) \/ (\E p \in PartNames : ReadPart(k, p)) \/ EndRead(k)
    BY <2>1, <2>5 DEF BeginRead, ReadPart, EndRead
  <2>6. CASE Resume \/ PlayOn
    BY <2>1, <2>6 DEF Resume, PlayOn
  <2> QED
    BY <1>3, <2>2, <2>3, <2>4, <2>5, <2>6 DEF NextSync
<1> QED
  BY <1>2, <1>3

(* To leave is to give the place back.                                     *)
LEMMA LeavingEndsEvaluation ==
    ASSUME CouponInv, NEW p \in Evaluators, eval[p].at # "idle", Leave(p),
           UNCHANGED <<match, over, row, stored, job, reading, cache>>
    PROVE  /\ [Feed]_syncVars
           /\ \A s \in Syncs : s # p => sync'[s] = sync[s]
<1>1. sync \in [Syncs -> [at : Places, try : Nat, part : Nat, got : SUBSET Ages, seen : Rows]]
  BY DEF CouponInv, FeedInv, FeedTypes, Running
<1>2. CASE p \in Syncs
  <2>1. sync[p].at = "evaluating" /\ sync' = [sync EXCEPT ![p] = NoSync]
    BY <1>2 DEF CouponInv, EvalsInPlace, Leave
  <2>2. Evaluated(p)
    BY <2>1 DEF Evaluated
  <2> QED
    BY <1>1, <1>2, <2>1, <2>2 DEF Feed
<1>3. CASE p \notin Syncs
  BY <1>3 DEF Leave, syncVars
<1> QED
  BY <1>2, <1>3

(* Whatever Coupons adds, the synchronisation goes its own way.            *)
LEMMA CouponStepIsFeedStep ==
    ASSUME CouponInv, [Next]_vars
    PROVE  [Feed]_syncVars
<1>1. CASE NextSync \/ AgeSync \/ RestartSync
  BY <1>1 DEF Feed
<1>2. CASE UNCHANGED syncVars
  BY <1>2
<1>3. CASE \E s \in Syncs : Suggest(s) \/ FindExisting(s) \/ InsertCoupons(s) \/ EvaluationFails(s)
  BY <1>2, <1>3 DEF Suggest, FindExisting, InsertCoupons, EvaluationFails
<1>4. CASE \E p \in Evaluators : Resolution(p) \/ ResolutionFails(p)
  <2>1. PICK p \in Evaluators : Resolution(p) \/ ResolutionFails(p)
    BY <1>4
  <2>2. CASE Leave(p)
    <3>1. eval[p].at # "idle" /\ UNCHANGED <<match, over, row, stored, job, reading, cache>>
      BY <2>1 DEF Resolution, FindPending, ReadRows, SaveCoupon, ResolutionEnds, ResolutionFails,
                  syncVars
    <3> QED
      BY <2>2, <3>1, LeavingEndsEvaluation
  <2>3. CASE ~Leave(p)
    BY <1>2, <2>1, <2>3 DEF Resolution, FindPending, ReadRows, SaveCoupon, ResolutionEnds,
                            ResolutionFails, syncVars
  <2> QED
    BY <2>2, <2>3
<1>5. CASE BeginCron \/ FindStale \/ PurgeCoupons
  BY <1>2, <1>5 DEF BeginCron, FindStale, PurgeCoupons
<1>6. CASE Crash \/ Wait
  BY <1>1, <1>6 DEF Crash, Wait
<1>7. CASE UNCHANGED vars
  BY <1>2, <1>7 DEF vars
<1> QED
  BY <1>1, <1>3, <1>4, <1>5, <1>6, <1>7 DEF Next

(* Types, and that evaluations stay in their places, step by step.  First  *)
(* a step of one evaluation that leaves the synchronisation alone.         *)
LEMMA EvalMoves ==
    ASSUME CouponInv, NEW p \in Evaluators, NEW next, IsEval(next),
           eval' = [eval EXCEPT ![p] = next],
           p \in Syncs /\ next.at # "idle" => sync[p].at = "evaluating",
           \A c \in coupons' : IsCoupon(c),
           UNCHANGED <<syncVars, purging, crashes>>
    PROVE  CouponTypes' /\ EvalsInPlace'
<1>1. \A q \in Evaluators : eval'[q] = IF q = p THEN next ELSE eval[q]
  BY DEF CouponInv, CouponTypes
<1>2. eval' = [q \in Evaluators |-> eval'[q]]
  BY DEF CouponInv, CouponTypes
<1>3. CouponTypes'
  BY <1>1, <1>2 DEF CouponInv, CouponTypes
<1>4. EvalsInPlace'
  BY <1>1 DEF CouponInv, EvalsInPlace, Evaluators, syncVars
<1> QED
  BY <1>3, <1>4

LEMMA LeavingKeepsTypes ==
    ASSUME CouponInv, NEW p \in Evaluators, eval[p].at # "idle", Leave(p),
           UNCHANGED <<match, over, row, stored, job, reading, cache, coupons, purging, crashes>>
    PROVE  CouponTypes' /\ EvalsInPlace'
<1>1. \A q \in Evaluators : eval'[q] = IF q = p THEN NoEval ELSE eval[q]
  BY DEF CouponInv, CouponTypes, Leave
<1>2. eval' = [q \in Evaluators |-> eval'[q]]
  BY DEF CouponInv, CouponTypes, Leave
<1>3. CouponTypes'
  BY <1>1, <1>2, NoEvalIsTyped DEF CouponInv, CouponTypes
<1>4. EvalsInPlace'
  BY <1>1, NoEvalIsTyped, LeavingEndsEvaluation DEF CouponInv, EvalsInPlace, Evaluators
<1> QED
  BY <1>3, <1>4

(* The records an evaluation goes through.                                 *)
LEMMA EvalIsRecord ==
    ASSUME NEW e, IsEval(e)
    PROVE  e \in [at : {e.at}, age : {e.age}, bets : {e.bets}, todo : {e.todo}]
BY DEF IsEval

LEMMA EvalsAreTyped ==
    ASSUME NEW e, IsEval(e)
    PROVE  /\ \A bets \in SUBSET Bets : \A at \in EvalPlaces :
                  IsEval([e EXCEPT !.at = at, !.bets = bets])
           /\ \A at \in EvalPlaces : IsEval([e EXCEPT !.at = at])
           /\ \A at \in EvalPlaces : \A todo : (\A c \in todo : IsCoupon(c)) =>
                  IsEval([e EXCEPT !.at = at, !.todo = todo])
           /\ \A todo : (\A c \in todo : IsCoupon(c)) => IsEval([e EXCEPT !.todo = todo])
<1>0. e \in [at : {e.at}, age : {e.age}, bets : {e.bets}, todo : {e.todo}]
  BY EvalIsRecord
<1>1. /\ e.at \in EvalPlaces /\ e.age \in 0 .. EvalTime /\ e.bets \subseteq Bets
      /\ \A c \in e.todo : IsCoupon(c)
  BY DEF IsEval
<1>2. \A at \in EvalPlaces, bets \in SUBSET Bets : \A todo : (\A c \in todo : IsCoupon(c)) =>
          IsEval([at |-> at, age |-> e.age, bets |-> bets, todo |-> todo])
  BY <1>1 DEF IsEval
<1>3. ASSUME NEW bets \in SUBSET Bets, NEW at \in EvalPlaces
      PROVE  IsEval([e EXCEPT !.at = at, !.bets = bets])
  <2> DEFINE f == [e EXCEPT !.at = at, !.bets = bets]
             r == [at |-> at, age |-> e.age, bets |-> bets, todo |-> e.todo]
  <2>1. f \in [at : {at}, age : {e.age}, bets : {bets}, todo : {e.todo}]
    BY <1>0
  <2> HIDE DEF f
  <2>2. f = r
    BY <2>1
  <2>3. IsEval(r)
    BY <1>1, <1>2
  <2> HIDE DEF r
  <2> QED
    BY <2>2, <2>3 DEF f
<1>4. ASSUME NEW at \in EvalPlaces, NEW todo, \A c \in todo : IsCoupon(c)
      PROVE  IsEval([e EXCEPT !.at = at, !.todo = todo])
  <2> DEFINE f == [e EXCEPT !.at = at, !.todo = todo]
             r == [at |-> at, age |-> e.age, bets |-> e.bets, todo |-> todo]
  <2>1. f \in [at : {at}, age : {e.age}, bets : {e.bets}, todo : {todo}]
    BY <1>0
  <2> HIDE DEF f
  <2>2. f = r
    BY <2>1
  <2>3. IsEval(r)
    BY <1>1, <1>2, <1>4
  <2> HIDE DEF r
  <2> QED
    BY <2>2, <2>3 DEF f
<1>5. ASSUME NEW at \in EvalPlaces
      PROVE  IsEval([e EXCEPT !.at = at])
  <2> DEFINE f == [e EXCEPT !.at = at]
             r == [at |-> at, age |-> e.age, bets |-> e.bets, todo |-> e.todo]
  <2>1. f \in [at : {at}, age : {e.age}, bets : {e.bets}, todo : {e.todo}]
    BY <1>0
  <2> HIDE DEF f
  <2>2. f = r
    BY <2>1
  <2>3. IsEval(r)
    BY <1>1, <1>2
  <2> HIDE DEF r
  <2> QED
    BY <2>2, <2>3 DEF f
<1>6. ASSUME NEW todo, \A c \in todo : IsCoupon(c)
      PROVE  IsEval([e EXCEPT !.todo = todo])
  <2> DEFINE f == [e EXCEPT !.todo = todo]
             r == [at |-> e.at, age |-> e.age, bets |-> e.bets, todo |-> todo]
  <2>1. f \in [at : {e.at}, age : {e.age}, bets : {e.bets}, todo : {todo}]
    BY <1>0
  <2> HIDE DEF f
  <2>2. f = r
    BY <2>1
  <2>3. IsEval(r)
    BY <1>1, <1>2, <1>6
  <2> HIDE DEF r
  <2> QED
    BY <2>2, <2>3 DEF f
<1> QED
  BY <1>3, <1>4, <1>5, <1>6

LEMMA OutcomesAreTyped ==
    ASSUME NEW m, NEW bet
    PROVE  ResolveOutcome(m, bet) \in {"WON", "LOST", "OPEN"}
<1>1. \A side : FirstHalfOutcome(m, side) \in {"WON", "LOST", "OPEN"}
  BY DEF FirstHalfOutcome
<1>2. \A side : /\ FullOutcome(m, side) \in {"WON", "LOST", "OPEN"}
                /\ SecondHalfOutcome(m, side) \in {"WON", "LOST", "OPEN"}
  BY DEF FullOutcome, SecondHalfOutcome
<1>3. Undecided(m, bet) \in {"WON", "LOST", "OPEN"}
  BY <1>1, <1>2 DEF Undecided
<1> QED
  BY <1>3 DEF ResolveOutcome

LEMMA CouponsAreRecords ==
    ASSUME NEW c, IsCoupon(c), NEW status \in {"PENDING", "WON", "LOST"}
    PROVE  /\ [c EXCEPT !.status = status] = Coupon(c.id, c.bet, status)
           /\ IsCoupon([c EXCEPT !.status = status])
           /\ [c EXCEPT !.status = status].status = status
           /\ [c EXCEPT !.status = status].bet = c.bet
<1> DEFINE f == [c EXCEPT !.status = status]
<1>1. c \in [id : {c.id}, bet : {c.bet}, status : {c.status, status}]
  BY DEF IsCoupon, Coupon
<1>2. f = Coupon(c.id, c.bet, status)
  BY <1>1 DEF Coupon
<1>3. /\ Coupon(c.id, c.bet, status).id = c.id /\ Coupon(c.id, c.bet, status).bet = c.bet
      /\ Coupon(c.id, c.bet, status).status = status
  BY DEF Coupon
<1> HIDE DEF f
<1>4. IsCoupon(f)
  BY <1>2, <1>3 DEF IsCoupon
<1> QED
  BY <1>2, <1>3, <1>4 DEF f

LEMMA NewCoupons ==
    ASSUME NEW id, NEW b \in Bets
    PROVE  /\ IsCoupon(Coupon(id, b, "PENDING"))
           /\ Coupon(id, b, "PENDING").status = "PENDING" /\ Coupon(id, b, "PENDING").bet = b
BY DEF IsCoupon, Coupon

LEMMA EvaluationKeepsTypes ==
    ASSUME CouponInv, NEW s \in Syncs,
           Suggest(s) \/ FindExisting(s) \/ InsertCoupons(s) \/ EvaluationFails(s)
    PROVE  CouponTypes' /\ EvalsInPlace'
<1>0. s \in Evaluators /\ IsEval(eval[s])
  BY DEF Evaluators, CouponInv, CouponTypes
<1>1. CASE Suggest(s)
  <2>1. PICK found \in SUBSET Suggestible(row) :
           eval' = [eval EXCEPT ![s] = IF found = {} THEN [NoEval EXCEPT !.at = "pending"]
                                       ELSE [NoEval EXCEPT !.at = "existing", !.bets = found]]
    BY <1>1 DEF Suggest
  <2>2. found \in SUBSET Bets
    BY DEF Suggestible
  <2>3. IsEval([NoEval EXCEPT !.at = "existing", !.bets = found])
    BY <2>2, NoEvalIsTyped, EvalsAreTyped DEF EvalPlaces
  <2> QED
    BY <1>0, <1>1, <2>1, <2>3, NoEvalIsTyped, EvalMoves DEF Suggest, CouponInv, CouponTypes
<1>2. CASE FindExisting(s)
  <2> DEFINE new == eval[s].bets \ {c.bet : c \in coupons}
  <2>1. eval' = [eval EXCEPT ![s] = [eval[s] EXCEPT !.at = "insert", !.bets = new]]
    BY <1>0, <1>2 DEF FindExisting, CouponInv, CouponTypes
  <2>2. new \in SUBSET Bets
    BY <1>0 DEF IsEval
  <2> HIDE DEF new
  <2>3. IsEval([eval[s] EXCEPT !.at = "insert", !.bets = new])
    BY <1>0, <2>2, EvalsAreTyped DEF EvalPlaces
  <2>4. sync[s].at = "evaluating"
    BY <1>2 DEF FindExisting, CouponInv, EvalsInPlace
  <2> QED
    BY <1>0, <1>2, <2>1, <2>3, <2>4, EvalMoves DEF FindExisting, CouponInv, CouponTypes
<1>3. CASE InsertCoupons(s)
  <2>1. PICK ids : coupons' = coupons \cup {Coupon(ids[b], b, "PENDING") : b \in eval[s].bets}
    BY <1>3 DEF InsertCoupons
  <2>2. \A c \in coupons' : IsCoupon(c)
    BY <1>0, <2>1, NewCoupons DEF CouponInv, CouponTypes, IsEval
  <2>3. sync[s].at = "evaluating"
    BY <1>3 DEF InsertCoupons, CouponInv, EvalsInPlace
  <2> QED
    BY <1>0, <1>3, <2>2, <2>3, NoEvalIsTyped, EvalMoves DEF InsertCoupons
<1>4. CASE EvaluationFails(s)
  <2>1. sync[s].at = "evaluating"
    BY <1>4 DEF EvaluationFails, CouponInv, EvalsInPlace
  <2> QED
    BY <1>0, <1>4, <2>1, NoEvalIsTyped, EvalMoves DEF EvaluationFails, CouponInv, CouponTypes
<1> QED
  BY <1>1, <1>2, <1>3, <1>4

(* The coupons a resolution has decided.                                   *)
DecidedOf(todo) == {[c EXCEPT !.status = CouponOutcome(c.bet)] :
                        c \in {d \in todo : CouponOutcome(d.bet) # "OPEN"}}

LEMMA DecidedAreTyped ==
    ASSUME NEW todo, \A c \in todo : IsCoupon(c)
    PROVE  \A d \in DecidedOf(todo) :
               /\ IsCoupon(d) /\ d.status # "PENDING"
               /\ d.status = CouponOutcome(d.bet) /\ CouponOutcome(d.bet) # "OPEN"
<1> SUFFICES ASSUME NEW c \in todo, CouponOutcome(c.bet) # "OPEN"
             PROVE  LET d == [c EXCEPT !.status = CouponOutcome(c.bet)]
                    IN  /\ IsCoupon(d) /\ d.status # "PENDING"
                        /\ d.status = CouponOutcome(d.bet) /\ CouponOutcome(d.bet) # "OPEN"
  BY DEF DecidedOf
<1> DEFINE v == CouponOutcome(c.bet)
<1>1. v \in {"WON", "LOST"}
  BY OutcomesAreTyped DEF CouponOutcome
<1>2. IsCoupon(c)
  OBVIOUS
<1> HIDE DEF v
<1>3. /\ IsCoupon([c EXCEPT !.status = v]) /\ [c EXCEPT !.status = v].status = v
      /\ [c EXCEPT !.status = v].bet = c.bet
  BY <1>1, <1>2, CouponsAreRecords
<1> QED
  BY <1>1, <1>3 DEF v

LEMMA ResolutionKeepsTypes ==
    ASSUME CouponInv, NEW p \in Evaluators, Resolution(p) \/ ResolutionFails(p)
    PROVE  CouponTypes' /\ EvalsInPlace'
<1>0. IsEval(eval[p]) /\ eval[p].at # "idle" /\ (p \in Syncs => sync[p].at = "evaluating")
  BY DEF CouponInv, CouponTypes, EvalsInPlace, Resolution, ResolutionFails, FindPending,
         ReadRows, SaveCoupon, ResolutionEnds
<1>1. CASE Leave(p) /\ UNCHANGED <<match, over, row, stored, job, reading, cache, coupons, purging, crashes>>
  BY <1>0, <1>1, LeavingKeepsTypes
<1>2. CASE FindPending(p) /\ Pending # {}
  <2>1. eval' = [eval EXCEPT ![p] = [eval[p] EXCEPT !.at = "rows", !.todo = Pending]]
    BY <1>2 DEF FindPending, CouponInv, CouponTypes
  <2>2. \A c \in Pending : IsCoupon(c)
    BY DEF Pending, CouponInv, CouponTypes
  <2>3. IsEval([eval[p] EXCEPT !.at = "rows", !.todo = Pending])
    BY <1>0, <2>2, EvalsAreTyped DEF EvalPlaces
  <2>4. UNCHANGED <<syncVars, purging, crashes, coupons>>
    BY <1>2 DEF FindPending, syncVars
  <2> QED
    BY <1>0, <2>1, <2>3, <2>4, EvalMoves DEF CouponInv, CouponTypes
<1>3. CASE ReadRows(p)
  <2>1. eval' = [eval EXCEPT ![p] = [eval[p] EXCEPT !.at = "save", !.todo = DecidedOf(eval[p].todo)]]
    BY <1>3 DEF ReadRows, DecidedOf, CouponInv, CouponTypes
  <2>2. \A c \in DecidedOf(eval[p].todo) : IsCoupon(c)
    <3>1. \A c \in eval[p].todo : IsCoupon(c)
      BY <1>0 DEF IsEval
    <3> QED
      BY <3>1, DecidedAreTyped
  <2>3. IsEval([eval[p] EXCEPT !.at = "save", !.todo = DecidedOf(eval[p].todo)])
    <3> DEFINE todo == DecidedOf(eval[p].todo)
    <3>1. (\A c \in todo : IsCoupon(c)) /\ "save" \in EvalPlaces
      BY <2>2 DEF EvalPlaces
    <3> HIDE DEF todo
    <3>2. IsEval([eval[p] EXCEPT !.at = "save", !.todo = todo])
      BY <1>0, <3>1, EvalsAreTyped
    <3> QED
      BY <3>2 DEF todo
  <2> QED
    BY <1>0, <1>3, <2>1, <2>3, EvalMoves DEF ReadRows, CouponInv, CouponTypes
<1>4. CASE SaveCoupon(p)
  <2>1. PICK c \in eval[p].todo :
            /\ eval' = [eval EXCEPT ![p] = [eval[p] EXCEPT !.todo = eval[p].todo \ {c}]]
            /\ coupons' = {d \in coupons : d.id # c.id} \cup {c}
    BY <1>4 DEF SaveCoupon, CouponInv, CouponTypes
  <2>2. IsCoupon(c) /\ \A d \in eval[p].todo \ {c} : IsCoupon(d)
    BY <1>0 DEF IsEval
  <2>3. IsEval([eval[p] EXCEPT !.todo = eval[p].todo \ {c}])
    BY <1>0, <2>2, EvalsAreTyped
  <2>4. \A d \in coupons' : IsCoupon(d)
    BY <2>1, <2>2 DEF CouponInv, CouponTypes
  <2> QED
    BY <1>0, <1>4, <2>1, <2>3, <2>4, EvalMoves DEF SaveCoupon
<1> QED
  BY <1>1, <1>2, <1>3, <1>4 DEF Resolution, ResolutionFails, FindPending, ResolutionEnds

LEMMA StepKeepsCouponInv == CouponInv /\ [Next]_vars => CouponInv'
<1> SUFFICES ASSUME CouponInv, [Next]_vars PROVE CouponInv'
  OBVIOUS
<1>1. FeedInv'
  BY CouponStepIsFeedStep, StepKeepsFresh DEF CouponInv
<1>2. CouponTypes' /\ EvalsInPlace'
  <2>1. CASE NextSync /\ UNCHANGED <<coupons, eval, purging, crashes>>
    BY <2>1, FeedLeavesEvaluations DEF CouponInv, CouponTypes, EvalsInPlace
  <2>2. CASE \E s \in Syncs : Suggest(s) \/ FindExisting(s) \/ InsertCoupons(s) \/ EvaluationFails(s)
    BY <2>2, EvaluationKeepsTypes
  <2>3. CASE BeginCron
    <3>1. Cron \in Evaluators /\ Cron \notin Syncs
      BY CronAssumption DEF Evaluators
    <3>2. IsEval(eval[Cron]) /\ "pending" \in EvalPlaces
      BY <3>1 DEF CouponInv, CouponTypes, EvalPlaces
    <3>3. IsEval([eval[Cron] EXCEPT !.at = "pending"])
      BY <3>2, EvalsAreTyped
    <3>4. eval' = [eval EXCEPT ![Cron] = [eval[Cron] EXCEPT !.at = "pending"]]
      BY <2>3, <3>1 DEF BeginCron, CouponInv, CouponTypes
    <3> QED
      BY <2>3, <3>1, <3>3, <3>4, EvalMoves DEF BeginCron, CouponInv, CouponTypes
  <2>4. CASE \E p \in Evaluators : Resolution(p) \/ ResolutionFails(p)
    BY <2>4, ResolutionKeepsTypes
  <2>5. CASE FindStale \/ PurgeCoupons
    BY <2>5 DEF FindStale, PurgeCoupons, CouponInv, CouponTypes, EvalsInPlace, syncVars
  <2>6. CASE Crash
    <3>1. eval' = [p \in Evaluators |-> NoEval] /\ coupons' = coupons /\ purging' = FALSE
          /\ crashes' = crashes + 1
      BY <2>6 DEF Crash
    <3>2. \A p \in Evaluators : eval'[p] = NoEval
      BY <3>1
    <3>3. CouponTypes'
      <4>1. eval' = [p \in Evaluators |-> eval'[p]]
        BY <3>1
      <4>2. crashes' \in Nat
        BY <3>1 DEF CouponInv, CouponTypes
      <4> QED
        BY <3>1, <3>2, <4>1, <4>2, NoEvalIsTyped DEF CouponInv, CouponTypes
    <3>4. EvalsInPlace'
      BY <3>2, NoEvalIsTyped DEF EvalsInPlace, Evaluators
    <3> QED
      BY <3>3, <3>4
  <2>7. CASE Wait
    <3>1. \A p \in Evaluators : eval'[p] = IF eval[p].at \in {"existing", "insert"}
                                           THEN [eval[p] EXCEPT !.age = @ + 1] ELSE eval[p]
      BY <2>7 DEF Wait
    <3>2. ASSUME NEW p \in Evaluators
          PROVE  IsEval(eval'[p]) /\ eval'[p].at = eval[p].at
      <4>1. IsEval(eval[p])
        BY DEF CouponInv, CouponTypes
      <4>2. CASE eval[p].at \in {"existing", "insert"}
        <5> DEFINE age == eval[p].age + 1
                   f == [eval[p] EXCEPT !.age = age]
        <5>1. eval[p].age < EvalTime
          BY <2>7, <4>2 DEF Wait
        <5>2. age \in 0 .. EvalTime
          BY <4>1, <5>1, PurgeAssumption DEF IsEval
        <5>3. eval'[p] = f
          BY <3>1, <4>2
        <5> HIDE DEF age
        <5>4. eval[p] \in [at : {eval[p].at}, age : {eval[p].age, age}, bets : {eval[p].bets},
                          todo : {eval[p].todo}]
          BY <4>1 DEF IsEval
        <5>5. f = [at |-> eval[p].at, age |-> age, bets |-> eval[p].bets, todo |-> eval[p].todo]
          BY <5>4
        <5> HIDE DEF f
        <5>6. IsEval(f) /\ f.at = eval[p].at
          BY <4>1, <5>2, <5>5 DEF IsEval
        <5> QED
          BY <5>3, <5>6
      <4>3. CASE eval[p].at \notin {"existing", "insert"}
        BY <3>1, <4>1, <4>3
      <4> QED
        BY <4>2, <4>3
    <3>3. eval' = [p \in Evaluators |-> eval'[p]]
      BY <2>7 DEF Wait
    <3>4. CouponTypes'
      BY <2>7, <3>2, <3>3 DEF Wait, CouponInv, CouponTypes
    <3>5. EvalsInPlace'
      BY <2>7, <3>2, FeedLeavesEvaluations DEF Wait, CouponInv, EvalsInPlace, Evaluators
    <3> QED
      BY <3>4, <3>5
  <2>8. CASE UNCHANGED vars
    BY <2>8 DEF vars, syncVars, CouponInv, CouponTypes, EvalsInPlace
  <2> QED
    BY <2>1, <2>2, <2>3, <2>4, <2>5, <2>6, <2>7, <2>8 DEF Next
<1> QED
  BY <1>1, <1>2 DEF CouponInv

(* setTimeout, @Cron, cleanup: evaluations, resolutions and the purge      *)
(* leave the synchronisation to itself.                                    *)
THEOREM CouponsRunTheFeed == Spec => FeedSpec
<1>1. Init => InitSync
  BY DEF Init
<1>2. CouponInv /\ [Next]_vars => [Feed]_syncVars
  BY CouponStepIsFeedStep
<1> QED
  BY <1>1, <1>2, CouponsAtFirst, StepKeepsCouponInv, PTL DEF Spec, FeedSpec

-----------------------------------------------------------------------------
(* A match that is played through.  Its status says whether half time has  *)
(* come, and then its score at half time is known; it is over only after   *)
(* its end.                                                                *)
Course1H == {"1H"} \cup (PostHalf \ {"WO"})

IsPlayed(m) ==
    /\ m.status \in Course1H
    /\ m.status = "1H" => \A s \in Sides : m.ht[s] = Unknown
    /\ m.status # "1H" => \A s \in Sides : m.ht[s] \in Nat

Played == IsPlayed(match) /\ (match.status \in Live => over = 0)

LEMMA StatusesDiffer ==
    /\ \A s \in Course1H : s \notin Voided /\ s # "LIVE" /\ (s # "1H" <=> s \in PostHalf)
    /\ "HT" \in PostHalf /\ "HT" \notin Finished /\ "1H" \in FirstHalf
    /\ Finished \cap Live = {} /\ Finished \subseteq PostHalf
    /\ \A s \in PostHalf : s \notin FirstHalf
    /\ Half1 # Half2 /\ Half1 # Full /\ Half2 # Full
BY DEF Course1H, PostHalf, Finished, Voided, FirstHalf, Live, Half1, Half2, Full

(* What a bet comes to, market by market.                                  *)
LEMMA OutcomeOfPlayed ==
    ASSUME NEW m \in Matches, IsPlayed(m), NEW b \in Bets
    PROVE  /\ b.side \in Sides /\ b.market \in {Half1, Half2, Full}
           /\ b.market = Half1 => ResolveOutcome(m, b) =
                  IF m.status = "1H" THEN IF m.score[b.side] > 0 THEN "WON" ELSE "OPEN"
                  ELSE IF m.ht[b.side] > 0 THEN "WON" ELSE "LOST"
           /\ b.market = Full => ResolveOutcome(m, b) =
                  IF m.score[b.side] > 0 THEN "WON"
                  ELSE IF m.status \in Finished THEN "LOST" ELSE "OPEN"
           /\ b.market = Half2 => ResolveOutcome(m, b) =
                  IF m.status = "1H" THEN "OPEN"
                  ELSE IF m.score[b.side] > m.ht[b.side] THEN "WON"
                  ELSE IF m.status \in Finished THEN "LOST" ELSE "OPEN"
<1>1. b.side \in Sides /\ b.market \in {Half1, Half2, Full}
  BY BetsAssumption DEF Markets
<1>2. m.score[b.side] \in Nat /\ Unknown = -1
  BY <1>1 DEF Matches, Unknown
<1>3. ResolveOutcome(m, b) = Undecided(m, b)
  BY StatusesDiffer DEF ResolveOutcome, IsPlayed
<1>4. m.status = "1H" => m.ht[b.side] = Unknown
  BY <1>1 DEF IsPlayed
<1>5. m.status # "1H" => m.ht[b.side] \in Nat /\ m.status \in PostHalf
  BY <1>1, StatusesDiffer DEF IsPlayed
<1>6. ASSUME b.market = Half1
      PROVE  ResolveOutcome(m, b) =
                  IF m.status = "1H" THEN IF m.score[b.side] > 0 THEN "WON" ELSE "OPEN"
                  ELSE IF m.ht[b.side] > 0 THEN "WON" ELSE "LOST"
  <2>1. ResolveOutcome(m, b) = FirstHalfOutcome(m, b.side)
    BY <1>3, <1>6, StatusesDiffer DEF Undecided
  <2>2. CASE m.status = "1H"
    BY <1>2, <2>1, <2>2, StatusesDiffer DEF FirstHalfOutcome, Scored
  <2>3. CASE m.status # "1H"
    BY <1>2, <1>5, <2>1, <2>3, StatusesDiffer DEF FirstHalfOutcome, Scored
  <2> QED
    BY <2>2, <2>3
<1>7. ASSUME b.market = Full
      PROVE  ResolveOutcome(m, b) =
                  IF m.score[b.side] > 0 THEN "WON"
                  ELSE IF m.status \in Finished THEN "LOST" ELSE "OPEN"
  <2>1. ResolveOutcome(m, b) = FullOutcome(m, b.side)
    BY <1>3, <1>7, StatusesDiffer DEF Undecided
  <2> QED
    BY <1>2, <2>1 DEF FullOutcome, Scored
<1>8. ASSUME b.market = Half2
      PROVE  ResolveOutcome(m, b) =
                  IF m.status = "1H" THEN "OPEN"
                  ELSE IF m.score[b.side] > m.ht[b.side] THEN "WON"
                  ELSE IF m.status \in Finished THEN "LOST" ELSE "OPEN"
  <2>1. ResolveOutcome(m, b) = SecondHalfOutcome(m, b.side)
    BY <1>3, <1>8, StatusesDiffer DEF Undecided
  <2>2. CASE m.status = "1H"
    BY <1>2, <1>4, <2>1, <2>2, StatusesDiffer DEF SecondHalfOutcome, ScoredAfterHalf
  <2>3. CASE m.status # "1H"
    BY <1>2, <1>5, <2>1, <2>3, StatusesDiffer DEF SecondHalfOutcome, ScoredAfterHalf
  <2> QED
    BY <2>2, <2>3
<1> QED
  BY <1>1, <1>6, <1>7, <1>8

(* A match that is played through stays one, and what it has decided it    *)
(* does not take back.                                                     *)
LEMMA MatchStaysPlayed ==
    ASSUME PlayedThrough, match \in Matches, IsPlayed(match), MatchGoesOn
    PROVE  /\ match' \in Matches /\ IsPlayed(match')
           /\ match'.status \in Live => match.status \in Live
           /\ \A b \in Bets : ResolveOutcome(match, b) # "OPEN" =>
                  ResolveOutcome(match', b) = ResolveOutcome(match, b)
<1>0. match' \in Matches
  BY MatchStaysTyped
<1>1. CASE \E next \in Course[match.status] :
              match' = [match EXCEPT !.status = next,
                                     !.ht = IF next = "HT" THEN match.score ELSE @]
  <2>1. PICK next \in Course[match.status] :
              match' = [match EXCEPT !.status = next,
                                     !.ht = IF next = "HT" THEN match.score ELSE @]
    BY <1>1
  <2>2. /\ match'.status = next /\ match'.score = match.score
        /\ match'.ht = IF next = "HT" THEN match.score ELSE match.ht
    BY <2>1 DEF Matches
  <2>3. CASE match.status = "1H"
    <3>1. next = "HT"
      BY <2>1, <2>3 DEF PlayedThrough
    <3>2. IsPlayed(match') /\ match.status \in Live
      BY <2>2, <2>3, <3>1, StatusesDiffer DEF IsPlayed, Course1H, Matches, Live
    <3>3. ASSUME NEW b \in Bets, ResolveOutcome(match, b) # "OPEN"
          PROVE  ResolveOutcome(match', b) = ResolveOutcome(match, b)
      BY <1>0, <2>2, <2>3, <3>1, <3>2, <3>3, OutcomeOfPlayed, StatusesDiffer DEF Matches
    <3> QED
      BY <1>0, <3>2, <3>3
  <2>4. CASE match.status # "1H"
    <3>1. match.status \in PostHalf /\ match.status # "WO"
      BY <2>4 DEF IsPlayed, Course1H
    <3>2. /\ next \in PostHalf \ {"HT", "WO"}
          /\ match.status \in Finished => next \in Finished
      BY <2>1, <3>1, StatusesDiffer DEF PlayedThrough
    <3>3. IsPlayed(match')
      BY <2>2, <2>4, <3>2, StatusesDiffer DEF IsPlayed, Course1H
    <3>4. match'.status \in Live => match.status \in Live
      BY <2>2, <3>1, <3>2, StatusesDiffer DEF PostHalf, Live, Finished
    <3>5. ASSUME NEW b \in Bets, ResolveOutcome(match, b) # "OPEN"
          PROVE  ResolveOutcome(match', b) = ResolveOutcome(match, b)
      <4>1. next # "1H"
        BY <3>2, StatusesDiffer
      <4> QED
        BY <1>0, <2>2, <2>4, <3>2, <3>3, <3>5, <4>1, OutcomeOfPlayed
    <3> QED
      BY <1>0, <3>3, <3>4, <3>5
  <2> QED
    BY <2>3, <2>4
<1>2. CASE /\ match.status \in FirstHalf \cup SecondHalf
           /\ \E s \in Scorers : /\ match.score[s] + 1 \in Scores
                                 /\ match' = [match EXCEPT !.score[s] = @ + 1]
  <2>1. PICK s \in Scorers : match' = [match EXCEPT !.score[s] = @ + 1]
    BY <1>2
  <2>2. /\ match'.status = match.status /\ match'.ht = match.ht
        /\ match'.score = [match.score EXCEPT ![s] = @ + 1]
    BY <2>1 DEF Matches
  <2>3. IsPlayed(match')
    BY <2>2 DEF IsPlayed
  <2>4. match.status \notin Finished
    BY <1>2 DEF FirstHalf, SecondHalf, Finished
  <2>5. \A side \in Sides : match.score[side] \in Nat /\ match'.score[side] \in {match.score[side], match.score[side] + 1}
    BY <2>2 DEF Matches
  <2>6. ASSUME NEW b \in Bets, ResolveOutcome(match, b) # "OPEN"
        PROVE  ResolveOutcome(match', b) = ResolveOutcome(match, b)
    <3>1. match.status # "1H" => match.ht[b.side] \in Nat
      BY OutcomeOfPlayed DEF IsPlayed
    <3>2. b.side \in Sides /\ b.market \in {Half1, Half2, Full}
      BY OutcomeOfPlayed
    <3> DEFINE was == match.score[b.side]
               is  == match'.score[b.side]
               ht  == match.ht[b.side]
    <3>3. was \in Nat /\ (is = was \/ is = was + 1)
      BY <2>5, <3>2
    <3>4. CASE b.market = Half1
      <4>1. ResolveOutcome(match, b) = IF match.status = "1H" THEN IF was > 0 THEN "WON" ELSE "OPEN"
                                       ELSE IF ht > 0 THEN "WON" ELSE "LOST"
        BY <3>4, OutcomeOfPlayed
      <4>2. ResolveOutcome(match', b) = IF match.status = "1H" THEN IF is > 0 THEN "WON" ELSE "OPEN"
                                        ELSE IF ht > 0 THEN "WON" ELSE "LOST"
        BY <1>0, <2>2, <2>3, <3>4, OutcomeOfPlayed
      <4> HIDE DEF was, is, ht
      <4> QED
        BY <2>6, <3>3, <4>1, <4>2
    <3>5. CASE b.market = Full
      <4>1. ResolveOutcome(match, b) = IF was > 0 THEN "WON" ELSE "OPEN"
        BY <2>4, <3>5, OutcomeOfPlayed
      <4>2. ResolveOutcome(match', b) = IF is > 0 THEN "WON" ELSE "OPEN"
        BY <1>0, <2>2, <2>3, <2>4, <3>5, OutcomeOfPlayed
      <4> HIDE DEF was, is
      <4> QED
        BY <2>6, <3>3, <4>1, <4>2
    <3>6. CASE b.market = Half2
      <4>1. ResolveOutcome(match, b) = IF match.status = "1H" THEN "OPEN"
                                       ELSE IF was > ht THEN "WON" ELSE "OPEN"
        BY <2>4, <3>6, OutcomeOfPlayed
      <4>2. ResolveOutcome(match', b) = IF match.status = "1H" THEN "OPEN"
                                        ELSE IF is > ht THEN "WON" ELSE "OPEN"
        BY <1>0, <2>2, <2>3, <2>4, <3>6, OutcomeOfPlayed
      <4> HIDE DEF was, is, ht
      <4> QED
        BY <2>6, <3>1, <3>3, <4>1, <4>2 DEF ht
    <3> HIDE DEF was, is, ht
    <3> QED
      BY <3>2, <3>4, <3>5, <3>6
  <2> QED
    BY <1>0, <2>2, <2>3, <2>6
<1> QED
  BY <1>1, <1>2 DEF MatchGoesOn

-----------------------------------------------------------------------------
(* What the program has of a match was so, and says no more than is so;    *)
(* where it says that the match goes on, the match ended no longer ago     *)
(* than that was.                                                          *)
IsTrueOf(d) ==
    \A b \in Bets : ResolveOutcome(d, b) # "OPEN" =>
        ResolveOutcome(match, b) = ResolveOutcome(d, b)

IsTrueRow(r) ==
    r # NoRow => IsTrueOf(r.data) /\ (r.data.status \in Live => over <= r.asOf)

FeedTruth == Played /\ IsTrueRow(row) /\ \A s \in Syncs : IsTrueRow(sync[s].seen)

(* What is decided of a match stays so.                                    *)
OutcomesStand ==
    \A b \in Bets : ResolveOutcome(match, b) # "OPEN" =>
        ResolveOutcome(match', b) = ResolveOutcome(match, b)

LEMMA TrueAtFirst == PlayedThrough /\ InitSync => FeedTruth
<1> SUFFICES ASSUME PlayedThrough, InitSync PROVE FeedTruth
  OBVIOUS
<1>1. Played
  <2>1. match.status = "1H" /\ \A s \in Sides : match.ht[s] = Unknown
    BY DEF PlayedThrough, InitSync
  <2> QED
    BY <2>1 DEF InitSync, Played, IsPlayed, Course1H
<1>2. row = NoRow /\ \A s \in Syncs : sync[s].seen = NoRow
  BY DEF InitSync, NoSync
<1> QED
  BY <1>1, <1>2 DEF FeedTruth, IsTrueRow

(* A step that neither learns nor waits.                                   *)
LEMMA SeenStaysTrue ==
    ASSUME FeedTruth, UNCHANGED <<match, over>>, row' = row,
           \A s \in Syncs : sync'[s].seen \in {sync[s].seen, NoRow}
    PROVE  FeedTruth' /\ OutcomesStand
<1>3. Played'
  BY DEF FeedTruth, Played
<1>4. IsTrueRow(row)'
  BY DEF FeedTruth, IsTrueRow, IsTrueOf
<1>5. ASSUME NEW s \in Syncs
      PROVE  IsTrueRow(sync[s].seen)'
  <2>1. IsTrueRow(sync[s].seen)
    BY DEF FeedTruth
  <2>2. CASE sync'[s].seen = sync[s].seen
    BY <2>1, <2>2 DEF IsTrueRow, IsTrueOf
  <2>3. CASE sync'[s].seen = NoRow
    BY <2>3 DEF IsTrueRow
  <2> QED
    BY <2>2, <2>3
<1> QED
  BY <1>3, <1>4, <1>5 DEF FeedTruth, OutcomesStand

LEMMA SyncStaysTrue ==
    ASSUME FeedInv, FeedTruth, NEW s \in Syncs, SyncStep(s)
    PROVE  FeedTruth' /\ OutcomesStand
<1>1. \A r \in Syncs : sync[r] \in [at : Places, try : Nat, part : Nat, got : SUBSET Ages, seen : Rows]
  BY DEF FeedInv, FeedTypes, Running
<1>2. DOMAIN sync = Syncs
  BY DEF FeedInv, FeedTypes
<1>3. PICK next : sync' = [sync EXCEPT ![s] = next]
  BY DEF SyncStep, Retry, SyncFails, FetchLive, StoreMatch, StoreTeams, FetchPart, ClearPart, InsertPart, FinishSync
<1>4. \A r \in Syncs : sync'[r] = IF r = s THEN next ELSE sync[r]
  BY <1>2, <1>3
<1>5. UNCHANGED <<match, over>>
  BY DEF SyncStep, Retry, SyncFails, FetchLive, StoreMatch, StoreTeams, FetchPart, ClearPart, InsertPart, FinishSync
<1>6. CASE StoreMatch(s)
  <2>1. sync[s].seen # NoRow /\ IsTrueRow(sync[s].seen) /\ sync[s].seen \in Rows
    BY <1>1, <1>6 DEF StoreMatch, FeedInv, RowsInv, SeenIsFresh, FeedTruth
  <2>2. sync[s].seen \in [data : Matches, asOf : Ages, syncedAt : Ages]
    BY <2>1 DEF Rows
  <2>3. row'.data = sync[s].seen.data /\ row'.asOf = sync[s].seen.asOf
    BY <1>6, <2>2 DEF StoreMatch
  <2>4. IsTrueRow(row)'
    BY <1>5, <2>1, <2>3 DEF IsTrueRow, IsTrueOf
  <2>5. next.seen = NoRow
    BY <1>1, <1>2, <1>4, <1>6 DEF StoreMatch
  <2>6. \A r \in Syncs : IsTrueRow(sync[r].seen)'
    BY <1>4, <1>5, <2>5 DEF FeedTruth, IsTrueRow, IsTrueOf
  <2> QED
    BY <1>5, <2>4, <2>6 DEF FeedTruth, Played, OutcomesStand
<1>7. CASE FetchLive(s) /\ sync'[s].seen # sync[s].seen
  <2> DEFINE seen == [data |-> match, asOf |-> 0, syncedAt |-> 0]
  <2>1. Answered(s, "finish").seen = sync[s].seen
    BY <1>1 DEF Answered
  <2>2. match.status \in Live /\ sync'[s].seen = seen
    <3>1. CASE sync' = [sync EXCEPT ![s] = Answered(s, "finish")]
      BY <1>2, <1>7, <2>1, <3>1
    <3>2. CASE /\ match.status \in Live
               /\ sync' = [sync EXCEPT ![s] = [Answered(s, "store") EXCEPT !.seen = seen]]
      <4>1. [Answered(s, "store") EXCEPT !.seen = seen].seen = seen
        BY <1>1 DEF Answered
      <4> QED
        BY <1>2, <3>2, <4>1
    <3> QED
      BY <1>7, <3>1, <3>2 DEF FetchLive
  <2>3. over = 0
    BY <2>2 DEF FeedTruth, Played
  <2>4. IsTrueRow(sync[s].seen)'
    BY <1>5, <2>2, <2>3 DEF IsTrueRow, IsTrueOf
  <2>5. \A r \in Syncs : IsTrueRow(sync[r].seen)'
    BY <1>4, <1>5, <2>4 DEF FeedTruth, IsTrueRow, IsTrueOf
  <2>6. row' = row
    BY <1>7 DEF FetchLive
  <2> QED
    BY <1>5, <2>5, <2>6 DEF FeedTruth, Played, OutcomesStand, IsTrueRow, IsTrueOf
<1>8. CASE FetchLive(s) /\ sync'[s].seen = sync[s].seen
  <2>1. row' = row /\ \A r \in Syncs : sync'[r].seen \in {sync[r].seen, NoRow}
    BY <1>4, <1>8 DEF FetchLive
  <2> QED
    BY <1>5, <2>1, SeenStaysTrue
<1>9. CASE Retry(s) \/ SyncFails(s) \/ StoreTeams(s) \/ FetchPart(s) \/ ClearPart(s) \/ InsertPart(s) \/ FinishSync(s)
  <2>1. next.seen \in {sync[s].seen, NoRow}
    <3>0. /\ sync[s] \in [at : Places, try : Nat, part : Nat, got : SUBSET Ages, seen : Rows]
          /\ sync'[s] = next
      BY <1>1, <1>4
    <3>a. \A n : ToPart(s, n).seen = sync[s].seen
      BY <3>0 DEF ToPart, Answered
    <3>1. CASE Retry(s)
      <4>1. PICK n \in 1 .. RetryMax : sync'[s] = [sync[s] EXCEPT !.try = n]
        BY <1>2, <3>1 DEF Retry
      <4> QED
        BY <3>0, <4>1
    <3>2. CASE SyncFails(s) \/ FinishSync(s)
      <4>1. sync'[s] = NoSync \/ sync'[s] = [NoSync EXCEPT !.at = "evaluating"]
        BY <1>2, <3>2 DEF SyncFails, FinishSync
      <4> QED
        BY <3>0, <4>1 DEF NoSync
    <3>3. CASE StoreTeams(s)
      BY <1>2, <3>0, <3>a, <3>3 DEF StoreTeams
    <3>4. CASE FetchPart(s) \/ ClearPart(s) \/ InsertPart(s)
      <4>1. \/ \E n : sync'[s] = ToPart(s, n)
            \/ \E at, got : sync'[s] = [Answered(s, at) EXCEPT !.got = got]
            \/ sync'[s] = [sync[s] EXCEPT !.at = "insert"]
        <5>1. CASE FetchPart(s)
          <6>1. PICK got \in {{}, {0}} :
                   sync'[s] = CASE Part(s) \in Replaced -> [Answered(s, "clear") EXCEPT !.got = got]
                                [] Part(s) \notin Replaced /\ got # {} ->
                                      [Answered(s, "insert") EXCEPT !.got = got]
                                [] OTHER -> ToPart(s, sync[s].part + 1)
            BY <1>2, <5>1 DEF FetchPart
          <6>2. \/ sync'[s] = [Answered(s, "clear") EXCEPT !.got = got]
                \/ sync'[s] = [Answered(s, "insert") EXCEPT !.got = got]
                \/ sync'[s] = ToPart(s, sync[s].part + 1)
            BY <6>1
          <6> QED
            BY <6>2
        <5>2. CASE ClearPart(s)
          BY <1>2, <5>2 DEF ClearPart
        <5>3. CASE InsertPart(s)
          BY <1>2, <5>3 DEF InsertPart
        <5> QED
          BY <3>4, <5>1, <5>2, <5>3
      <4> QED
        BY <3>0, <3>a, <4>1 DEF Answered
    <3> QED
      BY <1>9, <3>1, <3>2, <3>3, <3>4
  <2>2. row' = row
    BY <1>9 DEF Retry, SyncFails, StoreTeams, FetchPart, ClearPart, InsertPart, FinishSync
  <2> QED
    BY <1>4, <1>5, <2>1, <2>2, SeenStaysTrue
<1> QED
  BY <1>6, <1>7, <1>8, <1>9 DEF SyncStep

LEMMA AgingStaysTrue ==
    ASSUME FeedInv, FeedTruth, AgeSync
    PROVE  FeedTruth' /\ OutcomesStand
<1>1. match' = match /\ over \in Ages
  BY DEF AgeSync, FeedInv, FeedTypes
<1>2. over' = IF match.status \in Live THEN 0 ELSE Older(over)
  BY DEF AgeSync, FeedTruth, Played
<1>3. Played'
  BY <1>1, <1>2 DEF FeedTruth, Played
<1>4. ASSUME NEW r \in Rows, IsTrueRow(r), r # NoRow
      PROVE  /\ IsTrueOf(AgedRow(r).data)'
             /\ AgedRow(r).data.status \in Live => over' <= AgedRow(r).asOf
  <2>1. AgedRow(r).data = r.data /\ AgedRow(r).asOf = Older(r.asOf) /\ r.asOf \in Ages
    BY <1>4, RowsAge DEF Rows
  <2>2. over <= r.asOf => Older(over) <= Older(r.asOf) /\ 0 <= Older(r.asOf)
    BY <1>1, <2>1, ConstantsAreTyped DEF Older, Ages
  <2> QED
    BY <1>1, <1>2, <1>4, <2>1, <2>2 DEF IsTrueRow, IsTrueOf
<1>5. row' = AgedRow(row) /\ row \in Rows
  BY DEF AgeSync, FeedInv, FeedTypes
<1>6. IsTrueRow(row)'
  BY <1>4, <1>5, RowsAge DEF FeedTruth, IsTrueRow
<1>7. ASSUME NEW s \in Syncs
      PROVE  IsTrueRow(sync[s].seen)'
  <2>1. sync'[s].seen = AgedRow(sync[s].seen) /\ sync[s].seen \in Rows
    BY DEF AgeSync, FeedInv, FeedTypes, Running
  <2> QED
    BY <1>4, <2>1, RowsAge DEF FeedTruth, IsTrueRow
<1> QED
  BY <1>1, <1>3, <1>6, <1>7 DEF FeedTruth, OutcomesStand

LEMMA FeedStaysTrue ==
    ASSUME PlayedThrough, FeedInv, FeedTruth, [Feed]_syncVars
    PROVE  FeedTruth' /\ OutcomesStand
<1>0. /\ \A s \in Syncs : sync[s] \in [at : Places, try : Nat, part : Nat, got : SUBSET Ages, seen : Rows]
      /\ DOMAIN sync = Syncs
  BY DEF FeedInv, FeedTypes, Running
<1>1. CASE PlayOn
  <2>1. match \in Matches /\ IsPlayed(match)
    BY DEF FeedInv, FeedTypes, FeedTruth, Played
  <2>2. /\ IsPlayed(match') /\ OutcomesStand
        /\ match'.status \in Live => match.status \in Live
    BY <1>1, <2>1, MatchStaysPlayed DEF PlayOn, OutcomesStand
  <2>4. UNCHANGED <<over, row, sync>>
    BY <1>1 DEF PlayOn
  <2>5. IsTrueRow(row)' /\ \A s \in Syncs : IsTrueRow(sync[s].seen)'
    BY <2>2, <2>4 DEF FeedTruth, IsTrueRow, IsTrueOf, OutcomesStand
  <2> QED
    BY <2>2, <2>4, <2>5 DEF FeedTruth, Played
<1>2. CASE AgeSync
  BY <1>2, AgingStaysTrue
<1>3. CASE \E s \in Syncs : SyncStep(s)
  BY <1>3, SyncStaysTrue
<1>4. CASE \/ \E t \in Ticks : BeginTick(t) \/ Throttled(t) \/ StartSync(t)
           \/ \E s \in Requests : RequestSync(s)
           \/ \E s \in Syncs : Evaluated(s)
  <2>1. UNCHANGED <<match, over, row>>
    BY <1>4 DEF BeginTick, Throttled, StartSync, RequestSync, Evaluated
  <2>2. \A s \in Syncs : sync'[s].seen \in {sync[s].seen, NoRow}
    BY <1>0, <1>4 DEF BeginTick, Throttled, StartSync, RequestSync, Evaluated, NoSync
  <2> QED
    BY <2>1, <2>2, SeenStaysTrue
<1>5. CASE \E k \in Kinds : BeginRead(k) \/ (\E p \in PartNames : ReadPart(k, p)) \/ EndRead(k)
  BY <1>5, SeenStaysTrue DEF BeginRead, ReadPart, EndRead
<1>6. CASE Resume
  BY <1>6, SeenStaysTrue DEF Resume
<1>7. CASE RestartSync
  BY <1>7, SeenStaysTrue DEF RestartSync, NoSync
<1>8. CASE UNCHANGED syncVars
  BY <1>8, SeenStaysTrue DEF syncVars
<1> QED
  BY <1>1, <1>2, <1>3, <1>4, <1>5, <1>6, <1>7, <1>8 DEF Feed, NextSync

-----------------------------------------------------------------------------
(* What is true of the coupons, recorded or in hand.                       *)
IsTold(c) == c.status # "PENDING" => c.status = ResolveOutcome(match, c.bet)

CouponsAreTold ==
    /\ \A c \in coupons : IsTold(c)
    /\ \A p \in Evaluators : \A c \in eval[p].todo : IsTold(c)

(* A resolution saves only what it has decided.                            *)
SavesDecided ==
    \A p \in Evaluators : eval[p].at = "save" => \A c \in eval[p].todo : c.status # "PENDING"

(* There are coupons only of a match that has a row.                       *)
CouponsHaveRow ==
    row = NoRow => /\ coupons = {}
                   /\ \A p \in Evaluators : /\ eval[p].at \notin {"existing", "insert"}
                                            /\ eval[p].todo = {}

(* Bets were in play when they were found.                                 *)
FoundInPlay ==
    \A p \in Evaluators : eval[p].at \in {"existing", "insert"} =>
        over <= SyncTime + StaleAfter + eval[p].age

CouponTruth == CouponsAreTold /\ SavesDecided /\ CouponsHaveRow /\ FoundInPlay

LEMMA ToldAtFirst == Init => CouponTruth
<1> SUFFICES ASSUME Init PROVE CouponTruth
  OBVIOUS
<1>1. \A p \in Evaluators : eval[p].at = "idle" /\ eval[p].todo = {}
  BY DEF Init, NoEval
<1> QED
  BY <1>1 DEF Init, CouponTruth, CouponsAreTold, SavesDecided, CouponsHaveRow, FoundInPlay

LEMMA RowStays ==
    ASSUME FeedInv, [Feed]_syncVars, row # NoRow
    PROVE  row' # NoRow
<1>1. CASE \E s \in Syncs : StoreMatch(s)
  <2>1. PICK s \in Syncs : StoreMatch(s)
    BY <1>1
  <2>2. sync[s].seen # NoRow /\ sync[s].seen \in Rows
    BY <2>1 DEF StoreMatch, FeedInv, FeedTypes, Running, RowsInv, SeenIsFresh
  <2>3. sync[s].seen \in [data : Matches, asOf : Ages, syncedAt : Ages] /\ 0 \in Ages
    BY <2>2, ConstantsAreTyped DEF Rows, Ages
  <2>4. row' \in [data : Matches, asOf : Ages, syncedAt : Ages]
    BY <2>1, <2>3 DEF StoreMatch
  <2> QED
    BY <2>4, NoRowIsNone
<1>2. CASE AgeSync
  BY <1>2, RowsAge DEF AgeSync, FeedInv, FeedTypes
<1>3. CASE row' = row
  BY <1>3
<1> QED
  BY <1>1, <1>2, <1>3
     DEF Feed, NextSync, syncVars, Resume, BeginTick, Throttled, StartSync, RequestSync, SyncStep,
         Retry, SyncFails, FetchLive, StoreTeams, FetchPart, ClearPart, InsertPart, FinishSync, BeginRead, ReadPart,
         EndRead, PlayOn, Evaluated, RestartSync

(* What is told stays true as the match goes on.                           *)
LEMMA ToldStays ==
    ASSUME OutcomesStand, NEW c, IsCoupon(c), IsTold(c)
    PROVE  IsTold(c)'
<1>1. CASE c.status = "PENDING"
  BY <1>1 DEF IsTold
<1>2. CASE c.status # "PENDING"
  <2>1. c.status = ResolveOutcome(match, c.bet) /\ c.status # "OPEN" /\ c.bet \in Bets
    BY <1>2 DEF IsTold, IsCoupon
  <2>2. ResolveOutcome(match', c.bet) = c.status
    BY <2>1 DEF OutcomesStand
  <2> QED
    BY <2>2 DEF IsTold
<1> QED
  BY <1>1, <1>2

TruthInv == CouponInv /\ FeedTruth /\ CouponTruth

(* A step of one evaluation.                                               *)
LEMMA EvalStaysTrue ==
    ASSUME TruthInv, NEW p \in Evaluators, NEW next,
           eval' = [eval EXCEPT ![p] = next],
           UNCHANGED <<match, over, row>>,
           \A c \in coupons' : IsTold(c),
           \A c \in next.todo : IsTold(c),
           next.at = "save" => \A c \in next.todo : c.status # "PENDING",
           row = NoRow => /\ coupons' = {} /\ next.todo = {}
                          /\ next.at \notin {"existing", "insert"},
           next.at \in {"existing", "insert"} => over <= SyncTime + StaleAfter + next.age
    PROVE  CouponTruth'
<1>1. \A q \in Evaluators : eval'[q] = IF q = p THEN next ELSE eval[q]
  BY DEF TruthInv, CouponInv, CouponTypes
<1>2. CouponsAreTold'
  BY <1>1 DEF TruthInv, CouponTruth, CouponsAreTold, IsTold
<1>3. SavesDecided'
  BY <1>1 DEF TruthInv, CouponTruth, SavesDecided
<1>4. CouponsHaveRow'
  BY <1>1 DEF TruthInv, CouponTruth, CouponsHaveRow
<1>5. FoundInPlay'
  BY <1>1 DEF TruthInv, CouponTruth, FoundInPlay
<1> QED
  BY <1>2, <1>3, <1>4, <1>5 DEF CouponTruth

LEMMA SuggestionStaysTrue ==
    ASSUME TruthInv, NEW s \in Syncs,
           Suggest(s) \/ FindExisting(s) \/ InsertCoupons(s) \/ EvaluationFails(s)
    PROVE  CouponTruth'
<1>0. s \in Evaluators /\ IsEval(eval[s]) /\ DOMAIN eval = Evaluators /\ IsEval(NoEval)
  BY NoEvalIsTyped DEF Evaluators, TruthInv, CouponInv, CouponTypes
<1>1. /\ \A c \in coupons : IsTold(c)
      /\ row = NoRow => coupons = {} /\ eval[s].at \notin {"existing", "insert"} /\ eval[s].todo = {}
      /\ \A c \in eval[s].todo : IsTold(c)
      /\ eval[s].at \in {"existing", "insert"} => over <= SyncTime + StaleAfter + eval[s].age
  BY <1>0 DEF TruthInv, CouponTruth, CouponsAreTold, CouponsHaveRow, FoundInPlay
<1>2. /\ [NoEval EXCEPT !.at = "pending"].at = "pending"
      /\ [NoEval EXCEPT !.at = "pending"].todo = {}
  BY DEF NoEval
<1>3. UNCHANGED <<match, over, row>>
  BY DEF Suggest, FindExisting, InsertCoupons, EvaluationFails, syncVars
<1>4. CASE Suggest(s)
  <2>1. PICK found \in SUBSET Suggestible(row) :
           eval' = [eval EXCEPT ![s] = IF found = {} THEN [NoEval EXCEPT !.at = "pending"]
                                       ELSE [NoEval EXCEPT !.at = "existing", !.bets = found]]
    BY <1>4 DEF Suggest
  <2>2. CASE found = {}
    BY <1>0, <1>1, <1>2, <1>3, <1>4, <2>1, <2>2, EvalStaysTrue DEF Suggest
  <2>3. CASE found # {}
    <3> DEFINE next == [NoEval EXCEPT !.at = "existing", !.bets = found]
    <3>1. next.at = "existing" /\ next.age = 0 /\ next.todo = {}
      <4> DEFINE at == "existing"
      <4>1. found \in SUBSET Bets /\ at \in EvalPlaces
        BY DEF Suggestible, EvalPlaces
      <4> HIDE DEF at
      <4>2. /\ [NoEval EXCEPT !.at = at, !.bets = found].at = at
            /\ [NoEval EXCEPT !.at = at, !.bets = found].age = NoEval.age
            /\ [NoEval EXCEPT !.at = at, !.bets = found].todo = NoEval.todo
        BY <1>0, <4>1, EvalIsRecord
      <4>3. NoEval.age = 0 /\ NoEval.todo = {}
        BY DEF NoEval
      <4> QED
        BY <4>2, <4>3 DEF at
    <3>2. PICK b \in Bets : row # NoRow /\ ~IsStale(row.syncedAt) /\ b.market \in Opens(row.data)
      BY <2>3 DEF Suggestible
    <3>3. row.data.status \in Live
      BY <3>2 DEF Opens, FirstHalf, SecondHalf, Live
    <3>4. over <= row.asOf
      BY <3>2, <3>3 DEF TruthInv, FeedTruth, IsTrueRow
    <3>5. row.asOf <= row.syncedAt + SyncTime /\ row.asOf \in Nat /\ row.syncedAt \in Nat /\ over \in Nat
      BY <3>2, ConstantsAreTyped
         DEF TruthInv, CouponInv, FeedInv, RowsInv, RowIsFresh, FeedTypes, Rows, Ages
    <3>6. over <= SyncTime + StaleAfter + 0
      BY <3>2, <3>4, <3>5, ConstantsAreTyped DEF IsStale
    <3>7. eval' = [eval EXCEPT ![s] = next] /\ coupons' = coupons
      BY <1>4, <2>1, <2>3 DEF Suggest
    <3> HIDE DEF next
    <3> QED
      BY <1>0, <1>1, <1>3, <3>1, <3>2, <3>6, <3>7, EvalStaysTrue
  <2> QED
    BY <2>2, <2>3
<1>5. CASE FindExisting(s)
  <2> DEFINE new == eval[s].bets \ {c.bet : c \in coupons}
             next == [eval[s] EXCEPT !.at = "insert", !.bets = new]
  <2>1. eval' = [eval EXCEPT ![s] = next] /\ eval[s].at = "existing" /\ coupons' = coupons
    BY <1>0, <1>5 DEF FindExisting
  <2>2. next.at = "insert" /\ next.age = eval[s].age /\ next.todo = eval[s].todo
    <3> DEFINE at == "insert"
    <3>1. new \in SUBSET Bets /\ at \in EvalPlaces
      BY <1>0 DEF IsEval, EvalPlaces
    <3> HIDE DEF new, at
    <3>2. /\ [eval[s] EXCEPT !.at = at, !.bets = new].at = at
          /\ [eval[s] EXCEPT !.at = at, !.bets = new].age = eval[s].age
          /\ [eval[s] EXCEPT !.at = at, !.bets = new].todo = eval[s].todo
      BY <1>0, <3>1, EvalIsRecord
    <3> QED
      BY <3>2 DEF at
  <2> HIDE DEF next
  <2> QED
    BY <1>0, <1>1, <1>3, <2>1, <2>2, EvalStaysTrue
<1>6. CASE InsertCoupons(s)
  <2>1. PICK ids : coupons' = coupons \cup {Coupon(ids[b], b, "PENDING") : b \in eval[s].bets}
    BY <1>6 DEF InsertCoupons
  <2>2. \A c \in coupons' : IsTold(c)
    BY <1>0, <1>1, <2>1, NewCoupons DEF IsEval, IsTold
  <2>3. row # NoRow
    BY <1>1, <1>6 DEF InsertCoupons
  <2> QED
    BY <1>0, <1>2, <1>3, <1>6, <2>2, <2>3, EvalStaysTrue DEF InsertCoupons
<1>7. CASE EvaluationFails(s)
  BY <1>0, <1>1, <1>2, <1>3, <1>7, EvalStaysTrue DEF EvaluationFails
<1> QED
  BY <1>4, <1>5, <1>6, <1>7

LEMMA ResolutionStaysTrue ==
    ASSUME TruthInv, NEW p \in Evaluators, Resolution(p) \/ ResolutionFails(p)
    PROVE  CouponTruth'
<1>0. IsEval(eval[p]) /\ DOMAIN eval = Evaluators /\ eval[p].at \in EvalPlaces
  BY DEF TruthInv, CouponInv, CouponTypes, IsEval
<1>1. /\ \A c \in coupons : IsTold(c) /\ IsCoupon(c)
      /\ \A c \in eval[p].todo : IsTold(c) /\ IsCoupon(c)
      /\ row = NoRow => coupons = {} /\ eval[p].todo = {}
      /\ eval[p].at = "save" => \A c \in eval[p].todo : c.status # "PENDING"
  BY <1>0 DEF TruthInv, CouponInv, CouponTypes, IsEval, CouponTruth, CouponsAreTold, CouponsHaveRow,
              SavesDecided
<1>2. UNCHANGED <<match, over, row>>
  BY DEF Resolution, ResolutionFails, FindPending, ReadRows, SaveCoupon, ResolutionEnds, syncVars
<1>3. CASE Leave(p) /\ coupons' = coupons
  <2>1. NoEval.at = "idle" /\ NoEval.todo = {}
    BY DEF NoEval
  <2>2. eval' = [eval EXCEPT ![p] = NoEval]
    BY <1>3 DEF Leave
  <2> QED
    BY <1>1, <1>2, <1>3, <2>1, <2>2, EvalStaysTrue
<1>4. CASE FindPending(p) /\ Pending # {}
  <2> DEFINE at == "rows"
             next == [eval[p] EXCEPT !.at = at, !.todo = Pending]
  <2>1. eval' = [eval EXCEPT ![p] = next] /\ coupons' = coupons
    BY <1>0, <1>4 DEF FindPending
  <2>2. (\A c \in Pending : IsCoupon(c) /\ IsTold(c)) /\ at \in EvalPlaces /\ row # NoRow
    BY <1>1, <1>4 DEF Pending, EvalPlaces
  <2>3. at \notin {"existing", "insert", "save"}
    OBVIOUS
  <2> HIDE DEF at
  <2>4. next.at = at /\ next.todo = Pending
    BY <1>0, <2>2, EvalIsRecord
  <2> HIDE DEF next
  <2> QED
    BY <1>1, <1>2, <2>1, <2>2, <2>3, <2>4, EvalStaysTrue
<1>5. CASE ReadRows(p)
  <2> DEFINE at == "save"
             todo == DecidedOf(eval[p].todo)
             next == [eval[p] EXCEPT !.at = at, !.todo = todo]
  <2>1. eval' = [eval EXCEPT ![p] = next] /\ coupons' = coupons
    BY <1>0, <1>5 DEF ReadRows, DecidedOf
  <2>2. \A c \in todo : /\ IsCoupon(c) /\ c.status # "PENDING"
                        /\ c.status = CouponOutcome(c.bet) /\ CouponOutcome(c.bet) # "OPEN"
    BY <1>1, DecidedAreTyped
  <2>3. at \in EvalPlaces /\ at \notin {"existing", "insert"}
    BY DEF EvalPlaces
  <2>4. row = NoRow => todo = {}
    BY <1>1 DEF DecidedOf
  <2> HIDE DEF at, todo
  <2>5. next.at = at /\ next.todo = todo
    BY <1>0, <2>2, <2>3, EvalIsRecord
  <2>6. \A c \in todo : IsTold(c)
    <3> SUFFICES ASSUME NEW c \in todo PROVE c.status = ResolveOutcome(match, c.bet)
      BY DEF IsTold
    <3>1. row # NoRow /\ c.bet \in Bets
      BY <2>2, <2>4 DEF IsCoupon
    <3>2. c.status = ResolveOutcome(row.data, c.bet) /\ ResolveOutcome(row.data, c.bet) # "OPEN"
      BY <2>2 DEF CouponOutcome
    <3> QED
      BY <3>1, <3>2 DEF TruthInv, FeedTruth, IsTrueRow, IsTrueOf
  <2> HIDE DEF next
  <2> QED
    BY <1>1, <1>2, <2>1, <2>2, <2>3, <2>4, <2>5, <2>6, EvalStaysTrue
<1>6. CASE SaveCoupon(p)
  <2>1. PICK c \in eval[p].todo :
            /\ eval' = [eval EXCEPT ![p] = [eval[p] EXCEPT !.todo = eval[p].todo \ {c}]]
            /\ coupons' = {d \in coupons : d.id # c.id} \cup {c}
    BY <1>0, <1>6 DEF SaveCoupon
  <2> DEFINE todo == eval[p].todo \ {c}
             next == [eval[p] EXCEPT !.todo = todo]
  <2>2. \A d \in todo : d \in eval[p].todo
    OBVIOUS
  <2>3. eval' = [eval EXCEPT ![p] = next]
    BY <2>1
  <2>4. row # NoRow /\ eval[p].at = "save"
    BY <1>1, <1>6, <2>1 DEF SaveCoupon
  <2> HIDE DEF todo
  <2>5. next.at = eval[p].at /\ next.todo = todo
    BY <1>0, <1>1, <2>2, EvalIsRecord
  <2>6. \A d \in coupons' : IsTold(d)
    BY <1>1, <2>1
  <2> HIDE DEF next
  <2> QED
    BY <1>1, <1>2, <2>2, <2>3, <2>4, <2>5, <2>6, EvalStaysTrue
<1> QED
  BY <1>3, <1>4, <1>5, <1>6 DEF Resolution, ResolutionFails, FindPending, ResolutionEnds

LEMMA StepKeepsTruth ==
    ASSUME PlayedThrough, TruthInv, [Next]_vars
    PROVE  TruthInv'
<1>1. CouponInv' /\ [Feed]_syncVars
  BY StepKeepsCouponInv, CouponStepIsFeedStep DEF TruthInv
<1>2. FeedTruth' /\ OutcomesStand
  BY <1>1, FeedStaysTrue DEF TruthInv, CouponInv
<1>3. row # NoRow => row' # NoRow
  BY <1>1, RowStays DEF TruthInv, CouponInv
<1>4. /\ \A c \in coupons : IsTold(c)'
      /\ \A p \in Evaluators : \A c \in eval[p].todo : IsTold(c)'
  <2>1. /\ \A c \in coupons : IsTold(c) /\ IsCoupon(c)
        /\ \A p \in Evaluators : \A c \in eval[p].todo : IsTold(c) /\ IsCoupon(c)
    BY DEF TruthInv, CouponInv, CouponTypes, IsEval, CouponTruth, CouponsAreTold
  <2> QED
    BY <1>2, <2>1, ToldStays
<1>5. ASSUME over' = over, eval' = eval, coupons' \subseteq coupons
      PROVE  CouponTruth'
  <2>1. CouponsAreTold'
    BY <1>4, <1>5 DEF CouponsAreTold, IsTold
  <2> QED
    BY <1>3, <1>5, <2>1 DEF TruthInv, CouponTruth, SavesDecided, CouponsHaveRow, FoundInPlay
<1>6. CouponTruth'
  <2>1. CASE NextSync /\ UNCHANGED <<coupons, eval, purging, crashes>>
    <3>1. over' = over
      BY <2>1 DEF NextSync, Resume, BeginTick, Throttled, StartSync, RequestSync, SyncStep, Retry,
                  SyncFails, FetchLive, StoreMatch, StoreTeams, FetchPart, ClearPart, InsertPart, FinishSync, BeginRead,
                  ReadPart, EndRead, PlayOn
    <3> QED
      BY <1>5, <2>1, <3>1
  <2>2. CASE \E s \in Syncs : Suggest(s) \/ FindExisting(s) \/ InsertCoupons(s) \/ EvaluationFails(s)
    BY <2>2, SuggestionStaysTrue
  <2>3. CASE BeginCron
    <3> DEFINE at == "pending"
               next == [eval[Cron] EXCEPT !.at = at]
    <3>1. Cron \in Evaluators /\ at \in EvalPlaces /\ at \notin {"existing", "insert", "save"}
      BY DEF Evaluators, EvalPlaces
    <3>2. IsEval(eval[Cron]) /\ DOMAIN eval = Evaluators
      BY <3>1 DEF TruthInv, CouponInv, CouponTypes
    <3>3. eval' = [eval EXCEPT ![Cron] = next] /\ UNCHANGED <<match, over, row, coupons>>
      BY <2>3, <3>1, <3>2 DEF BeginCron, syncVars
    <3> HIDE DEF at
    <3>4. next.at = at /\ next.todo = eval[Cron].todo
      BY <3>1, <3>2, EvalIsRecord
    <3>5. /\ \A c \in coupons : IsTold(c)
          /\ \A c \in eval[Cron].todo : IsTold(c)
          /\ row = NoRow => coupons = {} /\ eval[Cron].todo = {}
      BY <3>1 DEF TruthInv, CouponTruth, CouponsAreTold, CouponsHaveRow
    <3> HIDE DEF next
    <3> QED
      BY <3>1, <3>3, <3>4, <3>5, EvalStaysTrue
  <2>4. CASE \E p \in Evaluators : Resolution(p) \/ ResolutionFails(p)
    BY <2>4, ResolutionStaysTrue
  <2>5. CASE FindStale \/ PurgeCoupons
    BY <1>5, <2>5 DEF FindStale, PurgeCoupons, syncVars
  <2>6. CASE Crash
    <3>1. \A p \in Evaluators : eval'[p].at = "idle" /\ eval'[p].todo = {}
      BY <2>6 DEF Crash, NoEval
    <3>2. coupons' = coupons /\ row' = row
      BY <2>6 DEF Crash, RestartSync
    <3>3. CouponsAreTold'
      BY <1>4, <3>1, <3>2 DEF CouponsAreTold, IsTold
    <3> QED
      BY <3>1, <3>2, <3>3 DEF TruthInv, CouponTruth, SavesDecided, CouponsHaveRow, FoundInPlay
  <2>7. CASE Wait
    <3>1. coupons' = coupons /\ over \in Ages /\ over' <= over + 1 /\ over' \in Ages
      <4>1. over \in Ages /\ over \in Nat
        BY ConstantsAreTyped DEF TruthInv, CouponInv, FeedInv, FeedTypes, Ages
      <4>2. over' = over \/ over' = Older(over)
        BY <2>7 DEF Wait, AgeSync
      <4> QED
        BY <2>7, <4>1, <4>2, AgesGrow DEF Wait
    <3>2. ASSUME NEW p \in Evaluators
          PROVE  /\ eval'[p].at = eval[p].at /\ eval'[p].todo = eval[p].todo
                 /\ eval[p].at \in {"existing", "insert"} => eval'[p].age = eval[p].age + 1
                 /\ eval[p].age \in Nat
      <4>1. IsEval(eval[p])
        BY DEF TruthInv, CouponInv, CouponTypes
      <4>2. eval'[p] = IF eval[p].at \in {"existing", "insert"}
                       THEN [eval[p] EXCEPT !.age = @ + 1] ELSE eval[p]
        BY <2>7 DEF Wait
      <4>3. eval[p] = [at |-> eval[p].at, age |-> eval[p].age, bets |-> eval[p].bets,
                       todo |-> eval[p].todo]
        BY <4>1 DEF IsEval
      <4>4. eval[p] \in [at : {eval[p].at}, age : {eval[p].age}, bets : {eval[p].bets},
                        todo : {eval[p].todo}]
        BY <4>3
      <4>5. eval[p].age \in Nat
        BY <4>1, PurgeAssumption DEF IsEval
      <4> QED
        BY <4>2, <4>4, <4>5
    <3>3. CouponsAreTold'
      BY <1>4, <3>1, <3>2 DEF CouponsAreTold, IsTold
    <3>4. SavesDecided' /\ CouponsHaveRow'
      BY <1>3, <3>1, <3>2 DEF TruthInv, CouponTruth, SavesDecided, CouponsHaveRow
    <3>5. FoundInPlay'
      <4> SUFFICES ASSUME NEW p \in Evaluators, eval'[p].at \in {"existing", "insert"}
                   PROVE  over' <= SyncTime + StaleAfter + eval'[p].age
        BY DEF FoundInPlay
      <4>1. over <= SyncTime + StaleAfter + eval[p].age /\ eval'[p].age = eval[p].age + 1
        BY <3>2 DEF TruthInv, CouponTruth, FoundInPlay
      <4> QED
        BY <3>1, <3>2, <4>1, ConstantsAreTyped DEF Ages
    <3> QED
      BY <3>3, <3>4, <3>5 DEF CouponTruth
  <2>8. CASE UNCHANGED vars
    BY <1>5, <2>8 DEF vars, syncVars
  <2> QED
    BY <1>1, <2>1, <2>2, <2>3, <2>4, <2>5, <2>6, <2>7, <2>8 DEF Next
<1> QED
  BY <1>1, <1>2, <1>6 DEF TruthInv

LEMMA TruthAtFirst == PlayedThrough /\ Init => TruthInv
BY CouponsAtFirst, TrueAtFirst, ToldAtFirst DEF TruthInv, Init

(* resolveSettledCoupons: whatever is read, and however old, when a coupon *)
(* is resolved, the end of the match agrees with it; overlapping           *)
(* evaluations, the cron, the purge and restarts change nothing in that.   *)
(* The match must be played through: a coupon is resolved from one status, *)
(* and nothing corrects it when a match that was interrupted goes on.      *)
THEOREM ResolvedCouponsAreTrue ==
    ASSUME PlayedThrough
    PROVE  Spec => []CouponsAreTrue
<1>1. TruthInv => CouponsAreTrue
  BY DEF TruthInv, CouponTruth, CouponsAreTold, IsTold, CouponsAreTrue
<1>2. Init => TruthInv
  BY TruthAtFirst
<1>3. TruthInv /\ [Next]_vars => TruthInv'
  BY StepKeepsTruth
<1> QED
  BY <1>1, <1>2, <1>3, PTL DEF Spec

(* A new coupon was found in a row, and the row was true and fresh.        *)
LEMMA StepSuggestsInPlay ==
    ASSUME TruthInv, [Next]_vars, {c \in coupons' \ coupons : c.status = "PENDING"} # {}
    PROVE  over <= SyncTime + StaleAfter + EvalTime
<1>1. CASE \E s \in Syncs : InsertCoupons(s)
  <2>1. PICK s \in Syncs : InsertCoupons(s)
    BY <1>1
  <2>2. s \in Evaluators /\ eval[s].at = "insert" /\ IsEval(eval[s])
    BY <2>1 DEF InsertCoupons, Evaluators, TruthInv, CouponInv, CouponTypes
  <2>3. over <= SyncTime + StaleAfter + eval[s].age
    BY <2>2 DEF TruthInv, CouponTruth, FoundInPlay
  <2>4. eval[s].age \in 0 .. EvalTime /\ EvalTime \in Nat /\ over \in Nat
    BY <2>2, PurgeAssumption, ConstantsAreTyped
       DEF IsEval, TruthInv, CouponInv, FeedInv, FeedTypes, Ages
  <2> QED
    BY <2>3, <2>4, ConstantsAreTyped
<1>2. CASE \E p \in Evaluators : SaveCoupon(p)
  <2>1. PICK p \in Evaluators : SaveCoupon(p)
    BY <1>2
  <2>2. PICK c \in eval[p].todo : coupons' = {d \in coupons : d.id # c.id} \cup {c}
    BY <2>1 DEF SaveCoupon
  <2>3. c.status # "PENDING"
    BY <2>1 DEF SaveCoupon, TruthInv, CouponTruth, SavesDecided
  <2> QED
    BY <2>2, <2>3
<1>3. CASE coupons' \subseteq coupons
  BY <1>3
<1> QED
  BY <1>1, <1>2, <1>3
     DEF Next, Suggest, FindExisting, EvaluationFails, BeginCron, Resolution, FindPending, ReadRows,
         ResolutionEnds, ResolutionFails, FindStale, PurgeCoupons, Crash, Wait, vars

(* getFirstHalfSuggestions, getSecondHalfSuggestions, saveCoupons: a match *)
(* that is over calls for no bet once its row is stale, though the row     *)
(* says that it goes on and nobody waits for an evaluation.                *)
THEOREM SuggestionsAreInPlay ==
    ASSUME PlayedThrough
    PROVE  Spec => SuggestedInPlay
<1>1. Init => TruthInv
  BY TruthAtFirst
<1>2. TruthInv /\ [Next]_vars => TruthInv'
  BY StepKeepsTruth
<1>3. TruthInv /\ [Next]_vars =>
          [{c \in coupons' \ coupons : c.status = "PENDING"} # {} =>
               over <= SyncTime + StaleAfter + EvalTime]_vars
  BY StepSuggestsInPlay
<1> QED
  BY <1>1, <1>2, <1>3, PTL DEF Spec, SuggestedInPlay
=============================================================================
