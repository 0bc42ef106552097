-------------------------- MODULE ExecutionControl --------------------------
(***************************************************************************)
(* The execution control: one row of execution_controls that says in which *)
(* mode money may be committed, who may change it and how                  *)
(* (ExecutionControlService), and the gate evidence a mode needs           *)
(* (GatePolicyService).                                                    *)
(*                                                                         *)
(* An executor holds a shared lock on the row while it commits money       *)
(* (lockForExecution, withSubmissionPermit).  stop, changeMode and         *)
(* createRiskPolicy take the exclusive lock; each is one transaction, so   *)
(* one step here, taken when nobody holds the shared lock.  InnoDB grants  *)
(* locks in the order of the requests: while a stop waits for its lock,    *)
(* nobody gets the shared one.                                             *)
(*                                                                         *)
(* An administrator acts on the row as a GET returned it, possibly long    *)
(* ago: the version in the request is the version of that view.            *)
(***************************************************************************)
EXTENDS Naturals, Sequences, FiniteSets

CONSTANTS
    Admins,        \* users with the ADMIN role
    Executors,     \* requests and runs that commit money
    FirstRows,     \* the rows a deployment may start from
    Recorded,      \* bound: the gate verdicts that may be recorded
    MaxChanges,    \* bound: audit events before changes by administrators end
    MaxPolicies    \* bound: risk policies

Running == {"SIMULATION", "SANDBOX", "LIVE_CANARY"}
Modes == Running \cup {"DISABLED"}

(* A value of the mode column that this build does not know.               *)
Garbled == "GARBLED"

Gates == {"G1", "G2", "G3", "G4", "G5", "G6"}
Verdicts == {"GO", "NO_GO"}

Required == [DISABLED |-> {}, SIMULATION |-> {"G1", "G2"}, SANDBOX |-> {"G3"},
             LIVE_CANARY |-> {"G4", "G5", "G6"}]

Rank == [DISABLED |-> 0, SIMULATION |-> 1, SANDBOX |-> 2, LIVE_CANARY |-> 3]

Row(mode, version, policy) == [mode |-> mode, version |-> version, policy |-> policy]

NoPolicy == 0
NoRow == Row("ABSENT", 0, NoPolicy)
Rows == [mode : Modes \cup {Garbled}, version : Nat \ {0}, policy : Nat]

(* The row of the migration; a row nobody can read; no row.                *)
Seeded == Row("DISABLED", 1, NoPolicy)
Unknown == Row(Garbled, 1, NoPolicy)

ASSUME FirstRowsAssumption == FirstRows \subseteq {Seeded, Unknown, NoRow}
ASSUME RecordedAssumption == Recorded \subseteq Gates \X Verdicts
ASSUME ActorsAssumption == Admins \cap Executors = {}

Actors == Admins \cup Executors

VARIABLES
    control,     \* the row, or NoRow
    evidence,    \* recorded gate verdicts, never changed nor deleted
    policies,    \* how many risk policies exist, numbered from 1
    audit,       \* audit events about the control, in order
    interlock,   \* REAL_MONEY_INTERLOCK of the running process
    seen,        \* the row as each administrator last read it
    permit,      \* the row each executor read under its shared lock
    stopping,    \* how far each stop has come
    outdated     \* administrators who have not looked since the last stop

vars == <<control, evidence, policies, audit, interlock, seen, permit, stopping, outdated>>

Event(action, from, to, version) ==
    [action |-> action, from |-> from, to |-> to, version |-> version]

-----------------------------------------------------------------------------
(* Reading the row *)

Readable(row) == row.mode \in Modes

(* What a row that cannot be read passes for.                              *)
Snapshot(row) ==
    IF Readable(row) THEN row ELSE Row("DISABLED", row.version, NoPolicy)

Init ==
    /\ control \in FirstRows
    /\ evidence = {}
    /\ policies = 0
    /\ audit = <<>>
    /\ interlock \in BOOLEAN
    /\ seen = [a \in Admins |-> Snapshot(NoRow)]
    /\ permit = [e \in Executors |-> NoRow]
    /\ stopping = [x \in Actors |-> "no"]
    /\ outdated = {}

(* Mutant: the interlock is not looked at.                                 *)
AllowedInAnyMode(mode) == mode # "DISABLED"

ExecutionAllowed(mode) ==
    /\ mode # "DISABLED"
    /\ mode = "LIVE_CANARY" => interlock

(* Mutant: nobody waits for the locks of executors.                        *)
LockNotTaken == TRUE

LockIsFree == \A e \in Executors : permit[e] = NoRow
StopWaits == \E x \in Actors : stopping[x] = "waiting"

(* GET /execution/control                                                  *)
Look(a) ==
    /\ seen' = [seen EXCEPT ![a] = Snapshot(control)]
    /\ outdated' = outdated \ {a}
    /\ UNCHANGED <<control, evidence, policies, audit, interlock, permit, stopping>>

-----------------------------------------------------------------------------
(* Executors *)

Engage(e) ==
    /\ permit[e] = NoRow
    /\ stopping[e] = "no"
    /\ ~ StopWaits
    /\ Readable(control)
    /\ ExecutionAllowed(control.mode)
    /\ permit' = [permit EXCEPT ![e] = control]
    /\ UNCHANGED <<control, evidence, policies, audit, interlock, seen, stopping, outdated>>

(* Mutant: the executor waits for the operator without a limit.            *)
HoldForever(e) == permit[e] # NoRow /\ UNCHANGED vars

(* The transaction of the executor ends.                                   *)
Release(e) ==
    /\ permit[e] # NoRow
    /\ permit' = [permit EXCEPT ![e] = NoRow]
    /\ UNCHANGED <<control, evidence, policies, audit, interlock, seen, stopping, outdated>>

-----------------------------------------------------------------------------
(* Stops *)

(* An administrator stops, or an executor meets a cause of automatic stop  *)
(* (among them a control it cannot read); an executor does so outside the  *)
(* transaction that holds the lock.                                        *)
AskStop(x) ==
    /\ stopping[x] = "no"
    /\ x \in Executors => permit[x] = NoRow
    /\ stopping' = [stopping EXCEPT ![x] = "asked"]
    /\ UNCHANGED <<control, evidence, policies, audit, interlock, seen, permit, outdated>>

(* The stop asks for the exclusive lock.                                   *)
WaitForLock(x) ==
    /\ stopping[x] = "asked"
    /\ stopping' = [stopping EXCEPT ![x] = "waiting"]
    /\ UNCHANGED <<control, evidence, policies, audit, interlock, seen, permit, outdated>>

RecreatedRow == Row("DISABLED", 1, NoPolicy)

(* Mutant: a stop keeps the version it found.                              *)
StoppedSameVersion ==
    CASE control = NoRow -> RecreatedRow
      [] control.mode = "DISABLED" -> control
      [] OTHER -> Row("DISABLED", control.version, control.policy)

StoppedRow ==
    CASE control = NoRow -> RecreatedRow
      [] control.mode = "DISABLED" -> control
      [] OTHER -> Row("DISABLED", control.version + 1, control.policy)

(* Mutant: no event when the mode was unknown.                             *)
SilentOnUnknown ==
    IF control.mode \in {"DISABLED", Garbled} THEN audit
    ELSE Append(audit, Event("EXECUTION_STOP", control.mode, "DISABLED", StoppedRow.version))

(* A stop of a stopped control leaves everything as it is.                 *)
StopAudit ==
    IF control.mode = "DISABLED" THEN audit
    ELSE Append(audit, Event("EXECUTION_STOP", control.mode, "DISABLED", StoppedRow.version))

Stop(x) ==
    /\ stopping[x] = "waiting"
    /\ LockIsFree
    /\ control' = StoppedRow
    /\ audit' = StopAudit
    /\ stopping' = [stopping EXCEPT ![x] = "no"]
    /\ outdated' = Admins
    /\ UNCHANGED <<evidence, policies, interlock, seen, permit>>

(* The database refuses: the caller of a manual stop gets the error, an    *)
(* automatic stop is given up after a line in the log.                     *)
StopFails(x) ==
    /\ stopping[x] # "no"
    /\ stopping' = [stopping EXCEPT ![x] = "no"]
    /\ UNCHANGED <<control, evidence, policies, audit, interlock, seen, permit, outdated>>

-----------------------------------------------------------------------------
(* Administrators: policies, evidence and modes *)

HasRoom == Len(audit) < MaxChanges

(* Mutant: the version of the request is not compared.                     *)
AnyVersion(a) == control # NoRow

ExpectsVersion(a) == control # NoRow /\ control.version = seen[a].version

AddPolicy ==
    /\ policies < MaxPolicies
    /\ policies' = policies + 1

CreateRiskPolicy ==
    /\ LockIsFree
    /\ AddPolicy
    /\ UNCHANGED <<control, evidence, audit, interlock, seen, permit, stopping, outdated>>

Activable == control.mode = "DISABLED"

(* A new policy, active at once.  The version of the request is optional.  *)
ActivateRiskPolicy ==
    /\ HasRoom
    /\ LockIsFree
    /\ Activable
    /\ AddPolicy
    /\ control' = Row(control.mode, control.version + 1, policies')
    /\ audit' = Append(audit, Event("RISK_POLICY_ACTIVATE", control.mode, control.mode,
                                    control.version + 1))
    /\ UNCHANGED <<evidence, interlock, seen, permit, stopping, outdated>>

(* Refused while the control cannot be read.                               *)
RecordEvidence(piece) ==
    /\ Readable(control)
    /\ evidence' = evidence \cup {piece}
    /\ UNCHANGED <<control, policies, audit, interlock, seen, permit, stopping, outdated>>

(* checkEvidence: each piece the request names exists and says GO for a    *)
(* gate the mode requires, and each such gate has one.                     *)
(* Mutant: one piece is enough.                                            *)
CoversSome(given, to) ==
    /\ given \subseteq evidence \cap (Required[to] \X {"GO"})
    /\ \E g \in Required[to] : <<g, "GO">> \in given

Covers(given, to) ==
    /\ given \subseteq evidence \cap (Required[to] \X {"GO"})
    /\ \A g \in Required[to] : <<g, "GO">> \in given

(* A mode this build does not know counts as DISABLED.                     *)
From == Snapshot(control).mode

OneUp(to) == Rank[to] = Rank[From] + 1
OneDown(to) == Rank[to] + 1 = Rank[From]

MayRise(to, given) ==
    /\ OneUp(to)
    /\ control.policy # NoPolicy
    /\ to = "LIVE_CANARY" => interlock
    /\ Covers(given, to)

(* PUT /execution/control/mode with another target than DISABLED.  One     *)
(* that changeMode refuses changes nothing.                                *)
ChangeMode(a, to) ==
    /\ HasRoom
    /\ LockIsFree
    /\ ExpectsVersion(a)
    /\ \/ OneDown(to)
       \/ \E given \in SUBSET evidence : MayRise(to, given)
    /\ control' = Row(to, control.version + 1, control.policy)
    /\ audit' = Append(audit, Event("EXECUTION_MODE_CHANGE", From, to, control.version + 1))
    /\ UNCHANGED <<evidence, policies, interlock, seen, permit, stopping, outdated>>

-----------------------------------------------------------------------------

(* The process dies with its transactions and its requests, and starts     *)
(* again, perhaps with another REAL_MONEY_INTERLOCK.                       *)
Restart ==
    /\ permit' = [e \in Executors |-> NoRow]
    /\ stopping' = [x \in Actors |-> "no"]
    /\ interlock' \in BOOLEAN
    /\ UNCHANGED <<control, evidence, policies, audit, seen, outdated>>

Next ==
    \/ \E a \in Admins : Look(a)
    \/ \E e \in Executors : Engage(e) \/ Release(e)
    \/ \E x \in Actors : AskStop(x) \/ WaitForLock(x) \/ Stop(x) \/ StopFails(x)
    \/ CreateRiskPolicy
    \/ ActivateRiskPolicy
    \/ \E piece \in Recorded : RecordEvidence(piece)
    \/ \E a \in Admins, to \in Running : ChangeMode(a, to)
    \/ Restart

Spec == Init /\ [][Next]_vars

(* A transaction of an executor ends: submit() has a time limit.  A stop   *)
(* that was asked for gets its turn.  Nobody has to retry a stop that      *)
(* failed.                                                                 *)
Fairness ==
    /\ \A e \in Executors : WF_vars(Release(e))
    /\ \A x \in Actors : WF_vars(WaitForLock(x)) /\ WF_vars(Stop(x))

FairSpec == Spec /\ Fairness

-----------------------------------------------------------------------------
(* Properties *)

Steps == [action : {"EXECUTION_STOP", "EXECUTION_MODE_CHANGE", "RISK_POLICY_ACTIVATE"},
          from : Modes \cup {Garbled, "ABSENT"}, to : Modes, version : Nat \ {0}]

(* Every variable has its type; what an administrator or an executor holds *)
(* is a row somebody could have read.                                      *)
TypeOK ==
    /\ control \in Rows \cup {NoRow}
    /\ evidence \subseteq Gates \X Verdicts
    /\ policies \in Nat
    /\ audit \in Seq(Steps)
    /\ interlock \in BOOLEAN
    /\ seen \in [Admins -> Rows \cup {Snapshot(NoRow)}]
    /\ permit \in [Executors -> Rows \cup {NoRow}]
    /\ stopping \in [Actors -> {"no", "asked", "waiting"}]
    /\ outdated \subseteq Admins

(* Money is committed only under the row as it stands: in a mode that      *)
(* executes, with a policy, and in LIVE_CANARY with the interlock open.    *)
(* A stop is therefore never in effect while an executor that was let in   *)
(* before it is still at work (lockForExecution, withSubmissionPermit).    *)
PermitsAreCurrent ==
    \A e \in Executors : permit[e] # NoRow =>
        /\ permit[e] = control
        /\ control.mode \in Running
        /\ control.policy \in 1 .. policies
        /\ control.mode = "LIVE_CANARY" => interlock

(* The mode has been earned: every gate of every mode up to the current    *)
(* one has a GO, and a mode that executes has a policy, through stops,     *)
(* restarts, rows nobody could read and descents (changeMode).             *)
GatesProven ==
    control.mode \in Modes =>
        /\ \A m \in Modes : Rank[m] <= Rank[control.mode] =>
               \A g \in Required[m] : <<g, "GO">> \in evidence
        /\ control.mode \in Running => control.policy \in 1 .. policies

(* A version identifies a row: an administrator whose version is accepted  *)
(* decides on the row that is there, mode and policy included (the version *)
(* checks of changeMode and createRiskPolicy).                             *)
VersionsIdentifyRows ==
    \A a \in Admins :
        seen[a].version = control.version => seen[a] = Snapshot(control)

(* The audit tells how the row came to be: each event continues the one    *)
(* before it, version after version, and the last one tells the row.       *)
AuditIsComplete ==
    /\ \A i \in 1 .. Len(audit) - 1 :
           /\ audit[i + 1].from = audit[i].to
           /\ audit[i + 1].version = audit[i].version + 1
    /\ audit = <<>> => control \in FirstRows
    /\ audit # <<>> => /\ audit[Len(audit)].to = control.mode
                       /\ audit[Len(audit)].version = control.version

(* A mode is raised one step at a time, by an administrator who has seen   *)
(* the row that the step leaves (changeMode).                              *)
RaisedKnowingly ==
    [][From # From' /\ From' # "DISABLED" =>
           /\ Rank[From'] <= Rank[From] + 1
           /\ \E a \in Admins : seen[a] = Snapshot(control)]_vars

(* The limits under which a mode was entered hold until it is left: no     *)
(* policy is activated while the control is anything but DISABLED.         *)
PolicyFixedWhileRunning ==
    [][control.mode # "DISABLED" /\ control'.mode # "DISABLED" =>
           control'.policy = control.policy]_vars

(* A stop that asked for its lock gets it: executors that keep coming do   *)
(* not hold it off (stop waits for the exclusive lock).                    *)
StopsGetThrough ==
    \A x \in Actors : stopping[x] = "waiting" ~> stopping[x] = "no"

(* PLAN_EXECUTION_PARIS.md:526: every stop, the automatic ones included,   *)
(* needs a versioned reactivation by hand.  Here: an administrator raises  *)
(* the mode only after reading the control since the last stop.            *)
ReactivatedAfterLooking ==
    [][\A a \in Admins : (\E to \in Running : ChangeMode(a, to)) /\ From = "DISABLED" =>
           a \notin outdated]_vars

-----------------------------------------------------------------------------

Switch == INSTANCE KillSwitch WITH
    Parties <- Executors,
    Levels <- Running,
    level <- From,
    committed <- {e \in Executors : permit[e] # NoRow}

(* The row and its locks keep what KillSwitch promises to whoever commits  *)
(* money.                                                                  *)
KeepsSwitch == Switch!Spec

=============================================================================
