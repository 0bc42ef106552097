----------------------- MODULE ExecutionControlProofs -----------------------
(***************************************************************************)
(* Proofs about ExecutionControl, for any number of administrators,        *)
(* executors, policies and changes.                                        *)
(***************************************************************************)
EXTENDS ExecutionControl, SequenceTheorems, TLAPS

LEMMA Ranks ==
    /\ Rank["DISABLED"] = 0 /\ Rank["SIMULATION"] = 1
    /\ Rank["SANDBOX"] = 2 /\ Rank["LIVE_CANARY"] = 3
BY DEF Rank

LEMMA NothingRequiredToStop == Required["DISABLED"] = {}
BY DEF Required

(* The modes are numbered from 0 to 3.                                     *)
LEMMA RanksAreDistinct ==
    /\ \A m \in Modes : Rank[m] \in Nat
    /\ \A m, n \in Modes : Rank[m] = Rank[n] => m = n
    /\ \A m \in Modes : m # "DISABLED" => Rank[m] > 0
BY Ranks DEF Modes, Running

LEMMA ReadableRows ==
    /\ Snapshot(NoRow) = Row("DISABLED", 0, NoPolicy)
    /\ \A row \in Rows \cup {NoRow} :
           /\ Snapshot(row).version = row.version
           /\ Snapshot(row).mode \in Modes
           /\ Snapshot(row) \in Rows \cup {Snapshot(NoRow)}
BY DEF Snapshot, Readable, NoRow, Row, Rows, Modes, Running, NoPolicy, Garbled

(* The row after a step is the row before it, or one version later, or the *)
(* row that a stop recreated.                                              *)
LEMMA StoppedRows ==
    ASSUME control \in Rows \cup {NoRow}
    PROVE  /\ StoppedRow \in Rows
           /\ StoppedRow.mode = "DISABLED"
           /\ control # NoRow => StoppedRow.policy = control.policy
           /\ control.mode # "DISABLED" => StoppedRow.version = control.version + 1
           /\ control.mode = "DISABLED" => StoppedRow = control
BY DEF StoppedRow, RecreatedRow, NoRow, Row, Rows, Modes, Running, NoPolicy, Garbled

LEMMA StopAuditHasType ==
    ASSUME TypeOK
    PROVE  StopAudit \in Seq(Steps)
<1> USE DEF TypeOK
<1>1. CASE control.mode = "DISABLED"
  BY <1>1 DEF StopAudit
<1>2. CASE control.mode # "DISABLED"
  <2>1. control.mode \in Modes \cup {Garbled, "ABSENT"}
    BY DEF Rows, NoRow, Row
  <2>2. StoppedRow.version \in Nat \ {0}
    BY StoppedRows DEF Rows
  <2>3. Event("EXECUTION_STOP", control.mode, "DISABLED", StoppedRow.version) \in Steps
    BY <2>1, <2>2 DEF Event, Steps, Modes
  <2> QED
    BY <1>2, <2>3 DEF StopAudit
<1> QED
  BY <1>1, <1>2

(* What an administrator's change makes of the row.                        *)
LEMMA ActivatedRow ==
    ASSUME TypeOK, ActivateRiskPolicy
    PROVE  /\ control \in Rows /\ control' \in Rows
           /\ control'.mode = "DISABLED" /\ control.mode = "DISABLED"
           /\ control'.version = control.version + 1
           /\ control'.policy = policies + 1
           /\ policies' = policies + 1
<1>1. control.mode = "DISABLED" /\ control \in Rows
  BY DEF ActivateRiskPolicy, Activable, TypeOK, NoRow, Row
<1> QED
  BY <1>1 DEF ActivateRiskPolicy, AddPolicy, TypeOK, Rows, Row

LEMMA ChangedRow ==
    ASSUME TypeOK, NEW a \in Admins, NEW to \in Running, ChangeMode(a, to)
    PROVE  /\ control \in Rows /\ control' \in Rows
           /\ control'.mode = to
           /\ control'.version = control.version + 1
           /\ control'.policy = control.policy
           /\ From \in Modes /\ From' = to
<1>1. control \in Rows
  BY DEF ChangeMode, ExpectsVersion, TypeOK
<1>2. From \in Modes
  BY <1>1, ReadableRows DEF From
<1>3. /\ control' \in Rows /\ control'.mode = to
      /\ control'.version = control.version + 1
      /\ control'.policy = control.policy
  BY <1>1 DEF ChangeMode, Rows, Row, Modes
<1>4. From' = to
  BY <1>3 DEF From, Snapshot, Readable, Modes
<1> QED
  BY <1>1, <1>2, <1>3, <1>4

LEMMA StepKeepsTypes ==
    ASSUME TypeOK, [Next]_vars
    PROVE  TypeOK'
<1> USE DEF TypeOK
<1>1. CASE UNCHANGED vars
  BY <1>1 DEF vars
<1>2. ASSUME NEW a \in Admins, Look(a) PROVE TypeOK'
  <2>1. Snapshot(control) \in Rows \cup {Snapshot(NoRow)}
    BY ReadableRows
  <2> QED
    BY <1>2, <2>1 DEF Look
<1>3. ASSUME NEW e \in Executors, Engage(e) PROVE TypeOK'
  BY <1>3 DEF Engage
<1>4. ASSUME NEW e \in Executors, Release(e) PROVE TypeOK'
  BY <1>4 DEF Release
<1>5. ASSUME NEW x \in Actors, AskStop(x) PROVE TypeOK'
  BY <1>5 DEF AskStop
<1>6. ASSUME NEW x \in Actors, WaitForLock(x) PROVE TypeOK'
  BY <1>6 DEF WaitForLock
<1>7. ASSUME NEW x \in Actors, Stop(x) PROVE TypeOK'
  <2>1. StopAudit \in Seq(Steps)
    BY StopAuditHasType
  <2> QED
    BY <1>7, <2>1, StoppedRows DEF Stop
<1>8. ASSUME NEW x \in Actors, StopFails(x) PROVE TypeOK'
  BY <1>8 DEF StopFails
<1>9. CASE CreateRiskPolicy
  BY <1>9 DEF CreateRiskPolicy, AddPolicy
<1>10. CASE ActivateRiskPolicy
  <2>1. control \in Rows /\ control' \in Rows /\ policies' \in Nat /\ control.mode = "DISABLED"
    BY <1>10, ActivatedRow
  <2>2. Event("RISK_POLICY_ACTIVATE", control.mode, control.mode, control.version + 1) \in Steps
    BY <2>1 DEF Event, Steps, Rows, Modes
  <2> QED
    BY <1>10, <2>1, <2>2 DEF ActivateRiskPolicy
<1>11. ASSUME NEW piece \in Recorded, RecordEvidence(piece) PROVE TypeOK'
  BY <1>11, RecordedAssumption DEF RecordEvidence
<1>12. ASSUME NEW a \in Admins, NEW to \in Running, ChangeMode(a, to) PROVE TypeOK'
  <2>1. control \in Rows /\ control' \in Rows /\ From \in Modes
    BY <1>12, ChangedRow
  <2>2. Event("EXECUTION_MODE_CHANGE", From, to, control.version + 1) \in Steps
    BY <2>1 DEF Event, Steps, Rows, Modes
  <2> QED
    BY <1>12, <2>1, <2>2 DEF ChangeMode
<1>13. CASE Restart
  BY <1>13 DEF Restart
<1> QED
  BY <1>1, <1>2, <1>3, <1>4, <1>5, <1>6, <1>7, <1>8, <1>9, <1>10, <1>11, <1>12, <1>13 DEF Next

LEMMA InitHasTypes == Init => TypeOK
<1> SUFFICES ASSUME Init PROVE TypeOK
  OBVIOUS
<1>1. control \in Rows \cup {NoRow}
  BY FirstRowsAssumption DEF Init, Seeded, Unknown, Row, Rows, Modes, NoPolicy
<1> QED
  BY <1>1 DEF Init, TypeOK

(* Every variable keeps its type; in particular every row and every audit  *)
(* event carries a mode and a version somebody can read.                   *)
THEOREM TypesAreKept == Spec => []TypeOK
<1>1. TypeOK /\ [Next]_vars => TypeOK'
  BY StepKeepsTypes
<1> QED
  BY <1>1, InitHasTypes, PTL DEF Spec

-----------------------------------------------------------------------------
(* The inductive invariant *)

PolicyExists == control.policy \in 0 .. policies

(* A view is the row as it stands, or a row of an earlier version.         *)
ViewsAreOld ==
    \A a \in Admins :
        /\ seen[a].version <= control.version
        /\ seen[a].version = control.version => seen[a] = Snapshot(control)

IInv ==
    /\ TypeOK
    /\ PolicyExists
    /\ PermitsAreCurrent
    /\ GatesProven
    /\ ViewsAreOld
    /\ AuditIsComplete

(* What a step may do to the row and its audit.                            *)
Audited(event) ==
    /\ audit' = Append(audit, event)
    /\ event \in Steps
    /\ event.from = control.mode \/ control.mode = Garbled
    /\ event.to = control'.mode
    /\ event.version = control'.version

RowMoves ==
    /\ LockIsFree
    /\ control' \in Rows
    /\ control'.version = control.version + 1
    /\ \E event \in Steps : Audited(event)
    /\ UNCHANGED <<evidence, interlock, seen, permit>>

LEMMA RowMovesOrStays ==
    ASSUME TypeOK, [Next]_vars
    PROVE  (UNCHANGED <<control, audit>>) \/ RowMoves
<1>1. ASSUME NEW x \in Actors, Stop(x) PROVE (UNCHANGED <<control, audit>>) \/ RowMoves
  <2> DEFINE event == Event("EXECUTION_STOP", control.mode, "DISABLED", StoppedRow.version)
  <2>1. control \in Rows \cup {NoRow} /\ control' = StoppedRow
    BY <1>1 DEF TypeOK, Stop
  <2>2. CASE control.mode = "DISABLED"
    <3>1. control' = control
      BY <2>1, <2>2, StoppedRows
    <3>2. audit' = audit
      BY <1>1, <2>2 DEF Stop, StopAudit
    <3> QED
      BY <3>1, <3>2
  <2>3. CASE control.mode # "DISABLED"
    <3>1. /\ control' \in Rows
          /\ control'.mode = "DISABLED"
          /\ control'.version = control.version + 1
      BY <2>1, <2>3, StoppedRows
    <3>2. control.mode \in Modes \cup {Garbled, "ABSENT"}
      BY <2>1 DEF Rows, NoRow, Row
    <3>3. event \in Steps
      BY <2>1, <3>1, <3>2 DEF Event, Steps, Modes, Rows
    <3>4. audit' = Append(audit, event)
      BY <1>1, <2>3 DEF Stop, StopAudit
    <3>5. Audited(event)
      BY <2>1, <3>1, <3>3, <3>4 DEF Audited, Event
    <3> QED
      BY <1>1, <3>1, <3>3, <3>5 DEF Stop, RowMoves
  <2> QED
    BY <2>2, <2>3
<1>2. CASE ActivateRiskPolicy
  <2> DEFINE event == Event("RISK_POLICY_ACTIVATE", control.mode, control.mode, control.version + 1)
  <2>1. /\ control' \in Rows /\ control \in Rows
        /\ control'.mode = control.mode /\ control.mode = "DISABLED"
        /\ control'.version = control.version + 1
    BY <1>2, ActivatedRow
  <2>2. event \in Steps
    BY <2>1 DEF Event, Steps, Modes, Rows
  <2>3. Audited(event)
    BY <1>2, <2>1, <2>2 DEF ActivateRiskPolicy, Audited, Event
  <2> QED
    BY <1>2, <2>1, <2>2, <2>3 DEF ActivateRiskPolicy, RowMoves
<1>3. ASSUME NEW a \in Admins, NEW to \in Running, ChangeMode(a, to) PROVE RowMoves
  <2> DEFINE event == Event("EXECUTION_MODE_CHANGE", From, to, control.version + 1)
  <2>1. /\ control' \in Rows /\ control \in Rows
        /\ control'.mode = to /\ From \in Modes
        /\ control'.version = control.version + 1
    BY <1>3, ChangedRow
  <2>2. event \in Steps
    BY <2>1 DEF Event, Steps, Modes, Rows
  <2>3. From = control.mode \/ control.mode = Garbled
    BY <2>1 DEF From, Snapshot, Readable, Rows
  <2>4. Audited(event)
    BY <1>3, <2>1, <2>2, <2>3 DEF ChangeMode, Audited, Event
  <2> QED
    BY <1>3, <2>1, <2>2, <2>4 DEF ChangeMode, RowMoves
<1> QED
  BY <1>1, <1>2, <1>3
  DEF Next, vars, Look, Engage, Release, AskStop, WaitForLock, StopFails, CreateRiskPolicy,
      RecordEvidence, Restart

LEMMA StepKeepsAudit ==
    ASSUME IInv, [Next]_vars
    PROVE  AuditIsComplete'
<1>1. CASE UNCHANGED <<control, audit>>
  BY <1>1 DEF IInv, AuditIsComplete
<1>2. ASSUME NEW event \in Steps, RowMoves, Audited(event) PROVE AuditIsComplete'
  <2> DEFINE n == Len(audit)
  <2>1. /\ n \in Nat /\ audit \in Seq(Steps)
        /\ audit' = Append(audit, event)
        /\ Len(audit') = n + 1
        /\ \A i \in 1 .. n : audit'[i] = audit[i]
        /\ audit'[n + 1] = event
    BY <1>2 DEF Audited, IInv, TypeOK
  <2>2. control.mode = Garbled => audit = << >>
    <3>1. audit # << >> => n > 0
      BY <2>1, EmptySeq
    <3>2. n > 0 => audit[n] \in Steps
      BY <2>1, ElementOfSeq
    <3>3. \A step \in Steps : step.to \in Modes
      BY DEF Steps
    <3> QED
      BY <3>1, <3>2, <3>3 DEF IInv, AuditIsComplete, Garbled, Modes, Running
  <2>3. audit # << >> => event.from = audit[n].to /\ event.version = audit[n].version + 1
    BY <1>2, <2>2 DEF IInv, AuditIsComplete, Audited, RowMoves
  <2>4. ASSUME NEW i \in 1 .. n
        PROVE  audit'[i + 1].from = audit'[i].to /\ audit'[i + 1].version = audit'[i].version + 1
    <3>1. CASE i = n
      BY <2>1, <2>3, <3>1
    <3>2. CASE i # n
      <4>1. i \in 1 .. n - 1 /\ i + 1 \in 1 .. n
        BY <2>1, <3>2
      <4> QED
        BY <2>1, <4>1 DEF IInv, AuditIsComplete
    <3> QED
      BY <3>1, <3>2
  <2>5. audit' # << >> /\ audit'[n + 1].to = control'.mode /\ audit'[n + 1].version = control'.version
    BY <1>2, <2>1 DEF Audited
  <2> QED
    BY <2>1, <2>4, <2>5 DEF AuditIsComplete
<1> QED
  BY <1>1, <1>2, RowMovesOrStays DEF IInv, RowMoves

LEMMA StepKeepsViews ==
    ASSUME IInv, [Next]_vars
    PROVE  ViewsAreOld'
<1>1. control \in Rows \cup {NoRow} /\ control.version \in Nat
  BY DEF IInv, TypeOK, Rows, NoRow, Row
<1>2. CASE RowMoves
  <2>1. \A a \in Admins : seen[a].version \in Nat
    BY ReadableRows DEF IInv, TypeOK, Rows, Row
  <2> QED
    BY <1>1, <1>2, <2>1 DEF RowMoves, IInv, ViewsAreOld
<1>3. CASE UNCHANGED control
  <2>1. ASSUME NEW b \in Admins, Look(b) PROVE ViewsAreOld'
    <3>1. Snapshot(control).version = control.version
      BY <1>1, ReadableRows
    <3>2. Snapshot(control)' = Snapshot(control)
      BY <1>3 DEF Snapshot, Readable
    <3>3. ASSUME NEW a \in Admins PROVE seen'[a] = Snapshot(control) \/ seen'[a] = seen[a]
      BY <2>1 DEF Look, IInv, TypeOK
    <3> QED
      BY <1>1, <1>3, <3>1, <3>2, <3>3 DEF IInv, ViewsAreOld
  <2>2. CASE UNCHANGED seen
    <3>1. Snapshot(control)' = Snapshot(control)
      BY <1>3 DEF Snapshot, Readable
    <3> QED
      BY <1>3, <2>2, <3>1 DEF IInv, ViewsAreOld
  <2> QED
    BY <2>1, <2>2
    DEF Next, vars, Engage, Release, AskStop, WaitForLock, Stop, StopFails, CreateRiskPolicy,
        ActivateRiskPolicy, ChangeMode, RecordEvidence, Restart
<1> QED
  BY <1>2, <1>3, RowMovesOrStays DEF IInv

LEMMA StepKeepsPermits ==
    ASSUME IInv, [Next]_vars
    PROVE  PermitsAreCurrent' /\ PolicyExists'
<1> USE DEF NoPolicy
<1>1. policies \in Nat /\ control.policy \in 0 .. policies
  BY DEF IInv, TypeOK, PolicyExists
<1>2. ASSUME NEW x \in Actors, Stop(x) PROVE PermitsAreCurrent' /\ PolicyExists'
  <2>1. \A e \in Executors : permit'[e] = NoRow
    BY <1>2 DEF Stop, LockIsFree
  <2>2. control'.policy \in {control.policy, 0}
    <3>1. CASE control = NoRow
      BY <1>2, <3>1 DEF Stop, StoppedRow, RecreatedRow, Row
    <3>2. CASE control # NoRow
      BY <1>2, <3>2, StoppedRows DEF Stop, IInv, TypeOK
    <3> QED
      BY <3>1, <3>2
  <2> QED
    BY <1>1, <1>2, <2>1, <2>2 DEF Stop, PermitsAreCurrent, PolicyExists
<1>3. CASE ActivateRiskPolicy
  <2>1. control'.policy = policies + 1 /\ policies' = policies + 1
    BY <1>3, ActivatedRow DEF IInv
  <2>2. \A e \in Executors : permit'[e] = NoRow
    BY <1>3 DEF ActivateRiskPolicy, LockIsFree
  <2> QED
    BY <1>1, <2>1, <2>2 DEF PermitsAreCurrent, PolicyExists
<1>4. ASSUME NEW a \in Admins, NEW to \in Running, ChangeMode(a, to)
      PROVE  PermitsAreCurrent' /\ PolicyExists'
  <2>1. control'.policy = control.policy /\ policies' = policies
    BY <1>4, ChangedRow DEF IInv, ChangeMode
  <2>2. \A e \in Executors : permit'[e] = NoRow
    BY <1>4 DEF ChangeMode, LockIsFree
  <2> QED
    BY <1>1, <2>1, <2>2 DEF PermitsAreCurrent, PolicyExists
<1>5. ASSUME NEW e \in Executors, Engage(e) PROVE PermitsAreCurrent' /\ PolicyExists'
  <2>1. /\ control.mode \in Running
        /\ control.mode = "LIVE_CANARY" => interlock
    BY <1>5 DEF Engage, Readable, ExecutionAllowed, Modes
  <2>2. control.policy \in 1 .. policies
    BY <1>1, <2>1 DEF IInv, GatesProven, Modes
  <2>3. \A x \in Executors : permit'[x] \in {permit[x], control}
    BY <1>5 DEF Engage, IInv, TypeOK
  <2> QED
    BY <1>1, <1>5, <2>1, <2>2, <2>3 DEF Engage, IInv, PermitsAreCurrent, PolicyExists
<1>6. ASSUME NEW e \in Executors, Release(e) PROVE PermitsAreCurrent' /\ PolicyExists'
  <2>1. \A x \in Executors : permit'[x] \in {permit[x], NoRow}
    BY <1>6 DEF Release, IInv, TypeOK
  <2> QED
    BY <1>1, <1>6, <2>1 DEF Release, IInv, PermitsAreCurrent, PolicyExists
<1>7. CASE CreateRiskPolicy
  <2>1. policies' = policies + 1 /\ UNCHANGED <<control, permit, interlock>> /\ LockIsFree
    BY <1>7 DEF CreateRiskPolicy, AddPolicy
  <2> QED
    BY <1>1, <2>1 DEF LockIsFree, PermitsAreCurrent, PolicyExists
<1>8. CASE Restart
  BY <1>1, <1>8 DEF Restart, PermitsAreCurrent, PolicyExists
<1>9. CASE UNCHANGED <<control, policies, permit, interlock>>
  BY <1>9 DEF IInv, PermitsAreCurrent, PolicyExists
<1> QED
  BY <1>2, <1>3, <1>4, <1>5, <1>6, <1>7, <1>8, <1>9
  DEF Next, vars, Look, AskStop, WaitForLock, StopFails, RecordEvidence

LEMMA StepKeepsGates ==
    ASSUME IInv, [Next]_vars
    PROVE  GatesProven'
<1>1. ASSUME NEW x \in Actors, Stop(x) PROVE GatesProven'
  <2>1. control'.mode = "DISABLED"
    BY <1>1, StoppedRows DEF Stop, IInv, TypeOK
  <2> QED
    BY <2>1, Ranks, RanksAreDistinct, NothingRequiredToStop DEF GatesProven, Running, Modes
<1>2. CASE ActivateRiskPolicy
  <2>1. control'.mode = "DISABLED"
    BY <1>2, ActivatedRow DEF IInv
  <2> QED
    BY <2>1, Ranks, RanksAreDistinct, NothingRequiredToStop DEF GatesProven, Running, Modes
<1>3. ASSUME NEW a \in Admins, NEW to \in Running, ChangeMode(a, to) PROVE GatesProven'
  <2>1. /\ control \in Rows /\ control'.mode = to /\ to \in Modes
        /\ control'.policy = control.policy /\ From \in Modes
        /\ evidence' = evidence /\ policies' = policies
    BY <1>3, ChangedRow DEF IInv, ChangeMode, Modes
  <2>2. ASSUME NEW m \in Modes, Rank[m] <= Rank[From], NEW g \in Required[m]
        PROVE  <<g, "GO">> \in evidence
    <3>1. CASE control.mode \in Modes
      BY <2>2, <3>1 DEF From, Snapshot, Readable, IInv, GatesProven
    <3>2. CASE control.mode \notin Modes
      <4>1. From = "DISABLED"
        BY <3>2 DEF From, Snapshot, Readable, Row
      <4> QED
        BY <2>2, <4>1, Ranks, RanksAreDistinct, NothingRequiredToStop
    <3> QED
      BY <3>1, <3>2
  <2>3. CASE OneDown(to)
    <3>1. control.mode \in Running
      BY <2>1, <2>3, RanksAreDistinct, Ranks DEF OneDown, From, Snapshot, Readable, Row, Modes
    <3>2. \A m \in Modes : Rank[m] <= Rank[to] => Rank[m] <= Rank[From]
      BY <2>1, <2>3, RanksAreDistinct DEF OneDown
    <3> QED
      BY <2>1, <2>2, <3>1, <3>2 DEF IInv, GatesProven, Modes
  <2>4. ASSUME NEW given \in SUBSET evidence, MayRise(to, given) PROVE GatesProven'
    <3>1. \A g \in Required[to] : <<g, "GO">> \in evidence
      BY <2>4 DEF MayRise, Covers
    <3>2. \A m \in Modes : Rank[m] <= Rank[to] => Rank[m] <= Rank[From] \/ m = to
      BY <2>1, <2>4, RanksAreDistinct DEF MayRise, OneUp
    <3>3. control.policy \in 1 .. policies
      BY <2>4 DEF MayRise, IInv, PolicyExists, NoPolicy, TypeOK
    <3> QED
      BY <2>1, <2>2, <3>1, <3>2, <3>3 DEF GatesProven
  <2> QED
    BY <1>3, <2>3, <2>4 DEF ChangeMode
<1>4. ASSUME UNCHANGED control, evidence \subseteq evidence',
             policies' \in Nat, policies <= policies'
      PROVE  GatesProven'
  <2>1. \A pol : pol \in 1 .. policies => pol \in 1 .. policies'
    BY <1>4 DEF IInv, TypeOK
  <2> QED
    BY <1>4, <2>1 DEF IInv, GatesProven
<1>5. CASE CreateRiskPolicy
  <2>1. policies \in Nat /\ policies' = policies + 1
    BY <1>5 DEF CreateRiskPolicy, AddPolicy, IInv, TypeOK
  <2> QED
    BY <1>4, <1>5, <2>1 DEF CreateRiskPolicy
<1>6. ASSUME UNCHANGED <<control, policies>>, evidence \subseteq evidence' PROVE GatesProven'
  BY <1>4, <1>6 DEF IInv, TypeOK
<1> QED
  BY <1>1, <1>2, <1>3, <1>5, <1>6
  DEF Next, vars, Look, Engage, Release, AskStop, WaitForLock, StopFails, RecordEvidence, Restart

LEMMA InitIsSafe == Init => IInv
<1> SUFFICES ASSUME Init PROVE IInv
  OBVIOUS
<1>1. TypeOK
  BY InitHasTypes
<1>2. control \in {Seeded, Unknown, NoRow}
  BY FirstRowsAssumption DEF Init
<1>3. control.policy = 0 /\ control.mode \notin Running /\ control.version \in Nat
  BY <1>2 DEF Seeded, Unknown, NoRow, Row, NoPolicy, Running, Garbled
<1>4. PolicyExists
  BY <1>3 DEF Init, PolicyExists
<1>5. PermitsAreCurrent
  BY DEF Init, PermitsAreCurrent
<1>6. GatesProven
  BY <1>3, Ranks, RanksAreDistinct, NothingRequiredToStop DEF GatesProven, Modes
<1>7. ViewsAreOld
  <2>1. Snapshot(NoRow) = Row("DISABLED", 0, NoPolicy)
    BY ReadableRows
  <2>2. CASE control = NoRow
    BY <2>2 DEF Init, ViewsAreOld, Snapshot, Readable, NoRow, Row, Modes, Running
  <2>3. CASE control # NoRow
    <3>1. control.version = 1
      BY <1>2, <2>3 DEF Seeded, Unknown, Row
    <3> QED
      BY <2>1, <3>1 DEF Init, ViewsAreOld, Row
  <2> QED
    BY <2>2, <2>3
<1>8. AuditIsComplete
  <2>1. audit = << >> /\ control \in FirstRows
    BY DEF Init
  <2> QED
    BY <2>1 DEF AuditIsComplete
<1> QED
  BY <1>1, <1>4, <1>5, <1>6, <1>7, <1>8 DEF IInv

LEMMA StepKeepsInvariant ==
    ASSUME IInv, [Next]_vars
    PROVE  IInv'
BY StepKeepsTypes, StepKeepsPermits, StepKeepsGates, StepKeepsViews, StepKeepsAudit DEF IInv

THEOREM InvariantIsKept == Spec => []IInv
<1>1. IInv /\ [Next]_vars => IInv'
  BY StepKeepsInvariant
<1> QED
  BY <1>1, InitIsSafe, PTL DEF Spec

-----------------------------------------------------------------------------
(* The properties *)

(* Money is committed only under the row as it stands: no stop, change of  *)
(* mode or policy takes effect under an executor (lockForExecution).       *)
THEOREM PermitsStayCurrent == Spec => []PermitsAreCurrent
<1>1. IInv => PermitsAreCurrent
  BY DEF IInv
<1> QED
  BY <1>1, InvariantIsKept, PTL

(* Every mode that is reached has the gates of all modes up to it, and a   *)
(* mode that executes has a policy (changeMode).                           *)
THEOREM ModesAreEarned == Spec => []GatesProven
<1>1. IInv => GatesProven
  BY DEF IInv
<1> QED
  BY <1>1, InvariantIsKept, PTL

(* A version identifies a row, however long ago it was read (the version   *)
(* check of changeMode).                                                   *)
THEOREM VersionsAreUnique == Spec => []VersionsIdentifyRows
<1>1. IInv => VersionsIdentifyRows
  BY DEF IInv, ViewsAreOld, VersionsIdentifyRows
<1> QED
  BY <1>1, InvariantIsKept, PTL

(* The audit events lead from the first row to the row as it stands.       *)
THEOREM AuditTellsAll == Spec => []AuditIsComplete
<1>1. IInv => AuditIsComplete
  BY DEF IInv
<1> QED
  BY <1>1, InvariantIsKept, PTL

(* Modes are raised one step at a time, by somebody who saw the row.       *)
THEOREM ModesAreRaisedKnowingly == Spec => RaisedKnowingly
<1> DEFINE Knowingly ==
      From # From' /\ From' # "DISABLED" =>
          /\ Rank[From'] <= Rank[From] + 1
          /\ \E a \in Admins : seen[a] = Snapshot(control)
<1>1. ASSUME IInv, [Next]_vars PROVE [Knowingly]_vars
  <2>1. CASE control' = control
    BY <2>1 DEF From, Snapshot, Readable
  <2>2. ASSUME NEW x \in Actors, Stop(x) PROVE Knowingly
    <3>1. control'.mode = "DISABLED"
      BY <1>1, <2>2, StoppedRows DEF Stop, IInv, TypeOK
    <3> QED
      BY <3>1 DEF From, Snapshot, Readable, Modes
  <2>3. CASE ActivateRiskPolicy
    <3>1. control'.mode = "DISABLED"
      BY <1>1, <2>3, ActivatedRow DEF IInv
    <3> QED
      BY <3>1 DEF From, Snapshot, Readable, Modes
  <2>4. ASSUME NEW a \in Admins, NEW to \in Running, ChangeMode(a, to) PROVE Knowingly
    <3>1. From \in Modes /\ From' = to /\ to \in Modes
      BY <1>1, <2>4, ChangedRow DEF IInv, Modes
    <3>2. Rank[to] <= Rank[From] + 1
      BY <2>4, <3>1, RanksAreDistinct DEF ChangeMode, OneDown, MayRise, OneUp
    <3>3. seen[a] = Snapshot(control)
      BY <1>1, <2>4 DEF ChangeMode, ExpectsVersion, IInv, ViewsAreOld
    <3> QED
      BY <3>1, <3>2, <3>3
  <2> QED
    BY <1>1, <2>1, <2>2, <2>3, <2>4
    DEF Next, vars, Look, Engage, Release, AskStop, WaitForLock, StopFails, CreateRiskPolicy,
        RecordEvidence, Restart
<1> QED
  BY <1>1, InvariantIsKept, PTL DEF Spec, RaisedKnowingly

(* The policy of a mode that executes is fixed until the mode is left.     *)
THEOREM PoliciesAreFixed == Spec => PolicyFixedWhileRunning
<1> DEFINE Fixed ==
      control.mode # "DISABLED" /\ control'.mode # "DISABLED" => control'.policy = control.policy
<1>1. ASSUME IInv, [Next]_vars PROVE [Fixed]_vars
  <2>1. CASE control' = control
    BY <2>1
  <2>2. ASSUME NEW x \in Actors, Stop(x) PROVE Fixed
    BY <1>1, <2>2, StoppedRows DEF Stop, IInv, TypeOK
  <2>3. CASE ActivateRiskPolicy
    BY <1>1, <2>3, ActivatedRow DEF IInv
  <2>4. ASSUME NEW a \in Admins, NEW to \in Running, ChangeMode(a, to) PROVE Fixed
    BY <1>1, <2>4, ChangedRow DEF IInv
  <2> QED
    BY <1>1, <2>1, <2>2, <2>3, <2>4
    DEF Next, vars, Look, Engage, Release, AskStop, WaitForLock, StopFails, CreateRiskPolicy,
        RecordEvidence, Restart
<1> QED
  BY <1>1, InvariantIsKept, PTL DEF Spec, PolicyFixedWhileRunning

-----------------------------------------------------------------------------
(* The control implements KillSwitch *)

Committed == {e \in Executors : permit[e] # NoRow}

LEMMA InitIsSwitch == Init => Switch!Init
<1> SUFFICES ASSUME Init PROVE Switch!Init
  OBVIOUS
<1>1. control \in Rows \cup {NoRow}
  BY InitHasTypes DEF TypeOK
<1>2. From \in Modes
  BY <1>1, ReadableRows DEF From
<1>3. Committed = {}
  BY DEF Init, Committed
<1> QED
  BY <1>2, <1>3 DEF Switch!Init, Committed, Modes

LEMMA StepIsSwitch ==
    ASSUME IInv, IInv', [Next]_vars
    PROVE  [Switch!Next]_Switch!switch
<1>1. From \in Modes /\ From' \in Modes
  <2>1. control \in Rows \cup {NoRow} /\ control' \in Rows \cup {NoRow}
    BY DEF IInv, TypeOK
  <2> QED
    BY <2>1, ReadableRows DEF From, Snapshot, Readable
<1>2. CASE RowMoves
  <2>1. Committed = {} /\ Committed' = {}
    BY <1>2 DEF RowMoves, LockIsFree, Committed
  <2>2. Switch!Move
    BY <1>1, <2>1 DEF Switch!Move, Committed, Modes
  <2> QED
    BY <2>2 DEF Switch!Next
<1>3. CASE UNCHANGED control
  <2>1. From' = From
    BY <1>3 DEF From, Snapshot, Readable
  <2>2. ASSUME NEW e \in Executors, Engage(e) PROVE Switch!Enter(e)
    <3>1. From # "DISABLED"
      BY <2>2 DEF Engage, ExecutionAllowed, From, Snapshot
    <3>2. control # NoRow
      BY <2>2 DEF Engage, Readable, NoRow, Row, Modes, Running
    <3>3. Committed' = Committed \cup {e}
      BY <2>2, <3>2 DEF Engage, Committed, IInv, TypeOK
    <3> QED
      BY <2>1, <3>1, <3>3 DEF Switch!Enter, Committed
  <2>3. ASSUME Committed' \subseteq Committed PROVE Switch!Leave
    BY <2>1, <2>3 DEF Switch!Leave, Committed
  <2>4. ASSUME NEW e \in Executors, Release(e) PROVE Committed' \subseteq Committed
    BY <2>4 DEF Release, Committed, IInv, TypeOK
  <2>5. ASSUME Restart PROVE Committed' \subseteq Committed
    BY <2>5 DEF Restart, Committed
  <2>6. ASSUME UNCHANGED permit PROVE Committed' \subseteq Committed
    BY <2>6 DEF Committed
  <2>7. (\E e \in Executors : Engage(e)) \/ Committed' \subseteq Committed
    BY <2>4, <2>5, <2>6
    DEF Next, vars, Look, AskStop, WaitForLock, Stop, StopFails, CreateRiskPolicy,
        ActivateRiskPolicy, ChangeMode, RecordEvidence
  <2> QED
    BY <2>2, <2>3, <2>7 DEF Switch!Next
<1> QED
  BY <1>2, <1>3, RowMovesOrStays DEF IInv

(* The row and its locks implement KillSwitch: money is committed only in  *)
(* modes that execute, and the mode does not move under whoever commits it. *)
THEOREM SwitchIsKept == Spec => KeepsSwitch
<1>1. Init => Switch!Init
  BY InitIsSwitch
<1>2. IInv /\ IInv' /\ [Next]_vars => [Switch!Next]_Switch!switch
  BY StepIsSwitch
<1> QED
  BY <1>1, <1>2, InvariantIsKept, PTL DEF Spec, KeepsSwitch, Switch!Spec

=============================================================================
