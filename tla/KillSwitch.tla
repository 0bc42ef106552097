----------------------------- MODULE KillSwitch -----------------------------
(***************************************************************************)
(* What the execution control promises to whoever commits money: a step    *)
(* that commits money runs in one mode, the mode does not move under it,   *)
(* and nothing starts to commit money in a mode that does not execute.     *)
(* ExecutionControl implements this with a versioned row and its locks;    *)
(* OrderPipeline relies on it.                                             *)
(***************************************************************************)
CONSTANTS
    Parties,   \* whoever commits money
    Levels     \* the modes that execute

VARIABLES level,      \* the mode, "DISABLED" when nothing executes
          committed   \* the parties in the middle of committing money

switch == <<level, committed>>

Init ==
    /\ level \in Levels \cup {"DISABLED"}
    /\ committed = {}

Enter(p) ==
    /\ level # "DISABLED"
    /\ committed' = committed \cup {p}
    /\ UNCHANGED level

(* Some parties finish, or the process that runs them dies.                *)
Leave ==
    /\ committed' \subseteq committed
    /\ UNCHANGED level

Move ==
    /\ committed = {}
    /\ level' \in Levels \cup {"DISABLED"}
    /\ UNCHANGED committed

Next == (\E p \in Parties : Enter(p)) \/ Leave \/ Move

Spec == Init /\ [][Next]_switch

=============================================================================
