\* One call per decision, a punctual operator, two reconciliation runs.
SPECIFICATION FairSpec
CONSTANTS
  d1 = d1 d2 = d2 k1 = k1 k2 = k2 c1 = c1 c2 = c2 r1 = r1 r2 = r2
  NoDecision = NoDecision NoKey = NoKey
  ExecModes = {"SANDBOX"}
  AccountMode = "SANDBOX"
  Decisions = {d1}
  Keys = {k1}
  KeyOf <- OneDecision
  Stake <- OneStake
  Unpriced = {}
  InitialBalance = 3
  Callers = {c1}
  Reconcilers = {r1, r2}
  Replies = {"ACCEPT", "PARTIAL", "ACCEPT_UNSEEN", "CONTRACT_BREACH", "REJECT", "REJECT_RECORDED", "LOST"}
  OneCallerPerDecision = TRUE
  Punctual = TRUE
  Faults = TRUE
  MaxCrashes = 1
INVARIANTS
  RejectedNeverPlaced
PROPERTIES
  SubmittedOnce
  NoOrderLeftBehind
  LostAnswersAreFound
  TooOldStops
CHECK_DEADLOCK FALSE
