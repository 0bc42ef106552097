SPECIFICATION Spec
CONSTANTS
  d1 = d1 d2 = d2 k1 = k1 k2 = k2 c1 = c1 c2 = c2 r1 = r1 r2 = r2
  NoDecision = NoDecision NoKey = NoKey
  ExecModes = {"SANDBOX"}
  AccountMode = "SANDBOX"
  Decisions = {d1}
  Keys = {k1}
  KeyOf <- OneDecision
  Stake <- OneStake
  Unpriced = {}
  InitialBalance = 3
  Callers = {c1, c2}
  Reconcilers = {r1}
  Replies = {"ACCEPT", "PARTIAL", "ACCEPT_UNSEEN", "CONTRACT_BREACH", "REJECT", "REJECT_RECORDED", "LOST"}
  OneCallerPerDecision = FALSE
  Punctual = TRUE
  Faults = FALSE
  MaxCrashes = 0
INVARIANTS
  RejectedNeverPlaced
CHECK_DEADLOCK FALSE
