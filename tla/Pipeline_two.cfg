SPECIFICATION Spec
CONSTANTS
  d1 = d1 d2 = d2 k1 = k1 k2 = k2 c1 = c1 c2 = c2 r1 = r1 r2 = r2
  NoDecision = NoDecision NoKey = NoKey
  ExecModes = {"SANDBOX"}
  AccountMode = "SANDBOX"
  Decisions = {d1, d2}
  Keys = {k1, k2}
  KeyOf <- OneKeyEach
  Stake <- Stakes
  Unpriced = {}
  InitialBalance = 3
  Callers = {c1}
  Reconcilers = {r1}
  Replies = {"ACCEPT", "PARTIAL", "DUPLICATE_RECEIPT", "REJECT"}
  OneCallerPerDecision = TRUE
  Punctual = TRUE
  Faults = FALSE
  MaxCrashes = 0
INVARIANTS
  AccountMatchesOrders
  AcceptedMatchesOperator

CHECK_DEADLOCK FALSE
