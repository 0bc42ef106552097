SPECIFICATION Spec
CONSTANTS
  i1 = i1 i2 = i2
  Instances = {i1, i2}
  SignalOrder <- HomeBets
  Watched = {"home"}
  Books = {1}
  Strategies <- FlatOnly
  InitialBankroll = 3
  Latency = 1
  MaxQuoteAge = 1
  FreshFor = 1
  NoResultAfter = 2
  QuotedOdds = {1200, 2000}
  Delays = {0}
  Scores = {0, 1}
  LastSignal = 0
  LastQuote = 2
  LastTime = 3
  MaxQuotes = 4
  MaxAttempts = 2
SYMMETRY Interchangeable
CHECK_DEADLOCK FALSE
INVARIANTS
  BankrollHolds
  OneBetPerSignal
  NoHindsight
PROPERTIES
  NothingDecidedAfterStop
