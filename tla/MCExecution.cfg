SPECIFICATION Spec
CONSTANTS
  S1 = S1
  S2 = S2
  k = k
  None = None
  Urls <- AllUrls
  Keys <- Keys1
  Sessions <- One1
  Requests <- DeepRequests
  Answers <- DeepAnswers
  FaultProne <- NoSessions
  Killable <- NoSessions
  MaxTransactions = 6
  MaxCommits = 0
INVARIANTS
  ExchangesBounded
  SecretsStayHome
  AttemptsChained
CHECK_DEADLOCK FALSE
