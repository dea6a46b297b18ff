SPECIFICATION Spec
CONSTANTS
  S1 = S1
  S2 = S2
  k = k
  None = None
  Urls <- AllUrls
  Keys <- Keys1
  Sessions <- Two
  Requests <- KeyedRequests
  Answers <- KeyedAnswers
  FaultProne <- One1
  Killable <- One1
  MaxTransactions = 3
  MaxCommits = 1
INVARIANTS
  ProgressTruthful
  LeftoversPassedOver
  CheckpointVouched
  SupervisedEvidenceAvailable
CHECK_DEADLOCK FALSE
