\* A node that does not answer a poll.
CONSTANTS
  c1 = c1
  c2 = c2
  m1 = m1
  m2 = m2
  note = note
  edited = edited
  fee = fee
  tip = tip
  None = None
  Calls = {c1}
  CallOptions <- DefaultCalls
  Messages = {m1, m2}
  Memos = {note}
  Fees = {fee}
  ChainIds = {"merlion_5000-1"}
  AccountNumbers = {7}
  ChainId = "merlion_5000-1"
  ClientChainId = "merlion_5000-1"
  AccountNumber = 7
  InitialSequence = 0
SPECIFICATION LocallyFairSpec
PROPERTY TimeoutEndsTheWait
CHECK_DEADLOCK FALSE
