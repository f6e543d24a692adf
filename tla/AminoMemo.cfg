\* An amino signer that changes the memo.
CONSTANTS
  c1 = c1
  c2 = c2
  m1 = m1
  m2 = m2
  note = note
  edited = edited
  fee = fee
  tip = tip
  None = None
  Calls = {c1}
  CallOptions <- AminoCalls
  Messages = {m1, m2}
  Memos = {note, edited}
  Fees = {fee, tip}
  ChainIds = {"merlion_5000-1", "merlion_5000-2"}
  AccountNumbers = {7, 8}
  ChainId = "merlion_5000-1"
  ClientChainId = "merlion_5000-1"
  AccountNumber = 7
  InitialSequence = 0
SPECIFICATION Spec
INVARIANT BodyIsSignedOver
CHECK_DEADLOCK FALSE
