\* Every kind of signer, wallets that change what they sign, and all proportions
\* of the polling loop's timeout and interval, under fairness.
CONSTANTS
  c1 = c1
  c2 = c2
  m1 = m1
  m2 = m2
  note = note
  edited = edited
  fee = fee
  tip = tip
  None = None
  Calls = {c1}
  CallOptions <- SingleCalls
  Messages = {m1, m2}
  Memos = {note, edited}
  Fees = {fee, tip}
  ChainIds = {"merlion_5000-1", "merlion_5000-2"}
  AccountNumbers = {7, 8}
  ChainId = "merlion_5000-1"
  ClientChainId = "merlion_5000-1"
  AccountNumber = 7
  InitialSequence = 0
SPECIFICATION FairSpec
INVARIANT SignatureCoversTx
PROPERTY EveryCallSettles
CHECK_DEADLOCK FALSE
