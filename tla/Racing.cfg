\* Two calls racing for the account's sequence numbers.
CONSTANTS
  c1 = c1
  c2 = c2
  m1 = m1
  m2 = m2
  note = note
  edited = edited
  fee = fee
  tip = tip
  None = None
  Calls = {c1, c2}
  CallOptions <- RacingCalls
  Messages = {m1, m2}
  Memos = {note}
  Fees = {fee}
  ChainIds = {"merlion_5000-1"}
  AccountNumbers = {7}
  ChainId = "merlion_5000-1"
  ClientChainId = "merlion_5000-1"
  AccountNumber = 7
  InitialSequence = 0
SPECIFICATION Spec
SYMMETRY MCCallSymmetry
INVARIANTS
  TypeOK
  NoPhantomTx
  ResolvedTxIsOnChain
  SyncMeansAccepted
  ImplicitTxIsNext
PROPERTY KeepsPromise
CHECK_DEADLOCK FALSE
