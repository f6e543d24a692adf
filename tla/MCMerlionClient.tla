--------------------------- MODULE MCMerlionClient ---------------------------
(***************************************************************************)
(* Instances of MerlionClient for TLC: which arguments the calls are made  *)
(* with.  Every call sends the same account's transactions to one chain.   *)
(***************************************************************************)
EXTENDS MerlionClient, TLC

CONSTANTS c1, c2, m1, m2, note, edited, fee, tip

MCCallSymmetry == Permutations(Calls)

\* Options with a given timing.
Options(methods, signers, messages, modes, waits, explicit, timeout, interval) ==
  [method: methods, signer: signers,
   request: [messages: messages, memo: {note}, fee: {fee}],
   broadcastMode: modes, waitForCommit: waits,
   broadcastTimeoutMs: {timeout}, broadcastCheckIntervalMs: {interval},
   explicitSignerData: explicit]

Explicit(numbers) ==
  [accountNumber: {AccountNumber}, sequence: numbers, chainId: {ChainId}]

SignerDataUpTo(n) ==
  [accountNumber: AccountNumbers, sequence: 0..n, chainId: ChainIds]

\* Two calls that race for the account's sequence numbers: the same or
\* different messages, sync and async, with queried, right, future and spent
\* sequence numbers, and simulations.
RacingCalls ==
  Options({"broadcast"}, {"direct"}, {m1, m2}, {"Sync", "Async"}, {TRUE},
          {None} \cup Explicit({0, 1}), 0, 1)
  \cup
  Options({"broadcast"}, {"direct"}, {m1}, {"Sync"}, {FALSE}, {None}, 0, 1)
  \cup
  Options({"simulate"}, {"direct"}, {m1}, {"Sync"}, {TRUE}, {None}, 0, 1)

\* One call at a time with every signer, mode and way to end, wallets that
\* change memo and fee, and explicit data of another chain or account.
SigningCalls ==
  Options({"broadcast"}, {"direct", "amino", "readonly"}, {m1},
          {"Sync", "Async", "Other"}, {TRUE, FALSE},
          {None} \cup SignerDataUpTo(1), 1, 1)

\* A call that polls: sleeping longer than the timeout, as long, and not at all.
PollingCalls ==
  UNION {Options({"broadcast"}, {"direct"}, {m1}, {"Sync", "Async"}, {TRUE},
                 {None}, timeout, interval) : timeout \in 0..2, interval \in 0..3}
  \cup
  Options({"simulate"}, {"direct"}, {m1}, {"Sync"}, {TRUE}, {None}, 1, 1)

\* A single call, in all these ways.
SingleCalls == SigningCalls \cup PollingCalls

\* The defaults in the proportion of ten polls per timeout, cut to three.
DefaultCalls ==
  Options({"broadcast"}, {"direct"}, {m1}, {"Sync"}, {TRUE}, {None}, 2, 1)

\* A call in the mode that returns "immediately".
AsyncCalls ==
  Options({"broadcast"}, {"direct"}, {m1}, {"Async"}, {TRUE}, {None}, 1, 1)

\* A call signed with a Ledger or another amino signer.
AminoCalls ==
  Options({"broadcast"}, {"amino"}, {m1}, {"Sync"}, {TRUE}, {None}, 1, 1)
=============================================================================
