# A TLA+ model of Merjs

Merjs is a TypeScript client for the Merlion chain. A program creates a
`MerlionClient` with a gRPC-web address, a chain id and a signer, reads the chain
through `client.query.*`, and sends transactions through `client.tx.*`. Nothing in
the repository tests it. This directory models what its code decides: how a
call of `tx.broadcast` or `tx.simulate` goes from a list of messages to a signed
transaction, to the node, and to the value or the error its caller gets, while
other calls, blocks, timeouts and failing RPCs interleave with it; how a client
comes to be and finds the procedure of each of its methods; how messages of all 919
types become bytes and are read again; and what becomes of the values that are
converted on the way: messages, keys, accounts, `Any`, times, fees and sequences.

## 1. Inventory

| Part | Source (`src/packages/...`) | State it keeps | Operations |
|---|---|---|---|
| Transaction calls | `core/src/client.ts` 128-187, 368-446 | per call, in its closure: arguments, signed bytes, `start`, hash, the promise awaited | `simulate`, `signAndBroadcast`, `prepareAndSign`, `broadcastTx`, `getTx` |
| Signing and assembly | `core/src/client.ts` 189-366, 549-634; `core/src/signer.ts` | none; the signer is the user's wallet | `sign`, `signDirect`, `signAmino`, `encodeTx`, the sign doc builders |
| Transaction search | `core/src/client.ts` 448-546; `core/src/messages/index.ts` | the decoder registry, filled once | `txsQuery`, `getMsgDecoderRegistry` |
| Accounts | `core/src/utils/account.ts` | none | `accountFromAny`, `isBaseAccount` |
| Public keys | `core/src/utils/pub-key.ts` | none | `encodePubKey`, `decodePubKey` and the checked constructors |
| Messages | `core/src/messages/bank.ts`, `staking.ts`, `types.ts` | the parameters, by reference | `toProto`, `toAmino` |
| Fees and numbers | `core/src/client.ts` 163-177, 241-242, 285-286, 636-638 | none | `gasToFee`, `Number`, `String` |
| Client creation, querier | `core/src/client.ts` 66-126; `core/src/query/index.ts` | signer, chain id, address, one generated client per module of the chain | `create`, `getQuerier` |
| Well-known types | `proto/src/google/protobuf/{timestamp,duration}.ts` | none | `now`, `toDate`, `fromDate`, JSON conversions |
| Any values | `proto/src/google/protobuf/any.ts` | none | `pack`, `unpack`, `contains`, `typeUrlToName`, JSON with a type registry |
| Generated codecs | the rest of `proto/src`: 919 message classes | while reading: one position in the bytes, an end for each active reader | `create`, `internalBinaryRead`, `internalBinaryWrite` |
| Generated clients | `proto/src/**/*.client.ts` and the service tables beside them | none | one unary call per method |
| Web3 package, build scripts | `web3/src`, `proto/scripts` | none | a provider of an empty context; removal of build output |
| The node (not in the repository) | seen through `core/src/client.ts` 216, 393, 406, 456 and `core/src/tx.ts` 135-148, 240-366 | account sequence, mempool, blocks | `auth.account`, `broadcastTx`, `simulate`, `getTxsEvent` |

**How the parts interact.** A call awaits, in this order: `signer.getAccounts()`;
`query.auth.account` unless the caller gave `explicitSignerData`; the wallet;
`simulate` or `broadcastTx`; and, with `waitForCommit`, rounds of a `setTimeout` and
a `getTxsEvent` query. Calls share nothing in memory but the signer; they meet in
the node, where the account has one sequence and the mempool accepts only the
next one. `create` awaits one import after another and hands the client out after the
last. A method of a generated client names its procedure by number in a table of another
file, which also says which codec writes the request and reads the answer; the codecs
call each other and move one shared position. Amino signing converts the caller's message
objects twice, before and after it awaits the wallet. Between any two awaits other calls run, blocks are made, and the answer
already on its way goes stale.

**What is hard.** Two calls read the same sequence. A sequence read before the
wallet was asked is used after its user decided. A broadcast fails at the transport
and arrives all the same. A poll that fails once ends the call. A poll's answer is
compared with a clock that is younger than it. Two calls with equal arguments are
one and the same transaction. A transaction that was accepted falls out of the
mempool, and another takes its sequence. The wallet changes what it is asked to
sign, or the caller changes a message while the wallet is open. A nested reader that
stops a byte early shifts everything after it. A value that is converted at every turn
drifts. `PROJECT.json` lists these at their lines.

**What makes each part correct.**
 - Calls: the promise settles, and how it settles is right about the chain:
   resolved with a `Tx` means executed, rejected for a refusal means this call has
   put nothing there, and timeout or RPC error means unknown.
 - Signing: the transaction sent is one the chain verifies, with the sequence the
   account is at, and is what the wallet signed.
 - Search: the decoded `Tx` says of logs, data and messages what the response says,
   and one odd response does not take the others with it.
 - Messages: the amino and the protobuf form of a message mean the same, since the
   chain rebuilds the one from the other to check an amino signature.
 - Keys, accounts, times, `Any`: what was encoded decodes to itself, what cannot be
   encoded is refused, nothing is read as something else.
 - Clients: nothing is called before everything is loaded, `create` settles, and each
   method reaches the procedure of its own signature.
 - Codecs: what is read is what was written, also when messages are merged, cut short,
   written by a newer schema, or read with the class of another type of the same layout.
 - Numbers: fee, sequence and account number are the exact ones.

## 2. Modules

| Module | Models | State and actions |
|---|---|---|
| `TxSigning` | signing and assembly | no variables: sign docs, what the wallet may change, `AssembleDirect`, `AssembleAmino`, and `Verifies`, the chain's check |
| `Node` (external) | the node, as far as a client can tell | `sequence` (last block), `checkSequence` (mempool), `inbox`, `mempool`, `ledger`, `dropped`; `CheckQueuedTx`, `CommitTx`, `EvictTx` |
| `MerlionClient` | the calls, composed with `Node` and the clock | below |
| `TxPromise` | the abstract specification: what a caller may conclude | `phase`, `intent`, `chain` |
| `TxSearch` | `txsQuery` and the decoder registry | per response: `stage`, `logs`, `results` of its callback; `promise` of the search; below |
| `Messages` | the seven messages of `bank.ts` and `staking.ts` within `signAmino` | the caller's `message`, and per call `stage`, `read`, `doc`, `body`; below |
| `PubKeys`, `AnyValues`, `Timestamps`, `Durations` | conversions, repeated | `origin`, `form`, `held` (with a prefix for their value): what there was, and as what it is held now; below |
| `Numbers` | `gasToFee`, `Number(sequence)` | a transaction's `gas`, `price`, `fee`, `sequence`; `PriceGas`, `SignNumbers`, `CheckNumbers`, `PayAgain` |
| `ProtoSchema` | how a generated class declares its fields | constructors of field descriptions |
| `GoogleProtobuf`, `Cosmos*`, `Ethermint`, `IbcTypes`, `Merlion*` (`MerlionClient` aside), `Tendermint*` | the field table of each message class | one definition per class, `AllTypes` and `AllSchemas` of `ProtoTypes` collect them |
| `ProtoReader` | `create`, `internalBinaryRead` | `reading`, `pos`, `frames`, `outcome`; below |
| `ProtoCodec` | `internalBinaryWrite`, and what two messages mean together | none |
| `QueryServices` | service tables and generated clients | `Clients` in the order `create` loads them, `OtherClients` |
| `Querying` | `MerlionClient.create`, calls of any generated client | `loaded`, `creation`, `calls`; below |
| `MCMerlionClient`, `MCTxSearch`, `MCQuerying`, `MCValues` | instances for TLC | |
| `MerlionClientProofs`, `TxSearchProofs`, `MessagesProofs`, `PubKeysProofs`, `AnyValuesProofs`, `TimesProofs`, `NumbersProofs`, `QueryingProofs` | theorems | section 4 |

`MerlionClient EXTENDS Node EXTENDS TxSigning`; `MerlionClient` instantiates
`TxPromise` under a refinement mapping. `Querying EXTENDS QueryServices, ProtoReader`, and
`MCQuerying` adds `ProtoCodec` and `ProtoTypes`, which are recursive: what is proved is
about a reader and the bytes it may get, wherever those come from. `MCValues` extends
`Messages`, `PubKeys`, `AnyValues`, `Timestamps`, `Durations` and `Numbers`, whose variables
and actions have names of their own, and runs one of them at a time.

### How `MerlionClient` corresponds to the code

An action is the code between two awaits. `pc[c]` says which promise call `c`
awaits, `reply[c]` what it has been settled with and the call has not looked at
yet. So each RPC that reads or changes the node takes two steps: `Answer...`, when the
node or the network settles it, and the continuation, any time later.

| Action | Code (`client.ts`) |
|---|---|
| `Invoke` | 137-147, 169, up to `await getAccounts()` at 205 |
| `GetAccounts` | 205-216: the address is not among the accounts, or on to the query, or straight to signing |
| `AnswerAccount` / `UseAccount` | 216 / 220-245 |
| `Sign` | 247-366: the wallet's answer, the assembly, and 133 or 386-418 up to the next RPC. `NextRpc` rejects an unknown mode before anything is sent, as 412-418 does |
| `Simulate` | 133-134 |
| `AnswerBroadcast` / `AfterBroadcast` | 391-411 / 397-424 |
| `WakeUp` | the end of 429 and the request of 431 |
| `AnswerGetTx` / `AfterGetTx` | 456 / 433-439: the result first, then the clock |
| `Tick` | `Date.now()` and `setTimeout` |

`elapsed[c]` is `Date.now() - start`, `timer[c]` what is left of the sleep. Node and
clock may step while an answer is on its way, which is where most of the
properties could fail. `inTime` is a history variable: the calls whose transaction
got into a block while their `elapsed` was not past `broadcastTimeoutMs`.

A signature is the document it signs: to verify it is to rebuild the document
from the transaction and compare. The mutable part of a sign doc is what a wallet
may change: memo and fee. Messages, memos and fees are single values here; what a
message's two forms say of each other is the subject of `Messages`. The
transaction is its own hash. The imports and encodings inside `sign`, which can
only fail, are in the failing disjunct of `Sign`.

### How `TxSearch` corresponds to the code

`txsQuery` maps one async callback over the node's responses and awaits
`Promise.all`. A callback runs up to its first `await` while the array is mapped, so
`Receive` (456-503) takes the answer and reads every log; `ReadData(i)` (505-512) and
`Decode(i)` (514-544) are what callback `i` does after each of its imports, in any
order among the callbacks. `RpcFails` is a query that rejects. A response is a
record of what the code asks of it: its code, its `rawLog` (empty, JSON the code can
walk through, or something that throws), return values, transaction and body, the
last three possibly absent or unreadable. A message's `typeUrl` is the slash and the
name, `slice(1)` its tail, since where the slash goes is the question.
`MerlionClient` uses a search as its polling loop does: found, absent or failed.

### How `Messages` corresponds to the code

`signAmino` maps `toAmino` over the messages (263), awaits the wallet (265-276), maps
`toProto` over the same objects (280) and encodes the result in `encodeTx` (301-322).
These are `ToAmino`, `WalletSigns`, `ToProto` and `Encode` of a call. Both conversions
copy the fields of the message but keep references to its nested objects (`amount`,
`inputs`, `outputs`, `initialDelegation`, and the description of a new validator in
`toProto`), which are read only when the document is signed and the body encoded. So a
`Change` by the caller reaches a form or does not, depending on the field and on when it
comes (`View`, `Window`). `touched` remembers the calls where it came between the two
readings of the field: their signature is wrong, and cannot be right. A rate is a number of
units of 10^-18; `ToFixed` is its text, `Scaled` that text without the first match of
`/0\.0*/`, which is the number of units if there is a zero before the point. `None` is what the
caller has left out: the amino form leaves it out as well, `toProto` makes it `Empty` (`OrEmpty`), as
which it may also be given. In direct mode
the body is encoded once, before the wallet, and is what the wallet signs.

### How the conversions correspond to the code

`PubKeys`: `Encode` is `encodePubKey` (`pub-key.ts:92-131`), `Decode` is `decodePubKey`
(154-185), `Join` makes a multisig key of what is held. Keys come from a caller, checked by
no one, or as an `Any` of another program. A byte string is its length, its first byte
and an identity. What a conversion refuses ends in the form "error".

`AnyValues`: `Pack`, `Unpack`, `JsonWrite`, `JsonRead` of `any.ts`, `TakeAccount` of
`account.ts:41-77`. A URL is a path and a name; the name is what follows the last slash
except in a URL that starts with its only one, where `typeUrlToName` keeps it. Of a
message's JSON it matters whether it is an object and has a member "value".

`Timestamps`: `Timestamp$Type.toDate`, `fromDate` and the JSON text, and `Durations`: the JSON
text of a duration. Seconds and nanoseconds are exact, the milliseconds of a `Date` are
rounded as `Math.ceil` and the `%` of JavaScript round, and a text has a number of digits.

`Numbers`: a double is a mantissa below `Limit` (2^53) times an exponent of `Scales`, a set of
powers of two; `ToDouble` rounds a fraction to the nearest one, to even between two. The
caller's decimal price becomes a double, then the product with the gas does
(`gasToFee`, 636-638), and is rounded up. `PayAgain` is the account's next transaction.

### How `ProtoReader`, `ProtoCodec` and the schemas correspond to the code

Every class of `proto/src` is generated from one pattern, and its constructor calls
`super` with the table of its fields: number, name, kind, wire type, repeat, oneof. The
schema modules are these tables, class by class, in the order in which `internalBinaryWrite`
writes; `Str(1, "denom")` is the four or five lines of the class which declare, write and read that
field. `ProtoReader` and `ProtoCodec` are the pattern over a table. Bytes are tokens: a tag, a length, a number,
a piece of text; the length of a value counts its tokens. `Enter` is the call of a nested
`internalBinaryRead`, with the end it was given and the message there was (the fourth
argument, `Target`); `Leave` is its return to the field's `Put`. `ReadContent` and `ReadNumber`
are the `case`s of the `switch`, packed lists included, `Skip` its `default` with
`UnknownFieldHandler.onRead`. No schema of the repository has a map field.
`Garble` is a reader that meets a token it does not expect.

### How `Querying` corresponds to the code

`Load` is one `await import` of `getQuerier` (`query/index.ts:50-107`) or `create`
(`client.ts:78-84`), in their order; `LoadFails` a file that is missing or lost. `Ask` is the
one line of every generated method: `this.methods[index]`, then a unary call. `Answer` brings
the bytes the procedure of that path sends, which `ReadStep`s read with the codec of
the table's entry, and `Take` settles the promise. There is one thread, and reading has no
await: one reader at a time. A client that is created may also begin with bytes of
`ReadingsOf`, which the application reads by itself (`fromBinary`), as it does with what is inside
an `Any` and with transactions.

**The node** is external and is allowed everything a node may do: run CheckTx at
once (sync) or later (async, or a request whose answer was lost), refuse anything
for any reason, fail any RPC, include or evict, in any order. It is held to this
much: CheckTx admits the account's next sequence and a signature that verifies, bytes
it still has are refused, an eviction takes the transactions that build on it with
it, and a block takes the account's next one. `dropped` remembers what was evicted.

## 3. Runs

`tlc -config <run>.cfg <module>`; the module is `MCMerlionClient` for the calls, `MCTxSearch`
for the searches, `MCQuerying` and `MCValues`. Deadlock is not checked in any of them: there
are finitely many calls, or one search, or one value, and each ends.

| Run | Question | Bounds, and why they are enough |
|---|---|---|
| `Racing` | Two concurrent calls of one account: types, and the five safety properties, the refinement of `TxPromise` among them | two calls, two message lists (equal and different transactions), sync, async and simulate, with and without waiting, queried sequence and explicit 0 and 1 (right, ahead and spent). Timeout 0 and interval 1 give a first poll, a second one and a timeout. Two calls suffice for the races of the code: a call interacts with others through the account's sequence and the mempool only, and explicit data reaches a sequence two calls ahead. Calls are symmetric |
| `SingleCall` | Which transactions verify, and does every call settle | one call; direct, amino and read-only signers, every mode (an unknown one too), both values of `waitForCommit`, explicit data with the right and a wrong chain id, account number and sequence, wallets that change memo and fee; and timeouts 0-2 with intervals 0-3, so that the interval is zero, shorter, equal and longer |
| `Search` | When does a search settle, and is each `Tx` that of its response | up to two responses, so that one can fail before, between and after the steps of another; code 0 and another; logs empty, unreadable, without entries, with and without `msg_index`, with two logs and an event without attributes. At most one field of a response is unreadable: the first that is ends its callback |
| `Querying` | Is a client created whole, does each method reach its procedure, and is what is read what was written | all imports of `create`; any method of any generated client; an empty and a full answer of a newer server. Bytes of every message type: each pair of a message with all slots filled (two values in each list, nested messages down to one level) and new fields of both lengths, and a message of one field; each field or oneof group twice; each field cut at every token; and the pairs of classes of one layout that core uses for each other (keys, `TxRaw`/`Tx`). A reader looks at one tag at a time and keeps nothing but its message: what one field does to the next shows in pairs. A deeper nesting repeats `Enter` on a table that is covered by itself, and the theorems hold for any. 117,199 states |
| `Values` | What becomes of messages, keys, `Any` values, times, durations and numbers on their way | one message of each class, two calls with it, two changes by the caller: one between each call's readings. Texts and descriptions that are absent, empty and not empty. Rates of two decimals, 0 and 100% among them. Instants of ten seconds from 1970 on with nanoseconds at all four precisions and at both ends of a second. Durations on both sides of zero and of both bounds, texts of others with every number of digits and with ten. Keys with bytes of a point, of the wrong length, and of the wrong prefix, multisig keys of up to three. `Any`: a plain type, account types, well-known types with and without JSON members "value", one type outside the registry, four kinds of path. Doubles with mantissas below 4096, where sequences lose their last bit; gas and prices of tenths and hundredths are inexact as they are with 53 bits, and so small that two roundings stay below a unit (`BitsToSpare`, `FeesAreSmall`, which the theorems assume). about 480,000 states |
| `AsyncRefusal`, `TimelyInclusion`, `AminoMemo`, `SilentNode` | the divergences of section 5 | one call, three polls per timeout at most |
| `UndecodedInput` | the same | one readable response |
| `EarlyDates`, `ValidatorKey` | the same | instants of the two seconds before 1970; one call with one message |

**Properties.** `NoPhantomTx`: nothing is in the node that a call has not sent and
acknowledged as possibly sent. `ResolvedTxIsOnChain`: a `Tx` is the call's own and on
the chain. `SyncMeansAccepted`: what polls in sync mode has passed CheckTx.
`ImplicitTxIsNext`: a transaction with a queried sequence is pending only as the
account's next one; a stale sequence never gets in. `SignatureCoversTx`: what was
assembled verifies, unless an amino signer changed the memo. `KeepsPromise`: the
whole implements `TxPromise`. `EveryCallSettles`: liveness.

`SettlesRight`: the search resolves only if every response can be decoded, rejects
only if one cannot or the query failed. `ResultsMatchResponses`: whatever the order
of the callbacks, the i-th `Tx` has the hash and code of the i-th response, and its
`arrayLog` holds each attribute of its `jsonLog` under that log's `msg_index`, and
nothing else. The `TypeOK` of the search says which callback has logs (all of them with an
index) and which has a `Tx`.

`ReadsWhatIsMeant`: bytes written by these classes, one message after the other, are read
as the two merged, unknown fields kept. `ReadersStayInside`: no nested reader passes the end
it was given, nor has it one beyond its caller's. `CutsAreNoticed`: half a message is refused
and not read as a shorter one. `MethodsMeetTheirProcedures`: the types of a method, its table
entry and the server's procedure agree, to the last field of the answer.
`NothingIsCalledEarly`, `CreationSettles`: a client is there with all its parts or not at all, and
one or the other in the end.

`SignedMessageIsSent`: what is sent says what was signed, in each of the seven classes and
for every interleaving of two calls that share a message and of its changes, unless the
change came between the two readings of the field. `SameField` says what this means for a
field: the chain reads the same rate, the same key with the same amino type, the same text, one
that is left out being the same as an empty one. Two things are not in the property because
they are otherwise: the amino type of a validator's key (`WithKeyType`; that of the code is refuted by
`ValidatorKey`), and a rate of 100%, which may be refused but is not read as another
(`SameRate`). Meanings are compared, not the text of the sign bytes: whether the chain writes an absent
or empty value as nothing, `null` or `''` there is not in the repository. `KeyIsKept`, `MessageIsKept`,
`DurationIsKept`: what was converted any number of times, or refused, was never taken for
another value; `DurationIsKept` allows the lost sign of section 5. `KeysAreWellFormed`: a held key
has the bytes of its curve, wherever it came from. `DriftsLessThanAMillisecond`: conversions
do not add up. `OnlyDatesRound`: text loses nothing. `AskedFeeIsPaid`, `LittleIsOverpaid`: two
roundings never make the fee less than what was asked, nor more than one unit too high.
`SequenceIsExact`: up to `Limit`.

**Fairness.** `LocalFairness`: the event loop runs a continuation that is ready, the
wallet's user decides in the end, time passes. These are properties of a
JavaScript host and of a user who stays. `AnswerFairness`: every RPC settles. The
code sets no deadline itself, so this is an assumption about the transport and is
kept apart; without it (`SilentNode`) the timeout does not hold. No fairness is
assumed of the node's blocks: a transaction need never be included.
Creation settles if imports do (`Settling`): the code awaits one after the other and a host
either loads a module or fails to. Nothing else of `Querying` and `MCValues` needs fairness.

Each property of a passing run has a faulty variant of a definition (the operators
marked "Faulty variant") that breaks it.

## 4. Theorems

The theorems hold for any values of the constants that have their declared types, and any
number of steps.

| Module | Theorem | Statement |
|---|---|---|
| `MerlionClientProofs` | `TypeCorrect` | `Spec => []TypeOK` |
| | `NoPhantom` | `Spec => []NoPhantomTx` |
| | `ResolvedIsOnChain` | `Spec => []ResolvedTxIsOnChain` |
| | `SyncIsAccepted` | `Spec => []SyncMeansAccepted` |
| | `ImplicitIsNext` | `Spec => []ImplicitTxIsNext` |
| | `SignatureCovers` | `Spec => []SignatureCoversTx` |
| | `Implements` | `Spec => KeepsPromise` |
| `TxSearchProofs` | `SearchSettlesRight` | `Spec => []SettlesRight` |
| | `SearchTypes` | `Spec => []TypeOK` |
| | `ResultsAreOwn` | `Spec => [](promise = "resolved" => each Tx is that of the response at its place)` |
| | `ResultsMatch` | `TxsAreWhole => (Spec => []ResultsMatchResponses)` |
| `MessagesProofs` | `MessageTypes` | `Spec => []TypeOK` |
| | `SignedIsSent` | `Spec => []SignedMessageIsSent` |
| `PubKeysProofs` | `KeyTypes`, `KeysAreKept`, `KeysAreOfTheirCurve` | `KeySpec => []KeyTypeOK`, `[]KeyIsKept`, `[]KeysAreWellFormed` |
| `AnyValuesProofs` | `AnyTypes`, `MessagesAreKept` | `AnySpec => []AnyTypeOK`, `[]MessageIsKept` |
| `TimesProofs` | `TimestampTypes`, `ConversionsDoNotDrift` | `TimeSpec => []TimeTypeOK`, `[]DriftsLessThanAMillisecond`, from 1970 on |
| | `OnlyDatesRoundEver` | `TimeSpec => OnlyDatesRound`, from 1970 on |
| | `DurationTypes`, `DurationsAreKept` | `SpanSpec => []SpanTypeOK`, `[]DurationIsKept` |
| `NumbersProofs` | `NumberTypes` | `NumberSpec => []NumberTypeOK` |
| | `FeeIsPaid` | `BitsToSpare => (NumberSpec => []AskedFeeIsPaid)` |
| | `FeeIsClose` | `FeesAreSmall => (NumberSpec => []LittleIsOverpaid)` |
| | `SequencesAreExact` | `(sequences <= Limit) => (NumberSpec => []SequenceIsExact)` |
| `QueryingProofs` | `NoCallIsEarly` | `Spec => []NothingIsCalledEarly` |
| | `MeaningIsRead` | `BytesMeanMessages => (Spec => []ReadsWhatIsMeant)` |
| | `MethodsMeet` | `TablesAgree /\ BytesMeanMessages => (Spec => []MethodsMeetTheirProcedures)` |
| | `ReadersStay` | `Spec => []ReadersStayInside` |
| | `NoCutIsMissed` | `Spec => []CutsAreNoticed` |
| | `TypesHold` | `NoneIsNoRecord => (Spec => []TypeOK)` |

Assumed of the constants:
 - `MerlionClient`: the client's and the node's chain id and the account number are among the
   ids and numbers (`ChainConstants`), `None` is not a value it stands for the absence of
   (`NoneIsNoValue`), the initial sequence is a natural number (`InitialSequenceIsNat`), and
   the arguments have their declared types (`CallOptionsType`);
 - `TxSearch`: `MaxResponsesIsNat`, `NoneIsNoIndex`, `NoneIsNoResult`, `TxResponsesType`; `ResultsMatch` moreover that the
   `Tx` of each response by itself says what the response says (`TxsAreWhole`), which is a fact
   about data and is checked by `Search` only;
 - `Messages`: `MessagesType` (rates are fractions from 0 to 1) and `NoneIsNoMessage`, which also says
   that neither the absent nor the empty value is one of the others;
 - `PubKeys`, `Durations`, `AnyValues`, `Timestamps`: `KeysType`, `SpansType`, `AnyType`, `StartsType`,
   which say what the values are made of; the theorems about timestamps moreover that seconds
   are not negative. Before 1970 a `Date` becomes a message with negative nanoseconds
   (`EarlyDates`);
 - `Numbers`: gas limits and sequences are natural numbers, prices fractions of them
   (`NumbersType`); exponents are powers of two (`ScalesType`), and none that is needed is out of
   reach (`DoublesReach`): prices and gas are not denormal and do not overflow. `FeeIsPaid` moreover
   that the price in units of its last decimal, times the gas, is below half of `Limit`: 4.5 * 10^15
   for 53 bits, a fee that large for an integer price, a thousandth of it for one of three decimals. `FeeIsClose`
   assumes that the fee is below about half of `Limit`. Larger ones are not covered by the theorems: two
   roundings may then add up to a unit;
 - `ProtoReader`: the fields of a type have numbers of their own, and slots of their own but for those of one oneof;
   packed fields are not messages (`SchemaType`). Bytes are whole, that is, what has a length ends inside of
   what it is in and not between a tag and its value, or are cut in a field (`ReadingsType`);
 - `Querying`: a service has one table with one entry for a procedure, a method's index is one of
   its entries, and its type is in the schema (`TablesType`); a server sends whole bytes (`AnswersType`).
   `MethodsMeet` moreover that the entry at a method's place has the types of its signature
   (`TablesAgree`), a fact about generated files that TLC evaluates for all 50 clients; `TypesHold` that
   `undefined` has no properties (`NoneIsNoRecord`); and `MethodsMeet` and `MeaningIsRead` that the
   bytes mean the messages they come with (`BytesMeanMessages`, below).

TLC evaluates the assumptions of a module in every run that extends it, those of the schema for all
919 classes.

**The argument.** Few of the safety properties are inductive alone.
 - `Local` adds to the types what a call's variables say of each other: it has no
   transaction before it signs and one when it sends, it has no outcome before it
   settles, and each await has its own answers. Type correctness needs this,
   because `AnswerBroadcast` puts `txRaw[c]`, which may be `None`, into the node.
 - `SequencesInOrder` orders the chain around the account's sequence: the ledger
   behind it, the mempool from it up to `checkSequence`, one transaction for each
   number. `ImplicitTxIsNext` and "no transaction is executed twice" rest on it.
 - `AnswersHold` says in which sense an answer that is on its way may go stale: the
   queried sequence is at most the account's, a transaction that was found stays
   found, one that was accepted is in the mempool, a block or `dropped`.
 - `Inv`, their conjunction with the safety properties, is inductive. A step of a
   call leaves the others alone (`OthersUntouched`), only `AnswerBroadcast` and the
   node change the node (`WhoTouchesTheNode`), and what the node changes only moves
   forward (`NodeMovesForward`).
 - `Implements` maps each action to one of `TxPromise` or to a stutter; a block is an
   `Execute` because of `NoPhantomTx` and `SequencesInOrder`.
 - `SearchInv` says how far a callback can have got with its response
   (`StageIsEarned`) and what the search's promise says of the callbacks
   (`PromiseIsEarned`). That a settled promise does not change, and that a callback
   that goes on had not settled before, keeps the two together.
 - `OwnInv`: the log and the `Tx` a callback holds are made of its own response, at every stage, and
   it holds none before. With `NoneIsNoResult` this gives `SearchTypes`.
   So whatever is wrong with a `Tx` is wrong with a search for it alone.
 - `SignedInv`: of a call that no change came between (`Agrees`), what it has copied and
   will not read again is what the message says now, then the signed document is the amino
   form of that message, then the body the protobuf form of the same one. A change of a
   field keeps this or puts the call into `touched`, which is what `Window` says
   (`ChangeKeepsAgreement`). That the two forms of one message say the same is shown class by
   class (`FormsAgree`), rates by `RateIsRead`, texts that are there by `GivenIsKept`.
 - `KeyInv`: a key that is held is well formed and made by one of the checked
   constructors; an `Any` that is held stands for `origin`, whoever wrote it.
 - `AnyInv`: the URL names the message under it or nothing, and JSON is wrapped exactly where
   reading it unwraps (`UnwrapsWhatWraps`).
 - `TimeInv`: in each form the instant is at or after the first one by less than a
   millisecond, and by nothing before a `Date` was made. The lemmas are about `div` and `%` by the
   powers of ten in the code.
 - `DurationInv`: duration and text mean the first duration or, if that one was negative
   and shorter than a second, its opposite (`Kept`); `DigitsSuffice` is why the digits that are
   left out say nothing.

 - `NumberInv`: fee and signed sequence are what `gasToFee` and `Number` make of the transaction.
   A double is off its fraction by no more than that fraction divided by `Limit` (`DoubleIsNear`), so two
   roundings make at most (1 + 1/`Limit`)^2 and at least (1 - 1/`Limit`)^2 of a product (`RoundedTwice`).
   A fee is a fraction with the denominator of its price, so a product above an integer is
   above it by more than two roundings take away, and has the same ceiling
   (`CeilingsMeet`): that is what `BitsToSpare` is for. An integer up to `Limit` is a double
   (`DoubleOfInteger`).
 - `CreationInv`: the promise of `create` is resolved only when all of `Loads` is there, and calls
   are made of a resolved one only.
 - `CallInv`: each call is one that `Ask` can make (`IsCall`), so the path leads back to the entry of
   its method (`PathsLeadBack`, because a procedure's name occurs once in a service); only
   one call at a time waits for the reader, with bytes that are whole.
 - `ReaderInv`: `StepShape` reduces the steps of a reader to four moves: the last call consumes a
   value, enters a nested reader, returns, or all is over. `EndsInv`, of whole bytes: the end of each nested
   reader is that of a length before the position, hence inside of its caller's; a tag
   is never the last token before an end, hence a value after it is inside, too (`ValuesAreInside`).
   `CutInv`, of cut ones: all readers stay before the tag of the field that was cut, or the one of
   the outermost message has called one whose end does not come; so the outermost never gets to its end.
 - `TypedInv`: the message of each active call has the slots of its type, and so have all the messages
   in it that a reader may go on with. `IsMessage` says this without recursion: there is a set
   of messages with their types that is closed under `Target`. A value put into a field shows in no
   other one, except that it takes the place of another member of its oneof (`PutShowsInField`); this
   is why a nested reader that goes on with `Target` always gets a message of its own type.
 - `MeaningInv`: what bytes mean is said in `ProtoReader` without a reader. A `Parse` is a stretch of
   bytes, the message before it and the one after it; it is made of the parse behind its first
   field and, if the field is a message, of that of the bytes inside (`IsParsed`); bytes `Mean` a message
   if a set of parses that are made of one another (`IsParse`) has one from nothing to that message. The
   reader has a stack and one position instead. The invariant: some such set has a parse for what
   the last reader has not read yet, and for every caller one that starts where the nested reader
   ends, with the nested result put into its field (`AreMeant`). `HereIsParsed` turns the first field of a
   parse into what one of the actions finds; numbers are unique, so that action is the only one
   that can be taken, and `Garble` is not.

`BytesMeanMessages` is the hypothesis of `MeaningIsRead`. A set of parses is not something TLC could
search for, so `MCQuerying` computes one for each of the instance's bytes (`ParsesOf`) and TLC
evaluates that it is one, and that it leads to the message `ProtoCodec` made the bytes of or
merged (`IsMeant`). This ties three descriptions of the format to one another: the recursive
writer and merge, the parses, and the reader.

Model-checked only: `EveryCallSettles` and `CreationSettles` (liveness under fairness is out of
the prover's reach); the `Tx` of a single response (flattening its log is recursion over data);
that the recursive writer makes bytes which mean what was written (`BytesMeanMessages`, recursion
over data again); and the divergences.

## 5. Where code and documentation disagree

Each of these is a run that TLC refutes.
 - `AsyncRefusal` (`client.ts:403`): the code of an async answer is ignored, against
   `client.ts:371`.
 - `TimelyInclusion` (`client.ts:435`): a transaction included in time ends in the
   timeout error when the block comes between the last poll's answer and the clock,
   against `client.ts:374-376`.
 - `AminoMemo` (`client.ts:281`): the body that is broadcast has the request's memo,
   the signature the wallet's, against `tx.ts:44`. The chain refuses it.
 - `SilentNode` (`client.ts:431`): an unanswered poll outlasts the timeout, against
   `client.ts:374`.
 - `UndecodedInput` (`client.ts:522`): the lookup takes off the slash the registry's keys
   begin with (`messages/index.ts:17-18`), so no message is decoded, against
   `tx.ts:116`.
 - `EarlyDates` (`timestamp.ts:197`): a `Date` before 1970 with a fraction of a second gets
   negative nanoseconds, against `timestamp.ts:157`.
 - `ValidatorKey` (`staking.ts:143`): a new validator's key is signed as `ethermint/PubKeyEd25519` and sent
   as `/cosmos.crypto.ed25519.PubKey` (`staking.ts:101`), which `pub-key.ts` converts to and types as
   `tendermint/PubKeyEd25519` (15, 42-43, 141-146); so another body is sent than was signed, against
   `tx.ts:44`. The chain refuses every amino signature of a `MsgCreateValidator`.

These are in the models as the code has them, without a run of their own:
 - `client.ts:433`: a transaction included after the timeout is returned when the last poll
   finds it, against `client.ts:374`.
 - `client.ts:510`: the array for the return values is never filled, against `tx.ts:114`.
 - `merlion/erc20/v1/genesis.ts:108`: the reader of a type without fields consumes nothing. With
   fields of a newer schema inside, their bytes are read as the caller's. The new fields of
   `MCQuerying` are therefore not put into such types.
 - `merlion/ve/v1/query.ts:17` imports `cosmos/nft/v1beta1/nft`, which the repository does not
   have; `query/index.ts:102` loads that client. `create` is rejected wherever the file is missing
   (`LoadFails`).
 - `duration.ts:150`: the text of a negative duration shorter than a second has no sign, since the
   sign is that of the seconds' text; nor is "-0" read as negative (174). `DurationIsKept`
   allows for it.
 - `client.ts:637`: the fee may be one more than the exact product rounded up.
 - `any.ts:269`: a URL that begins with its only slash, as those of the chain do, is its own
   name, so `contains`, `unpack` and JSON refuse it although 99-101 make the path arbitrary.
 - `pub-key.ts:134-146`: keys of type EthSecp256k1 are encoded but not decoded, Ed25519 keys are
   decoded but not encoded.
 - `staking.ts:87`: a rate of 100% has no zero before its point and keeps it: what is sent is not
   the integer of its units, and the chain cannot read it, against `staking.ts:12` ("as a fraction").
   A rate of ten would lose a digit.
 - `staking.ts:185`: an absent description is sent as five empty texts, as is one that was given with
   five empty texts; `staking.ts:154` says only of a description that is provided that it updates all values.
 - `staking.ts:186`: a commission rate of zero is taken for none, in both forms alike.

## 6. Not modelled, and the plan

Left out for good: the web3 stub, which provides an empty context; build scripts; the
reflection-based `toJson`, `fromJson` and `equals` of `@protobuf-ts/runtime`, which are not in the
repository; `internalJsonRead` with a target, which nothing calls; a `PubKey` of `null`, which
`decodePubKey` makes of a missing key; the exponential text `String` gives a fee of 10^21 and
more. Logging and error texts are abstracted to outcomes.

Next:
 1. Several accounts on one node, with the present theorems per account.
 2. Refinement of an abstract reader, which takes the message its bytes mean at once, by the one of
    `ProtoReader`; `MeaningInv` is the invariant it needs.
