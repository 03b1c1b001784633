# Verification of flare-rosetta

This directory holds the TLA+ models of the Rosetta server in `src/server`, the
TLC configurations that check them on small instances, and proofs about them
that TLAPS checks.  It is meant to be read beside the Go code: every definition
of a model names, in `PROJECT.json` under `map`, the lines it stands for.

## 1. The system

The server answers the Rosetta API for three ledgers of a Flare (Avalanche)
node: the C-chain (EVM), the P-chain, and the C-chain's atomic UTXOs.  It keeps
no ledger of its own.  Every request is served by a goroutine of its own, which
makes RPCs to the node and to the node's indexer, one after the other, while the
chains go on accepting blocks; the answer is put together from what the RPCs
returned.  The state handlers share is small: the P-chain genesis data and its
lazily built allocation transaction, the chain IDs of the transaction parser, and
the LRU cache of ERC-20/721 contract information.

| component | source (under `src/server`) | state | operations | interacts with |
|---|---|---|---|---|
| routing | `service/service_*.go`, `backend/*/backend.go` | none | `ShouldHandleRequest`, offline-mode checks | every service, both backends |
| P-chain accounts | `service/backend/pchain/account.go`, `backend/common/account.go` | none (locals of a handler) | `/account/balance`, `/account/coins` | node, indexer |
| P-chain blocks | `service/backend/pchain/block.go`, `genesis_handler.go` | genesis block, `allocationTx` cache | `/block`, `/block/transaction`, dependency fetch | node, indexer, P-chain mapper |
| P-chain indexer parser | `service/backend/pchain/indexer/` | none | height, block by index or hash, timestamps | indexer |
| P-chain transaction parser | `mapper/pchain/tx_parser.go`, `tx_dependency.go`, `tx_ops.go` | chain IDs, initialised lazily | transactions to operations and coin changes | blocks, construction |
| P-chain transaction builder | `mapper/pchain/tx_builder.go` | none | operations to transactions | construction |
| P-chain network status | `service/backend/pchain/network.go` | none | `/network/status` | node, indexer |
| construction, UTXO chains | `backend/common/construction.go`, `backend/pchain/construction.go`, `backend/cchainatomictx/construction.go` | none; the transaction travels with the client | derive, preprocess, metadata, payloads, combine, parse, hash, submit | node, builder, parser |
| C-chain atomic accounts | `backend/cchainatomictx/account.go` | none | balance and coins of atomic UTXOs | node |
| C-chain atomic mapper | `mapper/cchainatomictx/` | none | import/export to and from operations | construction |
| C-chain operations | `mapper/transaction.go`, `client/types.go` | none | traces, fees, token logs and cross-chain transactions to operations | C-chain blocks |
| C-chain blocks | `service/service_block.go` | none | `/block`, `/block/transaction` | node, C-chain operations, contract info |
| C-chain accounts | `service/service_account.go` | none | native and ERC-20 balances at a block | node |
| C-chain construction | `service/service_construction.go`, `contract_call_data.go` | none | all construction endpoints | node |
| contract info | `client/contract.go` | LRU cache | `GetContractInfo` | node |
| network status | `service/service_network.go` | none | `/network/*`, bootstrap check | node |
| mempool, call | `service/service_mempool.go`, `service_call.go` | none | pending hashes, receipts | node |
| server, runner, tooling | `cmd/`, `docker/`, `postman/`, `rosetta-cli-conf/` | configuration | start-up | - |

How the parts interact.  A service (`service/service_*.go`) refuses what needs a
node when it runs offline, then asks `pChainBackend.ShouldHandleRequest`, then
`cChainAtomicTxBackend.ShouldHandleRequest`, and otherwise serves the EVM chain
itself.  The P-chain backend makes RPCs to the P-chain API of the node
(`GetHeight`, `GetUTXOs`, `GetStake`, `GetCurrentValidators`, `GetTx`,
`GetRewardUTXOs`, `GetBlock`) and to the indexer (`GetContainerByIndex`); block
handlers start one goroutine per dependency and collect their results in a
channel.  The construction endpoints of the two UTXO chains share
`backend/common/construction.go`, which calls the builder, the parser and the
combiner of the chain it is given; nothing is kept between the calls, the
transaction travels with the client.  Clients are other processes: they repeat
calls whose answer is lost, and they check a server by replaying the operations of
every block (the data validation of the Rosetta tools).

The behaviours that are hard here:

- *Reads of a moving chain.*  A balance takes a call per page of UTXOs, one for the
  stake and two for the height, while blocks are accepted, shared memory changes
  without a P-chain block and the indexer lags behind the node.
- *Concurrency inside a request.*  Dependencies are fetched by an errgroup whose
  first error cancels the other fetches, through a bounded channel that is drained
  only after all of them have ended.
- *State shared without locks.*  The genesis allocation is built on first use and
  appended to a shared slice, by handlers and by dependency goroutines.
- *Identifiers that are computed, not read.*  A coin is named by its transaction and
  the index of its output; the parser skips outputs (multisig, none, created by
  execution), adds others (stake, rewards) and must number them as the chain does.
- *Operations from a trace.*  The operations of a C-chain transaction are made from the
  calls its trace lists, among them calls that were reverted by a caller, code that runs
  on another account's behalf, and contracts that destroy themselves and are paid later.
- *A cache shared by all handlers* holds what is known of token contracts, also when
  reading it failed.
- *A transaction that travels.*  What a client intended is sorted, stripped of its
  accounts, parsed back, signed in the order of the operations and combined in the
  order of the inputs, while its coins and nonce may be used elsewhere.
  On the C-chain the options, the metadata and three formats of the transaction travel,
  as 256-bit numbers of which the server keeps 64 bits here and there.
- *Failures.*  Any RPC may fail; an answer may be lost after it took effect.

The properties that make each component correct:

| component | correct when |
|---|---|
| P-chain accounts | an answer is that of one block, the block it names; every request ends; repeated outputs, UTXOs of other assets and multisig outputs never change a sum (the stake of other assets does: section 6) |
| P-chain blocks | operations are parsed with all dependencies or not at all; no goroutine blocks or survives its request; a request fails for a reason of its own, except that it may not see what another handler built (section 6); a settled block never changes |
| P-chain parser | a client that applies the coin changes holds the unspent outputs of the ledger; operations are numbered without gaps and never change later |
| construction of UTXO transactions | what is parsed back is what was intended; an accepted transaction has the announced identifier; an intent that is signed in the order of its coins is accepted, unless others spend its coins or use its nonce after it was read |
| C-chain operations | replaying the operations of a transaction gives the EVM's balances, reverted calls included; operations are numbered without gaps; the process does not end |
| C-chain blocks | an answer has all transactions of its block, with what each did to every balance, in FLR and in tokens |
| contract info cache | whatever is cached or evicted by other handlers, a token is shown under its own symbol and decimals; a failed lookup spoils that contract only |
| C-chain accounts | all amounts and the nonce are those of the block named |
| C-chain atomic accounts | pages between two headers are those of one block; coins are listed once |
| C-chain construction | what is submitted is what was intended, down to what parsing cannot see; a supported intent is not turned down by one endpoint for what another made; a transaction does not wait forever |
| routing | the calls of one flow reach one and the same backend; offline never calls a node |
| network status | the block, its timestamp and the sync state reported belong together |

The hazards, each at its line and with the properties that cover it, are in
`PROJECT.json` under `hazards`; the few without a property have a note that says why.

## 2. Plan

| order | module | contents | status |
|---|---|---|---|
| 1 | `PChainAccount` | account endpoints of the P-chain | checked; proved in `PChainAccountProofs` |
| 1 | `AtomicLedgerRead` | abstract specification of 1: one atomic look at the ledger | refined by `PChainAccount`, checked and proved |
| 2 | `PChainBlock` | blocks, dependency goroutines, genesis cache | checked; proved in `PChainBlockProofs` |
| 3 | `PChainCoins` | transactions to operations, composed with a client and the chain | checked; safety proved in `PChainCoinsProofs` |
| 4 | `UTXOConstruction` | construction from preprocess to submit, composed with client and node | checked; proved in `UTXOConstructionProofs` |
| 5 | `CChainOperations` | traces, fees, token logs and cross-chain transactions to operations, as operators | used by 6 and 7 |
| 6 | `CChainTrace` | 5 composed with an EVM that calls, creates, reverts and destroys, and a client | checked; proved in `CChainTraceProofs` |
| 7 | `CChainServer` | the reading endpoints of the C-chain: blocks with 5 and the contract cache, accounts, atomic accounts, status, mempool, call | checked; safety proved in `CChainServerProofs` |
| 8 | `CChainConstruction` | construction from preprocess to submit, composed with clients, routing and a node with a pool | checked; safety proved in `CChainConstructionProofs` |

All modules of the plan are written and checked, and every safety property of a passing run
is a theorem.  What TLC alone checks is liveness (section 5).

## 3. The modules

In every module a step of a handler is one RPC with the local computation up to the
next one, because only RPCs let other processes interleave with it; where two
goroutines share memory, each access that matters is a step of its own.  Some
modules define next to a definition a variant that is not used by the
specification (`GetPreHeightOfNextBlock` beside `GetPreHeight`): it is the form the
definition would have if the code had a plausible bug, and `mutants` in
`PROJECT.json` says which property rules it out.

### PChainAccount, AtomicLedgerRead

One account; any number of handlers.  Handler variables are the locals of the Go
functions: `req`, `assets` (`assetIDs`), `pre` (`preHeight`), `src` (source chain of
the page), `cursor` (`startUTXOID`), `got` (`utxoBytes`, a bag because pages may
repeat), `staked`, `bal`, `coins`, `resp`; `pc` is the RPC the handler makes next.

| action | code |
|---|---|
| `Receive` | arrival and the checks before the first RPC (`AccountBalance`, `AccountCoins`) |
| `FetchAssets`, `Dispatch` | `buildCurrencyAssetIDs`, then the checks of address and sub-account and the branch to the pending rewards |
| `GetPreHeight`, `GetPage`, `GetStake`, `GetPostHeight` | `fetchUTXOsAndStakedOutputs`, `getAccountUTXOs`, and after the second height the parsing, sums and sorting |
| `GetCurrentValidators`, `GetRewardsHeight` | `getPendingRewardsBalance` |
| `ParseNonGenesisBlock` | the block of the answer, from the indexer |
| `RPCError` | an RPC fails, with the code the handler reports |
| `AcceptBlock`, `AcceptExport`, `IndexBlock`, `Tick` | the node, the other chains, the indexer, the clock |

The node lists UTXOs newest first: outputs created while a handler pages do not
appear behind its cursor, outputs spent may take the cursor away.  The order of the
real listing is the node's; this one makes both kinds of interference possible.
`AtomicLedgerRead` says what the endpoints promise: an answer is what one look at the
ledger showed while the request was open.  `absPhase` and `absAnswer` are the
refinement mapping: the look happens in the step that reads the second height.

The answer of shared memory holds at most one validator for a node (`StakersOfNode`): the
node's RPC lists current validators by node, and a node validates once at a time.  Sums over
a page or a set of stakers are `SumOver` and `SumOf`.

### PChainBlock

Handlers (`pc`) and the goroutines of their errgroups (`gpc`, one per dependency,
with the message it sends in `msg`); `ctxErr` is the error of the group, `blkDeps`
the drained map.  `allocationTx` is the field of the genesis handler and holds which
goroutine built the transaction; `spare` is the element behind the genesis block's
slice that `append` writes.  Blocks are named by height, and contain only the
names of their transactions, those they refer to and the rewards they give.  `Answer` is
the block, or the search of `/block/transaction` for one of its transactions, with
`ErrTransactionNotFound`; `FailWith` has the codes of the other errors.  `transferable` says
whether the allocation can be built at all: `buildGenesisAllocationTx` turns down outputs
of another kind.  `LoadAllocation`,
`BuildAllocation` and `AppendAllocation` are the separate memory accesses of
`getFullGenesisTxs` and `buildGenesisAllocationTx`.  `Requests` says which handler may
get which request.  With `WeakMemory` a handler that reads a pointer another one
published may not see the fields behind it, which the Go memory model allows without
synchronisation and arm64 (a build target of the `Makefile`) does; that is what the run
takes.  A message to the channel, `spare` and a response therefore carry which goroutine built
the allocation (`alloc`).  Without `WeakMemory` loads and stores are in order, as on amd64.

### PChainCoins

The chain is a sequence of transactions, extended by `PayBase`, `Import`,
`StakeOrExport`, `Reward` and `AdvanceTime`, with the outputs they really create in
`unspent`, `staking`, `exported` and `rewards`.  `Parse` and the operators before it
are the parser: dependencies, owners of inputs, skipped outputs, offsets of output
identifiers, operation numbers.  `Sync` is the client: it applies the coin changes
of the next transaction and records in `rejected` what cannot be applied.  A reward
transaction and the option block that commits it are one step.  Amounts, assets and
the metadata of validators are copied and left out.

`Enumeration`, which `UTXOConstruction`, `CChainOperations` and `CChainServer` use as well, has
what Go loops make of slices, in a form that can be proved about: `Increasing` lists a set of
numbers in increasing order,
`Where` keeps the elements of a slice that pass a test, as a loop with `continue` or `append`
does, `Arranged` sorts a slice as `sort.Slice` does, and `TotalOf` adds up a slice of numbers
(`RunningTotal` its beginnings).

### UTXOConstruction

One client with one intent (`intent`), the calls it makes one after the other
(`phase`), what each returned, and the node.  `BuildTx` is the builders of both
chains, `ParseTx` their parsers during construction, `BuildCredentialList` the
combiner; `ConstructionSubmit` contains what the node checks, taken from how the code
uses it.  Staking transactions of all kinds are one type, because they differ only in
data that is copied.  Accounts and coins are numbers because their byte order
decides how inputs are sorted; fees, keys and assets are left out.

Which intents there are is a constant, `Intents`, of which `Meaningful` is assumed: the
kind of an operation of the C-chain is the part of the transaction it becomes, because
these have no `type` in their metadata; such an input takes one signature; and a
client does not name two accounts for one coin.  The kinds of the P-chain are free, those
the builders drop or refuse included, and so are numbers of signatures, accounts that do not
own their coins, and coins named twice.  The nonces the accounts begin with, `FirstNonce`,
are any; others use nonces and spend coins before `/construction/metadata` and after it.
`nonceThen` is a history variable: the nonces when metadata was answered.

### CChainOperations, CChainTrace

`CChainOperations` is `mapper/transaction.go` as operators over a finished trace: `init`
passes reverts down to children as `Call.init` does, `feeOps`, `traceOps` and `tokenOps`
append numbered operations, `destroyedAccounts` is the map that `traceOps` keeps while
it goes through the calls, `Fatal` says where it ends the process, and
`crossChainTransaction` is an import or export.  `Applied` is what a client makes of operations:
the total that they add to an account in a currency.  Operations of ERC-721 tokens have neither
an amount nor a currency (`NoCurrency`).  Calls are a sequence with the index of
each one's parent, in the order of the trace.  What `traceOps` accumulates in its loop is a
recursive function of how many calls are done (`opsAfter`, `destroyedAfter`, with `Update`
for one call), and so are the marks of `Call.init` (`Reverts`).

`CChainTrace` runs transactions in an EVM (external): `CallAccount`, `CallCode`, `Create`
and `SelfDestruct` extend the trace, `Return` and `Revert` end the innermost call, the
latter bringing back the state in which it began, and `Finalise` charges the fee and
removes accounts.  Then the operations the server makes of the trace are compared with
what the balances did.

### CChainServer

Handlers with the label of the RPC they make next (`pc`), their variables (`local`), and
what was true when their request arrived (`since`, for the properties); `cache` is the
LRU list of `client/contract.go`, `misread` the contracts a look-up of which failed.

| action | code |
|---|---|
| `Genesis`, `FetchBlock`, `FetchParent` | `Block` and `blockRequest` of `service_block.go` up to the traces |
| `FetchHeader`, `FetchTransaction` | `BlockTransaction` |
| `FetchTrace`, `FetchReceipt`, `EndOfLogs` | the traces, and the receipt and operations of each transaction |
| `GetCached`, `Miss`, `Symbol`, `Decimals` | `GetContractInfo` for each token log, and the operations of the log |
| `FetchBalanceHeader`, `NonceAt`, `BalanceAt`, `CallContract`, `EndOfCurrencies` | `AccountBalance` |
| `PreHeader`, `FetchPage`, `PostHeader` | `getAccountCoins` of `cchainatomictx/account.go`, for coins and balance |
| `Peers` to `ParseCurrentBlock` | `NetworkStatus` of both chains |
| `Mempool`, `callGetTransactionReceipt` | `/mempool`, `/call` |
| `RPCError` | any other RPC fails |
| `AcceptBlock`, `FinishBootstrap`, `Export` | the node and the other chains |

`Session` selects what else happens in a run of the system (which requests, how far the
chains move), so that a run explores several scenarios without their product.  The
latest header of the EVM and shared memory are taken to change together when a block is
accepted.  A transaction's operations begin with `MinedOps`, those of its fee and its calls; those
of its logs follow one log at a time, as contracts are looked up.  What an answer has to be is
`AnswerMatches`.  It asks nothing of the token operations of a contract that has no symbol and makes logs of
both standards (`Ambiguous`, section 6).  Shared memory is a set
of UTXOs, which `ById` lists in the order of their identifiers, as the node does when it
answers with a `Page` and `SortUnique` when it is done with coins.  A request without the
block it is about (`Unnamed`), or for a balance at an identifier that names neither hash nor
index (`EmptyIdentifier`), is refused before any RPC.

The fee of a transaction is not a constant: `MinedOps` takes the price of gas from the base
fee of the header that was read (`GasPrice`, what `core.TransactionToMessage` does), and
`/block/transaction` reads the header that was asked for, whatever block the transaction is in.

What is assumed of the constants is what the node guarantees: a session only goes on
(`GoesOn`), blocks are sequences of transactions with identifiers and logs of tokens, and of cross-chain
ones with amounts (`WellFormed`), and no two UTXOs have the same identifier.  `ChainAssumption`
says what the traces of the chain are, and that with the fee of its own block (`OfBlock`) each
transaction's operations replay to its effect: see `OperationsCorrect` in section 5.

### CChainConstruction

Clients (`pc` is the endpoint they call next, or the RPC inside `/construction/metadata`),
what they intend (`intent`), what they were given (`held`: options, metadata, fee,
transaction and its format), and a node with a pool, accepted transactions and nonces
(of contracts too, which start at 1; a transaction that would take a nonce beyond uint64 is
not executed).
There is an action per endpoint, three for `/construction/metadata` with its three RPCs,
and `Delegate` for the calls that `ShouldHandleRequest` of the other backends takes; what
those do is in `UTXOConstruction`.  `SignPayload` may use a wrong key, `MetadataFault`
and `SubmitFault` lose an RPC or its answer, `Resubmit` repeats a call that may have taken
effect, `OtherWallet` uses the account elsewhere.  A client goes on from
`/construction/parse` only if the operations are the ones it meant (`AsIntended`).  Numbers are
decoded up to 256 bits (`Word`), read back from call data without the top byte
(`TopByte`) and cut to 64 bits (`Uint64`, `Int64`) where the code does so.  The formats a
previous version of the server produced, which the code still accepts, are intents with
`legacy`.

### MC modules

`MCPChainAccount`, `MCPChainBlock`, `MCPChainCoins`, `MCUTXOConstruction`, `MCCChainTrace`,
`MCCChainServer` and `MCCChainConstruction` give the constants their values and define
nothing else.

## 4. The runs

| run | question | bounds |
|---|---|---|
| `ledger` | are balances and coins those of the block they name, and is reading atomic? | 1 handler, 4 outputs, pages of 2, 2 blocks, 14 requests, uint64 shrunk to 8, 1 clock tick |
| `shared_rewards` | do repeated pages inflate a balance, do rewards add up, are they ever newer than their block? | 2 outputs, 2 blocks, 1 failing RPC, a validator and 2 delegators, 15 % fee |
| `account_live` | does every request end, is a client that retries served? | 3 outputs, 2 blocks |
| `coins_assets` | *violated:* coins are of the requested assets | 1 handler, 3 outputs, 1 failing RPC |
| `block` | are dependencies complete, can a goroutine block or be left behind, is a settled answer final, what can make a request fail or lack operations, does every request end? | 2 handlers, one for blocks and transactions, found or not, and one for the genesis allocation; 3 blocks with 2, 2 and 1 dependencies; stores out of order; an allocation that can be built and one that cannot; 1 failing RPC of each request |
| `coins_ledger` | does a client that applies coin changes hold the ledger's outputs? | 4 transactions, 2 inputs, 1 transaction behind, 2 addresses |
| `coins_shift` | *violated:* every coin change can be applied | 3 transactions, 1 input |
| `construction` | is what was intended confirmed, identified and accepted? | 784 intents over 2 accounts with different nonces and 6 coins, 1 use of a coin or nonce by others, before or after any call |
| `trace` | does replaying operations give the EVM's balances, and are they numbered? | 1 transaction of up to 5 calls, 3 contracts and 1 created, values 0 and 1 |
| `trace_revert` | *violated:* only accounts that are removed are zeroed | the same without creations |
| `cchain_server` | are answers right for the block they name while everything else moves? | 6 sessions: 2 blocks with base fees 1 and 2, 3 transactions of up to 4 logs and 3 cross-chain transactions, transactions asked for with their own block and with another, a cache of 1, pages of 2, 5 exported UTXOs in an order that is not that of their identifiers, 1 failing RPC, 2 handlers |
| `cchain_construction` | is what was intended submitted, and what is supported let through? | 2 clients on one account, 32 intents and 1, gas prices 1 and 2, int64 up to 7, amounts below 64 with a top byte from 32, 1 failing RPC, 1 transaction of another wallet, online and offline |

Why these bounds are enough.  Handlers of `PChainAccount` share nothing, so one
handler beside a freely moving chain meets every interleaving that matters to it.  Pages
of two with up to four
outputs give an empty page, a partial page, a full last page and a cursor that is
spent; two blocks let the height move between any two calls, and twice.  `MaxUint` is
8 so that sums of a few outputs overflow, as sums of many do with 64 bits.
In `PChainBlock` the chain repeats a dependency, refers to the genesis
allocation and to two transactions that a later block does and does not reward; all that
handlers share is the genesis allocation, so the second one asks for nothing else; one
failing RPC is enough to cancel the others.  In `PChainCoins` four transactions reach
genesis, staking, its end and the spending of a reward.  The intents of
`UTXOConstruction` contain every order of up to three inputs, equal accounts and
coins, and inputs of a kind that a type of transaction drops; the proofs are for all
meaningful ones.  Five calls are enough for
a contract that is paid, destroys itself, is paid again and is called back by one that
fails.  The cache of `CChainServer` has room for one contract, so every second token
evicts the other, and two handlers read blocks with the same tokens; UTXOs span two pages
of one chain and one of the other.  A transaction is asked for with its own block, with a
later, an earlier and the genesis block, whose header has no base fee: its gas then costs 2,
3 or its cap.  The intents of `CChainConstruction` have every kind
of transaction with amounts on both sides of each boundary (64 bits, top byte, 256 bits),
every optional number, every refusal and every legacy format; the second client uses the
same account, with the same nonce or the next.

`CHECK_DEADLOCK FALSE` is set everywhere because the bounds stop the environment: a
chain that has accepted its last block and a client that has read it or has
finished have nothing left to do.  That handlers do not hang is what
`EveryRequestAnswered` and `SendNeverBlocks` say.

Fairness.  `FairSpec` of `PChainAccount` assumes weak fairness of each handler's next
step (Go runs every goroutine that can run; the node answers each RPC, with a result
or an error) and of the indexer.  `RetrySpec` adds clients that repeat their requests,
for `RetryServed`, which also assumes that the chain pauses: in the model it
does, at `MaxHeight`.  A chain that never pauses between two looks at the height
keeps a client from ever being served, and nothing in the code prevents that.
`FairSpec` of `PChainBlock` assumes the same of handlers and of each dependency
goroutine, and that of `CChainServer` the same of handlers.  RPCs are not assumed to
succeed and blocks are not assumed to be accepted, except in `CChainConstruction`: there
`AcceptedUnlessRaced` assumes that the node goes on building blocks while transactions
wait in its pool, and nothing of the clients.  `PChainCoins`, `UTXOConstruction` and
`CChainTrace` state no fairness: what they promise is safety.

## 5. The proofs

### PChainAccountProofs

`PChainAccountProofs` proves, for all values of the constants that satisfy
`ConstantsAssumption` (any number of handlers, outputs and blocks, any page size of at
least 2):

- `TypeCorrect`: `Spec => []TypeOK`, by one step per action.
- `SnapshotCorrect`: `Spec => []SnapshotConsistency`: the outputs a handler answers
  from are exactly the ledger's at the height it reports.
- `ReadingCorrect`: `Spec => []ReadingInv`, which makes paging sound (below).
- `CoinsCorrect`: `Spec => []CoinsOfItsBlock`: a coins response lists, once each, the
  single-owner UTXOs of its block that pass the asset filter in force.
- `BalancesCorrect`: `Spec => []BalanceOfItsBlock`: the balances of all classes, and their
  total, are the sums over the requested assets of the ledger at the block the answer
  names.  To the staked and the total balance of an account that staked an asset the request
  does not name the code adds that stake; `StakeMixed` leaves out exactly those.
- `SharedBalanceCorrect`: `Spec => []SharedBalanceCountsOnce`: a UTXO of shared memory is
  counted once, however many pages repeated it.
- `RewardsAddUp`: `Spec => []RewardsConserved`: what a validator and its delegators are
  told they will get is what the ledger will pay; and `RewardsSeen`:
  `Spec => []RewardsNotFromTheFuture`.
- `ReadsRefineAtomicReads`: `Spec => ReadsAreAtomic`: the handlers implement
  `AtomicLedgerRead`.

The argument.  `SnapshotConsistency` speaks of handlers that have finished reading and
is not inductive: it needs what a handler knows while it reads.  `ReadingInv` says that
as long as the height is the one read first, the pages so far are the newest part of
the UTXO list down to the cursor (`ReadSoFar`), the whole list when paging ends, and
with the stake at the second height; when a block is accepted, nothing is claimed any
more, since heights only grow and `HeightMoved` then refuses to answer.  The
inductive invariant is `IInv`, the conjunction of `TypeOK`, `ReadingInv` and
`SnapshotConsistency`; TLC checks its parts in run `ledger`.  The proof treats one
handler at a time (`Consistent(r)`): `StepConsistent` for its own steps,
`OthersStill` for those of others, `BlockConsistent` for accepted blocks.  The heart
is `PageReads`: a page behind the cursor extends an upper part of the list to a larger
upper part, and a page that is not full leaves nothing (`PageIsUpperPart`, with facts
on cardinalities from `FiniteSetTheorems`).  For the coins, `AllComputed` adds what an
answered handler computed and the height its response names; it is inductive
together with `IInv`.  `AllBalances` does the same for the balances of a handler and for
the stakers it has seen, and `AnswerInv`, the conjunction of the three, is what
`AnswersComputed` proves.  That the sums of the
classes add up to the total uses that every output is in exactly one class
(`ClassesPartition`), and that the bag of a handler's pages counts an output once follows
from pages being sets of a larger whole (`CountedOnce`).  Refinement uses `IInv` at the second
height, where `SnapshotOf` makes the answer equal to `Abs!Look`; all other steps of a
handler open, close or forget a request (`StepIsAllowed`) and move no other one
(`OneMoves`).

Assumptions: `ConstantsAssumption`, whose parts are the types of the
constants, that pages hold at least two outputs (`getUTXOsPageSize` is 1024), that
the genesis uses identifiers below `FirstId`, that there are finitely many stakers and
that an output that is not a stake has no inner lock; and, for `RewardsAddUp`,
`FeeAssumption`, that a delegation fee is at most 1000000 (of a million).

### PChainBlockProofs

Proves the inductive invariant (`InvariantHolds`) and from it every invariant of
run `block`, for any chain, any requests and any number of handlers, dependencies and
failing RPCs:

- `TypeCorrect`: `Spec => []TypeOK`.
- `ChannelSuffices`: `Spec => []SendNeverBlocks`; `GoroutinesEnd`: `Spec => []NoOrphans`.
- `DependenciesCorrect`: `Spec => []DependenciesComplete`.
- `AnswersSettle`: `Spec => []FinalOnceFollowed`.
- `ErrorsHaveReasons`: `Spec => []NoSpuriousError`, whether stores are in order or not.

The argument.  What is claimed of an answer depends on all messages that went through
the channel, so `IInv` follows a message from the goroutine that makes it to the map
it is drained into (`MessageInv`): it is about its own transaction (`Right`), it says
that a reward was given only if one was issued, and says so of every reward of a block that
was followed when the request arrived.  `GroupInv` ties the goroutines to the
dependencies while the handler waits and says that none is active otherwise, and that a
goroutine can have failed only if the group knows, so `WaitSucceeds` means that all
messages are there.  `RequestInv` keeps the timestamp, the request and the reason for an
error (`Founded`).  A goroutine's step is `GoroutineMoves` or `MessageMade`, draining is
`DrainedRight`; that a reward is settled once its block is followed by another is
`RewardSettled`, and rewards that were issued are never withdrawn.  That the channel
suffices is a fact on cardinalities: there are at most as many messages as goroutines.
Each reply goes through `FailIInv` or `AnswerIInv`, which ask for its reason: `Founded`, or
that all fields were seen (`Fine`).  A group's first error is that of an RPC or of an
allocation that cannot be built (`GroupInv`), so a request that fails with it has one too.

Assumptions: `ConstantsAssumption`, among them that the genesis allocation stakes
nothing that is rewarded.

### InductionLemmas

The provers cannot use a principle of induction that takes an operator as its parameter,
but induction is also a statement about sets: a set of numbers that is not empty has a
least element (`LeastNat`, from the well-foundedness of `<` in the library), so the set
of numbers for which a claim fails is empty (`InductionNat`, `InductionSubsets`).  From
these the module proves that the function by which `FoldFunctionOnSet` defines a sum
exists (`SumsExist`), is the only one (`SumsAgree`) and is recursive (`SumIsRecursive`),
and with them how sums change with their set (`SumAdd`, `SumRemove`, `SumUnion`) and with
their summands (`SumPlus`, `SumSame`, `SumOfZeros`); that `Increasing` of a finite set of
numbers exists, is sorted and has every element once; and that a sequence can be sorted by
any total preorder (`SortingPermutation`), so that the `CHOOSE` of `Arranged` finds something.

`Lists(s, R, P)` says that `s` has, in some order, the values of `R` at the positions `P`, each
once.  A filter, a sort and a change of every element make lists of what they are given
(`ChosenLists`, `PermutedLists`, `MappedLists`), so do two lists one after the other
(`ListAppended`), and a list of a list is a list (`ListOfList`).  Two sequences that list the
same positions have the same elements as often (`CountListed`, `LengthListed`).

The function that a loop over a sequence is (`f[n]` from `f[n - 1]`) exists (`IteratesExist`).
The total of a sequence is one: it is that of its parts (`TotalConcat`, `TotalTail`), a factor of
every number is one of their total (`TotalScaled`), and the numbers that a filter keeps add up to
all of them if the others are 0 (`TotalKept`).

### PChainCoinsProofs

Proves every invariant and the action property of run `coins_ledger`, for any number of
transactions, inputs, outputs and addresses:

- `TypeCorrect`, `AllParse` (`EveryTransactionParses`), `AllNumbered`
  (`OperationsNumbered`), `AllApply` (`CoinChangesApply`), `CoinsAreLedger`
  (`CoinsMatchLedger`), and `OperationsStay` (`OperationsNeverChange`).

The argument.  `IInv` has a part for each side of the composition.  `LedgerInv` says
where each output of the chain is: unspent, staked, exported, spent, or a reward not
yet given.  `InputsInv` says that a transaction spends outputs of earlier ones that these
have not spent, each once, and `RewardsInv` that a reward transaction ends a staking
before it, which no other does, and that rewards are given to what has been ended.  `ClientInv` says that the client holds the single-owner outputs that existed
after the transactions it has read.  The heart is that the
coin changes of one transaction remove and add what the chain
did: the operations of a transaction are an enumeration of its inputs and outputs that
are not skipped, so the identifiers they carry are those of the ledger as long as no
output was skipped before (the shift that run `coins_shift` shows).

Assumptions: `ConstantsAssumption`.

### UTXOConstructionProofs

Proves every property of run `construction`, for any accounts, coins and meaningful intents of
any length, any nonces to begin with, and any number of spends of others:

- `TypeCorrect`, `IntentsConfirmed` (`IntentConfirmed`) and `PlacedAccepted`
  (`AcceptedUnlessRaced`).

The argument for `IntentConfirmed` is `BuiltParses`: the transaction built from an intent
parses as a list of the intended operations whose kind has a place in it.  Each part of the
transaction is a filter by side, a filter by kind, a change of format and a sort; parsing
changes the format back, with the accounts that travel beside it (`OwnersTravel`:
the map by coin finds the account the client named), and appends the parts.
What `IntentConfirmed` says of counts, lengths and signers are facts about lists.

`IInv` ties this to the calls of the client.  `IntentConfirmed` alone is not inductive,
because it says nothing of a transaction that has not been parsed yet.  `PhaseInv` says which checks the client has passed
in each phase; `BuiltInv` that the transaction in its hands, with its signers and payloads, is
the one built from the intent; `ParsedInv` that what was parsed was parsed from it, which
stays true when it is signed because signing changes nothing but the credentials;
`SignedInv` that the credentials are those of the payloads; `HashInv` that the node accepts
nothing but the transaction that was hashed.  `NonceInv` is for `AcceptedUnlessRaced`: the
transaction of an export has the nonce that its account had when metadata was answered, unless
the client named another.

`AcceptedUnlessRaced` follows from a lemma for each call that it does not fail when the
intent is `InPlace` and nobody has taken its coins or, since metadata, a nonce of its account.  The longest is that of the node's check
(`SubmitAccepts`): each credential is a piece of the signatures at the sum of those before it
(`CredentialEach`), the payloads are in the order of the coins (`PayloadsInOrder`, because two
strictly increasing sequences with the same elements are equal), so each is the owner's.

Assumptions: `ConstantsAssumption`.  `InPlace` is what the theorem asks of an intent, and run
`construction` has such intents.

### CChainServerProofs

Proves, for any chain, sessions, tokens, sizes of pages and of the contract cache, and number
of handlers:

- `AnswersCorrect`: `Spec => []AnswersFitTheirBlock`: the amounts and the nonce of a balance
  are those of the block it names, the latest block is not older than the request, and a
  status is what the chains were while the request was open.
- `TypeCorrect`: `Spec => []TypeOK`: the cache, which all handlers fill and evict from, holds
  each contract once and never more than it has room for; the node stays within its
  session; a handler is done exactly when it has answered.
- `CoinsCorrect`: `Spec => []CoinsOfTheirBlock`: coins and atomic balances lack nothing that
  had been exported when the request arrived and contain nothing that was imported up to
  the block they name; coins are listed once, and a balance counts twice only the
  UTXO that a page repeats from the one before.
- `OperationsCorrect`: `Spec => []OperationsMatchChain`: an answered block or transaction has its
  transactions in order, cross-chain ones that move FLR included, and replaying the operations
  of each gives what it did to every balance, in FLR and in the tokens that are shown; for a
  transaction asked for with a block that is not its own, it gives that for every account but
  its sender and the burn address, and for these two together.

The argument for answers.  A handler that serves a balance or a status must be known to be at
a label of that kind of request, and what it has read so far to be of the block it read first
(`BalanceInv`) or still true of a node that only goes on (`StatusInv`, `SinceInv`).  The
steps of all other handlers keep `IInv` because they stay among their own labels
(`OtherContinues`, `OtherReplies`); those of the node because accepted blocks,
bootstrapped chains and exports are never taken back (`OthersStill`).  Balances, token
balances and nonces at a block are functions of the chain that the proof does not open.

The argument for types (`TypeInv`).  `Knows` says what a handler must know at a label for
its next step to make sense: there is a transaction left where its trace or
receipt is read, and a log where a contract is looked up.  `CacheInv` is kept although
handlers interleave between `Miss` and `Put`: `Put` first takes out the entry of the same
contract (`Others`), so two handlers that both missed it leave one entry.

The argument for coins (`AllCoinsInv`).  While a handler pages, three facts about what it has
read hold together.  `Read`: what was read had been exported, and unless a block was
accepted meanwhile none of it was imported; a coin is repeated at most by the next one
(`RepeatedNext`).  `Paging`: what was read of the current chain lies before the cursor,
except the last one, which is at it (`BeforeCursor`), so that a page, which starts at the
cursor, repeats that one and no other.  `Complete`: if no block was accepted, every UTXO that
had been exported at the start is there as soon as the cursor has passed it, and all are
when a page is not full (`PageCompletes`); exports in between may be missed, which is why
the property speaks of those at the start.  `PostHeader` answers only if the header is still
the one of the start, and then the conditions `accepted = l.block` are met.  The lemmas about pages
(`PageIs` and those after it) say of `Page` that it lists the UTXOs from the cursor on in
increasing order, so a UTXO that it leaves out lies beyond its last one.  Both arguments
need that UTXOs of two chains differ, because the two lists are joined.

The argument for operations (`AllOpsInv`).  Handlers share the cache and nothing else, and what
they may do to each other through it is limited by `CacheRight`: an entry of a contract that is
not in `Misnamed` (those misread before, and the `Ambiguous`) has the symbol and decimals of its
contract.  `Put` keeps that whoever calls it and whatever it evicts (`PutRight`), because a
handler that has read a symbol either read the right one or has put the contract into `misread`
in the same step.  `misread` only grows, so what is right of an answer under way stays
right when another handler's look-up fails (`MappedMore`, `TransactionStays`), and the steps of
handlers that serve other requests do not come near (`OtherActOps`, with `FreeLabels`).

Per handler, `OpsInv` says how far it has come.  `Progress`: transactions are mapped from the
first to the last, those that are done are right, and those that are left are the rest of the
block.  `Mapped`: in the transaction that is being mapped, the operations so far, plus what the
logs that are left will move, are the whole effect on each shown token; they are the whole
effect on FLR from the beginning, and nothing else moves.  One log then takes from one side what it adds
to the other.  That `MinedOps` begins it so is `MinedRight`: for a block that contains the
transaction it is `ChainAssumption`, and for another one the operations differ from those in two
numbers only, what the fee takes from the sender and what it gives to the burn address
(`FeeOpsAre`, `MinedIs`).  That the logs which `Selected` leaves out move no token that is shown is
`KeptLogsAre`, which rests on `TotalKept`.  Cross-chain transactions do not depend on the cache:
`ImportIs` and `ExportIs` give their operations and fee, and `TransactionsAre` that `Answer`
appends those that move FLR, in order.

Assumptions: `ConstantsAssumption`; for `OperationsCorrect` also `AmountsAssumption` and
`ChainAssumption`: transactions are told apart by their identifiers, as hashes do, and the
operations that the server makes of each one's trace are numbered and, with the fee under the
header of its own block, replay to its `effect`.  That is what `ReplayCorrect`,
`NumbersCorrect` and `TraceTypeCorrect` prove of the EVM of
`CChainTrace`, for the traces in which destructions take effect and no value is borrowed;
a chain here has only such traces, and run `cchain_server` evaluates the assumption on its own.

### CChainTraceProofs

Proves, for any accounts, code, values, fees, number and nesting of calls and number of
transactions, before Cancun and after:

- `TraceTypeCorrect`: `Spec => []TypeOK`;
- `ReplayCorrect`: `Spec => []ReplayMatchesEVM`: replaying the operations gives the balances
  that the EVM ended with;
- `NotFatal`: `Spec => []NeverFatal`: no destroyed account is counted below zero;
- `NumbersCorrect`: `Spec => []OperationsNumbered`.

The operators first.  `OpsAfterSteps`, `DestroyedAfterSteps` and `RevertsSteps` say of each
recursive function what its first value is and how one follows from the one before; the rest
never opens them.  Replaying is a total, so operations one after the other add up
(`AppliedConcat`).  From these, what the operations of a trace add up to is the sum of what each call
moves (`EffectSteps`, `Counted`), zeroing takes away exactly what destroyed accounts hold, in
whatever order the map is walked, and operations are numbered because each call's begin where the
last one's end (`NumberedConcat`).  Appending a call to a trace changes nothing that was said
of the calls before it, and failing one marks its descendants, which are all the calls after
it.

The inductive invariant.  `ReplayMatchesEVM` speaks of finished transactions, so `IInv` needs
what is true on the way.  `Follows(cs, k, S, b)` says that a state `S` of the EVM is the one
after the first `k` calls: if all destructions among them took effect and no value was borrowed,
balances are those at the start plus what the operations do (`Accounted`), and the map of
destroyed accounts has those that the EVM will remove, each with its balance (`Held`).  It holds
of the current state and the whole trace (`Running`); and because a failure brings back the
state before the call, it must hold of the state that each running frame saved and the trace
before its call (`Framed`), which is what makes the invariant inductive under `Revert`.
`Nested` relates the frames to each other, so that what a frame saved is not older than what
the outer ones did: a contract that runs has code or is being created (`Has`).

Two parts of it are easily missed.  `Lasting` says that a destruction that
was not reverted is either in force or was of a contract that lasts, because after Cancun a contract
created earlier survives it: without this, a failure that takes back the creation could
turn a trace that did not take effect into one that did.  And an account that
destroyed itself is not created again while a frame that saved it as destroyed runs (`Framed`),
because `traceOps` forgets a destroyed account for good when it is created
again, also when that creation fails.  `IInv` itself was checked by TLC on the instance of run
`trace`, before Cancun and after, before it was proved.

`DestructsTookEffect` and `NothingBorrowed` are hypotheses of `ReplayMatchesEVM` and
`NeverFatal` because without them the code does something else (see run `trace_revert` and the next
section); run `trace` reaches transactions with destructions that meet them.

Assumptions: `ConstantsAssumption` (users and the burn address have no code, balances, values and
fees are natural numbers, the fee that is kept is not above the one that was taken) and
`AmountsAssumption`, about the numbers of cross-chain transactions.

### CChainConstructionProofs

Proves, for any intents, amounts, widths of numbers (an int64 shorter than a top byte shorter
than 256 bits), prices and estimates of gas, and number of clients and failing RPCs:

- `IntentsConfirmed`: `Spec => []IntentConfirmed`;
- `SupportedGetThrough`: `Spec => []HonestFlowsGetThrough`;
- `TypesCorrect`: `Spec => []TypeOK`.

The argument for `IntentConfirmed`.  Lemmas about the operators come first: operations that match a
description are of the shape that `Fits` says (`MatchesRight`), so the unsigned
transaction is `MessageOf` the intent (`MessageRight`), which is also the only message whose
gas is ever estimated (`EstimatedRight`).  A transaction with these contents has the
effect that was intended if it parses as what was intended (`EffectRight`).  The comparison
with the parsed operations is needed: a call of `transfer` or `unwrap` through the interface
for any contract has another effect than its operations say, and only
`/construction/parse` tells (`ParsedMethod`).  The inductive invariant `IInv` has one part
per client (`ClientInv`): `Stages` says what each endpoint has added to what the client
holds and that nothing of it changes later, whether or not it signs with the right
key, and `Routed` that the parts that `ShouldHandleRequest` looks at lead each call to the
same backend.  A client that gave up keeps what it has (`GivesUp`), so that it may submit
again.

The argument for `HonestFlowsGetThrough`.  Operators first: the operations of a supported intent, and the operations
that `/construction/parse` makes from its transaction, match the descriptions that the
server makes of them (`SupportedParses`), also when they come in the reverse order; and what
the server puts into options and metadata it can decode again (`SupportedDecodes`).  The
invariant `HInv` adds to `IInv` one part per client (`Flow`).  `Facts` is what the endpoints
check of a request and hold of every request the server made itself: the metadata carries the
nonce that the node reported, the sender is the signer, a signed transaction in the old format
is only sent to be parsed when the intent uses it.  `Reason` is why a client gave up; it
speaks of the nonce at the node, so it must survive every step of the node, and it does because
nonces only grow (`AcceptFlow`).  That a client's calls are all answered by one backend
follows from `Routed`.

The argument for `TypesCorrect`.  `TypeInv` adds to those two invariants the types of what
each client holds (`Fitting`) and of the node (`PoolTypes`).  Nonces and gas limits stay
uint64 and fees int64 whatever numbers a client sends (`Uint64Fits`, `Int64Fits`), also where
a product of two overflows.  A transaction that can be submitted has an account as its sender
(`SenderFits`), so the node has a nonce for it; the pool has one transaction per nonce of an
account and none whose nonce is used, which acceptance of transactions of any wallet keeps
(`SendFits`, `AcceptFits`).

Assumptions: `ConstantsAssumption`; prices are natural numbers, the default and estimated
limits of gas are uint64, which is the type of the constants and of the RPC's answer.

### Only model-checked

- Liveness (`EveryRequestAnswered`, `RetryServed`, and the `AcceptedUnlessRaced` of
  `CChainConstruction`): it rests on
  fairness, which this prover does not handle.

## 6. What was found

Three statements of the code's comments do not hold; each has a run and is listed
under `findings`: a dropped error returns the coins of all assets (`coins_assets`);
coin identifiers of staked and exported outputs after a multisig output
(`coins_shift`); and a contract whose destruction was reverted is zeroed all the same
(`trace_revert`).

Also seen while modelling, and part of the models as the code has them:

- Balances of shared memory are not guarded by the height check (`account.go:383-395`): two
  answers for one block may differ.
- The genesis allocation is published without synchronisation
  (`genesis_handler.go:97-140`); with `WeakMemory`, as on arm64 (`Makefile:34`), a request
  for the genesis block, or for a block that spends the allocation, may lack operations, fail
  or end in a panic because another handler built the transaction.  `NoSpuriousError` bounds
  this and does not exclude it: `Unseen` names the requests it can reach.
- The number of credentials is not that of the inputs when an atomic transaction has
  several inputs or two kinds of them (`cchainatomictx/construction.go:305`,
  `backend/common/construction.go:261-300`).
- The requested currencies do not filter the stake: `calculateStakedAmount` is not given
  the assets (`account.go:443-473`), so the staked and the total balance of an account that
  staked another asset include it.  `ExactBalance` says what was asked for, and
  `BalanceOfItsBlock` leaves these answers out by name (`StakeMixed`); in run `ledger`
  they are 'staked' and total balances in one asset while a block stakes the other.
- Pending rewards are reported with a height read after them, so they may be those of
  an earlier block (`RewardsNotFromTheFuture` says that it is never a later one).
- The total of a balance adds the stake to the other classes without the check for
  overflow that all other sums have (`account.go:285`); `BalanceOfItsBlock` therefore
  speaks of balances that fit.
- A failing RPC or an indexer that lags is reported as invalid input, which tells a
  client not to retry.
- A block from before Banff has one timestamp by height and another by hash, because
  only the indexer has its ProposerVM header (`indexer/parser.go:195`).
- Signers are listed in the order of the operations but inputs are sorted, so an intent
  whose accounts are not in the order of its coins is signed and then refused by the
  node; `AcceptedUnlessRaced` is stated for intents that are (`InPlace`), and nothing is
  claimed of the others.
- Inputs that need more than one signature can be built but never combined.
- Exports of several accounts from the C-chain parse with the same signer for every
  input.
- A balance of atomic UTXOs counts a UTXO that two pages repeat twice
  (`cchainatomictx/account.go:46`), although coins are made unique; `CoinsOfTheirBlock`
  says that it counts no other one twice.
- The fee of an export is wrong when several of its inputs are FLR or it goes to the
  X-chain (`mapper/transaction.go:261-270`); `CrossChainRight` speaks of the others
  (`LookedAtOnce`).
- The values that traces report for CALLCODE and DELEGATECALL, and contracts that destroy
  themselves under Cancun's rules (`Cancun`), are replayed as if they had moved;
  `ReplayMatchesEVM` speaks of the other traces.
- `/block/transaction` does not check that the transaction is one of the block it is asked
  for with, and prices its gas with that block's base fee (`service_block.go:162`, `:221`): for
  another block's transaction the FEE operation is wrong.  `OperationsMatchChain` asks for the
  exact FLR of transactions of the named block (`OfBlock`); of the others it does not say how
  much the sender pays and how much is burned, only that the one is the other (`FlareRight`).
  Run `cchain_server` asks for such pairs.
- A contract that cannot be read is cached with defaults (`client/contract.go:45-64`): a failure
  in one request names the contract, or hides its operations, in later ones.
- A contract without a symbol that makes logs of both standards is cached as ERC20_UNKNOWN or
  ERC721_UNKNOWN, whichever was asked for first, and a log of the other standard is then not
  taken for one of an unknown contract (`mapper/transaction.go:110-133`): which of its operations
  are shown depends on what was cached.  The proof of `OperationsMatchChain` needs that case
  excepted (`Ambiguous`).
- A contract whose own symbol is ERC20_UNKNOWN is left out as if it had none; `Shown` says so.
- A contract call of `transfer(address,uint256)` parses as a token transfer, which the
  comment at `service_construction.go:972-973` does not expect; amounts from 2^248 are
  parsed without their top byte (`:1546-1575`); a client that compares refuses both.
- The suggested fee is a product of int64 values and may overflow (`:217`), and a nonce
  or gas limit above 64 bits loses its upper bits (`:135`); `IntentConfirmed` speaks of
  those that fit.

## 7. What is not modelled

- The RPC clients: each RPC is an action of the models that use it, and the rest is a
  change of format.  Generated code (mocks, the ABI binding), format helpers of the
  mappers, start-up, the runner and deployment keep no state that a request sees.
- `/construction/derive`, a function of a public key, and the routing of endpoints outside
  construction, which the models of those endpoints take as given.
- Decoding of bytes, addresses and amounts is left to the libraries that do it; log
  messages and error texts are left out.  `PChainAccount` and `PChainBlock` keep the error codes,
  which tell a wrong request from a server that failed; in the other models an error is one
  outcome.  ABI encoding of call data is abstract.
- In the P-chain modules: the metadata of validators, currencies of operations, the
  overflow check of weights, fee estimates and key derivation.
- In `CChainServer`, UTXOs that cannot be parsed.  In `CChainConstruction`, accounts
  without enough funds, and arguments of a contract call that end the process
  (`log.Fatal` in `contract_call_data.go`).
- In `PChainBlock`, errors of decoding: a block, a transaction or a UTXO the codec does not
  know, and a block with a transaction of unknown type (`GetTxDependenciesIDs`), which fail
  every request for them.
