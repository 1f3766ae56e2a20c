# Verification of the Flash SDK v2

TLA+ models of the TypeScript client for Flash perpetuals, with TLC runs and
TLAPS proofs. The code talks to two chains: the Solana base chain, and the
MagicBlock ephemeral rollup (ER) to which accounts are delegated. The on-chain
program is not part of the repository; its handlers are modelled from how the
client calls them and what the client expects of them, and are marked external
in `PROJECT.json`.

Paths below are relative to the repository (`src/` is the package's source,
`examples/` and `scripts/` its runnable scripts).

## 1. Inventory

| Part | State it keeps | Operations | What is hard about it | What makes it correct |
|---|---|---|---|---|
| Receipt lifecycle (on-chain, as used by `src/instructions/lp`, `stake`, `rebates`) | receipt PDA on base, its delegated copy on the ER, queued actions, escrowed stake | stage (`*_with_action`), `_er`, undelegate, `_settle` | two chains, queued steps that fail silently and are not retried, PDA addresses are reused | a stake leaves exactly once, where its own verdict says |
| LP and migrate scripts (`examples/lp`, `scripts/lp`) | what a process has read so far, its transaction in flight | flow scripts, resume (`amount 0`), `closeReceipt`, `processPending*` | every read is stale when used; kills; timeouts; several scripts and a front end on one receipt | what a script reports is true of the stake it is about; rerunning heals |
| Waiting helpers (`src/accounts/receipts.ts`, `pollClosedOnBase`) | `sawProcessed`, `lastOut`, `seen` | `awaitReceiptOutcome`, `awaitClosed` | failed reads look like closed accounts; the address may be reused between polls | a reported outcome is the one that was reached |
| ER wire format (`src/utils/erWire.ts`) | the compiled message, permuted in place | `rebaseProgramIndices`, serialisation, signing | index arithmetic over two arrays; limits at 38, 128, 16384 | same programs, accounts and privileges after the rewrite |
| Transaction senders (`src/utils/rpc.ts`, `erRpc.ts`) | signature, blockhash, deadline | send, confirm, poll | expiry against landing, errors swallowed by polls, commitment levels | an error that says "did not land" or "expired" means it |
| Setup and sessions (`FlashPerpetualsClient.ts` 415-660) | session signer and token; base accounts | `initializeBasket`, `initializeUserDepositLedger`, `initTradeVault`, `createSession`, `revokeSession`, `depositDirect` | check-then-create; transactions confirmed at `processed`, checks at `confirmed` | creating twice is a no-op, a deposit is never made into nothing |
| Delegation (`delegate*`, `undelegate*`, `utils/delegation.ts`) | which chain may write an account | delegate, commit, undelegate for basket, pool, custody, market, vaults, stakes | two chains disagree for a while | one writer at a time |
| Withdrawals, custody settlement (`instructions/trade/withdrawal*`, `admin/custodySettlement*`) | escrow PDA without a `processed` field | request, execute on ER, execute on base | closure is the only signal | paid once; closure means executed |
| LP flow builders (`instructions/lp`, `remainingAccounts.ts`) | none | account lists; the decision to queue `_er` | 64-account cap, order of remaining accounts, defaults for owner and oracle | all three steps of a flow derive the same receipt |
| FAF token staking (`instructions/stake`, `examples/token`) | token stake, unstake requests; what a script has seen | deposit, unstake, cancel, withdraw, collect; `RESUME=1` | follow-ups run by themselves or are driven by hand, or both; reads that lag behind the confirmation | what is reported as settled is closed; resuming decides every stake |
| Trading and orders (`instructions/trade`, client 665-1660, `BasketAccount.ts`, the lifecycle of `master.ts`) | basket: positions, orders, debits; the runner's step and results | open, close, size, collateral, limit and trigger orders | market resolution and the long-collateral override; transactions that land after they were given up on | the instruction names the market the caller meant; PASS means done; rerunning leaves no position behind |
| Prices and math (`math.ts`, `OraclePrice.ts`, `utils.ts`) | none | decimal multiply/divide/scale, price after slippage | rounding direction, exponents, underflow | rounding never favours the wrong side |
| Pool configuration (`PoolConfig.ts`, `PoolConfig.json`) | tables of custodies and markets | look-ups by symbol | several names for one custody, look-ups that differ in upper and lower case | every look-up of a symbol means the same market |
| Views, account wrappers, IDL and coder | decoded copies, static tables | decode, look up | - | - |
| Rebates, administration | none in the client | one builder per instruction | receipt flows for rebates, revenue and fees | as LP flow builders |
| Runners (`master.ts`, `masterToken.ts`, `master_assert.ts`) | a summary | call the above in sequence | - | - |

How they interact: the client's builders produce instructions; the senders put
them on one of the chains; the validator clones delegated accounts, runs queued
actions and copies accounts back; scripts and helpers learn what happened only
by polling either chain. There is no shared memory and no callback: the
interleavings come from several processes, front ends and the validator acting
on the same addresses, and from transactions that outlive their sender.

The hazards, each at its line, are listed in `PROJECT.json`.

## 2. Modules

| Module | Models | EXTENDS |
|---|---|---|
| `ReceiptPromise` | what a flow promises: a stake is held, decided once, released once | - |
| `ReceiptChain` | a receipt on base and ER, the validator, anybody's transactions | - (refines `ReceiptPromise`) |
| `LpScripts` | script processes, front end, late transactions over the chains | `ReceiptChain` |
| `OutcomeWatch` | the SDK's waiting helpers over the chains | `ReceiptChain` |
| `RebaseIndices` | `rebaseProgramIndices`, one action per loop iteration | - |
| `BaseTx` | setup calls, deposits and `sendAndConfirmTransaction` on a chain with commitment levels | - |
| `AutoErScripts` | the flows whose `_er` is queued by the program (FAF, withdrawal) over the chains, with reads at "confirmed" | `ReceiptChain` |
| `ErSend` | `sendErTransactionLegacy` and `pollErTransaction` against the clock | - |
| `Markets` | which market a symbol means, for the client and for the runners | - |
| `TradeScripts` | the runner's trade lifecycle, limit orders, liquidation, late transactions | `ErSend`, `Markets` |
| `DecimalMath` | fixed-point arithmetic and prices | - |
| `WireFormat` | compact lengths and the message as bytes | - |
| `Algorithms` | questions to the pure functions, and their answers | `Markets`, `DecimalMath`, `WireFormat` |
| `Crypto1` | the tables of the pool `Crypto.1` | - |
| `FunctionProofs` | theorems about the functions: markets, numbers, bytes | `Markets`, `DecimalMath`, `WireFormat`, `TLAPS` |
| `AlgorithmsProofs` | theorems about rebasing and about every question of `Algorithms` | `RebaseIndices`, `Algorithms`, `FunctionProofs` |
| `TradingProofs` | theorems about `ErSend` and `TradeScripts` | `TradeScripts`, `FunctionProofs` |
| other `*Proofs` | theorems about the module of that name | it, `TLAPS` |
| `MC*` | instances for TLC | it |

### ReceiptChain

`base[r]` is the account on the base chain: absent, a *stub* owned by the
delegation program (`receiptState` tests that owner), or *open*, owned by the
program again. `er[r]` is the delegated copy. The pair `processed` and output
field is one value, `decision`: `pending`, `success` (output above zero),
`failure` (output zero). `queuedEr` and `queuedSettle` hold the actions the
base transaction and the commit queued, each tagged with the generation that
queued it: a PDA address is reused, and an action left over from one staging
may fire during the next. Every action may also fail and disappear, which is
what `_finalize.ts` 9-11 reports.

Actions: `SendStage` (`*_with_action`), `Clone`, `QueuedErRuns`/`Fails`,
`SendEr`, `Undelegate` (commit and undelegate, queueing settle),
`QueuedSettleRuns`/`Fails`, `SendSettle`. The guards are those the client
relies on: creating an existing PDA fails (System `0x0` in
`TROUBLESHOOTING.md`), `_er` on a processed receipt fails (6076), settle needs
the processed receipt back on base.

`gen` counts stagings and `verdicts` records what `_er` decided in each; both are
history, read by properties only, except that `gen` bounds the stagings
(`MaxGen`).

### LpScripts

A process `drv[d]` runs one of the scripts on one receipt; its `pc` is the next
RPC read or the transaction it waits for. A transaction is `sent`, then is accepted
(`LandOk`) or rejected (`LandFails`), then its sender learns of it (`TxOk`,
`TxFailed`). `Execute` says what an accepted transaction does and when it can be
accepted at all; whatever the state, the program may reject one, for its amounts
("trips a `> 0` constraint and leaves the receipt open", `TROUBLESHOOTING.md` 52-54),
its accounts or the price. If the wait ends first (`TxExpires`) or the process is
killed (`Crash`) the transaction joins `late` and may land at any time, in any
later generation, or never. One element of `late` stands for any number of
copies.

| Action | Code |
|---|---|
| `Start` | `main()`: stage, or resume when the amount is 0 |
| `ReadBase`, `ReadEr`, `Fetch` | the three reads of `receiptState`, and the caller's routing on the result |
| `PollSees`, `PollExpires` | `pollVisibleOnEr`; on timeout flow scripts throw and `processOne` goes on |
| `Wait` | phase 1 of `finalizeReceipt`: null means closed, owned by the program means ours, else read again until the wait ends |
| `Decide`, `Verify` | phases 2 and 3 |
| `FrontEnd` | another client of the same owner stages with `_er` queued |

`BaseReads` and `ErReads` say what a read may show. With `RpcMiss` a read may
fail, and the code's `.catch(() => null)` makes it look like a missing
account. The ER may serve a read-only clone of an account that is not delegated.
`seen` is what the first of `receiptState`'s reads showed; it is dropped when the
caller has routed on it. `Dust` names stagings whose `_er` and settle the program
may reject for ever; it is only used in what fairness and `SelfHealing` leave out.
`Verify` may find an account that is already gone: the settle is confirmed at
`processed`, the check reads `confirmed`. Other reads are taken as current;
commitment levels are the subject of `BaseTx`.

`target` (history) is the generation a process is about: the one it staged, the
one that was there when it was started to resume, or the one it read.

### OutcomeWatch

A call `watch[w]` of `awaitReceiptOutcome` ("outcome") or of `awaitClosed` /
`pollClosedOnBase` ("closed"). Each poll is one step; between polls the chains
take any steps. `saw` is `sawProcessed` or `seen`, `out` is `lastOut`. A failed read
(`PollFails`) is treated as a missing account, as `.catch(() => null)` does;
`failed` (history) remembers that such a read ended the call.

### RebaseIndices

Keys are named by their position in the compiled message. The Map `perm` is a
function in which an index without an entry maps to itself, which is what
`perm.has(i) ? perm.get(i) : i` computes. `FreeSlots` is what the inner `while`
can stop at. `Place` is one iteration of the outer loop, `Swap` one iteration
of the swapping loop (in any order: the pairs are disjoint), `Rewrite` the last
loop. Header and signature counts do not occur because the function does not
touch them; `BandsKept` says why that is right.

### BaseTx

`height[l]` is the last block seen at commitment `l`; `height["processed"]` is
the block under construction. `tx[c]` is the transaction of call `c`: the block
it is in, and the last block it may land in. `Fork` drops blocks that are not
confirmed; what was in them may land again. Confirmed blocks are never dropped.

| Action | Code |
|---|---|
| `Create`, `Check`, `CheckFails` | `initializeBasket`, `initializeUserDepositLedger`, `initTradeVault`, `createSession` and their `getSetupAccountInfo`, always at "confirmed" |
| `Deposit` | `depositDirect`, which looks nothing up |
| `Send`, `SendThrows` | `sendBaseTransaction`, with a blockhash fetched at "confirmed" |
| `FetchBlockhash`, `FetchThrows` | `confirmBaseTransaction` fetches a second blockhash, at the client's `txConfirmationCommitment` |
| `Confirm`, `Expire` | `confirmTransaction` ends: the transaction seen, or the second blockhash expired |

A call may be made by any process of the owner, and stands for building the
instructions and sending them. A wallet's delay between the two only makes a
check staler, which interleaving of the other calls covers. `told` (history) is
what earlier calls had reported when a call began; a session token that exists
makes `createSession` throw, which sends nothing either and counts as reported.

### AutoErScripts

`view[r]` is what a read of the base chain at "confirmed" shows; `Confirm` moves
it on, one close or staging at a time. `WaitsFor` is the client's
`txConfirmationCommitment`: at "confirmed" a sender returns once `view` shows
its transaction, at "processed" (the default) it may return before.

| Action | Code |
|---|---|
| `Start` | `main()` of the token scripts (stage, or with `RESUME=1` look for the receipt on the ER) and of `requestWithdrawal.ts` (stage, paid by a throwaway key) |
| `PollErSees`, `PollErExpires` | `pollVisibleOnEr` before `_er` is sent by hand |
| `TxOk`, `TxFailed`, `TxExpires` | `sendBase`, `sendEr` |
| `LandStage`, `LandEr`, `LandReclaim`, `LandFails` | the program accepts or, at any time, rejects the transaction (external) |
| `Poll`, `PollExpires` | `pollReceiptSettled`: the first read without the account ends it |
| `Await`, `AwaitExpires` | `awaitClosed`: seen, then gone |
| `Balance`, `Purse` | after a withdrawal: the owner's balance, and what the payer has left |

`answer` is what `awaitClosed` returned, which the script ignores; `purse` is
whether the throwaway payer still holds lamports. What `getBalance` shows of it
(`PayerHas`) is a "confirmed" read: nothing before the view has reached the
withdrawal's own block. `Dust` is as in `LpScripts`.

### ErSend

`now` is a clock; reads take up to `Latency`, a sleep takes `Interval`, all else
takes no time. A read that began before the transaction landed may miss it; one
that began later does not, unless it fails (`ReadFails`), which `.catch(() => null)`
makes the same as a miss; `failed` (history) tells the two apart.

### Markets, Crypto1

A market's address is derived from its key (target, collateral, side), so keys
stand for addresses. `OpenMarket` is the client's resolution when it opens, with
the override of the collateral of SOL longs; `FindMarket` its resolution
elsewhere. `PickMarket` and `MarketForSide` are what the runners do beforehand:
`Preferred`, `With` and `First` are the `find(...) ?? [0]` of `pickMarket`.
Symbols that differ in upper and lower case, and WSOL for SOL, are elements of
`Symbols` that the two look-ups treat differently, as in the code.

### TradeScripts

`life` is one `runTradeLifecycle`: its step, what it was asked for, the market it
watches, and the steps it reported as PASS. `op` is the transaction of the
current step, which goes through `ErSend`; `pos` and `resting` are the owner's
positions and resting limit orders; `late` what was sent and is not waited for.

| Action | Code |
|---|---|
| `Begin` | `marketBySide`, then the first step |
| `Build`, `Skip` | the body of a step up to its transaction, or its SKIP |
| `Dispatch`, `Transport` | `sendEr`: the send and its poll (`ErSend`) |
| `Answered` | `step()` records PASS or FAIL and goes on |
| `Abort` | the process is killed, or `STOP_ON_FAIL=1` |
| `PlaceLimit`, `CancelLimit`, `SendOnly` | an application of the same owner; `sendErTransaction` does not wait |
| `LandOk`, `LandFails`, `LateLands`, `LateDies`, `ExecuteLimit`, `Liquidate` | the ER (external) |

`landed` in `life` (history) names the steps whose transaction took effect.

### DecimalMath, WireFormat, Algorithms

Functions without state. In `Algorithms` a state `q` is one question to one of
them, and each property compares the answer with a definition of its own: an
exact fraction and a rounding direction, a reader of the bytes, the other
party's choice of market. `MCAlgorithms` asks them all next to the messages
that `RebaseIndices` rewrites. The numbers of the code are BN, which do not
overflow. `Pow10` and the bytes of a length (`Digits`, and `Value`, their reader) are
recursive functions, so that the proofs can use them. `Message` is every message
over `Pubkeys` whose parts have lengths; `Pubkeys` has one key in the runs, as the keys
are all written the same way.

## 3. Runs

| Run | Shows | Bounds |
|---|---|---|
| `watch` | the chains alone and a helper watching them: conservation, no stale copies, refinement of the promise (verdict final, settled as decided); the helper's report is what happened | 1 receipt, 3 stagings, 1 call |
| `reuse` | what scripts report is true although the address is reused | 1 process, all 4 scripts, 2 stagings |
| `race` | two processes, their late transactions, queued actions and a front end on one staging | 2 processes, 1 staging, symmetric processes |
| `heal` | under fairness every stake that is not dust leaves | 1 process (resume) beside the front end, 2 stagings, the first of them dust |
| `auto_er` | token flows, `RESUME=1` and withdrawals: what is reported closed is closed, nothing stays with a throwaway payer, what RESUME finds on the ER can be decided, every stake that is not dust is decided | 1 process, 3 stagings, the first of them dust, "confirmed" |
| `base_tx` | answers final, expired means dead, setup repeatable, deposits find accounts, waits end | 2 calls at "confirmed", heights to 4, blockhash valid 2 blocks, forks |
| `trade` | what a lifecycle reports as done was done, in the market it watches; how late a missed transaction is; reruns close every leftover position | 1 runner, SOL long with a swap, 1 late transaction, limit orders in the same market, timeout 3, interval 1, reads up to 1, clock to 6 per transaction |
| `algorithms` | rewritten messages, bytes, fixed-point results and choices of market are right for every input | messages up to 6 keys and 3 instructions below a limit of 3; numbers to 47, exponents -2 to 2; lengths to 70 in bytes of two bits; all symbols of `Crypto.1` |
| `watch_terminal`, `rerun`, `token_settled`, `quotient` | counterexamples to what comments in the code say (section 5) | smallest that shows it |

Why these bounds. Receipts do not interact, nor do calls of a helper, so one of
each is enough. Two stagings let everything left over from the first (late
transactions, queued actions, remembered outputs) meet the second; a third adds
leftovers of two ages. A dust staging that stays open leaves the address to nobody; one that
closes after all leaves its leftovers to a staging that must be closed. In `auto_er` another client of the owner, late
transactions and queued actions run against the one process. Two calls of `BaseTx` are one that reports and one
that was told, or two that race; heights to 4 let a blockhash of two blocks expire
with a fork before and after. In `trade` a timeout of three intervals leaves
misses early enough to be wrong if the poll gave up too soon, and the clock
runs past the last moment a poll may end; one late transaction is enough to meet
every step of a later lifecycle, and SOL longs are the market with an override. Two processes show every race between two
observers; the theorems remove these bounds. A rebase limit of 3 leaves up to two
free slots for up to three high programs, so both success and the thrown error occur.

Constants of the code are scaled down where only their relation matters: a
compact length has 2 instead of 7 bits to a byte (`Radix` 4), so that lengths to
70 cross three boundaries; USD have 1 decimal instead of 6, basis points 2
instead of 4, rates 1 instead of 9, so that every remainder occurs within small
coefficients.

`CHECK_DEADLOCK FALSE` is said in the runs of `BaseTx`, whose calls end, and of
`MCAlgorithms`, whose functions return.

### Properties

*Safety.* `Conservation`: a stake is held by the one open receipt, paid or
refunded, never two of these. `CopiesAgree`: what is on either chain is the
verdict of the current staging. `ClosedClaim`: a script that reports a receipt
closed is right about the staking it was about. `OutcomeIsVerdict`: the outcome
reported with a settle is the verdict of the receipt that was read, although
another settle may have won. `TerminalMeansClosed`,
`ReportHappened`: the same for the helpers. `SameMeaning`, `ProgramsLow`,
`BandsKept`, `ThrowsOnlyIfFull`: the rewritten message. `ExpiredIsDead`: a caller may send
again after "expired". `AnswerStays`: no fork undoes what a call reported.
`CreateIsNoop`, `DepositFindsAccounts`: what a call reported is there for the
next one. `TokenSettled`, `ClosedAnswer`: what a token script or `awaitClosed`
says is closed is, although reads lag and the address is reused. `PayerEmptied`: a
withdrawal that ran to its end left nothing with its payer. `DrivenStepIsDue`,
`ErIsDue`: an `_er` or settle that a script drives can be taken, or was taken
meanwhile, so that a rejection is never about the state of a receipt the script read
wrongly; it may still be about amounts, and then the stake stays where it is.
`NeedsErMeansReused`: if `finalizeReceipt` reports needs-er ("shouldn't happen"), what
it read is a later staging than the one it waited for, which is closed. `PassMeansDone`: a step
reported as PASS took effect. `OneMarket`: every transaction of a lifecycle
addresses the market the runner watches. `MissedOnlyAtTheEnd`, `EndsInTime`: what
"did not land" is worth, and when it is said.

*Functions.* `ArithmeticIsExact`: products, quotients and comparisons are the exact
values, rounded as named; `cmp` throws just when the exponents differ and neither is
negative, and `ScaleTo` and `Cmp` are then the empty set. `RoundTripsGainNothing`: USD to tokens and
back, or the other way, gains nothing. `SlippageIsKept`: a limit price is neither
tighter than asked for, nor looser by a unit, nor negative. `BytesAreRead`: a
message can be read one way only. `MarketsAgree`: runners and client mean the same
market.

*Steps.* `PromiseKept`: the chains implement the promise, so a verdict is final and a
stake leaves once, to where its own verdict says.

*Liveness.* `SelfHealing`: an escrowed stake that is not dust eventually leaves.
`ResumeDecides`: a stake whose queued `_er` was lost is decided all the same, unless
it is dust. `WaitsEnd`: every wait
for a base transaction ends. `Rerunnable`: a position in a market the runner
trades is closed in the end, whatever earlier runs lost sight of.

### Fairness

`FairSpec` assumes that the validator keeps cloning and undelegating (weak
fairness: nothing else disables these), and that the user keeps rerunning the
script with amount 0, as `README.md` of the examples tells him to, and is not
killed, timed out or rejected each and every time (strong fairness of the script's
own steps for each receipt, since a queued action or a timeout may disable them again
and again). The last is an assumption about the program, that a rejection is about a
price or an account that will be right some day, and it is not made of `Dust`: of an
amount too small, `TROUBLESHOOTING.md` 52-54 says that it "leaves the receipt open",
and no rerun helps.
Nothing is assumed of queued actions, which may always fail, of the front end,
or of transactions nobody waits for.

`FairSpec` of `BaseTx` assumes that the cluster goes on making (`NewBlock`),
confirming (`Vote`, strongly: a fork may disable it for a while) and finalizing
blocks, and that `confirmTransaction` notices the end of its wait (weak
fairness of `Confirm \/ Expire`: it watches the signature and the block height
at once). The code leaves that to web3.js; it is assumed reliable. Transactions need not
land.

`FairSpec` of `AutoErScripts` is along the same lines: blocks are confirmed and
delegated accounts cloned, waits end (each has a timeout in the code), and the user
reruns with `RESUME=1`, as `_token.ts` tells him to, and is not killed, timed out or
rejected every single time (strong fairness of `Start` for "resume", `PollErSees` and,
except for `Dust`, `LandEr`). Nothing is assumed of the queued actions.

`TradeFairSpec` assumes that a running lifecycle and its poll go on (weak fairness;
every wait in them ends by the clock), that a user who still has the position runs
it again, and that the first step, "make the market flat", now and then gets
through: the basket can be read, the transaction is sent and the ER accepts it
(strong fairness of `Begin` and of `Build`, `Send` and `LandOk` in that step).
Nothing is assumed of later steps, limit orders, liquidation or late transactions.

## 4. Proofs

All for any number of receipts, stagings, processes, calls, keys and
instructions, any pool and any numbers.

- `ReceiptChainProofs`. The inductive invariant is typing, `Conservation` and
  `CopiesAgree`, with what makes these inductive: which generation a
  copy belongs to, that a generation not staged yet has no verdict, and that one that
  is over has one (`ClosedWasDecided`; `NothingClosesUndecided`). From it
  follow `SettledAsDecided`, `VerdictIsFinal` and, with the refinement mapping
  `held <- escrow, verdict <- (ER copy if there is one, else base)`, that every
  step of the chains is a step of `ReceiptPromise` or stutters (`ChainKeepsPromise`).
  `OnErOrDecided`, once true of a staging, stays true: a receipt seen on the ER is
  there until decided.
- `LpScriptsProofs`. `ScriptsFollowChain` shows that scripts only take chain
  steps, so the chain's theorems carry over. The invariant then ties each process's
  remembered reads to generations: a closed generation stays closed
  (`ChainMovesOn`), so a claim stays true once made. `ClosedClaimsAreTrue` and
  `ReportedOutcomeIsVerdict` assume `~RpcMiss`: a failed read looks like a closed
  receipt. `DrivenStepsAreDue` and `NeedsErIsAboutReuse` do not: they rest on accounts
  that were seen, and on `LandFails` being possible at any time.
  The refinement carries over too (`ScriptsKeepPromise`), as it does to the flows of
  `AutoErScripts` (`AutoErKeepsPromise`) and to watched chains
  (`WatchedChainsKeepPromise`).
- `OutcomeWatchProofs`. The remembered output is the verdict of some generation
  between the call's beginning and now. Reads may fail throughout;
  `TerminalMeansClosed` alone excepts calls whose last read did.
- `AlgorithmsProofs`, first part: rebasing. The permutation is an involution that
  pairs high programs with free slots of the readonly-non-signer band (`Paired`), every
  program the loop is done with has one (`Placed`), every slot the cursor has
  passed is taken (`Searched`), and exactly the keys of the pairs done so far are
  swapped (`KeysFollow`).
- `BaseTxProofs`. `BaseInv` places each transaction between the confirmed height
  and its last block. `ExpiryInv` adds that the wait's own blockhash is no older
  than the transaction's, as it is fetched later at a level that has seen at
  least as much; that is the assumption `Trusted` ("confirmed", or "processed"
  without forks). At "finalized" the wait's blockhash may be older and
  "expired" proves nothing. `AnswerInv` adds that what was reported is in a
  confirmed block, which no step undoes (`ConfirmedStays`); it assumes `Firm`,
  a commitment above "processed".
- `AutoErScriptsProofs`. Scripts take only steps of the chains
  (`AutoErFollowsChain`). `ViewIsPast` says that what "confirmed" shows is a state
  the chain has been in; `Watches`, that at "confirmed" a script that polls does so
  when the view has reached its own staging, so that no later read predates it;
  `FoundOnEr`, that a receipt seen on the ER is of the generation it is taken for.
  `TokenSettled` and `ClosedAnswer` then follow for `WaitsFor = "confirmed"` and
  no failing reads; run `token_settled` shows that they fail at "processed".
  `PayersAreEmptied` has the same hypotheses, as the payer's balance is a "confirmed"
  read; `ErsAreDue` has none.
- `TradingProofs`. The invariant of `ErSend` bounds the time since the last read
  began, in each state of the loop. `TradeInv` extends it by what ties the three
  levels together: a poll runs only for a transaction and that only for a step
  (`Nested`), a step has one goal and one market (`Running`), and PASS rests on the
  poll's answer, which rests on the transaction (`Evidence`).
- `FunctionProofs`. The library's induction theorems take an operator as a
  parameter, which the provers cannot instantiate. They follow here, with sets in the
  place of operators, from the existence of a minimal element in a well-founded order
  (`WFMin`): `CourseOfValues`, `Induct`, and `Recursion`, by which a recursive function
  has the value its definition says. On these rest:
  - *Numbers.* `Pow10` is positive and turns sums into products, so that `MulIsExact`
    and `DivIsExact` reduce to the floor of a fraction under scaling.
  - *Bytes.* `LengthRead`: the reader of a compact length stops at its last byte and
    has the number. `SerializeIsInjective`: of two messages with the same
    bytes, one field after the other is peeled off; each begins with its own length
    (`FieldEnds`, `InstructionEnds`), and the instructions by induction on how
    many are left (`InstructionsEnd`).
  - *Markets.* `Agreed` is the core of `RunnerPicks` and `SidePicks`: of the markets of
    one side, the one a runner chooses is the override market if there is an override
    (the list has it by `ListAssumption`), and otherwise names its own collateral.
    `DefaultPicks` compares a pick without a client, under the default collateral
    (`DefaultAssumption`).
- `AlgorithmsProofs`, second part: the properties of run `algorithms`, for any inputs.
  `ToTokens` and `ToUsd` bound a conversion from above by the exact value, so a round
  trip, which composes two such bounds, gains nothing (`NothingGained`).
  `SlippageHolds`, `BytesMeanOneMessage` and `MarketsAlwaysAgree` put the lemmas of
  `FunctionProofs` together. `ArithmeticHolds` has a hypothesis: no dividend has a
  positive exponent. Without it the code is wrong (`quotient`, section 5).

Assumptions: `MaxGen`, `MaxIndex`, `MaxKeys`, `Window`, `MaxHeight`, `MaxLate` and the
times of `ErSend` are natural numbers, `Scripts` names scripts that exist, `Dust` stagings, `RpcMiss`
is a Boolean, `WaitsFor` a commitment. `PoolAssumption`: every symbol has a custody,
which has a symbol of its own, and the tables hold markets of these custodies.
`ListAssumption`: a pool with longs of an overridden symbol lists the market that
locks the override. `DefaultAssumption`: what is listed can also be traded against the
default collateral, and a market that is, is the only one of its target and side.
`Crypto.1` satisfies both. `ScaleAssumption`: the numbers of decimals are
natural, and basis points have at least one. `RadixAssumption`: a byte of a length
has at least one bit of it. `InputAssumption`: coefficients and the like are natural numbers,
exponents integers, the messages messages and finitely many (any finite set of them).

Only model-checked: the liveness properties (`SelfHealing`, `ResumeDecides`,
`WaitsEnd`, `Rerunnable`), which the prover does not reach. Every invariant, action
property and refinement of the passing runs is also proved, some under the hypotheses
named above.

## 5. Where code and comments disagree

- `watch_terminal`: `awaitReceiptOutcome` catches a failed read as null and
  reports an open receipt as settled. It guards one of its two null branches
  against this and not the other. `awaitClosed` does the same of an account it
  has seen.
- `rerun`: at the default commitment "processed", a setup call builds a second
  create for an account just reported as created, since the check reads
  "confirmed"; the comments call it a no-op. (For the same reason an answered
  transaction need not be visible at "confirmed" yet, which
  `examples/lp/_finalize.ts` takes for granted.)
- `token_settled`: `driveAutoErFlow` confirms at "processed" and then reads at
  "confirmed". The first read may be older than the receipt, and the script reports
  it settled and closed while it is open and undecided; `_token.ts` argues that the
  account "definitely existed".
- `quotient`: `checkedDecimalDiv` scales its dividend by a positive exponent
  without taking that back, and is wrong by that power of ten; `math.ts` says it
  mirrors the program's helpers. The SDK itself passes negative exponents.

Without a run of their own: `finalizeReceipt` and `receiptState` take a failed
`getAccountInfo` for a closed receipt; with `COLLATERAL_SYMBOL=SOL`
`closePosition.ts` addresses another market than `openPosition.ts` opened, and a
limit order may open a SOL long that locks SOL (`placeLimitOrder` does not apply
the override); `requestWithdrawal.ts` ignores that `awaitClosed` timed out, and at "processed" its
read of the payer's balance may be older than what funded it, so that nothing is sent back;
`receiptState`'s "delegated" may be a receipt the ER
has decided already, and `pollErTransaction` does not look again when its
deadline has passed, so that "did not land within" may be said of a transaction
that did; `MissedOnlyAtTheEnd` bounds by how much.

## 6. Not modelled

- Contents of the on-chain program beyond what the client relies on: fees, margin,
  funding, how withdraw requests are numbered.
- Most of the repository's lines are data: the generated IDL and its types
  (`src/idl/`, some 65,000 lines) and `PoolConfig.json`, of which `Crypto1` is the one
  pool used. They have no behaviour, so the share of lines that are modelled is small
  and stays so.
- Builders that only list accounts and encode arguments: most of `instructions/`,
  administration, rebates and referral, delegation. Views, account wrappers, parsing
  and printing. Dry-run mode, logging and balance tables.
- Sizes, collateral and trigger orders of a position: the runner's lifecycle keeps
  that a position exists, not how large it is.
- Time is abstracted outside `ErSend`: a wait may end at any moment.

## 7. What could follow

1. `FlowBuilders`: the three builders of each receipt flow derive the same receipt
   whatever is left to a default; the decision to queue `_er` under the account cap.
2. `Delegation`: basket, pool, custody, market and stake accounts between the chains,
   with revoked and replaced sessions; each account has one writer. It needs the
   delegation program's rules, which the repository does not hold.
3. Sizes in `TradeScripts`, with `DecimalMath`'s prices and the limit a close states.
