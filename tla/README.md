# asset-swap: a verification project

asset-swap sells a Liquid asset against Lightning. A `swap_server` process owns a
Liquid wallet, talks to one LDK Lightning node and an electrum server, keeps its
swaps in SQLite, and serves a gRPC API to a buyer and a seller. For a swap it funds
an HTLC (a Liquid output that opens to the preimage of a payment hash, or to the
refunder after a block height), pays the Lightning invoice on the payer's request,
and claims the asset with the preimage on the claimer's request. A background thread
refunds the HTLCs whose height is reached.

This directory models that process at two levels. `SwapServer` composes the handlers
that change state, the refund worker, the store, the wallet's mutex and cached tip, the
Lightning node and the chain as the process sees them, crashes and restarts. Four more
modules go into what that one takes as given: the HTLC's script and transactions
(`HtlcSpend`), the RPC contract with its authorization, codes and arithmetic (`SwapApi`),
the schema migration (`StoreMigration`) and the search for a payment on the node's list
(`PaymentPages`). TLC checks small instances; TLAPS proves the safety properties of
`SwapServer` with its refinement, and those of the other four, for every value of their constants that section 5's
assumptions allow.

## 1. Inventory

### Components

| component | source | state | operations | model |
|---|---|---|---|---|
| service | `src/swap/service.rs` | `SwapServiceConfig` (constant while a process runs); the locals of each request in progress | `CreateQuote`, `GetQuote`, `CreateSwap`, `GetSwap`, `CreateLightningPayment`, `CreateAssetClaim` | interleavings: `SwapService`; checks, codes, messages: `SwapApi`; the payment's wait: `PaymentPages` |
| refund worker | `src/bin/swap_server.rs` (`spawn_refund_worker`, `refund_once`) | the listing and the position of a pass | lock, sync, list, refund each swap, record | `RefundWorker` |
| process | `src/bin/swap_server.rs` (`main`) | - | check the tokens, start, serve, crash | `SwapServer`, `SwapApi` |
| store | `src/swap/store.rs` | tables `quotes` and `swaps`, one mutex | 2 inserts, 4 updates, 3 reads; the schema migration; integer columns | `SwapStore`; `StoreMigration`; `SwapApi` |
| records | `src/swap/mod.rs` | - | - | `SwapTypes` |
| HTLC | `src/liquid/htlc.rs` | - | witness script and its parser, claim and refund transactions, signatures | `HtlcScript`, `HtlcSpend`; the rule they come to: `LiquidChain`, `SwapTypes` |
| wallet | `src/liquid/wallet.rs` | `wollet` (UTXOs, tip), behind an `Arc<Mutex<..>>` | sync, fund and look the outputs up, count confirmations, broadcast | `LiquidWallet`, `LiquidChain`, `HtlcSpend` |
| Lightning client | `src/lightning/ldk.rs`, `invoice.rs` | none of its own | create an invoice, pay, poll the node's list for the preimage | `LightningNode` (the node), `SwapService`, `PaymentPages` |
| CLI | `src/bin/swap_cli.rs` | none | one request per run, with a token; prints the answer | `SwapApi` |
| keys, proto, logging | `src/liquid/keys.rs`, `proto/`, `src/logging.rs` | none | - | not modelled, see section 8 |

### How they interact

- The handlers are async tasks. The wallet is one `Arc<Mutex<LiquidWallet>>`, which the
  handlers lock inside blocking tasks (and once in async code) and the worker for a
  whole pass. The store has a mutex of its own, taken inside the wallet's where both
  are held, and for one statement at a time except in `CreateSwap`, which inserts a
  swap and links its quote under it.
- Store and chain are written by both the handlers and the worker. A broadcast and the
  row that records it are two steps, and the process may die between them.
- The Lightning node keeps a payment after the handler that sent it is gone.
- A client that goes away ends its handler at an await; a blocking task that has
  started runs to its end.

### What is hard here

1. `CreateSwap` reads its quote, then awaits, funds and waits up to 300 s before it
   writes its last status. Another request, the worker, or a crash comes in between.
2. Effects that cannot be taken back (funding, sending a payment, spending an HTLC) are
   each followed by a store write that may never happen.
3. The worker and a claim compete for one HTLC from the refund height on.
4. A payment is invisible to the store until its preimage is known.
5. The wallet's tip is a cache, while histories are read from the server when asked for.
6. A retry meets whatever an earlier attempt has left.
7. A pass of the worker ends at its first error.
8. A script, a signature or a lock time that does not fit is found out by the network
   only, when the money is already in the HTLC.
9. Integers have widths: heights saturate at `u32`, totals are checked at `u64` and
   stored at `i64`, script numbers carry a sign.
10. The schema is brought up to date statement by statement, each of which commits.
11. The node answers a page of its payments; the payment waited for may not be on it.

`PROJECT.json` lists every hazard with its line and the properties that cover it.

### What makes each component correct

| component | properties |
|---|---|
| service: create | rows are backed by HTLCs on the network (`RowsAreBacked`), on the quoted terms (`QuotedTermsHonoured`), and can be spent with what the row says (`RowsAreSpendable`) |
| service: pay | only for confirmed funding (`PaidOnlyIfConfirmed`); a stored preimage is proof of a payment of this invoice (`PreimageIsProof`) |
| service: claim | only with a settled payment (`ClaimedOnlyIfPaid`) |
| service and worker | the store agrees with the chain (`StoreAgreesWithChain`); `Funded` never hides a payment or a claim, and claim and refund never replace one another (`StatusNeverLosesPayment`); Refunded is not undone by Funded (`RefundedStays`, violated); requests end (`RequestsEnd`) |
| worker | an expired unpaid HTLC is refunded (`ExpiredIsRefunded`) |
| HTLC | the network takes a transaction exactly when the swap's rule allows it (`VerdictIsChainRule`), no refund before the delta is over (`NoRefundBeforeDelta`), no HTLC in a row stays locked (`HtlcIsSpent`); the reader of scripts inverts the builder and takes nothing else (`ParseInvertsBuild`, `ParseIsExact`) |
| wallet: funding | the outputs recorded are those of the HTLC (`RowFindsHtlc`) |
| API and CLI | answers about one thing agree over retries and restarts (`AnswersAgree`), totals are exact and those of the quote (`PricesAreExact`), a quote handed out is found again (`QuotesAreServed`), only the party named by the direction has an effect (`EffectsOnlyByRole`) |
| store: migration | an opened store is complete (`OpenedIsComplete`), old rows keep their meaning (`OldRowsKeepMeaning`), nothing is lost (`NothingLost`), every start gets through in the end (`OpensInTheEnd`) |
| payment's wait | a timeout over a settled payment means a full page before it (`TimedOutUnseen`), what is stored was paid (`StoredIsPaid`), waits end (`WaitsEnd`) |
| everything | the server implements the abstract swap (`ImplementsHtlcSwap`) |

## 2. Modules

```
SwapTypes            identities, records, roles, scripts, spending transactions
  LiquidChain        tip, HTLCs, their spends and heights; the spending rule
    LiquidWallet     the wallet mutex and the cached tip
  LightningNode      outbound payments by invoice
  SwapStore          the two tables
SwapService          the handlers          (LiquidWallet, LightningNode, SwapStore)
RefundWorker         the refund pass       (LiquidWallet, SwapStore)
SwapServer           Service + RefundWorker + blocks + payments + buyers + crashes;
                     the properties and the fairness
HtlcSwap             the abstract swap     (SwapTypes)
SwapRefinement       INSTANCE HtlcSwap WITH the outcome of each HTLC
SwapInvariants       the inductive invariant
  MCSwapServer       values for TLC
  SwapEffects, SwapTypeProofs, SwapStepProofs, SwapSafetyProofs     the proofs

HtlcScript           the witness script, its pushes and numbers, its parser
  HtlcSpend          funding, claim and refund transactions, the script interpreter;
                     refers to LiquidChain by INSTANCE for the rule   (SwapTypes)
    MCHtlcSpend, HtlcSpendProofs
SwapApi              the six RPCs, authorization, codes, prices, the CLI
    MCSwapApi, SwapApiProofs
StoreMigration       open and migrate, several processes, crashes
    MCStoreMigration, StoreMigrationProofs
PaymentPages         CreateLightningPayment against the node's list
    MCPaymentPages, PaymentPagesProofs
```

The four modules at the end meet the server's model at these places. `VerdictIsChainRule`
is about `LiquidChain!ClaimPathValid` and `RefundPathValid`, by which `SwapServer` decides
which broadcasts are taken: the transactions `htlc.rs` builds, run by the network
instruction by instruction, are accepted exactly then. `PaymentPages` refines what
`PayPreimage` and `PayGiveUp` of `SwapService` choose between: a preimage is returned
only for a settled payment, and a settled payment may nevertheless time out. `SwapApi`
takes each handler as one step (`SwapService` has its steps) and keeps what that module
leaves out. `StoreMigration` is what happens before `SwapStore` has its tables.

### State and code

| variable | code |
|---|---|
| `call[c]` | the locals of one handler: `quote`, `swap_id`, `buyer_liquid_address`, the invoice, `refund_lock_height`, the claim fee; `pc` says before which lock, await or committed effect the handler is |
| `cfg` | the offer terms of `SwapServiceConfig`; `offer_id` is a hash of the whole offer, in the model the offer itself |
| `quotes`, `swaps` | the tables; a row is a record with the columns some guard reads |
| `owner`, `walletTip` | who holds the wallet mutex; `wollet.tip().height()` |
| `worker` | where `refund_once` is, and the rows of its listing it has not come to |
| `tip`, `htlc`, `height`, `spend`, `mined` | the chain: best height; per swap the script funded, the height of the funding (0 in the mempool), the spending transaction; whose spend is in a block |
| `payment` | the node's payment per invoice (its id is the payment hash) |

| `HtlcSpend`: `funding`, `row` | the funding transaction with the terms it was made on; `FundingResult` as the row keeps it |
| `HtlcSpend`: `tx`, `vm`, `verdict` | the transaction submitted; the interpreter's stack, position and input; what the node says |
| `SwapApi`: `cfg`, `quotes`, `swaps`, `stock` | tokens and offer of the running server, the rows, the wallet's inventory |
| `SwapApi`: `request`, `answer`, `printed` | the CLI's command, the status code and message, everything printed so far |
| `StoreMigration`: `columns`, `row`, `opener` | the schema in the file; a row of the earlier version; which statement a process is at and the `PRAGMA table_info` it read |
| `PaymentPages`: `list`, `listing` | the node's payments in the order they were made; which end of it `ListPayments` starts from |
| `PaymentPages`: `call`, `row` | the handler, its deadline and what its last poll met; the stored preimage |

An action of `SwapServer` is the code between two points at which others can run: a mutex taken or
released, an await, a committed effect. `CreateSwap` is the chain

```
CreateStart -> CreateValidate -> [CreateInvoice] -> CreateLock -> CreateFund
  -> CreateInsert -> CreateLink -> (CreatePoll -> CreateCheck)* -> CreateMarkFunded
```

with `CreateReplay` for a quote that already names a swap, `CreateFundError` for a
funding that reached the network but not the caller, and `CreateGiveUp` for every other
exit; the other handlers are built alike. `PROJECT.json` maps each definition to its
lines.

Abstractions: ids, addresses, invoices and scripts are members of small sets. The
invoice the node issues for a LN_TO_LIQUID swap is named by the swap id, which its
description carries in the code. A preimage is named by its invoice. A txid is the
spending transaction: path, signing key and fee. In `SwapServer` amounts and prices are
left out, the fee subsidy and the fees taken from it are kept. In `HtlcSpend` a script is
a sequence of instructions, a push is a sequence of bytes, and a signature is what it
signs (input, value, outputs, sequence numbers, lock time); digests are injective
constants. The commitments of blinded outputs are not there: the HTLC's outputs are
explicit in the code. In `SwapApi` a BOLT11 text is what reading it comes to (usable or
not, expired or not, its amount), and the Lightning node and the chain do what they are
asked; failures of theirs are in `SwapService`.

## 3. Runs

| run | instance | what it shows |
|---|---|---|
| `one_swap` | 1 swap, 2 requests, 3 blocks, 1 crash, two offers, `min_funding_confs` 0, 1 and 7 (7 is refused), two claim fees, own and foreign addresses | every interleaving around one HTLC, with other terms after a restart; refines `HtlcSwap` |
| `two_swaps` | 2 swaps of 1 quote, 2 requests, shared buyer invoice, 1 crash | concurrent creations, payments and claims: rows are backed and can be spent, claims are paid for |
| `liveness` | 2 swaps, 1 request and the worker, fairness, buyers' addresses in the server's wallet | every request ends; expired unpaid swaps are refunded |
| `htlc_spend` | 1 swap, 4 deltas up to the end of `u32`, 3 orders of the outputs, token or policy asset for sale, either key, either preimage, two fees; fairness | verdicts, lock times, parser; HTLCs are spent in the end |
| `api` | 1 quote, 1 swap, 3 persons, every command, 2 offers, 2 tokens and a blank one, restarts without bound | contract, prices, roles |
| `migration` | 2 processes, 2 deaths, 5 x 5 versions of the file (no table, several old ones, the current one); fairness | the schema is completed and rows survive |
| `pages` | 2 requests, 2 invoices, pages of 2, one foreign payment, either listing order; fairness | what a timeout means; waits end |

Why the bounds are enough. In `SwapServer`, two requests give every pair of handlers, and
a worker pass beside them; no code path involves three. Two swaps are what one buyer
invoice, one quote or one refund pass can confuse; two swaps of one quote arise from two
concurrent requests, from a crash and from a store error between the insert and the link.
The refund height is one block after creation (`refund_delta_blocks = 1`), so that with
two or three blocks (`MaxTip`) an HTLC can be unconfirmed, confirmed, expired before it is
confirmed and expired during every wait. One crash (`MaxRestarts`) falls between any two
steps. `RefundFee` is 1 and subsidies are 1, 2 and 3, so that a fee fits, just fits or
does not. The safety theorems hold for any values, `MaxTip` and `MaxRestarts` included.
The liveness run has one request slot: the contention of two for the mutex is in the
other two runs, which check deadlock.

In `htlc_spend` bytes have four values (`Byte = 4`), so `u32` ends at 255, a sign bit
is half a byte, and heights need one to five bytes; `OP_N` pushes end at 1
(`MaxPushNum`), and lock times are heights below 6 (`LockTimeThreshold`, 500000000 in the
code). With `MaxTip = 4` and deltas 0, 2, 4 and 255 a lock height is reached at once,
later, never within the run, read as a time, or saturated. In `api`, `u64` ends at 15 and
`i64` at 7, prices are 2 and 3 and amounts 0, 1, 3 and 6: totals are zero, fit, fit
`u64` only, and overflow; the default claim fee is 2 instead of 500. In `migration` two
processes are what `ensure_column`'s read and its `ALTER TABLE` can straddle, two deaths
cut off a start and its repetition. In `pages` two own payments and one other exceed the
page by one.

Deadlock is checked in all runs but two: `HtlcSpend` ends when the network has accepted
a spending transaction, and `StoreMigration` when every process has
the store open. Symmetry: request slots are interchangeable, and tokens that are not blank;
swap ids are not, since the worker takes them in order. The runs with liveness use none.

Five more runs are expected to be violated. Each states what a document or a comment
says of the server and the code does not keep; `PROJECT.json` "findings" quotes both.

| run | statement | counterexample |
|---|---|---|
| `idempotent` | one swap per quote | the link fails after the insert and the client retries, or two requests both find the quote unlinked (traces of one length); two HTLCs are funded |
| `unpaid_refund` | refunds only of unpaid swaps | a payment is under way, or settled after a timeout, and the row still says Funded |
| `refund_undone` | `Created -> Funded -> Claimed/Refunded`: a refunded swap does not become Funded again (`RefundedStays`) | the last poll finds the confirmations and lets go of the mutex, a pass of the worker refunds and records, then `CreateSwap` writes Funded over Refunded |
| `poisoned_pass` | expired unpaid swaps are refunded (foreign addresses allowed) | one swap whose refund the worker refuses to build ends every pass before it reaches the next |
| `pay_retry` | a repeated `CreateLightningPayment` returns what was done | a request times out, its payment goes through, the repeated request is refused as a duplicate |

None of them needs a crash. `unpaid_refund` is also why `HtlcSwap` does not
promise atomicity: the repository's README disclaims it too.

## 4. Fairness

`SwapServer!FairSpec` assumes: a handler that can go on does (tokio and the thread are
scheduled); who asks for the wallet mutex again and again gets it some time (strong
fairness of `Acquire`, `RefundStart`: every holder lets go, and the worker sleeps between
two passes); a poll loop reaches its deadline (strong fairness of `Deadline`, since the
loop re-enters the waiting state); and electrum and the store, asked for a refund again
and again, answer some time (`RefundList`, `RefundBroadcast`, `RefundRecord`: the loop
retries for ever). Nothing is assumed of clients, blocks, payments, buyers or crashes,
nor that the first attempt at anything works.

`HtlcSpend!FairSpec`: the network runs a script it was given to its verdict; blocks come
(strong fairness of `Mine`, which waits for each verdict); and the worker, which comes
back every interval, asks for the refund again and again once the height is reached
(strong fairness, since other transactions are judged in between).
`StoreMigration!FairSpec`: a server that does not run is started again, and one that was
started runs its statements. `PaymentPages!FairSpec`: a task that is ready runs, and the
clock passes the deadline; nothing is assumed of the node's settling anything.

## 5. Proofs

All the theorems assume only what the modules declare of their constants (`ASSUME` in
`SwapTypes`, `LiquidChain`, `LiquidWallet`, `SwapServer`): ids are numbers, invoices of
buyers are not the server's own, addresses are one of the two kinds, terms and fees are
natural numbers, `None` is not a value of anything else. `HtlcSpend` adds that digests
are injective and of the right length, that the end of the heights a transaction can be
locked to fits a `u32`, that the amount for sale is a number and that there is a swap;
`SwapApi`, that prices, amounts and subsidies fit a `u64`, `i64` ends no later, a blank
text is a token one can be started with, and `None` is no row and no number;
`StoreMigration`, that old tables have columns of the schema and the key column;
`PaymentPages`, that a page is not empty. `Byte`, `MaxPushNum` and the widths are
constants, so that the theorems are about the sizes of the code too.

| theorem | statement |
|---|---|
| `SwapTypeProofs!TypeCorrect` | `Spec => []TypeOK` |
| `SwapSafetyProofs!Invariance` | `Spec => []IInv` |
| `ClaimsArePaid`, `StoreIsRight`, `RowsBacked`, `RowsOpenTheirHtlc`, `PaymentsAreConfirmed`, `TermsAreKept`, `PreimagesAreProofs` | the seven safety invariants of section 1 |
| `StatusIsMonotone` | `Spec => StatusNeverLosesPayment` |
| `Implementation` | `Spec => ImplementsHtlcSwap` |
| `HtlcSpendProofs!HtlcInvariant`, `HtlcTypeOK` | `Spec => []IInv` of `HtlcSpendProofs`; `TypeOK` |
| `VerdictIsTheRule`, `RefundsWait`, `LookupIsRight` | `VerdictIsChainRule`, `NoRefundBeforeDelta`, `RowFindsHtlc` |
| `ReaderInvertsWriter`, `ReaderIsExact` | `ParseInvertsBuild`, `ParseIsExact` |
| `SwapApiProofs!InvariantHolds`, `TypeCorrect` | `Spec => []IInv` of `SwapApiProofs`; `TypeOK` |
| `AnswersAlwaysAgree`, `PricesAreAlwaysExact`, `QuotesAreAlwaysServed` | `AnswersAgree`, `PricesAreExact`, `QuotesAreServed` |
| `EffectsAreByRole`, `RowsAlwaysKept` | `Spec => EffectsOnlyByRole`; `Spec => [][RowsKept]_vars` |
| `StoreMigrationProofs!MigrationTypeCorrect`, `OpenCompletes`, `OldRowsKept`, `MigrationLosesNothing` | `TypeOK`, `OpenedIsComplete`, `OldRowsKeepMeaning`, `NothingLost` |
| `PaymentPagesProofs!PagesTypeCorrect`, `TimeoutsAreHonest`, `StoredPaymentsArePaid` | `TypeOK`, `TimedOutUnseen`, `StoredIsPaid` |

**The inductive invariant of the server** (`SwapInvariants!IInv`). None of the properties is inductive:
each depends on what a handler carries in its locals between two of its steps. The
parts that say so:

- `LocalsInv`: which locals are set at which `pc`, and that a request before its insert
  has the offer of its quote (a crash ends all requests, so the offer cannot change
  under one).
- `FreshInv`: a swap id belongs to one request until its row is inserted, and its HTLC
  is on the network exactly between funding and insert. This is what makes funding happen
  once per id and the inserted row true.
- `LinkInv`, `PaymentInv`: after the insert, the locals agree with the row; who is about
  to store a preimage or to claim has a settled payment.
- `ClaimerInv`, `WorkerInv`: who is about to record a claim or a refund has it on the
  chain. Together with `SpendsAreFinal` this decides the race of a claim and a refund.
- `TxidInv`: a claim txid is never the refund's.
- `WaitInv`: while a request waits for its funding, nobody else pays, claims or waits for
  its swap, and it is Created or Refunded: why the unconditional Funded hides no payment.
- `DepthInv`: the cached tip never runs ahead of the chain, and a swap someone may pay is
  as deep as its quote asked.

**The argument.** `SwapEffects` goes through the actions once and extracts what the other
proofs need: `WhoWrites` (which steps change which part of the state), `StoreStep` (each
change of the tables is one statement, with its effect on every column), `RequestMoves`
(how one step moves one request), and the facts that never change again: `LocksAreFinal`,
`PaymentsAreFinal`, `SpendsAreFinal`, `QuotesAreFinal`, `RowsAreFinal`. `SwapStepProofs`
has one lemma per part of the invariant, most of them by the few cases of those lemmas
and not by the thirty actions. `SwapSafetyProofs` puts them together; the refinement uses
`WhoWrites` again: only a funding, a spend, a payment step or a block changes what
`HtlcSwap` speaks of, and each maps to one of its actions or to a stutter (a repeated
broadcast of a transaction that is in the mempool).

TLC checked each invariant on the instances of its runs before it was proved.

**`HtlcSpendProofs`.** The invariant follows one HTLC through the program and the
network: the row is about the HTLC that was funded (`FundingKept`, `RowLocks`, `RowKept`,
`RowFindsHtlc`), a transaction is what `htlc.rs` builds from that row (`TxBuilt`), the
interpreter is at a place of that transaction's way through the script
(`MachineRight`), and a verdict is the one the spending rule gives (`VerdictRight`).
`VerdictIsChainRule` alone says nothing of how a verdict comes about, so it needs all of
them.

- *Numbers.* A `u32` is written in at most five bytes, whose digits come to it again
  (`ShiftsAre`, `ScriptintIs`, `MagnitudeIs`, `DecodeInvertsBuild`). `Shifts` has no
  recursion: four divisions exhaust a `u32`. What is pushed is minimal
  (`PushesAreMinimal`), and a number of one or two bytes is read either for what the
  writer makes of it or is padded (`ShortNumber`).
- *The reader.* Each of the 22 instructions is what `Shape` asks for (`OursIsExpected`),
  and a script with another instruction in one place is read only if that one is the
  push, the opcode or the number that building gives (`OtherIsRead`).
- *The interpreter.* One lemma per opcode says what it does to a machine (`DoIf`,
  `DoSha256`, ...); `ClaimAt` and `RefundAt` list the places of a claim and of a refund
  with the stack at each, and the exits where a check fails; `ClaimStep` and `RefundStep`
  prove that an instruction leads from each place to the next. `ClaimEnds` and
  `RefundEnds` read off the last place who can have come there.
- *The transaction.* Both inputs are of the HTLC (`InputsAreOurs`), the signatures cover
  what the network checks (`SignatureIsValid`), the lock time passes
  OP_CHECKLOCKTIMEVERIFY (`LockTimeIsReached`), amounts balance (`TxIsBalanced`) and a
  refund is final from its lock height on (`TxIsFinal`).
- *The outputs.* Any order of the three outputs is a bijection, so the lookup by script
  and asset meets exactly one of each kind; it fails only when both assets are one. A
  saturated height is beyond `LockTimeThreshold`: no refund can be built for it, which is
  why `NoRefundBeforeDelta` holds at the end of the range too.

TLC checked this invariant on the instance of `htlc_spend` before it was proved.

**`SwapApiProofs`.** `AnswersAgree` speaks of messages, and messages outlive the state
they were made in. The invariant ties them to rows: every message printed or answered is
that of a row that is still there (`MessagesFaithful`, a swap's up to the status it had
by then), a quote's total is its product and names the swap made of it (`QuotesAddUp`),
a swap has its quote's terms (`SwapsOnTerms`), the tokens in force tell the parties apart
(`TokensApart`), and an answer about a stored quote is neither a refusal to find nor to
read it (`Served`). It is kept because rows are (`RowsKept`): no step deletes one or
changes its terms, and payment and claim are written once. Each handler is proved in two
parts: what its checks leave (`CreateQuoteChecks`, ...), then its effect.

**`StoreMigrationProofs`.** The invariant says, for each process, which columns the
statements behind it have left: those it has passed, and those it read before another
process could add more. Columns only grow, so what a process has behind it stays true
beside any number of others and after any crash.

**`PaymentPagesProofs`.** An invoice has one entry in the node's list; a settled payment
stays settled; and what a request looked at in its last poll (`look`) is still so when it
reaches its deadline: if the payment was settled and not on the page, a page of others
was listed before it.

**Only model-checked**: the liveness properties (`RequestsEnd`, `ExpiredIsRefunded`,
`HtlcIsSpent`, `OpensInTheEnd`, `WaitsEnd`), which rest on fairness and ENABLED, out of
the prover's reach, and the five violated statements. Every safety and action property
of a passing run is a theorem. `ParseIsExact` is, as a property and as a theorem, about
numbers of at most two bytes in the instruction that is exchanged: longer ones need the
same argument for each further length, which a proof by induction over the bytes would
give and the prover does not have.

## 6. Where documents and code differ otherwise

Met while modelling, and not stated as runs:

- `swap.proto` (lines 40 and 85) says that the implementation supports LN_TO_LIQUID only;
  the service accepts both directions and the models have both.
- A seller who cannot fund is answered like any failure of the blocking task, with
  INTERNAL (`service.rs:628`, `create_swap` of `SwapApi`); `swap.proto:93` says
  FAILED_PRECONDITION.
- An id that is no uuid is looked up and answered NOT_FOUND (`service.rs:386`,
  `get_quote` of `SwapApi`); `swap.proto:61` says INVALID_ARGUMENT if it is malformed.
- `swap.proto:81` says that `CreateSwap` waits for the confirmations; a repeated call is
  answered from the row at once (`CreateReplay`), also while the first one still waits or
  after its wait failed.
- `migrate` creates the index on `quotes.swap_id` (`store.rs:500`) before it would add
  that column to a table without it (`store.rs:576`): such a database never opens, and
  the statement that adds the column is never reached for it. The run `migration` has such
  files; `OpensInTheEnd` is stated for the others (`Migratable`).
- Two processes that migrate one file can meet: the one that read the columns first fails
  on an `ALTER TABLE` for a column that is there by then. It gets through when it is
  started again (`OpensInTheEnd`).
- The reader of scripts takes numbers padded with zero bytes, which the builder never
  makes and the network refuses (`ParseIsExact`). Nothing in the repository calls the
  reader.
- When the asset for sale is the policy asset itself, the lookup of the subsidy output
  fails after the broadcast and the HTLC is in no row (`RowFindsHtlc`).
- `create_lightning_payment` writes Paid whatever the status is by then (`PayPersist`,
  `service.rs:729`): over Refunded when the payment settles after the refund, and over
  Claimed when two requests found one payment settled and the swap was claimed between
  their writes. The preimage and the claim txid stay right (`PreimageIsProof`,
  `StoreAgreesWithChain`); the status is behind the chain. The plan quoted for
  `RefundedStays` has neither transition.
- `SwapStatus::Failed` is never written.

## 7. Plan

Next, in this order:

1. Properties to add to the server: an HTLC without a row is only ever left by a crash or
   an error after the funding; a refund the worker broadcast is recorded unless the
   process died in that pass; a paid swap whose claimer's key is the server's can be
   claimed until its refund height. Their proofs from `IInv`.
2. `ReaderIsExact` for scripts that differ in any number of instructions, and for numbers
   of all the lengths the reader takes.

## 8. Not modelled

- Chain reorganisations, eviction from the mempool, fee market: the code has no handling
  of them, electrum is taken as it answers.
- Payments of the server's own invoices from outside: the model has the payments
  `CreateLightningPayment` sends through the server's one LDK client.
- A change of the key indexes or the mnemonic over a restart.
- Coin selection, blinding and signing of the funding, serialization: lwk and elements
  libraries. The signatures of claims and refunds are modelled by what they cover.
- The node's and the network's own rules (which payments are duplicates, the order of
  `ListPayments`, the script interpreter) are modelled as external, from how the code uses
  them; where the code does not say, both choices are taken (`listing`).
- Key derivation (`keys.rs`): one deterministic call. Proto and logging: no state. gRPC
  transport and TLS: a request that is lost or answered, `Disconnect` in `SwapApi`.
- The refund worker is not in `SwapApi`, nor are concurrent requests: both are in
  `SwapServer`, which has no prices and codes.
